---------------------------- MODULE StoreRecovery ----------------------------
(***************************************************************************)
(* Opening, backing up and recovering a profile's store file               *)
(* (desktop/main/backend/store/backup.ts, store/recovery.ts,               *)
(* store/sqlite-store.ts and recoverOrDegradeStore of backend/index.ts),   *)
(* with damage to the file, a foreign connection that reads it, copies,    *)
(* removals and opens of a recovery that fail, and a process that dies     *)
(* between any two of these steps.                                         *)
(*                                                                         *)
(* What a database holds is the set of its commits.  The log (-wal) leads  *)
(* from one such set to a later one; SQLite applies it to whatever file    *)
(* lies beside it, and over a file it does not lead on from the result is  *)
(* Mixed.  "broken" damage makes the open fail, "hidden" damage only the   *)
(* integrity check.  A file that does not fit has other embedding dims or  *)
(* a newer schema than this build.  The newest backup is the last one: the *)
(* clock that names them is not set back.                                  *)
(***************************************************************************)
EXTENDS Integers, Sequences

CONSTANTS
    MaxCommits,      \* bound: transactions
    MaxBackups,      \* bound: published backups
    MaxDamages,      \* bound: how often the file is damaged
    MaxCuts,         \* bound: how often the process dies
    DimsConfigured,  \* the host is given storeEmbeddingDims
    Scope,           \* "exclusive": a foreign connection may lock the file
    Absent, NoWal, NoCopy, NoReader, NoPromise, Mixed

ASSUME BoundsAssumption ==
    MaxCommits \in Nat /\ MaxBackups \in Nat \ {0} /\ MaxDamages \in Nat /\ MaxCuts \in Nat
ASSUME DimsAssumption == DimsConfigured \in BOOLEAN
ASSUME ScopeAssumption == Scope \subseteq {"exclusive"}

VARIABLES
    main,      \* the store file
    wal,       \* its log
    backups,   \* <backupsDir>/<timestamp>/store.sqlite, oldest first
    copy,      \* the .part of the backup under way
    reader,    \* the snapshot a foreign connection reads
    phase,     \* where the host is
    headless,  \* no prompt is wired
    latest,    \* the last committed state
    promised,  \* what the last recovery put in place, until a host serves
    mishaps,   \* what failed of it or was cut, until a host serves
    commits, damages, cuts

files == <<main, wal, backups>>
bounds == <<commits, damages, cuts>>
recovery == <<promised, mishaps>>
vars == <<main, wal, backups, copy, reader, phase, headless, latest, promised, mishaps,
          commits, damages, cuts>>

Commits == 1..MaxCommits
States == SUBSET Commits
Health == {"good", "hidden", "broken"}
File == [data: States \cup {Mixed}, health: Health, fit: BOOLEAN]
Backup == [file: File, made: States \cup {Mixed}]

ASSUME MarkersAssumption ==
    /\ Absent \notin File /\ NoWal \notin [base: States, top: States]
    /\ NoCopy \notin Backup /\ NoPromise # Mixed
    /\ \A s \in States : NoReader # s /\ Mixed # s /\ NoPromise # s

Recovering == {"asked", "copying", "copied", "emptying", "reopening"}
Phases == Recovering \cup {"down", "up", "backing", "degraded"}

Fresh == [data |-> {}, health |-> "good", fit |-> TRUE]

TypeOK ==
    /\ main \in File \cup {Absent}
    /\ wal \in [base: States, top: States] \cup {NoWal}
    /\ backups \in Seq(Backup) /\ Len(backups) <= MaxBackups
    /\ copy \in Backup \cup {NoCopy} /\ (copy # NoCopy <=> phase = "backing")
    /\ reader \in States \cup {NoReader}
    /\ phase \in Phases /\ headless \in BOOLEAN
    /\ latest \in States
    /\ promised \in States \cup {Mixed, NoPromise}
    /\ mishaps \subseteq {"copy", "file", "log", "open"}
    /\ commits \in 0..MaxCommits /\ damages \in 0..MaxDamages /\ cuts \in 0..MaxCuts

\* A store and a backups directory that an earlier, perhaps newer, build left.
Init ==
    /\ main \in {Absent, Fresh, [Fresh EXCEPT !.fit = FALSE]}
    /\ wal = NoWal
    /\ backups \in {<<>>, <<[file |-> [Fresh EXCEPT !.fit = FALSE], made |-> {}]>>}
    /\ copy = NoCopy /\ reader = NoReader
    /\ phase = "down" /\ headless \in BOOLEAN
    /\ latest = {}
    /\ promised = NoPromise /\ mishaps = {}
    /\ commits = 0 /\ damages = 0 /\ cuts = 0

-----------------------------------------------------------------------------
(* SQLite.                                                                 *)

\* The log goes on from the file.
LeadsOn(f, w) == f.data # Mixed /\ w.base \subseteq f.data /\ f.data \subseteq w.top

\* What a connection sees.
Seen(f, w) ==
    IF f = Absent THEN {}
    ELSE IF w = NoWal THEN f.data
    ELSE IF LeadsOn(f, w) THEN w.top ELSE Mixed

Held == Seen(main, wal)

\* The file and the log after an open: a file that is not there is created and
\* a log without its file deleted; a log is applied to any file.
AfterOpen(f, w) ==
    IF f = Absent THEN {[file |-> Fresh, log |-> NoWal]}
    ELSE IF w = NoWal \/ LeadsOn(f, w) THEN {[file |-> f, log |-> w]}
    ELSE {[file |-> [f EXCEPT !.data = Mixed, !.health = h], log |-> NoWal] : h \in Health}

\* openStore throws.
Rejected(f) == f.health = "broken" \/ ~f.fit

\* The pages a checkpoint can write back: a reader holds back what is newer
\* than its snapshot.
WrittenBack ==
    IF wal = NoWal \/ main.data = Mixed THEN main
    ELSE [main EXCEPT !.data = IF reader = NoReader THEN wal.top ELSE @ \cup reader]

-----------------------------------------------------------------------------
(* The store in use.                                                       *)

\* A log that is written back and not read is begun anew.
Commit ==
    /\ phase = "up" /\ commits < MaxCommits
    /\ Held # Mixed
    /\ commits' = commits + 1
    /\ LET new == Held \cup {commits + 1}
           anew == wal = NoWal \/ (main.data = wal.top /\ reader = NoReader)
       IN /\ wal' = [base |-> IF anew THEN main.data ELSE wal.base, top |-> new]
          /\ latest' = new
    /\ UNCHANGED <<main, backups, copy, reader, phase, headless, recovery, damages, cuts>>

Checkpoint ==
    /\ phase = "up" /\ wal # NoWal
    /\ main' = WrittenBack
    /\ main' # main
    /\ UNCHANGED <<wal, backups, copy, reader, phase, headless, latest, recovery, bounds>>

ReaderBegins ==
    /\ phase = "up" /\ reader = NoReader /\ Held # Mixed
    /\ reader' = Held
    /\ UNCHANGED <<files, copy, phase, headless, latest, recovery, bounds>>

ReaderEnds ==
    /\ reader # NoReader
    /\ reader' = NoReader
    /\ UNCHANGED <<files, copy, phase, headless, latest, recovery, bounds>>

\* A disk or another program damages the file.
Damage ==
    /\ phase \in {"down", "up", "degraded"}
    /\ damages < MaxDamages
    /\ main # Absent /\ main.health # "broken"
    /\ damages' = damages + 1
    /\ \E h \in {"hidden", "broken"} : main' = [main EXCEPT !.health = h]
    /\ UNCHANGED <<wal, backups, copy, reader, phase, headless, latest, recovery, commits, cuts>>

-----------------------------------------------------------------------------
(* createBackup.                                                           *)

\* Mutant: a checkpoint that was held back is good enough.
CheckpointTaken(f) == TRUE

\* busy # 0 and checkpointed # log refuse the backup.
CheckpointComplete(f) == wal = NoWal \/ f.data \in {wal.top, Mixed}

\* The checkpoint, and the copy to the .part when it was complete; otherwise
\* the backup is refused.
BackupCopies ==
    /\ phase = "up" /\ Len(backups) < MaxBackups
    /\ LET f == WrittenBack IN
       /\ main' = f
       /\ IF CheckpointComplete(f)
          THEN /\ wal' = IF reader = NoReader THEN NoWal ELSE wal
               /\ copy' = [file |-> f, made |-> Held]
               /\ phase' = "backing"
          ELSE UNCHANGED <<wal, copy, phase>>
    /\ UNCHANGED <<backups, reader, headless, latest, recovery, bounds>>

BackupPublished ==
    /\ phase = "backing"
    /\ backups' = Append(backups, copy)
    /\ copy' = NoCopy /\ phase' = "up"
    /\ UNCHANGED <<main, wal, reader, headless, latest, recovery, bounds>>

\* The copy or the rename fails; the .part is removed.
BackupFails ==
    /\ phase = "backing"
    /\ copy' = NoCopy /\ phase' = "up"
    /\ UNCHANGED <<files, reader, headless, latest, recovery, bounds>>

-----------------------------------------------------------------------------
(* The start of the host.                                                  *)

\* recoverOrDegradeStore recovers a file that is there and fails integrity.
\* Anything else that kept the store from opening leaves the host without one.
Damaged(f) == f # Absent /\ f.health # "good"

\* A store that serves has settled what a recovery left.
Settled ==
    /\ promised' = IF phase' = "up" THEN NoPromise ELSE promised
    /\ mishaps' = IF phase' = "up" THEN {} ELSE mishaps

Start ==
    /\ phase = "down"
    /\ \E o \in AfterOpen(main, wal) :
           /\ main' = o.file /\ wal' = o.log
           /\ phase' = IF ~Rejected(o.file) THEN "up"
                       ELSE IF Damaged(o.file) THEN "asked" ELSE "degraded"
    /\ Settled
    /\ UNCHANGED <<backups, copy, reader, headless, latest, bounds>>

\* The open fails because of a foreign connection, whatever the file is like.
\* An exclusive lock also fails the integrity check, which takes that, as any
\* error but the addon's, for damage.
StartLocked ==
    /\ phase = "down" /\ main # Absent
    /\ \E exclusive \in {FALSE, "exclusive" \in Scope} :
           phase' = IF Damaged(main) \/ exclusive THEN "asked" ELSE "degraded"
    /\ UNCHANGED <<files, copy, reader, headless, latest, recovery, bounds>>

\* Mutant: an addon that cannot be loaded counts as damage.
UnloadedPhase == IF main = Absent THEN "degraded" ELSE "asked"

\* The native addon cannot be loaded: nothing can be said of the file.
AddonMissingPhase == "degraded"

StartWithoutAddon ==
    /\ phase = "down"
    /\ phase' = AddonMissingPhase
    /\ UNCHANGED <<files, copy, reader, headless, latest, recovery, bounds>>

-----------------------------------------------------------------------------
(* recoverStore.                                                           *)

\* Mutant: a host without a prompt always restores.
AnswersRestore == IF headless THEN {"restore"} ELSE {"restore", "fresh"}

\* Without a prompt: restore when there is a backup, else start fresh.
Answers ==
    IF headless THEN {IF backups # <<>> THEN "restore" ELSE "fresh"}
    ELSE {"restore", "fresh"}

Newest == backups[Len(backups)]

\* restoreBackup opens the newest backup and compares schema and dims with the
\* ones the host was given.
Restorable ==
    /\ backups # <<>>
    /\ LET f == Newest.file IN f.health # "broken" /\ f.fit
    /\ DimsConfigured

\* A copy that is cut: an empty file, which is as none, or a part of one.
TornFiles == {Absent} \cup {[main EXCEPT !.data = Mixed, !.health = h] : h \in {"hidden", "broken"}}

\* "restore": the newest backup is copied over the file, of which the copy has
\* written nothing yet or a part.  Whoever reads the file that is replaced
\* here, or deleted below, has no part in the new one.
ChooseRestore ==
    /\ phase = "asked" /\ "restore" \in Answers
    /\ IF Restorable
       THEN phase' = "copying" /\ main' \in {main} \cup TornFiles
       ELSE phase' = "degraded" /\ UNCHANGED main
    /\ reader' = IF main' = main THEN reader ELSE NoReader
    /\ promised' = NoPromise /\ mishaps' = {}
    /\ UNCHANGED <<wal, backups, copy, headless, latest, bounds>>

Copied ==
    /\ phase = "copying"
    /\ main' = Newest.file
    /\ promised' = Newest.file.data
    /\ phase' = "copied"
    /\ reader' = NoReader
    /\ UNCHANGED <<wal, backups, copy, headless, latest, mishaps, bounds>>

\* The copy throws: no room is left, or the file is locked.  What it had
\* written stays.
CopyFails ==
    /\ phase = "copying"
    /\ phase' = "degraded"
    /\ mishaps' = mishaps \cup {"copy"}
    /\ UNCHANGED <<files, copy, reader, headless, latest, promised, bounds>>

\* Mutant: the log stays.
LogKept == wal

LogRemoved == NoWal

\* The log of the store that was replaced is removed; when that fails the log
\* stays and the recovery goes on.
RemoveLog ==
    /\ phase = "copied"
    /\ \/ wal' = LogRemoved /\ UNCHANGED mishaps
       \/ wal # NoWal /\ UNCHANGED wal /\ mishaps' = mishaps \cup {"log"}
    /\ phase' = "reopening"
    /\ UNCHANGED <<main, backups, copy, reader, headless, latest, promised, bounds>>

\* "fresh": the file is deleted, then its log; a failure of either is ignored.
ChooseFresh ==
    /\ phase = "asked" /\ "fresh" \in Answers
    /\ \/ main' = Absent /\ reader' = NoReader /\ mishaps' = {}
       \/ UNCHANGED <<main, reader>> /\ mishaps' = {"file"}
    /\ promised' = {}
    /\ phase' = "emptying"
    /\ UNCHANGED <<wal, backups, copy, headless, latest, bounds>>

\* A log whose file is gone needs no removal: the open deletes it.  The schema
\* needs the dims.
Emptied ==
    /\ phase = "emptying"
    /\ \/ wal' = NoWal /\ reader' = NoReader
       \/ UNCHANGED <<wal, reader>>
    /\ phase' = IF DimsConfigured THEN "reopening" ELSE "degraded"
    /\ UNCHANGED <<main, backups, copy, headless, latest, recovery, bounds>>

Reopen ==
    /\ phase = "reopening"
    /\ \E o \in AfterOpen(main, wal) :
           /\ main' = o.file /\ wal' = o.log
           /\ phase' = IF Rejected(o.file) THEN "degraded" ELSE "up"
           /\ latest' = IF o.file.data = Mixed THEN latest ELSE Seen(o.file, o.log)
    /\ Settled
    /\ UNCHANGED <<backups, copy, reader, headless, bounds>>

\* A foreign connection, or an extension that does not load, keeps the store from
\* opening before SQLite has touched it or after.
ReopenRefused ==
    /\ phase = "reopening"
    /\ \E o \in AfterOpen(main, wal) \cup {[file |-> main, log |-> wal]} :
           main' = o.file /\ wal' = o.log
    /\ phase' = "degraded"
    /\ mishaps' = mishaps \cup {"open"}
    /\ UNCHANGED <<backups, copy, reader, headless, latest, promised, bounds>>

-----------------------------------------------------------------------------
\* close() of the last connection writes the log back and deletes it.
Stop ==
    /\ phase \in {"up", "degraded"}
    /\ phase' = "down"
    /\ IF phase = "up" /\ reader = NoReader
       THEN main' = WrittenBack /\ wal' = NoWal
       ELSE UNCHANGED <<main, wal>>
    /\ UNCHANGED <<backups, copy, reader, headless, latest, recovery, bounds>>

\* The process dies; a .part is never selected again, and nobody removes the log
\* that it had yet to remove.
Crash ==
    /\ phase # "down"
    /\ cuts < MaxCuts
    /\ cuts' = cuts + 1
    /\ phase' = "down"
    /\ copy' = NoCopy
    /\ mishaps' = IF phase = "copied" /\ wal # NoWal THEN mishaps \cup {"log"} ELSE mishaps
    /\ UNCHANGED <<files, reader, headless, latest, promised, commits, damages>>

\* What the code does by itself; a prompt waits for a person.
Working ==
    \/ BackupPublished \/ BackupFails
    \/ headless /\ (ChooseRestore \/ ChooseFresh)
    \/ Copied \/ CopyFails \/ RemoveLog \/ Emptied \/ Reopen \/ ReopenRefused

Next ==
    \/ Commit \/ Checkpoint \/ ReaderBegins \/ ReaderEnds \/ Damage
    \/ BackupCopies \/ Start \/ StartLocked \/ StartWithoutAddon
    \/ Working \/ ChooseRestore \/ ChooseFresh \/ Stop \/ Crash

Spec == Init /\ [][Next]_vars

FairSpec == Spec /\ WF_vars(Working)
-----------------------------------------------------------------------------
(* Properties.                                                             *)

\* A backup that was reported as made holds everything that was committed when
\* it was asked for, although a foreign reader may hold the log back.
BackupsAreComplete == \A i \in DOMAIN backups : backups[i].file.data = backups[i].made

\* Locks, missing addons, files of other builds, stops and crashes lose no
\* commit of a store that nothing ever damaged: no recovery takes it away.
NothingLostUndamaged == damages = 0 => Held = latest

\* What a host serves after a recovery, at once or after deaths of the process
\* and starts that failed, is exactly the newest backup, or nothing when it
\* started fresh: no log of the store that was replaced finds its way into it.
\* This is for recoveries whose old file and old log did go: a log that outlived
\* the copy, as its removal failed or the process died before it, is applied to
\* the backup (RecoveryIsExact), and a log that outlived a deleted file is not.
Serves == phase \in {"down", "reopening"} /\ phase' = "up" /\ promised # NoPromise

RecoveredIsBackup ==
    [][Serves /\ mishaps \cap {"file", "log"} = {} => Held' = promised]_vars

\* "Replace the active store with a VALIDATED backup", and "deletion failures
\* resurface on the open below": this also for the other recoveries.  It does not
\* hold.
RecoveryIsExact == [][Serves => Held' = promised]_vars

\* A host without a prompt that has the dims serves again when the newest backup
\* is valid or there is none at all, unless the process dies, or one of the
\* recovery's copies, removals and opens fails: then it may stay without a store.
HeadlessRecovers ==
    headless /\ DimsConfigured /\ phase = "asked" /\ (backups = <<>> \/ Restorable)
        ~> phase \in {"up", "down"} \/ (phase = "degraded" /\ mishaps # {})

\* "The host only degrades (null store) when recovery is impossible": whoever
\* chooses the newest backup gets it when it is sound, of this schema and of the
\* store's dims.
ValidBackupIsRestored ==
    [][phase = "asked" /\ phase' = "degraded" =>
         ~(backups # <<>> /\ Newest.file.fit
             /\ Newest.file.health = "good")]_vars
=============================================================================
