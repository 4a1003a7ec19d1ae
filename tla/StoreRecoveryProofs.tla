------------------------- MODULE StoreRecoveryProofs -------------------------
(***************************************************************************)
(* What opening, backing up and recovering a store guarantee for every     *)
(* number of commits, backups, damages and deaths of the process.          *)
(***************************************************************************)
EXTENDS StoreRecovery, SequenceTheorems, TLAPS

\* The log leads on from the file, or there is no telling.
InStep == main = Absent \/ main.data = Mixed \/ wal = NoWal \/ LeadsOn(main, wal)

\* A store in use is there, and its log leads on from it.
UseInStep == phase \in {"up", "backing"} => main # Absent /\ InStep

\* A foreign reader reads what is there.
ReaderSees == reader # NoReader => main # Absent /\ Held \in States /\ reader \subseteq Held

\* Every backup, and the one under way, is what was committed when it was made.
CopyIsComplete == copy # NoCopy => copy.file.data = copy.made

\* How far a backup or a recovery has come.
Progress ==
    /\ phase = "backing" => Len(backups) < MaxBackups
    /\ phase = "asked" => main # Absent
    /\ phase \in {"copying", "copied"} => backups # <<>>
    /\ phase = "copied" => main # Absent /\ main = Newest.file /\ reader = NoReader
    /\ phase = "emptying" /\ mishaps = {} => main = Absent
    /\ phase = "reopening" /\ mishaps = {} =>
          main = Absent \/ (wal = NoWal /\ backups # <<>> /\ main = Newest.file)

IInv == /\ TypeOK /\ UseInStep /\ ReaderSees /\ CopyIsComplete /\ BackupsAreComplete /\ Progress

\* A store that nothing damaged is sound, never recovered, and holds what was
\* committed last.
Undamaged == damages = 0 =>
    /\ phase \notin Recovering
    /\ main # Absent => main.health = "good" /\ main.data # Mixed
    /\ main = Absent => wal = NoWal
    /\ InStep
    /\ Held = latest

-----------------------------------------------------------------------------
(* SQLite.                                                                 *)

LEMMA FileFields ==
    ASSUME NEW f \in File
    PROVE  /\ f.data \in States \cup {Mixed} /\ f.health \in Health /\ f.fit \in BOOLEAN
           /\ \A d \in States \cup {Mixed}, h \in Health :
                 /\ [f EXCEPT !.data = d] \in File
                 /\ [f EXCEPT !.health = h] \in File
                 /\ [f EXCEPT !.data = d, !.health = h] \in File
           /\ f # Absent
  BY MarkersAssumption DEF File

LEMMA FreshIsAFile == Fresh \in File /\ Fresh # Absent /\ Fresh.data # Mixed
<1>1. Fresh \in File /\ Fresh.data \in States
  BY DEF Fresh, File, States, Health
<1> QED
  BY <1>1, MarkersAssumption

\* An open leaves a file whose log leads on from it, and what is seen through
\* both is what was seen before, if there was a telling.
LEMMA OpenKeeps ==
    ASSUME NEW f \in File \cup {Absent},
           NEW w \in [base: States, top: States] \cup {NoWal},
           NEW o \in AfterOpen(f, w)
    PROVE  /\ o.file \in File /\ o.log \in [base: States, top: States] \cup {NoWal}
           /\ o.log = NoWal \/ LeadsOn(o.file, o.log)
           /\ f # Absent => \/ o.file = f /\ o.log = w
                            \/ o.file.data = Mixed /\ o.log = NoWal
           /\ f # Absent /\ (w = NoWal \/ LeadsOn(f, w)) => o.file = f /\ o.log = w
           /\ f = Absent => o.file = Fresh /\ o.log = NoWal
<1>1. CASE f = Absent
  <2>1. o.file = Fresh /\ o.log = NoWal
    BY <1>1 DEF AfterOpen
  <2> QED
    BY <1>1, <2>1, FreshIsAFile
<1>2. CASE f # Absent /\ (w = NoWal \/ LeadsOn(f, w))
  <2>1. AfterOpen(f, w) = {[file |-> f, log |-> w]}
    BY <1>2 DEF AfterOpen, LeadsOn
  <2>2. o.file = f /\ o.log = w
    BY <2>1
  <2>3. o.log = NoWal \/ LeadsOn(o.file, o.log)
    <3>1. CASE w = NoWal
      BY <2>2, <3>1
    <3>2. CASE LeadsOn(f, w)
      BY <2>2, <3>2 DEF LeadsOn
    <3> QED
      BY <1>2, <3>1, <3>2
  <2>4. o.file \in File /\ o.log \in [base: States, top: States] \cup {NoWal}
    BY <1>2, <2>2
  <2> QED
    BY <1>2, <2>2, <2>3, <2>4, Zenon
<1>3. CASE f # Absent /\ ~(w = NoWal \/ LeadsOn(f, w))
  <2>1. PICK h \in Health : o = [file |-> [f EXCEPT !.data = Mixed, !.health = h], log |-> NoWal]
    BY <1>3 DEF AfterOpen
  <2>2. o.file = [f EXCEPT !.data = Mixed, !.health = h] /\ o.log = NoWal
    BY <2>1
  <2>3. o.file \in File /\ o.file.data = Mixed
    BY <1>3, <2>2 DEF File
  <2> QED
    BY <1>3, <2>2, <2>3
<1> QED
  BY <1>1, <1>2, <1>3

\* A checkpoint writes back nothing that is not committed.
LEMMA WriteBackKeeps ==
    ASSUME TypeOK, main # Absent, InStep, ReaderSees
    PROVE  /\ WrittenBack \in File /\ WrittenBack.health = main.health
           /\ main.data = Mixed <=> WrittenBack.data = Mixed
           /\ wal = NoWal \/ main.data = Mixed => WrittenBack = main
           /\ wal # NoWal /\ main.data # Mixed =>
                 /\ LeadsOn(WrittenBack, wal) /\ Held = wal.top
                 /\ reader = NoReader => WrittenBack.data = wal.top
<1>1. /\ main \in File /\ main.data \in States \cup {Mixed} /\ main.health \in Health
      /\ wal # NoWal => wal.base \in States /\ wal.top \in States
  BY FileFields DEF TypeOK
<1>2. CASE wal = NoWal \/ main.data = Mixed
  <2>1. WrittenBack = main
    BY <1>2 DEF WrittenBack
  <2> QED
    BY <1>1, <1>2, <2>1
<1>3. CASE wal # NoWal /\ main.data # Mixed
  <2> DEFINE d == IF reader = NoReader THEN wal.top ELSE main.data \cup reader
  <2>1. WrittenBack = [main EXCEPT !.data = d]
    BY <1>3 DEF WrittenBack
  <2>2. LeadsOn(main, wal) /\ Held = wal.top
    BY <1>3 DEF InStep, Held, Seen
  <2>3. /\ wal.base \subseteq d /\ d \subseteq wal.top /\ d \in States
        /\ reader = NoReader => d = wal.top
    <3>1. CASE reader = NoReader
      BY <1>1, <1>3, <2>2, <3>1 DEF LeadsOn
    <3>2. CASE reader # NoReader
      BY <1>1, <1>3, <2>2, <3>2 DEF LeadsOn, ReaderSees, States
    <3> QED
      BY <3>1, <3>2
  <2> HIDE DEF d
  <2>4. /\ WrittenBack \in File /\ WrittenBack.data = d /\ WrittenBack.health = main.health
    BY <1>1, <2>1, <2>3 DEF File
  <2>5. d # Mixed
    BY <2>3, MarkersAssumption
  <2> QED
    BY <1>3, <2>2, <2>3, <2>4, <2>5 DEF LeadsOn
<1> QED
  BY <1>2, <1>3

LEMMA InitHolds == Init => IInv /\ Undamaged
<1> SUFFICES ASSUME Init PROVE IInv /\ Undamaged
  OBVIOUS
<1>1. Fresh \in File /\ [Fresh EXCEPT !.fit = FALSE] \in File
  BY DEF Fresh, File, States, Health
<1>2. [file |-> [Fresh EXCEPT !.fit = FALSE], made |-> {}] \in Backup
  BY <1>1 DEF Backup, States
<1>3. /\ backups \in Seq(Backup) /\ Len(backups) <= MaxBackups
      /\ \A i \in DOMAIN backups : backups[i].file.data = backups[i].made
  <2>1. CASE backups = <<>>
    BY <2>1, BoundsAssumption, EmptySeq
  <2>2. CASE backups = <<[file |-> [Fresh EXCEPT !.fit = FALSE], made |-> {}]>>
    <3>1. backups \in Seq(Backup) /\ Len(backups) = 1 /\ DOMAIN backups = 1..1
      BY <2>2, <1>2
    <3>2. backups[1].file.data = backups[1].made
      BY <2>2 DEF Fresh
    <3> QED
      BY <3>1, <3>2, BoundsAssumption
  <2> QED
    BY <2>1, <2>2 DEF Init
<1>4. TypeOK
  <2>1. main \in File \cup {Absent} /\ latest \in States /\ phase \in Phases
    BY <1>1 DEF Init, States, Phases
  <2>2. commits \in 0..MaxCommits /\ damages \in 0..MaxDamages /\ cuts \in 0..MaxCuts
    BY BoundsAssumption DEF Init
  <2> QED
    BY <1>3, <2>1, <2>2 DEF Init, TypeOK
<1>5. BackupsAreComplete
  BY <1>3 DEF BackupsAreComplete
<1>6. IInv
  BY <1>4, <1>5 DEF Init, IInv, UseInStep, ReaderSees, CopyIsComplete, Progress, Recovering
<1>7. Held = {} /\ (main # Absent => main.health = "good" /\ main.data = {})
  BY DEF Init, Held, Seen, Fresh
<1>8. Undamaged
  BY <1>7, MarkersAssumption DEF Init, Undamaged, Recovering, InStep, States
<1> QED
  BY <1>6, <1>8

-----------------------------------------------------------------------------
(* Every step keeps the invariant.                                         *)

\* Steps that leave the files, the reader and the backup under way alone.
LEMMA FilesKept ==
    ASSUME IInv, UNCHANGED <<main, wal, backups, copy, reader>>
    PROVE  /\ ReaderSees' /\ CopyIsComplete' /\ BackupsAreComplete'
           /\ (phase' \in {"up", "backing"} => main # Absent /\ InStep) => UseInStep'
           /\ Held' = Held /\ InStep' = InStep
  BY DEF IInv, ReaderSees, CopyIsComplete, BackupsAreComplete, UseInStep, InStep, Held

\* Another database in place of the file, which nobody reads.
LEMMA FileReplaced ==
    ASSUME IInv, reader' = NoReader, UNCHANGED <<backups, copy>>,
           phase' \notin {"up", "backing"}
    PROVE  ReaderSees' /\ CopyIsComplete' /\ BackupsAreComplete' /\ UseInStep'
  BY DEF IInv, ReaderSees, CopyIsComplete, BackupsAreComplete, UseInStep

LEMMA StepKeeps == IInv /\ [Next]_vars => IInv'
<1> SUFFICES ASSUME IInv, [Next]_vars PROVE IInv'
  OBVIOUS
<1> USE DEF bounds, files, recovery
<1>a. /\ main \in File \cup {Absent}
      /\ wal \in [base: States, top: States] \cup {NoWal}
      /\ backups \in Seq(Backup) /\ Len(backups) <= MaxBackups /\ Len(backups) \in Nat
      /\ DOMAIN backups = 1..Len(backups)
      /\ copy \in Backup \cup {NoCopy} /\ (copy # NoCopy <=> phase = "backing")
      /\ reader \in States \cup {NoReader}
      /\ phase \in Phases /\ headless \in BOOLEAN /\ latest \in States
      /\ promised \in States \cup {Mixed, NoPromise}
      /\ mishaps \subseteq {"copy", "file", "log", "open"}
      /\ commits \in 0..MaxCommits /\ damages \in 0..MaxDamages /\ cuts \in 0..MaxCuts
  BY LenProperties DEF IInv, TypeOK
<1>b. UseInStep /\ ReaderSees /\ CopyIsComplete /\ BackupsAreComplete /\ Progress
  BY DEF IInv
<1>c. backups # <<>> => Newest \in Backup /\ Newest.file \in File /\ Newest.file # Absent
  <2>1. ASSUME backups # <<>> PROVE Len(backups) \in 1..Len(backups)
    BY <1>a, <2>1, EmptySeq
  <2>2. ASSUME backups # <<>> PROVE Newest \in Backup
    BY <1>a, <2>1, <2>2, ElementOfSeq DEF Newest
  <2> QED
    BY <2>2, MarkersAssumption DEF Backup
<1>d. Held \in States \cup {Mixed}
  BY <1>a, FileFields DEF Held, Seen, States
<1>1. CASE Commit
  <2> DEFINE new == Held \cup {commits + 1}
             anew == wal = NoWal \/ (main.data = wal.top /\ reader = NoReader)
             base == IF anew THEN main.data ELSE wal.base
  <2>1. /\ phase = "up" /\ commits < MaxCommits /\ Held # Mixed /\ commits' = commits + 1
        /\ wal' = [base |-> base, top |-> new] /\ latest' = new
        /\ UNCHANGED <<main, backups, copy, reader, phase, headless, recovery, damages, cuts>>
    BY <1>1 DEF Commit
  <2>2. /\ main # Absent /\ main \in File /\ main.data \in States /\ main.data # Mixed
        /\ main.data \subseteq Held /\ Held \in States
        /\ wal # NoWal => wal.base \subseteq main.data /\ wal.base \in States
    <3>1. main # Absent /\ main \in File /\ InStep
      BY <1>a, <1>b, <2>1 DEF UseInStep
    <3>2. main.data # Mixed
      BY <2>1, <3>1 DEF Held, Seen, LeadsOn
    <3>3. main.data \in States
      BY <3>1, <3>2, FileFields
    <3> QED
      BY <1>a, <1>d, <2>1, <3>1, <3>2, <3>3 DEF InStep, Held, Seen, LeadsOn
  <2>3. new \in States /\ base \in States /\ base \subseteq main.data /\ main.data \subseteq new
    BY <1>a, <2>1, <2>2, BoundsAssumption DEF States, Commits
  <2> HIDE DEF new, base
  <2>4. wal' \in [base: States, top: States] /\ wal' # NoWal /\ LeadsOn(main, wal')
    BY <2>1, <2>2, <2>3, MarkersAssumption DEF LeadsOn
  <2>5. Held' = new
    BY <2>1, <2>2, <2>4 DEF Held, Seen
  <2>6. commits' \in 0..MaxCommits
    BY <1>a, <2>1, BoundsAssumption
  <2>7. TypeOK'
    BY <1>a, <2>1, <2>3, <2>4, <2>6 DEF TypeOK
  <2>8. UseInStep' /\ ReaderSees'
    BY <1>b, <2>1, <2>2, <2>3, <2>4, <2>5 DEF UseInStep, InStep, ReaderSees, new
  <2> QED
    BY <1>b, <2>1, <2>7, <2>8 DEF IInv, CopyIsComplete, BackupsAreComplete, Progress
<1>2. CASE Checkpoint
  <2>1. /\ phase = "up" /\ wal # NoWal /\ main' = WrittenBack
        /\ UNCHANGED <<wal, backups, copy, reader, phase, headless, latest, recovery, bounds>>
    BY <1>2 DEF Checkpoint
  <2>2. main # Absent /\ InStep
    BY <1>b, <2>1 DEF UseInStep
  <2>3. /\ WrittenBack \in File /\ WrittenBack # Absent
        /\ wal = NoWal \/ main.data = Mixed => WrittenBack = main
        /\ wal # NoWal /\ main.data # Mixed => LeadsOn(WrittenBack, wal) /\ Held = wal.top
    BY <2>2, <1>b, WriteBackKeeps, MarkersAssumption DEF IInv
  <2>4. TypeOK' /\ UseInStep'
    BY <1>a, <2>1, <2>2, <2>3 DEF TypeOK, UseInStep, InStep
  <2>5. Held' = Held
    BY <2>1, <2>2, <2>3 DEF Held, Seen
  <2>6. ReaderSees'
    BY <1>b, <2>1, <2>3, <2>5 DEF ReaderSees
  <2> QED
    BY <1>b, <2>1, <2>4, <2>6 DEF IInv, CopyIsComplete, BackupsAreComplete, Progress
<1>3. CASE ReaderBegins
  <2>1. /\ phase = "up" /\ Held # Mixed /\ reader' = Held
        /\ UNCHANGED <<main, wal, backups, copy, phase, headless, latest, recovery, bounds>>
    BY <1>3 DEF ReaderBegins
  <2>2. Held' = Held /\ Held \in States /\ main # Absent
    BY <1>b, <1>d, <2>1 DEF Held, UseInStep
  <2>3. TypeOK'
    BY <1>a, <2>1, <2>2 DEF TypeOK
  <2> QED
    BY <1>b, <2>1, <2>2, <2>3 DEF IInv, UseInStep, InStep, ReaderSees, CopyIsComplete,
         BackupsAreComplete, Progress, Recovering
<1>4. CASE ReaderEnds
  <2>1. reader' = NoReader /\ UNCHANGED <<main, wal, backups, copy, phase, headless, latest, recovery, bounds>>
    BY <1>4 DEF ReaderEnds
  <2>2. TypeOK'
    BY <1>a, <2>1 DEF TypeOK
  <2>3. UseInStep' /\ ReaderSees' /\ CopyIsComplete' /\ BackupsAreComplete'
    BY <1>b, <2>1 DEF UseInStep, InStep, ReaderSees, CopyIsComplete, BackupsAreComplete
  <2>4. Newest' = Newest
    BY <2>1 DEF Newest
  <2> QED
    BY <1>b, <2>1, <2>2, <2>3, <2>4 DEF IInv, Progress
<1>5. CASE Damage
  <2>1. PICK h \in {"hidden", "broken"} : main' = [main EXCEPT !.health = h]
    BY <1>5 DEF Damage
  <2>2. /\ phase \in {"down", "up", "degraded"} /\ main # Absent /\ damages' \in 0..MaxDamages
        /\ UNCHANGED <<wal, backups, copy, reader, phase, headless, latest, recovery, commits, cuts>>
    BY <1>5, <1>a, BoundsAssumption DEF Damage
  <2>3. main' \in File /\ main'.data = main.data /\ main' # Absent
    BY <1>a, <2>1, <2>2, MarkersAssumption DEF File, Health
  <2>4. Held' = Held
    BY <2>2, <2>3 DEF Held, Seen, LeadsOn
  <2>5. TypeOK' /\ UseInStep' /\ ReaderSees'
    BY <1>a, <1>b, <2>2, <2>3, <2>4 DEF TypeOK, UseInStep, InStep, LeadsOn, ReaderSees
  <2> QED
    BY <1>b, <2>2, <2>5 DEF IInv, CopyIsComplete, BackupsAreComplete, Progress
<1>6. CASE BackupCopies
  <2>1. /\ phase = "up" /\ Len(backups) < MaxBackups /\ main' = WrittenBack
        /\ UNCHANGED <<backups, reader, headless, latest, recovery, bounds>>
        /\ IF CheckpointComplete(WrittenBack)
           THEN /\ wal' = IF reader = NoReader THEN NoWal ELSE wal
                /\ copy' = [file |-> WrittenBack, made |-> Held]
                /\ phase' = "backing"
           ELSE UNCHANGED <<wal, copy, phase>>
    BY <1>6 DEF BackupCopies
  <2>2. main # Absent /\ InStep
    BY <1>b, <2>1 DEF UseInStep
  <2>3. /\ WrittenBack \in File /\ WrittenBack # Absent
        /\ main.data = Mixed <=> WrittenBack.data = Mixed
        /\ wal = NoWal \/ main.data = Mixed => WrittenBack = main
        /\ wal # NoWal /\ main.data # Mixed =>
              /\ LeadsOn(WrittenBack, wal) /\ Held = wal.top
              /\ reader = NoReader => WrittenBack.data = wal.top
    BY <2>2, <1>b, WriteBackKeeps, MarkersAssumption DEF IInv
  <2>4. CASE ~CheckpointComplete(WrittenBack)
    <3>1. UNCHANGED <<wal, copy, phase>>
      BY <2>1, <2>4
    <3>2. Held' = Held
      BY <2>1, <2>2, <2>3, <3>1 DEF Held, Seen
    <3>3. TypeOK' /\ UseInStep' /\ ReaderSees'
      BY <1>a, <1>b, <2>1, <2>2, <2>3, <3>1, <3>2 DEF TypeOK, UseInStep, InStep, ReaderSees
    <3> QED
      BY <1>b, <2>1, <3>1, <3>3 DEF IInv, CopyIsComplete, BackupsAreComplete, Progress
  <2>5. CASE CheckpointComplete(WrittenBack)
    <3>1. /\ wal' = IF reader = NoReader THEN NoWal ELSE wal
          /\ copy' = [file |-> WrittenBack, made |-> Held] /\ phase' = "backing"
      BY <2>1, <2>5
    <3>2. WrittenBack.data = Held
      <4>1. CASE wal = NoWal
        BY <2>2, <2>3, <4>1 DEF Held, Seen
      <4>2. CASE wal # NoWal /\ main.data = Mixed
        BY <2>2, <2>3, <4>2 DEF Held, Seen, LeadsOn
      <4>3. CASE wal # NoWal /\ main.data # Mixed
        BY <2>3, <2>5, <4>3 DEF CheckpointComplete
      <4> QED
        BY <4>1, <4>2, <4>3
    <3>3. copy' \in Backup /\ copy' # NoCopy /\ copy'.file.data = copy'.made
      BY <1>d, <2>3, <3>1, <3>2, MarkersAssumption DEF Backup
    <3>4. Held' = Held
      <4>1. CASE wal' = NoWal
        BY <2>1, <2>3, <3>2, <4>1 DEF Held, Seen
      <4>2. CASE wal' # NoWal
        BY <2>1, <2>2, <2>3, <3>1, <4>2 DEF Held, Seen
      <4> QED
        BY <4>1, <4>2
    <3>5. TypeOK'
      BY <1>a, <2>1, <2>3, <3>1, <3>3 DEF TypeOK, Phases
    <3>6. UseInStep' /\ ReaderSees'
      BY <1>b, <2>1, <2>2, <2>3, <3>1, <3>4 DEF UseInStep, InStep, ReaderSees
    <3> QED
      BY <1>b, <2>1, <3>1, <3>3, <3>5, <3>6
      DEF IInv, CopyIsComplete, BackupsAreComplete, Progress, Recovering
  <2> QED
    BY <2>4, <2>5
<1>7. CASE BackupPublished
  <2>1. /\ phase = "backing" /\ backups' = Append(backups, copy) /\ copy' = NoCopy /\ phase' = "up"
        /\ UNCHANGED <<main, wal, reader, headless, latest, recovery, bounds>>
    BY <1>7 DEF BackupPublished
  <2>2. copy \in Backup /\ copy.file.data = copy.made
    BY <1>a, <1>b, <2>1 DEF CopyIsComplete
  <2>3. /\ backups' \in Seq(Backup) /\ Len(backups') = Len(backups) + 1
        /\ backups'[Len(backups) + 1] = copy
        /\ \A i \in 1..Len(backups) : backups'[i] = backups[i]
    BY <1>a, <2>1, <2>2, AppendProperties
  <2>4. DOMAIN backups' = 1..(Len(backups) + 1)
    BY <2>3, LenProperties
  <2>5. BackupsAreComplete'
    BY <1>a, <1>b, <2>2, <2>3, <2>4 DEF BackupsAreComplete
  <2>6. Len(backups') <= MaxBackups
    BY <1>a, <1>b, <2>1, <2>3, BoundsAssumption DEF Progress
  <2>7. TypeOK'
    BY <1>a, <2>1, <2>3, <2>6 DEF TypeOK, Phases
  <2>8. UseInStep' /\ ReaderSees'
    BY <1>b, <2>1 DEF UseInStep, InStep, ReaderSees, Held
  <2> QED
    BY <2>1, <2>5, <2>7, <2>8 DEF IInv, CopyIsComplete, Progress, Recovering
<1>8. CASE BackupFails
  <2>1. /\ phase = "backing" /\ copy' = NoCopy /\ phase' = "up"
        /\ UNCHANGED <<main, wal, backups, reader, headless, latest, recovery, bounds>>
    BY <1>8 DEF BackupFails
  <2>2. TypeOK'
    BY <1>a, <2>1 DEF TypeOK, Phases
  <2>3. UseInStep' /\ ReaderSees' /\ BackupsAreComplete'
    BY <1>b, <2>1 DEF UseInStep, InStep, ReaderSees, Held, BackupsAreComplete
  <2> QED
    BY <2>1, <2>2, <2>3 DEF IInv, CopyIsComplete, Progress, Recovering
<1>9. CASE Start
  <2>1. PICK o \in AfterOpen(main, wal) :
           /\ main' = o.file /\ wal' = o.log
           /\ phase' = IF ~Rejected(o.file) THEN "up"
                       ELSE IF Damaged(o.file) THEN "asked" ELSE "degraded"
    BY <1>9 DEF Start
  <2>2. phase = "down" /\ Settled /\ UNCHANGED <<backups, copy, reader, headless, latest, bounds>>
    BY <1>9 DEF Start
  <2>3. /\ main' \in File /\ main' # Absent /\ wal' \in [base: States, top: States] \cup {NoWal}
        /\ wal' = NoWal \/ LeadsOn(main', wal')
        /\ main # Absent /\ (wal = NoWal \/ LeadsOn(main, wal)) => main' = main /\ wal' = wal
    BY <1>a, <2>1, OpenKeeps, MarkersAssumption
  <2>4. phase' \in {"up", "asked", "degraded"}
    BY <2>1
  <2>5. TypeOK'
    BY <1>a, <2>2, <2>3, <2>4 DEF TypeOK, Phases, Recovering, Settled
  <2>6. UseInStep'
    BY <2>3 DEF UseInStep, InStep, LeadsOn
  <2>7. ReaderSees'
    <3>1. SUFFICES ASSUME reader # NoReader PROVE main' = main /\ wal' = wal
      BY <1>b, <2>2 DEF ReaderSees, Held
    <3>2. main # Absent /\ Held \in States
      BY <1>b, <3>1 DEF ReaderSees
    <3>3. wal = NoWal \/ LeadsOn(main, wal)
      BY <3>2, MarkersAssumption DEF Held, Seen
    <3> QED
      BY <2>3, <3>2, <3>3
  <2> QED
    BY <1>b, <2>2, <2>3, <2>4, <2>5, <2>6, <2>7
    DEF IInv, CopyIsComplete, BackupsAreComplete, Progress, Recovering
<1>10. CASE StartLocked \/ StartWithoutAddon
  <2>1. /\ phase = "down" /\ phase' \in {"asked", "degraded"}
        /\ phase' = "asked" => main # Absent
        /\ UNCHANGED <<main, wal, backups, copy, reader, headless, latest, recovery, bounds>>
    BY <1>10 DEF StartLocked, StartWithoutAddon, AddonMissingPhase
  <2>2. TypeOK'
    BY <1>a, <2>1 DEF TypeOK, Phases, Recovering
  <2>3. ReaderSees' /\ CopyIsComplete' /\ BackupsAreComplete' /\ UseInStep'
    BY <2>1, FilesKept
  <2> QED
    BY <2>1, <2>2, <2>3 DEF IInv, Progress, Recovering
<1>11. CASE ChooseRestore
  <2>1. /\ phase = "asked"
        /\ IF Restorable THEN phase' = "copying" /\ main' \in {main} \cup TornFiles
                         ELSE phase' = "degraded" /\ UNCHANGED main
        /\ reader' = IF main' = main THEN reader ELSE NoReader
        /\ promised' = NoPromise /\ mishaps' = {}
        /\ UNCHANGED <<wal, backups, copy, headless, latest, bounds>>
    BY <1>11 DEF ChooseRestore
  <2>2. main' \in File \cup {Absent}
    <3>1. main \in File
      BY <1>a, <1>b, <2>1 DEF Progress
    <3>2. \A h \in {"hidden", "broken"} : [main EXCEPT !.data = Mixed, !.health = h] \in File
      BY <3>1 DEF File, Health
    <3> QED
      BY <2>1, <3>1, <3>2 DEF TornFiles
  <2>3. phase' \in {"copying", "degraded"} /\ (phase' = "copying" => backups # <<>>)
    BY <2>1 DEF Restorable
  <2>4. TypeOK'
    BY <1>a, <2>1, <2>2, <2>3 DEF TypeOK, Phases, Recovering
  <2>5. ReaderSees' /\ CopyIsComplete' /\ BackupsAreComplete' /\ UseInStep'
    <3>1. CASE main' = main
      <4>1. UNCHANGED <<main, wal, backups, copy, reader>>
        BY <2>1, <3>1
      <4> QED
        BY <2>3, <4>1, FilesKept
    <3>2. CASE main' # main
      <4>1. reader' = NoReader /\ UNCHANGED <<backups, copy>>
        BY <2>1, <3>2
      <4> QED
        BY <2>3, <4>1, FileReplaced
    <3> QED
      BY <3>1, <3>2
  <2> QED
    BY <2>1, <2>3, <2>4, <2>5 DEF IInv, Progress
<1>12. CASE Copied
  <2>1. /\ phase = "copying" /\ main' = Newest.file /\ phase' = "copied" /\ reader' = NoReader
        /\ promised' = Newest.file.data
        /\ UNCHANGED <<wal, backups, copy, headless, latest, mishaps, bounds>>
    BY <1>12 DEF Copied
  <2>2. backups # <<>>
    BY <1>b, <2>1 DEF Progress
  <2>3. main' \in File /\ main' # Absent /\ promised' \in States \cup {Mixed}
    BY <1>c, <2>1, <2>2, FileFields
  <2>4. TypeOK'
    BY <1>a, <2>1, <2>3 DEF TypeOK, Phases, Recovering
  <2>5. ReaderSees' /\ CopyIsComplete' /\ BackupsAreComplete' /\ UseInStep'
    BY <2>1, FileReplaced
  <2>6. main' = Newest'.file
    BY <2>1 DEF Newest
  <2> QED
    BY <2>1, <2>2, <2>3, <2>4, <2>5, <2>6 DEF IInv, Progress
<1>13. CASE CopyFails
  <2>1. /\ phase = "copying" /\ phase' = "degraded" /\ mishaps' = mishaps \cup {"copy"}
        /\ UNCHANGED <<main, wal, backups, copy, reader, headless, latest, promised, bounds>>
    BY <1>13 DEF CopyFails
  <2>2. TypeOK'
    BY <1>a, <2>1 DEF TypeOK, Phases
  <2>3. ReaderSees' /\ CopyIsComplete' /\ BackupsAreComplete' /\ UseInStep'
    BY <2>1, FilesKept
  <2> QED
    BY <2>1, <2>2, <2>3 DEF IInv, Progress
<1>14. CASE RemoveLog
  <2>1. /\ phase = "copied" /\ phase' = "reopening"
        /\ \/ wal' = NoWal /\ mishaps' = mishaps
           \/ wal' = wal /\ mishaps' = mishaps \cup {"log"}
        /\ UNCHANGED <<main, backups, copy, reader, headless, latest, promised, bounds>>
    BY <1>14 DEF RemoveLog, LogRemoved
  <2>2. backups # <<>> /\ reader = NoReader /\ main = Newest.file
    BY <1>b, <2>1 DEF Progress
  <2>3. TypeOK'
    BY <1>a, <2>1 DEF TypeOK, Phases, Recovering
  <2>4. ReaderSees' /\ CopyIsComplete' /\ BackupsAreComplete' /\ UseInStep'
    BY <2>1, <2>2, FileReplaced
  <2>5. main' = Newest'.file
    BY <2>1, <2>2 DEF Newest
  <2>6. mishaps' = {} => wal' = NoWal
    BY <2>1
  <2> QED
    BY <2>1, <2>2, <2>3, <2>4, <2>5, <2>6 DEF IInv, Progress
<1>15. CASE ChooseFresh
  <2>1. /\ phase = "asked" /\ phase' = "emptying" /\ promised' = {}
        /\ \/ main' = Absent /\ reader' = NoReader /\ mishaps' = {}
           \/ main' = main /\ reader' = reader /\ mishaps' = {"file"}
        /\ UNCHANGED <<wal, backups, copy, headless, latest, bounds>>
    BY <1>15 DEF ChooseFresh
  <2>2. TypeOK'
    BY <1>a, <2>1 DEF TypeOK, Phases, Recovering, States
  <2>3. ReaderSees' /\ CopyIsComplete' /\ BackupsAreComplete' /\ UseInStep'
    <3>1. CASE reader' = NoReader
      BY <2>1, <3>1, FileReplaced
    <3>2. CASE main' = main /\ reader' = reader
      BY <2>1, <3>2, FilesKept
    <3> QED
      BY <2>1, <3>1, <3>2
  <2>4. mishaps' = {} => main' = Absent
    BY <2>1
  <2> QED
    BY <2>1, <2>2, <2>3, <2>4 DEF IInv, Progress
<1>16. CASE Emptied
  <2>1. /\ phase = "emptying" /\ phase' \in {"reopening", "degraded"}
        /\ \/ wal' = NoWal /\ reader' = NoReader
           \/ wal' = wal /\ reader' = reader
        /\ UNCHANGED <<main, backups, copy, headless, latest, recovery, bounds>>
    BY <1>16 DEF Emptied
  <2>2. TypeOK'
    BY <1>a, <2>1 DEF TypeOK, Phases, Recovering
  <2>3. ReaderSees' /\ CopyIsComplete' /\ BackupsAreComplete' /\ UseInStep'
    <3>1. CASE reader' = NoReader
      BY <2>1, <3>1, FileReplaced
    <3>2. CASE wal' = wal /\ reader' = reader
      BY <2>1, <3>2, FilesKept
    <3> QED
      BY <2>1, <3>1, <3>2
  <2> QED
    BY <1>b, <2>1, <2>2, <2>3 DEF IInv, Progress
<1>17. CASE Reopen \/ ReopenRefused
  <2>1. PICK o \in AfterOpen(main, wal) \cup {[file |-> main, log |-> wal]} :
           /\ main' = o.file /\ wal' = o.log
           /\ phase' = "degraded" \/ (phase' = "up" /\ o \in AfterOpen(main, wal))
    BY <1>17 DEF Reopen, ReopenRefused
  <2>2. /\ phase = "reopening" /\ promised' \in {promised, NoPromise}
        /\ mishaps' \in {{}, mishaps, mishaps \cup {"open"}}
        /\ UNCHANGED <<backups, copy, reader, headless, bounds>>
    BY <1>17 DEF Reopen, ReopenRefused, Settled
  <2>3. /\ o.file \in File \cup {Absent} /\ o.log \in [base: States, top: States] \cup {NoWal}
        /\ o \in AfterOpen(main, wal) =>
              o.file # Absent /\ (o.log = NoWal \/ LeadsOn(o.file, o.log))
        /\ main # Absent /\ (wal = NoWal \/ LeadsOn(main, wal)) => o.file = main /\ o.log = wal
    <3>1. CASE o \in AfterOpen(main, wal)
      BY <1>a, <3>1, OpenKeeps, MarkersAssumption
    <3>2. CASE o = [file |-> main, log |-> wal] /\ o \notin AfterOpen(main, wal)
      <4>1. o.file = main /\ o.log = wal
        BY <3>2
      <4> QED
        BY <1>a, <3>2, <4>1
    <3> QED
      BY <2>1, <3>1, <3>2
  <2>4. latest' \in States
    <3>1. CASE Reopen
      <4>1. PICK e \in AfterOpen(main, wal) :
               latest' = IF e.file.data = Mixed THEN latest ELSE Seen(e.file, e.log)
        BY <3>1 DEF Reopen
      <4>2. e.file \in File /\ e.log \in [base: States, top: States] \cup {NoWal}
        BY <1>a, OpenKeeps
      <4>3. e.log = NoWal \/ LeadsOn(e.file, e.log)
        BY <1>a, OpenKeeps DEF LeadsOn
      <4>4. /\ e.file.data \in States \cup {Mixed} /\ e.file # Absent
            /\ e.log # NoWal => e.log.top \in States
        BY <4>2, FileFields
      <4> QED
        BY <1>a, <4>1, <4>2, <4>3, <4>4 DEF Seen
    <3>2. CASE ReopenRefused
      BY <1>a, <3>2 DEF ReopenRefused
    <3> QED
      BY <1>17, <3>1, <3>2
  <2>5. TypeOK'
    <3>1. phase' \in Phases /\ phase' # "backing"
      BY <2>1 DEF Phases
    <3>2. mishaps' \subseteq {"copy", "file", "log", "open"}
      BY <1>a, <2>2
    <3> QED
      BY <1>a, <2>1, <2>2, <2>3, <2>4, <3>1, <3>2 DEF TypeOK
  <2>6. UseInStep'
    BY <2>1, <2>3 DEF UseInStep, InStep
  <2>7. ReaderSees'
    <3>1. SUFFICES ASSUME reader # NoReader PROVE main' = main /\ wal' = wal
      BY <1>b, <2>2 DEF ReaderSees, Held
    <3>2. main # Absent /\ Held \in States
      BY <1>b, <3>1 DEF ReaderSees
    <3>3. wal = NoWal \/ LeadsOn(main, wal)
      BY <3>2, MarkersAssumption DEF Held, Seen
    <3> QED
      BY <2>1, <2>3, <3>2, <3>3
  <2> QED
    BY <1>b, <2>1, <2>2, <2>5, <2>6, <2>7 DEF IInv, CopyIsComplete, BackupsAreComplete, Progress
<1>18. CASE Stop
  <2>1. /\ phase \in {"up", "degraded"} /\ phase' = "down"
        /\ UNCHANGED <<backups, copy, reader, headless, latest, recovery, bounds>>
        /\ IF phase = "up" /\ reader = NoReader
           THEN main' = WrittenBack /\ wal' = NoWal
           ELSE UNCHANGED <<main, wal>>
    BY <1>18 DEF Stop
  <2>2. CASE phase = "up" /\ reader = NoReader
    <3>1. WrittenBack \in File
      BY <1>b, <2>2, WriteBackKeeps DEF IInv, UseInStep
    <3>2. TypeOK'
      BY <1>a, <2>1, <2>2, <3>1 DEF TypeOK, Phases
    <3>3. ReaderSees' /\ CopyIsComplete' /\ BackupsAreComplete' /\ UseInStep'
      BY <2>1, <2>2, FileReplaced
    <3> QED
      BY <2>1, <3>2, <3>3 DEF IInv, Progress, Recovering
  <2>3. CASE ~(phase = "up" /\ reader = NoReader)
    <3>1. UNCHANGED <<main, wal, backups, copy, reader>>
      BY <2>1, <2>3
    <3>2. TypeOK'
      BY <1>a, <2>1, <3>1 DEF TypeOK, Phases
    <3>3. ReaderSees' /\ CopyIsComplete' /\ BackupsAreComplete' /\ UseInStep'
      BY <2>1, <3>1, FilesKept
    <3> QED
      BY <2>1, <3>2, <3>3 DEF IInv, Progress, Recovering
  <2> QED
    BY <2>2, <2>3
<1>19. CASE Crash
  <2>1. /\ cuts < MaxCuts /\ cuts' = cuts + 1 /\ phase' = "down" /\ copy' = NoCopy
        /\ mishaps' \in {mishaps, mishaps \cup {"log"}}
        /\ UNCHANGED <<main, wal, backups, reader, headless, latest, promised, commits, damages>>
    BY <1>19 DEF Crash
  <2>2. TypeOK'
    BY <1>a, <2>1, BoundsAssumption DEF TypeOK, Phases
  <2>3. ReaderSees' /\ BackupsAreComplete'
    BY <1>b, <2>1 DEF ReaderSees, Held, BackupsAreComplete
  <2> QED
    BY <2>1, <2>2, <2>3 DEF IInv, CopyIsComplete, UseInStep, Progress, Recovering
<1>20. CASE UNCHANGED vars
  <2>1. TypeOK'
    BY <1>20, <1>a DEF vars, TypeOK
  <2> QED
    BY <1>20, <1>b, <2>1 DEF vars, IInv, UseInStep, InStep, ReaderSees, Held, CopyIsComplete,
         BackupsAreComplete, Progress, Newest
<1> QED
  BY <1>1, <1>2, <1>3, <1>4, <1>5, <1>6, <1>7, <1>8, <1>9, <1>10, <1>11, <1>12, <1>13, <1>14,
     <1>15, <1>16, <1>17, <1>18, <1>19, <1>20 DEF Next, Working

-----------------------------------------------------------------------------
(* A store that nothing damaged.                                           *)

\* Damage is not taken back.
LEMMA StepUndamaged ==
    ASSUME "exclusive" \notin Scope
    PROVE  IInv /\ Undamaged /\ [Next]_vars => Undamaged'
<1> SUFFICES ASSUME IInv, Undamaged, [Next]_vars, damages' = 0
             PROVE  /\ phase' \notin Recovering
                    /\ main' # Absent => main'.health = "good" /\ main'.data # Mixed
                    /\ main' = Absent => wal' = NoWal
                    /\ InStep'
                    /\ Held' = latest'
  BY DEF Undamaged
<1> USE DEF bounds, files, recovery
<1>a. /\ main \in File \cup {Absent}
      /\ wal \in [base: States, top: States] \cup {NoWal}
      /\ reader \in States \cup {NoReader} /\ damages \in Nat /\ commits \in Nat
  BY BoundsAssumption DEF IInv, TypeOK
<1>b. UseInStep /\ ReaderSees
  BY DEF IInv
<1>c. damages = 0
  BY <1>a DEF Next, Working, vars, Commit, Checkpoint, ReaderBegins, ReaderEnds, Damage,
     BackupCopies, BackupPublished, BackupFails, Start, StartLocked, StartWithoutAddon,
     ChooseRestore, Copied, CopyFails, RemoveLog, ChooseFresh, Emptied, Reopen, ReopenRefused,
     Stop, Crash
<1>d. /\ phase \notin Recovering
      /\ main # Absent => main.health = "good" /\ main.data # Mixed
      /\ main = Absent => wal = NoWal
      /\ InStep /\ Held = latest
  BY <1>c DEF Undamaged
<1>e. main # Absent => main \in File /\ main.data \in States
  BY <1>a, <1>d, FileFields
\* What is left of a step that leaves the file and its log alone.
<1>f. ASSUME UNCHANGED <<main, wal, latest>>
      PROVE  /\ main' # Absent => main'.health = "good" /\ main'.data # Mixed
             /\ main' = Absent => wal' = NoWal
             /\ InStep' /\ Held' = latest'
  BY <1>d, <1>f DEF InStep, Held
\* What a write-back leaves, with the log or without it when it is complete.
<1>g. ASSUME main # Absent, main' = WrittenBack, latest' = latest,
             \/ wal' = wal
             \/ wal' = NoWal /\ (wal = NoWal \/ WrittenBack.data = wal.top)
      PROVE  /\ main' # Absent /\ main'.health = "good" /\ main'.data # Mixed
             /\ InStep' /\ Held' = latest'
  <2>1. /\ WrittenBack \in File /\ WrittenBack # Absent
        /\ WrittenBack.health = "good" /\ WrittenBack.data # Mixed
        /\ wal = NoWal => WrittenBack = main
        /\ wal # NoWal => LeadsOn(WrittenBack, wal) /\ Held = wal.top
    BY <1>b, <1>d, <1>g, WriteBackKeeps, MarkersAssumption DEF IInv
  <2>2. CASE wal' = wal
    BY <1>d, <1>g, <2>1, <2>2 DEF InStep, Held, Seen
  <2>3. CASE wal' = NoWal /\ (wal = NoWal \/ WrittenBack.data = wal.top)
    BY <1>d, <1>g, <2>1, <2>3 DEF InStep, Held, Seen
  <2> QED
    BY <1>g, <2>1, <2>2, <2>3
<1>1. CASE Commit
  <2>1. /\ phase = "up" /\ UNCHANGED <<main, phase>> /\ Held # Mixed
        /\ wal' = [base |-> IF wal = NoWal \/ (main.data = wal.top /\ reader = NoReader)
                            THEN main.data ELSE wal.base,
                   top |-> Held \cup {commits + 1}]
        /\ latest' = Held \cup {commits + 1}
        /\ commits < MaxCommits
    BY <1>1 DEF Commit
  <2>2. /\ main # Absent /\ main.data \subseteq Held /\ Held \in States
        /\ wal # NoWal => wal.base \subseteq main.data /\ wal.base \in States
    BY <1>a, <1>b, <1>d, <1>e, <2>1 DEF UseInStep, InStep, Held, Seen, LeadsOn
  <2>3. Held \cup {commits + 1} \in States
    <3>1. commits + 1 \in 1..MaxCommits
      BY <1>a, <2>1, BoundsAssumption
    <3> QED
      BY <2>2, <3>1 DEF States, Commits
  <2>4. wal' \in [base: States, top: States] /\ wal' # NoWal
    BY <1>e, <2>1, <2>2, <2>3, MarkersAssumption
  <2>5. LeadsOn(main, wal')
    BY <1>d, <2>1, <2>2 DEF LeadsOn
  <2> QED
    BY <1>d, <2>1, <2>2, <2>4, <2>5 DEF InStep, Held, Seen
<1>2. CASE Checkpoint
  <2>1. main # Absent
    BY <1>2, <1>b DEF Checkpoint, UseInStep
  <2> QED
    BY <1>2, <1>d, <1>g, <2>1 DEF Checkpoint
<1>3. CASE BackupCopies
  <2>1. main # Absent /\ main' = WrittenBack /\ latest' = latest /\ phase' \in {"up", "backing"}
    BY <1>3, <1>b DEF BackupCopies, UseInStep
  <2>2. CASE CheckpointComplete(WrittenBack)
    <3>1. wal' = wal \/ wal' = NoWal
      BY <1>3, <2>2 DEF BackupCopies
    <3>2. wal = NoWal \/ WrittenBack.data = wal.top
      BY <1>b, <1>d, <2>1, <2>2, WriteBackKeeps DEF CheckpointComplete, IInv
    <3> QED
      BY <1>g, <2>1, <3>1, <3>2 DEF Recovering
  <2>3. CASE ~CheckpointComplete(WrittenBack)
    <3>1. wal' = wal
      BY <1>3, <2>3 DEF BackupCopies
    <3> QED
      BY <1>g, <2>1, <3>1 DEF Recovering
  <2> QED
    BY <2>2, <2>3
<1>4. CASE Start
  <2>1. PICK o \in AfterOpen(main, wal) :
           /\ main' = o.file /\ wal' = o.log
           /\ phase' = IF ~Rejected(o.file) THEN "up"
                       ELSE IF Damaged(o.file) THEN "asked" ELSE "degraded"
    BY <1>4 DEF Start
  <2>2. latest' = latest
    BY <1>4 DEF Start
  <2>3. CASE main = Absent
    <3>1. main' = Fresh /\ wal' = NoWal /\ latest = {}
      BY <1>a, <1>d, <2>1, <2>3, OpenKeeps DEF Held, Seen
    <3>2. Fresh # Absent /\ Fresh.data # Mixed
      BY FreshIsAFile
    <3>3. phase' \notin Recovering
      BY <2>1, <3>1 DEF Fresh, Damaged, Recovering
    <3> QED
      BY <2>2, <3>1, <3>2, <3>3 DEF Fresh, InStep, Held, Seen
  <2>4. CASE main # Absent
    <3>1. main' = main /\ wal' = wal
      BY <1>a, <1>d, <2>1, <2>4, OpenKeeps DEF InStep
    <3>2. phase' \notin Recovering
      BY <1>d, <2>1, <2>4, <3>1 DEF Damaged, Recovering
    <3> QED
      BY <1>f, <2>2, <3>1, <3>2
  <2> QED
    BY <2>3, <2>4
<1>5. CASE StartLocked
  <2>1. phase' = "degraded" /\ UNCHANGED <<main, wal, latest>>
    BY <1>5, <1>d DEF StartLocked, Damaged
  <2> QED
    BY <1>f, <2>1 DEF Recovering
<1>6. CASE Stop
  <2>1. CASE phase = "up" /\ reader = NoReader
    <3>1. /\ main # Absent /\ main' = WrittenBack /\ wal' = NoWal /\ latest' = latest
          /\ phase' = "down"
      BY <1>6, <1>b, <2>1 DEF Stop, UseInStep
    <3>2. wal = NoWal \/ WrittenBack.data = wal.top
      BY <1>b, <1>d, <2>1, <3>1, WriteBackKeeps DEF IInv
    <3> QED
      BY <1>g, <3>1, <3>2 DEF Recovering
  <2>2. CASE ~(phase = "up" /\ reader = NoReader)
    <3>1. UNCHANGED <<main, wal, latest>> /\ phase' = "down"
      BY <1>6, <2>2 DEF Stop
    <3> QED
      BY <1>f, <3>1 DEF Recovering
  <2> QED
    BY <2>1, <2>2
<1>7. CASE ReaderBegins \/ ReaderEnds \/ BackupPublished \/ BackupFails \/ StartWithoutAddon
           \/ Crash \/ UNCHANGED vars
  <2>1. UNCHANGED <<main, wal, latest>> /\ phase' \in {phase, "up", "degraded", "down"}
    BY <1>7 DEF vars, ReaderBegins, ReaderEnds, BackupPublished, BackupFails, StartWithoutAddon,
       AddonMissingPhase, Crash
  <2> QED
    BY <1>d, <1>f, <2>1 DEF Recovering
<1>8. CASE Damage
  BY <1>8, <1>a, <1>c DEF Damage
<1>9. CASE ChooseRestore \/ Copied \/ CopyFails \/ RemoveLog \/ ChooseFresh \/ Emptied
           \/ Reopen \/ ReopenRefused
  <2>1. phase \in Recovering
    BY <1>9 DEF ChooseRestore, Copied, CopyFails, RemoveLog, ChooseFresh, Emptied, Reopen,
       ReopenRefused, Recovering
  <2> QED
    BY <1>d, <2>1
<1> QED
  BY <1>1, <1>2, <1>3, <1>4, <1>5, <1>6, <1>7, <1>8, <1>9 DEF Next, Working

-----------------------------------------------------------------------------
(* The theorems.                                                           *)

LEMMA AlwaysIInv == Spec => []IInv
<1>1. Init => IInv
  BY InitHolds
<1>2. IInv /\ [Next]_vars => IInv'
  BY StepKeeps
<1> QED
  BY <1>1, <1>2, PTL DEF Spec

\* Every variable stays in its type: no more backups, commits or damages than
\* their bounds, and a .part only while a backup is under way.
THEOREM StoreTypeCorrect == Spec => []TypeOK
<1>1. IInv => TypeOK
  BY DEF IInv
<1> QED
  BY <1>1, AlwaysIInv, PTL

\* A published backup holds everything that was committed when it was asked
\* for, whatever foreign readers held back and whenever the process died.
THEOREM BackupsKeepTheCommits == Spec => []BackupsAreComplete
<1>1. IInv => BackupsAreComplete
  BY DEF IInv
<1> QED
  BY <1>1, AlwaysIInv, PTL

\* Where no foreign connection locks the file exclusively, a store that nothing
\* damaged loses no commit: no recovery takes it away.
THEOREM UndamagedLosesNothing ==
    ASSUME "exclusive" \notin Scope
    PROVE  Spec => []NothingLostUndamaged
<1>1. Init => IInv /\ Undamaged
  BY InitHolds
<1>2. IInv /\ Undamaged /\ [Next]_vars => (IInv /\ Undamaged)'
  BY StepKeeps, StepUndamaged
<1>3. IInv /\ Undamaged => NothingLostUndamaged
  BY DEF Undamaged, NothingLostUndamaged
<1> QED
  BY <1>1, <1>2, <1>3, PTL DEF Spec

\* What the last recovery put in place is there, alone, until a host serves it.
\* Beside a copy there may be a log while it has yet to be removed, and beside no
\* file, where the open deletes it.
PromiseStands == promised # NoPromise =>
    /\ phase \notin {"up", "backing", "copying"}
    /\ mishaps \cap {"file", "log"} = {} =>
          IF main = Absent THEN promised = {}
          ELSE main.data = promised /\ (wal = NoWal \/ phase = "copied")

\* No step but an open that serves, and a new recovery, takes a promise back.
LEMMA StepPromise == IInv /\ PromiseStands /\ [Next]_vars => PromiseStands'
<1> SUFFICES ASSUME IInv, PromiseStands, [Next]_vars, promised' # NoPromise
             PROVE  /\ phase' \notin {"up", "backing", "copying"}
                    /\ mishaps' \cap {"file", "log"} = {} =>
                          IF main' = Absent THEN promised' = {}
                          ELSE main'.data = promised' /\ (wal' = NoWal \/ phase' = "copied")
  BY DEF PromiseStands
<1> USE DEF files, recovery
<1>a. /\ main \in File \cup {Absent}
      /\ wal \in [base: States, top: States] \cup {NoWal}
  BY DEF IInv, TypeOK
<1>b. promised # NoPromise =>
         /\ phase \notin {"up", "backing", "copying"}
         /\ mishaps \cap {"file", "log"} = {} =>
               IF main = Absent THEN promised = {}
               ELSE main.data = promised /\ (wal = NoWal \/ phase = "copied")
  BY DEF PromiseStands
\* An open finds what was promised, as no log leads away from it.
<1>c. ASSUME NEW o \in AfterOpen(main, wal), promised # NoPromise, phase # "copied",
             mishaps \cap {"file", "log"} = {}
      PROVE  o.file # Absent /\ o.file.data = promised /\ o.log = NoWal
  <2>1. CASE main = Absent
    <3>1. o.file = Fresh /\ o.log = NoWal
      BY <1>a, <1>c, <2>1, OpenKeeps
    <3>2. Fresh # Absent /\ Fresh.data = {} /\ promised = {}
      BY <1>b, <1>c, <2>1, FreshIsAFile DEF Fresh
    <3> QED
      BY <3>1, <3>2
  <2>2. CASE main # Absent
    <3>1. wal = NoWal /\ main.data = promised
      BY <1>b, <1>c, <2>2
    <3>2. o.file = main /\ o.log = wal
      BY <1>a, <1>c, <2>2, <3>1, OpenKeeps
    <3> QED
      BY <2>2, <3>1, <3>2
  <2> QED
    BY <2>1, <2>2
<1>1. CASE Commit \/ Checkpoint \/ ReaderBegins \/ BackupCopies \/ BackupPublished \/ BackupFails
  <2>1. phase \in {"up", "backing"} /\ promised' = promised
    BY <1>1 DEF Commit, Checkpoint, ReaderBegins, BackupCopies, BackupPublished, BackupFails
  <2> QED
    BY <1>b, <2>1
<1>2. CASE Damage
  <2>1. /\ main # Absent /\ phase' = phase /\ phase \in {"down", "up", "degraded"}
        /\ UNCHANGED <<wal, promised, mishaps>>
        /\ \E h \in {"hidden", "broken"} : main' = [main EXCEPT !.health = h]
    BY <1>2 DEF Damage
  <2>2. main' # Absent /\ main'.data = main.data
    BY <1>a, <2>1, MarkersAssumption DEF File, Health
  <2> QED
    BY <1>b, <2>1, <2>2
<1>3. CASE Start
  <2>1. PICK o \in AfterOpen(main, wal) :
           /\ main' = o.file /\ wal' = o.log
           /\ phase' = IF ~Rejected(o.file) THEN "up"
                       ELSE IF Damaged(o.file) THEN "asked" ELSE "degraded"
    BY <1>3 DEF Start
  <2>2. phase = "down" /\ Settled
    BY <1>3 DEF Start
  <2>3. phase' \in {"asked", "degraded"} /\ promised' = promised /\ mishaps' = mishaps
    BY <2>1, <2>2 DEF Settled
  <2> QED
    BY <1>c, <2>1, <2>2, <2>3
<1>4. CASE ChooseRestore
  BY <1>4 DEF ChooseRestore
<1>5. CASE Copied
  <2>1. /\ main' = Newest.file /\ promised' = Newest.file.data /\ phase' = "copied"
        /\ backups # <<>>
    BY <1>5 DEF Copied, IInv, Progress
  <2>2. main' # Absent
    <3>1. Copied /\ IInv' /\ phase' = "copied"
      BY <1>5, <2>1, StepKeeps
    <3> QED
      BY <3>1 DEF IInv, Progress
  <2> QED
    BY <2>1, <2>2
<1>6. CASE CopyFails
  BY <1>6, <1>b DEF CopyFails
<1>7. CASE RemoveLog
  <2>1. /\ phase = "copied" /\ phase' = "reopening" /\ UNCHANGED <<main, promised>>
        /\ wal' = NoWal \/ mishaps' = mishaps \cup {"log"}
        /\ mishaps' \in {mishaps, mishaps \cup {"log"}}
    BY <1>7 DEF RemoveLog, LogRemoved
  <2> QED
    BY <1>b, <2>1
<1>8. CASE ChooseFresh
  BY <1>8 DEF ChooseFresh
<1>9. CASE Emptied
  <2>1. /\ phase = "emptying" /\ phase' \in {"reopening", "degraded"}
        /\ UNCHANGED <<main, promised, mishaps>> /\ wal' \in {wal, NoWal}
    BY <1>9 DEF Emptied
  <2> QED
    BY <1>b, <2>1
<1>10. CASE Reopen \/ ReopenRefused
  <2>1. PICK o \in AfterOpen(main, wal) \cup {[file |-> main, log |-> wal]} :
           main' = o.file /\ wal' = o.log
    BY <1>10 DEF Reopen, ReopenRefused
  <2>2. /\ phase = "reopening" /\ phase' = "degraded" /\ promised' = promised
        /\ mishaps' \in {mishaps, mishaps \cup {"open"}}
    BY <1>10 DEF Reopen, ReopenRefused, Settled
  <2>3. CASE o \in AfterOpen(main, wal)
    BY <1>c, <2>1, <2>2, <2>3
  <2>4. CASE o = [file |-> main, log |-> wal]
    BY <1>b, <2>1, <2>2, <2>4
  <2> QED
    BY <2>1, <2>3, <2>4
<1>11. CASE Crash
  <2>1. /\ phase' = "down" /\ UNCHANGED <<main, wal, promised>>
        /\ mishaps' = IF phase = "copied" /\ wal # NoWal THEN mishaps \cup {"log"} ELSE mishaps
    BY <1>11 DEF Crash
  <2> QED
    BY <1>b, <2>1
<1>12. CASE StartLocked \/ StartWithoutAddon \/ Stop
  <2>1. /\ UNCHANGED <<promised, mishaps>> /\ phase' \in {"asked", "degraded", "down"}
        /\ phase # "copied" /\ (phase # "up" => UNCHANGED <<main, wal>>)
    BY <1>12 DEF StartLocked, StartWithoutAddon, AddonMissingPhase, Stop
  <2> QED
    BY <1>b, <2>1
<1>13. CASE ReaderEnds \/ UNCHANGED vars
  <2>1. UNCHANGED <<main, wal, phase, promised, mishaps>>
    BY <1>13 DEF ReaderEnds, vars
  <2> QED
    BY <1>b, <2>1
<1> QED
  BY <1>1, <1>2, <1>3, <1>4, <1>5, <1>6, <1>7, <1>8, <1>9, <1>10, <1>11, <1>12, <1>13
  DEF Next, Working

\* What a host serves after a recovery, at once or after any deaths and failed
\* starts, is the newest backup as it was made, or nothing, provided that the old
\* file went and, beside a copy, the old log: a death of the process before the
\* log's removal or a removal that fails is excepted, as the code goes on there.
THEOREM RecoveryServesTheBackup == Spec => RecoveredIsBackup
<1> DEFINE Right == Serves /\ mishaps \cap {"file", "log"} = {} => Held' = promised
<1>1. Init => PromiseStands
  BY DEF Init, PromiseStands
<1>2. IInv /\ PromiseStands /\ [Next]_vars => PromiseStands'
  BY StepPromise
<1>3. IInv /\ PromiseStands /\ [Next]_vars => [Right]_vars
  <2>1. SUFFICES ASSUME IInv, PromiseStands, [Next]_vars, Serves,
                        mishaps \cap {"file", "log"} = {}
                 PROVE  Held' = promised
    OBVIOUS
  <2>2. /\ wal \in [base: States, top: States] \cup {NoWal} /\ main \in File \cup {Absent}
        /\ IF main = Absent THEN promised = {} ELSE main.data = promised /\ wal = NoWal
    BY <2>1 DEF IInv, TypeOK, PromiseStands, Serves
  <2>3. Start \/ Reopen
    BY <2>1 DEF Serves, Next, Working, vars, Commit, Checkpoint, ReaderBegins, ReaderEnds,
       Damage, BackupCopies, BackupPublished, BackupFails, StartLocked, StartWithoutAddon,
       AddonMissingPhase, ChooseRestore, Copied, CopyFails, RemoveLog, ChooseFresh, Emptied,
       ReopenRefused, Stop, Crash
  <2>4. PICK o \in AfterOpen(main, wal) : main' = o.file /\ wal' = o.log
    BY <2>3 DEF Start, Reopen
  <2>5. CASE main = Absent
    <3>1. main' = Fresh /\ wal' = NoWal /\ Fresh # Absent
      BY <2>2, <2>4, <2>5, OpenKeeps, FreshIsAFile
    <3> QED
      BY <2>2, <2>5, <3>1 DEF Held, Seen, Fresh
  <2>6. CASE main # Absent
    <3>1. main' = main /\ wal' = NoWal
      BY <2>2, <2>4, <2>6, OpenKeeps
    <3> QED
      BY <2>2, <2>6, <3>1 DEF Held, Seen
  <2> QED
    BY <2>5, <2>6
<1>4. Spec => []PromiseStands
  BY <1>1, <1>2, AlwaysIInv, PTL DEF Spec
<1> QED
  BY <1>3, <1>4, AlwaysIInv, PTL DEF Spec, RecoveredIsBackup

\* The backup that is put in the store's place is one that the host takes.
Chosen ==
    /\ phase \in {"copying", "copied"} => Restorable
    /\ phase = "reopening" /\ main # Absent /\ mishaps = {} => Restorable

\* Whoever has begun to replace the store gets one that serves, unless a copy, a
\* removal or an open of that recovery fails: nothing else makes the host degrade
\* after it has touched the store.
ReplacementServes ==
    [][(phase \in Recovering \ {"asked"} /\ phase' = "degraded") => (mishaps' # {})]_vars

LEMMA InitChosen == Init => Chosen
  BY DEF Init, Chosen

\* No step of a recovery takes a backup away.
LEMMA StepChosen == IInv /\ Chosen /\ [Next]_vars => Chosen'
<1> SUFFICES ASSUME IInv, Chosen, [Next]_vars,
                    phase' \in {"copying", "copied", "reopening"},
                    phase' = "reopening" => main' # Absent /\ mishaps' = {}
             PROVE  Restorable'
  BY DEF Chosen
<1>1. CASE ChooseRestore
  BY <1>1 DEF ChooseRestore, Restorable, Newest
<1>2. CASE Copied
  BY <1>2 DEF Copied, Chosen, Restorable, Newest
<1>3. CASE RemoveLog
  BY <1>3 DEF RemoveLog, Chosen, Restorable, Newest
<1>4. CASE Emptied
  BY <1>4 DEF Emptied, recovery, IInv, Progress
<1>5. CASE UNCHANGED vars
  BY <1>5 DEF vars, Chosen, Restorable, Newest
<1>6. CASE UNCHANGED <<main, phase, backups, mishaps>>
  BY <1>6 DEF Chosen, Restorable, Newest
<1> QED
  BY <1>1, <1>2, <1>3, <1>4, <1>5, <1>6
     DEF Next, Working, Commit, Checkpoint, ReaderBegins, ReaderEnds, Damage, BackupCopies,
         BackupPublished, BackupFails, Start, StartLocked, StartWithoutAddon,
         AddonMissingPhase, CopyFails, ChooseFresh, Reopen, ReopenRefused, Stop, Crash, files,
         recovery

\* With storeEmbeddingDims configured a valid newest backup is restored when
\* that is the answer, and a recovery that has begun leaves the host without a
\* store only when one of its copies, removals and opens fails: the configuration
\* alone keeps recoverOrDegradeStore from it.
THEOREM ConfiguredDimsRecover ==
    ASSUME DimsConfigured
    PROVE  Spec => ValidBackupIsRestored /\ ReplacementServes
<1> DEFINE Valid == backups # <<>> /\ Newest.file.fit /\ Newest.file.health = "good"
           Restored == phase = "asked" /\ phase' = "degraded" => ~Valid
           Replaced == phase \in Recovering \ {"asked"} /\ phase' = "degraded" => mishaps' # {}
<1>1. [Next]_vars => [Restored]_vars
  <2> SUFFICES ASSUME [Next]_vars, phase = "asked", phase' = "degraded" PROVE ~Valid
    OBVIOUS
  <2>1. ChooseRestore
    BY DEF Next, Working, vars, Commit, Checkpoint, ReaderBegins, ReaderEnds, Damage,
       BackupCopies, BackupPublished, BackupFails, Start, StartLocked, StartWithoutAddon,
       Copied, CopyFails, RemoveLog, ChooseFresh, Emptied, Reopen, ReopenRefused, Stop, Crash
  <2> QED
    BY <2>1 DEF ChooseRestore, Restorable
<1>2. IInv /\ Chosen /\ [Next]_vars => [Replaced]_vars
  <2> SUFFICES ASSUME IInv, Chosen, [Next]_vars, phase \in Recovering \ {"asked"},
                      phase' = "degraded", mishaps' = {}
               PROVE  FALSE
    OBVIOUS
  <2>1. Reopen
    BY DEF Next, Working, vars, Recovering, Commit, Checkpoint, ReaderBegins, ReaderEnds,
       Damage, BackupCopies, BackupPublished, BackupFails, Start, StartLocked,
       StartWithoutAddon, ChooseRestore, Copied, CopyFails, RemoveLog, ChooseFresh, Emptied,
       ReopenRefused, Stop, Crash
  <2>2. /\ phase = "reopening" /\ main \in File \cup {Absent}
        /\ wal \in [base: States, top: States] \cup {NoWal} /\ mishaps = {}
        /\ main = Absent \/ (wal = NoWal /\ main = Newest.file)
    BY <2>1 DEF Reopen, Settled, IInv, TypeOK, Progress
  <2>3. PICK o \in AfterOpen(main, wal) : Rejected(o.file)
    BY <2>1 DEF Reopen
  <2>4. CASE main = Absent
    BY <2>2, <2>3, <2>4, OpenKeeps DEF Rejected, Fresh
  <2>5. CASE main # Absent
    BY <2>2, <2>3, <2>5, OpenKeeps DEF Rejected, Chosen, Restorable
  <2> QED
    BY <2>4, <2>5
<1>3. Spec => [][Restored]_vars
  BY <1>1, PTL DEF Spec
<1>4. Spec => []Chosen
  BY InitChosen, StepChosen, AlwaysIInv, PTL DEF Spec
<1>5. Spec => [][Replaced]_vars
  BY <1>2, <1>4, AlwaysIInv, PTL DEF Spec
<1> QED
  BY <1>3, <1>5 DEF ValidBackupIsRestored, ReplacementServes
=============================================================================
