----------------------------- MODULE BrowserPacks -----------------------------
(***************************************************************************)
(* Knowledge packs in the browser app                                      *)
(* (web_ui/src/lib/packs/browser-pack-manager.ts, pack-store-opfs.ts,      *)
(* pack-ingest.ts and pack-index-health.ts): tabs that install, roll back  *)
(* and remove versions over one registry, one file store and one pair of   *)
(* search indexes, the embedding that follows in the background, the sweep *)
(* and the index check of a start, and tabs that die at any time.          *)
(*                                                                         *)
(* A version's documents are its manifest's paths; a document's place in   *)
(* an index is the same for every version of its pack, and holds the       *)
(* version whose text was put there last.  An index change counts from its *)
(* save, which merges it into what other tabs saved.  Web Locks are there; *)
(* their queue and the 60 s bound on it only decide who comes next.        *)
(***************************************************************************)
EXTENDS Integers, FiniteSets

CONSTANTS
    Tabs, Packs, Versions, Docs,
    Contents,     \* Contents[p][v]: the documents of version v of pack p
    Supersedes,   \* Supersedes[p][v]: versions of other packs it supersedes
    MaxRequests,  \* bound: installs, rollbacks and removals a person asks for
    MaxFaults,    \* bound: tabs that die, and writes and passes that fail
    Loading,      \* bound: the tabs whose embedding model loads
    Browsing,     \* bound: the tabs that list the packs
    None, Free

Versioned == Packs \X Versions
Places == Packs \X Docs
Dirs == 1..MaxRequests

ASSUME VersionsAssumption == Versions \subseteq Nat \ {0}
ASSUME CatalogAssumption ==
    /\ Contents \in [Packs -> [Versions -> SUBSET Docs]]
    /\ Supersedes \in [Packs -> [Versions -> SUBSET Versioned]]
    /\ \A p \in Packs, v \in Versions : \A s \in Supersedes[p][v] : s[1] # p
ASSUME BoundsAssumption == MaxRequests \in Nat /\ MaxFaults \in Nat
ASSUME NamesAssumption == Free \notin Tabs
ASSUME TabsAssumption == Loading \subseteq Tabs /\ Browsing \subseteq Tabs

VARIABLES
    rows,     \* the registry
    dirs,     \* the version directories, named by the install that wrote them
    requests, \* how many operations were asked for
    keyword,  \* the keyword index: the version whose text a place holds, or 0
    vector,   \* the vector index
    lock,     \* the tab that holds a pack's lock
    op,       \* a tab's lifecycle operation
    pass,     \* its embedding pass
    health,   \* its index check
    sweep,    \* the directories its startup sweep listed and has yet to judge
    ready,    \* its embedding model is loaded
    faults    \* how many tabs died, and writes and passes failed

stored == <<rows, dirs, requests>>
indexes == <<keyword, vector>>
vars == <<rows, dirs, requests, keyword, vector, lock, op, pass, health, sweep, ready, faults>>

Row == [active : BOOLEAN, dir : Dirs, embedded : BOOLEAN]
Dir == [of : Versioned, whole : BOOLEAN]
\* What an operation read before it awaited: rows, and their keys.
Seen == [key : Versioned, row : Row]
Steps == {"writing", "written", "cleaning", "hooking",
          "unindexing", "marking", "indexing", "removing"}
Op == [step : Steps, key : Versioned, dirs : SUBSET Dirs, out : SUBSET Seen]
Pass == [stage : {"idle", "listing", "next", "encoding", "storing"},
         todo : SUBSET Seen, at : Seen \cup {None}, again : BOOLEAN]
Health == [stage : {"closed", "due", "checking", "idle"},
           todo : SUBSET Seen, at : Seen \cup {None}]

ASSUME NoneAssumption == None \notin Row /\ None \notin Dir /\ None \notin Op

TypeOK ==
    /\ rows \in [Versioned -> Row \cup {None}]
    /\ dirs \in [Dirs -> Dir \cup {None}] /\ requests \in 0..MaxRequests
    /\ keyword \in [Places -> Versions \cup {0}] /\ vector \in [Places -> Versions \cup {0}]
    /\ lock \in [Packs -> Tabs \cup {Free}]
    /\ op \in [Tabs -> Op \cup {None}]
    /\ pass \in [Tabs -> Pass] /\ health \in [Tabs -> Health]
    /\ sweep \in [Tabs -> (SUBSET Dirs) \cup {None}]
    /\ ready \in [Tabs -> BOOLEAN]
    /\ faults \in 0..MaxFaults

NoPass == [stage |-> "idle", todo |-> {}, at |-> None, again |-> FALSE]
NoHealth == [stage |-> "closed", todo |-> {}, at |-> None]

Init ==
    /\ rows = [k \in Versioned |-> None]
    /\ dirs = [d \in Dirs |-> None] /\ requests = 0
    /\ keyword = [x \in Places |-> 0] /\ vector = [x \in Places |-> 0]
    /\ lock = [p \in Packs |-> Free]
    /\ op = [t \in Tabs |-> None]
    /\ pass = [t \in Tabs |-> NoPass]
    /\ health = [t \in Tabs |-> NoHealth]
    /\ sweep = [t \in Tabs |-> None]
    /\ ready = [t \in Tabs |-> FALSE]
    /\ faults = 0

-----------------------------------------------------------------------------
Open(t) == health[t].stage # "closed"
Installed == {k \in Versioned : rows[k] # None}
Active(k) == rows[k] # None /\ rows[k].active
Read(ks) == {[key |-> k, row |-> rows[k]] : k \in ks}

\* The rows that an install deactivates, as it read them.
Outgoing(p, v) ==
    Read({k \in Versioned : Active(k) /\ (k[1] = p \/ k \in Supersedes[p][v])})

PlacesOf(k) == {k[1]} \X Contents[k[1]][k[2]]

\* indexPackKeywords and the end of embedPackChunks.
Put(index, k) == [x \in Places |-> IF x \in PlacesOf(k) THEN k[2] ELSE index[x]]

Unput(index, seen) ==
    [x \in Places |-> IF \E s \in seen : x \in PlacesOf(s.key) THEN 0 ELSE index[x]]

\* unindexPackDocs skips a vector index that is not loaded, which it may be
\* before the model is.
Unindexed(t, seen) ==
    /\ keyword' = Unput(keyword, seen)
    /\ vector' \in {Unput(vector, seen)} \cup (IF ready[t] THEN {} ELSE {vector})

Requested == requests < MaxRequests /\ requests' = requests + 1

Faulty == faults < MaxFaults /\ faults' = faults + 1

Without(ds) == [d \in Dirs |-> IF d \in ds THEN None ELSE dirs[d]]

\* A removal of directories, which may fail.
RemoveDirs(ds) ==
    \/ dirs' = Without(ds) /\ UNCHANGED faults
    \/ dirs' = dirs /\ Faulty

\* Mutant: a call during a pass only joins it.
Joined(q) == IF q.stage = "idle" THEN [q EXCEPT !.stage = "listing"] ELSE q

\* embedPendingPackChunks: a call during a pass asks for another one.
Asked(q) == IF q.stage = "idle" THEN [q EXCEPT !.stage = "listing"] ELSE [q EXCEPT !.again = TRUE]

AskEmbedding(t) == pass' = [pass EXCEPT ![t] = Asked(@)]

\* Mutant: any tab may enter.
Unlocked(p) == TRUE

LockFree(p) == lock[p] = Free
-----------------------------------------------------------------------------
(* installPack.                                                            *)

\* No downgrade and no second install of the active version.
MayInstall(p, v) == \A k \in Versioned : k[1] = p /\ Active(k) => k[2] < v

BeginInstall(t, p, v) ==
    /\ Open(t) /\ op[t] = None /\ LockFree(p)
    /\ Requested
    /\ MayInstall(p, v)
    /\ dirs' = [dirs EXCEPT ![requests + 1] = [of |-> <<p, v>>, whole |-> FALSE]]
    /\ lock' = [lock EXCEPT ![p] = t]
    /\ op' = [op EXCEPT ![t] = [step |-> "writing", key |-> <<p, v>>, dirs |-> {requests + 1},
                                out |-> Outgoing(p, v)]]
    /\ UNCHANGED <<rows, indexes, pass, health, sweep, ready, faults>>

\* A directory that was removed meanwhile comes back with the files still to
\* be written.
InstallWritten(t) ==
    /\ op[t] # None /\ op[t].step = "writing"
    /\ dirs' = [d \in Dirs |-> IF d \in op[t].dirs THEN [of |-> op[t].key, whole |-> dirs[d] # None]
                                               ELSE dirs[d]]
    /\ op' = [op EXCEPT ![t].step = "written"]
    /\ UNCHANGED <<rows, requests, indexes, lock, pass, health, sweep, ready, faults>>

\* A file cannot be written, or the registry not be changed.
InstallFails(t) ==
    /\ op[t] # None /\ op[t].step \in {"writing", "written"}
    /\ Faulty
    /\ dirs' \in {dirs, Without(op[t].dirs)}
    /\ lock' = [lock EXCEPT ![op[t].key[1]] = Free]
    /\ op' = [op EXCEPT ![t] = None]
    /\ UNCHANGED <<rows, requests, indexes, pass, health, sweep, ready>>

\* Mutant: the rows that were active stay so.
LeftActive(out) == {}

Deactivated(out) == out

\* One transaction; the directory of a retained version that is replaced is
\* removed after it.
InstallCommits(t) ==
    /\ op[t] # None /\ op[t].step = "written"
    /\ LET k == op[t].key
           out == op[t].out
           new == [active |-> TRUE, dir |-> CHOOSE d \in op[t].dirs : TRUE, embedded |-> FALSE]
       IN /\ rows' = [j \in Versioned |->
                        IF j = k THEN new
                        ELSE IF \E s \in Deactivated(out) : s.key = j
                             THEN [(CHOOSE s \in out : s.key = j).row EXCEPT !.active = FALSE]
                             ELSE rows[j]]
          /\ op' = [op EXCEPT ![t].step = "cleaning",
                              ![t].dirs = {rows[j].dir : j \in Installed \cap {k}}]
    /\ UNCHANGED <<dirs, requests, indexes, lock, pass, health, sweep, ready, faults>>

InstallCleans(t) ==
    /\ op[t] # None /\ op[t].step = "cleaning"
    /\ RemoveDirs(op[t].dirs)
    /\ Unindexed(t, op[t].out)
    /\ lock' = [lock EXCEPT ![op[t].key[1]] = Free]
    /\ op' = [op EXCEPT ![t].step = "hooking"]
    /\ UNCHANGED <<rows, requests, pass, health, sweep, ready>>

\* onInstalled, with the lock released.
InstallHooks(t) ==
    /\ op[t] # None /\ op[t].step = "hooking"
    /\ keyword' = Put(keyword, op[t].key)
    /\ AskEmbedding(t)
    /\ op' = [op EXCEPT ![t] = None]
    /\ UNCHANGED <<stored, vector, lock, health, sweep, ready, faults>>

-----------------------------------------------------------------------------
(* rollbackPack and removePack.                                            *)

Rollback(t, k) ==
    /\ Open(t) /\ op[t] = None /\ LockFree(k[1])
    /\ Requested
    /\ rows[k] # None /\ ~rows[k].active
    /\ LET actives == {j \in Versioned : j[1] = k[1] /\ Active(j)} IN
       /\ rows' = [j \in Versioned |->
                     IF j = k THEN [rows[k] EXCEPT !.active = TRUE]
                     ELSE IF j \in actives THEN [rows[j] EXCEPT !.active = FALSE] ELSE rows[j]]
       /\ op' = [op EXCEPT ![t] = [step |-> "unindexing", key |-> k, dirs |-> {rows[k].dir},
                                   out |-> Read(actives)]]
    /\ UNCHANGED <<dirs, indexes, lock, pass, health, sweep, ready, faults>>

RollbackUnindexes(t) ==
    /\ op[t] # None /\ op[t].step = "unindexing"
    /\ Unindexed(t, op[t].out)
    /\ op' = [op EXCEPT ![t].step = "marking"]
    /\ UNCHANGED <<stored, lock, pass, health, sweep, ready, faults>>

\* markEmbedded, under the lock.
Marked(k, b) ==
    /\ LockFree(k[1])
    /\ rows' = IF rows[k] = None THEN rows ELSE [rows EXCEPT ![k].embedded = b]

RollbackMarks(t) ==
    /\ op[t] # None /\ op[t].step = "marking"
    /\ Marked(op[t].key, FALSE)
    /\ op' = [op EXCEPT ![t].step = "indexing"]
    /\ UNCHANGED <<dirs, requests, indexes, lock, pass, health, sweep, ready, faults>>

\* Nothing is indexed of a version whose files are gone.
RollbackIndexes(t) ==
    /\ op[t] # None /\ op[t].step = "indexing"
    /\ IF \A d \in op[t].dirs : dirs[d] = None
       THEN UNCHANGED <<keyword, pass>>
       ELSE keyword' = Put(keyword, op[t].key) /\ AskEmbedding(t)
    /\ op' = [op EXCEPT ![t] = None]
    /\ UNCHANGED <<stored, vector, lock, health, sweep, ready, faults>>

\* One version, or all of the pack.
Removals(k) == {{k}, {j \in Installed : j[1] = k[1]}}

Remove(t, k, ks) ==
    /\ Open(t) /\ op[t] = None /\ LockFree(k[1])
    /\ Requested
    /\ rows[k] # None
    /\ rows' = [j \in Versioned |-> IF j \in ks THEN None ELSE rows[j]]
    /\ lock' = [lock EXCEPT ![k[1]] = t]
    /\ op' = [op EXCEPT ![t] = [step |-> "removing", key |-> k, dirs |-> {rows[j].dir : j \in ks},
                                out |-> Read({j \in ks : Active(j)})]]
    /\ UNCHANGED <<dirs, indexes, pass, health, sweep, ready, faults>>

RemoveCleans(t) ==
    /\ op[t] # None /\ op[t].step = "removing"
    /\ RemoveDirs(op[t].dirs)
    /\ Unindexed(t, op[t].out)
    /\ lock' = [lock EXCEPT ![op[t].key[1]] = Free]
    /\ op' = [op EXCEPT ![t] = None]
    /\ UNCHANGED <<rows, requests, pass, health, sweep, ready>>

-----------------------------------------------------------------------------
(* runEmbedPendingPass.                                                    *)

PassLists(t) ==
    /\ pass[t].stage = "listing"
    /\ pass' = [pass EXCEPT ![t] = [@ EXCEPT !.stage = "next", !.again = FALSE,
                    !.todo = Read({k \in Versioned : Active(k) /\ ~rows[k].embedded})]]
    /\ UNCHANGED <<stored, indexes, lock, op, health, sweep, ready, faults>>

\* Files that are gone and a model that is not loaded leave the version pending.
PassTakes(t) ==
    /\ pass[t].stage = "next"
    /\ \E r \in pass[t].todo :
           LET rest == pass[t].todo \ {r} IN
           pass' = [pass EXCEPT ![t] =
                      IF dirs[r.row.dir] = None \/ ~ready[t] THEN [@ EXCEPT !.todo = rest]
                      ELSE [@ EXCEPT !.todo = rest, !.at = r, !.stage = "encoding"]]
    /\ UNCHANGED <<stored, indexes, lock, op, health, sweep, ready, faults>>

PassStores(t) ==
    /\ pass[t].stage = "encoding"
    /\ vector' = Put(vector, pass[t].at.key)
    /\ pass' = [pass EXCEPT ![t].stage = "storing"]
    /\ UNCHANGED <<stored, keyword, lock, op, health, sweep, ready, faults>>

PassMarks(t) ==
    /\ pass[t].stage = "storing"
    /\ Marked(pass[t].at.key, TRUE)
    /\ pass' = [pass EXCEPT ![t] = [@ EXCEPT !.stage = "next", !.at = None]]
    /\ UNCHANGED <<dirs, requests, indexes, lock, op, health, sweep, ready, faults>>

PassEnds(t) ==
    /\ pass[t].stage = "next" /\ pass[t].todo = {}
    /\ pass' = [pass EXCEPT ![t] = [@ EXCEPT !.stage = IF pass[t].again THEN "listing" ELSE "idle",
                                             !.again = FALSE]]
    /\ UNCHANGED <<stored, indexes, lock, op, health, sweep, ready, faults>>

\* The encoding, the save or the wait for the lock fails, and with it the pass.
PassFails(t) ==
    /\ pass[t].stage \in {"encoding", "storing"}
    /\ Faulty
    /\ pass' = [pass EXCEPT ![t] = NoPass]
    /\ UNCHANGED <<stored, indexes, lock, op, health, sweep, ready>>

-----------------------------------------------------------------------------
(* ensurePackIndexHealthThenEmbed and collectOrphans.                      *)

HealthLists(t) ==
    /\ health[t].stage = "due"
    /\ health' = [health EXCEPT ![t] = [@ EXCEPT !.stage = "checking",
                    !.todo = Read({k \in Versioned : Active(k)})]]
    /\ UNCHANGED <<stored, indexes, lock, op, pass, sweep, ready, faults>>

\* Mutant: the keyword index is taken for whole.
MissingVectors(t, k) == ready[t] /\ \E x \in PlacesOf(k) : vector[x] = 0

\* Only a place that holds nothing counts as missing, whatever version it is of.
Missing(t, k) == \E x \in PlacesOf(k) : keyword[x] = 0 \/ (ready[t] /\ vector[x] = 0)

HealthChecks(t) ==
    /\ health[t].stage = "checking" /\ health[t].at = None
    /\ \E r \in health[t].todo :
           LET heal == dirs[r.row.dir] # None /\ Missing(t, r.key) IN
           /\ keyword' = IF heal THEN Put(keyword, r.key) ELSE keyword
           /\ health' = [health EXCEPT ![t].todo = @ \ {r},
                                       ![t].at = IF heal /\ r.row.embedded THEN r ELSE None]
    /\ UNCHANGED <<stored, vector, lock, op, pass, sweep, ready, faults>>

HealthMarks(t) ==
    /\ health[t].at # None
    /\ Marked(health[t].at.key, FALSE)
    /\ health' = [health EXCEPT ![t].at = None]
    /\ UNCHANGED <<dirs, requests, indexes, lock, op, pass, sweep, ready, faults>>

HealthEnds(t) ==
    /\ health[t].stage = "checking" /\ health[t].at = None /\ health[t].todo = {}
    /\ health' = [health EXCEPT ![t].stage = "idle"]
    /\ AskEmbedding(t)
    /\ UNCHANGED <<stored, indexes, lock, op, sweep, ready, faults>>

\* The first list of packs in a tab sweeps; the directories are listed first.
SweepLists(t) ==
    /\ t \in Browsing /\ Open(t) /\ sweep[t] = None
    /\ sweep' = [sweep EXCEPT ![t] = {d \in Dirs : dirs[d] # None}]
    /\ UNCHANGED <<stored, indexes, lock, op, pass, health, ready, faults>>

\* The directories that the registry names, read under the lock.
Referenced == {rows[k].dir : k \in Installed}

SweepPack(t, p) ==
    /\ sweep[t] # None
    /\ LET mine == {d \in sweep[t] : dirs[d] # None => dirs[d].of[1] = p} IN
       /\ mine # {} /\ LockFree(p)
       /\ dirs' = [d \in Dirs |-> IF d \in mine \ Referenced THEN None ELSE dirs[d]]
       /\ sweep' = [sweep EXCEPT ![t] = @ \ mine]
    /\ UNCHANGED <<rows, requests, indexes, lock, op, pass, health, ready, faults>>

-----------------------------------------------------------------------------
\* 'embedding-service-ready'.
ModelLoaded(t) ==
    /\ t \in Loading /\ Open(t) /\ ~ready[t]
    /\ ready' = [ready EXCEPT ![t] = TRUE]
    /\ health' = [health EXCEPT ![t].stage = IF @ = "idle" THEN "due" ELSE @]
    /\ UNCHANGED <<stored, indexes, lock, op, pass, sweep, faults>>

\* startBrowserTraining in a tab that is opened.
Boot(t) ==
    /\ ~Open(t)
    /\ health' = [health EXCEPT ![t].stage = "due"]
    /\ UNCHANGED <<stored, indexes, lock, op, pass, sweep, ready, faults>>

\* A tab that dies gives its locks back.
Crash(t) ==
    /\ Open(t) /\ Faulty
    /\ op' = [op EXCEPT ![t] = None]
    /\ pass' = [pass EXCEPT ![t] = NoPass]
    /\ health' = [health EXCEPT ![t] = NoHealth]
    /\ sweep' = [sweep EXCEPT ![t] = None]
    /\ ready' = [ready EXCEPT ![t] = FALSE]
    /\ lock' = [p \in Packs |-> IF lock[p] = t THEN Free ELSE lock[p]]
    /\ UNCHANGED <<stored, indexes>>

\* What a tab does by itself once it was asked for it.
Proceeds(t) ==
    \/ InstallWritten(t) \/ InstallFails(t) \/ InstallCommits(t) \/ InstallCleans(t)
    \/ InstallHooks(t) \/ RollbackUnindexes(t) \/ RollbackMarks(t) \/ RollbackIndexes(t)
    \/ RemoveCleans(t)

Embeds(t) ==
    PassLists(t) \/ PassTakes(t) \/ PassStores(t) \/ PassMarks(t) \/ PassEnds(t) \/ PassFails(t)

Heals(t) == HealthLists(t) \/ HealthChecks(t) \/ HealthMarks(t) \/ HealthEnds(t)

Next ==
    \E t \in Tabs :
        \/ Proceeds(t) \/ Embeds(t) \/ Heals(t)
        \/ \E p \in Packs, v \in Versions : BeginInstall(t, p, v)
        \/ \E k \in Versioned : Rollback(t, k) \/ \E ks \in Removals(k) : Remove(t, k, ks)
        \/ SweepLists(t) \/ \E p \in Packs : SweepPack(t, p)
        \/ ModelLoaded(t) \/ Boot(t) \/ Crash(t)

Spec == Init /\ [][Next]_vars

\* Tabs that are open go on with what they began.  The requests are bounded,
\* and so no lock is taken over and over: whoever waits for one gets it.
Fairness ==
    \A t \in Tabs : WF_vars(Proceeds(t)) /\ WF_vars(Embeds(t)) /\ WF_vars(Heals(t))

FairSpec == Spec /\ Fairness
-----------------------------------------------------------------------------
(* Properties.                                                             *)

\* No install or rollback of any tab, whatever it read before it waited or wrote,
\* and no fault leaves two versions of a pack active.
OneActive ==
    \A j, k \in Versioned : j[1] = k[1] /\ Active(j) /\ Active(k) => j = k

\* Every version of the registry, the retained ones included, has all its
\* files: none is recorded before they are written, and no sweep, replacement
\* or removal takes them away.
RowsHaveFiles ==
    \A k \in Installed : dirs[rows[k].dir] = [of |-> k, whole |-> TRUE]

\* A version that was installed or rolled back to in a tab whose model is loaded
\* is embedded, also when a pass was under way that had not listed it.
ActivatedIsEmbedded ==
    \A t \in Tabs, k \in Versioned, f \in 0..MaxFaults :
        op[t] # None /\ op[t].key = k /\ op[t].step \in {"hooking", "indexing"} /\ ready[t]
            /\ faults = f
        ~> ~Active(k) \/ rows[k].embedded \/ faults # f

\* What a tab that died left unindexed is found by the next start of any tab.
StartsRepair ==
    \A t \in Tabs, k \in Versioned :
        health[t].stage = "due" /\ Active(k)
        ~> ~Active(k) \/ ~Open(t) \/ \A x \in PlacesOf(k) : keyword[x] # 0

\* Not so: an embedding under way outlives what takes its version out of the index.
\* "Only the ACTIVE version's documents are in the search indexes": at rest every
\* place of the vector index holds the active version of its pack, or nothing.
Resting == \A t \in Tabs : op[t] = None /\ pass[t].stage = "idle" /\ health[t].stage \in {"idle", "closed"}

IndexFollowsActive ==
    Resting => \A x \in Places : vector[x] # 0 => Active(<<x[1], vector[x]>>)
=============================================================================
