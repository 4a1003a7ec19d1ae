-------------------------- MODULE BrowserPacksProofs --------------------------
(***************************************************************************)
(* What BrowserPacks guarantees for all tabs, packs, versions and bounds,  *)
(* as long as no pack supersedes a version of another: the registry never  *)
(* has two active versions of a pack, nor a version without its files.     *)
(***************************************************************************)
EXTENDS BrowserPacks, TLAPS

Holding == {"writing", "written", "cleaning", "removing"}

Writing == {"writing", "written"}

At(t, steps) == op[t] # None /\ op[t].step \in steps

\* These steps run under the lock of their pack.
Locked == \A t \in Tabs : At(t, Holding) => lock[op[t].key[1]] = t

\* A directory that was not begun yet is nowhere.
Fresh == \A d \in Dirs : d > requests =>
    /\ dirs[d] = None
    /\ \A k \in Installed : rows[k].dir # d
    /\ \A t \in Tabs : op[t] # None => d \notin op[t].dirs

\* The directories an operation writes or removes are of its pack, and of no row.
Owned == \A t \in Tabs : At(t, Holding) => \A d \in op[t].dirs :
    /\ dirs[d] # None => dirs[d].of[1] = op[t].key[1]
    /\ \A k \in Installed : rows[k].dir # d

\* Nothing takes away the directory of an install, which is whole when written.
Kept == \A t \in Tabs : At(t, Writing) => \E d \in Dirs :
    /\ op[t].dirs = {d}
    /\ op[t].step = "writing" => dirs[d] = [of |-> op[t].key, whole |-> FALSE]
    /\ op[t].step = "written" => dirs[d] = [of |-> op[t].key, whole |-> TRUE]

\* What an install read of its pack is what is there.
ActiveOf(p) == Read({k \in Versioned : Active(k) /\ k[1] = p})

Current == \A t \in Tabs, p \in Packs :
    At(t, Writing) /\ op[t].key[1] = p => op[t].out = ActiveOf(p)

\* A pass that embeds has a version to embed.
Underway == \A t \in Tabs : pass[t].stage \in {"encoding", "storing"} => pass[t].at \in Seen

IInv == TypeOK /\ Underway /\ Locked /\ Fresh /\ Owned /\ Kept /\ Current /\ OneActive /\ RowsHaveFiles

Independent == \A p \in Packs, v \in Versions : Supersedes[p][v] = {}

\* The steps of the background work that change no row, file, lock or operation.
Quiet == UNCHANGED <<stored, lock, op>>

\* What keeps the registry, the files, the locks and the operations.
LEMMA QuietSteps ==
    /\ UNCHANGED vars => Quiet
    /\ \A t \in Tabs :
          \/ PassLists(t) \/ PassTakes(t) \/ PassStores(t) \/ PassEnds(t) \/ PassFails(t)
          \/ HealthLists(t) \/ HealthChecks(t) \/ HealthEnds(t)
          \/ SweepLists(t) \/ ModelLoaded(t) \/ Boot(t)
          => Quiet
  BY DEF Quiet, vars, stored, indexes, PassLists, PassTakes, PassStores, PassEnds,
         PassFails, HealthLists, HealthChecks, HealthEnds, SweepLists, ModelLoaded, Boot


-----------------------------------------------------------------------------
(* What the steps do to rows and directories.                              *)

\* A row, an operation and a directory are of their types.
LEMMA Shapes ==
    ASSUME TypeOK
    PROVE  /\ rows \in [Versioned -> Row \cup {None}] /\ dirs \in [Dirs -> Dir \cup {None}]
           /\ op \in [Tabs -> Op \cup {None}] /\ lock \in [Packs -> Tabs \cup {Free}]
           /\ requests \in 0..MaxRequests
           /\ \A k \in Installed : k \in Versioned /\ rows[k] \in Row /\ rows[k].dir \in Dirs
           /\ \A t \in Tabs : op[t] # None =>
                 /\ op[t] \in Op /\ op[t].key \in Versioned
                 /\ op[t].key[1] \in Packs /\ op[t].dirs \subseteq Dirs
           /\ \A d \in Dirs : dirs[d] # None => dirs[d] \in Dir
           /\ \A k \in Versioned : k[1] \in Packs
  BY DEF TypeOK, Installed, Row, Op, Dir, Versioned

\* What is written to a directory is not nothing.
LEMMA DirRecord ==
    ASSUME NEW k \in Versioned, NEW b \in BOOLEAN
    PROVE  [of |-> k, whole |-> b] # None /\ [of |-> k, whole |-> b].of = k
  BY NoneAssumption DEF Dir

\* The same versions are installed, in the same directories.
SameFiles ==
    \A k \in Versioned :
        /\ rows'[k] = None <=> rows[k] = None
        /\ rows[k] # None => rows'[k].dir = rows[k].dir

\* A mark changes a row of a free pack, and not what is active.
LEMMA MarkEffect ==
    ASSUME TypeOK, NEW k \in Versioned, NEW b \in BOOLEAN, Marked(k, b)
    PROVE  /\ SameFiles
           /\ lock[k[1]] = Free
           /\ \A j \in Versioned : j[1] # k[1] => rows'[j] = rows[j]
           /\ \A j \in Versioned : rows[j] # None => rows'[j].active = rows[j].active
           /\ rows' \in [Versioned -> Row \cup {None}]
<1>1. CASE rows[k] = None
  BY <1>1 DEF Marked, SameFiles, LockFree, TypeOK
<1>2. CASE rows[k] # None
  <2>1. rows' = [rows EXCEPT ![k].embedded = b] /\ lock[k[1]] = Free
    BY <1>2 DEF Marked, LockFree
  <2>2. rows[k] \in Row /\ [rows[k] EXCEPT !.embedded = b] \in Row
    BY <1>2 DEF TypeOK, Row
  <2>3. rows' = [rows EXCEPT ![k] = [rows[k] EXCEPT !.embedded = b]]
    BY <2>1
  <2>. QED
    BY <2>1, <2>2, <2>3, NoneAssumption DEF SameFiles, TypeOK, Row
<1>. QED
  BY <1>1, <1>2

\* The three steps that mark.
LEMMA MarksEffect ==
    ASSUME TypeOK, Underway, NEW t \in Tabs, RollbackMarks(t) \/ PassMarks(t) \/ HealthMarks(t)
    PROVE  \E k \in Versioned, b \in BOOLEAN :
             Marked(k, b) /\ UNCHANGED <<dirs, requests, lock>>
<1>1. CASE RollbackMarks(t)
  BY <1>1, Shapes DEF RollbackMarks
<1>2. CASE PassMarks(t)
  <2>1. pass[t].at.key \in Versioned
    BY <1>2 DEF PassMarks, Underway, Seen
  <2>. QED
    BY <1>2, <2>1 DEF PassMarks
<1>3. CASE HealthMarks(t)
  <2>1. health[t].at.key \in Versioned
    BY <1>3 DEF HealthMarks, TypeOK, Health, Seen
  <2>. QED
    BY <1>3, <2>1 DEF HealthMarks
<1>. QED
  BY <1>1, <1>2, <1>3

\* The three steps that give up directories remove theirs, or nothing.
LEMMA RemovalEffect ==
    ASSUME TypeOK, NEW t \in Tabs, InstallFails(t) \/ InstallCleans(t) \/ RemoveCleans(t)
    PROVE  /\ At(t, Holding)
           /\ \A d \in Dirs : dirs'[d] = dirs[d] \/ (d \in op[t].dirs /\ dirs'[d] = None)
           /\ UNCHANGED <<rows, requests>>
           /\ lock' = [lock EXCEPT ![op[t].key[1]] = Free]
           /\ op' = [op EXCEPT ![t] = None] \/ op' = [op EXCEPT ![t].step = "hooking"]
           /\ dirs' \in [Dirs -> Dir \cup {None}]
<1>1. Without(op[t].dirs) \in [Dirs -> Dir \cup {None}]
  BY DEF Without, TypeOK
<1>2. dirs' = dirs \/ dirs' = Without(op[t].dirs)
  BY DEF InstallFails, InstallCleans, RemoveCleans, RemoveDirs
<1>3. \A d \in Dirs : dirs'[d] = dirs[d] \/ (d \in op[t].dirs /\ dirs'[d] = None)
  BY <1>2 DEF Without
<1>4. At(t, Holding)
  BY DEF InstallFails, InstallCleans, RemoveCleans, At, Holding
<1>. QED
  BY <1>1, <1>2, <1>3, <1>4 DEF InstallFails, InstallCleans, RemoveCleans, TypeOK

\* The commit of an install puts its directory into the row and deactivates the
\* rest of its pack.
Committed(t, d) ==
    /\ op[t].dirs = {d}
    /\ dirs[d] = [of |-> op[t].key, whole |-> TRUE]
    /\ rows'[op[t].key] = [active |-> TRUE, dir |-> d, embedded |-> FALSE]
    /\ \A j \in Versioned : j # op[t].key =>
          /\ rows'[j] = None <=> rows[j] = None
          /\ rows[j] # None =>
                /\ rows'[j].dir = rows[j].dir
                /\ j[1] = op[t].key[1] => rows'[j].active = FALSE
                /\ j[1] # op[t].key[1] => rows'[j] = rows[j]
    /\ rows' \in [Versioned -> Row \cup {None}]

\* What a commit makes of the registry.
LEMMA CommitEffect ==
    ASSUME TypeOK, Kept, Current, NEW t \in Tabs, InstallCommits(t)
    PROVE  \E d \in Dirs : Committed(t, d)
<1> DEFINE k == op[t].key
           out == op[t].out
           new == [active |-> TRUE, dir |-> CHOOSE d \in op[t].dirs : TRUE, embedded |-> FALSE]
           off(j) == [(CHOOSE s \in out : s.key = j).row EXCEPT !.active = FALSE]
<1>1. op[t] # None /\ op[t].step = "written" /\ At(t, Writing)
  BY DEF InstallCommits, At, Writing
<1>2. PICK d \in Dirs : op[t].dirs = {d} /\ dirs[d] = [of |-> k, whole |-> TRUE]
  BY <1>1 DEF Kept
<1>3. rows' = [j \in Versioned |->
                 IF j = k THEN new ELSE IF \E s \in out : s.key = j THEN off(j) ELSE rows[j]]
  BY DEF InstallCommits, Deactivated
<1>4. new = [active |-> TRUE, dir |-> d, embedded |-> FALSE] /\ k \in Versioned
  BY <1>1, <1>2, Shapes
<1>5. out = Read({j \in Versioned : Active(j) /\ j[1] = k[1]})
  BY <1>1, Shapes DEF Current, ActiveOf
<1>6. ASSUME NEW j \in Versioned, j # k
      PROVE  /\ rows'[j] = None <=> rows[j] = None
             /\ rows[j] # None =>
                   /\ rows'[j].dir = rows[j].dir
                   /\ j[1] = k[1] => rows'[j].active = FALSE
                   /\ j[1] # k[1] => rows'[j] = rows[j]
             /\ rows'[j] \in Row \cup {None}
  <2>1. CASE Active(j) /\ j[1] = k[1]
    <3>1. [key |-> j, row |-> rows[j]] \in out
      BY <1>5, <2>1 DEF Read
    <3>2. \A s \in out : s.key = j => s.row = rows[j]
      BY <1>5 DEF Read
    <3>3. (CHOOSE s \in out : s.key = j).row = rows[j]
      BY <3>1, <3>2
    <3>4. rows'[j] = [rows[j] EXCEPT !.active = FALSE]
      BY <1>3, <1>6, <3>1, <3>3
    <3>5. rows[j] \in Row
      BY <2>1 DEF Active, TypeOK
    <3>6. [rows[j] EXCEPT !.active = FALSE] \in Row
      BY <3>5 DEF Row
    <3>. QED
      BY <2>1, <3>4, <3>5, <3>6, NoneAssumption DEF Row, Active
  <2>2. CASE ~(Active(j) /\ j[1] = k[1])
    <3>1. ~\E s \in out : s.key = j
      BY <1>5, <2>2 DEF Read
    <3>2. rows'[j] = rows[j]
      BY <1>3, <1>6, <3>1
    <3>3. rows[j] # None => rows[j] \in Row
      BY DEF TypeOK
    <3>. QED
      BY <2>2, <3>2, <3>3 DEF Row, Active
  <2>. QED
    BY <2>1, <2>2
<1>7. rows'[k] = new
  BY <1>3, <1>4
<1>8. new \in Row
  BY <1>4 DEF Row
<1>9. rows' \in [Versioned -> Row \cup {None}]
  BY <1>3, <1>6, <1>7, <1>8, <1>4
<1>. QED
  BY <1>2, <1>4, <1>6, <1>7, <1>9 DEF Committed

\* A rollback changes what is active in a free pack, and nothing else.
RolledBack(t, k) ==
    /\ SameFiles
    /\ lock[k[1]] = Free /\ op[t] = None /\ rows[k] # None
    /\ \A j \in Versioned : j[1] # k[1] => rows'[j] = rows[j]
    /\ rows' \in [Versioned -> Row \cup {None}]
    /\ UNCHANGED <<dirs, lock>>
    /\ requests' \in 0..MaxRequests /\ requests' >= requests

\* A rollback leaves the version it is for the only active one.
LEMMA RollbackEffect ==
    ASSUME TypeOK, NEW t \in Tabs, NEW k \in Versioned, Rollback(t, k)
    PROVE  /\ RolledBack(t, k)
           /\ \A j \in Versioned : j[1] = k[1] /\ rows[j] # None /\ j # k => rows'[j].active = FALSE
<1> DEFINE actives == {j \in Versioned : j[1] = k[1] /\ Active(j)}
<1>1. /\ rows' = [j \in Versioned |->
                    IF j = k THEN [rows[k] EXCEPT !.active = TRUE]
                    ELSE IF j \in actives THEN [rows[j] EXCEPT !.active = FALSE] ELSE rows[j]]
      /\ lock[k[1]] = Free /\ op[t] = None /\ rows[k] # None
      /\ UNCHANGED <<dirs, lock>>
  BY DEF Rollback, LockFree
<1>2. \A j \in Versioned : rows[j] # None =>
          /\ rows[j] \in Row
          /\ [rows[j] EXCEPT !.active = TRUE] \in Row
          /\ [rows[j] EXCEPT !.active = FALSE] \in Row
  BY DEF TypeOK, Row
<1>3. \A j \in Versioned : rows[j] # None =>
          /\ [rows[j] EXCEPT !.active = TRUE].dir = rows[j].dir
          /\ [rows[j] EXCEPT !.active = TRUE].active = TRUE
          /\ [rows[j] EXCEPT !.active = FALSE].dir = rows[j].dir
          /\ [rows[j] EXCEPT !.active = FALSE].active = FALSE
  BY <1>2 DEF Row
<1>4. \A j \in actives : rows[j] # None
  BY DEF Active
<1>5. \A j \in Versioned :
          /\ rows[j] \in Row \cup {None}
          /\ (j \notin actives /\ j[1] = k[1] /\ rows[j] # None => rows[j].active = FALSE)
  BY DEF TypeOK, Active, Row
<1>6. requests' \in 0..MaxRequests /\ requests' >= requests
  BY BoundsAssumption DEF Rollback, Requested, TypeOK
<1>7. rows' \in [Versioned -> Row \cup {None}]
  BY <1>1, <1>2, <1>4, <1>5
<1>8. SameFiles
  BY <1>1, <1>2, <1>3, <1>4, NoneAssumption DEF SameFiles
<1>9. \A j \in Versioned : j[1] # k[1] => rows'[j] = rows[j]
  BY <1>1
<1>10. \A j \in Versioned : j[1] = k[1] /\ rows[j] # None /\ j # k => rows'[j].active = FALSE
  BY <1>1, <1>3, <1>4, <1>5
<1>. QED
  BY <1>1, <1>6, <1>7, <1>8, <1>9, <1>10 DEF RolledBack


\* The operations of the other tabs stay as they are, and so do the other locks.
Others(t) == \A u \in Tabs : u # t => op'[u] = op[u]

OtherLocks(p) == \A q \in Packs : q # p => lock'[q] = lock[q]

Begun(t, p, v) ==
    /\ requests + 1 \in Dirs /\ requests' = requests + 1 /\ rows' = rows
    /\ op[t] = None /\ Others(t)
    /\ op'[t].step = "writing" /\ op'[t].key = <<p, v>> /\ op'[t].key[1] = p
    /\ op'[t].dirs = {requests + 1} /\ op'[t].out = Outgoing(p, v)
    /\ lock[p] = Free /\ lock'[p] = t /\ OtherLocks(p)
    /\ dirs'[requests + 1] = [of |-> <<p, v>>, whole |-> FALSE]
    /\ \A d \in Dirs : d # requests + 1 => dirs'[d] = dirs[d]

\* An install begins in a directory of its own, with the lock of its pack.
LEMMA BeginEffect ==
    ASSUME TypeOK, NEW t \in Tabs, NEW p \in Packs, NEW v \in Versions, BeginInstall(t, p, v)
    PROVE  Begun(t, p, v)
  BY BoundsAssumption DEF BeginInstall, Requested, LockFree, Others, OtherLocks, TypeOK, Dirs, Begun

Wrote(t) ==
    /\ op[t] # None /\ op[t].step = "writing" /\ Others(t)
    /\ op'[t].step = "written" /\ op'[t].key = op[t].key /\ op'[t].dirs = op[t].dirs
    /\ op'[t].out = op[t].out
    /\ \A d \in Dirs :
          /\ d \in op[t].dirs /\ dirs[d] # None => dirs'[d] = [of |-> op[t].key, whole |-> TRUE]
          /\ d \in op[t].dirs /\ dirs[d] = None => dirs'[d] = [of |-> op[t].key, whole |-> FALSE]
          /\ d \notin op[t].dirs => dirs'[d] = dirs[d]
    /\ UNCHANGED <<rows, requests, lock>>

\* An install that wrote its files has a whole directory.
LEMMA WrittenEffect ==
    ASSUME TypeOK, NEW t \in Tabs, InstallWritten(t)
    PROVE  Wrote(t)
<1>1. op[t] \in Op
  BY DEF TypeOK, InstallWritten
<1>2. op'[t] = [op[t] EXCEPT !.step = "written"] /\ Others(t)
  BY DEF TypeOK, InstallWritten, Others
<1>3. ASSUME NEW d \in Dirs
      PROVE  /\ d \in op[t].dirs /\ dirs[d] # None => dirs'[d] = [of |-> op[t].key, whole |-> TRUE]
             /\ d \in op[t].dirs /\ dirs[d] = None => dirs'[d] = [of |-> op[t].key, whole |-> FALSE]
             /\ d \notin op[t].dirs => dirs'[d] = dirs[d]
  <2>1. dirs'[d] = IF d \in op[t].dirs THEN [of |-> op[t].key, whole |-> dirs[d] # None] ELSE dirs[d]
    BY DEF InstallWritten
  <2>2. (dirs[d] # None) = TRUE \/ (dirs[d] # None) = FALSE
    OBVIOUS
  <2>3. CASE dirs[d] # None
    <3>1. (dirs[d] # None) = TRUE
      BY <2>3, Zenon
    <3>. QED
      BY <2>1, <2>3, <3>1, Zenon
  <2>4. CASE dirs[d] = None
    <3>1. (dirs[d] # None) = FALSE
      BY <2>4, Zenon
    <3>. QED
      BY <2>1, <2>4, <3>1, Zenon
  <2>. QED
    BY <2>3, <2>4
<1>4. op[t] # None /\ op[t].step = "writing" /\ UNCHANGED <<rows, requests, lock>>
  BY DEF InstallWritten
<1>5. /\ op'[t].step = "written" /\ op'[t].key = op[t].key /\ op'[t].dirs = op[t].dirs
      /\ op'[t].out = op[t].out
  BY <1>1, <1>2 DEF Op
<1>. QED
  BY <1>2, <1>3, <1>4, <1>5 DEF Wrote

\* Whoever gives up directories gives the lock back.
LEMMA RemovalOps ==
    ASSUME TypeOK, NEW t \in Tabs, InstallFails(t) \/ InstallCleans(t) \/ RemoveCleans(t)
    PROVE  /\ Others(t) /\ ~At(t, Holding)'
           /\ op'[t] # None => op'[t].dirs = op[t].dirs
           /\ lock'[op[t].key[1]] = Free /\ OtherLocks(op[t].key[1])
<1>1. op[t] \in Op /\ op[t].key[1] \in Packs
  BY RemovalEffect, Shapes DEF At
<1>2. CASE op' = [op EXCEPT ![t] = None]
  <2>1. op'[t] = None /\ Others(t)
    BY <1>2 DEF Others, TypeOK
  <2>. QED
    BY <1>1, <2>1, RemovalEffect DEF OtherLocks, At, TypeOK
<1>3. CASE op' = [op EXCEPT ![t].step = "hooking"]
  <2>1. op'[t] = [op[t] EXCEPT !.step = "hooking"] /\ Others(t)
    BY <1>3 DEF TypeOK, Others
  <2>. QED
    BY <1>1, <2>1, RemovalEffect DEF OtherLocks, At, Holding, Op, TypeOK
<1>. QED
  BY <1>2, <1>3, RemovalEffect

CommitSteps(t) ==
    /\ op[t] # None /\ op[t].step = "written" /\ Others(t)
    /\ op'[t].step = "cleaning" /\ op'[t].key = op[t].key
    /\ op'[t].dirs = {rows[j].dir : j \in Installed \cap {op[t].key}}
    /\ UNCHANGED <<dirs, requests, lock>>

\* An install that commits has the directory it replaced to remove.
LEMMA CommitOps ==
    ASSUME TypeOK, NEW t \in Tabs, InstallCommits(t)
    PROVE  CommitSteps(t)
<1>1. op[t] \in Op
  BY DEF TypeOK, InstallCommits
<1>2. op'[t] = [op[t] EXCEPT !.step = "cleaning",
                             !.dirs = {rows[j].dir : j \in Installed \cap {op[t].key}}]
      /\ Others(t)
  BY DEF TypeOK, InstallCommits, Others
<1>. QED
  BY <1>1, <1>2 DEF InstallCommits, Op, CommitSteps

\* A rollback is a new operation on a version that is there.
LEMMA RollbackOps ==
    ASSUME TypeOK, NEW t \in Tabs, NEW k \in Versioned, Rollback(t, k)
    PROVE  /\ op[t] = None /\ Others(t)
           /\ op'[t].step = "unindexing" /\ op'[t].dirs = {rows[k].dir} /\ rows[k] # None
  BY DEF TypeOK, Rollback, Others

\* The steps of operations that change no row, file or lock.
LEMMA LateEffect ==
    ASSUME TypeOK, NEW t \in Tabs,
           \/ InstallHooks(t) \/ RollbackUnindexes(t) \/ RollbackMarks(t)
           \/ RollbackIndexes(t) \/ PassMarks(t) \/ HealthMarks(t)
    PROVE  /\ Others(t) /\ At(t, Holding)' = At(t, Holding) /\ At(t, Writing)' = At(t, Writing)
           /\ At(t, Holding) => op'[t] = op[t]
           /\ op'[t] # None => op[t] # None /\ op'[t].dirs = op[t].dirs
<1>1. CASE op' = op
  BY <1>1 DEF Others, At
<1>2. CASE op[t] # None /\ op[t].step \notin Holding /\ op' = [op EXCEPT ![t] = None]
  BY <1>2 DEF Others, At, TypeOK, Holding, Writing
<1>3. CASE op[t] # None /\ op[t].step \notin Holding
           /\ \E s \in {"marking", "indexing"} : op' = [op EXCEPT ![t].step = s]
  <2>1. PICK s \in {"marking", "indexing"} : op' = [op EXCEPT ![t].step = s]
    BY <1>3
  <2>2. op[t] \in Op /\ op'[t] = [op[t] EXCEPT !.step = s] /\ Others(t)
    BY <1>3, <2>1 DEF TypeOK, Others
  <2>. QED
    BY <1>3, <2>2 DEF At, Holding, Writing, Op
<1>. QED
  BY <1>1, <1>2, <1>3 DEF InstallHooks, RollbackUnindexes, RollbackMarks, RollbackIndexes,
     PassMarks, HealthMarks, Holding

\* A removal takes versions of one pack out of the registry, under its lock.
LEMMA RemoveEffect ==
    ASSUME TypeOK, NEW t \in Tabs, NEW k \in Versioned, NEW ks \in Removals(k), Remove(t, k, ks)
    PROVE  /\ op[t] = None /\ Others(t)
           /\ op'[t].step = "removing" /\ op'[t].key = k
           /\ op'[t].dirs = {rows[j].dir : j \in ks}
           /\ \A j \in ks : j \in Installed /\ j[1] = k[1]
           /\ \A j \in Versioned : rows'[j] = IF j \in ks THEN None ELSE rows[j]
           /\ lock[k[1]] = Free /\ lock'[k[1]] = t /\ OtherLocks(k[1])
           /\ UNCHANGED dirs /\ requests' = requests + 1
  BY DEF TypeOK, Remove, Removals, Requested, LockFree, Others, OtherLocks, Installed, Versioned

\* A tab that dies gives up its operation and its locks.
LEMMA CrashEffect ==
    ASSUME TypeOK, NEW t \in Tabs, Crash(t)
    PROVE  /\ Others(t) /\ op'[t] = None
           /\ \A p \in Packs : lock[p] # t => lock'[p] = lock[p]
           /\ UNCHANGED <<rows, dirs, requests>>
  BY DEF TypeOK, Crash, Others, stored

\* The sweep gives up directories of a free pack that no row names.
LEMMA SweepEffect ==
    ASSUME TypeOK, NEW t \in Tabs, NEW p \in Packs, SweepPack(t, p)
    PROVE  /\ lock[p] = Free /\ UNCHANGED <<rows, requests, lock, op>>
           /\ \A d \in Dirs : dirs'[d] = dirs[d]
                 \/ (/\ dirs'[d] = None /\ (dirs[d] # None => dirs[d].of[1] = p)
                     /\ \A k \in Installed : rows[k].dir # d)
  BY DEF TypeOK, SweepPack, Referenced, LockFree

\* The late steps and the files.
LEMMA LateFiles ==
    ASSUME TypeOK, Underway, NEW t \in Tabs,
           \/ InstallHooks(t) \/ RollbackUnindexes(t) \/ RollbackMarks(t)
           \/ RollbackIndexes(t) \/ PassMarks(t) \/ HealthMarks(t)
    PROVE  /\ SameFiles /\ UNCHANGED <<dirs, requests, lock>>
           /\ \A j \in Versioned : rows[j] # None => rows'[j].active = rows[j].active
           /\ \A j \in Versioned : lock[j[1]] # Free => rows'[j] = rows[j]
           /\ rows' \in [Versioned -> Row \cup {None}]
<1>1. CASE InstallHooks(t) \/ RollbackUnindexes(t) \/ RollbackIndexes(t)
  BY <1>1, Shapes DEF InstallHooks, RollbackUnindexes, RollbackIndexes, SameFiles, stored
<1>2. CASE RollbackMarks(t) \/ PassMarks(t) \/ HealthMarks(t)
  <2>1. PICK k \in Versioned, b \in BOOLEAN : Marked(k, b) /\ UNCHANGED <<dirs, requests, lock>>
    BY <1>2, MarksEffect
  <2>2. \A j \in Versioned : lock[j[1]] # Free => j[1] # k[1]
    BY <2>1, MarkEffect
  <2>. QED
    BY <2>1, <2>2, MarkEffect
<1>. QED
  BY <1>1, <1>2

\* No two versions have the same directory.
LEMMA OwnDirs ==
    ASSUME RowsHaveFiles, NEW i \in Installed, NEW j \in Installed, rows[i].dir = rows[j].dir
    PROVE  i = j
<1>1. /\ dirs[rows[i].dir] = [of |-> i, whole |-> TRUE]
      /\ dirs[rows[j].dir] = [of |-> j, whole |-> TRUE]
  BY DEF RowsHaveFiles
<1>. QED
  BY <1>1

\* What is active in a pack whose rows stay is what was.
LEMMA SamePack ==
    ASSUME NEW p \in Packs, \A j \in Versioned : j[1] = p => rows'[j] = rows[j]
    PROVE  ActiveOf(p)' = ActiveOf(p)
  BY DEF ActiveOf, Read, Active

-----------------------------------------------------------------------------
(* Every step keeps the parts of the invariant.                            *)

\* Every step keeps the locks with their holders.
LEMMA StepLocked ==
    ASSUME IInv, [Next]_vars
    PROVE  Locked'
<1>. USE Shapes, NoneAssumption, NamesAssumption DEF IInv
<1>1. ASSUME NEW t \in Tabs, NEW p \in Packs, NEW v \in Versions, BeginInstall(t, p, v)
      PROVE  Locked'
  <2>11. Begun(t, p, v)
    BY <1>1, BeginEffect
  <2>. SUFFICES ASSUME NEW u \in Tabs, At(u, Holding)'
                PROVE  lock'[op'[u].key[1]] = u
    BY DEF Locked
  <2>1. CASE u = t
    BY <2>11, <2>1 DEF Begun, Locked, At, Holding
  <2>2. CASE u # t
    <3>1. At(u, Holding) /\ op'[u] = op[u]
      BY <2>11, <2>2 DEF Begun, At, Others
    <3>2. op[u].key[1] \in Packs /\ lock[op[u].key[1]] = u
      BY <3>1 DEF Locked, At
    <3>. QED
      BY <2>11, <2>2, <3>1, <3>2 DEF Begun, OtherLocks, At, Holding, Locked
  <2>. QED
    BY <2>1, <2>2
<1>2. ASSUME NEW t \in Tabs, InstallWritten(t)
      PROVE  Locked'
  <2>11. Wrote(t)
    BY <1>2, WrittenEffect
  <2>. SUFFICES ASSUME NEW u \in Tabs, At(u, Holding)'
                PROVE  lock'[op'[u].key[1]] = u
    BY DEF Locked
  <2>1. CASE u = t
    BY <2>11, <2>1 DEF Wrote, Locked, At, Holding
  <2>2. CASE u # t
    <3>1. At(u, Holding) /\ op'[u] = op[u]
      BY <2>11, <2>2 DEF Wrote, At, Others
    <3>2. op[u].key[1] \in Packs /\ lock[op[u].key[1]] = u
      BY <3>1 DEF Locked, At
    <3>. QED
      BY <2>11, <2>2, <3>1, <3>2 DEF Wrote, OtherLocks, At, Holding, Locked
  <2>. QED
    BY <2>1, <2>2
<1>3. ASSUME NEW t \in Tabs, InstallFails(t) \/ InstallCleans(t) \/ RemoveCleans(t)
      PROVE  Locked'
  BY <1>3, RemovalEffect, RemovalOps
     DEF Locked, At, Holding, Writing, Others, OtherLocks, SameFiles, Installed
<1>4. ASSUME NEW t \in Tabs, InstallCommits(t)
      PROVE  Locked'
  <2>11. CommitSteps(t)
    BY <1>4, CommitOps
  <2>12. PICK new \in Dirs : Committed(t, new)
    BY <1>4, CommitEffect
  <2>. SUFFICES ASSUME NEW u \in Tabs, At(u, Holding)'
                PROVE  lock'[op'[u].key[1]] = u
    BY DEF Locked
  <2>1. CASE u = t
    BY <2>11, <2>12, <2>1 DEF Committed, CommitSteps, Locked, At, Holding
  <2>2. CASE u # t
    <3>1. At(u, Holding) /\ op'[u] = op[u]
      BY <2>11, <2>12, <2>2 DEF Committed, CommitSteps, At, Others
    <3>2. op[u].key[1] \in Packs /\ lock[op[u].key[1]] = u
      BY <3>1 DEF Locked, At
    <3>. QED
      BY <2>11, <2>12, <2>2, <3>1, <3>2 DEF Committed, CommitSteps, OtherLocks, At, Holding, Locked
  <2>. QED
    BY <2>1, <2>2
<1>5. ASSUME NEW t \in Tabs,
           \/ InstallHooks(t) \/ RollbackUnindexes(t) \/ RollbackMarks(t)
           \/ RollbackIndexes(t) \/ PassMarks(t) \/ HealthMarks(t)
      PROVE  Locked'
  BY <1>5, LateEffect, LateFiles
     DEF Locked, At, Holding, Writing, Others, OtherLocks, SameFiles, Installed
<1>6. ASSUME NEW t \in Tabs, NEW k \in Versioned, Rollback(t, k)
      PROVE  Locked'
  <2>1. RolledBack(t, k)
    BY <1>6, RollbackEffect
  <2>. QED
    BY <1>6, <2>1, RollbackOps
       DEF RolledBack, Locked, At, Holding, Writing, Others, OtherLocks, SameFiles,
           Installed
<1>7. ASSUME NEW t \in Tabs, NEW k \in Versioned, NEW ks \in Removals(k), Remove(t, k, ks)
      PROVE  Locked'
  <2>. SUFFICES ASSUME NEW u \in Tabs, At(u, Holding)'
                PROVE  lock'[op'[u].key[1]] = u
    BY DEF Locked
  <2>1. CASE u = t
    BY <1>7, <2>1, RemoveEffect DEF Locked, At, Holding
  <2>2. CASE u # t
    <3>1. At(u, Holding) /\ op'[u] = op[u]
      BY <1>7, <2>2, RemoveEffect DEF At, Others
    <3>2. op[u].key[1] \in Packs /\ lock[op[u].key[1]] = u
      BY <3>1 DEF Locked, At
    <3>. QED
      BY <1>7, <2>2, <3>1, <3>2, RemoveEffect DEF OtherLocks, At, Holding, Locked
  <2>. QED
    BY <2>1, <2>2
<1>8. ASSUME NEW t \in Tabs, Crash(t)
      PROVE  Locked'
  BY <1>8, CrashEffect
     DEF Locked, At, Holding, Writing, Others, OtherLocks, SameFiles, Installed
<1>9. ASSUME NEW t \in Tabs, NEW p \in Packs, SweepPack(t, p)
      PROVE  Locked'
  BY <1>9, SweepEffect
     DEF Locked, At, Holding, Writing, Others, OtherLocks, SameFiles, Installed
<1>10. ASSUME Quiet
      PROVE  Locked'
  BY <1>10
     DEF Quiet, stored, Locked, At, Holding, Writing, Others, OtherLocks, SameFiles,
         Installed
<1>. QED
  BY <1>1, <1>2, <1>3, <1>4, <1>5, <1>6, <1>7, <1>8, <1>9, <1>10, QuietSteps
     DEF Next, Proceeds, Embeds, Heals

\* Every step leaves the directories to come alone.
LEMMA StepFresh ==
    ASSUME IInv, [Next]_vars
    PROVE  Fresh'
<1>. USE Shapes, NoneAssumption, NamesAssumption DEF IInv
<1>1. ASSUME NEW t \in Tabs, NEW p \in Packs, NEW v \in Versions, BeginInstall(t, p, v)
      PROVE  Fresh'
  <2>11. Begun(t, p, v)
    BY <1>1, BeginEffect
  <2>. SUFFICES ASSUME NEW d \in Dirs, d > requests'
                PROVE  /\ dirs'[d] = None
                       /\ \A k \in Installed' : rows'[k].dir # d
                       /\ \A u \in Tabs : op'[u] # None => d \notin op'[u].dirs
    BY DEF Fresh
  <2>1. d > requests /\ d # requests + 1
    BY <2>11, BoundsAssumption DEF Begun, Dirs
  <2>2. /\ dirs[d] = None
        /\ \A k \in Installed : rows[k].dir # d
        /\ \A u \in Tabs : op[u] # None => d \notin op[u].dirs
    BY <2>1 DEF Fresh
  <2>3. dirs'[d] = None
    BY <2>11, <2>2 DEF Begun
  <2>4. ASSUME NEW k \in Installed'
        PROVE  rows'[k].dir # d
    BY <2>11, <2>2, <2>4 DEF Begun, SameFiles, Installed
  <2>5. ASSUME NEW u \in Tabs, op'[u] # None
        PROVE  d \notin op'[u].dirs
    <3>1. CASE u = t
      BY <2>11, <2>2, <2>5, <3>1 DEF Begun, Installed
    <3>2. CASE u # t
      BY <2>11, <2>2, <2>5, <3>2 DEF Begun, Others
    <3>. QED
      BY <3>1, <3>2
  <2>. QED
    BY <2>3, <2>4, <2>5
<1>2. ASSUME NEW t \in Tabs, InstallWritten(t)
      PROVE  Fresh'
  <2>11. Wrote(t)
    BY <1>2, WrittenEffect
  <2>. SUFFICES ASSUME NEW d \in Dirs, d > requests'
                PROVE  /\ dirs'[d] = None
                       /\ \A k \in Installed' : rows'[k].dir # d
                       /\ \A u \in Tabs : op'[u] # None => d \notin op'[u].dirs
    BY DEF Fresh
  <2>1. d > requests
    BY <2>11, BoundsAssumption DEF Wrote, Dirs
  <2>2. /\ dirs[d] = None
        /\ \A k \in Installed : rows[k].dir # d
        /\ \A u \in Tabs : op[u] # None => d \notin op[u].dirs
    BY <2>1 DEF Fresh
  <2>3. dirs'[d] = None
    BY <2>11, <2>2 DEF Wrote
  <2>4. ASSUME NEW k \in Installed'
        PROVE  rows'[k].dir # d
    BY <2>11, <2>2, <2>4 DEF Wrote, SameFiles, Installed
  <2>5. ASSUME NEW u \in Tabs, op'[u] # None
        PROVE  d \notin op'[u].dirs
    <3>1. CASE u = t
      BY <2>11, <2>2, <2>5, <3>1 DEF Wrote, Installed
    <3>2. CASE u # t
      BY <2>11, <2>2, <2>5, <3>2 DEF Wrote, Others
    <3>. QED
      BY <3>1, <3>2
  <2>. QED
    BY <2>3, <2>4, <2>5
<1>3. ASSUME NEW t \in Tabs, InstallFails(t) \/ InstallCleans(t) \/ RemoveCleans(t)
      PROVE  Fresh'
  BY <1>3, RemovalEffect, RemovalOps
     DEF Fresh, At, Holding, Writing, Others, OtherLocks, SameFiles, Installed
<1>4. ASSUME NEW t \in Tabs, InstallCommits(t)
      PROVE  Fresh'
  <2>11. CommitSteps(t)
    BY <1>4, CommitOps
  <2>12. PICK new \in Dirs : Committed(t, new)
    BY <1>4, CommitEffect
  <2>. SUFFICES ASSUME NEW d \in Dirs, d > requests'
                PROVE  /\ dirs'[d] = None
                       /\ \A k \in Installed' : rows'[k].dir # d
                       /\ \A u \in Tabs : op'[u] # None => d \notin op'[u].dirs
    BY DEF Fresh
  <2>1. d > requests
    BY <2>11 DEF CommitSteps
  <2>2. /\ dirs[d] = None
        /\ \A k \in Installed : rows[k].dir # d
        /\ \A u \in Tabs : op[u] # None => d \notin op[u].dirs
    BY <2>1 DEF Fresh
  <2>3. dirs'[d] = None
    BY <2>11, <2>12, <2>2 DEF Committed, CommitSteps
  <2>4. ASSUME NEW k \in Installed'
        PROVE  rows'[k].dir # d
    BY <2>11, <2>12, <2>2, <2>4 DEF Committed, CommitSteps, SameFiles, Installed
  <2>5. ASSUME NEW u \in Tabs, op'[u] # None
        PROVE  d \notin op'[u].dirs
    <3>1. CASE u = t
      BY <2>11, <2>12, <2>2, <2>5, <3>1 DEF Committed, CommitSteps, Installed
    <3>2. CASE u # t
      BY <2>11, <2>12, <2>2, <2>5, <3>2 DEF Committed, CommitSteps, Others
    <3>. QED
      BY <3>1, <3>2
  <2>. QED
    BY <2>3, <2>4, <2>5
<1>5. ASSUME NEW t \in Tabs,
           \/ InstallHooks(t) \/ RollbackUnindexes(t) \/ RollbackMarks(t)
           \/ RollbackIndexes(t) \/ PassMarks(t) \/ HealthMarks(t)
      PROVE  Fresh'
  <2>. SUFFICES ASSUME NEW d \in Dirs, d > requests'
                PROVE  /\ dirs'[d] = None
                       /\ \A k \in Installed' : rows'[k].dir # d
                       /\ \A u \in Tabs : op'[u] # None => d \notin op'[u].dirs
    BY DEF Fresh
  <2>1. d > requests
    BY <1>5, LateEffect, LateFiles, BoundsAssumption DEF Dirs
  <2>2. /\ dirs[d] = None
        /\ \A k \in Installed : rows[k].dir # d
        /\ \A u \in Tabs : op[u] # None => d \notin op[u].dirs
    BY <2>1 DEF Fresh
  <2>3. dirs'[d] = None
    BY <1>5, <2>2, LateEffect, LateFiles
  <2>4. ASSUME NEW k \in Installed'
        PROVE  rows'[k].dir # d
    BY <1>5, <2>2, <2>4, LateEffect, LateFiles DEF SameFiles, Installed
  <2>5. ASSUME NEW u \in Tabs, op'[u] # None
        PROVE  d \notin op'[u].dirs
    <3>1. CASE u = t
      BY <1>5, <2>2, <2>5, <3>1, LateEffect, LateFiles DEF Installed
    <3>2. CASE u # t
      BY <1>5, <2>2, <2>5, <3>2, LateEffect, LateFiles DEF Others
    <3>. QED
      BY <3>1, <3>2
  <2>. QED
    BY <2>3, <2>4, <2>5
<1>6. ASSUME NEW t \in Tabs, NEW k \in Versioned, Rollback(t, k)
      PROVE  Fresh'
  <2>11. RolledBack(t, k)
    BY <1>6, RollbackEffect
  <2>. SUFFICES ASSUME NEW d \in Dirs, d > requests'
                PROVE  /\ dirs'[d] = None
                       /\ \A j \in Installed' : rows'[j].dir # d
                       /\ \A u \in Tabs : op'[u] # None => d \notin op'[u].dirs
    BY DEF Fresh
  <2>1. d > requests
    BY <2>11, RollbackOps, <1>6, BoundsAssumption DEF RolledBack, Dirs
  <2>2. /\ dirs[d] = None
        /\ \A j \in Installed : rows[j].dir # d
        /\ \A u \in Tabs : op[u] # None => d \notin op[u].dirs
    BY <2>1 DEF Fresh
  <2>3. dirs'[d] = None
    BY <2>11, RollbackOps, <1>6, <2>2 DEF RolledBack
  <2>4. ASSUME NEW j \in Installed'
        PROVE  rows'[j].dir # d
    BY <2>11, RollbackOps, <1>6, <2>2, <2>4 DEF RolledBack, SameFiles, Installed
  <2>5. ASSUME NEW u \in Tabs, op'[u] # None
        PROVE  d \notin op'[u].dirs
    <3>1. CASE u = t
      BY <2>11, RollbackOps, <1>6, <2>2, <2>5, <3>1 DEF RolledBack, Installed
    <3>2. CASE u # t
      BY <2>11, RollbackOps, <1>6, <2>2, <2>5, <3>2 DEF RolledBack, Others
    <3>. QED
      BY <3>1, <3>2
  <2>. QED
    BY <2>3, <2>4, <2>5
<1>7. ASSUME NEW t \in Tabs, NEW k \in Versioned, NEW ks \in Removals(k), Remove(t, k, ks)
      PROVE  Fresh'
  <2>. SUFFICES ASSUME NEW d \in Dirs, d > requests'
                PROVE  /\ dirs'[d] = None
                       /\ \A j \in Installed' : rows'[j].dir # d
                       /\ \A u \in Tabs : op'[u] # None => d \notin op'[u].dirs
    BY DEF Fresh
  <2>1. d > requests
    BY <1>7, RemoveEffect, BoundsAssumption DEF Dirs
  <2>2. /\ dirs[d] = None
        /\ \A j \in Installed : rows[j].dir # d
        /\ \A u \in Tabs : op[u] # None => d \notin op[u].dirs
    BY <2>1 DEF Fresh
  <2>3. dirs'[d] = None
    BY <1>7, <2>2, RemoveEffect
  <2>4. ASSUME NEW j \in Installed'
        PROVE  rows'[j].dir # d
    BY <1>7, <2>2, <2>4, RemoveEffect DEF SameFiles, Installed
  <2>5. ASSUME NEW u \in Tabs, op'[u] # None
        PROVE  d \notin op'[u].dirs
    <3>1. CASE u = t
      BY <1>7, <2>2, <2>5, <3>1, RemoveEffect DEF Installed
    <3>2. CASE u # t
      BY <1>7, <2>2, <2>5, <3>2, RemoveEffect DEF Others
    <3>. QED
      BY <3>1, <3>2
  <2>. QED
    BY <2>3, <2>4, <2>5
<1>8. ASSUME NEW t \in Tabs, Crash(t)
      PROVE  Fresh'
  <2>. SUFFICES ASSUME NEW d \in Dirs, d > requests'
                PROVE  /\ dirs'[d] = None
                       /\ \A k \in Installed' : rows'[k].dir # d
                       /\ \A u \in Tabs : op'[u] # None => d \notin op'[u].dirs
    BY DEF Fresh
  <2>1. d > requests
    BY <1>8, CrashEffect, BoundsAssumption DEF Dirs
  <2>2. /\ dirs[d] = None
        /\ \A k \in Installed : rows[k].dir # d
        /\ \A u \in Tabs : op[u] # None => d \notin op[u].dirs
    BY <2>1 DEF Fresh
  <2>3. dirs'[d] = None
    BY <1>8, <2>2, CrashEffect
  <2>4. ASSUME NEW k \in Installed'
        PROVE  rows'[k].dir # d
    BY <1>8, <2>2, <2>4, CrashEffect DEF SameFiles, Installed
  <2>5. ASSUME NEW u \in Tabs, op'[u] # None
        PROVE  d \notin op'[u].dirs
    <3>1. CASE u = t
      BY <1>8, <2>2, <2>5, <3>1, CrashEffect DEF Installed
    <3>2. CASE u # t
      BY <1>8, <2>2, <2>5, <3>2, CrashEffect DEF Others
    <3>. QED
      BY <3>1, <3>2
  <2>. QED
    BY <2>3, <2>4, <2>5
<1>9. ASSUME NEW t \in Tabs, NEW p \in Packs, SweepPack(t, p)
      PROVE  Fresh'
  BY <1>9, SweepEffect
     DEF Fresh, At, Holding, Writing, Others, OtherLocks, SameFiles, Installed
<1>10. ASSUME Quiet
      PROVE  Fresh'
  BY <1>10
     DEF Quiet, stored, Fresh, At, Holding, Writing, Others, OtherLocks, SameFiles,
         Installed
<1>. QED
  BY <1>1, <1>2, <1>3, <1>4, <1>5, <1>6, <1>7, <1>8, <1>9, <1>10, QuietSteps
     DEF Next, Proceeds, Embeds, Heals

\* Every step keeps the directories of operations theirs.
LEMMA StepOwned ==
    ASSUME IInv, [Next]_vars
    PROVE  Owned'
<1>. USE Shapes, NoneAssumption, NamesAssumption DEF IInv
<1>1. ASSUME NEW t \in Tabs, NEW p \in Packs, NEW v \in Versions, BeginInstall(t, p, v)
      PROVE  Owned'
  <2>11. Begun(t, p, v)
    BY <1>1, BeginEffect
  <2>. SUFFICES ASSUME NEW u \in Tabs, At(u, Holding)', NEW d \in op'[u].dirs
                PROVE  /\ dirs'[d] # None => dirs'[d].of[1] = op'[u].key[1]
                       /\ \A j \in Installed' : rows'[j].dir # d
    BY DEF Owned
  <2>1. CASE u = t
    BY <2>11, <2>1 DEF Begun, Fresh, Installed, Dirs
  <2>2. CASE u # t
    <3>1. At(u, Holding) /\ op'[u] = op[u] /\ op[u].key[1] \in Packs /\ d \in Dirs
      BY <2>11, <2>2 DEF Begun, At, Others
    <3>2. /\ dirs[d] # None => dirs[d].of[1] = op[u].key[1]
          /\ \A j \in Installed : rows[j].dir # d
          /\ lock[op[u].key[1]] = u
      BY <3>1 DEF Owned, Locked
    <3>3. d # requests + 1
      BY <2>11, <3>1 DEF Begun, Fresh, Dirs, At
    <3>. QED
      BY <2>11, <2>2, <3>1, <3>2, <3>3 DEF Begun, Installed
  <2>. QED
    BY <2>1, <2>2
<1>2. ASSUME NEW t \in Tabs, InstallWritten(t)
      PROVE  Owned'
  <2>11. Wrote(t)
    BY <1>2, WrittenEffect
  <2>. SUFFICES ASSUME NEW u \in Tabs, At(u, Holding)', NEW d \in op'[u].dirs
                PROVE  /\ dirs'[d] # None => dirs'[d].of[1] = op'[u].key[1]
                       /\ \A j \in Installed' : rows'[j].dir # d
    BY DEF Owned
  <2>1. CASE u = t
    <3>1. At(t, Holding) /\ d \in op[t].dirs /\ d \in Dirs
      BY <2>11, <2>1 DEF Wrote, At, Holding
    <3>2. \A j \in Installed : rows[j].dir # d
      BY <3>1 DEF Owned
    <3>3. dirs'[d].of = op[t].key
      BY <2>11, <3>1 DEF Wrote
    <3>. QED
      BY <2>11, <2>1, <3>2, <3>3 DEF Wrote, Installed
  <2>2. CASE u # t
    <3>1. At(u, Holding) /\ op'[u] = op[u] /\ op[u].key[1] \in Packs /\ d \in Dirs
      BY <2>11, <2>2 DEF Wrote, At, Others
    <3>2. /\ dirs[d] # None => dirs[d].of[1] = op[u].key[1]
          /\ \A j \in Installed : rows[j].dir # d
          /\ lock[op[u].key[1]] = u
      BY <3>1 DEF Owned, Locked
    <3>3. d \notin op[t].dirs
      <4> SUFFICES ASSUME d \in op[t].dirs PROVE FALSE
        OBVIOUS
      <4>1. At(t, Writing) /\ At(t, Holding) /\ op[t].step = "writing" /\ op[t].key \in Versioned
        BY <2>11 DEF Wrote, At, Writing, Holding
      <4>2. dirs[d] = [of |-> op[t].key, whole |-> FALSE]
        BY <4>1 DEF Kept
      <4>3. dirs[d] # None /\ dirs[d].of = op[t].key
        BY <4>1, <4>2, DirRecord
      <4>4. lock[op[t].key[1]] = t
        BY <4>1 DEF Locked
      <4>. QED
        BY <2>2, <3>2, <4>3, <4>4
    <3>. QED
      BY <2>11, <2>2, <3>1, <3>2, <3>3 DEF Wrote, Installed
  <2>. QED
    BY <2>1, <2>2
<1>3. ASSUME NEW t \in Tabs, InstallFails(t) \/ InstallCleans(t) \/ RemoveCleans(t)
      PROVE  Owned'
  BY <1>3, RemovalEffect, RemovalOps
     DEF Owned, At, Holding, Writing, Others, OtherLocks, SameFiles, Installed
<1>4. ASSUME NEW t \in Tabs, InstallCommits(t)
      PROVE  Owned'
  <2>11. CommitSteps(t)
    BY <1>4, CommitOps
  <2>12. PICK new \in Dirs : Committed(t, new)
    BY <1>4, CommitEffect
  <2>. SUFFICES ASSUME NEW u \in Tabs, At(u, Holding)', NEW d \in op'[u].dirs
                PROVE  /\ dirs'[d] # None => dirs'[d].of[1] = op'[u].key[1]
                       /\ \A j \in Installed' : rows'[j].dir # d
    BY DEF Owned
  <2>1. CASE u = t
    <3>1. d \in Dirs /\ op[t].key \in Installed /\ d = rows[op[t].key].dir
      BY <2>11, <2>12, <2>1 DEF Committed, CommitSteps
    <3>2. dirs[d] = [of |-> op[t].key, whole |-> TRUE]
      BY <3>1 DEF RowsHaveFiles
    <3>3. op[t].dirs = {new} /\ rows'[op[t].key].dir = new
      BY <2>11, <2>12 DEF Committed, CommitSteps
    <3>6. At(t, Holding)
      BY <2>11 DEF CommitSteps, At, Holding
    <3>4. new # d
      BY <3>1, <3>3, <3>6 DEF Owned
    <3>5. \A j \in Installed : j # op[t].key => rows[j].dir # d
      BY <3>1, OwnDirs
    <3>7. dirs' = dirs /\ op'[u].key = op[t].key
      BY <2>11, <2>1 DEF CommitSteps
    <3>8. \A j \in Installed' : rows'[j].dir # d
      BY <2>12, <3>3, <3>4, <3>5 DEF Committed, Installed
    <3>. QED
      BY <3>2, <3>7, <3>8
  <2>2. CASE u # t
    <3>1. At(u, Holding) /\ op'[u] = op[u] /\ op[u].key[1] \in Packs /\ d \in Dirs
      BY <2>11, <2>12, <2>2 DEF Committed, CommitSteps, At, Others
    <3>2. /\ dirs[d] # None => dirs[d].of[1] = op[u].key[1]
          /\ \A j \in Installed : rows[j].dir # d
          /\ lock[op[u].key[1]] = u
      BY <3>1 DEF Owned, Locked
    <3>3. /\ op[t].dirs = {new} /\ rows'[op[t].key].dir = new
          /\ dirs[new] = [of |-> op[t].key, whole |-> TRUE]
      BY <2>11, <2>12 DEF Committed, CommitSteps
    <3>4. At(t, Holding) /\ op[t].key \in Versioned
      BY <2>11 DEF CommitSteps, At, Holding
    <3>7. lock[op[t].key[1]] = t
      BY <3>4 DEF Locked
    <3>5. dirs[new] # None
      BY <3>3, <3>4, DirRecord
    <3>8. dirs[new].of[1] = op[t].key[1]
      BY <3>3
    <3>6. new # d
      BY <3>8, <2>2, <3>2, <3>3, <3>7, <3>5
    <3>. QED
      BY <2>11, <2>12, <2>2, <3>1, <3>2, <3>3, <3>6 DEF Committed, CommitSteps, Installed
  <2>. QED
    BY <2>1, <2>2
<1>5. ASSUME NEW t \in Tabs,
           \/ InstallHooks(t) \/ RollbackUnindexes(t) \/ RollbackMarks(t)
           \/ RollbackIndexes(t) \/ PassMarks(t) \/ HealthMarks(t)
      PROVE  Owned'
  BY <1>5, LateEffect, LateFiles
     DEF Owned, At, Holding, Writing, Others, OtherLocks, SameFiles, Installed
<1>6. ASSUME NEW t \in Tabs, NEW k \in Versioned, Rollback(t, k)
      PROVE  Owned'
  <2>1. RolledBack(t, k)
    BY <1>6, RollbackEffect
  <2>. QED
    BY <1>6, <2>1, RollbackOps
       DEF RolledBack, Owned, At, Holding, Writing, Others, OtherLocks, SameFiles,
           Installed
<1>7. ASSUME NEW t \in Tabs, NEW k \in Versioned, NEW ks \in Removals(k), Remove(t, k, ks)
      PROVE  Owned'
  <2>. SUFFICES ASSUME NEW u \in Tabs, At(u, Holding)', NEW d \in op'[u].dirs
                PROVE  /\ dirs'[d] # None => dirs'[d].of[1] = op'[u].key[1]
                       /\ \A j \in Installed' : rows'[j].dir # d
    BY DEF Owned
  <2>1. CASE u = t
    <3>1. PICK j \in ks : d = rows[j].dir
      BY <1>7, <2>1, RemoveEffect
    <3>4. j \in Installed /\ j[1] = k[1]
      BY <1>7, <3>1, RemoveEffect
    <3>2. dirs[d] = [of |-> j, whole |-> TRUE]
      BY <3>1, <3>4 DEF RowsHaveFiles
    <3>3. \A i \in Installed : i # j => rows[i].dir # d
      BY <3>1, <3>4, OwnDirs
    <3>5. dirs' = dirs /\ op'[u].key = k
      BY <1>7, <2>1, RemoveEffect
    <3>6. \A i \in Installed' : i \in Installed /\ i # j /\ rows'[i] = rows[i]
      BY <1>7, <3>1, RemoveEffect DEF Installed
    <3>. QED
      BY <3>2, <3>3, <3>4, <3>5, <3>6
  <2>2. CASE u # t
    <3>1. At(u, Holding) /\ op'[u] = op[u] /\ op[u].key[1] \in Packs /\ d \in Dirs
      BY <1>7, <2>2, RemoveEffect DEF At, Others
    <3>2. /\ dirs[d] # None => dirs[d].of[1] = op[u].key[1]
          /\ \A j \in Installed : rows[j].dir # d
          /\ lock[op[u].key[1]] = u
      BY <3>1 DEF Owned, Locked
    <3>. QED
      BY <1>7, <2>2, <3>1, <3>2, RemoveEffect DEF Installed, SameFiles
  <2>. QED
    BY <2>1, <2>2
<1>8. ASSUME NEW t \in Tabs, Crash(t)
      PROVE  Owned'
  BY <1>8, CrashEffect
     DEF Owned, At, Holding, Writing, Others, OtherLocks, SameFiles, Installed
<1>9. ASSUME NEW t \in Tabs, NEW p \in Packs, SweepPack(t, p)
      PROVE  Owned'
  BY <1>9, SweepEffect
     DEF Owned, At, Holding, Writing, Others, OtherLocks, SameFiles, Installed
<1>10. ASSUME Quiet
      PROVE  Owned'
  BY <1>10
     DEF Quiet, stored, Owned, At, Holding, Writing, Others, OtherLocks, SameFiles,
         Installed
<1>. QED
  BY <1>1, <1>2, <1>3, <1>4, <1>5, <1>6, <1>7, <1>8, <1>9, <1>10, QuietSteps
     DEF Next, Proceeds, Embeds, Heals

\* Every step keeps what is being installed.
LEMMA StepKept ==
    ASSUME IInv, [Next]_vars
    PROVE  Kept'
<1>. USE Shapes, NoneAssumption, NamesAssumption DEF IInv
<1>1. ASSUME NEW t \in Tabs, NEW p \in Packs, NEW v \in Versions, BeginInstall(t, p, v)
      PROVE  Kept'
  <2>11. Begun(t, p, v)
    BY <1>1, BeginEffect
  <2>. SUFFICES ASSUME NEW u \in Tabs, At(u, Writing)'
                PROVE  \E d \in Dirs :
                         /\ op'[u].dirs = {d}
                         /\ op'[u].step = "writing" => dirs'[d] = [of |-> op'[u].key, whole |-> FALSE]
                         /\ op'[u].step = "written" => dirs'[d] = [of |-> op'[u].key, whole |-> TRUE]
    BY DEF Kept
  <2>1. CASE u = t
    BY <2>11, <2>1 DEF Begun, Kept, At, Writing, Dir
  <2>2. CASE u # t
    <3>1. At(u, Writing) /\ At(u, Holding) /\ op'[u] = op[u] /\ op[u].key[1] \in Packs
      BY <2>11, <2>2 DEF Begun, At, Others, Writing, Holding
    <3>2. PICK d \in Dirs :
            /\ op[u].dirs = {d}
            /\ op[u].step = "writing" => dirs[d] = [of |-> op[u].key, whole |-> FALSE]
            /\ op[u].step = "written" => dirs[d] = [of |-> op[u].key, whole |-> TRUE]
      BY <3>1 DEF Kept
    <3>5. op[u].key \in Versioned /\ lock[op[u].key[1]] = u
      BY <3>1 DEF Locked, At
    <3>6. \E b \in BOOLEAN : dirs[d] = [of |-> op[u].key, whole |-> b]
      BY <3>1, <3>2 DEF At, Writing
    <3>3. dirs[d] # None /\ dirs[d].of[1] = op[u].key[1] /\ lock[op[u].key[1]] = u
      BY <3>5, <3>6 DEF Dir
    <3>4. dirs'[d] = dirs[d]
      BY <2>11, <2>2, <3>1, <3>2, <3>3 DEF Begun, Fresh, Owned, Locked, At, Holding, Dirs
    <3>. QED
      BY <3>1, <3>2, <3>4
  <2>. QED
    BY <2>1, <2>2
<1>2. ASSUME NEW t \in Tabs, InstallWritten(t)
      PROVE  Kept'
  <2>11. Wrote(t)
    BY <1>2, WrittenEffect
  <2>. SUFFICES ASSUME NEW u \in Tabs, At(u, Writing)'
                PROVE  \E d \in Dirs :
                         /\ op'[u].dirs = {d}
                         /\ op'[u].step = "writing" => dirs'[d] = [of |-> op'[u].key, whole |-> FALSE]
                         /\ op'[u].step = "written" => dirs'[d] = [of |-> op'[u].key, whole |-> TRUE]
    BY DEF Kept
  <2>1. CASE u = t
    <3>1. At(t, Writing) /\ op[t].step = "writing" /\ op[t].key \in Versioned
      BY <2>11 DEF Wrote, At, Writing
    <3>2. PICK d \in Dirs : op[t].dirs = {d} /\ dirs[d] = [of |-> op[t].key, whole |-> FALSE]
      BY <3>1 DEF Kept
    <3>3. dirs[d] # None
      BY <3>1, <3>2, DirRecord
    <3>4. dirs'[d] = [of |-> op[t].key, whole |-> TRUE]
      BY <2>11, <3>2, <3>3 DEF Wrote
    <3>. QED
      BY <2>11, <2>1, <3>2, <3>4 DEF Wrote
  <2>2. CASE u # t
    <3>1. At(u, Writing) /\ At(u, Holding) /\ op'[u] = op[u] /\ op[u].key[1] \in Packs
      BY <2>11, <2>2 DEF Wrote, At, Others, Writing, Holding
    <3>2. PICK d \in Dirs :
            /\ op[u].dirs = {d}
            /\ op[u].step = "writing" => dirs[d] = [of |-> op[u].key, whole |-> FALSE]
            /\ op[u].step = "written" => dirs[d] = [of |-> op[u].key, whole |-> TRUE]
      BY <3>1 DEF Kept
    <3>5. op[u].key \in Versioned /\ lock[op[u].key[1]] = u
      BY <3>1 DEF Locked, At
    <3>6. \E b \in BOOLEAN : dirs[d] = [of |-> op[u].key, whole |-> b]
      BY <3>1, <3>2 DEF At, Writing
    <3>3. dirs[d] # None /\ dirs[d].of[1] = op[u].key[1] /\ lock[op[u].key[1]] = u
      BY <3>5, <3>6 DEF Dir
    <3>4. dirs'[d] = dirs[d]
      BY <2>11, <2>2, <3>1, <3>2, <3>3 DEF Wrote, Fresh, Owned, Locked, At, Holding, Dirs
    <3>. QED
      BY <3>1, <3>2, <3>4
  <2>. QED
    BY <2>1, <2>2
<1>3. ASSUME NEW t \in Tabs, InstallFails(t) \/ InstallCleans(t) \/ RemoveCleans(t)
      PROVE  Kept'
  BY <1>3, RemovalEffect, RemovalOps
     DEF Kept, Owned, Fresh, Locked, At, Holding, Writing, Others, OtherLocks,
         SameFiles, Installed
<1>4. ASSUME NEW t \in Tabs, InstallCommits(t)
      PROVE  Kept'
  <2>11. CommitSteps(t)
    BY <1>4, CommitOps
  <2>12. PICK new \in Dirs : Committed(t, new)
    BY <1>4, CommitEffect
  <2>. SUFFICES ASSUME NEW u \in Tabs, At(u, Writing)'
                PROVE  \E d \in Dirs :
                         /\ op'[u].dirs = {d}
                         /\ op'[u].step = "writing" => dirs'[d] = [of |-> op'[u].key, whole |-> FALSE]
                         /\ op'[u].step = "written" => dirs'[d] = [of |-> op'[u].key, whole |-> TRUE]
    BY DEF Kept
  <2>1. CASE u = t
    BY <2>11, <2>12, <2>1 DEF Committed, CommitSteps, Kept, At, Writing, Dir
  <2>2. CASE u # t
    <3>1. At(u, Writing) /\ At(u, Holding) /\ op'[u] = op[u] /\ op[u].key[1] \in Packs
      BY <2>11, <2>12, <2>2 DEF Committed, CommitSteps, At, Others, Writing, Holding
    <3>2. PICK d \in Dirs :
            /\ op[u].dirs = {d}
            /\ op[u].step = "writing" => dirs[d] = [of |-> op[u].key, whole |-> FALSE]
            /\ op[u].step = "written" => dirs[d] = [of |-> op[u].key, whole |-> TRUE]
      BY <3>1 DEF Kept
    <3>5. op[u].key \in Versioned /\ lock[op[u].key[1]] = u
      BY <3>1 DEF Locked, At
    <3>6. \E b \in BOOLEAN : dirs[d] = [of |-> op[u].key, whole |-> b]
      BY <3>1, <3>2 DEF At, Writing
    <3>3. dirs[d] # None /\ dirs[d].of[1] = op[u].key[1] /\ lock[op[u].key[1]] = u
      BY <3>5, <3>6 DEF Dir
    <3>4. dirs'[d] = dirs[d]
      BY <2>11, <2>12, <2>2, <3>1, <3>2, <3>3
         DEF Committed, CommitSteps, Fresh, Owned, Locked, At, Holding, Dirs
    <3>. QED
      BY <3>1, <3>2, <3>4
  <2>. QED
    BY <2>1, <2>2
<1>5. ASSUME NEW t \in Tabs,
           \/ InstallHooks(t) \/ RollbackUnindexes(t) \/ RollbackMarks(t)
           \/ RollbackIndexes(t) \/ PassMarks(t) \/ HealthMarks(t)
      PROVE  Kept'
  BY <1>5, LateEffect, LateFiles
     DEF Kept, Owned, Fresh, Locked, At, Holding, Writing, Others, OtherLocks,
         SameFiles, Installed
<1>6. ASSUME NEW t \in Tabs, NEW k \in Versioned, Rollback(t, k)
      PROVE  Kept'
  <2>1. RolledBack(t, k)
    BY <1>6, RollbackEffect
  <2>. QED
    BY <1>6, <2>1, RollbackOps
       DEF RolledBack, Kept, Owned, Fresh, Locked, At, Holding, Writing, Others,
           OtherLocks, SameFiles, Installed
<1>7. ASSUME NEW t \in Tabs, NEW k \in Versioned, NEW ks \in Removals(k), Remove(t, k, ks)
      PROVE  Kept'
  <2>. SUFFICES ASSUME NEW u \in Tabs, At(u, Writing)'
                PROVE  \E d \in Dirs :
                         /\ op'[u].dirs = {d}
                         /\ op'[u].step = "writing" => dirs'[d] = [of |-> op'[u].key, whole |-> FALSE]
                         /\ op'[u].step = "written" => dirs'[d] = [of |-> op'[u].key, whole |-> TRUE]
    BY DEF Kept
  <2>1. CASE u = t
    BY <1>7, <2>1, RemoveEffect DEF Kept, At, Writing, Dir
  <2>2. CASE u # t
    <3>1. At(u, Writing) /\ At(u, Holding) /\ op'[u] = op[u] /\ op[u].key[1] \in Packs
      BY <1>7, <2>2, RemoveEffect DEF At, Others, Writing, Holding
    <3>2. PICK d \in Dirs :
            /\ op[u].dirs = {d}
            /\ op[u].step = "writing" => dirs[d] = [of |-> op[u].key, whole |-> FALSE]
            /\ op[u].step = "written" => dirs[d] = [of |-> op[u].key, whole |-> TRUE]
      BY <3>1 DEF Kept
    <3>5. op[u].key \in Versioned /\ lock[op[u].key[1]] = u
      BY <3>1 DEF Locked, At
    <3>6. \E b \in BOOLEAN : dirs[d] = [of |-> op[u].key, whole |-> b]
      BY <3>1, <3>2 DEF At, Writing
    <3>3. dirs[d] # None /\ dirs[d].of[1] = op[u].key[1] /\ lock[op[u].key[1]] = u
      BY <3>5, <3>6 DEF Dir
    <3>4. dirs'[d] = dirs[d]
      BY <1>7, <2>2, <3>1, <3>2, <3>3, RemoveEffect DEF Fresh, Owned, Locked, At, Holding, Dirs
    <3>. QED
      BY <3>1, <3>2, <3>4
  <2>. QED
    BY <2>1, <2>2
<1>8. ASSUME NEW t \in Tabs, Crash(t)
      PROVE  Kept'
  BY <1>8, CrashEffect
     DEF Kept, Owned, Fresh, Locked, At, Holding, Writing, Others, OtherLocks,
         SameFiles, Installed
<1>9. ASSUME NEW t \in Tabs, NEW p \in Packs, SweepPack(t, p)
      PROVE  Kept'
  BY <1>9, SweepEffect
     DEF Kept, Owned, Fresh, Locked, At, Holding, Writing, Others, OtherLocks,
         SameFiles, Installed
<1>10. ASSUME Quiet
      PROVE  Kept'
  BY <1>10
     DEF Quiet, stored, Kept, Owned, Fresh, Locked, At, Holding, Writing, Others,
         OtherLocks, SameFiles, Installed
<1>. QED
  BY <1>1, <1>2, <1>3, <1>4, <1>5, <1>6, <1>7, <1>8, <1>9, <1>10, QuietSteps
     DEF Next, Proceeds, Embeds, Heals

\* Every step keeps the files of the versions.
LEMMA StepRows ==
    ASSUME IInv, [Next]_vars
    PROVE  RowsHaveFiles'
<1>. USE Shapes, NoneAssumption, NamesAssumption DEF IInv
<1>1. ASSUME NEW t \in Tabs, NEW p \in Packs, NEW v \in Versions, BeginInstall(t, p, v)
      PROVE  RowsHaveFiles'
  <2>11. Begun(t, p, v)
    BY <1>1, BeginEffect
  <2>. SUFFICES ASSUME NEW i \in Installed'
                PROVE  dirs'[rows'[i].dir] = [of |-> i, whole |-> TRUE]
    BY DEF RowsHaveFiles
  <2>1. i \in Installed /\ rows'[i].dir = rows[i].dir
    BY <2>11 DEF Begun, Installed, SameFiles
  <2>2. rows[i].dir \in Dirs /\ dirs[rows[i].dir] = [of |-> i, whole |-> TRUE]
    BY <2>1 DEF RowsHaveFiles
  <2>3. dirs'[rows[i].dir] = dirs[rows[i].dir]
    BY <2>11, <2>1, <2>2 DEF Begun, Fresh, Owned, At, Holding, Dirs
  <2>. QED
    BY <2>1, <2>2, <2>3
<1>2. ASSUME NEW t \in Tabs, InstallWritten(t)
      PROVE  RowsHaveFiles'
  <2>11. Wrote(t)
    BY <1>2, WrittenEffect
  <2>. SUFFICES ASSUME NEW i \in Installed'
                PROVE  dirs'[rows'[i].dir] = [of |-> i, whole |-> TRUE]
    BY DEF RowsHaveFiles
  <2>1. i \in Installed /\ rows'[i].dir = rows[i].dir
    BY <2>11 DEF Wrote, Installed, SameFiles
  <2>2. rows[i].dir \in Dirs /\ dirs[rows[i].dir] = [of |-> i, whole |-> TRUE]
    BY <2>1 DEF RowsHaveFiles
  <2>3. dirs'[rows[i].dir] = dirs[rows[i].dir]
    BY <2>11, <2>1, <2>2 DEF Wrote, Fresh, Owned, At, Holding, Dirs
  <2>. QED
    BY <2>1, <2>2, <2>3
<1>3. ASSUME NEW t \in Tabs, InstallFails(t) \/ InstallCleans(t) \/ RemoveCleans(t)
      PROVE  RowsHaveFiles'
  <2>. SUFFICES ASSUME NEW i \in Installed'
                PROVE  dirs'[rows'[i].dir] = [of |-> i, whole |-> TRUE]
    BY DEF RowsHaveFiles
  <2>1. i \in Installed /\ rows'[i].dir = rows[i].dir
    BY <1>3, RemovalEffect, RemovalOps DEF Installed, SameFiles
  <2>2. rows[i].dir \in Dirs /\ dirs[rows[i].dir] = [of |-> i, whole |-> TRUE]
    BY <2>1 DEF RowsHaveFiles
  <2>3. dirs'[rows[i].dir] = dirs[rows[i].dir]
    BY <1>3, <2>1, <2>2, RemovalEffect, RemovalOps DEF Fresh, Owned, At, Holding, Dirs
  <2>. QED
    BY <2>1, <2>2, <2>3
<1>4. ASSUME NEW t \in Tabs, InstallCommits(t)
      PROVE  RowsHaveFiles'
  <2>11. CommitSteps(t)
    BY <1>4, CommitOps
  <2>12. PICK new \in Dirs : Committed(t, new)
    BY <1>4, CommitEffect
  <2>. SUFFICES ASSUME NEW i \in Installed'
                PROVE  dirs'[rows'[i].dir] = [of |-> i, whole |-> TRUE]
    BY DEF RowsHaveFiles
  <2>1. CASE i = op[t].key
    <3>1. rows'[i].dir = new
      BY <2>12, <2>1 DEF Committed
    <3>. QED
      BY <3>1, <2>11, <2>12, <2>1 DEF Committed, CommitSteps
  <2>2. CASE i # op[t].key
    BY <2>11, <2>12, <2>2 DEF Committed, CommitSteps, RowsHaveFiles, Installed
  <2>. QED
    BY <2>1, <2>2
<1>5. ASSUME NEW t \in Tabs,
           \/ InstallHooks(t) \/ RollbackUnindexes(t) \/ RollbackMarks(t)
           \/ RollbackIndexes(t) \/ PassMarks(t) \/ HealthMarks(t)
      PROVE  RowsHaveFiles'
  <2>. SUFFICES ASSUME NEW i \in Installed'
                PROVE  dirs'[rows'[i].dir] = [of |-> i, whole |-> TRUE]
    BY DEF RowsHaveFiles
  <2>1. i \in Installed /\ rows'[i].dir = rows[i].dir
    BY <1>5, LateEffect, LateFiles DEF Installed, SameFiles
  <2>2. rows[i].dir \in Dirs /\ dirs[rows[i].dir] = [of |-> i, whole |-> TRUE]
    BY <2>1 DEF RowsHaveFiles
  <2>3. dirs'[rows[i].dir] = dirs[rows[i].dir]
    BY <1>5, <2>1, <2>2, LateEffect, LateFiles DEF Fresh, Owned, At, Holding, Dirs
  <2>. QED
    BY <2>1, <2>2, <2>3
<1>6. ASSUME NEW t \in Tabs, NEW k \in Versioned, Rollback(t, k)
      PROVE  RowsHaveFiles'
  <2>11. RolledBack(t, k)
    BY <1>6, RollbackEffect
  <2>. SUFFICES ASSUME NEW i \in Installed'
                PROVE  dirs'[rows'[i].dir] = [of |-> i, whole |-> TRUE]
    BY DEF RowsHaveFiles
  <2>1. i \in Installed /\ rows'[i].dir = rows[i].dir
    BY <2>11, RollbackOps, <1>6 DEF RolledBack, Installed, SameFiles
  <2>2. rows[i].dir \in Dirs /\ dirs[rows[i].dir] = [of |-> i, whole |-> TRUE]
    BY <2>1 DEF RowsHaveFiles
  <2>3. dirs'[rows[i].dir] = dirs[rows[i].dir]
    BY <2>11, RollbackOps, <1>6, <2>1, <2>2 DEF RolledBack, Fresh, Owned, At, Holding, Dirs
  <2>. QED
    BY <2>1, <2>2, <2>3
<1>7. ASSUME NEW t \in Tabs, NEW k \in Versioned, NEW ks \in Removals(k), Remove(t, k, ks)
      PROVE  RowsHaveFiles'
  <2>. SUFFICES ASSUME NEW i \in Installed'
                PROVE  dirs'[rows'[i].dir] = [of |-> i, whole |-> TRUE]
    BY DEF RowsHaveFiles
  <2>1. i \in Installed /\ rows'[i].dir = rows[i].dir
    BY <1>7, RemoveEffect DEF Installed, SameFiles
  <2>2. rows[i].dir \in Dirs /\ dirs[rows[i].dir] = [of |-> i, whole |-> TRUE]
    BY <2>1 DEF RowsHaveFiles
  <2>3. dirs'[rows[i].dir] = dirs[rows[i].dir]
    BY <1>7, <2>1, <2>2, RemoveEffect DEF Fresh, Owned, At, Holding, Dirs
  <2>. QED
    BY <2>1, <2>2, <2>3
<1>8. ASSUME NEW t \in Tabs, Crash(t)
      PROVE  RowsHaveFiles'
  BY <1>8, CrashEffect
     DEF RowsHaveFiles, At, Holding, Writing, Others, OtherLocks, SameFiles,
         Installed
<1>9. ASSUME NEW t \in Tabs, NEW p \in Packs, SweepPack(t, p)
      PROVE  RowsHaveFiles'
  <2>. SUFFICES ASSUME NEW i \in Installed'
                PROVE  dirs'[rows'[i].dir] = [of |-> i, whole |-> TRUE]
    BY DEF RowsHaveFiles
  <2>1. i \in Installed /\ rows'[i].dir = rows[i].dir
    BY <1>9, SweepEffect DEF Installed, SameFiles
  <2>2. rows[i].dir \in Dirs /\ dirs[rows[i].dir] = [of |-> i, whole |-> TRUE]
    BY <2>1 DEF RowsHaveFiles
  <2>3. dirs'[rows[i].dir] = dirs[rows[i].dir]
    BY <1>9, <2>1, <2>2, SweepEffect DEF Fresh, Owned, At, Holding, Dirs
  <2>. QED
    BY <2>1, <2>2, <2>3
<1>10. ASSUME Quiet
      PROVE  RowsHaveFiles'
  BY <1>10
     DEF Quiet, stored, RowsHaveFiles, At, Holding, Writing, Others, OtherLocks,
         SameFiles, Installed
<1>. QED
  BY <1>1, <1>2, <1>3, <1>4, <1>5, <1>6, <1>7, <1>8, <1>9, <1>10, QuietSteps
     DEF Next, Proceeds, Embeds, Heals

\* Every step keeps what installs read true.
LEMMA StepCurrent ==
    ASSUME Independent, IInv, [Next]_vars
    PROVE  Current'
<1>. USE Shapes, NoneAssumption, NamesAssumption DEF IInv
<1>1. ASSUME NEW t \in Tabs, NEW p \in Packs, NEW v \in Versions, BeginInstall(t, p, v)
      PROVE  Current'
  <2>11. Begun(t, p, v)
    BY <1>1, BeginEffect
  <2>. SUFFICES ASSUME NEW u \in Tabs, NEW q \in Packs, At(u, Writing)', op'[u].key[1] = q
                PROVE  op'[u].out = ActiveOf(q)'
    BY DEF Current
  <2>0. rows' = rows
    BY <2>11 DEF Begun
  <2>1. CASE u = t
    <3>1. Supersedes[p][v] = {}
      BY <1>1 DEF Independent
    <3>2. op'[u].out = Outgoing(p, v) /\ q = p
      BY <2>11, <2>1 DEF Begun
    <3>3. op'[u].out = ActiveOf(q)
      BY <3>1, <3>2 DEF Outgoing, ActiveOf
    <3>. QED
      BY <2>0, <3>3, SamePack
  <2>2. CASE u # t
    <3>1. At(u, Writing) /\ op'[u] = op[u] /\ op[u].key[1] = q
      BY <2>11, <2>2 DEF Begun, At, Others
    <3>. QED
      BY <3>1, <2>0, SamePack DEF Current
  <2>. QED
    BY <2>1, <2>2
<1>2. ASSUME NEW t \in Tabs, InstallWritten(t)
      PROVE  Current'
  <2>11. Wrote(t)
    BY <1>2, WrittenEffect
  <2>. SUFFICES ASSUME NEW u \in Tabs, NEW q \in Packs, At(u, Writing)', op'[u].key[1] = q
                PROVE  op'[u].out = ActiveOf(q)'
    BY DEF Current
  <2>0. rows' = rows
    BY <2>11 DEF Wrote
  <2>1. CASE u = t
    <3>1. At(t, Writing) /\ op'[u].out = op[t].out /\ op'[u].key = op[t].key
      BY <2>11, <2>1 DEF Wrote, At, Writing
    <3>2. op[t].key[1] = q
      BY <2>1, <3>1
    <3>. QED
      BY <2>0, <3>1, <3>2, SamePack DEF Current
  <2>2. CASE u # t
    <3>1. At(u, Writing) /\ op'[u] = op[u] /\ op[u].key[1] = q
      BY <2>11, <2>2 DEF Wrote, At, Others
    <3>. QED
      BY <3>1, <2>0, SamePack DEF Current
  <2>. QED
    BY <2>1, <2>2
<1>3. ASSUME NEW t \in Tabs, InstallFails(t) \/ InstallCleans(t) \/ RemoveCleans(t)
      PROVE  Current'
  <2>. SUFFICES ASSUME NEW u \in Tabs, NEW q \in Packs, At(u, Writing)', op'[u].key[1] = q
                PROVE  op'[u].out = ActiveOf(q)'
    BY DEF Current
  <2>1. u # t
    BY <1>3, RemovalEffect, RemovalOps DEF At, Writing, Holding
  <2>2. At(u, Writing) /\ At(u, Holding) /\ op'[u] = op[u] /\ op[u].key[1] = q
    BY <1>3, <2>1, RemovalEffect, RemovalOps DEF At, Others, Writing, Holding
  <2>3. lock[q] = u
    BY <2>2 DEF Locked
  <2>4. \A j \in Versioned : j[1] = q => rows'[j] = rows[j]
    BY <1>3, <2>1, <2>2, <2>3, RemovalEffect, RemovalOps DEF Locked, At, Holding, Installed
  <2>. QED
    BY <2>2, <2>4, SamePack DEF Current
<1>4. ASSUME NEW t \in Tabs, InstallCommits(t)
      PROVE  Current'
  <2>11. CommitSteps(t)
    BY <1>4, CommitOps
  <2>12. PICK new \in Dirs : Committed(t, new)
    BY <1>4, CommitEffect
  <2>. SUFFICES ASSUME NEW u \in Tabs, NEW q \in Packs, At(u, Writing)', op'[u].key[1] = q
                PROVE  op'[u].out = ActiveOf(q)'
    BY DEF Current
  <2>1. u # t
    BY <2>11, <2>12 DEF Committed, CommitSteps, At, Writing, Holding
  <2>2. At(u, Writing) /\ At(u, Holding) /\ op'[u] = op[u] /\ op[u].key[1] = q
    BY <2>11, <2>12, <2>1 DEF Committed, CommitSteps, At, Others, Writing, Holding
  <2>3. lock[q] = u
    BY <2>2 DEF Locked
  <2>4. \A j \in Versioned : j[1] = q => rows'[j] = rows[j]
    BY <2>11, <2>12, <2>1, <2>2, <2>3 DEF Committed, CommitSteps, Locked, At, Holding, Installed
  <2>. QED
    BY <2>2, <2>4, SamePack DEF Current
<1>5. ASSUME NEW t \in Tabs,
           \/ InstallHooks(t) \/ RollbackUnindexes(t) \/ RollbackMarks(t)
           \/ RollbackIndexes(t) \/ PassMarks(t) \/ HealthMarks(t)
      PROVE  Current'
  <2>. SUFFICES ASSUME NEW u \in Tabs, NEW q \in Packs, At(u, Writing)', op'[u].key[1] = q
                PROVE  op'[u].out = ActiveOf(q)'
    BY DEF Current
  <2>1. u # t => op'[u] = op[u]
    BY <1>5, LateEffect, LateFiles DEF Others
  <2>2. At(u, Writing) /\ At(u, Holding) /\ op'[u] = op[u] /\ op[u].key[1] = q
    BY <1>5, <2>1, LateEffect, LateFiles DEF At, Writing, Holding
  <2>3. lock[q] = u
    BY <2>2 DEF Locked
  <2>4. \A j \in Versioned : j[1] = q => rows'[j] = rows[j]
    BY <1>5, <2>1, <2>2, <2>3, LateEffect, LateFiles DEF Locked, At, Holding, Installed
  <2>. QED
    BY <2>2, <2>4, SamePack DEF Current
<1>6. ASSUME NEW t \in Tabs, NEW k \in Versioned, Rollback(t, k)
      PROVE  Current'
  <2>11. RolledBack(t, k)
    BY <1>6, RollbackEffect
  <2>. SUFFICES ASSUME NEW u \in Tabs, NEW q \in Packs, At(u, Writing)', op'[u].key[1] = q
                PROVE  op'[u].out = ActiveOf(q)'
    BY DEF Current
  <2>1. u # t
    BY <2>11, RollbackOps, <1>6 DEF RolledBack, At, Writing, Holding
  <2>2. At(u, Writing) /\ At(u, Holding) /\ op'[u] = op[u] /\ op[u].key[1] = q
    BY <2>11, RollbackOps, <1>6, <2>1 DEF RolledBack, At, Others, Writing, Holding
  <2>3. lock[q] = u
    BY <2>2 DEF Locked
  <2>4. \A j \in Versioned : j[1] = q => rows'[j] = rows[j]
    BY <2>11, RollbackOps, <1>6, <2>1, <2>2, <2>3 DEF RolledBack, Locked, At, Holding, Installed
  <2>. QED
    BY <2>2, <2>4, SamePack DEF Current
<1>7. ASSUME NEW t \in Tabs, NEW k \in Versioned, NEW ks \in Removals(k), Remove(t, k, ks)
      PROVE  Current'
  <2>. SUFFICES ASSUME NEW u \in Tabs, NEW q \in Packs, At(u, Writing)', op'[u].key[1] = q
                PROVE  op'[u].out = ActiveOf(q)'
    BY DEF Current
  <2>1. u # t
    BY <1>7, RemoveEffect DEF At, Writing, Holding
  <2>2. At(u, Writing) /\ At(u, Holding) /\ op'[u] = op[u] /\ op[u].key[1] = q
    BY <1>7, <2>1, RemoveEffect DEF At, Others, Writing, Holding
  <2>3. lock[q] = u
    BY <2>2 DEF Locked
  <2>4. \A j \in Versioned : j[1] = q => rows'[j] = rows[j]
    BY <1>7, <2>1, <2>2, <2>3, RemoveEffect DEF Locked, At, Holding, Installed
  <2>. QED
    BY <2>2, <2>4, SamePack DEF Current
<1>8. ASSUME NEW t \in Tabs, Crash(t)
      PROVE  Current'
  <2>. SUFFICES ASSUME NEW u \in Tabs, NEW q \in Packs, At(u, Writing)', op'[u].key[1] = q
                PROVE  op'[u].out = ActiveOf(q)'
    BY DEF Current
  <2>1. u # t
    BY <1>8, CrashEffect DEF At, Writing, Holding
  <2>2. At(u, Writing) /\ At(u, Holding) /\ op'[u] = op[u] /\ op[u].key[1] = q
    BY <1>8, <2>1, CrashEffect DEF At, Others, Writing, Holding
  <2>3. lock[q] = u
    BY <2>2 DEF Locked
  <2>4. \A j \in Versioned : j[1] = q => rows'[j] = rows[j]
    BY <1>8, <2>1, <2>2, <2>3, CrashEffect DEF Locked, At, Holding, Installed
  <2>. QED
    BY <2>2, <2>4, SamePack DEF Current
<1>9. ASSUME NEW t \in Tabs, NEW p \in Packs, SweepPack(t, p)
      PROVE  Current'
  <2>. SUFFICES ASSUME NEW u \in Tabs, NEW q \in Packs, At(u, Writing)', op'[u].key[1] = q
                PROVE  op'[u].out = ActiveOf(q)'
    BY DEF Current
  <2>1. rows' = rows /\ op' = op
    BY <1>9, SweepEffect
  <2>2. At(u, Writing) /\ op[u].key[1] = q
    BY <2>1 DEF At
  <2>. QED
    BY <2>1, <2>2, SamePack DEF Current
<1>10. ASSUME Quiet
      PROVE  Current'
  <2>. SUFFICES ASSUME NEW u \in Tabs, NEW q \in Packs, At(u, Writing)', op'[u].key[1] = q
                PROVE  op'[u].out = ActiveOf(q)'
    BY DEF Current
  <2>1. rows' = rows /\ op' = op
    BY <1>10 DEF Quiet, stored
  <2>2. At(u, Writing) /\ op[u].key[1] = q
    BY <2>1 DEF At
  <2>. QED
    BY <2>1, <2>2, SamePack DEF Current
<1>. QED
  BY <1>1, <1>2, <1>3, <1>4, <1>5, <1>6, <1>7, <1>8, <1>9, <1>10, QuietSteps
     DEF Next, Proceeds, Embeds, Heals

\* Every step leaves one version of a pack active.
LEMMA StepOneActive ==
    ASSUME IInv, [Next]_vars
    PROVE  OneActive'
<1>. USE Shapes, NoneAssumption, NamesAssumption DEF IInv
<1>1. ASSUME NEW t \in Tabs, NEW p \in Packs, NEW v \in Versions, BeginInstall(t, p, v)
      PROVE  OneActive'
  <2>11. Begun(t, p, v)
    BY <1>1, BeginEffect
  <2>. SUFFICES ASSUME NEW i \in Versioned, NEW j \in Versioned, i[1] = j[1],
                       Active(i)', Active(j)'
                PROVE  i = j
    BY DEF OneActive
  <2>1. rows' = rows
    BY <2>11 DEF Begun
  <2>. QED
    BY <2>1 DEF OneActive, Active
<1>2. ASSUME NEW t \in Tabs, InstallWritten(t)
      PROVE  OneActive'
  <2>11. Wrote(t)
    BY <1>2, WrittenEffect
  <2>. SUFFICES ASSUME NEW i \in Versioned, NEW j \in Versioned, i[1] = j[1],
                       Active(i)', Active(j)'
                PROVE  i = j
    BY DEF OneActive
  <2>1. rows' = rows
    BY <2>11 DEF Wrote
  <2>. QED
    BY <2>1 DEF OneActive, Active
<1>3. ASSUME NEW t \in Tabs, InstallFails(t) \/ InstallCleans(t) \/ RemoveCleans(t)
      PROVE  OneActive'
  BY <1>3, RemovalEffect, RemovalOps
     DEF OneActive, Active, Begun, Wrote, At, Holding, Writing, Others, OtherLocks,
         SameFiles, Installed
<1>4. ASSUME NEW t \in Tabs, InstallCommits(t)
      PROVE  OneActive'
  <2>11. CommitSteps(t)
    BY <1>4, CommitOps
  <2>12. PICK new \in Dirs : Committed(t, new)
    BY <1>4, CommitEffect
  <2>. SUFFICES ASSUME NEW i \in Versioned, NEW j \in Versioned, i[1] = j[1],
                       Active(i)', Active(j)'
                PROVE  i = j
    BY DEF OneActive
  <2>1. CASE i[1] = op[t].key[1]
    BY <2>11, <2>12, <2>1 DEF Committed, CommitSteps, Active, SameFiles
  <2>2. CASE i[1] # op[t].key[1]
    <3>1. rows'[i] = rows[i] /\ rows'[j] = rows[j]
      BY <2>11, <2>12, <2>2 DEF Committed, CommitSteps
    <3>. QED
      BY <3>1 DEF OneActive, Active
  <2>. QED
    BY <2>1, <2>2
<1>5. ASSUME NEW t \in Tabs,
           \/ InstallHooks(t) \/ RollbackUnindexes(t) \/ RollbackMarks(t)
           \/ RollbackIndexes(t) \/ PassMarks(t) \/ HealthMarks(t)
      PROVE  OneActive'
  <2>. SUFFICES ASSUME NEW i \in Versioned, NEW j \in Versioned, i[1] = j[1],
                       Active(i)', Active(j)'
                PROVE  i = j
    BY DEF OneActive
  <2>1. Active(i) /\ Active(j)
    BY <1>5, LateEffect, LateFiles DEF SameFiles, Active
  <2>. QED
    BY <2>1 DEF OneActive
<1>6. ASSUME NEW t \in Tabs, NEW k \in Versioned, Rollback(t, k)
      PROVE  OneActive'
  <2>11. RolledBack(t, k)
    BY <1>6, RollbackEffect
  <2>. SUFFICES ASSUME NEW i \in Versioned, NEW j \in Versioned, i[1] = j[1],
                       Active(i)', Active(j)'
                PROVE  i = j
    BY DEF OneActive
  <2>1. \A h \in Versioned : rows'[h] = None <=> rows[h] = None
    BY <2>11 DEF RolledBack, SameFiles
  <2>2. CASE i[1] = k[1]
    <3>1. \A h \in Versioned : h[1] = k[1] /\ rows[h] # None /\ h # k => rows'[h].active = FALSE
      BY <1>6, RollbackEffect
    <3>. QED
      BY <2>1, <2>2, <3>1 DEF Active
  <2>3. CASE i[1] # k[1]
    <3>1. rows'[i] = rows[i] /\ rows'[j] = rows[j]
      BY <2>11, <2>3 DEF RolledBack
    <3>. QED
      BY <3>1 DEF OneActive, Active
  <2>. QED
    BY <2>2, <2>3
<1>7. ASSUME NEW t \in Tabs, NEW k \in Versioned, NEW ks \in Removals(k), Remove(t, k, ks)
      PROVE  OneActive'
  BY <1>7, RemoveEffect
     DEF OneActive, Active, Begun, Wrote, At, Holding, Writing, Others, OtherLocks,
         SameFiles, Installed
<1>8. ASSUME NEW t \in Tabs, Crash(t)
      PROVE  OneActive'
  BY <1>8, CrashEffect
     DEF OneActive, Active, Begun, Wrote, At, Holding, Writing, Others, OtherLocks,
         SameFiles, Installed
<1>9. ASSUME NEW t \in Tabs, NEW p \in Packs, SweepPack(t, p)
      PROVE  OneActive'
  BY <1>9, SweepEffect
     DEF OneActive, Active, Begun, Wrote, At, Holding, Writing, Others, OtherLocks,
         SameFiles, Installed
<1>10. ASSUME Quiet
      PROVE  OneActive'
  BY <1>10
     DEF Quiet, stored, OneActive, Active, Begun, Wrote, At, Holding, Writing,
         Others, OtherLocks, SameFiles, Installed
<1>. QED
  BY <1>1, <1>2, <1>3, <1>4, <1>5, <1>6, <1>7, <1>8, <1>9, <1>10, QuietSteps
     DEF Next, Proceeds, Embeds, Heals

-----------------------------------------------------------------------------
(* Types.                                                                  *)

\* The steps of the background change no operation.
LEMMA OpStays ==
    ASSUME UNCHANGED vars \/ \E t \in Tabs :
          \/ PassLists(t) \/ PassTakes(t) \/ PassStores(t) \/ PassMarks(t)
          \/ PassEnds(t) \/ PassFails(t) \/ HealthLists(t) \/ HealthChecks(t)
          \/ HealthMarks(t) \/ HealthEnds(t) \/ SweepLists(t) \/ ModelLoaded(t)
          \/ Boot(t)
          \/ \E p \in Packs : SweepPack(t, p)
    PROVE  UNCHANGED op
<1>1. CASE \E t \in Tabs :
          \/ PassLists(t) \/ PassTakes(t) \/ PassStores(t) \/ PassMarks(t)
          \/ PassEnds(t) \/ PassFails(t) \/ HealthLists(t)
  BY <1>1
     DEF indexes, stored, PassLists, PassTakes, PassStores, PassMarks, PassEnds,
         PassFails, HealthLists
<1>2. CASE \E t \in Tabs :
          \/ HealthChecks(t) \/ HealthMarks(t) \/ HealthEnds(t) \/ SweepLists(t)
          \/ ModelLoaded(t) \/ Boot(t)
  BY <1>2
     DEF indexes, stored, HealthChecks, HealthMarks, HealthEnds, SweepLists,
         ModelLoaded, Boot
<1>3. CASE \E t \in Tabs :
          \/ \E p \in Packs : SweepPack(t, p)
  BY <1>3 DEF indexes, stored, SweepPack
<1>4. CASE UNCHANGED vars
  BY <1>4 DEF vars, indexes, stored
<1>. QED
  BY <1>1, <1>2, <1>3, <1>4

\* Only an activation, an index check and a pass change a pass.
LEMMA PassStays ==
    ASSUME UNCHANGED vars \/ \E t \in Tabs :
          \/ InstallWritten(t) \/ InstallFails(t) \/ InstallCommits(t)
          \/ InstallCleans(t) \/ RollbackUnindexes(t) \/ RollbackMarks(t)
          \/ RemoveCleans(t) \/ HealthLists(t) \/ HealthChecks(t)
          \/ HealthMarks(t) \/ SweepLists(t) \/ ModelLoaded(t) \/ Boot(t)
          \/ \E p \in Packs, v \in Versions : BeginInstall(t, p, v)
          \/ \E k \in Versioned : Rollback(t, k)
          \/ \E k \in Versioned : \E ks \in Removals(k) : Remove(t, k, ks)
          \/ \E p \in Packs : SweepPack(t, p)
    PROVE  UNCHANGED pass
<1>1. CASE \E t \in Tabs :
          \/ InstallWritten(t) \/ InstallFails(t) \/ InstallCommits(t)
          \/ InstallCleans(t) \/ RollbackUnindexes(t) \/ RollbackMarks(t)
          \/ RemoveCleans(t)
  BY <1>1
     DEF indexes, stored, InstallWritten, InstallFails, InstallCommits,
         InstallCleans, RollbackUnindexes, RollbackMarks, RemoveCleans
<1>2. CASE \E t \in Tabs :
          \/ HealthLists(t) \/ HealthChecks(t) \/ HealthMarks(t)
          \/ SweepLists(t) \/ ModelLoaded(t) \/ Boot(t)
  BY <1>2
     DEF indexes, stored, HealthLists, HealthChecks, HealthMarks, SweepLists,
         ModelLoaded, Boot
<1>3. CASE \E t \in Tabs :
          \/ \E p \in Packs, v \in Versions : BeginInstall(t, p, v)
          \/ \E k \in Versioned : Rollback(t, k)
          \/ \E k \in Versioned : \E ks \in Removals(k) : Remove(t, k, ks)
          \/ \E p \in Packs : SweepPack(t, p)
  BY <1>3 DEF indexes, stored, BeginInstall, Rollback, Remove, SweepPack
<1>4. CASE UNCHANGED vars
  BY <1>4 DEF vars, indexes, stored
<1>. QED
  BY <1>1, <1>2, <1>3, <1>4

\* Only an index check, a start and a model that loads change a check.
LEMMA HealthStays ==
    ASSUME UNCHANGED vars \/ \E t \in Tabs :
          \/ InstallWritten(t) \/ InstallFails(t) \/ InstallCommits(t)
          \/ InstallCleans(t) \/ InstallHooks(t) \/ RollbackUnindexes(t)
          \/ RollbackMarks(t) \/ RollbackIndexes(t) \/ RemoveCleans(t)
          \/ PassLists(t) \/ PassTakes(t) \/ PassStores(t) \/ PassMarks(t)
          \/ PassEnds(t) \/ PassFails(t) \/ SweepLists(t)
          \/ \E p \in Packs, v \in Versions : BeginInstall(t, p, v)
          \/ \E k \in Versioned : Rollback(t, k)
          \/ \E k \in Versioned : \E ks \in Removals(k) : Remove(t, k, ks)
          \/ \E p \in Packs : SweepPack(t, p)
    PROVE  UNCHANGED health
<1>1. CASE \E t \in Tabs :
          \/ InstallWritten(t) \/ InstallFails(t) \/ InstallCommits(t)
          \/ InstallCleans(t) \/ InstallHooks(t) \/ RollbackUnindexes(t)
          \/ RollbackMarks(t)
  BY <1>1
     DEF indexes, stored, InstallWritten, InstallFails, InstallCommits,
         InstallCleans, InstallHooks, RollbackUnindexes, RollbackMarks
<1>2. CASE \E t \in Tabs :
          \/ RollbackIndexes(t) \/ RemoveCleans(t) \/ PassLists(t)
          \/ PassTakes(t) \/ PassStores(t) \/ PassMarks(t) \/ PassEnds(t)
  BY <1>2
     DEF indexes, stored, RollbackIndexes, RemoveCleans, PassLists, PassTakes,
         PassStores, PassMarks, PassEnds
<1>3. CASE \E t \in Tabs :
          \/ PassFails(t) \/ SweepLists(t)
  BY <1>3 DEF indexes, stored, PassFails, SweepLists
<1>4. CASE \E t \in Tabs :
          \/ \E p \in Packs, v \in Versions : BeginInstall(t, p, v)
          \/ \E k \in Versioned : Rollback(t, k)
          \/ \E k \in Versioned : \E ks \in Removals(k) : Remove(t, k, ks)
          \/ \E p \in Packs : SweepPack(t, p)
  BY <1>4 DEF indexes, stored, BeginInstall, Rollback, Remove, SweepPack
<1>5. CASE UNCHANGED vars
  BY <1>5 DEF vars, indexes, stored
<1>. QED
  BY <1>1, <1>2, <1>3, <1>4, <1>5

\* Only these steps change the search indexes.
LEMMA IndexesStays ==
    ASSUME UNCHANGED vars \/ \E t \in Tabs :
          \/ InstallWritten(t) \/ InstallFails(t) \/ InstallCommits(t)
          \/ RollbackMarks(t) \/ PassLists(t) \/ PassTakes(t) \/ PassMarks(t)
          \/ PassEnds(t) \/ PassFails(t) \/ HealthLists(t) \/ HealthMarks(t)
          \/ HealthEnds(t) \/ SweepLists(t) \/ ModelLoaded(t) \/ Boot(t)
          \/ Crash(t)
          \/ \E p \in Packs, v \in Versions : BeginInstall(t, p, v)
          \/ \E k \in Versioned : Rollback(t, k)
          \/ \E k \in Versioned : \E ks \in Removals(k) : Remove(t, k, ks)
          \/ \E p \in Packs : SweepPack(t, p)
    PROVE  UNCHANGED indexes
<1>1. CASE \E t \in Tabs :
          \/ InstallWritten(t) \/ InstallFails(t) \/ InstallCommits(t)
          \/ RollbackMarks(t) \/ PassLists(t) \/ PassTakes(t) \/ PassMarks(t)
  BY <1>1
     DEF indexes, stored, InstallWritten, InstallFails, InstallCommits,
         RollbackMarks, PassLists, PassTakes, PassMarks
<1>2. CASE \E t \in Tabs :
          \/ PassEnds(t) \/ PassFails(t) \/ HealthLists(t) \/ HealthMarks(t)
          \/ HealthEnds(t) \/ SweepLists(t) \/ ModelLoaded(t)
  BY <1>2
     DEF indexes, stored, PassEnds, PassFails, HealthLists, HealthMarks, HealthEnds,
         SweepLists, ModelLoaded
<1>3. CASE \E t \in Tabs :
          \/ Boot(t) \/ Crash(t)
  BY <1>3 DEF indexes, stored, Boot, Crash
<1>4. CASE \E t \in Tabs :
          \/ \E p \in Packs, v \in Versions : BeginInstall(t, p, v)
          \/ \E k \in Versioned : Rollback(t, k)
          \/ \E k \in Versioned : \E ks \in Removals(k) : Remove(t, k, ks)
          \/ \E p \in Packs : SweepPack(t, p)
  BY <1>4 DEF indexes, stored, BeginInstall, Rollback, Remove, SweepPack
<1>5. CASE UNCHANGED vars
  BY <1>5 DEF vars, indexes, stored
<1>. QED
  BY <1>1, <1>2, <1>3, <1>4, <1>5

\* Only a sweep changes what there is to sweep.
LEMMA SweepStays ==
    ASSUME UNCHANGED vars \/ \E t \in Tabs :
          \/ InstallWritten(t) \/ InstallFails(t) \/ InstallCommits(t)
          \/ InstallCleans(t) \/ InstallHooks(t) \/ RollbackUnindexes(t)
          \/ RollbackMarks(t) \/ RollbackIndexes(t) \/ RemoveCleans(t)
          \/ PassLists(t) \/ PassTakes(t) \/ PassStores(t) \/ PassMarks(t)
          \/ PassEnds(t) \/ PassFails(t) \/ HealthLists(t) \/ HealthChecks(t)
          \/ HealthMarks(t) \/ HealthEnds(t) \/ ModelLoaded(t) \/ Boot(t)
          \/ \E p \in Packs, v \in Versions : BeginInstall(t, p, v)
          \/ \E k \in Versioned : Rollback(t, k)
          \/ \E k \in Versioned : \E ks \in Removals(k) : Remove(t, k, ks)
    PROVE  UNCHANGED sweep
<1>1. CASE \E t \in Tabs :
          \/ InstallWritten(t) \/ InstallFails(t) \/ InstallCommits(t)
          \/ InstallCleans(t) \/ InstallHooks(t) \/ RollbackUnindexes(t)
          \/ RollbackMarks(t)
  BY <1>1
     DEF indexes, stored, InstallWritten, InstallFails, InstallCommits,
         InstallCleans, InstallHooks, RollbackUnindexes, RollbackMarks
<1>2. CASE \E t \in Tabs :
          \/ RollbackIndexes(t) \/ RemoveCleans(t) \/ PassLists(t)
          \/ PassTakes(t) \/ PassStores(t) \/ PassMarks(t) \/ PassEnds(t)
  BY <1>2
     DEF indexes, stored, RollbackIndexes, RemoveCleans, PassLists, PassTakes,
         PassStores, PassMarks, PassEnds
<1>3. CASE \E t \in Tabs :
          \/ PassFails(t) \/ HealthLists(t) \/ HealthChecks(t) \/ HealthMarks(t)
          \/ HealthEnds(t) \/ ModelLoaded(t) \/ Boot(t)
  BY <1>3
     DEF indexes, stored, PassFails, HealthLists, HealthChecks, HealthMarks,
         HealthEnds, ModelLoaded, Boot
<1>4. CASE \E t \in Tabs :
          \/ \E p \in Packs, v \in Versions : BeginInstall(t, p, v)
          \/ \E k \in Versioned : Rollback(t, k)
          \/ \E k \in Versioned : \E ks \in Removals(k) : Remove(t, k, ks)
  BY <1>4 DEF indexes, stored, BeginInstall, Rollback, Remove
<1>5. CASE UNCHANGED vars
  BY <1>5 DEF vars, indexes, stored
<1>. QED
  BY <1>1, <1>2, <1>3, <1>4, <1>5

\* Rows that were read are what an operation, a pass or a check keeps.
LEMMA ReadSeen ==
    ASSUME TypeOK, NEW ks \in SUBSET Installed
    PROVE  Read(ks) \in SUBSET Seen
<1>1. \A k \in ks : [key |-> k, row |-> rows[k]] \in Seen
  BY Shapes DEF Seen
<1>. QED
  BY <1>1 DEF Read

\* The next step of an operation is an operation.
LEMMA OpStep ==
    ASSUME NEW o \in Op, NEW s \in Steps, NEW ds \in SUBSET Dirs
    PROVE  /\ [o EXCEPT !.step = s] \in Op
           /\ [o EXCEPT !.step = s, !.dirs = ds] \in Op
  BY DEF Op

\* So is a new one.
LEMMA OpRecord ==
    ASSUME NEW s \in Steps, NEW k \in Versioned, NEW ds \in SUBSET Dirs, NEW out \in SUBSET Seen
    PROVE  [step |-> s, key |-> k, dirs |-> ds, out |-> out] \in Op
  BY DEF Op

\* An operation stays one.
LEMMA StepOp ==
    ASSUME TypeOK, [Next]_vars
    PROVE  op' \in [Tabs -> Op \cup {None}]
<1>1. ASSUME NEW t \in Tabs, NEW p \in Packs, NEW v \in Versions, BeginInstall(t, p, v)
      PROVE  op' \in [Tabs -> Op \cup {None}]
  <2>1. {requests + 1} \in SUBSET Dirs /\ <<p, v>> \in Versioned
    BY <1>1, Shapes, BeginEffect DEF Begun, Versioned
  <2>2. Outgoing(p, v) \in SUBSET Seen
    BY ReadSeen DEF Outgoing, Active, Installed
  <2>3. [step |-> "writing", key |-> <<p, v>>, dirs |-> {requests + 1}, out |-> Outgoing(p, v)] \in Op
    BY <2>1, <2>2, OpRecord DEF Steps
  <2>. QED
    BY <1>1, <2>3 DEF BeginInstall, TypeOK
<1>2. ASSUME NEW t \in Tabs, InstallWritten(t)
      PROVE  op' \in [Tabs -> Op \cup {None}]
  <2>1. op[t] \in Op /\ op' = [op EXCEPT ![t] = [op[t] EXCEPT !.step = "written"]]
    BY <1>2 DEF InstallWritten, TypeOK
  <2>2. [op[t] EXCEPT !.step = "written"] \in Op
    BY <2>1, OpStep DEF Steps
  <2>. QED
    BY <2>1, <2>2 DEF TypeOK
<1>3. ASSUME NEW t \in Tabs, InstallFails(t) \/ InstallCleans(t) \/ RemoveCleans(t)
      PROVE  op' \in [Tabs -> Op \cup {None}]
  <2>1. op[t] \in Op /\ [op[t] EXCEPT !.step = "hooking"] \in Op
    BY <1>3, RemovalEffect, Shapes, OpStep DEF At, Steps
  <2>. QED
    BY <1>3, <2>1, RemovalEffect DEF TypeOK
<1>4. ASSUME NEW t \in Tabs, InstallCommits(t)
      PROVE  op' \in [Tabs -> Op \cup {None}]
  <2> DEFINE ds == {rows[j].dir : j \in Installed \cap {op[t].key}}
  <2>1. op[t] \in Op /\ op' = [op EXCEPT ![t] = [op[t] EXCEPT !.step = "cleaning", !.dirs = ds]]
    BY <1>4 DEF InstallCommits, TypeOK
  <2>2. ds \in SUBSET Dirs
    BY Shapes
  <2>3. [op[t] EXCEPT !.step = "cleaning", !.dirs = ds] \in Op
    BY <2>1, <2>2, OpStep DEF Steps
  <2>. QED
    BY <2>1, <2>3 DEF TypeOK
<1>5. ASSUME NEW t \in Tabs, InstallHooks(t) \/ RollbackIndexes(t)
      PROVE  op' \in [Tabs -> Op \cup {None}]
  BY <1>5 DEF InstallHooks, RollbackIndexes, TypeOK
<1>6. ASSUME NEW t \in Tabs, NEW k \in Versioned, Rollback(t, k)
      PROVE  op' \in [Tabs -> Op \cup {None}]
  <2>1. {rows[k].dir} \in SUBSET Dirs /\ k \in Versioned
    BY <1>6, Shapes DEF Rollback, Installed
  <2>2. Read({j \in Versioned : j[1] = k[1] /\ Active(j)}) \in SUBSET Seen
    BY ReadSeen DEF Outgoing, Active, Installed
  <2>3. [step |-> "unindexing", key |-> k, dirs |-> {rows[k].dir},
         out |-> Read({j \in Versioned : j[1] = k[1] /\ Active(j)})] \in Op
    BY <2>1, <2>2, OpRecord DEF Steps
  <2>. QED
    BY <1>6, <2>3 DEF Rollback, TypeOK
<1>7. ASSUME NEW t \in Tabs, RollbackUnindexes(t)
      PROVE  op' \in [Tabs -> Op \cup {None}]
  <2>1. op[t] \in Op /\ op' = [op EXCEPT ![t] = [op[t] EXCEPT !.step = "marking"]]
    BY <1>7 DEF RollbackUnindexes, TypeOK
  <2>2. [op[t] EXCEPT !.step = "marking"] \in Op
    BY <2>1, OpStep DEF Steps
  <2>. QED
    BY <2>1, <2>2 DEF TypeOK
<1>8. ASSUME NEW t \in Tabs, RollbackMarks(t)
      PROVE  op' \in [Tabs -> Op \cup {None}]
  <2>1. op[t] \in Op /\ op' = [op EXCEPT ![t] = [op[t] EXCEPT !.step = "indexing"]]
    BY <1>8 DEF RollbackMarks, TypeOK
  <2>2. [op[t] EXCEPT !.step = "indexing"] \in Op
    BY <2>1, OpStep DEF Steps
  <2>. QED
    BY <2>1, <2>2 DEF TypeOK
<1>9. ASSUME NEW t \in Tabs, NEW k \in Versioned, NEW ks \in Removals(k), Remove(t, k, ks)
      PROVE  op' \in [Tabs -> Op \cup {None}]
  <2>5. \A j \in ks : j \in Installed
    BY <1>9, RemoveEffect
  <2>1. {rows[j].dir : j \in ks} \in SUBSET Dirs /\ k \in Versioned
    BY <2>5, Shapes
  <2>4. {j \in ks : Active(j)} \in SUBSET Installed
    BY <1>9, RemoveEffect
  <2>2. Read({j \in ks : Active(j)}) \in SUBSET Seen
    BY <2>4, ReadSeen
  <2>3. [step |-> "removing", key |-> k, dirs |-> {rows[j].dir : j \in ks},
         out |-> Read({j \in ks : Active(j)})] \in Op
    BY <2>1, <2>2, OpRecord DEF Steps
  <2>. QED
    BY <1>9, <2>3 DEF Remove, TypeOK
<1>10. ASSUME NEW t \in Tabs, Crash(t)
      PROVE  op' \in [Tabs -> Op \cup {None}]
  BY <1>10 DEF Crash, TypeOK
<1>11. CASE UNCHANGED op
  BY <1>11 DEF TypeOK
<1>. QED
  BY <1>1, <1>2, <1>3, <1>4, <1>5, <1>6, <1>7, <1>8, <1>9, <1>10, <1>11, OpStays
     DEF Next, Proceeds, Embeds, Heals

\* What replaces a pass, if it has a version when it embeds.
Embeddable(q) == q \in Pass /\ (q.stage \in {"encoding", "storing"} => q.at \in Seen)

\* A pass that is replaced so is still one.
LEMMA PassUpdate ==
    ASSUME TypeOK, Underway, NEW t \in Tabs, NEW q, Embeddable(q), pass' = [pass EXCEPT ![t] = q]
    PROVE  pass' \in [Tabs -> Pass] /\ Underway'
  BY DEF TypeOK, Underway, Embeddable

\* A pass that is asked for, and none.
LEMMA AskedPass ==
    ASSUME TypeOK, Underway, NEW t \in Tabs
    PROVE  Embeddable(Asked(pass[t])) /\ Embeddable(NoPass)
<1>1. pass[t] \in Pass /\ (pass[t].stage \in {"encoding", "storing"} => pass[t].at \in Seen)
  BY DEF TypeOK, Underway
<1>2. Embeddable([pass[t] EXCEPT !.stage = "listing"])
  BY <1>1 DEF Embeddable, Pass
<1>3. Embeddable([pass[t] EXCEPT !.again = TRUE])
  BY <1>1 DEF Embeddable, Pass
<1>4. Embeddable(NoPass)
  BY DEF Embeddable, Pass, NoPass
<1>. QED
  BY <1>2, <1>3, <1>4 DEF Asked

\* A pass stays one, and has its version when it embeds.
LEMMA StepPass ==
    ASSUME TypeOK, Underway, [Next]_vars
    PROVE  pass' \in [Tabs -> Pass] /\ Underway'
<1>1. ASSUME NEW t \in Tabs, InstallHooks(t) \/ HealthEnds(t)
      PROVE  pass' \in [Tabs -> Pass] /\ Underway'
  BY <1>1, AskedPass, PassUpdate DEF InstallHooks, HealthEnds, AskEmbedding
<1>2. ASSUME NEW t \in Tabs, RollbackIndexes(t)
      PROVE  pass' \in [Tabs -> Pass] /\ Underway'
  <2>1. CASE UNCHANGED pass
    BY <2>1 DEF TypeOK, Underway
  <2>2. CASE AskEmbedding(t)
    BY <2>2, AskedPass, PassUpdate DEF AskEmbedding
  <2>. QED
    BY <1>2, <2>1, <2>2 DEF RollbackIndexes
<1>3. ASSUME NEW t \in Tabs, PassLists(t)
      PROVE  pass' \in [Tabs -> Pass] /\ Underway'
  <2> DEFINE todo == Read({k \in Versioned : Active(k) /\ ~rows[k].embedded})
  <2>4. todo \in SUBSET Seen
    BY ReadSeen DEF Active, Installed
  <2> HIDE DEF todo
  <2>1. pass' = [pass EXCEPT ![t] = [pass[t] EXCEPT !.stage = "next", !.again = FALSE, !.todo = todo]]
    BY <1>3 DEF PassLists, TypeOK, todo
  <2>2. pass[t] \in Pass /\ (pass[t].stage \in {"encoding", "storing"} => pass[t].at \in Seen)
    BY DEF TypeOK, Underway
  <2>3. Embeddable([pass[t] EXCEPT !.stage = "next", !.again = FALSE, !.todo = todo])
    BY <1>3, <2>2, <2>4 DEF Embeddable, Pass, PassLists
  <2>. QED
    BY <2>1, <2>3, PassUpdate
<1>4. ASSUME NEW t \in Tabs, PassTakes(t)
      PROVE  pass' \in [Tabs -> Pass] /\ Underway'
  <2>1. PICK r \in pass[t].todo : pass' = [pass EXCEPT ![t] =
            IF dirs[r.row.dir] = None \/ ~ready[t]
            THEN [pass[t] EXCEPT !.todo = pass[t].todo \ {r}]
            ELSE [pass[t] EXCEPT !.todo = pass[t].todo \ {r}, !.at = r, !.stage = "encoding"]]
    BY <1>4 DEF PassTakes, TypeOK
  <2>2. pass[t] \in Pass /\ (pass[t].stage \in {"encoding", "storing"} => pass[t].at \in Seen)
    BY DEF TypeOK, Underway
  <2>3. Embeddable([pass[t] EXCEPT !.todo = pass[t].todo \ {r}])
    BY <2>2 DEF Embeddable, Pass
  <2>4. Embeddable([pass[t] EXCEPT !.todo = pass[t].todo \ {r}, !.at = r, !.stage = "encoding"])
    BY <2>2 DEF Embeddable, Pass
  <2>5. CASE dirs[r.row.dir] = None \/ ~ready[t]
    BY <2>1, <2>3, <2>5, PassUpdate
  <2>6. CASE ~(dirs[r.row.dir] = None \/ ~ready[t])
    BY <2>1, <2>4, <2>6, PassUpdate
  <2>. QED
    BY <2>5, <2>6
<1>5. ASSUME NEW t \in Tabs, PassStores(t)
      PROVE  pass' \in [Tabs -> Pass] /\ Underway'
  <2>1. pass' = [pass EXCEPT ![t] = [pass[t] EXCEPT !.stage = "storing"]]
    BY <1>5 DEF PassStores, TypeOK
  <2>2. pass[t] \in Pass /\ (pass[t].stage \in {"encoding", "storing"} => pass[t].at \in Seen)
    BY DEF TypeOK, Underway
  <2>3. Embeddable([pass[t] EXCEPT !.stage = "storing"])
    BY <1>5, <2>2 DEF Embeddable, Pass, PassStores
  <2>. QED
    BY <2>1, <2>3, PassUpdate
<1>6. ASSUME NEW t \in Tabs, PassMarks(t)
      PROVE  pass' \in [Tabs -> Pass] /\ Underway'
  <2>1. pass' = [pass EXCEPT ![t] = [pass[t] EXCEPT !.stage = "next", !.at = None]]
    BY <1>6 DEF PassMarks, TypeOK
  <2>2. pass[t] \in Pass /\ (pass[t].stage \in {"encoding", "storing"} => pass[t].at \in Seen)
    BY DEF TypeOK, Underway
  <2>3. Embeddable([pass[t] EXCEPT !.stage = "next", !.at = None])
    BY <1>6, <2>2 DEF Embeddable, Pass, PassMarks
  <2>. QED
    BY <2>1, <2>3, PassUpdate
<1>7. ASSUME NEW t \in Tabs, PassEnds(t)
      PROVE  pass' \in [Tabs -> Pass] /\ Underway'
  <2>1. pass' = [pass EXCEPT ![t] =
           [pass[t] EXCEPT !.stage = IF pass[t].again THEN "listing" ELSE "idle",
                                               !.again = FALSE]]
    BY <1>7 DEF PassEnds, TypeOK
  <2>2. pass[t] \in Pass /\ (pass[t].stage \in {"encoding", "storing"} => pass[t].at \in Seen)
    BY DEF TypeOK, Underway
  <2>3. Embeddable([pass[t] EXCEPT !.stage = IF pass[t].again THEN "listing" ELSE "idle",
                                               !.again = FALSE])
    BY <1>7, <2>2 DEF Embeddable, Pass, PassEnds
  <2>. QED
    BY <2>1, <2>3, PassUpdate
<1>8. ASSUME NEW t \in Tabs, PassFails(t) \/ Crash(t)
      PROVE  pass' \in [Tabs -> Pass] /\ Underway'
  BY <1>8, AskedPass, PassUpdate DEF PassFails, Crash
<1>9. CASE UNCHANGED pass
  BY <1>9 DEF Underway, TypeOK
<1>. QED
  BY <1>1, <1>2, <1>3, <1>4, <1>5, <1>6, <1>7, <1>8, <1>9, PassStays
     DEF Next, Proceeds, Embeds, Heals

\* An index check stays one.
LEMMA StepHealth ==
    ASSUME TypeOK, [Next]_vars
    PROVE  health' \in [Tabs -> Health]
<1>1. ASSUME NEW t \in Tabs, HealthLists(t)
      PROVE  health' \in [Tabs -> Health]
  <2> DEFINE todo == Read({k \in Versioned : Active(k)})
  <2>4. todo \in SUBSET Seen
    BY ReadSeen DEF Active, Installed
  <2> HIDE DEF todo
  <2>1. health' = [health EXCEPT ![t] = [health[t] EXCEPT !.stage = "checking", !.todo = todo]]
    BY <1>1 DEF HealthLists, TypeOK, todo
  <2>2. health[t] \in Health
    BY DEF TypeOK
  <2>3. [health[t] EXCEPT !.stage = "checking", !.todo = todo] \in Health
    BY <1>1, <2>2, <2>4 DEF Health, HealthLists
  <2>. QED
    BY <2>1, <2>3 DEF TypeOK
<1>2. ASSUME NEW t \in Tabs, HealthChecks(t)
      PROVE  health' \in [Tabs -> Health]
  <2>1. PICK r \in health[t].todo : \E at \in {r, None} :
            health' = [health EXCEPT ![t] = [health[t] EXCEPT !.todo = health[t].todo \ {r}, !.at = at]]
    BY <1>2 DEF HealthChecks, TypeOK
  <2>2. PICK at \in {r, None} :
            health' = [health EXCEPT ![t] = [health[t] EXCEPT !.todo = health[t].todo \ {r}, !.at = at]]
    BY <2>1
  <2>3. health[t] \in Health
    BY DEF TypeOK
  <2>4. [health[t] EXCEPT !.todo = health[t].todo \ {r}, !.at = at] \in Health
    BY <2>3 DEF Health
  <2>. QED
    BY <2>2, <2>4 DEF TypeOK
<1>3. ASSUME NEW t \in Tabs, HealthMarks(t)
      PROVE  health' \in [Tabs -> Health]
  <2>1. health' = [health EXCEPT ![t] = [health[t] EXCEPT !.at = None]]
    BY <1>3 DEF HealthMarks, TypeOK
  <2>2. health[t] \in Health
    BY DEF TypeOK
  <2>3. [health[t] EXCEPT !.at = None] \in Health
    BY <1>3, <2>2 DEF Health, HealthMarks
  <2>. QED
    BY <2>1, <2>3 DEF TypeOK
<1>4. ASSUME NEW t \in Tabs, HealthEnds(t)
      PROVE  health' \in [Tabs -> Health]
  <2>1. health' = [health EXCEPT ![t] = [health[t] EXCEPT !.stage = "idle"]]
    BY <1>4 DEF HealthEnds, TypeOK
  <2>2. health[t] \in Health
    BY DEF TypeOK
  <2>3. [health[t] EXCEPT !.stage = "idle"] \in Health
    BY <1>4, <2>2 DEF Health, HealthEnds
  <2>. QED
    BY <2>1, <2>3 DEF TypeOK
<1>5. ASSUME NEW t \in Tabs, ModelLoaded(t)
      PROVE  health' \in [Tabs -> Health]
  <2>1. health' = [health EXCEPT ![t] = [health[t] EXCEPT !.stage = IF @ = "idle" THEN "due" ELSE @]]
    BY <1>5 DEF ModelLoaded, TypeOK
  <2>2. health[t] \in Health
    BY DEF TypeOK
  <2>3. [health[t] EXCEPT !.stage = IF @ = "idle" THEN "due" ELSE @] \in Health
    BY <1>5, <2>2 DEF Health, ModelLoaded
  <2>. QED
    BY <2>1, <2>3 DEF TypeOK
<1>6. ASSUME NEW t \in Tabs, Boot(t)
      PROVE  health' \in [Tabs -> Health]
  <2>1. health' = [health EXCEPT ![t] = [health[t] EXCEPT !.stage = "due"]]
    BY <1>6 DEF Boot, TypeOK
  <2>2. health[t] \in Health
    BY DEF TypeOK
  <2>3. [health[t] EXCEPT !.stage = "due"] \in Health
    BY <1>6, <2>2 DEF Health, Boot
  <2>. QED
    BY <2>1, <2>3 DEF TypeOK
<1>7. ASSUME NEW t \in Tabs, Crash(t)
      PROVE  health' \in [Tabs -> Health]
  BY <1>7 DEF Crash, TypeOK, NoHealth, Health
<1>8. CASE UNCHANGED health
  BY <1>8 DEF TypeOK
<1>. QED
  BY <1>1, <1>2, <1>3, <1>4, <1>5, <1>6, <1>7, <1>8, HealthStays
     DEF Next, Proceeds, Embeds, Heals

\* What is put into an index and taken out of it leaves an index.
LEMMA IndexUpdate ==
    ASSUME NEW index \in [Places -> Versions \cup {0}], NEW k \in Versioned, NEW seen
    PROVE  /\ Put(index, k) \in [Places -> Versions \cup {0}]
           /\ Unput(index, seen) \in [Places -> Versions \cup {0}]
  BY DEF Put, Unput, Versioned

\* The indexes stay indexes.
LEMMA StepIndexes ==
    ASSUME TypeOK, Underway, [Next]_vars
    PROVE  keyword' \in [Places -> Versions \cup {0}] /\ vector' \in [Places -> Versions \cup {0}]
<1>1. ASSUME NEW t \in Tabs, InstallCleans(t) \/ RollbackUnindexes(t) \/ RemoveCleans(t)
      PROVE  keyword' \in [Places -> Versions \cup {0}] /\ vector' \in [Places -> Versions \cup {0}]
  <2>1. Unindexed(t, op[t].out)
    BY <1>1 DEF InstallCleans, RollbackUnindexes, RemoveCleans
  <2>2. /\ Unput(keyword, op[t].out) \in [Places -> Versions \cup {0}]
        /\ Unput(vector, op[t].out) \in [Places -> Versions \cup {0}]
    BY DEF Unput, TypeOK
  <2>. QED
    BY <2>1, <2>2 DEF Unindexed, TypeOK
<1>2. ASSUME NEW t \in Tabs, InstallHooks(t) \/ RollbackIndexes(t)
      PROVE  keyword' \in [Places -> Versions \cup {0}] /\ vector' \in [Places -> Versions \cup {0}]
  <2>1. op[t].key \in Versioned
    BY <1>2, Shapes DEF InstallHooks, RollbackIndexes
  <2>2. Put(keyword, op[t].key) \in [Places -> Versions \cup {0}]
    BY <2>1, IndexUpdate DEF TypeOK
  <2>. QED
    BY <1>2, <2>2 DEF InstallHooks, RollbackIndexes, TypeOK
<1>3. ASSUME NEW t \in Tabs, PassStores(t)
      PROVE  keyword' \in [Places -> Versions \cup {0}] /\ vector' \in [Places -> Versions \cup {0}]
  <2>1. pass[t].at.key \in Versioned
    BY <1>3 DEF PassStores, Underway, Seen
  <2>2. Put(vector, pass[t].at.key) \in [Places -> Versions \cup {0}]
    BY <2>1, IndexUpdate DEF TypeOK
  <2>. QED
    BY <1>3, <2>2 DEF PassStores, TypeOK
<1>4. ASSUME NEW t \in Tabs, HealthChecks(t)
      PROVE  keyword' \in [Places -> Versions \cup {0}] /\ vector' \in [Places -> Versions \cup {0}]
  <2>1. PICK r \in health[t].todo : keyword' = Put(keyword, r.key) \/ keyword' = keyword
    BY <1>4 DEF HealthChecks
  <2>2. r.key \in Versioned
    BY DEF TypeOK, Health, Seen
  <2>3. Put(keyword, r.key) \in [Places -> Versions \cup {0}]
    BY <2>2, IndexUpdate DEF TypeOK
  <2>. QED
    BY <1>4, <2>1, <2>3 DEF HealthChecks, TypeOK
<1>5. CASE UNCHANGED indexes
  BY <1>5 DEF indexes, TypeOK
<1>. QED
  BY <1>1, <1>2, <1>3, <1>4, <1>5, IndexesStays
     DEF Next, Proceeds, Embeds, Heals

\* A sweep has directories.
LEMMA StepSweep ==
    ASSUME TypeOK, [Next]_vars
    PROVE  sweep' \in [Tabs -> (SUBSET Dirs) \cup {None}]
<1>1. ASSUME NEW t \in Tabs, SweepLists(t)
      PROVE  sweep' \in [Tabs -> (SUBSET Dirs) \cup {None}]
  BY <1>1 DEF SweepLists, TypeOK
<1>2. ASSUME NEW t \in Tabs, NEW p \in Packs, SweepPack(t, p)
      PROVE  sweep' \in [Tabs -> (SUBSET Dirs) \cup {None}]
  <2>1. sweep[t] \in SUBSET Dirs
    BY <1>2 DEF SweepPack, TypeOK
  <2>. QED
    BY <1>2, <2>1 DEF SweepPack, TypeOK
<1>3. ASSUME NEW t \in Tabs, Crash(t)
      PROVE  sweep' \in [Tabs -> (SUBSET Dirs) \cup {None}]
  BY <1>3 DEF Crash, TypeOK
<1>4. CASE UNCHANGED sweep
  BY <1>4 DEF TypeOK
<1>. QED
  BY <1>1, <1>2, <1>3, <1>4, SweepStays DEF Next, Proceeds, Embeds, Heals

\* The registry keeps its type.
LEMMA StepRowTypes ==
    ASSUME IInv, [Next]_vars
    PROVE  rows' \in [Versioned -> Row \cup {None}]
<1>. USE Shapes DEF IInv
<1>1. ASSUME NEW t \in Tabs, NEW p \in Packs, NEW v \in Versions, BeginInstall(t, p, v)
      PROVE  rows' \in [Versioned -> Row \cup {None}]
  BY <1>1, BeginEffect DEF Begun
<1>2. ASSUME NEW t \in Tabs, InstallWritten(t)
      PROVE  rows' \in [Versioned -> Row \cup {None}]
  BY <1>2, WrittenEffect DEF Wrote
<1>3. ASSUME NEW t \in Tabs, InstallFails(t) \/ InstallCleans(t) \/ RemoveCleans(t)
      PROVE  rows' \in [Versioned -> Row \cup {None}]
  BY <1>3, RemovalEffect
<1>4. ASSUME NEW t \in Tabs, InstallCommits(t)
      PROVE  rows' \in [Versioned -> Row \cup {None}]
  <2>1. PICK d \in Dirs : Committed(t, d)
    BY <1>4, CommitEffect
  <2>. QED
    BY <2>1 DEF Committed
<1>5. ASSUME NEW t \in Tabs,
           \/ InstallHooks(t) \/ RollbackUnindexes(t) \/ RollbackMarks(t)
           \/ RollbackIndexes(t) \/ PassMarks(t) \/ HealthMarks(t)
      PROVE  rows' \in [Versioned -> Row \cup {None}]
  BY <1>5, LateFiles
<1>6. ASSUME NEW t \in Tabs, NEW k \in Versioned, Rollback(t, k)
      PROVE  rows' \in [Versioned -> Row \cup {None}]
  <2>1. RolledBack(t, k)
    BY <1>6, RollbackEffect
  <2>. QED
    BY <2>1 DEF RolledBack
<1>7. ASSUME NEW t \in Tabs, NEW k \in Versioned, NEW ks \in Removals(k), Remove(t, k, ks)
      PROVE  rows' \in [Versioned -> Row \cup {None}]
  BY <1>7 DEF Remove
<1>8. ASSUME NEW t \in Tabs, Crash(t)
      PROVE  rows' \in [Versioned -> Row \cup {None}]
  BY <1>8, CrashEffect
<1>9. ASSUME NEW t \in Tabs, NEW p \in Packs, SweepPack(t, p)
      PROVE  rows' \in [Versioned -> Row \cup {None}]
  BY <1>9, SweepEffect
<1>10. ASSUME Quiet
      PROVE  rows' \in [Versioned -> Row \cup {None}]
  BY <1>10 DEF Quiet, stored
<1>. QED
  BY <1>1, <1>2, <1>3, <1>4, <1>5, <1>6, <1>7, <1>8, <1>9, <1>10, QuietSteps
     DEF Next, Proceeds, Embeds, Heals

\* The file store keeps its type.
LEMMA StepDirTypes ==
    ASSUME IInv, [Next]_vars
    PROVE  dirs' \in [Dirs -> Dir \cup {None}]
<1>. USE Shapes DEF IInv
<1>1. ASSUME NEW t \in Tabs, NEW p \in Packs, NEW v \in Versions, BeginInstall(t, p, v)
      PROVE  dirs' \in [Dirs -> Dir \cup {None}]
  <2>1. [of |-> <<p, v>>, whole |-> FALSE] \in Dir
    BY DEF Dir, Versioned
  <2>. QED
    BY <1>1, <2>1 DEF BeginInstall
<1>2. ASSUME NEW t \in Tabs, InstallWritten(t)
      PROVE  dirs' \in [Dirs -> Dir \cup {None}]
  <2>1. op[t] \in Op /\ op[t].key \in Versioned
    BY <1>2 DEF InstallWritten
  <2>2. [of |-> op[t].key, whole |-> TRUE] \in Dir /\ [of |-> op[t].key, whole |-> FALSE] \in Dir
    BY <2>1 DEF Dir
  <2>3. DOMAIN dirs' = Dirs /\ dirs' = [d \in Dirs |-> dirs'[d]]
    BY <1>2 DEF InstallWritten
  <2>4. \A d \in Dirs : dirs'[d] \in Dir \cup {None}
    BY <1>2, <2>2, WrittenEffect DEF Wrote
  <2>. QED
    BY <2>3, <2>4
<1>3. ASSUME NEW t \in Tabs, InstallFails(t) \/ InstallCleans(t) \/ RemoveCleans(t)
      PROVE  dirs' \in [Dirs -> Dir \cup {None}]
  BY <1>3, RemovalEffect
<1>4. ASSUME NEW t \in Tabs, InstallCommits(t)
      PROVE  dirs' \in [Dirs -> Dir \cup {None}]
  BY <1>4, CommitOps DEF CommitSteps
<1>5. ASSUME NEW t \in Tabs,
           \/ InstallHooks(t) \/ RollbackUnindexes(t) \/ RollbackMarks(t)
           \/ RollbackIndexes(t) \/ PassMarks(t) \/ HealthMarks(t)
      PROVE  dirs' \in [Dirs -> Dir \cup {None}]
  BY <1>5, LateFiles
<1>6. ASSUME NEW t \in Tabs, NEW k \in Versioned, Rollback(t, k)
      PROVE  dirs' \in [Dirs -> Dir \cup {None}]
  <2>1. RolledBack(t, k)
    BY <1>6, RollbackEffect
  <2>. QED
    BY <2>1 DEF RolledBack
<1>7. ASSUME NEW t \in Tabs, NEW k \in Versioned, NEW ks \in Removals(k), Remove(t, k, ks)
      PROVE  dirs' \in [Dirs -> Dir \cup {None}]
  BY <1>7, RemoveEffect
<1>8. ASSUME NEW t \in Tabs, Crash(t)
      PROVE  dirs' \in [Dirs -> Dir \cup {None}]
  BY <1>8, CrashEffect
<1>9. ASSUME NEW t \in Tabs, NEW p \in Packs, SweepPack(t, p)
      PROVE  dirs' \in [Dirs -> Dir \cup {None}]
  BY <1>9 DEF SweepPack
<1>10. ASSUME Quiet
      PROVE  dirs' \in [Dirs -> Dir \cup {None}]
  BY <1>10 DEF Quiet, stored
<1>. QED
  BY <1>1, <1>2, <1>3, <1>4, <1>5, <1>6, <1>7, <1>8, <1>9, <1>10, QuietSteps
     DEF Next, Proceeds, Embeds, Heals

\* Requests are counted, and locks have holders.
LEMMA StepLockTypes ==
    ASSUME IInv, [Next]_vars
    PROVE  requests' \in 0..MaxRequests /\ lock' \in [Packs -> Tabs \cup {Free}]
<1>. USE Shapes DEF IInv
<1>1. ASSUME NEW t \in Tabs, NEW p \in Packs, NEW v \in Versions, BeginInstall(t, p, v)
      PROVE  requests' \in 0..MaxRequests /\ lock' \in [Packs -> Tabs \cup {Free}]
  BY <1>1, BoundsAssumption DEF BeginInstall, Requested, TypeOK
<1>2. ASSUME NEW t \in Tabs, InstallWritten(t)
      PROVE  requests' \in 0..MaxRequests /\ lock' \in [Packs -> Tabs \cup {Free}]
  BY <1>2, WrittenEffect DEF Wrote
<1>3. ASSUME NEW t \in Tabs, InstallFails(t) \/ InstallCleans(t) \/ RemoveCleans(t)
      PROVE  requests' \in 0..MaxRequests /\ lock' \in [Packs -> Tabs \cup {Free}]
  BY <1>3, RemovalEffect
<1>4. ASSUME NEW t \in Tabs, InstallCommits(t)
      PROVE  requests' \in 0..MaxRequests /\ lock' \in [Packs -> Tabs \cup {Free}]
  BY <1>4, CommitOps DEF CommitSteps
<1>5. ASSUME NEW t \in Tabs,
           \/ InstallHooks(t) \/ RollbackUnindexes(t) \/ RollbackMarks(t)
           \/ RollbackIndexes(t) \/ PassMarks(t) \/ HealthMarks(t)
      PROVE  requests' \in 0..MaxRequests /\ lock' \in [Packs -> Tabs \cup {Free}]
  BY <1>5, LateFiles
<1>6. ASSUME NEW t \in Tabs, NEW k \in Versioned, Rollback(t, k)
      PROVE  requests' \in 0..MaxRequests /\ lock' \in [Packs -> Tabs \cup {Free}]
  <2>1. RolledBack(t, k)
    BY <1>6, RollbackEffect
  <2>. QED
    BY <2>1 DEF RolledBack
<1>7. ASSUME NEW t \in Tabs, NEW k \in Versioned, NEW ks \in Removals(k), Remove(t, k, ks)
      PROVE  requests' \in 0..MaxRequests /\ lock' \in [Packs -> Tabs \cup {Free}]
  BY <1>7, BoundsAssumption DEF Remove, Requested, TypeOK
<1>8. ASSUME NEW t \in Tabs, Crash(t)
      PROVE  requests' \in 0..MaxRequests /\ lock' \in [Packs -> Tabs \cup {Free}]
  <2>1. lock' \in [Packs -> Tabs \cup {Free}]
    BY <1>8 DEF Crash
  <2>. QED
    BY <1>8, <2>1, CrashEffect
<1>9. ASSUME NEW t \in Tabs, NEW p \in Packs, SweepPack(t, p)
      PROVE  requests' \in 0..MaxRequests /\ lock' \in [Packs -> Tabs \cup {Free}]
  BY <1>9, SweepEffect
<1>10. ASSUME Quiet
      PROVE  requests' \in 0..MaxRequests /\ lock' \in [Packs -> Tabs \cup {Free}]
  BY <1>10 DEF Quiet, stored
<1>. QED
  BY <1>1, <1>2, <1>3, <1>4, <1>5, <1>6, <1>7, <1>8, <1>9, <1>10, QuietSteps
     DEF Next, Proceeds, Embeds, Heals

\* Faults are counted, and a model is loaded or not.
LEMMA StepRest ==
    ASSUME TypeOK, [Next]_vars
    PROVE  faults' \in 0..MaxFaults /\ ready' \in [Tabs -> BOOLEAN]
<1>1. faults' = faults \/ Faulty
  <2>1. ASSUME NEW t \in Tabs, Proceeds(t)
        PROVE  faults' = faults \/ Faulty
    BY <2>1 DEF Proceeds, InstallWritten, InstallFails, InstallCommits, InstallCleans, InstallHooks,
       RollbackUnindexes, RollbackMarks, RollbackIndexes, RemoveCleans, RemoveDirs
  <2>2. ASSUME NEW t \in Tabs, Embeds(t) \/ Heals(t)
        PROVE  faults' = faults \/ Faulty
    BY <2>2 DEF Embeds, PassLists, PassTakes, PassStores, PassMarks, PassEnds, PassFails,
       Heals, HealthLists, HealthChecks, HealthMarks, HealthEnds
  <2>3. ASSUME NEW t \in Tabs,
               \/ \E p \in Packs, v \in Versions : BeginInstall(t, p, v)
               \/ \E k \in Versioned : Rollback(t, k) \/ \E ks \in Removals(k) : Remove(t, k, ks)
               \/ SweepLists(t) \/ \E p \in Packs : SweepPack(t, p)
               \/ ModelLoaded(t) \/ Boot(t) \/ Crash(t)
        PROVE  faults' = faults \/ Faulty
    BY <2>3 DEF BeginInstall, Rollback, Remove, SweepLists, SweepPack, ModelLoaded, Boot, Crash
  <2>. QED
    BY <2>1, <2>2, <2>3 DEF Next, vars
<1>2. ready' = ready \/ \E t \in Tabs, b \in BOOLEAN : ready' = [ready EXCEPT ![t] = b]
  <2>1. ASSUME NEW t \in Tabs, Proceeds(t)
        PROVE  ready' = ready
    BY <2>1 DEF Proceeds, InstallWritten, InstallFails, InstallCommits, InstallCleans, InstallHooks,
       RollbackUnindexes, RollbackMarks, RollbackIndexes, RemoveCleans
  <2>2. ASSUME NEW t \in Tabs, Embeds(t) \/ Heals(t)
        PROVE  ready' = ready
    BY <2>2 DEF Embeds, PassLists, PassTakes, PassStores, PassMarks, PassEnds, PassFails,
       Heals, HealthLists, HealthChecks, HealthMarks, HealthEnds
  <2>3. ASSUME NEW t \in Tabs,
               \/ \E p \in Packs, v \in Versions : BeginInstall(t, p, v)
               \/ \E k \in Versioned : Rollback(t, k) \/ \E ks \in Removals(k) : Remove(t, k, ks)
               \/ SweepLists(t) \/ \E p \in Packs : SweepPack(t, p)
               \/ Boot(t)
        PROVE  ready' = ready
    BY <2>3 DEF BeginInstall, Rollback, Remove, SweepLists, SweepPack, Boot
  <2>4. ASSUME NEW t \in Tabs, ModelLoaded(t) \/ Crash(t)
        PROVE  \E b \in BOOLEAN : ready' = [ready EXCEPT ![t] = b]
    BY <2>4 DEF ModelLoaded, Crash
  <2>. QED
    BY <2>1, <2>2, <2>3, <2>4 DEF Next, vars
<1>. QED
  BY <1>1, <1>2, BoundsAssumption DEF TypeOK, Faulty

\* Every step keeps the types, and a pass that embeds its version.
LEMMA StepType ==
    ASSUME IInv, [Next]_vars
    PROVE  TypeOK' /\ Underway'
  BY StepOp, StepPass, StepHealth, StepIndexes, StepSweep, StepRowTypes, StepDirTypes,
     StepLockTypes, StepRest DEF IInv, TypeOK

-----------------------------------------------------------------------------
(* The theorems.                                                           *)

\* At the start nothing is installed and nothing is under way.
LEMMA InitInv == Init => IInv
<1>. SUFFICES ASSUME Init
              PROVE  IInv
  OBVIOUS
<1>1. NoPass \in Pass /\ NoHealth \in Health
  BY DEF NoPass, Pass, NoHealth, Health
<1>2. TypeOK
  BY <1>1, BoundsAssumption DEF Init, TypeOK
<1>3. Underway
  BY DEF Init, Underway, NoPass
<1>4. Locked /\ Owned /\ Kept /\ Current
  BY DEF Init, Locked, Owned, Kept, Current, At
<1>5. Fresh /\ OneActive /\ RowsHaveFiles
  BY DEF Init, Fresh, OneActive, Active, RowsHaveFiles, Installed
<1>. QED
  BY <1>2, <1>3, <1>4, <1>5 DEF IInv

\* Every step of any tab keeps the invariant.
LEMMA StepInv ==
    ASSUME Independent, IInv, [Next]_vars
    PROVE  IInv'
  BY StepType, StepLocked, StepFresh, StepOwned, StepKept, StepCurrent, StepOneActive,
     StepRows DEF IInv

\* The invariant holds in every reachable state.
LEMMA InvHolds == Independent => (Spec => []IInv)
<1>. SUFFICES ASSUME Independent
              PROVE  Spec => []IInv
  OBVIOUS
<1>1. ASSUME IInv, [Next]_vars
      PROVE  IInv'
  BY <1>1, StepInv
<1>. QED
  BY <1>1, InitInv, PTL DEF Spec

\* The types hold in every reachable state.
THEOREM TypeInvariant == Independent => (Spec => []TypeOK)
<1>1. IInv => TypeOK
  BY DEF IInv
<1>. QED
  BY <1>1, InvHolds, PTL

\* However the tabs' installs, rollbacks and removals interleave, and whichever
\* of them die, no pack ever has two active versions.
THEOREM OneVersionActive == Independent => (Spec => []OneActive)
<1>1. IInv => OneActive
  BY DEF IInv
<1>. QED
  BY <1>1, InvHolds, PTL

\* No version is ever in the registry without all its files: no sweep, clean-up,
\* replacement or removal of any tab takes away what another one records.
THEOREM RowsKeepTheirFiles == Independent => (Spec => []RowsHaveFiles)
<1>1. IInv => RowsHaveFiles
  BY DEF IInv
<1>. QED
  BY <1>1, InvHolds, PTL

=============================================================================
