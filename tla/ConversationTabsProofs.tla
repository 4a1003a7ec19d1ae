------------------------ MODULE ConversationTabsProofs ------------------------
(***************************************************************************)
(* What ConversationTabs guarantees for all tabs, profiles and bounds,     *)
(* whoever acts in a tab that a clear has overtaken (MaxLate) and whatever *)
(* an older build has left (Scope).                                        *)
(***************************************************************************)
EXTENDS ConversationTabs, TLAPS

\* A document has a profile, and a tab that is down has nothing at all; what it
\* adopts, it adopts before anything else.
Placed == \A t \in Tabs :
    /\ adopt[t] # Nothing => place[t] = "starting"
    /\ IF place[t] = "down"
       THEN /\ profile[t] = Nothing /\ view[t] = Nothing /\ turn[t] = Nothing
            /\ saves[t] = {} /\ bound[t] = 0 /\ notices[t] = 0 /\ job[t] = Nothing
       ELSE profile[t] \in Profiles

\* A turn holds the lock in shared mode unless it was sent without, a clear or a
\* replay in exclusive mode, and the two modes exclude each other.
Locked ==
    /\ \A t \in Tabs : turn[t] # Nothing => t \in shared \/ ~turn[t].held
    /\ \A t \in Tabs : job[t] # Nothing => exclusive = t
    /\ exclusive # NoTab => shared = {}

\* A clear that has not counted its goal yet has an epoch left to count.
Countable == \A t \in Tabs :
    job[t] # Nothing /\ job[t].step = "held" => epoch[job[t].profile] < MaxEpoch

\* What tab t would still write: text of this epoch, or a save of an older one;
\* and its turn was sent with the lock.
FreshIn(t) ==
    /\ bound[t] <= Current(t)
    /\ view[t] # Nothing => view[t] <= Current(t)
    /\ turn[t] # Nothing => /\ turn[t].age = Current(t) /\ turn[t].held
                            /\ view[t] \in {Nothing, Current(t)}
    /\ \A s \in saves[t] : s.epoch <= Current(t)
                              /\ (s.epoch = Current(t) => s.age = Current(t))

Fresh == \A t \in Tabs : place[t] # "down" => FreshIn(t)

FreshRows == \A p \in Profiles : rows[p] \subseteq {epoch[p]}

IInv ==
    /\ TypeOK /\ Placed /\ Locked /\ Countable
    /\ Unspoilt => Fresh /\ FreshRows

\* Exclusive work is done under the record: its clear is the pending one, no
\* completed goal covers it, and once applied its database has seen it.  Only a
\* booting document replays at boot.
Recorded == \A t \in Tabs : job[t] # Nothing =>
    /\ job[t].kind = "boot" => place[t] = "booting"
    /\ job[t].step # "held" =>
           /\ pending = [profile |-> job[t].profile, goal |-> job[t].goal]
           /\ completed[job[t].profile] < job[t].goal
    /\ job[t].step = "applied" => job[t].goal <= epoch[job[t].profile]

\* The record never runs ahead of a database.
CompletedBehind == \A p \in Profiles : completed[p] <= epoch[p]

\* Cleared text on a screen: its event is under way, or the record owes one.
Told == \A t \in Tabs : Stale(t) => notices[t] > 0 \/ ReplayDue

NoticeInv == IInv /\ Recorded /\ CompletedBehind /\ (Unspoilt => Told)

-----------------------------------------------------------------------------
(* What the operators of the actions yield.                                *)

\* A document's current epoch is an epoch.
LEMMA CurrentType ==
    ASSUME TypeOK, Placed, NEW t \in Tabs, place[t] # "down"
    PROVE  /\ Current(t) \in Epochs
           /\ profile[t] \in Profiles
  BY DEF TypeOK, TabsTypeOK, Placed, Current

\* The transaction of a clear brings its database to the clear's goal, or finds
\* it there; it empties what it brings on.
LEMMA ApplyGoesOn ==
    ASSUME TypeOK, NEW t \in Tabs, Apply(t)
    PROVE  /\ \A q \in Profiles : epoch[q] \in Int /\ epoch'[q] \in Int /\ epoch[q] <= epoch'[q]
           /\ \A q \in Profiles : (epoch'[q] = epoch[q] /\ rows'[q] = rows[q]) \/ rows'[q] = {}
           /\ job[t].goal <= epoch'[job[t].profile]
<1> DEFINE p == job[t].profile
<1>1. p \in Profiles /\ job[t].goal \in Int /\ \A q \in Profiles : epoch[q] \in Int
  BY BoundsAssumption DEF Apply, TypeOK, TabsTypeOK, Epochs
<1>2. CASE Behind(p, job[t].goal)
  <2>1. epoch' = [epoch EXCEPT ![p] = job[t].goal] /\ rows' = [rows EXCEPT ![p] = {}]
    BY <1>2 DEF Apply
  <2>2. /\ epoch'[p] = job[t].goal /\ rows'[p] = {}
        /\ \A q \in Profiles \ {p} : epoch'[q] = epoch[q] /\ rows'[q] = rows[q]
    BY <1>1, <2>1 DEF TypeOK, TabsTypeOK
  <2>3. epoch[p] <= job[t].goal
    BY <1>1, <1>2 DEF Behind
  <2> HIDE DEF p
  <2>4. ASSUME NEW q \in Profiles
        PROVE  /\ epoch'[q] \in Int /\ epoch[q] <= epoch'[q]
               /\ (epoch'[q] = epoch[q] /\ rows'[q] = rows[q]) \/ rows'[q] = {}
    <3>1. CASE q = p
      BY <1>1, <2>2, <2>3, <3>1
    <3>2. CASE q # p
      BY <1>1, <2>2, <3>2
    <3> QED
      BY <3>1, <3>2
  <2> QED
    BY <1>1, <2>2, <2>4 DEF p
<1>3. CASE ~Behind(p, job[t].goal)
  <2>1. epoch' = epoch /\ rows' = rows
    BY <1>3 DEF Apply, stores
  <2>2. job[t].goal <= epoch[p]
    BY <1>1, <1>3 DEF Behind
  <2> QED
    BY <1>1, <2>1, <2>2
<1> QED
  BY <1>2, <1>3

\* Saves stay well typed when one of some epoch and age is added.
LEMMA SaveType ==
    ASSUME TypeOK, NEW t \in Tabs, NEW e \in Epochs, NEW a \in Epochs,
           NEW first \in BOOLEAN
    PROVE  Save(t, e, a, first) \in
             [Tabs -> SUBSET [epoch: Epochs, age: Epochs, first: BOOLEAN]]
  BY DEF TypeOK, TabsTypeOK, Save

\* The same for what a finished or abandoned turn leaves to save, if anything.
LEMMA SaveKeptType ==
    ASSUME TypeOK, NEW t \in Tabs, turn[t] # Nothing, NEW e \in Epochs,
           NEW a \in Kept(t), SaveKept(t, e, a)
    PROVE  /\ a \in Ages
           /\ saves' \in [Tabs -> SUBSET [epoch: Epochs, age: Epochs, first:
                 BOOLEAN]]
<1>1. a \in Ages
  BY DEF TypeOK, TabsTypeOK, Kept, Ages
<1>2. CASE a = Nothing
  BY <1>2, <1>1 DEF SaveKept, TypeOK, TabsTypeOK
<1>3. CASE a # Nothing
  <2>1. a \in Epochs
    BY <1>1, <1>3 DEF Ages
  <2>. QED
    BY <1>1, <1>3, <2>1, SaveType DEF SaveKept
<1>. QED
  BY <1>2, <1>3

\* Leaving a turn keeps turns and saves well typed.
LEMMA LeaveTurnType ==
    ASSUME TypeOK, Placed, NEW t \in Tabs, place[t] # "down", LeaveTurn(t)
    PROVE  /\ turn' \in [Tabs -> [age: Epochs, sending: BOOLEAN, held: BOOLEAN]
                          \cup {Nothing}]
           /\ saves' \in [Tabs -> SUBSET [epoch: Epochs, age: Epochs, first:
                 BOOLEAN]]
<1>1. CASE Streaming(t)
  <2>1. PICK a \in Kept(t) : SaveKept(t, Current(t), a)
    BY <1>1 DEF LeaveTurn
  <2>2. turn' = [turn EXCEPT ![t] = Nothing]
    BY <1>1 DEF LeaveTurn
  <2>3. turn[t] # Nothing
    BY <1>1 DEF Streaming
  <2>. QED
    BY <2>1, <2>2, <2>3, CurrentType, SaveKeptType DEF TypeOK, TabsTypeOK
<1>2. CASE ~Streaming(t)
  BY <1>2 DEF LeaveTurn, TypeOK, TabsTypeOK
<1>. QED
  BY <1>1, <1>2

\* The ends of a document keep home and the count of cuts well typed.
LEMMA GoneType ==
    ASSUME TypeOK, NEW t \in Tabs,
           Close(t) \/ Die(t) \/ \E p \in Profiles : Switch(t, p)
    PROVE  Gone(t) /\ home' \in Profiles /\ cuts' \in 0..MaxCuts
  BY BoundsAssumption DEF Close, Die, Switch, TypeOK, TabsTypeOK

\* An adoption touches the conversations of its profile and the older ones; its
\* tab was starting, and may go on with its boot.
LEMMA AdoptsLeave ==
    ASSUME TypeOK, Placed, NEW t \in Tabs, Adopts(t)
    PROVE  /\ UNCHANGED <<epoch, record, home, locks, profile, screen, turn, saves,
                          job, notices, armed, cuts>>
           /\ place[t] = "starting"
           /\ place' = place \/ place' = [place EXCEPT ![t] = "booting"]
  BY DEF Adopts, AdoptBegins, AdoptsNothing, AdoptFails, AdoptCopies, AdoptMarks,
         AdoptDeletes, Placed, stores

\* What it adds to a profile is of an epoch, and of the current one unless it
\* adopts again.
LEMMA AdoptedRows ==
    ASSUME TypeOK, Placed, NEW t \in Tabs, Adopts(t)
    PROVE  \/ rows' = rows
           \/ \E p \in Profiles, a \in Epochs :
                 /\ rows' = [rows EXCEPT ![p] = @ \cup {a}]
                 /\ ~readopted' => a = epoch[p]
<1>1. CASE AdoptCopies(t)
  <2>1. adopt[t].target \in Profiles /\ AgeCopied(adopt[t].target) \in Epochs
    BY <1>1 DEF AdoptCopies, AgeCopied, TypeOK, TabsTypeOK, OlderTypeOK, Ages
  <2>. QED
    BY <1>1, <2>1 DEF AdoptCopies
<1>2. CASE ~AdoptCopies(t)
  BY <1>2 DEF Adopts, AdoptBegins, AdoptsNothing, AdoptFails, AdoptMarks,
       AdoptDeletes, stores
<1>. QED
  BY <1>1, <1>2

\* Whatever spoils a clear stays; and a person has not acted too late in a step
\* that leaves it unspoilt.
LEMMA StaysSpoilt ==
    ASSUME TypeOK, [Next]_vars, Unspoilt'
    PROVE  /\ Unspoilt
           /\ \A t \in Tabs : User(t) => ~Overtaken(t)
<1>1. late \in Nat /\ late' = 0 /\ ~readopted'
  BY BoundsAssumption DEF TypeOK, Unspoilt
<1>2. ASSUME NEW t \in Tabs, User(t) PROVE ~Overtaken(t) /\ Unspoilt
  <2>1. late' = IF Overtaken(t) THEN late + 1 ELSE late
    BY <1>2 DEF User
  <2>2. readopted' = readopted
    BY <1>2 DEF User, Send, NewChat, Select, Remove, Switch, Gone, older
  <2>. QED
    BY <1>1, <2>1, <2>2 DEF Unspoilt
<1>3. ASSUME NEW t \in Tabs, Idle(t) PROVE Unspoilt
  BY <1>1, <1>3 DEF Idle, IdleReplays, IdleClears, IdleStays, older, Unspoilt
<1>4. ASSUME NEW t \in Tabs, Work(t) PROVE Unspoilt
  <2>1. late' = late
    BY <1>4 DEF Work
  <2>2. CASE AdoptCopies(t)
    <3>1. readopted => readopted'
      BY <2>2 DEF AdoptCopies
    <3>. QED
      BY <1>1, <2>1, <3>1 DEF Unspoilt
  <2>3. CASE Adopts(t) /\ ~AdoptCopies(t)
    <3>1. readopted' = readopted
      BY <2>3 DEF Adopts, AdoptBegins, AdoptsNothing, AdoptFails, AdoptMarks,
           AdoptDeletes
    <3>. QED
      BY <1>1, <2>1, <3>1 DEF Unspoilt
  <2>4. CASE ~Adopts(t)
    <3>1. readopted' = readopted
      BY <1>4, <2>4 DEF Work, BootReplays, BootLoads, Land, Record, Apply,
           Complete, Notified, older
    <3>. QED
      BY <1>1, <2>1, <3>1 DEF Unspoilt
  <2>. QED
    BY <2>2, <2>3, <2>4
<1>5. ASSUME NEW t \in Tabs, Happens(t) PROVE Unspoilt
  BY <1>1, <1>5 DEF Happens, Boot, Finish, ApplyFails, Close, Die, Gone, older,
         Unspoilt
<1>6. ASSUME UNCHANGED vars PROVE Unspoilt
  BY <1>1, <1>6 DEF vars, Unspoilt
<1>. QED
  BY <1>2, <1>3, <1>4, <1>5, <1>6 DEF Next

-----------------------------------------------------------------------------
(* Every step keeps the parts of the invariant.                            *)

\* Every step keeps the types of the stores, the record, the locks and the tabs.
LEMMA StepTabsType ==
    ASSUME TypeOK, Placed, Countable, [Next]_vars
    PROVE  TabsTypeOK'
<1>1. ASSUME NEW t \in Tabs, Boot(t) PROVE TabsTypeOK'
  BY <1>1, NothingAssumption, BoundsAssumption
     DEF TypeOK, TabsTypeOK, Placed, Countable, Epochs, Ages, Current, stores,
         record, locks, Boot, Active, SharedWith
<1>2. ASSUME NEW t \in Tabs, BootReplays(t) PROVE TabsTypeOK'
  BY <1>2, NothingAssumption, BoundsAssumption
     DEF TypeOK, TabsTypeOK, Placed, Countable, Epochs, Ages, Current, stores,
         record, locks, BootReplays, ReplayDue, Quiet, screen
<1>3. ASSUME NEW t \in Tabs, BootLoads(t) PROVE TabsTypeOK'
  BY <1>3, NothingAssumption, BoundsAssumption
     DEF TypeOK, TabsTypeOK, Placed, Countable, Epochs, Ages, Current, stores,
         record, locks, BootLoads
<1>4. ASSUME NEW t \in Tabs, Send(t) PROVE TabsTypeOK'
  <2>1. place[t] # "down" /\ Current(t) \in Epochs /\ bound[t] \in Epochs
    BY <1>4, CurrentType DEF Send, UserAt, TypeOK, TabsTypeOK
  <2>2. AgeOnScreen(t) \in Epochs
    BY <2>1 DEF TypeOK, TabsTypeOK, AgeOnScreen, Ages
  <2>3. saves' \in [Tabs -> SUBSET [epoch: Epochs, age: Epochs, first: BOOLEAN]]
    BY <1>4, <2>1, <2>2, SaveType DEF Send
  <2>4. turn' \in [Tabs -> [age: Epochs, sending: BOOLEAN, held: BOOLEAN]
                            \cup {Nothing}]
    BY <1>4, <2>2 DEF Send, TypeOK, TabsTypeOK
  <2>. QED
    BY <1>4, <2>2, <2>3, <2>4
       DEF TypeOK, TabsTypeOK, Send, Active, SharedWith, stores, record, Ages
<1>5. ASSUME NEW t \in Tabs, NewChat(t) PROVE TabsTypeOK'
  <2>1. place[t] # "down" /\ Current(t) \in Epochs
    BY <1>5, CurrentType DEF NewChat, UserAt
  <2>. QED
    BY <1>5, <2>1, LeaveTurnType
       DEF TypeOK, TabsTypeOK, NewChat, Rebind, Active, SharedWith, stores,
           record, Ages
<1>6. ASSUME NEW t \in Tabs, NEW a \in Epochs, Select(t, a) PROVE TabsTypeOK'
  <2>1. place[t] # "down" /\ Current(t) \in Epochs
    BY <1>6, CurrentType DEF Select, UserAt
  <2>2. /\ turn' \in [Tabs -> [age: Epochs, sending: BOOLEAN, held: BOOLEAN]
                          \cup {Nothing}]
        /\ saves' \in [Tabs -> SUBSET [epoch: Epochs, age: Epochs, first:
              BOOLEAN]]
        /\ view' \in [Tabs -> Ages]
    BY <1>6, <2>1, LeaveTurnType DEF Select, TypeOK, TabsTypeOK, Ages
  <2>. QED
    BY <1>6, <2>1, <2>2
       DEF TypeOK, TabsTypeOK, Select, Rebind, Active, SharedWith, stores,
           record
<1>7. ASSUME NEW t \in Tabs, NEW a \in Epochs, Remove(t, a) PROVE TabsTypeOK'
  <2>1. profile[t] \in Profiles
    BY <1>7, CurrentType DEF Remove, UserAt
  <2>2. rows' \in [Profiles -> SUBSET Epochs] /\ listed' \in [Tabs -> SUBSET
        Epochs]
    BY <1>7, <2>1 DEF Remove, TypeOK, TabsTypeOK
  <2>3. view' \in [Tabs -> Ages]
    BY <1>7 DEF Remove, TypeOK, TabsTypeOK, Ages
  <2>. QED
    BY <1>7, <2>2, <2>3
       DEF TypeOK, TabsTypeOK, Remove, Active, SharedWith, record
<1>8. ASSUME NEW t \in Tabs, Finish(t) PROVE TabsTypeOK'
  <2>1. PICK a \in Kept(t) :
          /\ SaveKept(t, bound[t], a)
          /\ \E shown \in IF view[t] = Nothing THEN {Nothing, a} ELSE {view[t]}
                :
                 view' = [view EXCEPT ![t] = shown]
    BY <1>8 DEF Finish
  <2>2. turn[t] # Nothing /\ bound[t] \in Epochs
    BY <1>8 DEF Finish, Streaming, TypeOK, TabsTypeOK
  <2>3. /\ a \in Ages
        /\ saves' \in [Tabs -> SUBSET [epoch: Epochs, age: Epochs, first:
              BOOLEAN]]
    BY <2>1, <2>2, SaveKeptType
  <2>4. view' \in [Tabs -> Ages]
    BY <2>1, <2>3 DEF TypeOK, TabsTypeOK, Ages
  <2>. QED
    BY <1>8, <2>3, <2>4 DEF TypeOK, TabsTypeOK, Finish, stores, record, locks
<1>9. ASSUME NEW t \in Tabs, NEW s \in saves[t], Land(t, s) PROVE TabsTypeOK'
  <2>1. s \in [epoch: Epochs, age: Epochs, first: BOOLEAN] /\ profile[t] \in
        Profiles
    BY DEF TypeOK, TabsTypeOK, Placed
  <2>2. rows' \in [Profiles -> SUBSET Epochs]
    BY <1>9, <2>1 DEF Land, TypeOK, TabsTypeOK
  <2>3. listed' \in [Tabs -> SUBSET Epochs]
    BY <1>9, <2>1, <2>2 DEF Land, TypeOK, TabsTypeOK
  <2>4. turn' \in [Tabs -> [age: Epochs, sending: BOOLEAN, held: BOOLEAN]
                          \cup {Nothing}]
    BY <1>9 DEF Land, TypeOK, TabsTypeOK
  <2>5. saves' \in [Tabs -> SUBSET [epoch: Epochs, age: Epochs, first: BOOLEAN]]
    BY <1>9 DEF Land, TypeOK, TabsTypeOK
  <2>. QED
    BY <1>9, <2>2, <2>3, <2>4, <2>5 DEF TypeOK, TabsTypeOK, Land, record, locks
<1>10. ASSUME NEW t \in Tabs, IdleReplays(t) PROVE TabsTypeOK'
  BY <1>10, NothingAssumption, BoundsAssumption
     DEF TypeOK, TabsTypeOK, Placed, Countable, Epochs, Ages, Current, stores,
         record, locks, IdleReplays, IdleTab, ReplayDue, Quiet, screen
<1>11. ASSUME NEW t \in Tabs, IdleClears(t) PROVE TabsTypeOK'
  BY <1>11, NothingAssumption, BoundsAssumption
     DEF TypeOK, TabsTypeOK, Placed, Countable, Epochs, Ages, Current, stores,
         record, locks, IdleClears, IdleTab, QuietBut, screen, ClearsLeft
<1>12. ASSUME NEW t \in Tabs, IdleStays(t) PROVE TabsTypeOK'
  BY <1>12, NothingAssumption, BoundsAssumption
     DEF TypeOK, TabsTypeOK, Placed, Countable, Epochs, Ages, Current, stores,
         record, locks, IdleStays, SharedWith, screen
<1>13. ASSUME NEW t \in Tabs, Record(t) PROVE TabsTypeOK'
  BY <1>13, NothingAssumption, BoundsAssumption
     DEF TypeOK, TabsTypeOK, Placed, Countable, Epochs, Ages, Current, stores,
         record, locks, Record, Notify, HandlersRun
<1>14. ASSUME NEW t \in Tabs, Apply(t) PROVE TabsTypeOK'
  <2>1. job[t] \in [kind: {"clear", "replay", "boot"}, profile: Profiles,
                   goal: Epochs, step: {"held", "recorded", "applied"}]
    BY <1>14 DEF Apply, TypeOK, TabsTypeOK
  <2>2. epoch' \in [Profiles -> Epochs] /\ rows' \in [Profiles -> SUBSET Epochs]
    BY <1>14, <2>1 DEF Apply, TypeOK, TabsTypeOK, stores
  <2>3. [job[t] EXCEPT !.step = "applied"] \in
            [kind: {"clear", "replay", "boot"}, profile: Profiles,
             goal: Epochs, step: {"held", "recorded", "applied"}]
    BY <2>1
  <2>4. job' = [job EXCEPT ![t] = [job[t] EXCEPT !.step = "applied"]]
    BY <1>14 DEF Apply
  <2>5. job' \in [Tabs -> {Nothing} \cup
                  [kind: {"clear", "replay", "boot"}, profile: Profiles,
                   goal: Epochs, step: {"held", "recorded", "applied"}]]
    BY <2>3, <2>4 DEF TypeOK, TabsTypeOK
  <2>6. UNCHANGED <<record, home, locks, place, profile, screen, turn, saves,
                    notices, armed, cuts>>
    BY <1>14 DEF Apply
  <2> QED
    BY <2>2, <2>5, <2>6 DEF TypeOK, TabsTypeOK, record, locks, screen
<1>15. ASSUME NEW t \in Tabs, Complete(t) PROVE TabsTypeOK'
  <2>1. Current(t) \in Epochs
    BY <1>15, CurrentType DEF Complete, Placed
  <2>2. job[t].goal \in Epochs /\ job[t].profile \in Profiles
    BY <1>15 DEF Complete, TypeOK, TabsTypeOK
  <2>3. completed' \in [Profiles -> Epochs] /\ notices' \in [Tabs -> Nat]
    BY <1>15, <2>2 DEF Complete, Notify, TypeOK, TabsTypeOK
  <2>4. bound' \in [Tabs -> Epochs] /\ view' \in [Tabs -> Ages]
        /\ listed' \in [Tabs -> SUBSET Epochs] /\ armed' \in [Tabs -> BOOLEAN]
        /\ turn' \in [Tabs -> [age: Epochs, sending: BOOLEAN, held: BOOLEAN]
                          \cup {Nothing}]
    BY <1>15, <2>1
       DEF Complete, ResetTab, HandlersRun, Rebind, TypeOK, TabsTypeOK, Ages,
           screen
  <2>. QED
    BY <1>15, <2>3, <2>4 DEF TypeOK, TabsTypeOK, Complete, stores
<1>16. ASSUME NEW t \in Tabs, ApplyFails(t) PROVE TabsTypeOK'
  BY <1>16, NothingAssumption, BoundsAssumption
     DEF TypeOK, TabsTypeOK, Placed, Countable, Epochs, Ages, Current, stores,
         record, locks, ApplyFails, screen
<1>17. ASSUME NEW t \in Tabs, Notified(t) PROVE TabsTypeOK'
  BY <1>17, NothingAssumption, BoundsAssumption
     DEF TypeOK, TabsTypeOK, Placed, Countable, Epochs, Ages, Current, stores,
         record, locks, Notified, ResetTab, HandlersRun, Rebind
<1>18. ASSUME NEW t \in Tabs, Gone(t), home' \in Profiles, cuts' \in 0..MaxCuts
      PROVE TabsTypeOK'
  BY <1>18, NothingAssumption, BoundsAssumption
     DEF TypeOK, TabsTypeOK, Placed, Countable, Epochs, Ages, Current, stores,
         record, locks, Gone
<1>19. CASE UNCHANGED vars
  BY <1>19
     DEF TypeOK, TabsTypeOK, Placed, Countable, Epochs, Ages, Current, vars
<1>20. ASSUME NEW t \in Tabs, Close(t) \/ Die(t) \/ \E p \in Profiles :
      Switch(t, p)
      PROVE  TabsTypeOK'
  BY <1>18, <1>20, GoneType
<1>21. ASSUME NEW t \in Tabs, Adopts(t) PROVE TabsTypeOK'
  <2>1. rows' \in [Profiles -> SUBSET Epochs]
    BY <1>21, AdoptedRows DEF TypeOK, TabsTypeOK
  <2>. QED
    BY <1>21, <2>1, AdoptsLeave DEF TypeOK, TabsTypeOK, record, locks, screen
<1>. QED
  BY <1>1, <1>2, <1>3, <1>4, <1>5, <1>6, <1>7, <1>8, <1>9, <1>10, <1>11, <1>12,
      <1>13, <1>14, <1>15, <1>16, <1>17, <1>18, <1>19, <1>20, <1>21
     DEF Next, User, Idle, Work, Happens

\* Every step keeps the types of what an older build left.
LEMMA StepOlderType ==
    ASSUME TypeOK, [Next]_vars
    PROVE  OlderTypeOK'
<1> DEFINE Adoption == [target: Profiles, epoch: Epochs, first: BOOLEAN,
                        step: {"claimed", "copied", "marked"}]
           Claim == [target: Profiles, epoch: Epochs \cup {Nothing}]
<1>1. /\ legacy \in BOOLEAN /\ marker \in BOOLEAN /\ readopted \in BOOLEAN
      /\ claim \in Claim \cup {Nothing} /\ adopt \in [Tabs -> {Nothing} \cup Adoption]
      /\ copied \in [Profiles -> Ages] /\ home \in Profiles
      /\ epoch \in [Profiles -> Epochs]
  BY DEF TypeOK, TabsTypeOK, OlderTypeOK
<1>2. CASE UNCHANGED older
  BY <1>1, <1>2 DEF older, OlderTypeOK
<1>3. ASSUME NEW t \in Tabs, Gone(t) PROVE OlderTypeOK'
  BY <1>1, <1>3 DEF Gone, OlderTypeOK
<1>4. ASSUME NEW t \in Tabs, AdoptBegins(t) PROVE OlderTypeOK'
  <2> DEFINE e == IF marker THEN epoch[home] ELSE ClaimEpoch(home)
  <2>1. e \in Epochs
    BY <1>1 DEF ClaimEpoch
  <2>2. /\ adopt' = [adopt EXCEPT ![t] = [target |-> home, epoch |-> e,
                                          first |-> ~marker, step |-> "claimed"]]
        /\ claim' = IF marker THEN claim ELSE [target |-> home, epoch |-> e]
        /\ UNCHANGED <<legacy, marker, copied, readopted>>
    BY <1>4 DEF AdoptBegins
  <2> HIDE DEF e
  <2>. QED
    BY <1>1, <2>1, <2>2 DEF OlderTypeOK
<1>5. ASSUME NEW t \in Tabs, AdoptsNothing(t) PROVE OlderTypeOK'
  BY <1>1, <1>5 DEF AdoptsNothing, OlderTypeOK
<1>6. ASSUME NEW t \in Tabs, AdoptFails(t) PROVE OlderTypeOK'
  BY <1>1, <1>6 DEF AdoptFails, OlderTypeOK
<1>7. ASSUME NEW t \in Tabs, AdoptCopies(t) PROVE OlderTypeOK'
  <2>1. adopt[t] \in Adoption
    BY <1>1, <1>7 DEF AdoptCopies
  <2>2. /\ adopt' \in [Tabs -> {Nothing} \cup Adoption]
        /\ claim' \in Claim \cup {Nothing} /\ UNCHANGED <<legacy, marker>>
    BY <1>1, <1>7, <2>1 DEF AdoptCopies
  <2>3. copied' \in [Profiles -> Ages] /\ readopted' \in BOOLEAN
    BY <1>1, <1>7, <2>1 DEF AdoptCopies, AgeCopied, Ages
  <2>. QED
    BY <1>1, <2>2, <2>3 DEF OlderTypeOK
<1>8. ASSUME NEW t \in Tabs, AdoptMarks(t) PROVE OlderTypeOK'
  <2>1. adopt[t] \in Adoption
    BY <1>1, <1>8 DEF AdoptMarks
  <2>. QED
    BY <1>1, <1>8, <2>1 DEF AdoptMarks, OlderTypeOK
<1>9. ASSUME NEW t \in Tabs, AdoptDeletes(t) PROVE OlderTypeOK'
  BY <1>1, <1>9 DEF AdoptDeletes, OlderTypeOK, Ages
<1>10. ASSUME NEW t \in Tabs, User(t) PROVE OlderTypeOK'
  BY <1>2, <1>3, <1>10 DEF User, Send, NewChat, Select, Remove, Switch
<1>11. ASSUME NEW t \in Tabs, Idle(t) PROVE OlderTypeOK'
  BY <1>2, <1>11 DEF Idle, IdleReplays, IdleClears, IdleStays
<1>12. ASSUME NEW t \in Tabs, Work(t) PROVE OlderTypeOK'
  BY <1>2, <1>4, <1>5, <1>6, <1>7, <1>8, <1>9, <1>12
     DEF Work, Adopts, BootReplays, BootLoads, Land, Record, Apply, Complete,
         Notified
<1>13. ASSUME NEW t \in Tabs, Happens(t) PROVE OlderTypeOK'
  BY <1>2, <1>3, <1>13 DEF Happens, Boot, Finish, ApplyFails, Close, Die
<1>. QED
  BY <1>2, <1>10, <1>11, <1>12, <1>13 DEF Next, vars, older

\* People act late no more often than they may.
LEMMA StepLate ==
    ASSUME TypeOK, [Next]_vars
    PROVE  late' \in 0..MaxLate
<1>1. late \in 0..MaxLate
  BY DEF TypeOK
<1>2. ASSUME NEW t \in Tabs, User(t) PROVE late' \in 0..MaxLate
  <2>1. /\ late' = IF Overtaken(t) THEN late + 1 ELSE late
        /\ Overtaken(t) => late < MaxLate
    BY <1>2 DEF User, Send, NewChat, Select, Remove, Switch, UserAt
  <2>. QED
    BY <1>1, <2>1, BoundsAssumption
<1>3. ASSUME NEW t \in Tabs, ~User(t), Idle(t) \/ Work(t) \/ Happens(t)
      PROVE  late' \in 0..MaxLate
  BY <1>1, <1>3 DEF Idle, Work, Happens
<1>. QED
  BY <1>1, <1>2, <1>3 DEF Next, vars

\* So every step keeps every type.
LEMMA StepType ==
    ASSUME TypeOK, Placed, Countable, [Next]_vars
    PROVE  TypeOK'
  BY StepTabsType, StepOlderType, StepLate DEF TypeOK

\* A tab that is down has nothing in flight.
LEMMA StepPlaced ==
    ASSUME TypeOK, Placed, [Next]_vars
    PROVE  Placed'
<1>1. ASSUME NEW t \in Tabs, Boot(t) PROVE Placed'
  BY <1>1, NothingAssumption, BoundsAssumption
     DEF TypeOK, TabsTypeOK, Placed, Epochs, Ages, Current, stores, record,
         locks, Boot, Active, SharedWith, older, OlderTypeOK
<1>2. ASSUME NEW t \in Tabs, BootReplays(t) PROVE Placed'
  BY <1>2, NothingAssumption, BoundsAssumption
     DEF TypeOK, TabsTypeOK, Placed, Epochs, Ages, Current, stores, record,
         locks, BootReplays, ReplayDue, Quiet, screen, older, OlderTypeOK
<1>3. ASSUME NEW t \in Tabs, BootLoads(t) PROVE Placed'
  BY <1>3, NothingAssumption, BoundsAssumption
     DEF TypeOK, TabsTypeOK, Placed, Epochs, Ages, Current, stores, record,
         locks, BootLoads, older, OlderTypeOK
<1>4. ASSUME NEW t \in Tabs, Send(t) PROVE Placed'
  BY <1>4, NothingAssumption, BoundsAssumption
     DEF TypeOK, TabsTypeOK, Placed, Epochs, Ages, Current, stores, record,
         locks, Send, UserAt, Stale, Active, SharedWith, Save, AgeOnScreen,
         older, OlderTypeOK
<1>5. ASSUME NEW t \in Tabs, NewChat(t) PROVE Placed'
  BY <1>5, NothingAssumption, BoundsAssumption
     DEF TypeOK, TabsTypeOK, Placed, Epochs, Ages, Current, stores, record,
         locks, NewChat, UserAt, Stale, Active, SharedWith, LeaveTurn, Rebind,
         Kept, Streaming, SaveKept, Save, older, OlderTypeOK
<1>6. ASSUME NEW t \in Tabs, NEW a \in Epochs, Select(t, a) PROVE Placed'
  BY <1>6, NothingAssumption, BoundsAssumption
     DEF TypeOK, TabsTypeOK, Placed, Epochs, Ages, Current, stores, record,
         locks, Select, UserAt, Stale, Active, SharedWith, LeaveTurn, Rebind,
         Kept, Streaming, SaveKept, Save, older, OlderTypeOK
<1>7. ASSUME NEW t \in Tabs, NEW a \in Epochs, Remove(t, a) PROVE Placed'
  BY <1>7, NothingAssumption, BoundsAssumption
     DEF TypeOK, TabsTypeOK, Placed, Epochs, Ages, Current, stores, record,
         locks, Remove, UserAt, Stale, Active, SharedWith, older, OlderTypeOK
<1>8. ASSUME NEW t \in Tabs, Finish(t) PROVE Placed'
  BY <1>8, NothingAssumption, BoundsAssumption
     DEF TypeOK, TabsTypeOK, Placed, Epochs, Ages, Current, stores, record,
         locks, Finish, Streaming, Kept, SaveKept, Save, older, OlderTypeOK
<1>9. ASSUME NEW t \in Tabs, NEW s \in saves[t], Land(t, s) PROVE Placed'
  BY <1>9, NothingAssumption, BoundsAssumption
     DEF TypeOK, TabsTypeOK, Placed, Epochs, Ages, Current, stores, record,
         locks, Land, Admitted, older, OlderTypeOK
<1>10. ASSUME NEW t \in Tabs, IdleReplays(t) PROVE Placed'
  BY <1>10, NothingAssumption, BoundsAssumption
     DEF TypeOK, TabsTypeOK, Placed, Epochs, Ages, Current, stores, record,
         locks, IdleReplays, IdleTab, ReplayDue, Quiet, screen, older,
         OlderTypeOK
<1>11. ASSUME NEW t \in Tabs, IdleClears(t) PROVE Placed'
  BY <1>11, NothingAssumption, BoundsAssumption
     DEF TypeOK, TabsTypeOK, Placed, Epochs, Ages, Current, stores, record,
         locks, IdleClears, IdleTab, QuietBut, screen, ClearsLeft, older,
         OlderTypeOK
<1>12. ASSUME NEW t \in Tabs, IdleStays(t) PROVE Placed'
  BY <1>12, NothingAssumption, BoundsAssumption
     DEF TypeOK, TabsTypeOK, Placed, Epochs, Ages, Current, stores, record,
         locks, IdleStays, SharedWith, screen, older, OlderTypeOK
<1>13. ASSUME NEW t \in Tabs, Record(t) PROVE Placed'
  BY <1>13, NothingAssumption, BoundsAssumption
     DEF TypeOK, TabsTypeOK, Placed, Epochs, Ages, Current, stores, record,
         locks, Record, Notify, HandlersRun, older, OlderTypeOK
<1>14. ASSUME NEW t \in Tabs, Apply(t) PROVE Placed'
  BY <1>14, NothingAssumption, BoundsAssumption
     DEF TypeOK, TabsTypeOK, Placed, Epochs, Ages, Current, stores, record,
         locks, Apply, screen, older, OlderTypeOK
<1>15. ASSUME NEW t \in Tabs, Complete(t) PROVE Placed'
  BY <1>15, NothingAssumption, BoundsAssumption
     DEF TypeOK, TabsTypeOK, Placed, Epochs, Ages, Current, stores, record,
         locks, Complete, Notify, ResetTab, HandlersRun, Rebind, screen,
         older, OlderTypeOK
<1>16. ASSUME NEW t \in Tabs, ApplyFails(t) PROVE Placed'
  BY <1>16, NothingAssumption, BoundsAssumption
     DEF TypeOK, TabsTypeOK, Placed, Epochs, Ages, Current, stores, record,
         locks, ApplyFails, screen, older, OlderTypeOK
<1>17. ASSUME NEW t \in Tabs, Notified(t) PROVE Placed'
  BY <1>17, NothingAssumption, BoundsAssumption
     DEF TypeOK, TabsTypeOK, Placed, Epochs, Ages, Current, stores, record,
         locks, Notified, ResetTab, HandlersRun, Rebind, older, OlderTypeOK
<1>18. ASSUME NEW t \in Tabs, Gone(t), home' \in Profiles, cuts' \in 0..MaxCuts
      PROVE Placed'
  BY <1>18, NothingAssumption, BoundsAssumption
     DEF TypeOK, TabsTypeOK, Placed, Epochs, Ages, Current, stores, record,
         locks, Gone, older, OlderTypeOK
<1>19. CASE UNCHANGED vars
  BY <1>19 DEF TypeOK, TabsTypeOK, Placed, Epochs, Ages, Current, vars
<1>20. ASSUME NEW t \in Tabs, Close(t) \/ Die(t) \/ \E p \in Profiles :
      Switch(t, p)
      PROVE  Placed'
  BY <1>18, <1>20, GoneType
<1>21. ASSUME NEW t \in Tabs, Adopts(t) PROVE Placed'
  <2>1. \A u \in Tabs \ {t} : adopt'[u] = adopt[u]
    BY <1>21 DEF Adopts, AdoptBegins, AdoptsNothing, AdoptFails, AdoptCopies,
         AdoptMarks, AdoptDeletes, TypeOK, OlderTypeOK
  <2>2. adopt'[t] # Nothing => place'[t] = "starting"
    BY <1>21, NothingAssumption
       DEF Adopts, AdoptBegins, AdoptsNothing, AdoptFails, AdoptCopies,
         AdoptMarks, AdoptDeletes, TypeOK, OlderTypeOK, Placed
  <2>. QED
    BY <1>21, <2>1, <2>2, AdoptsLeave DEF TypeOK, TabsTypeOK, Placed, screen
<1>. QED
  BY <1>1, <1>2, <1>3, <1>4, <1>5, <1>6, <1>7, <1>8, <1>9, <1>10, <1>11, <1>12,
      <1>13, <1>14, <1>15, <1>16, <1>17, <1>18, <1>19, <1>20, <1>21
     DEF Next, User, Idle, Work, Happens

\* A turn is sent with the lock where no exclusive lock is held, and the
\* exclusive lock is granted only when nobody holds the shared one.
LEMMA StepLocked ==
    ASSUME TypeOK, Placed, Locked, [Next]_vars
    PROVE  Locked'
<1>1. ASSUME NEW t \in Tabs, Boot(t) PROVE Locked'
  BY <1>1, NothingAssumption, BoundsAssumption
     DEF TypeOK, TabsTypeOK, Placed, Locked, stores, record, locks, Boot,
         Active, SharedWith
<1>2. ASSUME NEW t \in Tabs, BootReplays(t) PROVE Locked'
  BY <1>2, NothingAssumption, BoundsAssumption
     DEF TypeOK, TabsTypeOK, Placed, Locked, stores, record, locks,
         BootReplays, ReplayDue, Quiet, screen
<1>3. ASSUME NEW t \in Tabs, BootLoads(t) PROVE Locked'
  BY <1>3, NothingAssumption, BoundsAssumption
     DEF TypeOK, TabsTypeOK, Placed, Locked, stores, record, locks, BootLoads
<1>4. ASSUME NEW t \in Tabs, Send(t) PROVE Locked'
  BY <1>4, NothingAssumption, BoundsAssumption
     DEF TypeOK, TabsTypeOK, Placed, Locked, stores, record, locks, Send,
         UserAt, Stale, Active, SharedWith, Save, AgeOnScreen
<1>5. ASSUME NEW t \in Tabs, NewChat(t) PROVE Locked'
  BY <1>5, NothingAssumption, BoundsAssumption
     DEF TypeOK, TabsTypeOK, Placed, Locked, stores, record, locks, NewChat,
         UserAt, Stale, Active, SharedWith, LeaveTurn, Rebind, Kept,
         Streaming, SaveKept, Save
<1>6. ASSUME NEW t \in Tabs, NEW a \in Epochs, Select(t, a) PROVE Locked'
  BY <1>6, NothingAssumption, BoundsAssumption
     DEF TypeOK, TabsTypeOK, Placed, Locked, stores, record, locks, Select,
         UserAt, Stale, Active, SharedWith, LeaveTurn, Rebind, Kept,
         Streaming, SaveKept, Save
<1>7. ASSUME NEW t \in Tabs, NEW a \in Epochs, Remove(t, a) PROVE Locked'
  BY <1>7, NothingAssumption, BoundsAssumption
     DEF TypeOK, TabsTypeOK, Placed, Locked, stores, record, locks, Remove,
         UserAt, Stale, Active, SharedWith
<1>8. ASSUME NEW t \in Tabs, Finish(t) PROVE Locked'
  BY <1>8, NothingAssumption, BoundsAssumption
     DEF TypeOK, TabsTypeOK, Placed, Locked, stores, record, locks, Finish,
         Streaming, Kept, SaveKept, Save
<1>9. ASSUME NEW t \in Tabs, NEW s \in saves[t], Land(t, s) PROVE Locked'
  BY <1>9, NothingAssumption, BoundsAssumption
     DEF TypeOK, TabsTypeOK, Placed, Locked, stores, record, locks, Land,
         Admitted
<1>10. ASSUME NEW t \in Tabs, IdleReplays(t) PROVE Locked'
  BY <1>10, NothingAssumption, BoundsAssumption
     DEF TypeOK, TabsTypeOK, Placed, Locked, stores, record, locks,
         IdleReplays, IdleTab, ReplayDue, Quiet, screen
<1>11. ASSUME NEW t \in Tabs, IdleClears(t) PROVE Locked'
  BY <1>11, NothingAssumption, BoundsAssumption
     DEF TypeOK, TabsTypeOK, Placed, Locked, stores, record, locks,
         IdleClears, IdleTab, QuietBut, screen, ClearsLeft
<1>12. ASSUME NEW t \in Tabs, IdleStays(t) PROVE Locked'
  BY <1>12, NothingAssumption, BoundsAssumption
     DEF TypeOK, TabsTypeOK, Placed, Locked, stores, record, locks, IdleStays,
         SharedWith, screen
<1>13. ASSUME NEW t \in Tabs, Record(t) PROVE Locked'
  BY <1>13, NothingAssumption, BoundsAssumption
     DEF TypeOK, TabsTypeOK, Placed, Locked, stores, record, locks, Record,
         Notify, HandlersRun
<1>14. ASSUME NEW t \in Tabs, Apply(t) PROVE Locked'
  BY <1>14, NothingAssumption, BoundsAssumption
     DEF TypeOK, TabsTypeOK, Placed, Locked, stores, record, locks, Apply,
         screen
<1>15. ASSUME NEW t \in Tabs, Complete(t) PROVE Locked'
  BY <1>15, NothingAssumption, BoundsAssumption
     DEF TypeOK, TabsTypeOK, Placed, Locked, stores, record, locks, Complete,
         Notify, ResetTab, HandlersRun, Rebind, screen
<1>16. ASSUME NEW t \in Tabs, ApplyFails(t) PROVE Locked'
  BY <1>16, NothingAssumption, BoundsAssumption
     DEF TypeOK, TabsTypeOK, Placed, Locked, stores, record, locks,
         ApplyFails, screen
<1>17. ASSUME NEW t \in Tabs, Notified(t) PROVE Locked'
  BY <1>17, NothingAssumption, BoundsAssumption
     DEF TypeOK, TabsTypeOK, Placed, Locked, stores, record, locks, Notified,
         ResetTab, HandlersRun, Rebind
<1>18. ASSUME NEW t \in Tabs, Gone(t), home' \in Profiles, cuts' \in 0..MaxCuts
      PROVE Locked'
  BY <1>18, NothingAssumption, BoundsAssumption
     DEF TypeOK, TabsTypeOK, Placed, Locked, stores, record, locks, Gone
<1>19. CASE UNCHANGED vars
  BY <1>19 DEF TypeOK, TabsTypeOK, Placed, Locked, vars
<1>20. ASSUME NEW t \in Tabs, Close(t) \/ Die(t) \/ \E p \in Profiles :
      Switch(t, p)
      PROVE  Locked'
  BY <1>18, <1>20, GoneType
<1>21. ASSUME NEW t \in Tabs, Adopts(t) PROVE Locked'
  BY <1>21, AdoptsLeave DEF Locked, locks
<1>. QED
  BY <1>1, <1>2, <1>3, <1>4, <1>5, <1>6, <1>7, <1>8, <1>9, <1>10, <1>11, <1>12,
      <1>13, <1>14, <1>15, <1>16, <1>17, <1>18, <1>19, <1>20, <1>21
     DEF Next, User, Idle, Work, Happens

\* The one job there is counts its own profile only.
LEMMA StepCountable ==
    ASSUME TypeOK, Placed, Locked, Countable, [Next]_vars
    PROVE  Countable'
<1>1. ASSUME NEW t \in Tabs, Boot(t) PROVE Countable'
  BY <1>1, NothingAssumption, BoundsAssumption
     DEF TypeOK, TabsTypeOK, Placed, Locked, Countable, Epochs, stores,
         record, locks, Boot, Active, SharedWith
<1>2. ASSUME NEW t \in Tabs, BootReplays(t) PROVE Countable'
  BY <1>2, NothingAssumption, BoundsAssumption
     DEF TypeOK, TabsTypeOK, Placed, Locked, Countable, Epochs, stores,
         record, locks, BootReplays, ReplayDue, Quiet, screen
<1>3. ASSUME NEW t \in Tabs, BootLoads(t) PROVE Countable'
  BY <1>3, NothingAssumption, BoundsAssumption
     DEF TypeOK, TabsTypeOK, Placed, Locked, Countable, Epochs, stores,
         record, locks, BootLoads
<1>4. ASSUME NEW t \in Tabs, Send(t) PROVE Countable'
  BY <1>4, NothingAssumption, BoundsAssumption
     DEF TypeOK, TabsTypeOK, Placed, Locked, Countable, Epochs, stores,
         record, locks, Send, UserAt, Stale, Active, SharedWith, Save,
         AgeOnScreen
<1>5. ASSUME NEW t \in Tabs, NewChat(t) PROVE Countable'
  BY <1>5, NothingAssumption, BoundsAssumption
     DEF TypeOK, TabsTypeOK, Placed, Locked, Countable, Epochs, stores,
         record, locks, NewChat, UserAt, Stale, Active, SharedWith, LeaveTurn,
         Rebind, Kept, Streaming, SaveKept, Save
<1>6. ASSUME NEW t \in Tabs, NEW a \in Epochs, Select(t, a) PROVE Countable'
  BY <1>6, NothingAssumption, BoundsAssumption
     DEF TypeOK, TabsTypeOK, Placed, Locked, Countable, Epochs, stores,
         record, locks, Select, UserAt, Stale, Active, SharedWith, LeaveTurn,
         Rebind, Kept, Streaming, SaveKept, Save
<1>7. ASSUME NEW t \in Tabs, NEW a \in Epochs, Remove(t, a) PROVE Countable'
  BY <1>7, NothingAssumption, BoundsAssumption
     DEF TypeOK, TabsTypeOK, Placed, Locked, Countable, Epochs, stores,
         record, locks, Remove, UserAt, Stale, Active, SharedWith
<1>8. ASSUME NEW t \in Tabs, Finish(t) PROVE Countable'
  BY <1>8, NothingAssumption, BoundsAssumption
     DEF TypeOK, TabsTypeOK, Placed, Locked, Countable, Epochs, stores,
         record, locks, Finish, Streaming, Kept, SaveKept, Save
<1>9. ASSUME NEW t \in Tabs, NEW s \in saves[t], Land(t, s) PROVE Countable'
  BY <1>9, NothingAssumption, BoundsAssumption
     DEF TypeOK, TabsTypeOK, Placed, Locked, Countable, Epochs, stores,
         record, locks, Land, Admitted
<1>10. ASSUME NEW t \in Tabs, IdleReplays(t) PROVE Countable'
  BY <1>10, NothingAssumption, BoundsAssumption
     DEF TypeOK, TabsTypeOK, Placed, Locked, Countable, Epochs, stores,
         record, locks, IdleReplays, IdleTab, ReplayDue, Quiet, screen
<1>11. ASSUME NEW t \in Tabs, IdleClears(t) PROVE Countable'
  BY <1>11, NothingAssumption, BoundsAssumption
     DEF TypeOK, TabsTypeOK, Placed, Locked, Countable, Epochs, stores,
         record, locks, IdleClears, IdleTab, QuietBut, screen, ClearsLeft
<1>12. ASSUME NEW t \in Tabs, IdleStays(t) PROVE Countable'
  BY <1>12, NothingAssumption, BoundsAssumption
     DEF TypeOK, TabsTypeOK, Placed, Locked, Countable, Epochs, stores,
         record, locks, IdleStays, SharedWith, screen
<1>13. ASSUME NEW t \in Tabs, Record(t) PROVE Countable'
  BY <1>13, NothingAssumption, BoundsAssumption
     DEF TypeOK, TabsTypeOK, Placed, Locked, Countable, Epochs, stores,
         record, locks, Record, Notify, HandlersRun
<1>14. ASSUME NEW t \in Tabs, Apply(t) PROVE Countable'
  BY <1>14, NothingAssumption, BoundsAssumption
     DEF TypeOK, TabsTypeOK, Placed, Locked, Countable, Epochs, stores,
         record, locks, Apply, screen
<1>15. ASSUME NEW t \in Tabs, Complete(t) PROVE Countable'
  BY <1>15, NothingAssumption, BoundsAssumption
     DEF TypeOK, TabsTypeOK, Placed, Locked, Countable, Epochs, stores,
         record, locks, Complete, Notify, ResetTab, HandlersRun, Rebind, screen
<1>16. ASSUME NEW t \in Tabs, ApplyFails(t) PROVE Countable'
  BY <1>16, NothingAssumption, BoundsAssumption
     DEF TypeOK, TabsTypeOK, Placed, Locked, Countable, Epochs, stores,
         record, locks, ApplyFails, screen
<1>17. ASSUME NEW t \in Tabs, Notified(t) PROVE Countable'
  BY <1>17, NothingAssumption, BoundsAssumption
     DEF TypeOK, TabsTypeOK, Placed, Locked, Countable, Epochs, stores,
         record, locks, Notified, ResetTab, HandlersRun, Rebind
<1>18. ASSUME NEW t \in Tabs, Gone(t), home' \in Profiles, cuts' \in 0..MaxCuts
      PROVE Countable'
  BY <1>18, NothingAssumption, BoundsAssumption
     DEF TypeOK, TabsTypeOK, Placed, Locked, Countable, Epochs, stores,
         record, locks, Gone
<1>19. CASE UNCHANGED vars
  BY <1>19 DEF TypeOK, TabsTypeOK, Placed, Locked, Countable, Epochs, vars
<1>20. ASSUME NEW t \in Tabs, Close(t) \/ Die(t) \/ \E p \in Profiles :
      Switch(t, p)
      PROVE  Countable'
  BY <1>18, <1>20, GoneType
<1>21. ASSUME NEW t \in Tabs, Adopts(t) PROVE Countable'
  BY <1>21, AdoptsLeave DEF Countable
<1>. QED
  BY <1>1, <1>2, <1>3, <1>4, <1>5, <1>6, <1>7, <1>8, <1>9, <1>10, <1>11, <1>12,
      <1>13, <1>14, <1>15, <1>16, <1>17, <1>18, <1>19, <1>20, <1>21
     DEF Next, User, Idle, Work, Happens

\* What is written next is of this epoch, or is dropped by the gate.
LEMMA StepFresh ==
    ASSUME TypeOK, Placed, Locked, Countable, Fresh, FreshRows, [Next]_vars,
           Unspoilt'
    PROVE  (Fresh /\ FreshRows)'
<1>1. ASSUME NEW t \in Tabs, Boot(t) PROVE (Fresh /\ FreshRows)'
  BY <1>1, NothingAssumption, BoundsAssumption
     DEF TypeOK, TabsTypeOK, Placed, Locked, Countable, Fresh, FreshIn,
         FreshRows, Epochs, Ages, Current, stores, record, locks, Boot,
         Active, SharedWith
<1>2. ASSUME NEW t \in Tabs, BootReplays(t) PROVE (Fresh /\ FreshRows)'
  BY <1>2, NothingAssumption, BoundsAssumption
     DEF TypeOK, TabsTypeOK, Placed, Locked, Countable, Fresh, FreshIn,
         FreshRows, Epochs, Ages, Current, stores, record, locks, BootReplays,
         ReplayDue, Quiet, screen
<1>3. ASSUME NEW t \in Tabs, BootLoads(t) PROVE (Fresh /\ FreshRows)'
  BY <1>3, NothingAssumption, BoundsAssumption
     DEF TypeOK, TabsTypeOK, Placed, Locked, Countable, Fresh, FreshIn,
         FreshRows, Epochs, Ages, Current, stores, record, locks, BootLoads
<1>4. ASSUME NEW t \in Tabs, Send(t), ~Overtaken(t) PROVE (Fresh /\ FreshRows)'
  <2>1. /\ place[t] = "open" /\ exclusive = NoTab
        /\ view[t] = Nothing \/ ~(view[t] < Current(t))
    BY <1>4 DEF Send, UserAt, Overtaken, Stale
  <2>2. FreshIn(t) /\ Current(t) \in Epochs
    BY <2>1, CurrentType DEF Fresh
  <2>3. AgeOnScreen(t) = Current(t)
    <3>1. CASE view[t] = Nothing
      BY <3>1 DEF AgeOnScreen
    <3>2. CASE view[t] # Nothing
      <4>1. view[t] \in Epochs
        BY <3>2 DEF TypeOK, TabsTypeOK, Ages
      <4>2. view[t] <= Current(t) /\ ~(view[t] < Current(t))
        BY <2>1, <2>2, <3>2 DEF FreshIn
      <4>3. view[t] = Current(t)
        BY <2>2, <4>1, <4>2, BoundsAssumption DEF Epochs
      <4>. QED
        BY <3>2, <4>3 DEF AgeOnScreen
    <3>. QED
      BY <3>1, <3>2
  <2> DEFINE new == [epoch |-> bound[t], age |-> Current(t), first |-> TRUE]
  <2>4. /\ saves'[t] = saves[t] \cup {new} /\ view'[t] = Current(t)
        /\ turn'[t] = [age |-> Current(t), sending |-> TRUE, held |-> TRUE]
        /\ bound'[t] = bound[t] /\ Current(t)' = Current(t)
    BY <1>4, <2>1, <2>3
       DEF Send, Save, SharedWith, stores, Current, TypeOK, TabsTypeOK
  <2>7. FreshIn(t)'
    BY <2>2, <2>4, BoundsAssumption DEF FreshIn, Epochs
  <2>5. \A u \in Tabs \ {t} : FreshIn(u)' <=> FreshIn(u)
    BY <1>4 DEF FreshIn, Current, Send, Save, stores, TypeOK, TabsTypeOK
  <2>6. FreshRows' <=> FreshRows
    BY <1>4 DEF FreshRows, Send, stores
  <2>. QED
    BY <1>4, <2>7, <2>5, <2>6 DEF Fresh, Send
<1>5. ASSUME NEW t \in Tabs, NewChat(t), ~Overtaken(t)
      PROVE (Fresh /\ FreshRows)'
  BY <1>5, NothingAssumption, BoundsAssumption
     DEF TypeOK, TabsTypeOK, Placed, Locked, Countable, Fresh, FreshIn,
         FreshRows, Epochs, Ages, Current, stores, record, locks, NewChat,
         UserAt, Overtaken, Stale, Active, SharedWith, LeaveTurn, Rebind,
         Kept, Streaming, SaveKept, Save
<1>6. ASSUME NEW t \in Tabs, NEW a \in Epochs, Select(t, a), ~Overtaken(t)
      PROVE (Fresh /\ FreshRows)'
  BY <1>6, NothingAssumption, BoundsAssumption
     DEF TypeOK, TabsTypeOK, Placed, Locked, Countable, Fresh, FreshIn,
         FreshRows, Epochs, Ages, Current, stores, record, locks, Select,
         UserAt, Overtaken, Stale, Active, SharedWith, LeaveTurn, Rebind,
         Kept, Streaming, SaveKept, Save
<1>7. ASSUME NEW t \in Tabs, NEW a \in Epochs, Remove(t, a), ~Overtaken(t)
      PROVE  (Fresh /\ FreshRows)'
  <2>1. profile[t] \in Profiles /\ place[t] = "open"
    BY <1>7, CurrentType DEF Remove, UserAt
  <2>2. \A p \in Profiles : rows'[p] \subseteq rows[p]
    BY <1>7, <2>1 DEF Remove, TypeOK, TabsTypeOK
  <2>3. /\ UNCHANGED <<epoch, place, profile, bound, turn, saves>>
        /\ turn[t] = Nothing
    BY <1>7 DEF Remove
  <2>4. /\ view'[t] \in {view[t], Nothing}
        /\ \A u \in Tabs \ {t} : view'[u] = view[u]
    BY <1>7 DEF Remove, TypeOK, TabsTypeOK
  <2>5. ASSUME NEW u \in Tabs, FreshIn(u) PROVE FreshIn(u)'
    <3>1. Current(u)' = Current(u)
      BY <2>3 DEF Current
    <3>. QED
      BY <2>3, <2>4, <2>5, <3>1 DEF FreshIn
  <2>6. FreshRows'
    BY <2>2, <2>3 DEF FreshRows
  <2>. QED
    BY <2>3, <2>5, <2>6 DEF Fresh
<1>8. ASSUME NEW t \in Tabs, Finish(t) PROVE (Fresh /\ FreshRows)'
  BY <1>8, NothingAssumption, BoundsAssumption
     DEF TypeOK, TabsTypeOK, Placed, Locked, Countable, Fresh, FreshIn,
         FreshRows, Epochs, Ages, Current, stores, record, locks, Finish,
         Streaming, Kept, SaveKept, Save
<1>9. ASSUME NEW t \in Tabs, NEW s \in saves[t], Land(t, s)
      PROVE (Fresh /\ FreshRows)'
  BY <1>9, NothingAssumption, BoundsAssumption
     DEF TypeOK, TabsTypeOK, Placed, Locked, Countable, Fresh, FreshIn,
         FreshRows, Epochs, Ages, Current, stores, record, locks, Land,
         Admitted
<1>10. ASSUME NEW t \in Tabs, IdleReplays(t) PROVE (Fresh /\ FreshRows)'
  BY <1>10, NothingAssumption, BoundsAssumption
     DEF TypeOK, TabsTypeOK, Placed, Locked, Countable, Fresh, FreshIn,
         FreshRows, Epochs, Ages, Current, stores, record, locks, IdleReplays,
         IdleTab, ReplayDue, Quiet, screen
<1>11. ASSUME NEW t \in Tabs, IdleClears(t) PROVE (Fresh /\ FreshRows)'
  BY <1>11, NothingAssumption, BoundsAssumption
     DEF TypeOK, TabsTypeOK, Placed, Locked, Countable, Fresh, FreshIn,
         FreshRows, Epochs, Ages, Current, stores, record, locks, IdleClears,
         IdleTab, QuietBut, screen, ClearsLeft
<1>12. ASSUME NEW t \in Tabs, IdleStays(t) PROVE (Fresh /\ FreshRows)'
  BY <1>12, NothingAssumption, BoundsAssumption
     DEF TypeOK, TabsTypeOK, Placed, Locked, Countable, Fresh, FreshIn,
         FreshRows, Epochs, Ages, Current, stores, record, locks, IdleStays,
         SharedWith, screen
<1>13. ASSUME NEW t \in Tabs, Record(t) PROVE (Fresh /\ FreshRows)'
  BY <1>13, NothingAssumption, BoundsAssumption
     DEF TypeOK, TabsTypeOK, Placed, Locked, Countable, Fresh, FreshIn,
         FreshRows, Epochs, Ages, Current, stores, record, locks, Record,
         Notify, HandlersRun
<1>14. ASSUME NEW t \in Tabs, Apply(t) PROVE (Fresh /\ FreshRows)'
  <2>1. /\ \A q \in Profiles : epoch[q] \in Int /\ epoch'[q] \in Int /\ epoch[q] <= epoch'[q]
        /\ \A q \in Profiles : (epoch'[q] = epoch[q] /\ rows'[q] = rows[q]) \/ rows'[q] = {}
    BY <1>14, ApplyGoesOn
  <2>2. FreshRows'
    BY <2>1 DEF FreshRows
  <2>3. /\ UNCHANGED <<place, profile, bound, view, turn, saves>>
        /\ \A u \in Tabs : turn[u] = Nothing
    <3>1. exclusive = t /\ shared = {}
      BY <1>14, NothingAssumption DEF Apply, Locked
    <3> QED
      BY <1>14, <3>1 DEF Apply, screen, Locked, Fresh, FreshIn, Placed
  <2>4. ASSUME NEW u \in Tabs, place[u] # "down" PROVE FreshIn(u)'
    <3>1. /\ FreshIn(u) /\ Current(u) \in Epochs /\ profile[u] \in Profiles
      BY <2>4, CurrentType DEF Fresh
    <3>2. /\ Current(u) \in Int /\ Current(u)' \in Int /\ Current(u) <= Current(u)'
      BY <2>1, <2>3, <3>1 DEF Current
    <3>3. /\ bound[u] \in Int /\ (view[u] # Nothing => view[u] \in Int)
          /\ \A s \in saves[u] : s.epoch \in Int /\ s.age \in Int
      BY <2>4, BoundsAssumption DEF TypeOK, TabsTypeOK, Epochs, Ages
    <3> HIDE DEF Current
    <3>4. \A s \in saves[u] : s.epoch <= Current(u)'
                                   /\ (s.epoch = Current(u)' => s.age = Current(u)')
      <4> SUFFICES ASSUME NEW s \in saves[u]
                   PROVE  s.epoch <= Current(u)' /\ (s.epoch = Current(u)' => s.age = Current(u)')
        OBVIOUS
      <4>1. s.epoch <= Current(u) /\ (s.epoch = Current(u) => s.age = Current(u))
        BY <3>1 DEF FreshIn
      <4> QED
        BY <3>2, <3>3, <4>1
    <3>5. bound[u] <= Current(u)' /\ (view[u] # Nothing => view[u] <= Current(u)')
      <4>1. bound[u] <= Current(u) /\ (view[u] # Nothing => view[u] <= Current(u))
        BY <3>1 DEF FreshIn
      <4> QED
        BY <3>2, <3>3, <4>1
    <3> QED
      BY <2>3, <3>4, <3>5 DEF FreshIn
  <2> QED
    BY <2>2, <2>3, <2>4 DEF Fresh
<1>15. ASSUME NEW t \in Tabs, Complete(t) PROVE (Fresh /\ FreshRows)'
  BY <1>15, NothingAssumption, BoundsAssumption
     DEF TypeOK, TabsTypeOK, Placed, Locked, Countable, Fresh, FreshIn,
         FreshRows, Epochs, Ages, Current, stores, record, locks, Complete,
         Notify, ResetTab, HandlersRun, Rebind, screen
<1>16. ASSUME NEW t \in Tabs, ApplyFails(t) PROVE (Fresh /\ FreshRows)'
  BY <1>16, NothingAssumption, BoundsAssumption
     DEF TypeOK, TabsTypeOK, Placed, Locked, Countable, Fresh, FreshIn,
         FreshRows, Epochs, Ages, Current, stores, record, locks, ApplyFails,
         screen
<1>17. ASSUME NEW t \in Tabs, Notified(t) PROVE (Fresh /\ FreshRows)'
  BY <1>17, NothingAssumption, BoundsAssumption
     DEF TypeOK, TabsTypeOK, Placed, Locked, Countable, Fresh, FreshIn,
         FreshRows, Epochs, Ages, Current, stores, record, locks, Notified,
         ResetTab, HandlersRun, Rebind
<1>18. ASSUME NEW t \in Tabs, Gone(t), home' \in Profiles, cuts' \in 0..MaxCuts
      PROVE (Fresh /\ FreshRows)'
  BY <1>18, NothingAssumption, BoundsAssumption
     DEF TypeOK, TabsTypeOK, Placed, Locked, Countable, Fresh, FreshIn,
         FreshRows, Epochs, Ages, Current, stores, record, locks, Gone
<1>19. CASE UNCHANGED vars
  BY <1>19
     DEF TypeOK, TabsTypeOK, Placed, Locked, Countable, Fresh, FreshIn,
         FreshRows, Epochs, Ages, Current, vars
<1>20. ASSUME NEW t \in Tabs, Close(t) \/ Die(t) \/ \E p \in Profiles :
      Switch(t, p)
      PROVE  (Fresh /\ FreshRows)'
  BY <1>18, <1>20, GoneType
<1>21. ASSUME NEW t \in Tabs, Adopts(t) PROVE (Fresh /\ FreshRows)'
  <2>1. FreshRows'
    BY <1>21, AdoptsLeave, AdoptedRows DEF FreshRows, TypeOK, TabsTypeOK, Unspoilt
  <2>2. \A u \in Tabs : FreshIn(u)' <=> FreshIn(u)
    BY <1>21, AdoptsLeave DEF FreshIn, Current, screen
  <2>. QED
    BY <1>21, <2>1, <2>2, AdoptsLeave DEF Fresh, TypeOK, TabsTypeOK
<1>. QED
  BY <1>1, <1>2, <1>3, <1>4, <1>5, <1>6, <1>7, <1>8, <1>9, <1>10, <1>11, <1>12,
      <1>13, <1>14, <1>15, <1>16, <1>17, <1>18, <1>19, <1>20, <1>21, StaysSpoilt
     DEF Next, User, Idle, Work, Happens

\* A clear under way stays the one the record holds, and the record never runs
\* ahead of a database.
LEMMA StepRecorded ==
    ASSUME TypeOK, Placed, Locked, Countable, Recorded, CompletedBehind,
           [Next]_vars
    PROVE  (Recorded /\ CompletedBehind)'
<1>1. ASSUME NEW t \in Tabs, Boot(t) PROVE (Recorded /\ CompletedBehind)'
  BY <1>1, NothingAssumption, BoundsAssumption
     DEF TypeOK, TabsTypeOK, Placed, Locked, Countable, Recorded,
         CompletedBehind, Epochs, stores, record, locks, Boot, Active,
         SharedWith
<1>2. ASSUME NEW t \in Tabs, BootReplays(t)
      PROVE (Recorded /\ CompletedBehind)'
  BY <1>2, NothingAssumption, BoundsAssumption
     DEF TypeOK, TabsTypeOK, Placed, Locked, Countable, Recorded,
         CompletedBehind, Epochs, stores, record, locks, BootReplays,
         ReplayDue, Quiet, screen
<1>3. ASSUME NEW t \in Tabs, BootLoads(t) PROVE (Recorded /\ CompletedBehind)'
  BY <1>3, NothingAssumption, BoundsAssumption
     DEF TypeOK, TabsTypeOK, Placed, Locked, Countable, Recorded,
         CompletedBehind, Epochs, stores, record, locks, BootLoads
<1>4. ASSUME NEW t \in Tabs, Send(t) PROVE (Recorded /\ CompletedBehind)'
  BY <1>4, NothingAssumption, BoundsAssumption
     DEF TypeOK, TabsTypeOK, Placed, Locked, Countable, Recorded,
         CompletedBehind, Epochs, stores, record, locks, Send, UserAt, Stale,
         Active, SharedWith, Save, AgeOnScreen
<1>5. ASSUME NEW t \in Tabs, NewChat(t) PROVE (Recorded /\ CompletedBehind)'
  BY <1>5, NothingAssumption, BoundsAssumption
     DEF TypeOK, TabsTypeOK, Placed, Locked, Countable, Recorded,
         CompletedBehind, Epochs, stores, record, locks, NewChat, UserAt,
         Stale, Active, SharedWith, LeaveTurn, Rebind, Kept, Streaming,
         SaveKept, Save
<1>6. ASSUME NEW t \in Tabs, NEW a \in Epochs, Select(t, a)
      PROVE  (Recorded /\ CompletedBehind)'
  BY <1>6, NothingAssumption, BoundsAssumption
     DEF TypeOK, TabsTypeOK, Placed, Locked, Countable, Recorded,
         CompletedBehind, Epochs, stores, record, locks, Select, UserAt,
         Stale, Active, SharedWith, LeaveTurn, Rebind, Kept, Streaming,
         SaveKept, Save
<1>7. ASSUME NEW t \in Tabs, NEW a \in Epochs, Remove(t, a)
      PROVE  (Recorded /\ CompletedBehind)'
  BY <1>7, NothingAssumption, BoundsAssumption
     DEF TypeOK, TabsTypeOK, Placed, Locked, Countable, Recorded,
         CompletedBehind, Epochs, stores, record, locks, Remove, UserAt,
         Stale, Active, SharedWith
<1>8. ASSUME NEW t \in Tabs, Finish(t) PROVE (Recorded /\ CompletedBehind)'
  BY <1>8, NothingAssumption, BoundsAssumption
     DEF TypeOK, TabsTypeOK, Placed, Locked, Countable, Recorded,
         CompletedBehind, Epochs, stores, record, locks, Finish, Streaming,
         Kept, SaveKept, Save
<1>9. ASSUME NEW t \in Tabs, NEW s \in saves[t], Land(t, s)
      PROVE  (Recorded /\ CompletedBehind)'
  BY <1>9, NothingAssumption, BoundsAssumption
     DEF TypeOK, TabsTypeOK, Placed, Locked, Countable, Recorded,
         CompletedBehind, Epochs, stores, record, locks, Land, Admitted
<1>10. ASSUME NEW t \in Tabs, IdleReplays(t)
      PROVE  (Recorded /\ CompletedBehind)'
  BY <1>10, NothingAssumption, BoundsAssumption
     DEF TypeOK, TabsTypeOK, Placed, Locked, Countable, Recorded,
         CompletedBehind, Epochs, stores, record, locks, IdleReplays, IdleTab,
         ReplayDue, Quiet, screen
<1>11. ASSUME NEW t \in Tabs, IdleClears(t)
      PROVE (Recorded /\ CompletedBehind)'
  BY <1>11, NothingAssumption, BoundsAssumption
     DEF TypeOK, TabsTypeOK, Placed, Locked, Countable, Recorded,
         CompletedBehind, Epochs, stores, record, locks, IdleClears, IdleTab,
         QuietBut, screen, ClearsLeft
<1>12. ASSUME NEW t \in Tabs, IdleStays(t) PROVE (Recorded /\ CompletedBehind)'
  BY <1>12, NothingAssumption, BoundsAssumption
     DEF TypeOK, TabsTypeOK, Placed, Locked, Countable, Recorded,
         CompletedBehind, Epochs, stores, record, locks, IdleStays,
         SharedWith, screen
<1>13. ASSUME NEW t \in Tabs, Record(t) PROVE (Recorded /\ CompletedBehind)'
  BY <1>13, NothingAssumption, BoundsAssumption
     DEF TypeOK, TabsTypeOK, Placed, Locked, Countable, Recorded,
         CompletedBehind, Epochs, stores, record, locks, Record, Notify,
         HandlersRun
<1>14. ASSUME NEW t \in Tabs, Apply(t) PROVE (Recorded /\ CompletedBehind)'
  <2> DEFINE p == job[t].profile
  <2>1. /\ p \in Profiles /\ job[t].goal \in Epochs /\ job[t] # Nothing
        /\ pending = [profile |-> p, goal |-> job[t].goal]
        /\ completed[p] < job[t].goal
        /\ job[t].kind = "boot" => place[t] = "booting"
    BY <1>14 DEF Apply, TypeOK, TabsTypeOK, Recorded
  <2>2. /\ job' = [job EXCEPT ![t].step = "applied"]
        /\ UNCHANGED <<pending, completed, place>>
    BY <1>14 DEF Apply, record
  <2>3. \A q \in Profiles : epoch[q] \in Int /\ epoch'[q] \in Int /\ epoch[q] <= epoch'[q]
    BY <1>14, ApplyGoesOn
  <2>4. job[t].goal <= epoch'[p]
    BY <1>14, ApplyGoesOn
  <2>5. CompletedBehind'
    <3> SUFFICES ASSUME NEW q \in Profiles PROVE completed[q] <= epoch'[q]
      BY <2>2 DEF CompletedBehind
    <3>1. completed[q] <= epoch[q] /\ epoch[q] <= epoch'[q]
      BY <2>3 DEF CompletedBehind
    <3>2. completed[q] \in Int /\ epoch[q] \in Int /\ epoch'[q] \in Int
      BY <2>3, BoundsAssumption DEF TypeOK, TabsTypeOK, Epochs
    <3>. QED
      BY <3>1, <3>2
  <2>6. \A u \in Tabs \ {t} : job[u] = Nothing /\ job'[u] = Nothing
    BY <1>14, <2>2 DEF Locked, Apply, TypeOK, TabsTypeOK
  <2>7. /\ job'[t].kind = job[t].kind /\ job'[t].profile = p
        /\ job'[t].goal = job[t].goal /\ job'[t].step = "applied"
    BY <2>1, <2>2 DEF TypeOK, TabsTypeOK
  <2>8. Recorded'
    BY <2>1, <2>2, <2>4, <2>6, <2>7 DEF Recorded
  <2>. QED
    BY <2>5, <2>8
<1>15. ASSUME NEW t \in Tabs, Complete(t) PROVE (Recorded /\ CompletedBehind)'
  BY <1>15, NothingAssumption, BoundsAssumption
     DEF TypeOK, TabsTypeOK, Placed, Locked, Countable, Recorded,
         CompletedBehind, Epochs, stores, record, locks, Complete, Notify,
         ResetTab, HandlersRun, Rebind, screen
<1>16. ASSUME NEW t \in Tabs, ApplyFails(t)
      PROVE (Recorded /\ CompletedBehind)'
  BY <1>16, NothingAssumption, BoundsAssumption
     DEF TypeOK, TabsTypeOK, Placed, Locked, Countable, Recorded,
         CompletedBehind, Epochs, stores, record, locks, ApplyFails, screen
<1>17. ASSUME NEW t \in Tabs, Notified(t) PROVE (Recorded /\ CompletedBehind)'
  BY <1>17, NothingAssumption, BoundsAssumption
     DEF TypeOK, TabsTypeOK, Placed, Locked, Countable, Recorded,
         CompletedBehind, Epochs, stores, record, locks, Notified, ResetTab,
         HandlersRun, Rebind
<1>18. ASSUME NEW t \in Tabs, Gone(t), home' \in Profiles, cuts' \in 0..MaxCuts
      PROVE (Recorded /\ CompletedBehind)'
  BY <1>18, NothingAssumption, BoundsAssumption
     DEF TypeOK, TabsTypeOK, Placed, Locked, Countable, Recorded,
         CompletedBehind, Epochs, stores, record, locks, Gone
<1>19. CASE UNCHANGED vars
  BY <1>19
     DEF TypeOK, TabsTypeOK, Placed, Locked, Countable, Recorded,
         CompletedBehind, Epochs, vars
<1>20. ASSUME NEW t \in Tabs, Close(t) \/ Die(t) \/ \E p \in Profiles :
      Switch(t, p)
      PROVE  (Recorded /\ CompletedBehind)'
  BY <1>18, <1>20, GoneType
<1>21. ASSUME NEW t \in Tabs, Adopts(t) PROVE (Recorded /\ CompletedBehind)'
  BY <1>21, AdoptsLeave
     DEF TypeOK, TabsTypeOK, Recorded, CompletedBehind, record
<1>. QED
  BY <1>1, <1>2, <1>3, <1>4, <1>5, <1>6, <1>7, <1>8, <1>9, <1>10, <1>11, <1>12,
      <1>13, <1>14, <1>15, <1>16, <1>17, <1>18, <1>19, <1>20, <1>21
     DEF Next, User, Idle, Work, Happens

\* A tab that shows cleared text has its event, or the record owes it one.
LEMMA StepTold ==
    ASSUME TypeOK, Placed, Locked, Fresh, FreshRows, Recorded, CompletedBehind,
           Told, [Next]_vars, Unspoilt'
    PROVE  Told'
<1>1. ASSUME NEW t \in Tabs, Boot(t) PROVE Told'
  BY <1>1, NothingAssumption, BoundsAssumption
     DEF TypeOK, TabsTypeOK, Placed, Locked, Fresh, FreshIn, FreshRows,
         Recorded, Told, Stale, ReplayDue, Current, Ages, Epochs, stores,
         record, locks, Boot, Active, SharedWith
<1>2. ASSUME NEW t \in Tabs, BootReplays(t) PROVE Told'
  BY <1>2, NothingAssumption, BoundsAssumption
     DEF TypeOK, TabsTypeOK, Placed, Locked, Fresh, FreshIn, FreshRows,
         Recorded, Told, Stale, ReplayDue, Current, Ages, Epochs, stores,
         record, locks, BootReplays, Quiet, screen
<1>3. ASSUME NEW t \in Tabs, BootLoads(t) PROVE Told'
  BY <1>3, NothingAssumption, BoundsAssumption
     DEF TypeOK, TabsTypeOK, Placed, Locked, Fresh, FreshIn, FreshRows,
         Recorded, Told, Stale, ReplayDue, Current, Ages, Epochs, stores,
         record, locks, BootLoads
<1>4. ASSUME NEW t \in Tabs, Send(t), ~Overtaken(t) PROVE Told'
  BY <1>4, NothingAssumption, BoundsAssumption
     DEF TypeOK, TabsTypeOK, Placed, Locked, Fresh, FreshIn, FreshRows,
         Recorded, Told, Stale, ReplayDue, Current, Ages, Epochs, stores,
         record, locks, Send, UserAt, Active, SharedWith, Save, AgeOnScreen
<1>5. ASSUME NEW t \in Tabs, NewChat(t), ~Overtaken(t) PROVE Told'
  BY <1>5, NothingAssumption, BoundsAssumption
     DEF TypeOK, TabsTypeOK, Placed, Locked, Fresh, FreshIn, FreshRows,
         Recorded, Told, Stale, ReplayDue, Current, Ages, Epochs, stores,
         record, locks, NewChat, UserAt, Active, SharedWith, LeaveTurn,
         Rebind, Kept, Streaming, SaveKept, Save
<1>6. ASSUME NEW t \in Tabs, NEW a \in Epochs, Select(t, a), ~Overtaken(t)
      PROVE Told'
  BY <1>6, NothingAssumption, BoundsAssumption
     DEF TypeOK, TabsTypeOK, Placed, Locked, Fresh, FreshIn, FreshRows,
         Recorded, Told, Stale, ReplayDue, Current, Ages, Epochs, stores,
         record, locks, Select, UserAt, Active, SharedWith, LeaveTurn, Rebind,
         Kept, Streaming, SaveKept, Save
<1>7. ASSUME NEW t \in Tabs, NEW a \in Epochs, Remove(t, a), ~Overtaken(t)
      PROVE Told'
  BY <1>7, NothingAssumption, BoundsAssumption
     DEF TypeOK, TabsTypeOK, Placed, Locked, Fresh, FreshIn, FreshRows,
         Recorded, Told, Stale, ReplayDue, Current, Ages, Epochs, stores,
         record, locks, Remove, UserAt, Active, SharedWith
<1>8. ASSUME NEW t \in Tabs, Finish(t) PROVE Told'
  BY <1>8, NothingAssumption, BoundsAssumption
     DEF TypeOK, TabsTypeOK, Placed, Locked, Fresh, FreshIn, FreshRows,
         Recorded, Told, Stale, ReplayDue, Current, Ages, Epochs, stores,
         record, locks, Finish, Streaming, Kept, SaveKept, Save
<1>9. ASSUME NEW t \in Tabs, NEW s \in saves[t], Land(t, s) PROVE Told'
  BY <1>9, NothingAssumption, BoundsAssumption
     DEF TypeOK, TabsTypeOK, Placed, Locked, Fresh, FreshIn, FreshRows,
         Recorded, Told, Stale, ReplayDue, Current, Ages, Epochs, stores,
         record, locks, Land, Admitted
<1>10. ASSUME NEW t \in Tabs, IdleReplays(t) PROVE Told'
  BY <1>10, NothingAssumption, BoundsAssumption
     DEF TypeOK, TabsTypeOK, Placed, Locked, Fresh, FreshIn, FreshRows,
         Recorded, Told, Stale, ReplayDue, Current, Ages, Epochs, stores,
         record, locks, IdleReplays, IdleTab, Quiet, screen
<1>11. ASSUME NEW t \in Tabs, IdleClears(t) PROVE Told'
  BY <1>11, NothingAssumption, BoundsAssumption
     DEF TypeOK, TabsTypeOK, Placed, Locked, Fresh, FreshIn, FreshRows,
         Recorded, Told, Stale, ReplayDue, Current, Ages, Epochs, stores,
         record, locks, IdleClears, IdleTab, QuietBut, screen, ClearsLeft
<1>12. ASSUME NEW t \in Tabs, IdleStays(t) PROVE Told'
  BY <1>12, NothingAssumption, BoundsAssumption
     DEF TypeOK, TabsTypeOK, Placed, Locked, Fresh, FreshIn, FreshRows,
         Recorded, Told, Stale, ReplayDue, Current, Ages, Epochs, stores,
         record, locks, IdleStays, SharedWith, screen
<1>13. ASSUME NEW t \in Tabs, Record(t) PROVE Told'
  BY <1>13, NothingAssumption, BoundsAssumption
     DEF TypeOK, TabsTypeOK, Placed, Locked, Fresh, FreshIn, FreshRows,
         Recorded, Told, Stale, ReplayDue, Current, Ages, Epochs, stores,
         record, locks, Record, Notify, HandlersRun
<1>14. ASSUME NEW t \in Tabs, Apply(t) PROVE Told'
  <2> DEFINE p == job[t].profile
  <2>1. /\ p \in Profiles /\ job[t].goal \in Epochs
        /\ pending = [profile |-> p, goal |-> job[t].goal]
        /\ completed[p] < job[t].goal
    BY <1>14 DEF Apply, TypeOK, TabsTypeOK, Recorded
  <2>2. ReplayDue
    BY <2>1, PendingAssumption, BoundsAssumption DEF ReplayDue, Epochs
  <2>3. UNCHANGED <<pending, completed>>
    BY <1>14 DEF Apply, record
  <2>. QED
    BY <2>2, <2>3 DEF Told, ReplayDue
<1>15. ASSUME NEW t \in Tabs, Complete(t) PROVE Told'
  BY <1>15, NothingAssumption, BoundsAssumption
     DEF TypeOK, TabsTypeOK, Placed, Locked, Fresh, FreshIn, FreshRows,
         Recorded, Told, Stale, ReplayDue, Current, Ages, Epochs, stores,
         record, locks, Complete, Notify, ResetTab, HandlersRun, Rebind, screen
<1>16. ASSUME NEW t \in Tabs, ApplyFails(t) PROVE Told'
  BY <1>16, NothingAssumption, BoundsAssumption
     DEF TypeOK, TabsTypeOK, Placed, Locked, Fresh, FreshIn, FreshRows,
         Recorded, Told, Stale, ReplayDue, Current, Ages, Epochs, stores,
         record, locks, ApplyFails, screen
<1>17. ASSUME NEW t \in Tabs, Notified(t) PROVE Told'
  BY <1>17, NothingAssumption, BoundsAssumption
     DEF TypeOK, TabsTypeOK, Placed, Locked, Fresh, FreshIn, FreshRows,
         Recorded, Told, Stale, ReplayDue, Current, Ages, Epochs, stores,
         record, locks, Notified, ResetTab, HandlersRun, Rebind
<1>18. ASSUME NEW t \in Tabs, Gone(t), home' \in Profiles, cuts' \in 0..MaxCuts
      PROVE Told'
  BY <1>18, NothingAssumption, BoundsAssumption
     DEF TypeOK, TabsTypeOK, Placed, Locked, Fresh, FreshIn, FreshRows,
         Recorded, Told, Stale, ReplayDue, Current, Ages, Epochs, stores,
         record, locks, Gone
<1>19. CASE UNCHANGED vars
  BY <1>19
     DEF TypeOK, TabsTypeOK, Placed, Locked, Fresh, FreshIn, FreshRows,
         Recorded, Told, Stale, ReplayDue, Current, Ages, Epochs, vars
<1>20. ASSUME NEW t \in Tabs, Close(t) \/ Die(t) \/ \E p \in Profiles :
      Switch(t, p)
      PROVE  Told'
  BY <1>18, <1>20, GoneType
<1>21. ASSUME NEW t \in Tabs, Adopts(t) PROVE Told'
  BY <1>21, AdoptsLeave
     DEF TypeOK, TabsTypeOK, Told, Stale, ReplayDue, Current, record, screen
<1>22. ASSUME NEW t \in Tabs, User(t) PROVE Told'
  <2>1. ~Overtaken(t)
    BY <1>22, StaysSpoilt
  <2>. QED
    BY <1>4, <1>5, <1>6, <1>7, <1>20, <1>22, <2>1 DEF User
<1>23. ASSUME NEW t \in Tabs, Work(t) PROVE Told'
  BY <1>2, <1>3, <1>9, <1>13, <1>14, <1>15, <1>17, <1>21, <1>23 DEF Work
<1>24. ASSUME NEW t \in Tabs, Idle(t) \/ Happens(t) PROVE Told'
  BY <1>1, <1>8, <1>10, <1>11, <1>12, <1>16, <1>20, <1>24 DEF Idle, Happens
<1>. QED
  BY <1>19, <1>22, <1>23, <1>24 DEF Next

\* The invariant holds at first.
LEMMA InitInv == Init => IInv
<1> SUFFICES ASSUME Init PROVE IInv
  OBVIOUS
<1>1. TabsTypeOK
  BY BoundsAssumption DEF Init, TabsTypeOK, Epochs, Ages
<1>2. OlderTypeOK /\ late \in 0..MaxLate
  <2>1. /\ legacy \in BOOLEAN /\ claim = Nothing /\ marker = FALSE
        /\ adopt = [t \in Tabs |-> Nothing]
        /\ copied = [p \in Profiles |-> Nothing] /\ readopted = FALSE /\ late = 0
    BY DEF Init
  <2>2. late \in 0..MaxLate
    BY <2>1, BoundsAssumption
  <2>3. marker \in BOOLEAN /\ readopted \in BOOLEAN
    BY <2>1
  <2>4. adopt \in [Tabs -> {Nothing}] /\ copied \in [Profiles -> {Nothing}]
    BY <2>1
  <2>5. copied \in [Profiles -> Ages]
    BY <2>4 DEF Ages
  <2>. QED
    BY <2>1, <2>2, <2>3, <2>4, <2>5 DEF OlderTypeOK
<1>3. Placed /\ Locked /\ Countable
  BY DEF Init, Placed, Locked, Countable
<1>4. Fresh /\ FreshRows
  BY DEF Init, Fresh, FreshRows
<1>. QED
  BY <1>1, <1>2, <1>3, <1>4 DEF IInv, TypeOK

\* Every step keeps it.
LEMMA StepInv == IInv /\ [Next]_vars => IInv'
<1> SUFFICES ASSUME IInv, [Next]_vars PROVE IInv'
  OBVIOUS
<1>1. (TypeOK /\ Placed /\ Locked /\ Countable)'
  BY StepType, StepPlaced, StepLocked, StepCountable DEF IInv
<1>2. ASSUME Unspoilt' PROVE (Fresh /\ FreshRows)'
  BY <1>2, StaysSpoilt, StepFresh DEF IInv
<1>. QED
  BY <1>1, <1>2 DEF IInv

\* So it holds always.
LEMMA InvHolds == Spec => []IInv
  BY InitInv, StepInv, PTL DEF Spec

-----------------------------------------------------------------------------
(* The theorems.                                                           *)

\* Every variable keeps its type.
THEOREM TypeInvariant == Spec => []TypeOK
<1>1. IInv => TypeOK
  BY DEF IInv
<1>. QED
  BY <1>1, InvHolds, PTL

\* Nothing comes back from a clear, whatever saves, streams, adoptions, profile
\* switches and cut-off clears are under way, until somebody acts in a tab that
\* the clear has overtaken or what it removed is adopted again.
THEOREM ClearedTextStaysAway == Spec => []ClearedStaysCleared
<1>1. IInv => ClearedStaysCleared
  BY DEF IInv, ClearedStaysCleared, FreshRows
<1>. QED
  BY <1>1, InvHolds, PTL

\* No clear and no replay runs under a turn that was sent with the lock, though
\* people may send, without it, while one runs.
THEOREM ClearsWaitForTurns == Spec => []NoClearUnderAHeldTurn
<1>1. IInv => NoClearUnderAHeldTurn
  <2> SUFFICES ASSUME IInv, NEW t \in Tabs, NEW u \in Tabs, job[t] # Nothing,
                      turn[u] # Nothing
               PROVE  ~turn[u].held
    BY DEF NoClearUnderAHeldTurn
  <2>1. exclusive = t /\ t # NoTab
    BY NothingAssumption DEF IInv, Locked
  <2>2. shared = {}
    BY <2>1 DEF IInv, Locked
  <2>. QED
    BY <2>2 DEF IInv, Locked
<1>. QED
  BY <1>1, InvHolds, PTL

\* A tab that shows text of a cleared conversation will be told, however many
\* clears and replays were cut off at whatever step, until a clear is spoilt.
THEOREM CutOffClearsAreTold == Spec => []StaleViewIsNotified
<1>1. Init => NoticeInv
  <2>1. Init => Recorded /\ CompletedBehind /\ Told
    BY BoundsAssumption DEF Init, Recorded, CompletedBehind, Told, Stale
  <2>. QED
    BY <2>1, InitInv DEF NoticeInv
<1>2. NoticeInv /\ [Next]_vars => NoticeInv'
  <2> SUFFICES ASSUME NoticeInv, [Next]_vars PROVE NoticeInv'
    OBVIOUS
  <2>1. IInv'
    BY StepInv DEF NoticeInv
  <2>2. (Recorded /\ CompletedBehind)'
    BY StepRecorded DEF NoticeInv, IInv
  <2>3. ASSUME Unspoilt' PROVE Told'
    <3>1. TypeOK /\ Unspoilt
      BY <2>3, StaysSpoilt DEF NoticeInv, IInv
    <3>. QED
      BY <2>3, <3>1, StepTold DEF NoticeInv, IInv
  <2>. QED
    BY <2>1, <2>2, <2>3 DEF NoticeInv
<1>3. NoticeInv => StaleViewIsNotified
  BY DEF NoticeInv, Told, StaleViewIsNotified
<1>. QED
  BY <1>1, <1>2, <1>3, PTL DEF Spec
=============================================================================
