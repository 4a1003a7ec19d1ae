--------------------------- MODULE ConversationTabs ---------------------------
(***************************************************************************)
(* Browser tabs over one conversation database per profile                 *)
(* (web_ui/src/db/conv-protocol.ts, db/conversations.ts,                   *)
(* hooks/useConversations.ts, lib/session/inactivity.ts, session-clear.ts, *)
(* lib/storage/profile-switch.ts, the stream lifecycle of                  *)
(* pages/ChatPage.tsx).                                                    *)
(*                                                                         *)
(* A stored conversation is its AGE: the epoch of the database when its    *)
(* oldest message was written.  A clear empties the table and moves the    *)
(* epoch, so a row older than its database's epoch has come back from a    *)
(* clear.  An IndexedDB transaction, and a read, is one step.  The         *)
(* inactivity limit is not 0: the watch runs in every tab.                 *)
(*                                                                         *)
(* A storage event reaches every other tab later; `notices' counts those a *)
(* tab has not handled.  The Web Locks `docqa-session-active' are `shared' *)
(* and `exclusive'; a tab that dies loses its locks, its saves in flight   *)
(* and its events.                                                         *)
(*                                                                         *)
(* The conversations that an older build shared between all profiles are   *)
(* one row, that no older build writes any more.  In a profile it is as    *)
(* old as its first copy there.                                            *)
(*                                                                         *)
(* Scope selects what may happen besides:                                  *)
(*   "switch"   the profile is switched                                    *)
(*   "fail"     the transaction of a clear fails                           *)
(*   "legacy"   there are conversations of an older build                  *)
(***************************************************************************)
EXTENDS Integers, FiniteSets

CONSTANTS
    Tabs,
    Profiles,
    MaxEpoch,   \* bound: clears, as many as one profile has had
    MaxCuts,    \* bound: clears and replays that die or fail on their way
    MaxLate,    \* bound: acts of people in a tab that a clear has overtaken
    MaxSaves,   \* bound: saves in flight of a tab whose user sends
    Scope,
    NoTab,
    Nothing     \* null: no pending record, claim, text, turn, job, epoch

ASSUME BoundsAssumption ==
    MaxEpoch \in Nat /\ MaxCuts \in Nat /\ MaxLate \in Nat
ASSUME NothingAssumption == NoTab \notin Tabs /\ Nothing \notin Int
ASSUME PendingAssumption == Nothing \notin [profile: Profiles, goal: Nat]
ASSUME ClaimAssumption ==
    Nothing \notin [target: Profiles, epoch: Nat \cup {Nothing}]
ASSUME ScopeAssumption == Scope \subseteq {"switch", "fail", "legacy"}

VARIABLES
    epoch,      \* meta.epoch of each profile's database
    rows,       \* its conversations, each as its age
    pending,    \* the record's pending clear [profile, goal]
    completed,  \* the record's completed goal of each profile
    home,       \* PROFILE_KEY
    shared,     \* tabs that hold session-active in shared mode
    exclusive,  \* the tab that holds it exclusively
    legacy,     \* the shared database of older builds has conversations
    claim,      \* its claim [target, epoch]; the epoch goes when it is done
    marker,     \* the done marker in localStorage
    place,      \* "down", "starting" (adopts), "booting" or "open"
    adopt,      \* the adoption under way [target, epoch, first, step]
    copied,     \* history: the age of the older conversations in each profile
    readopted,  \* history: a copy has brought back what a clear had removed
    profile,    \* the profile whose database the document opened, or Nothing
    bound,      \* stateEpochRef
    view,       \* age of the text on screen
    listed,     \* conversations in the sidebar
    turn,       \* the turn in flight [age, sending, held]
    saves,      \* saves in flight [epoch, age, first]
    job,        \* the clear or replay the tab runs
    notices,    \* storage events it has not handled
    armed,      \* its inactivity timer runs
    cuts,
    late        \* acts of people in a tab that a clear had overtaken

stores == <<epoch, rows>>
record == <<pending, completed>>
older == <<legacy, claim, marker, adopt, copied, readopted>>
locks == <<shared, exclusive>>
screen == <<bound, view, listed>>
vars == <<epoch, rows, pending, completed, home, shared, exclusive, legacy,
          claim, marker, place, adopt, copied, readopted, profile, bound, view,
          listed, turn, saves, job, notices, armed, cuts, late>>

Epochs == 0..MaxEpoch
Ages == Epochs \cup {Nothing}

OlderTypeOK ==
    /\ legacy \in BOOLEAN /\ marker \in BOOLEAN
    /\ claim \in [target: Profiles, epoch: Epochs \cup {Nothing}] \cup {Nothing}
    /\ adopt \in [Tabs -> {Nothing} \cup
                    [target: Profiles, epoch: Epochs, first: BOOLEAN,
                     step: {"claimed", "copied", "marked"}]]
    /\ copied \in [Profiles -> Ages] /\ readopted \in BOOLEAN

TabsTypeOK ==
    /\ epoch \in [Profiles -> Epochs]
    /\ rows \in [Profiles -> SUBSET Epochs]
    /\ pending \in [profile: Profiles, goal: Epochs] \cup {Nothing}
    /\ completed \in [Profiles -> Epochs]
    /\ home \in Profiles
    /\ shared \subseteq Tabs /\ exclusive \in Tabs \cup {NoTab}
    /\ place \in [Tabs -> {"down", "starting", "booting", "open"}]
    /\ profile \in [Tabs -> Profiles \cup {Nothing}]
    /\ bound \in [Tabs -> Epochs]
    /\ view \in [Tabs -> Ages]
    /\ listed \in [Tabs -> SUBSET Epochs]
    /\ turn \in [Tabs -> [age: Epochs, sending: BOOLEAN, held: BOOLEAN]
                            \cup {Nothing}]
    /\ saves \in [Tabs -> SUBSET [epoch: Epochs, age: Epochs, first: BOOLEAN]]
    /\ job \in [Tabs -> {Nothing} \cup
                  [kind: {"clear", "replay", "boot"}, profile: Profiles,
                   goal: Epochs, step: {"held", "recorded", "applied"}]]
    /\ notices \in [Tabs -> Nat]
    /\ armed \in [Tabs -> BOOLEAN]
    /\ cuts \in 0..MaxCuts

TypeOK == TabsTypeOK /\ OlderTypeOK /\ late \in 0..MaxLate

Init ==
    /\ epoch = [p \in Profiles |-> 0]
    /\ rows \in [Profiles -> {{}, {0}}]
    /\ pending = Nothing
    /\ completed = [p \in Profiles |-> 0]
    /\ home \in Profiles
    /\ shared = {} /\ exclusive = NoTab
    /\ legacy \in BOOLEAN /\ (legacy => "legacy" \in Scope)
    /\ claim = Nothing /\ marker = FALSE
    /\ place = [t \in Tabs |-> "down"]
    /\ adopt = [t \in Tabs |-> Nothing]
    /\ copied = [p \in Profiles |-> Nothing] /\ readopted = FALSE
    /\ profile = [t \in Tabs |-> Nothing]
    /\ bound = [t \in Tabs |-> 0]
    /\ view = [t \in Tabs |-> Nothing]
    /\ listed = [t \in Tabs |-> {}]
    /\ turn = [t \in Tabs |-> Nothing]
    /\ saves = [t \in Tabs |-> {}]
    /\ job = [t \in Tabs |-> Nothing]
    /\ notices = [t \in Tabs |-> 0]
    /\ armed = [t \in Tabs |-> FALSE]
    /\ cuts = 0
    /\ late = 0

-----------------------------------------------------------------------------
(* Locks and the record.                                                   *)

Quiet == shared = {} /\ exclusive = NoTab

Streaming(t) == turn[t] # Nothing /\ ~turn[t].sending

\* Mutants: a database one epoch behind the goal counts as cleared; locks of
\* other tabs are not looked at; nobody is told.
BehindByTwo(p, goal) == epoch[p] + 1 < goal
FreeOfClears(t) == exclusive = NoTab
NotifyNobody(t, changed) == UNCHANGED notices

\* The database has not seen the clear: what makes it idempotent.
Behind(p, goal) == epoch[p] < goal

\* A recorded clear that its profile's completed goal does not cover.
ReplayDue == pending # Nothing /\ completed[pending.profile] < pending.goal

\* The exclusive lock is there for tab t, once its own shared one is gone.
QuietBut(t) == shared \subseteq {t} /\ exclusive = NoTab

\* Shared mode is asked for with ifAvailable: it is refused while a clear runs.
SharedWith(t) == IF exclusive = NoTab THEN shared \cup {t} ELSE shared

\* The activity listener: hold the lock and arm the timer.
Active(t) ==
    /\ shared' = SharedWith(t)
    /\ armed' = [armed EXCEPT ![t] = TRUE]

\* localStorage.setItem: other tabs get an event when the value changes.
Notify(t, changed) ==
    notices' = [u \in Tabs |->
        IF changed /\ u # t /\ place[u] # "down" THEN notices[u] + 1 ELSE notices[u]]

WriteLocked == \E t \in Tabs : job[t] # Nothing /\ job[t].step = "applied"

Current(t) == epoch[profile[t]]

\* Text on the screen that its database no longer has.
Stale(t) == place[t] = "open" /\ view[t] # Nothing /\ view[t] < Current(t)

\* A clear has overtaken tab t: it is under way, or has yet to be heard of.
Overtaken(t) == Stale(t) \/ notices[t] > 0 \/ exclusive # NoTab

\* A person at tab t.  A shared lock that is refused stops nobody.
UserAt(t) == place[t] = "open" /\ (Overtaken(t) => late < MaxLate)

-----------------------------------------------------------------------------
(* Boot: the lock of the inactivity watch first, then the adoption of what *)
(* older builds left, the replay, and the load.                            *)

Boot(t) ==
    /\ place[t] = "down"
    /\ place' = [place EXCEPT ![t] = "starting"]
    /\ profile' = [profile EXCEPT ![t] = home]
    /\ bound' = [bound EXCEPT ![t] = 0]
    /\ Active(t)
    /\ UNCHANGED <<older, stores, record, home, exclusive, view, listed, turn,
                   saves, job, notices, cuts>>

\* The adoption of a tab is under the migration lock unless it found the marker.
MigrationLocked == \E t \in Tabs : adopt[t] # Nothing /\ adopt[t].first

\* A claim is resumed by its target, and made for an empty profile.
Claimable(p) == IF claim = Nothing THEN rows[p] = {} ELSE claim.target = p

\* The epoch that the copy is bound to: the claim's, when it has one.
ClaimEpoch(p) ==
    IF claim # Nothing /\ claim.epoch # Nothing THEN claim.epoch ELSE epoch[p]

\* What is adopted, or deleted, is in the database of PROFILE_KEY's profile.
\* Under the marker the epoch is read anew, and no claim.
AdoptBegins(t) ==
    /\ place[t] = "starting" /\ adopt[t] = Nothing
    /\ legacy
    /\ marker \/ (~MigrationLocked /\ Claimable(home))
    /\ LET e == IF marker THEN epoch[home] ELSE ClaimEpoch(home) IN
       /\ adopt' = [adopt EXCEPT ![t] = [target |-> home, epoch |-> e,
                                         first |-> ~marker, step |-> "claimed"]]
       /\ claim' = IF marker THEN claim ELSE [target |-> home, epoch |-> e]
    /\ UNCHANGED <<stores, record, home, locks, copied, readopted, legacy,
                   marker, place, profile, screen, turn, saves, job, notices,
                   armed, cuts>>

\* There is nothing to adopt.
AdoptsNothing(t) ==
    /\ place[t] = "starting" /\ adopt[t] = Nothing
    /\ ~legacy
    /\ marker' = TRUE
    /\ place' = [place EXCEPT ![t] = "booting"]
    /\ UNCHANGED <<stores, record, home, locks, copied, readopted, legacy,
                   claim, adopt, profile, screen, turn, saves, job, notices,
                   armed, cuts>>

\* The adoption is refused, or one of its awaits fails: the boot goes on.
AdoptFails(t) ==
    /\ place[t] = "starting"
    /\ adopt' = [adopt EXCEPT ![t] = Nothing]
    /\ place' = [place EXCEPT ![t] = "booting"]
    /\ UNCHANGED <<stores, record, home, locks, copied, readopted, legacy,
                   claim, marker, profile, screen, turn, saves, job, notices,
                   armed, cuts>>

\* A second copy brings the same text.
AgeCopied(p) == IF copied[p] = Nothing THEN epoch[p] ELSE copied[p]

\* The copy, under the write lock, each page gated on the epoch it is bound to.
\* A clear that came between supersedes it and the claim.
AdoptCopies(t) ==
    /\ adopt[t] # Nothing /\ adopt[t].step = "claimed"
    /\ legacy /\ ~WriteLocked
    /\ LET p == adopt[t].target IN
       IF epoch[p] = adopt[t].epoch
       THEN /\ rows' = [rows EXCEPT ![p] = @ \cup {AgeCopied(p)}]
            /\ copied' = [copied EXCEPT ![p] = AgeCopied(p)]
            /\ readopted' = (readopted \/ AgeCopied(p) # epoch[p])
            /\ adopt' = [adopt EXCEPT ![t].step = "copied"]
            /\ UNCHANGED <<claim, place>>
       ELSE /\ claim' = IF adopt[t].first THEN Nothing ELSE claim
            /\ adopt' = [adopt EXCEPT ![t] = Nothing]
            /\ place' = [place EXCEPT ![t] = "booting"]
            /\ UNCHANGED <<rows, copied, readopted>>
    /\ UNCHANGED <<epoch, record, home, locks, legacy, marker, profile, screen,
                   turn, saves, job, notices, armed, cuts>>

\* The claim is done, and the marker set unless localStorage refuses it.
AdoptMarks(t) ==
    /\ adopt[t] # Nothing /\ adopt[t].step = "copied" /\ adopt[t].first
    /\ adopt' = [adopt EXCEPT ![t].step = "marked"]
    /\ claim' = [target |-> adopt[t].target, epoch |-> Nothing]
    /\ marker' \in {TRUE, marker}
    /\ UNCHANGED <<stores, record, home, locks, copied, readopted, legacy,
                   place, profile, screen, turn, saves, job, notices, armed,
                   cuts>>

\* The older database is deleted, its claim with it.
AdoptDeletes(t) ==
    /\ adopt[t] # Nothing
    /\ adopt[t].step = (IF adopt[t].first THEN "marked" ELSE "copied")
    /\ adopt' = [adopt EXCEPT ![t] = Nothing]
    /\ legacy' = FALSE /\ claim' = Nothing
    /\ copied' = [p \in Profiles |-> Nothing]
    /\ place' = [place EXCEPT ![t] = "booting"]
    /\ UNCHANGED <<stores, record, home, locks, readopted, marker, profile,
                   screen, turn, saves, job, notices, armed, cuts>>

Adopts(t) ==
    \/ AdoptBegins(t) \/ AdoptsNothing(t) \/ AdoptFails(t)
    \/ AdoptCopies(t) \/ AdoptMarks(t) \/ AdoptDeletes(t)

BootReplays(t) ==
    /\ place[t] = "booting" /\ job[t] = Nothing
    /\ ReplayDue /\ Quiet
    /\ exclusive' = t
    /\ job' = [job EXCEPT ![t] = [kind |-> "boot", profile |-> pending.profile,
                                  goal |-> pending.goal, step |-> "recorded"]]
    /\ UNCHANGED <<older, stores, record, home, shared, place, profile, screen,
                   turn, saves, notices, armed, cuts>>

\* The newest conversation is shown again.
BootLoads(t) ==
    /\ place[t] = "booting" /\ job[t] = Nothing
    /\ ~(ReplayDue /\ Quiet)
    /\ place' = [place EXCEPT ![t] = "open"]
    /\ bound' = [bound EXCEPT ![t] = Current(t)]
    /\ listed' = [listed EXCEPT ![t] = rows[profile[t]]]
    /\ \E a \in IF rows[profile[t]] = {} THEN {Nothing} ELSE rows[profile[t]] :
           view' = [view EXCEPT ![t] = a]
    /\ UNCHANGED <<older, stores, record, home, locks, profile, turn, saves,
                   job, notices, armed, cuts>>

-----------------------------------------------------------------------------
(* The person: turns, selections, new chats.                               *)

\* Text that continues what is on screen is as old as that.
AgeOnScreen(t) == IF view[t] = Nothing THEN Current(t) ELSE view[t]

\* A save carries the epoch that the state on screen is bound to.
Save(t, e, a, first) ==
    [saves EXCEPT ![t] = @ \cup {[epoch |-> e, age |-> a, first |-> first]}]

\* handleSend: the question is saved, and awaited, before the answer streams.
Send(t) ==
    /\ UserAt(t)
    /\ turn[t] = Nothing /\ Cardinality(saves[t]) < MaxSaves
    /\ Active(t)
    /\ turn' = [turn EXCEPT ![t] = [age |-> AgeOnScreen(t), sending |-> TRUE,
                                   held |-> t \in SharedWith(t)]]
    /\ view' = [view EXCEPT ![t] = AgeOnScreen(t)]
    /\ saves' = Save(t, bound[t], AgeOnScreen(t), TRUE)
    /\ UNCHANGED <<older, stores, record, home, exclusive, place, profile,
                   bound, listed, job, notices, cuts>>

\* Mutant: the epoch is not compared.
AdmittedAlways(t, s) == TRUE

\* The gate: the transaction re-reads the epoch, a stale write is dropped.
Admitted(t, s) == s.epoch = Current(t)

\* One save's transaction, under the write lock.  After the send-time save the
\* stream starts whether or not that save was applied.
Land(t, s) ==
    /\ s \in saves[t]
    /\ ~WriteLocked
    /\ rows' = IF Admitted(t, s) THEN [rows EXCEPT ![profile[t]] = @ \cup {s.age}]
               ELSE rows
    /\ listed' = IF Admitted(t, s) THEN [listed EXCEPT ![t] = rows'[profile[t]]]
                 ELSE listed
    /\ saves' = [saves EXCEPT ![t] = @ \ {s}]
    /\ turn' = IF s.first /\ turn[t] # Nothing
               THEN [turn EXCEPT ![t].sending = FALSE] ELSE turn
    /\ UNCHANGED <<older, epoch, record, home, locks, place, profile, bound,
                   view, job, notices, armed, cuts>>

\* What the turn has become: a token extends the messages on screen, so that
\* they take the place of the ones sent when the screen has changed since.
Kept(t) == {turn[t].age, view[t]}

\* Nothing is saved of an emptied turn.
SaveKept(t, e, a) == saves' = IF a = Nothing THEN saves ELSE Save(t, e, a, FALSE)

\* Done, error or Stop: the turn is saved with the epoch bound by then, and is
\* on screen when its conversation is.
Finish(t) ==
    /\ Streaming(t)
    /\ turn' = [turn EXCEPT ![t] = Nothing]
    /\ \E a \in Kept(t) :
           /\ SaveKept(t, bound[t], a)
           /\ \E shown \in IF view[t] = Nothing THEN {Nothing, a} ELSE {view[t]} :
                  view' = [view EXCEPT ![t] = shown]
    /\ UNCHANGED <<older, stores, record, home, locks, place, profile, bound,
                   listed, job, notices, armed, cuts>>

\* Leaving a conversation saves the partial turn of its stream and cancels it;
\* the epoch has been bound anew by then.
LeaveTurn(t) ==
    IF Streaming(t)
    THEN /\ turn' = [turn EXCEPT ![t] = Nothing]
         /\ \E a \in Kept(t) : SaveKept(t, Current(t), a)
    ELSE UNCHANGED <<turn, saves>>

Rebind(t) == [bound EXCEPT ![t] = Current(t)]

NewChat(t) ==
    /\ UserAt(t)
    /\ view[t] # Nothing
    /\ Active(t)
    /\ bound' = Rebind(t)
    /\ view' = [view EXCEPT ![t] = Nothing]
    /\ LeaveTurn(t)
    /\ UNCHANGED <<older, stores, record, home, exclusive, place, profile,
                   listed, job, notices, cuts>>

\* selectConversation binds first, then fetches: a conversation that is gone
\* leaves the screen as it was.
Select(t, a) ==
    /\ UserAt(t)
    /\ a \in listed[t]
    /\ Active(t)
    /\ bound' = Rebind(t)
    /\ IF a \in rows[profile[t]]
       THEN view' = [view EXCEPT ![t] = a] /\ LeaveTurn(t)
       ELSE UNCHANGED <<view, turn, saves>>
    /\ UNCHANGED <<older, stores, record, home, exclusive, place, profile,
                   listed, job, notices, cuts>>

\* removeConversation: gated like a save.
Remove(t, a) ==
    /\ UserAt(t)
    /\ a \in listed[t] /\ ~WriteLocked
    /\ turn[t] = Nothing
    /\ Active(t)
    /\ IF bound[t] = Current(t)
       THEN /\ rows' = [rows EXCEPT ![profile[t]] = @ \ {a}]
            /\ listed' = [listed EXCEPT ![t] = rows'[profile[t]]]
            /\ view' = IF view[t] = a THEN [view EXCEPT ![t] = Nothing] ELSE view
       ELSE UNCHANGED <<rows, listed, view>>
    /\ UNCHANGED <<older, epoch, record, home, exclusive, place, profile,
                   bound, turn, saves, job, notices, cuts>>

-----------------------------------------------------------------------------
(* The inactivity clear and the replay of one that was cut off.            *)

\* A clear may begin, by the bound.
ClearsLeft == \A p \in Profiles : epoch[p] < MaxEpoch

IdleTab(t) == place[t] = "open" /\ armed[t] /\ job[t] = Nothing /\ turn[t] = Nothing

\* The replay's request is queued before the release of the tab's own shared
\* lock (release() only resolves the promise the lock waits for).
IdleReplays(t) ==
    /\ IdleTab(t)
    /\ ReplayDue /\ Quiet
    /\ exclusive' = t
    /\ job' = [job EXCEPT ![t] = [kind |-> "replay", profile |-> pending.profile,
                                  goal |-> pending.goal, step |-> "recorded"]]
    /\ UNCHANGED <<older, stores, record, home, shared, place, profile, screen,
                   turn, saves, notices, armed, cuts>>

\* Otherwise a clear of the profile in PROFILE_KEY, when nobody else is active.
IdleClears(t) ==
    /\ IdleTab(t)
    /\ ~(ReplayDue /\ Quiet)
    /\ QuietBut(t)
    /\ ClearsLeft
    /\ shared' = {}
    /\ exclusive' = t
    /\ job' = [job EXCEPT ![t] = [kind |-> "clear", profile |-> home, goal |-> 0,
                                  step |-> "held"]]
    /\ UNCHANGED <<older, stores, record, home, place, profile, screen, turn,
                   saves, notices, armed, cuts>>

\* Under a turn the timer takes the lock, should the tab not hold it; deferred
\* by others, the tab lets its own go.  Either way it looks again later.
IdleStays(t) ==
    /\ place[t] = "open" /\ armed[t] /\ job[t] = Nothing
    /\ \/ turn[t] # Nothing
       \/ ~(ReplayDue /\ Quiet) /\ (~QuietBut(t) \/ ~ClearsLeft)
    /\ shared' = IF turn[t] # Nothing THEN SharedWith(t) ELSE shared \ {t}
    /\ UNCHANGED <<older, stores, record, home, exclusive, place, profile,
                   screen, turn, saves, job, notices, armed, cuts>>

\* The registered handler of ChatPage: cancel the stream, empty the screen.
\* A turn whose send-time save is awaited is not cancelled.
HandlersRun(t) ==
    /\ view' = [view EXCEPT ![t] = Nothing]
    /\ turn' = IF Streaming(t) THEN [turn EXCEPT ![t] = Nothing] ELSE turn

\* Mutant: the sidebar is emptied, the page keeps its messages.
ResetSidebar(t) ==
    /\ listed' = [listed EXCEPT ![t] = {}]
    /\ bound' = Rebind(t)
    /\ UNCHANGED <<view, turn>>

ResetTab(t) ==
    /\ HandlersRun(t)
    /\ listed' = [listed EXCEPT ![t] = {}]
    /\ bound' = Rebind(t)

\* beforeClear, the goal, and the record that the other tabs hear of.
Record(t) ==
    /\ job[t] # Nothing /\ job[t].step = "held"
    /\ LET goal == epoch[job[t].profile] + 1
           clear == [profile |-> job[t].profile, goal |-> goal]
       IN /\ job' = [job EXCEPT ![t].goal = goal, ![t].step = "recorded"]
          /\ pending' = clear
          /\ Notify(t, pending # clear)
    /\ HandlersRun(t)
    /\ UNCHANGED <<older, stores, completed, home, locks, place, profile,
                   bound, listed, saves, armed, cuts>>

\* The epoch transaction.
Apply(t) ==
    /\ job[t] # Nothing /\ job[t].step = "recorded"
    /\ job' = [job EXCEPT ![t].step = "applied"]
    /\ LET p == job[t].profile IN
       IF Behind(p, job[t].goal)
       THEN /\ epoch' = [epoch EXCEPT ![p] = job[t].goal]
            /\ rows' = [rows EXCEPT ![p] = {}]
       ELSE UNCHANGED stores
    /\ UNCHANGED <<older, record, home, locks, place, profile, screen, turn,
                   saves, notices, armed, cuts>>

\* markCompleted, the end of the exclusive section, and the reset of this tab.
Complete(t) ==
    /\ job[t] # Nothing /\ job[t].step = "applied"
    /\ pending' = Nothing
    /\ completed' = [completed EXCEPT ![job[t].profile] =
                        IF @ < job[t].goal THEN job[t].goal ELSE @]
    /\ Notify(t, TRUE)
    /\ exclusive' = NoTab
    /\ job' = [job EXCEPT ![t] = Nothing]
    /\ IF job[t].kind = "boot"
       THEN UNCHANGED <<screen, turn, armed>>
       ELSE ResetTab(t) /\ armed' = [armed EXCEPT ![t] = TRUE]
    /\ UNCHANGED <<older, stores, home, shared, place, profile, saves, cuts>>

\* The transaction fails: the record stays.  A clear's rejection reaches the
\* timer callback, which arms nothing; a replay's is caught.
ApplyFails(t) ==
    /\ "fail" \in Scope
    /\ job[t] # Nothing /\ job[t].step = "recorded"
    /\ cuts < MaxCuts
    /\ cuts' = cuts + 1
    /\ exclusive' = NoTab
    /\ job' = [job EXCEPT ![t] = Nothing]
    /\ armed' = [armed EXCEPT ![t] = job[t].kind # "clear" /\ @]
    /\ UNCHANGED <<older, stores, record, home, shared, place, profile, screen,
                   turn, saves, notices>>

\* The storage event: handlers, then the state with a fresh epoch.
Notified(t) ==
    /\ notices[t] > 0
    /\ notices' = [notices EXCEPT ![t] = @ - 1]
    /\ ResetTab(t)
    /\ UNCHANGED <<older, stores, record, home, locks, place, profile, saves,
                   job, armed, cuts>>

-----------------------------------------------------------------------------
(* The end of a document.                                                  *)

Gone(t) ==
    /\ place' = [place EXCEPT ![t] = "down"]
    /\ profile' = [profile EXCEPT ![t] = Nothing]
    /\ shared' = shared \ {t}
    /\ exclusive' = IF exclusive = t THEN NoTab ELSE exclusive
    /\ bound' = [bound EXCEPT ![t] = 0]
    /\ view' = [view EXCEPT ![t] = Nothing]
    /\ listed' = [listed EXCEPT ![t] = {}]
    /\ turn' = [turn EXCEPT ![t] = Nothing]
    /\ saves' = [saves EXCEPT ![t] = {}]
    /\ job' = [job EXCEPT ![t] = Nothing]
    /\ notices' = [notices EXCEPT ![t] = 0]
    /\ armed' = [armed EXCEPT ![t] = FALSE]
    /\ adopt' = [adopt EXCEPT ![t] = Nothing]
    /\ UNCHANGED <<stores, record, legacy, claim, marker, copied, readopted>>

Close(t) ==
    /\ place[t] # "down" /\ job[t] = Nothing
    /\ Gone(t)
    /\ UNCHANGED <<home, cuts>>

\* A tab that dies in the exclusive section, at any of its steps.
Die(t) ==
    /\ job[t] # Nothing
    /\ cuts < MaxCuts
    /\ cuts' = cuts + 1
    /\ Gone(t)
    /\ UNCHANGED home

\* switchProfile: PROFILE_KEY, then the reload of this tab only.
Switch(t, p) ==
    /\ "switch" \in Scope
    /\ UserAt(t)
    /\ p # home
    /\ home' = p
    /\ Gone(t)
    /\ UNCHANGED cuts

-----------------------------------------------------------------------------
User(t) ==
    /\ late' = IF Overtaken(t) THEN late + 1 ELSE late
    /\ \/ Send(t) \/ NewChat(t)
       \/ \E a \in Epochs : Select(t, a) \/ Remove(t, a)
       \/ \E p \in Profiles : Switch(t, p)

Idle(t) == (IdleReplays(t) \/ IdleClears(t) \/ IdleStays(t)) /\ UNCHANGED late

\* What the browser does by itself.
Work(t) ==
    /\ \/ Adopts(t) \/ BootReplays(t) \/ BootLoads(t)
       \/ \E s \in saves[t] : Land(t, s)
       \/ Record(t) \/ Apply(t) \/ Complete(t) \/ Notified(t)
    /\ UNCHANGED late

\* What happens to it.
Happens(t) ==
    /\ Boot(t) \/ Finish(t) \/ ApplyFails(t) \/ Close(t) \/ Die(t)
    /\ UNCHANGED late

Next == \E t \in Tabs : User(t) \/ Idle(t) \/ Work(t) \/ Happens(t)

Spec == Init /\ [][Next]_vars

\* The browser fires its timers, lands its transactions and delivers its
\* events; nothing obliges a person, or a stream.
Fairness == \A t \in Tabs : WF_vars(Work(t)) /\ WF_vars(Idle(t))

FairSpec == Spec /\ Fairness

-----------------------------------------------------------------------------
(* Properties.                                                             *)

\* The two ways that cleared text does come back have not been taken: nobody
\* has acted in a tab that a clear had overtaken, and nothing was adopted again.
Unspoilt == late = 0 /\ ~readopted

\* No conversation comes back from a clear in any other way: no row is older
\* than its database, whatever saves, streams, adoptions, tabs and cut-off
\* clears were under way.
ClearedStaysCleared ==
    Unspoilt => \A p \in Profiles : rows[p] \subseteq {epoch[p]}

\* No clear and no replay runs under a turn that was sent with the lock, also
\* when people send while it runs: theirs are the turns that were refused it.
NoClearUnderAHeldTurn == \A t, u \in Tabs :
    job[t] # Nothing /\ turn[u] # Nothing => ~turn[u].held

\* "An idle tab can never clear under an active colleague".
NoClearUnderATurn ==
    \A t \in Tabs : job[t] # Nothing => \A u \in Tabs : turn[u] = Nothing

\* A tab that shows text of a cleared conversation will lose it: its event is
\* under way, a clear that will send one runs, or the record still owes one.
StaleViewIsNotified == Unspoilt => \A t \in Tabs :
    Stale(t) => notices[t] > 0 \/ ReplayDue \/ \E u \in Tabs : job[u] # Nothing

\* "No resurrection is possible": the conversations of older builds are not
\* copied again after a clear has removed them.
NoResurrection == ~readopted

\* Nobody acts in a tab that a clear has overtaken; from some point on nobody is
\* at work, and the timer of some tab runs.
QuietWatched ==
    /\ [](late = 0)
    /\ <>[](shared = {})
    /\ <>[](\E t \in Tabs : place[t] = "open" /\ armed[t])

\* A recorded clear happens: the watch of a quiet tab replays the one that was
\* cut off.
PendingClearsHappen == QuietWatched => \A p \in Profiles, goal \in Epochs :
    pending = [profile |-> p, goal |-> goal] ~> epoch[p] >= goal

\* Text of a cleared conversation leaves every screen, also when the tab that
\* cleared died before it could tell the others.
ClearSpreads == QuietWatched => \A t \in Tabs : Stale(t) ~> ~Stale(t)

\* The boot that finds a pending clear resolves it before it loads: no tab
\* opens over a conversation that a recorded clear was to remove.
BootShowsNothingPending == [][\A t \in Tabs :
    place[t] = "booting" /\ place'[t] = "open" /\ ReplayDue
        /\ pending.profile = profile[t]
        /\ (\A u \in Tabs \ {t} : place[u] = "down")
    => view'[t] = Nothing]_vars
=============================================================================
