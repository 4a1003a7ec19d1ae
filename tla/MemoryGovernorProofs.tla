------------------------ MODULE MemoryGovernorProofs ------------------------
(***************************************************************************)
(* What the generation scheduler and the memory governance around it       *)
(* guarantee for all clients, ingests, slots, windows and bounds.          *)
(***************************************************************************)
EXTENDS MemoryGovernor, FunctionTheorems, FiniteSetTheorems, SequenceTheorems, TLAPS

-----------------------------------------------------------------------------
(* The scheduler.                                                          *)

SchedInv == SchedTypeOK /\ SlotsAreUsed

\* The first n elements of a sequence without repetition are n.
LEMMA PrefixCounts ==
    ASSUME NEW S, NEW q \in Seq(S), \A j, k \in DOMAIN q : q[j] = q[k] => j = k,
           NEW n \in 0..Len(q)
    PROVE  /\ IsFiniteSet({q[k] : k \in 1..n})
           /\ Cardinality({q[k] : k \in 1..n}) = n
<1> DEFINE first == {q[k] : k \in 1..n}
           f == [k \in 1..n |-> q[k]]
<1>1. Len(q) \in Nat /\ DOMAIN q = 1..Len(q)
  BY LenProperties
<1>2. n \in Nat /\ 1..n \subseteq DOMAIN q
  BY <1>1
<1>3. f \in [1..n -> first]
  OBVIOUS
<1>4. \A j, k \in 1..n : f[j] = f[k] => j = k
  BY <1>2
<1>5. \A x \in first : \E k \in 1..n : f[k] = x
  OBVIOUS
<1>6. f \in Bijection(1..n, first)
  BY <1>3, <1>4, <1>5, Fun_IsBij
<1>7. IsFiniteSet(1..n) /\ Cardinality(1..n) = n
  BY <1>2, FS_Interval
<1> QED
  BY <1>6, <1>7, FS_Bijection DEF ExistsBijection

\* pump leaves at most maxConcurrentGenerations in flight, and a queue only
\* behind as many.
LEMMA PumpKeeps ==
    ASSUME NEW q \in Seq(Clients), NEW r \in SUBSET Clients,
           \A j, k \in DOMAIN q : q[j] = q[k] => j = k,
           \A k \in DOMAIN q : q[k] \notin r,
           Cardinality(r) <= MaxConcurrent, Pump(q, r)
    PROVE  /\ queue' \in Seq(Clients) /\ running' \in SUBSET Clients
           /\ \A j, k \in DOMAIN queue' : queue'[j] = queue'[k] => j = k
           /\ Queued' \cap running' = {}
           /\ SlotsAreUsed'
<1> DEFINE n == IF Len(q) <= Slots(r) THEN Len(q) ELSE Slots(r)
           first == {q[k] : k \in 1..n}
<1>1. Len(q) \in Nat /\ DOMAIN q = 1..Len(q) /\ \A k \in 1..Len(q) : q[k] \in Clients
  BY LenProperties, ElementOfSeq
<1>2. IsFiniteSet(r) /\ Cardinality(r) \in Nat
  BY ClientsAssumption, FS_Subset, FS_CardinalityType
<1>3. /\ n \in 0..Len(q) /\ n \in Nat /\ Cardinality(r) + n <= MaxConcurrent
      /\ n # Len(q) => Cardinality(r) + n = MaxConcurrent
  BY <1>1, <1>2, MaxConcurrentAssumption DEF Slots
<1>4. queue' = SubSeq(q, n + 1, Len(q)) /\ running' = r \cup first
  BY DEF Pump, TakeFirst
<1>n. n \in Nat /\ Len(q) \in Nat /\ n <= Len(q)
  BY <1>1, <1>2, MaxConcurrentAssumption DEF Slots
<1> HIDE DEF n
<1>5. IsFiniteSet(first) /\ Cardinality(first) = n
  BY <1>3, PrefixCounts
<1>e. \A k \in 1..n : k \in 1..Len(q)
  BY <1>n
<1>f. \A x \in first : x \notin r /\ x \in Clients
  BY <1>1, <1>e
<1>6. r \cap first = {}
  BY <1>f
<1>7. Cardinality(running') = Cardinality(r) + n
  <2>1. Cardinality(r \cup first) = Cardinality(r) + Cardinality(first) - Cardinality(r \cap first)
    BY <1>2, <1>5, FS_Union
  <2>2. Cardinality(r \cap first) = 0
    BY <1>6, FS_EmptySet
  <2> QED
    BY <1>2, <1>3, <1>4, <1>5, <2>1, <2>2
<1>8. /\ queue' \in Seq(Clients) /\ Len(queue') = Len(q) - n
      /\ \A j \in 1..(Len(q) - n) : queue'[j] = q[n + j]
  <2> DEFINE a == n + 1
  <2>1. a \in Int /\ Len(q) \in Int /\ \A j \in a..Len(q) : q[j] \in Clients
    <3>1. \A j \in a..Len(q) : j \in 1..Len(q)
      BY <1>n
    <3>2. a \in Int /\ Len(q) \in Int
      BY <1>n
    <3> QED
      BY <1>1, <3>1, <3>2
  <2> HIDE DEF a
  <2>2. /\ SubSeq(q, a, Len(q)) \in Seq(Clients)
        /\ Len(SubSeq(q, a, Len(q))) = IF a <= Len(q) THEN Len(q) - a + 1 ELSE 0
        /\ \A j \in 1..(Len(q) - a + 1) : SubSeq(q, a, Len(q))[j] = q[a + j - 1]
    BY <2>1, SubSeqProperties
  <2>3. /\ (IF a <= Len(q) THEN Len(q) - a + 1 ELSE 0) = Len(q) - n
        /\ Len(q) - a + 1 = Len(q) - n
        /\ \A j \in 1..(Len(q) - n) : a + j - 1 = n + j
    BY <1>n DEF a
  <2>4. queue' = SubSeq(q, a, Len(q))
    BY <1>4 DEF a
  <2> QED
    BY <2>2, <2>3, <2>4
<1>9. DOMAIN queue' = 1..(Len(q) - n)
  BY <1>8, LenProperties
<1>10. /\ \A j \in 1..(Len(q) - n) : n + j \in 1..Len(q) /\ n + j \notin 1..n
       /\ \A j, k \in 1..(Len(q) - n) : n + j = n + k => j = k
  BY <1>n
<1>11. \A j, k \in DOMAIN queue' : queue'[j] = queue'[k] => j = k
  <2> SUFFICES ASSUME NEW j \in 1..(Len(q) - n), NEW k \in 1..(Len(q) - n), queue'[j] = queue'[k]
               PROVE  j = k
    BY <1>9
  <2>1. q[n + j] = q[n + k]
    BY <1>8
  <2>2. n + j = n + k
    BY <1>1, <1>10, <2>1
  <2> QED
    BY <1>10, <2>2
<1>12. Queued' \cap running' = {}
  <2> SUFFICES ASSUME NEW j \in 1..(Len(q) - n) PROVE queue'[j] \notin r \cup first
    BY <1>4, <1>9 DEF Queued
  <2>1. queue'[j] = q[n + j] /\ n + j \in DOMAIN q /\ n + j \notin 1..n
    BY <1>1, <1>8, <1>10
  <2>2. q[n + j] \notin first
    BY <1>1, <1>e, <2>1
  <2> QED
    BY <2>1, <2>2
<1>13. SlotsAreUsed'
  <2>1. Len(q) = n => queue' = <<>>
    BY <1>8, EmptySeq, <1>1, <1>3
  <2> QED
    BY <1>3, <1>7, <2>1, <1>2, MaxConcurrentAssumption DEF SlotsAreUsed
<1>14. running' \in SUBSET Clients
  BY <1>4, <1>f
<1> QED
  BY <1>8, <1>11, <1>12, <1>13, <1>14

\* What clients, ingests and ends of generations do to the scheduler.
LEMMA ScheduleKeeps == SchedInv /\ (Request \/ Completion) => SchedInv'
<1> SUFFICES ASSUME SchedInv, Request \/ Completion PROVE SchedInv'
  OBVIOUS
<1>a. /\ queue \in Seq(Clients) /\ running \in SUBSET Clients
      /\ \A j, k \in DOMAIN queue : queue[j] = queue[k] => j = k
      /\ \A k \in DOMAIN queue : queue[k] \notin running
      /\ Len(queue) \in Nat /\ DOMAIN queue = 1..Len(queue)
  BY LenProperties DEF SchedInv, SchedTypeOK, Queued
<1>b. IsFiniteSet(running) /\ Cardinality(running) \in Nat /\ Cardinality(running) <= MaxConcurrent
  BY <1>a, ClientsAssumption, FS_Subset, FS_CardinalityType DEF SchedInv, SlotsAreUsed
<1>1. ASSUME NEW c \in Clients, RunGeneration(c) PROVE SchedInv'
  <2> DEFINE q == Append(queue, c)
  <2>1. Pump(q, running) /\ ingest' = ingest /\ c \notin running \cup Queued
    BY <1>1 DEF RunGeneration
  <2>2. /\ q \in Seq(Clients) /\ Len(q) = Len(queue) + 1 /\ q[Len(queue) + 1] = c
        /\ \A i \in 1..Len(queue) : q[i] = queue[i]
    BY <1>a, AppendProperties
  <2>3. DOMAIN q = 1..(Len(queue) + 1)
    BY <2>2, LenProperties
  <2> HIDE DEF q
  <2>4. \A k \in DOMAIN q : (k \in 1..Len(queue) /\ q[k] = queue[k]) \/ (k = Len(queue) + 1 /\ q[k] = c)
    BY <1>a, <2>2, <2>3
  <2>5. \A k \in 1..Len(queue) : queue[k] # c
    BY <1>a, <2>1 DEF Queued
  <2>6. /\ \A j, k \in DOMAIN q : q[j] = q[k] => j = k
        /\ \A k \in DOMAIN q : q[k] \notin running
    BY <1>a, <2>1, <2>4, <2>5
  <2> QED
    BY <1>a, <1>b, <2>1, <2>2, <2>6, PumpKeeps DEF SchedInv, SchedTypeOK
<1>2. ASSUME NEW c \in Clients, Finish(c) PROVE SchedInv'
  <2> DEFINE r == running \ {c}
  <2>1. Pump(queue, r) /\ ingest' \in [Ingests -> {"idle", "paused", "embedding"}]
    BY <1>2 DEF Finish, SchedInv, SchedTypeOK
  <2>2. r \in SUBSET Clients /\ \A k \in DOMAIN queue : queue[k] \notin r
    BY <1>a
  <2>3. Cardinality(r) <= MaxConcurrent
    <3>1. Cardinality(r) = Cardinality(running) \/ Cardinality(r) = Cardinality(running) - 1
      BY <1>b, FS_RemoveElement
    <3> QED
      BY <1>b, <3>1, MaxConcurrentAssumption
  <2> HIDE DEF r
  <2> QED
    BY <1>a, <2>1, <2>2, <2>3, PumpKeeps DEF SchedInv, SchedTypeOK
<1>3. ASSUME NEW i \in Ingests, BeginEmbed(i) \/ EndEmbed(i) PROVE SchedInv'
  <2>1. queue' = queue /\ running' = running
    BY <1>3 DEF BeginEmbed, EndEmbed
  <2>2. ingest' \in [Ingests -> {"idle", "paused", "embedding"}]
    BY <1>3 DEF BeginEmbed, EndEmbed, SchedInv, SchedTypeOK
  <2> QED
    BY <2>1, <2>2 DEF SchedInv, SchedTypeOK, SlotsAreUsed, Queued
<1> QED
  BY <1>1, <1>2, <1>3 DEF Request, Completion

\* A scheduler with nothing queued, and at most the generations it had.
LEMMA EmptiedKeeps ==
    ASSUME SchedInv, queue' = <<>>, running' = running \/ running' = {},
           ingest' \in [Ingests -> {"idle", "paused", "embedding"}]
    PROVE  SchedInv'
<1>1. queue' \in Seq(Clients) /\ DOMAIN queue' = {}
  BY EmptySeq
<1>2. running' \in SUBSET Clients /\ Cardinality(running') <= MaxConcurrent
  <2>1. Cardinality({}) = 0
    BY FS_EmptySet
  <2>2. CASE running' = running
    BY <2>2 DEF SchedInv, SchedTypeOK, SlotsAreUsed
  <2>3. CASE running' = {}
    BY <2>1, <2>3, MaxConcurrentAssumption
  <2> QED
    BY <2>2, <2>3
<1> QED
  BY <1>1, <1>2 DEF SchedInv, SchedTypeOK, SlotsAreUsed, Queued

-----------------------------------------------------------------------------
(* The governance.                                                         *)

Monitors == [pressure : Ages(PressureWindow), recovery : Ages(RecoveryWindow),
             downgraded : BOOLEAN, eligible : BOOLEAN]

\* No tick of a later epoch is under way.
LaterIsQuiet == \A e \in Epochs : e > epoch => ticks[e] = 0

\* The sampler of a host that is not up has no tick.
DownIsQuiet == host # "up" => ~inflight

\* A recovery that is latched still lasts.
RecoveryLasts(m) == m.eligible => Reached(m.recovery, RecoveryWindow)

IInv == /\ SchedInv /\ GovTypeOK /\ OneTickAtATime /\ OverrideFollowsMonitor
        /\ LaterIsQuiet /\ DownIsQuiet /\ RecoveryLasts(monitor)

LEMMA AgesGrow ==
    ASSUME NEW w \in Nat \ {0}, NEW a \in Ages(w)
    PROVE  /\ Older(a, w) \in Ages(w) /\ From0(a) \in Ages(w)
           /\ Reached(a, w) => Reached(Older(a, w), w)
           /\ Reached(From0(a), w) => Reached(a, w)
           /\ Reached(a, w) => From0(a) = a
  BY NeverAssumption DEF Ages, Older, From0, Reached

\* One sample: what the monitor becomes, and why it downgrades or is eligible.
LEMMA SampleKeeps ==
    ASSUME NEW m \in Monitors, NEW below \in BOOLEAN, RecoveryLasts(m),
           NEW o, o = Observed(m, below), NEW d, d = Evaluated(o)
    PROVE  /\ d \in Monitors /\ RecoveryLasts(d)
           /\ d.downgraded /\ ~m.downgraded => below /\ Reached(d.pressure, PressureWindow)
           /\ m.downgraded => d.downgraded
           /\ d.eligible => ~below /\ Reached(m.recovery, RecoveryWindow)
<1>1. /\ m.pressure \in Ages(PressureWindow) /\ m.recovery \in Ages(RecoveryWindow)
      /\ m.downgraded \in BOOLEAN /\ m.eligible \in BOOLEAN
  BY DEF Monitors
<1>2. Never \in Ages(PressureWindow) /\ Never \in Ages(RecoveryWindow)
  BY DEF Ages
<1>3. /\ o \in Monitors
      /\ o.downgraded = m.downgraded
      /\ o.pressure = IF below THEN From0(m.pressure) ELSE Never
      /\ o.recovery = IF below THEN Never
                      ELSE IF m.downgraded THEN From0(m.recovery) ELSE m.recovery
      /\ o.eligible = IF below THEN FALSE ELSE m.eligible
  <2>1. From0(m.pressure) \in Ages(PressureWindow) /\ From0(m.recovery) \in Ages(RecoveryWindow)
    BY <1>1, AgesGrow, WindowsAssumption
  <2>2. CASE below
    <3>1. o = [m EXCEPT !.recovery = Never, !.eligible = FALSE, !.pressure = From0(@)]
      BY <2>2 DEF Observed
    <3> QED
      BY <1>1, <1>2, <2>1, <2>2, <3>1 DEF Monitors
  <2>3. CASE ~below
    <3>1. o = [m EXCEPT !.pressure = Never,
                        !.recovery = IF m.downgraded THEN From0(@) ELSE @]
      BY <2>3 DEF Observed
    <3> QED
      BY <1>1, <1>2, <2>1, <2>3, <3>1 DEF Monitors
  <2> QED
    BY <2>2, <2>3
<1>4. /\ d \in Monitors
      /\ d.pressure = o.pressure /\ d.recovery = o.recovery
      /\ d.downgraded = (o.downgraded \/ Reached(o.pressure, PressureWindow))
      /\ d.eligible = (o.eligible \/ (d.downgraded /\ Reached(o.recovery, RecoveryWindow)))
  <2> DEFINE down == o.downgraded \/ Reached(o.pressure, PressureWindow)
             elig == o.eligible \/ (down /\ Reached(o.recovery, RecoveryWindow))
  <2>1. d = [o EXCEPT !.downgraded = down, !.eligible = elig]
    BY DEF Evaluated
  <2>2. down \in BOOLEAN /\ elig \in BOOLEAN
    OBVIOUS
  <2> HIDE DEF down, elig
  <2>3. /\ d \in Monitors /\ d.pressure = o.pressure /\ d.recovery = o.recovery
        /\ d.downgraded = down /\ d.eligible = elig
    BY <1>3, <2>1, <2>2 DEF Monitors
  <2> QED
    BY <2>3 DEF down, elig
<1>5. ~Reached(Never, RecoveryWindow) /\ ~Reached(Never, PressureWindow)
  BY DEF Reached
<1>6. /\ Reached(From0(m.recovery), RecoveryWindow) => Reached(m.recovery, RecoveryWindow)
      /\ Reached(m.recovery, RecoveryWindow) => From0(m.recovery) = m.recovery
  BY <1>1, AgesGrow, WindowsAssumption
<1>7. d.downgraded /\ ~m.downgraded => below /\ Reached(d.pressure, PressureWindow)
  BY <1>3, <1>4, <1>5
<1>8. d.eligible => ~below /\ Reached(m.recovery, RecoveryWindow) /\ Reached(d.recovery, RecoveryWindow)
  <2>1. ASSUME d.eligible PROVE ~below
    BY <2>1, <1>3, <1>4, <1>5
  <2>2. ASSUME d.eligible, ~below PROVE Reached(m.recovery, RecoveryWindow)
    BY <2>2, <1>3, <1>4, <1>6 DEF RecoveryLasts
  <2>3. ASSUME d.eligible, ~below PROVE Reached(d.recovery, RecoveryWindow)
    BY <2>2, <2>3, <1>3, <1>4, <1>6
  <2> QED
    BY <2>1, <2>2, <2>3
<1>9. m.downgraded => d.downgraded
  BY <1>3, <1>4
<1> QED
  BY <1>4, <1>7, <1>8, <1>9 DEF RecoveryLasts

LEMMA GovInitHolds == GovInit => IInv
<1> SUFFICES ASSUME GovInit PROVE IInv
  OBVIOUS
<1>1. SchedInv
  <2>1. Cardinality({}) = 0 /\ <<>> \in Seq(Clients)
    BY FS_EmptySet, EmptySeq
  <2> QED
    BY <2>1, MaxConcurrentAssumption
       DEF GovInit, SchedInit, SchedInv, SchedTypeOK, SlotsAreUsed, Queued
<1>2. monitor \in Monitors
  BY DEF GovInit, Fresh, Monitors, Ages
<1>3. epoch \in Epochs /\ tickAge \in 0..StaleAge /\ ticks \in [Epochs -> 0..MaxTicks]
  BY BoundsAssumption, WindowsAssumption DEF GovInit, Epochs
<1>4. GovTypeOK
  BY <1>1, <1>2, <1>3 DEF GovTypeOK, GovInit, SchedInv, Monitors
<1> QED
  BY <1>1, <1>3, <1>4 DEF IInv, GovInit, OneTickAtATime, OverrideFollowsMonitor,
       LaterIsQuiet, DownIsQuiet, RecoveryLasts, Fresh

\* What a step may do to the profile.
Downgrading == override = "none" /\ override' = "fast" =>
    low /\ Reached(monitor'.pressure, PressureWindow)
Upgrading == override = "fast" /\ override' = "none" /\ host' = "up" =>
    ~low /\ Reached(monitor.recovery, RecoveryWindow) /\ Drained

\* Steps that leave the profile alone change it for no reason.
LEMMA NoSwitch == override' = override => Downgrading /\ Upgrading
  BY DEF Downgrading, Upgrading

\* A tick that ends, or fails, gives its place back.
LEMMA SettleKeeps ==
    ASSUME IInv, NEW e \in Epochs, ticks[e] > 0, Settle(e), host' = host
    PROVE  /\ inflight' \in BOOLEAN /\ stale' \in BOOLEAN
           /\ epoch' = epoch /\ tickAge' = tickAge
           /\ ticks' \in [Epochs -> 0..MaxTicks]
           /\ OneTickAtATime' /\ LaterIsQuiet' /\ DownIsQuiet'
           /\ e = epoch => host = "up"
<1>1. /\ ticks \in [Epochs -> 0..MaxTicks] /\ epoch \in Epochs
      /\ inflight \in BOOLEAN /\ stale \in BOOLEAN
  BY DEF IInv, GovTypeOK
<1>2. /\ ticks' = [ticks EXCEPT ![e] = @ - 1]
      /\ epoch' = epoch /\ tickAge' = tickAge
      /\ IF e = epoch THEN inflight' = FALSE /\ stale' = FALSE
                      ELSE inflight' = inflight /\ stale' = stale
  BY DEF Settle
<1>3. ticks[e] - 1 \in 0..MaxTicks
  BY <1>1, BoundsAssumption
<1>4. \A x \in Epochs : ticks'[x] = IF x = e THEN ticks[e] - 1 ELSE ticks[x]
  BY <1>1, <1>2
<1>5. OneTickAtATime'
  <2>1. CASE e = epoch
    BY <1>1, <1>2, <1>4, <2>1 DEF IInv, OneTickAtATime
  <2>2. CASE e # epoch
    BY <1>1, <1>2, <1>4, <2>2 DEF IInv, OneTickAtATime
  <2> QED
    BY <2>1, <2>2
<1>6. LaterIsQuiet'
  BY <1>1, <1>2, <1>4 DEF IInv, LaterIsQuiet
<1>7. DownIsQuiet' /\ (e = epoch => host = "up")
  BY <1>1, <1>2 DEF IInv, DownIsQuiet, OneTickAtATime
<1> QED
  BY <1>1, <1>2, <1>3, <1>5, <1>6, <1>7

\* What a tick decides keeps the latches together, and it switches only on
\* what the monitor has seen.
LEMMA DecideKeeps ==
    ASSUME IInv, host = "up", host' = "up", Decide
    PROVE  /\ monitor' \in Monitors /\ RecoveryLasts(monitor)'
           /\ latched' \in BOOLEAN /\ override' \in {"none", "fast"}
           /\ OverrideFollowsMonitor' /\ Downgrading /\ Upgrading
<1> DEFINE o == Observed(monitor, low)
           m == Evaluated(o)
           isLatched == latched \/ m.downgraded
<1>1. /\ monitor \in Monitors /\ low \in BOOLEAN /\ RecoveryLasts(monitor)
      /\ latched \in BOOLEAN /\ override \in {"none", "fast"}
      /\ (latched <=> override = "fast") /\ (latched <=> monitor.downgraded)
  BY DEF IInv, GovTypeOK, Monitors, OverrideFollowsMonitor
<1>2. /\ m \in Monitors /\ RecoveryLasts(m)
      /\ m.downgraded /\ ~monitor.downgraded => low /\ Reached(m.pressure, PressureWindow)
      /\ monitor.downgraded => m.downgraded
      /\ m.eligible => ~low /\ Reached(monitor.recovery, RecoveryWindow)
  BY <1>1, SampleKeeps
<1>3. \/ /\ isLatched /\ m.eligible /\ Drained
         /\ latched' = FALSE /\ override' = "none" /\ monitor' = Fresh
      \/ /\ latched' = isLatched /\ monitor' = m
         /\ override' = IF m.downgraded /\ ~latched THEN "fast" ELSE override
  BY DEF Decide
<1> HIDE DEF m
<1>4. CASE isLatched /\ m.eligible /\ Drained /\ latched' = FALSE /\ override' = "none" /\ monitor' = Fresh
  <2>1. Fresh \in Monitors /\ ~Fresh.downgraded /\ ~Fresh.eligible
    BY DEF Fresh, Monitors, Ages
  <2> QED
    BY <1>2, <1>4, <2>1 DEF RecoveryLasts, OverrideFollowsMonitor, Downgrading, Upgrading
<1>5. CASE /\ latched' = isLatched /\ monitor' = m
           /\ override' = IF m.downgraded /\ ~latched THEN "fast" ELSE override
  <2>1. m.downgraded \in BOOLEAN
    BY <1>2 DEF Monitors
  <2>2. latched' \in BOOLEAN /\ (latched' <=> m.downgraded)
    BY <1>1, <1>2, <1>5, <2>1
  <2>3. override' \in {"none", "fast"} /\ (latched' <=> override' = "fast")
    BY <1>1, <1>2, <1>5, <2>2
  <2>4. OverrideFollowsMonitor'
    BY <1>5, <2>2, <2>3 DEF OverrideFollowsMonitor
  <2>5. Downgrading
    BY <1>1, <1>2, <1>5 DEF Downgrading
  <2>6. Upgrading
    BY <1>1, <1>5 DEF Upgrading
  <2> QED
    BY <1>2, <1>5, <2>2, <2>3, <2>4, <2>5, <2>6 DEF RecoveryLasts
<1> QED
  BY <1>3, <1>4, <1>5

\* Every step keeps the invariant, and switches the profile for a reason.
LEMMA GovStepKeeps == IInv /\ [GovNext]_govVars => IInv' /\ Downgrading /\ Upgrading
<1> SUFFICES ASSUME IInv, [GovNext]_govVars PROVE IInv' /\ Downgrading /\ Upgrading
  OBVIOUS
<1> USE DEF samplerVars, profileVars
<1>a. /\ low \in BOOLEAN /\ monitor \in Monitors /\ host \in {"up", "stopping", "down"}
      /\ epoch \in Epochs /\ inflight \in BOOLEAN /\ tickAge \in 0..StaleAge /\ stale \in BOOLEAN
      /\ ticks \in [Epochs -> 0..MaxTicks] /\ latched \in BOOLEAN
      /\ override \in {"none", "fast"}
  BY DEF IInv, GovTypeOK, Monitors
<1>1. CASE Schedule
  <2>1. SchedInv'
    BY <1>1, ScheduleKeeps DEF Schedule, IInv
  <2>2. UNCHANGED <<low, monitor, host, samplerVars, profileVars>>
    BY <1>1 DEF Schedule
  <2> QED
    BY <2>1, <2>2, NoSwitch DEF IInv, SchedInv, GovTypeOK, OneTickAtATime,
         OverrideFollowsMonitor, LaterIsQuiet, DownIsQuiet, RecoveryLasts
<1>2. CASE ChangeFreeMemory
  <2>1. SchedInv' /\ low' \in BOOLEAN
    BY <1>2, <1>a DEF ChangeFreeMemory, schedVars, IInv, SchedInv, SchedTypeOK, SlotsAreUsed, Queued
  <2>2. UNCHANGED <<monitor, host, samplerVars, profileVars>>
    BY <1>2 DEF ChangeFreeMemory
  <2> QED
    BY <2>1, <2>2, NoSwitch DEF IInv, SchedInv, GovTypeOK, OneTickAtATime,
         OverrideFollowsMonitor, LaterIsQuiet, DownIsQuiet, RecoveryLasts
<1>3. CASE PassTime
  <2>1. UNCHANGED <<schedVars, low, host, epoch, inflight, stale, ticks, profileVars>>
    BY <1>3 DEF PassTime
  <2>2. SchedInv'
    BY <2>1 DEF schedVars, IInv, SchedInv, SchedTypeOK, SlotsAreUsed, Queued
  <2>3. /\ Older(monitor.pressure, PressureWindow) \in Ages(PressureWindow)
        /\ Older(monitor.recovery, RecoveryWindow) \in Ages(RecoveryWindow)
        /\ Reached(monitor.recovery, RecoveryWindow)
              => Reached(Older(monitor.recovery, RecoveryWindow), RecoveryWindow)
    BY <1>a, AgesGrow, WindowsAssumption DEF Monitors
  <2>4. monitor' = [monitor EXCEPT !.pressure = Older(monitor.pressure, PressureWindow),
                                   !.recovery = Older(monitor.recovery, RecoveryWindow)]
    BY <1>3 DEF PassTime
  <2>5. /\ monitor' \in Monitors /\ monitor'.downgraded = monitor.downgraded
        /\ monitor'.eligible = monitor.eligible
        /\ monitor'.recovery = Older(monitor.recovery, RecoveryWindow)
    BY <1>a, <2>3, <2>4 DEF Monitors
  <2>6. RecoveryLasts(monitor)'
    BY <2>3, <2>5 DEF IInv, RecoveryLasts
  <2>7. tickAge' \in 0..StaleAge
    BY <1>3, <1>a, WindowsAssumption DEF PassTime, Older
  <2> QED
    BY <1>a, <2>1, <2>2, <2>5, <2>6, <2>7, NoSwitch DEF IInv, SchedInv, GovTypeOK, Monitors,
         OneTickAtATime, OverrideFollowsMonitor, LaterIsQuiet, DownIsQuiet
<1>4. CASE BeginTick
  <2>1. UNCHANGED <<schedVars, low, monitor, host, epoch, profileVars>> /\ host = "up" /\ ~inflight
    BY <1>4 DEF BeginTick
  <2>2. SchedInv'
    BY <2>1 DEF schedVars, IInv, SchedInv, SchedTypeOK, SlotsAreUsed, Queued
  <2>3. ticks' = [ticks EXCEPT ![epoch] = @ + 1] /\ ticks[epoch] < MaxTicks /\ ticks[epoch] \in Nat
    BY <1>4, <1>a, BoundsAssumption DEF BeginTick
  <2>4. /\ ticks' \in [Epochs -> 0..MaxTicks]
        /\ \A x \in Epochs : ticks'[x] = IF x = epoch THEN ticks[epoch] + 1 ELSE ticks[x]
    BY <1>a, <2>3, BoundsAssumption
  <2>5. inflight' = TRUE /\ tickAge' = 0 /\ stale' = FALSE /\ 0 \in 0..StaleAge
    BY <1>4, WindowsAssumption DEF BeginTick
  <2>6. ticks'[epoch] = 1
    BY <1>a, <2>1, <2>4 DEF IInv, OneTickAtATime
  <2>7. LaterIsQuiet'
    BY <1>a, <2>1, <2>4, BoundsAssumption DEF IInv, LaterIsQuiet, Epochs
  <2> QED
    BY <1>a, <2>1, <2>2, <2>4, <2>5, <2>6, <2>7, NoSwitch DEF IInv, SchedInv, GovTypeOK, Monitors,
         OneTickAtATime, OverrideFollowsMonitor, DownIsQuiet, RecoveryLasts
<1>5. CASE SkipTick
  <2>1. UNCHANGED <<schedVars, low, monitor, host, epoch, inflight, tickAge, ticks, profileVars>>
        /\ stale' = TRUE
    BY <1>5 DEF SkipTick
  <2>2. SchedInv'
    BY <2>1 DEF schedVars, IInv, SchedInv, SchedTypeOK, SlotsAreUsed, Queued
  <2> QED
    BY <1>a, <2>1, <2>2, NoSwitch DEF IInv, SchedInv, GovTypeOK, Monitors, OneTickAtATime,
         OverrideFollowsMonitor, LaterIsQuiet, DownIsQuiet, RecoveryLasts
<1>6. ASSUME NEW e \in Epochs, EndTick(e) PROVE IInv' /\ Downgrading /\ Upgrading
  <2>1. UNCHANGED <<schedVars, low, host>> /\ Settle(e) /\ ticks[e] > 0
    BY <1>6 DEF EndTick
  <2>2. SchedInv'
    BY <2>1 DEF schedVars, IInv, SchedInv, SchedTypeOK, SlotsAreUsed, Queued
  <2>3. /\ inflight' \in BOOLEAN /\ stale' \in BOOLEAN
        /\ epoch' = epoch /\ tickAge' = tickAge
        /\ ticks' \in [Epochs -> 0..MaxTicks]
        /\ OneTickAtATime' /\ LaterIsQuiet' /\ DownIsQuiet'
        /\ e = epoch => host = "up"
    BY <2>1, SettleKeeps
  <2>4. /\ monitor' \in Monitors /\ RecoveryLasts(monitor)'
        /\ latched' \in BOOLEAN /\ override' \in {"none", "fast"}
        /\ OverrideFollowsMonitor' /\ Downgrading /\ Upgrading
    <3>1. CASE MayDecide(e)
      <4>1. Decide /\ host = "up" /\ host' = "up"
        BY <1>6, <2>1, <2>3, <3>1 DEF EndTick, MayDecide
      <4> QED
        BY <4>1, DecideKeeps
    <3>2. CASE ~MayDecide(e)
      BY <1>6, <1>a, <2>1, <3>2, NoSwitch DEF EndTick, IInv, RecoveryLasts, OverrideFollowsMonitor
    <3> QED
      BY <3>1, <3>2
  <2>5. GovTypeOK'
    BY <1>a, <2>1, <2>2, <2>3, <2>4 DEF SchedInv, GovTypeOK, Monitors
  <2> QED
    BY <2>2, <2>3, <2>4, <2>5 DEF IInv
<1>7. ASSUME NEW e \in Epochs, FailTick(e) PROVE IInv' /\ Downgrading /\ Upgrading
  <2>1. UNCHANGED <<schedVars, low, monitor, host, profileVars>> /\ Settle(e) /\ ticks[e] > 0
    BY <1>7 DEF FailTick
  <2>2. SchedInv'
    BY <2>1 DEF schedVars, IInv, SchedInv, SchedTypeOK, SlotsAreUsed, Queued
  <2>3. /\ inflight' \in BOOLEAN /\ stale' \in BOOLEAN
        /\ epoch' = epoch /\ tickAge' = tickAge
        /\ ticks' \in [Epochs -> 0..MaxTicks]
        /\ OneTickAtATime' /\ LaterIsQuiet' /\ DownIsQuiet'
    BY <2>1, SettleKeeps
  <2> QED
    BY <1>a, <2>1, <2>2, <2>3, NoSwitch DEF IInv, SchedInv, GovTypeOK, Monitors,
         OverrideFollowsMonitor, RecoveryLasts
<1>8. CASE Stop
  <2>1. /\ host' = "stopping" /\ epoch' = epoch + 1 /\ epoch < MaxEpochs
        /\ inflight' = FALSE /\ tickAge' = 0 /\ stale' = FALSE /\ RejectQueued
        /\ latched' = FALSE /\ override' = "none"
        /\ UNCHANGED <<low, monitor, ticks>>
    BY <1>8 DEF Stop
  <2>2. SchedInv'
    <3>1. /\ queue' = <<>> /\ running' = running
          /\ ingest' \in [Ingests -> {"idle", "paused", "embedding"}]
      BY <2>1 DEF RejectQueued, IInv, SchedInv, SchedTypeOK
    <3> QED
      BY <3>1, EmptiedKeeps DEF IInv
  <2>3. /\ epoch' \in Epochs /\ epoch \in Int /\ epoch' > epoch
        /\ \A x \in Epochs : x > epoch' => x > epoch
    BY <1>a, <2>1, BoundsAssumption DEF Epochs
  <2>4. ticks'[epoch'] = 0 /\ LaterIsQuiet'
    BY <2>1, <2>3 DEF IInv, LaterIsQuiet
  <2>5. 0 \in 0..StaleAge
    BY WindowsAssumption
  <2>6. GovTypeOK'
    BY <1>a, <2>1, <2>2, <2>3, <2>5 DEF SchedInv, GovTypeOK, Monitors
  <2> QED
    BY <2>1, <2>2, <2>4, <2>6 DEF IInv, OneTickAtATime, OverrideFollowsMonitor, DownIsQuiet,
         RecoveryLasts, Downgrading, Upgrading
<1>9. CASE Stopped
  <2>1. /\ host = "stopping" /\ host' = "down"
        /\ UNCHANGED <<schedVars, low, monitor, samplerVars, profileVars>>
    BY <1>9 DEF Stopped
  <2>2. SchedInv'
    BY <2>1 DEF schedVars, IInv, SchedInv, SchedTypeOK, SlotsAreUsed, Queued
  <2> QED
    BY <1>a, <2>1, <2>2, NoSwitch DEF IInv, SchedInv, GovTypeOK, Monitors, OneTickAtATime,
         OverrideFollowsMonitor, LaterIsQuiet, DownIsQuiet, RecoveryLasts
<1>10. CASE Start
  <2>1. /\ host = "down" /\ host' = "up" /\ monitor' = Fresh
        /\ queue' = <<>> /\ running' = {} /\ ingest' = [i \in Ingests |-> "idle"]
        /\ UNCHANGED <<low, samplerVars, profileVars>>
    BY <1>10 DEF Start
  <2>2. SchedInv'
    BY <2>1, EmptiedKeeps DEF IInv
  <2>3. Fresh \in Monitors /\ ~Fresh.downgraded /\ ~Fresh.eligible
    BY DEF Fresh, Monitors, Ages
  <2>4. ~latched /\ override = "none"
    BY <1>a, <2>1 DEF IInv, OverrideFollowsMonitor
  <2> QED
    BY <1>a, <2>1, <2>2, <2>3, <2>4, NoSwitch DEF IInv, SchedInv, GovTypeOK, Monitors,
         OneTickAtATime, OverrideFollowsMonitor, LaterIsQuiet, DownIsQuiet, RecoveryLasts
<1>11. CASE UNCHANGED govVars
  <2>1. SchedInv'
    BY <1>11 DEF govVars, schedVars, IInv, SchedInv, SchedTypeOK, SlotsAreUsed, Queued
  <2>2. UNCHANGED <<low, monitor, host, samplerVars, profileVars>>
    BY <1>11 DEF govVars
  <2> QED
    BY <1>a, <2>1, <2>2, NoSwitch DEF IInv, SchedInv, GovTypeOK, Monitors, OneTickAtATime,
         OverrideFollowsMonitor, LaterIsQuiet, DownIsQuiet, RecoveryLasts
<1> QED
  BY <1>1, <1>2, <1>3, <1>4, <1>5, <1>6, <1>7, <1>8, <1>9, <1>10, <1>11 DEF GovNext

\* The monitor, the sampler and the scheduler keep to their types.
THEOREM GovTypeCorrect == GovSpec => []GovTypeOK
<1>1. IInv => GovTypeOK
  BY DEF IInv
<1> QED
  BY GovInitHolds, GovStepKeeps, <1>1, PTL DEF GovSpec

\* At most maxConcurrentGenerations generations run, and one is queued only
\* while as many do.
THEOREM SlotsStayUsed == GovSpec => []SlotsAreUsed
<1>1. IInv => SlotsAreUsed
  BY DEF IInv, SchedInv
<1> QED
  BY GovInitHolds, GovStepKeeps, <1>1, PTL DEF GovSpec

\* At most one tick of the running sampler is under way, and its flag says so.
THEOREM TicksExclude == GovSpec => []OneTickAtATime
<1>1. IInv => OneTickAtATime
  BY DEF IInv
<1> QED
  BY GovInitHolds, GovStepKeeps, <1>1, PTL DEF GovSpec

\* The latch, the engine's override and the monitor agree.
THEOREM LatchesAgree == GovSpec => []OverrideFollowsMonitor
<1>1. IInv => OverrideFollowsMonitor
  BY DEF IInv
<1> QED
  BY GovInitHolds, GovStepKeeps, <1>1, PTL DEF GovSpec

\* The engine is switched to "fast" only after a whole window of pressure.
THEOREM DowngradesAreSustained == GovSpec => DowngradeIsSustained
<1>1. IInv /\ [GovNext]_govVars => [Downgrading]_govVars
  BY GovStepKeeps
<1> QED
  BY GovInitHolds, GovStepKeeps, <1>1, PTL DEF GovSpec, DowngradeIsSustained, Downgrading

\* It is switched back only after a whole window without, between generations.
THEOREM UpgradesAreSafe == GovSpec => UpgradeIsSafe
<1>1. IInv /\ [GovNext]_govVars => [Upgrading]_govVars
  BY GovStepKeeps
<1> QED
  BY GovInitHolds, GovStepKeeps, <1>1, PTL DEF GovSpec, UpgradeIsSafe, Upgrading
=============================================================================
