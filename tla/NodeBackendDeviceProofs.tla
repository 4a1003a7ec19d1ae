------------------------ MODULE NodeBackendDeviceProofs ------------------------
(***************************************************************************)
(* Who holds the GPU, for every number of queries, GPU tests and lives, as *)
(* long as a start finds the flights of earlier lives settled: while the   *)
(* host is up at most one native context exists, a query generates on the  *)
(* model it was given, and a probe finds no model on the device; when it   *)
(* is down only a GPU test may still hold one.  And that every variable of *)
(* the engine and the host keeps its type.                                 *)
(***************************************************************************)
EXTENDS NodeBackendHostProofs, FiniteSetTheorems

\* What every flight is made of.
Shaped ==
    /\ DOMAIN tests = Flights
    /\ \A f \in Flights : DOMAIN tests[f] = {"pc", "born", "seq", "killed"}
    /\ \A l \in Lives : DOMAIN boot[l] = {"pc", "seq", "epoch", "stored", "killed"}

\* A stop that is under way stamped the life it ends.
StopStamped == host \in {"stopping", "draining", "unloading"} => stoppedAt

\* A test is of this life and begins when the boot is done; there is none
\* while the host starts.
TestOfThisLife(f) ==
    Testing(f) =>
        /\ tests[f].born = life /\ life \in Lives
        /\ host = "down" \/ flight = f
        /\ host # "starting" /\ (host = "up" \/ stoppedAt)
        /\ tests[f].pc = "boot" \/ boot[life].pc = "done"

OneTest ==
    /\ \A f, g \in Flights : Testing(f) /\ Testing(g) => f = g
    /\ \A f \in Flights : TestOfThisLife(f)

\* What a test waits for, in each phase of its work.
CallFits(f) ==
    /\ tests[f].pc \in {"none", "boot", "join", "unload", "probe", "warm", "over"}
    /\ tests[f].pc \in {"none", "boot", "probe", "over"} => call[f] = "none"
    /\ tests[f].pc = "join" => call[f] \in {"joinLoad", "join"}
    /\ tests[f].pc = "unload" => call[f] \in {"drain", "drainLoad", "free", "disposed"}
    /\ tests[f].pc = "warm" => call[f] = "warmup"
    /\ tests[f].pc = "probe" => tests[f].killed \/ host = "up"

\* What the stop waits for.
StopFits ==
    /\ host \in {"down", "starting", "up", "stopping"} => call[Stop] = "none"
    /\ host = "draining" => call[Stop] \in {"joinLoad", "join"}

\* Only this life boots: its gate is armed until its boot ends.
BootFits(l) ==
    /\ boot[l].pc \in {"none", "query", "probe", "ended", "done"}
    /\ boot[l].pc \in {"query", "probe", "ended"} => l = life
    /\ l = life =>
          /\ host = "up" => boot[l].pc # "none"
          /\ boot[l].pc \in {"query", "probe"} /\ host = "up" => Armed
          /\ boot[l].pc \in {"ended", "done"} => ~Armed
          /\ Booting(l) => boot[l].killed \/ host = "up"

BootInStep == (host # "down" => life \in Lives) /\ \A l \in Lives : BootFits(l)

PhaseInv ==
    /\ Shaped /\ StopStamped /\ OneTest /\ StopFits /\ BootInStep
    /\ \A f \in Flights : CallFits(f)

-----------------------------------------------------------------------------
(* The phases of the flights.                                              *)

LEMMA CallersAreDistinct ==
    ASSUME NEW f \in Flights
    PROVE  f \in Callers /\ Stop \in Callers /\ f # Stop
  BY CallersAssumption DEF Callers

\* An awaited call goes on inside the engine.
CallGoesOn(c) ==
    \/ call'[c] = call[c]
    \/ call[c] = "joinLoad" /\ call'[c] = "join"
    \/ /\ call[c] \in {"drain", "drainLoad", "free"}
       /\ call'[c] \in {"drainLoad", "free", "disposed"}

\* A step of the engine.
LEMMA EngineKeepsPhases ==
    ASSUME IInv, PhaseInv, UNCHANGED hostVars, UNCHANGED gate,
           \A c \in Callers : CallGoesOn(c)
    PROVE  PhaseInv'
<1>1. /\ Shaped' /\ StopStamped' /\ OneTest' /\ BootInStep'
  BY DEF PhaseInv, Shaped, StopStamped, OneTest, TestOfThisLife, Testing, BootInStep, BootFits,
         Booting, Armed, hostVars
<1>2. StopFits'
  <2>1. CallGoesOn(Stop) /\ StopFits
    BY DEF Callers, PhaseInv
  <2> QED
    BY <2>1 DEF StopFits, CallGoesOn, hostVars
<1>3. ASSUME NEW f \in Flights PROVE CallFits(f)'
  <2>1. CallGoesOn(f) /\ CallFits(f)
    BY CallersAreDistinct DEF PhaseInv
  <2> QED
    BY <2>1 DEF CallFits, CallGoesOn, hostVars
<1> QED
  BY <1>1, <1>2, <1>3 DEF PhaseInv

\* A test moves from one phase to another, to over with its flight, and
\* nothing else of the host changes.
LEMMA TestKeepsPhases ==
    ASSUME IInv, PhaseInv, NEW f \in Flights,
           UNCHANGED <<host, life, stoppedAt, boot, gate>>,
           \A g \in Flights : g # f => tests'[g] = tests[g] /\ call'[g] = call[g],
           DOMAIN tests' = Flights, DOMAIN tests'[f] = {"pc", "born", "seq", "killed"},
           call'[Stop] = call[Stop], CallFits(f)', TestOfThisLife(f)',
           Testing(f) \/ (flight = NoFlight /\ host # "down"),
           flight' = IF Testing(f)' THEN f ELSE NoFlight
    PROVE  PhaseInv'
<1>1. \A g \in Flights : Testing(g) => g = f
  BY FlightAssumption DEF PhaseInv, OneTest, TestOfThisLife
<1>2. \A g \in Flights : g # f => (Testing(g)' <=> Testing(g))
  BY DEF Testing
<1>3. OneTest'
  BY <1>1, <1>2 DEF OneTest, TestOfThisLife
<1>4. ASSUME NEW g \in Flights PROVE CallFits(g)'
  <2>1. CASE g # f
    BY <2>1 DEF PhaseInv, CallFits
  <2> QED
    BY <2>1
<1>5. Shaped' /\ StopStamped' /\ StopFits' /\ BootInStep'
  BY DEF PhaseInv, Shaped, StopStamped, StopFits, BootInStep, BootFits, Booting, Armed
<1> QED
  BY <1>3, <1>4, <1>5 DEF PhaseInv

\* A test takes the fields it is given.
LEMMA TestTakes ==
    ASSUME PhaseInv, NEW f \in Flights, NEW pc, NEW v,
           \/ tests' = [tests EXCEPT ![f].pc = pc]
           \/ tests' = [tests EXCEPT ![f].pc = pc, ![f].born = v]
           \/ tests' = [tests EXCEPT ![f].pc = pc, ![f].seq = v]
    PROVE  /\ DOMAIN tests' = Flights /\ \A g \in Flights : g # f => tests'[g] = tests[g]
           /\ DOMAIN tests'[f] = {"pc", "born", "seq", "killed"}
           /\ tests'[f].pc = pc /\ tests'[f].killed = tests[f].killed
<1> DEFINE mid == [tests[f] EXCEPT !.pc = pc]
<1>1. /\ DOMAIN tests = Flights
      /\ DOMAIN tests[f] = {"pc", "born", "seq", "killed"}
  BY DEF PhaseInv, Shaped
<1>2. /\ DOMAIN mid = {"pc", "born", "seq", "killed"} /\ mid.pc = pc
      /\ mid.killed = tests[f].killed /\ mid.born = tests[f].born
  BY <1>1
<1>3. CASE tests' = [tests EXCEPT ![f].pc = pc]
  BY <1>1, <1>2, <1>3
<1>4. CASE tests' = [tests EXCEPT ![f].pc = pc, ![f].born = v]
  <2>1. tests' = [tests EXCEPT ![f] = [mid EXCEPT !.born = v]]
    BY <1>1, <1>4
  <2> HIDE DEF mid
  <2> QED
    BY <1>1, <1>2, <1>4, <2>1
<1>5. CASE tests' = [tests EXCEPT ![f].pc = pc, ![f].seq = v]
  <2>1. tests' = [tests EXCEPT ![f] = [mid EXCEPT !.seq = v]]
    BY <1>1, <1>5
  <2> HIDE DEF mid
  <2> QED
    BY <1>1, <1>2, <1>5, <2>1
<1> QED
  BY <1>3, <1>4, <1>5

LEMMA OverIsOver ==
    Over.pc = "over" /\ DOMAIN Over = {"pc", "born", "seq", "killed"}
  BY DEF Over, NoTest

\* A caller's call is its own.
LEMMA CallIsItsOwn ==
    ASSUME IInv, NEW f \in Flights, NEW x, call' = [call EXCEPT ![f] = x]
    PROVE  /\ call'[f] = x /\ call'[Stop] = call[Stop]
           /\ \A g \in Flights : g # f => call'[g] = call[g]
<1>1. DOMAIN call = Callers /\ Flights \subseteq Callers
  BY DEF IInv, Core, Types, Callers
<1> QED
  BY <1>1, CallersAreDistinct

\* A test ends, from whatever phase.
LEMMA TestEndsPhases ==
    ASSUME IInv, PhaseInv, NEW f \in Flights, Testing(f),
           UNCHANGED <<host, life, stoppedAt, boot, gate>>,
           tests' = [tests EXCEPT ![f] = Over], flight' = NoFlight,
           \/ call' = [call EXCEPT ![f] = "none"]
           \/ call' = call /\ call[f] = "none"
    PROVE  PhaseInv'
<1>1. /\ DOMAIN tests' = Flights /\ tests'[f] = Over
      /\ \A g \in Flights : g # f => tests'[g] = tests[g]
  BY DEF PhaseInv, Shaped
<1>2. /\ call'[f] = "none" /\ call'[Stop] = call[Stop]
      /\ \A g \in Flights : g # f => call'[g] = call[g]
  BY CallIsItsOwn
<1>3. CallFits(f)' /\ TestOfThisLife(f)' /\ ~Testing(f)'
  BY <1>1, <1>2, OverIsOver DEF CallFits, TestOfThisLife, Testing
<1> QED
  BY <1>1, <1>2, <1>3, OverIsOver, TestKeepsPhases

\* A test goes on to its next phase.
LEMMA TestGoesOnPhases ==
    ASSUME IInv, PhaseInv, NEW f \in Flights, Testing(f), ~stoppedAt, NEW pc, NEW v, NEW x,
           UNCHANGED <<host, life, stoppedAt, boot, gate, flight>>,
           \/ tests' = [tests EXCEPT ![f].pc = pc]
           \/ tests' = [tests EXCEPT ![f].pc = pc, ![f].seq = v],
           call' = [call EXCEPT ![f] = x],
           boot[tests[f].born].pc = "done" \/ tests[f].pc # "boot",
           \/ pc = "join" /\ x \in {"joinLoad", "join"}
           \/ pc = "unload" /\ x = "drain"
           \/ pc = "probe" /\ x = "none"
           \/ pc = "warm" /\ x = "warmup"
    PROVE  PhaseInv'
<1>1. /\ DOMAIN tests' = Flights /\ \A g \in Flights : g # f => tests'[g] = tests[g]
      /\ DOMAIN tests'[f] = {"pc", "born", "seq", "killed"} /\ tests'[f].pc = pc
  BY TestTakes
<1>2. tests'[f].born = tests[f].born
  <2>1. CASE tests' = [tests EXCEPT ![f].pc = pc]
    BY <2>1 DEF PhaseInv, Shaped
  <2>2. CASE tests' = [tests EXCEPT ![f].pc = pc, ![f].seq = v]
    BY <2>2 DEF PhaseInv, Shaped
  <2> QED
    BY <2>1, <2>2
<1>3. /\ call'[f] = x /\ call'[Stop] = call[Stop]
      /\ \A g \in Flights : g # f => call'[g] = call[g]
  BY CallIsItsOwn
<1>4. /\ tests[f].born = life /\ life \in Lives /\ host = "up" /\ flight = f
      /\ tests[f].pc = "boot" \/ boot[life].pc = "done"
  BY DEF PhaseInv, OneTest, TestOfThisLife
<1>5. CallFits(f)' /\ TestOfThisLife(f)' /\ Testing(f)'
  BY <1>1, <1>2, <1>3, <1>4 DEF CallFits, TestOfThisLife, Testing
<1> QED
  BY <1>1, <1>3, <1>4, <1>5, TestKeepsPhases

LEMMA CallTestKeepsPhases ==
    ASSUME IInv, PhaseInv, NEW f \in Flights, CallTest(f)
    PROVE  PhaseInv'
<1>1. /\ host \in {"up", "stopping"} /\ flight = NoFlight /\ tests[f].pc = "none" /\ flight' = f
      /\ tests' = [tests EXCEPT ![f].pc = "boot", ![f].born = life]
      /\ UNCHANGED <<host, life, stoppedAt, boot, gate, call>>
  BY DEF CallTest, Serving, engineVars
<1>2. /\ DOMAIN tests' = Flights /\ \A g \in Flights : g # f => tests'[g] = tests[g]
      /\ DOMAIN tests'[f] = {"pc", "born", "seq", "killed"} /\ tests'[f].pc = "boot"
  BY <1>1, TestTakes
<1>3. tests'[f].born = life
  BY <1>1 DEF PhaseInv, Shaped
<1>4. /\ call[f] = "none" /\ life \in Lives
      /\ host = "up" \/ stoppedAt
  BY <1>1 DEF PhaseInv, CallFits, BootInStep, StopStamped
<1>5. CallFits(f)' /\ TestOfThisLife(f)' /\ Testing(f)'
  BY <1>1, <1>2, <1>3, <1>4 DEF CallFits, TestOfThisLife, Testing
<1> QED
  BY <1>1, <1>2, <1>5, TestKeepsPhases

LEMMA TestStepKeepsPhases ==
    ASSUME IInv, PhaseInv, NEW f \in Flights,
           \/ BeginTest(f) \/ UnloadForTest(f) \/ ProbeForTest(f) \/ TestProbed(f)
           \/ TestWarmed(f)
    PROVE  PhaseInv'
<1>1. /\ Testing(f) /\ UNCHANGED <<host, life, stoppedAt, boot, gate>>
      /\ call[f] = "none" \/ tests[f].pc \notin {"boot", "probe"}
  BY DEF BeginTest, UnloadForTest, ProbeForTest, TestProbed, TestWarmed, Testing, admission,
         PhaseInv, CallFits
<1>2. CASE TestEnds(f)
  BY <1>1, <1>2, TestEndsPhases DEF TestEnds
<1>3. CASE BeginTest(f)
  <2>1. CASE stoppedAt
    BY <1>1, <1>3, <2>1, TestEndsPhases DEF BeginTest
  <2>2. CASE ~stoppedAt
    <3>1. \E x \in {"joinLoad", "join"} : call' = [call EXCEPT ![f] = x]
      BY <1>3, <2>2 DEF BeginTest, Join
    <3> QED
      BY <1>1, <1>3, <2>2, <3>1, TestGoesOnPhases DEF BeginTest
  <2> QED
    BY <2>1, <2>2
<1>4. CASE UnloadForTest(f) /\ ~stoppedAt
  BY <1>1, <1>4, TestGoesOnPhases DEF UnloadForTest, Dispose
<1>5. CASE ProbeForTest(f) /\ ~stoppedAt
  BY <1>1, <1>5, TestGoesOnPhases DEF ProbeForTest
<1>6. CASE TestProbed(f) /\ ~(stoppedAt \/ ~Warms)
  BY <1>1, <1>6, TestGoesOnPhases DEF TestProbed
<1> QED
  BY <1>2, <1>3, <1>4, <1>5, <1>6 DEF UnloadForTest, ProbeForTest, TestProbed, TestWarmed

\* A boot moves from one phase to another, and nothing else of the host
\* changes.
LEMMA BootKeepsPhases ==
    ASSUME IInv, PhaseInv, NEW l \in Lives, boot[l].pc \in {"query", "probe", "ended"},
           UNCHANGED <<host, life, stoppedAt, tests, flight, call>>,
           \A m \in Lives : m # l => boot'[m] = boot[m],
           DOMAIN boot'[l] = {"pc", "seq", "epoch", "stored", "killed"}, BootFits(l)'
    PROVE  PhaseInv'
<1>1. l = life
  BY DEF PhaseInv, BootInStep, BootFits
<1>2. ASSUME NEW m \in Lives PROVE BootFits(m)'
  <2>1. CASE m # l
    BY <1>1, <2>1 DEF PhaseInv, BootInStep, BootFits, Booting
  <2> QED
    BY <2>1
<1>3. ASSUME NEW f \in Flights PROVE TestOfThisLife(f)'
  BY <1>1 DEF PhaseInv, OneTest, TestOfThisLife, Testing
<1>4. Shaped' /\ StopStamped' /\ StopFits' /\ BootInStep'
  BY <1>2 DEF PhaseInv, Shaped, StopStamped, StopFits, BootInStep
<1>5. OneTest'
  BY <1>3 DEF PhaseInv, OneTest, Testing
<1>6. \A f \in Flights : CallFits(f)'
  BY DEF PhaseInv, CallFits
<1> QED
  BY <1>4, <1>5, <1>6 DEF PhaseInv

LEMMA BootStepKeepsPhases ==
    ASSUME IInv, PhaseInv, NEW l \in Lives,
           DeviceAnswers(l) \/ BootProbed(l) \/ WarmAfterBoot(l)
    PROVE  PhaseInv'
<1>1. /\ boot[l].pc \in {"query", "probe", "ended"} /\ DOMAIN boot = Lives
      /\ UNCHANGED <<host, life, stoppedAt, tests, flight, call>>
      /\ DOMAIN boot[l] = {"pc", "seq", "epoch", "stored", "killed"} /\ BootFits(l)
  BY DEF DeviceAnswers, BootProbed, WarmAfterBoot, IInv, Core, Types, PhaseInv, Shaped, BootInStep
<1>2. l = life
  BY <1>1 DEF BootFits
<1>3. CASE BootEnds(l)
  <2> DEFINE r == [NoBoot EXCEPT !.pc = "ended"]
  <2>1. boot' = [boot EXCEPT ![l] = r] /\ gate' = "settled"
    BY <1>2, <1>3 DEF BootEnds, GateOpened
  <2>2. DOMAIN r = {"pc", "seq", "epoch", "stored", "killed"} /\ r.pc = "ended"
    BY DEF NoBoot
  <2> HIDE DEF r
  <2>3. boot'[l] = r /\ \A m \in Lives : m # l => boot'[m] = boot[m]
    BY <1>1, <2>1
  <2>4. BootFits(l)'
    BY <1>1, <1>2, <2>1, <2>2, <2>3 DEF BootFits, Booting, Armed
  <2> QED
    BY <1>1, <2>2, <2>3, <2>4, BootKeepsPhases
<1>4. CASE boot' = [boot EXCEPT ![l].pc = "probe"] /\ UNCHANGED gate /\ boot[l].pc = "query"
  <2>1. /\ \A m \in Lives : m # l => boot'[m] = boot[m]
        /\ DOMAIN boot'[l] = {"pc", "seq", "epoch", "stored", "killed"}
        /\ boot'[l].pc = "probe" /\ boot'[l].killed = boot[l].killed
    BY <1>1, <1>4
  <2>2. BootFits(l)'
    BY <1>1, <1>2, <1>4, <2>1 DEF BootFits, Booting, Armed
  <2> QED
    BY <1>1, <2>1, <2>2, BootKeepsPhases
<1>5. CASE boot' = [boot EXCEPT ![l].pc = "done"] /\ UNCHANGED gate /\ boot[l].pc = "ended"
  <2>1. /\ \A m \in Lives : m # l => boot'[m] = boot[m]
        /\ DOMAIN boot'[l] = {"pc", "seq", "epoch", "stored", "killed"}
        /\ boot'[l].pc = "done"
    BY <1>1, <1>5
  <2>2. BootFits(l)'
    BY <1>1, <1>2, <1>5, <2>1 DEF BootFits, Booting, Armed
  <2> QED
    BY <1>1, <2>1, <2>2, BootKeepsPhases
<1> QED
  BY <1>3, <1>4, <1>5 DEF DeviceAnswers, BootProbed, WarmAfterBoot, admission

\* A start finds no flight: those of earlier lives have settled.
LEMMA StartKeepsPhases ==
    ASSUME ~Overlap, ~Pending, IInv, PhaseInv, Start
    PROVE  PhaseInv'
<1>1. /\ host = "down" /\ host' = "starting" /\ life' = life + 1 /\ Quiet
      /\ life < MaxLives /\ stoppedAt' = FALSE /\ gate' = "armed"
      /\ UNCHANGED <<boot, tests, flight, call>>
  BY DEF Start
<1>2. life' \in Lives /\ boot[life'].pc = "none"
  <2>1. life' \in Lives /\ life' > life
    BY <1>1, LivesAssumption DEF IInv, Core, Types, Lives
  <2> QED
    BY <2>1 DEF IInv, InTurn
<1>3. \A l \in Lives : boot[l].pc \notin {"query", "probe", "ended"}
  BY <1>1 DEF Quiet, Booting, Pending
<1>4. \A f \in Flights : ~Testing(f)
  BY <1>1 DEF Quiet
<1>5. BootInStep'
  BY <1>1, <1>2, <1>3 DEF PhaseInv, BootInStep, BootFits, Booting
<1>6. OneTest'
  BY <1>1, <1>4 DEF OneTest, TestOfThisLife, Testing
<1>7. \A f \in Flights : CallFits(f)'
  BY <1>1, <1>4 DEF PhaseInv, CallFits, Testing
<1> QED
  BY <1>1, <1>5, <1>6, <1>7 DEF PhaseInv, Shaped, StopStamped, StopFits

LEMMA StartFailsKeepsPhases ==
    ASSUME IInv, PhaseInv, StartFails
    PROVE  PhaseInv'
<1>1. /\ host = "starting" /\ host' = (IF stoppedAt THEN "stopping" ELSE "down")
      /\ UNCHANGED <<life, stoppedAt, boot, tests, flight, call, gate>>
  BY DEF StartFails, engineVars
<1>2. \A f \in Flights : ~Testing(f)
  BY <1>1 DEF PhaseInv, OneTest, TestOfThisLife
<1>3. life \in Lives /\ boot[life].pc = "none"
  BY <1>1 DEF PhaseInv, BootInStep, IInv, Shut, InTurn
<1>4. BootInStep'
  BY <1>1, <1>3 DEF PhaseInv, BootInStep, BootFits, Booting, Armed
<1>5. OneTest' /\ \A f \in Flights : CallFits(f)'
  BY <1>1, <1>2 DEF PhaseInv, OneTest, TestOfThisLife, CallFits, Testing
<1> QED
  BY <1>1, <1>4, <1>5 DEF PhaseInv, Shaped, StopStamped, StopFits

LEMMA ListeningKeepsPhases ==
    ASSUME IInv, PhaseInv, Listening
    PROVE  PhaseInv'
<1>1. /\ host = "starting" /\ host' = "up"
      /\ UNCHANGED <<life, stoppedAt, tests, flight, call, gate>>
  BY DEF Listening, engineVars
<1>2. \A f \in Flights : ~Testing(f)
  BY <1>1 DEF PhaseInv, OneTest, TestOfThisLife
<1>3. life \in Lives /\ Armed /\ DOMAIN boot = Lives
  BY <1>1 DEF PhaseInv, BootInStep, IInv, Shut, InTurn, Core, Types
<1> DEFINE r == [pc |-> IF stored = "none" THEN "probe" ELSE "query", seq |-> verdictSeq,
                 epoch |-> stoppedAt, stored |-> stored, killed |-> FALSE]
<1>4. /\ DOMAIN r = {"pc", "seq", "epoch", "stored", "killed"} /\ r.pc \in {"probe", "query"}
  OBVIOUS
<1>5. boot' = [boot EXCEPT ![life] = r]
  BY DEF Listening
<1> HIDE DEF r
<1>6. boot'[life] = r /\ \A l \in Lives : l # life => boot'[l] = boot[l]
  BY <1>3, <1>5
<1>7. BootInStep'
  <2>1. ASSUME NEW l \in Lives PROVE BootFits(l)'
    BY <1>1, <1>3, <1>4, <1>6 DEF PhaseInv, BootInStep, BootFits, Booting, Armed
  <2> QED
    BY <1>1, <1>3, <2>1 DEF BootInStep
<1>8. OneTest' /\ \A f \in Flights : CallFits(f)'
  BY <1>1, <1>2 DEF PhaseInv, OneTest, TestOfThisLife, CallFits, Testing
<1>9. Shaped'
  BY <1>1, <1>4, <1>6 DEF PhaseInv, Shaped
<1> QED
  BY <1>1, <1>7, <1>8, <1>9 DEF PhaseInv, StopStamped, StopFits

LEMMA StopCalledKeepsPhases ==
    ASSUME IInv, PhaseInv, StopCalled
    PROVE  PhaseInv'
<1>1. /\ stoppedAt' = TRUE /\ UNCHANGED <<host, life, boot, tests, flight, call, gate>>
  BY DEF StopCalled, engineVars
<1>2. OneTest' /\ \A f \in Flights : CallFits(f)'
  BY <1>1 DEF PhaseInv, OneTest, TestOfThisLife, CallFits, Testing
<1>3. BootInStep'
  BY <1>1 DEF PhaseInv, BootInStep, BootFits, Booting, Armed
<1> QED
  BY <1>1, <1>2, <1>3 DEF PhaseInv, Shaped, StopStamped, StopFits

\* Every probe is killed before the host is no longer up.
LEMMA TeardownKeepsPhases ==
    ASSUME IInv, PhaseInv, Teardown
    PROVE  PhaseInv'
<1>1. /\ host = "up" /\ stoppedAt /\ host' = "stopping"
      /\ UNCHANGED <<life, stoppedAt, flight, call, gate>>
      /\ DOMAIN tests' = Flights
  BY DEF Teardown, engineVars
<1>2. ASSUME NEW l \in Lives
      PROVE  /\ boot'[l].pc = boot[l].pc /\ (boot[l].pc \in {"query", "probe"} => boot'[l].killed)
             /\ DOMAIN boot'[l] = {"pc", "seq", "epoch", "stored", "killed"}
  <2>1. DOMAIN boot[l] = {"pc", "seq", "epoch", "stored", "killed"}
    BY DEF PhaseInv, Shaped
  <2>2. boot'[l] = IF Booting(l) THEN [boot[l] EXCEPT !.killed = TRUE] ELSE boot[l]
    BY DEF Teardown
  <2> QED
    BY <2>1, <2>2 DEF Booting
<1>3. ASSUME NEW f \in Flights
      PROVE  /\ tests'[f].pc = tests[f].pc /\ (tests[f].pc = "probe" => tests'[f].killed)
             /\ DOMAIN tests'[f] = {"pc", "born", "seq", "killed"} /\ tests'[f].born = tests[f].born
  <2>1. DOMAIN tests[f] = {"pc", "born", "seq", "killed"}
    BY DEF PhaseInv, Shaped
  <2>2. tests'[f] = IF tests[f].pc = "probe" THEN [tests[f] EXCEPT !.killed = TRUE] ELSE tests[f]
    BY DEF Teardown
  <2> QED
    BY <2>1, <2>2
<1>4. OneTest' /\ \A f \in Flights : CallFits(f)'
  BY <1>1, <1>2, <1>3 DEF PhaseInv, OneTest, TestOfThisLife, CallFits, Testing
<1>5. BootInStep'
  BY <1>1, <1>2 DEF PhaseInv, BootInStep, BootFits, Booting, Armed
<1>6. Shaped' /\ StopStamped' /\ StopFits'
  BY <1>1, <1>2, <1>3 DEF PhaseInv, Shaped, StopStamped, StopFits
<1> QED
  BY <1>4, <1>5, <1>6 DEF PhaseInv

\* The stop goes on beside whatever flight is left.
LEMMA StopStepKeepsPhases ==
    ASSUME IInv, PhaseInv, DrainForStop \/ Shutdown \/ StopEnds
    PROVE  PhaseInv'
<1>1. /\ UNCHANGED <<life, stoppedAt, boot, tests>> /\ stoppedAt
      /\ \/ host = "stopping" /\ host' = "draining" /\ UNCHANGED <<flight, gate>>
         \/ host = "draining" /\ host' = "unloading" /\ UNCHANGED <<flight, gate>>
         \/ host = "unloading" /\ host' = "down" /\ flight' = NoFlight /\ gate' = "settled"
  BY DEF DrainForStop, Shutdown, StopEnds, PhaseInv, StopStamped, admission
<1>2. /\ \E x : call' = [call EXCEPT ![Stop] = x]
      /\ host' = "draining" => call'[Stop] \in {"joinLoad", "join"}
      /\ host' = "down" => call'[Stop] = "none"
  <2>1. DOMAIN call = Callers /\ Stop \in Callers
    BY DEF IInv, Core, Types, Callers
  <2>2. CASE DrainForStop
    BY <2>1, <2>2 DEF DrainForStop, Join
  <2>3. CASE Shutdown
    BY <2>1, <2>3 DEF Shutdown, Dispose
  <2>4. CASE StopEnds
    BY <2>1, <2>4 DEF StopEnds
  <2> QED
    BY <2>2, <2>3, <2>4
<1>3. \A f \in Flights : call'[f] = call[f]
  BY <1>2, CallersAreDistinct DEF IInv, Core, Types
<1>4. OneTest' /\ \A f \in Flights : CallFits(f)'
  BY <1>1, <1>3 DEF PhaseInv, OneTest, TestOfThisLife, CallFits, Testing
<1>5. BootInStep'
  BY <1>1 DEF PhaseInv, BootInStep, BootFits, Booting, Armed
<1> QED
  BY <1>1, <1>2, <1>4, <1>5 DEF PhaseInv, Shaped, StopStamped, StopFits

-----------------------------------------------------------------------------
(* How an operation of the engine moves.                                   *)

\* An operation that frees the old model or builds the new one.
Holding(o) == ops[o].pc \in {"releasing", "loading", "freeing"}

One(b) == IF b THEN 1 ELSE 0

\* No warmup waits at the gate, and a release goes from the queue to the
\* teardown it awaits.
KindFits(o) ==
    /\ ops[o].kind = "warmup" => ops[o].pc # "gate"
    /\ ops[o].kind = "release" => ops[o].pc \in {"queued", "freeing"}
    /\ ops[o].pc = "freeing" => ops[o].kind = "release"

Kinds == \A o \in Ops : KindFits(o)

\* While a model is freed or built none is resident.
Exclusive == \A o \in Ops : Holding(o) => resident = NoModel

\* The operation settles, goes on where it is, or is chained.
QueueMoves(o) ==
    \/ /\ ops'[o] = Idle /\ waits' = [c \in Callers |-> waits[c] \ {o}]
       /\ \/ AtHead(o) /\ queue' = Tail(queue)
          \/ ops[o].pc \notin QueuePlaces /\ queue' = queue
    \/ /\ queue' = queue
       /\ \A c \in Callers : call[c] \in {"join", "drain"} => waits'[c] = waits[c]
    \/ ops[o].pc \notin QueuePlaces /\ queue' = Append(queue, o) /\ waits' = waits

\* A query needs the pause lifted to be queued, and a release that takes the
\* model is the head behind every dispose that is under way.
KindMoves(o) ==
    /\ KindFits(o)'
    /\ InUse(o)' => InUse(o) \/ ~paused
    /\ ops'[o].kind = "release" => ops[o].kind = "release" \/ Serving
    /\ ops'[o].pc = "freeing" =>
          ops[o].pc = "freeing" \/ (ops[o].kind = "release" /\ AtHead(o) /\ DisposedFirst(o))

\* Only the head touches the model, and it keeps the count of the contexts.
ModelMoves(o) ==
    /\ \/ resident' = resident /\ contexts' = contexts /\ (Holding(o)' <=> Holding(o))
       \/ /\ AtHead(o)
          /\ contexts' = contexts + One(resident' # NoModel \/ Holding(o)')
                                  - One(resident # NoModel \/ Holding(o))
    /\ Holding(o)' => resident' = NoModel
    /\ resident = NoModel /\ ~Holding(o) /\ (Armed \/ ~InUse(o)) =>
          resident' = NoModel /\ ~Holding(o)'
    /\ Local(o)' => resident' = Held(o)'

OpMoves(o) ==
    /\ \A x \in Ops : x # o => ops'[x] = ops[x]
    /\ QueueMoves(o) /\ KindMoves(o) /\ ModelMoves(o)

LEMMA BecomesAt ==
    ASSUME Core, NEW o \in Ops, NEW pc, Becomes(o, pc)
    PROVE  /\ \A x \in Ops : x # o => ops'[x] = ops[x]
           /\ ops'[o].pc = pc /\ ops'[o].kind = ops[o].kind
<1>1. ops \in [Ops -> OpRecords]
  BY DEF Core, Types
<1> QED
  BY <1>1 DEF Becomes

LEMMA OneOperationHolds ==
    ASSUME Core, NEW o \in Ops, NEW x \in Ops, AtHead(o), x # o
    PROVE  ~Holding(x) /\ ~Local(x)
<1>1. ASSUME ops[x].pc \in QueuePlaces \ {"queued"} PROVE FALSE
  BY <1>1, UnderWay DEF AtHead
<1> QED
  BY <1>1 DEF Holding, Local, QueuePlaces

\* An operation settles and the model stays.
LEMMA SettleMoves ==
    ASSUME Core, NEW o \in Ops, Settle(o), ops[o].pc \in QueuePlaces => AtHead(o)
    PROVE  /\ \A x \in Ops : x # o => ops'[x] = ops[x]
           /\ QueueMoves(o) /\ KindMoves(o)
           /\ ops'[o] = Idle /\ ~Holding(o)' /\ ~Local(o)'
<1>1. /\ ops \in [Ops -> OpRecords] /\ ops' = [ops EXCEPT ![o] = Idle]
      /\ queue' = (IF AtHead(o) THEN Tail(queue) ELSE queue)
      /\ waits' = [c \in Callers |-> waits[c] \ {o}]
  BY DEF Core, Types, Settle
<1>2. ops'[o] = Idle /\ \A x \in Ops : x # o => ops'[x] = ops[x]
  BY <1>1
<1>3. QueueMoves(o)
  BY <1>1, <1>2 DEF QueueMoves
<1>4. KindMoves(o)
  BY <1>2, IdleIsARecord DEF KindMoves, KindFits, InUse, UsesModel
<1> QED
  BY <1>2, <1>3, <1>4, IdleIsARecord DEF Holding, Local

LEMMA SettleOnlyMoves ==
    ASSUME Core, NEW o \in Ops, Settle(o), ops[o].pc \in QueuePlaces => AtHead(o),
           UNCHANGED <<resident, contexts>>, ~Holding(o)
    PROVE  OpMoves(o)
<1>1. /\ \A x \in Ops : x # o => ops'[x] = ops[x]
      /\ QueueMoves(o) /\ KindMoves(o)
      /\ ops'[o] = Idle /\ ~Holding(o)' /\ ~Local(o)'
  BY SettleMoves
<1> QED
  BY <1>1 DEF OpMoves, ModelMoves

\* An operation goes on without the model.
LEMMA GoesOnMoves ==
    ASSUME Core, Kinds, NEW o \in Ops, NEW pc, Becomes(o, pc),
           UNCHANGED <<queue, waits, resident, contexts>>,
           pc \notin {"releasing", "loading", "freeing"}, ~Holding(o),
           pc = "generating" => ops[o].kind = "external",
           ops[o].kind = "warmup" => pc # "gate",
           ops[o].kind = "release" => pc = "queued",
           InUse(o)' => InUse(o)
    PROVE  OpMoves(o)
<1>1. /\ \A x \in Ops : x # o => ops'[x] = ops[x]
      /\ ops'[o].pc = pc /\ ops'[o].kind = ops[o].kind
  BY BecomesAt
<1>2. QueueMoves(o)
  BY DEF QueueMoves
<1>3. KindMoves(o)
  BY <1>1 DEF KindMoves, KindFits
<1>4. ModelMoves(o)
  BY <1>1 DEF ModelMoves, Holding, Local
<1> QED
  BY <1>1, <1>2, <1>3, <1>4 DEF OpMoves

\* An operation is chained on the queue.
LEMMA EnqueueMoves ==
    ASSUME Core, NEW o \in Ops, \A x \in Ops : x # o => ops'[x] = ops[x],
           ops'[o].pc = "queued", ops[o].pc \notin QueuePlaces,
           queue' = Append(queue, o), UNCHANGED <<waits, resident, contexts>>,
           ops'[o].kind \in {"query", "warmup"} => ~paused,
           ops'[o].kind = "release" => Serving
    PROVE  OpMoves(o)
<1>1. QueueMoves(o)
  BY DEF QueueMoves
<1>2. KindMoves(o)
  BY DEF KindMoves, KindFits, InUse, UsesModel
<1>3. ModelMoves(o)
  BY DEF ModelMoves, Holding, Local, QueuePlaces
<1> QED
  BY <1>1, <1>2, <1>3 DEF OpMoves

LEMMA GateOpensMoves ==
    ASSUME Core, Kinds, NEW o \in Ops, GateOpens(o)
    PROVE  OpMoves(o)
<1>1. ops[o].pc = "gate" /\ ops[o].kind \notin {"warmup", "release"}
      /\ UNCHANGED <<resident, contexts>> /\ ~Holding(o)
  BY DEF GateOpens, Kinds, KindFits, Holding
<1>2. CASE Settle(o)
  BY <1>1, <1>2, SettleOnlyMoves DEF QueuePlaces
<1>3. CASE /\ \E p \in Profiles : ops' = [ops EXCEPT ![o].profile = p, ![o].pc = "retrieving"]
           /\ UNCHANGED <<queue, waits>>
  <2>1. PICK p \in Profiles : ops' = [ops EXCEPT ![o].profile = p, ![o].pc = "retrieving"]
    BY <1>3
  <2>2. "retrieving" \in Places
    BY DEF Places
  <2>3. Becomes(o, "retrieving")
    BY <2>1, <2>2, MovesWithProfile, Zenon
  <2>4. ~InUse(o)'
    BY <2>3, BecomesAt DEF InUse, QueuePlaces
  <2> QED
    BY <1>1, <1>3, <2>3, <2>4, GoesOnMoves
<1> QED
  BY <1>1, <1>2, <1>3 DEF GateOpens

LEMMA RetrievedMoves ==
    ASSUME Core, Kinds, NEW o \in Ops, Retrieved(o)
    PROVE  OpMoves(o)
<1>1. ops[o].pc = "retrieving" /\ ops[o].kind \notin {"warmup", "release"}
      /\ UNCHANGED <<resident, contexts>> /\ ~Holding(o)
  BY DEF Retrieved, Kinds, KindFits, Holding, Core, Captured
<1>2. CASE Settle(o)
  BY <1>1, <1>2, SettleOnlyMoves DEF QueuePlaces
<1>3. CASE /\ ops[o].kind = "external" \/ (GenerationAlive(o) /\ QueriesAllowed)
           /\ Enqueue(o, [ops[o] EXCEPT !.pc = "queued"]) /\ UNCHANGED waits
  <2>1. "queued" \in Places /\ "retrieving" \notin QueuePlaces
    BY DEF Places, QueuePlaces
  <2>2. Becomes(o, "queued")
    BY <1>3, <2>1, Moves, Zenon DEF Enqueue
  <2>3. ops[o].kind = "query" => ~paused
    BY <1>3 DEF QueriesAllowed
  <2> QED
    BY <1>1, <1>3, <2>1, <2>2, <2>3, BecomesAt, EnqueueMoves DEF Enqueue
<1> QED
  BY <1>2, <1>3 DEF Retrieved

LEMMA QueryMoves ==
    ASSUME Core, NEW o \in Ops, Query(o)
    PROVE  OpMoves(o)
<1>1. /\ ops[o].pc = "idle" /\ ops \in [Ops -> OpRecords]
      /\ UNCHANGED <<queue, resident, contexts, waits>>
  BY DEF Query, Core, Types
<1>2. PICK kind \in {"external", "query"}, pc \in {"gate", "retrieving"}, p \in Profiles :
         ops' = [ops EXCEPT ![o] = Chosen(o, kind, p, pc)]
  <2>1. "fast" \in Profiles
    BY DEF Profiles
  <2> QED
    BY <2>1 DEF Query
<1>3. /\ \A x \in Ops : x # o => ops'[x] = ops[x]
      /\ ops'[o].kind = kind /\ ops'[o].pc = pc
  <2>1. pc \in Places /\ kind \in {"query", "external", "warmup", "release"}
    BY DEF Places
  <2>2. Chosen(o, kind, p, pc).kind = kind /\ Chosen(o, kind, p, pc).pc = pc
    BY <2>1, ChosenIsARecord
  <2> QED
    BY <1>1, <1>2, <2>2
<1>4. QueueMoves(o)
  BY <1>1 DEF QueueMoves
<1>5. KindMoves(o)
  BY <1>2, <1>3 DEF KindMoves, KindFits, InUse, QueuePlaces
<1>6. ModelMoves(o)
  BY <1>1, <1>2, <1>3 DEF ModelMoves, Holding, Local
<1> QED
  BY <1>3, <1>4, <1>5, <1>6 DEF OpMoves

LEMMA SwitchExternalMoves ==
    ASSUME Core, Serving, NEW o \in Ops, SwitchExternal(o)
    PROVE  OpMoves(o)
<1> DEFINE r == Chosen(o, "release", "fast", "queued")
<1>1. /\ ops[o].pc = "idle" /\ ops' = [ops EXCEPT ![o] = r] /\ queue' = Append(queue, o)
      /\ UNCHANGED <<resident, contexts, waits>> /\ ops \in [Ops -> OpRecords]
  BY DEF SwitchExternal, Enqueue, Core, Types
<1>2. "fast" \in Profiles /\ "queued" \in Places /\ "idle" \notin QueuePlaces
  BY DEF Profiles, Places, QueuePlaces
<1>3. r.kind = "release" /\ r.pc = "queued"
  BY <1>2, ChosenIsARecord
<1> HIDE DEF r
<1>4. ops'[o] = r /\ \A x \in Ops : x # o => ops'[x] = ops[x]
  BY <1>1
<1> QED
  BY <1>1, <1>2, <1>3, <1>4, EnqueueMoves

\* The head goes on to a place where it may hold the model, which is counted.
LEMMA HeadMoves ==
    ASSUME Core, Kinds, NEW o \in Ops, NEW pc, Becomes(o, pc), AtHead(o),
           UNCHANGED queue,
           \A c \in Callers : call[c] \in {"join", "drain"} => waits'[c] = waits[c],
           pc \in {"belt", "releasing", "loading", "generating", "freeing"},
           pc = "freeing" => ops[o].kind = "release" /\ DisposedFirst(o),
           ops[o].kind = "release" => pc = "freeing",
           ModelMoves(o)
    PROVE  OpMoves(o)
<1>1. /\ \A x \in Ops : x # o => ops'[x] = ops[x]
      /\ ops'[o].pc = pc /\ ops'[o].kind = ops[o].kind
  BY BecomesAt
<1>2. InUse(o)' => InUse(o)
  BY <1>1, HeadHasAPlace DEF InUse, UsesModel, Core
<1>3. QueueMoves(o)
  BY DEF QueueMoves
<1>4. KindMoves(o)
  BY <1>1, <1>2 DEF KindMoves, KindFits
<1> QED
  BY <1>1, <1>3, <1>4 DEF OpMoves

\* The old model is freed or the new one is built: each is counted once.
LEMMA StartLoadMoves ==
    ASSUME Core, Kinds, NEW o \in Ops, AtHead(o), ops[o].pc \in {"queued", "belt"},
           UsesModel(o), ~Armed, StartLoad(o), contexts \in Int
    PROVE  OpMoves(o)
<1>1. ~Holding(o) /\ InUse(o) /\ ops[o].kind # "release"
  BY DEF Holding, InUse, QueuePlaces, UsesModel
<1>2. CASE Settle(o) /\ UNCHANGED <<resident, contexts>>
  BY <1>1, <1>2, SettleOnlyMoves
<1>3. CASE /\ resident # NoModel /\ resident' = NoModel /\ Goes(o, "releasing")
           /\ UNCHANGED <<queue, waits, contexts>>
  <2>1. "releasing" \in Places
    BY DEF Places, QueuePlaces
  <2>2. Becomes(o, "releasing")
    BY <1>3, <2>1, Moves, Zenon DEF Goes
  <2>3. ops'[o].pc = "releasing"
    BY <2>2, BecomesAt
  <2>4. Holding(o)' /\ ~Local(o)'
    BY <2>3 DEF Holding, Local
  <2>5. contexts' = contexts + 1 - 1
    BY <1>3
  <2>6. ModelMoves(o)
    BY <1>1, <1>3, <2>4, <2>5 DEF ModelMoves, One
  <2> QED
    BY <1>1, <1>3, <2>2, <2>6, HeadMoves
<1>4. CASE /\ resident = NoModel /\ contexts' = contexts + 1
           /\ ops' = [ops EXCEPT ![o].pc = "loading", ![o].backend = EffectiveBackend]
           /\ UNCHANGED <<queue, waits, resident>>
  <2>1. EffectiveBackend \in {"cpu", "gpu", "bypass"} /\ "loading" \in Places
    BY DEF EffectiveBackend, Places, QueuePlaces
  <2>2. Becomes(o, "loading")
    BY <1>4, <2>1, MovesWithBackend, Zenon
  <2>3. ops'[o].pc = "loading"
    BY <2>2, BecomesAt
  <2>4. Holding(o)' /\ ~Local(o)'
    BY <2>3 DEF Holding, Local
  <2>5. contexts' = contexts + 1 - 0
    BY <1>4
  <2>6. ModelMoves(o)
    BY <1>1, <1>4, <2>4, <2>5 DEF ModelMoves, One
  <2> QED
    BY <1>1, <1>4, <2>2, <2>6, HeadMoves
<1> QED
  BY <1>2, <1>3, <1>4 DEF StartLoad

\* A query that generates is given the model that was loaded.
LEMMA MovedWithBackend ==
    ASSUME Core, NEW o \in Ops, NEW pc, NEW backend,
           ops' = [ops EXCEPT ![o].pc = pc, ![o].backend = backend]
    PROVE  ops'[o].profile = ops[o].profile /\ ops'[o].backend = backend
<1> DEFINE mid == [ops[o] EXCEPT !.pc = pc]
<1>1. ops \in [Ops -> OpRecords] /\ ops[o] \in OpRecords
  BY DEF Core, Types
<1>2. DOMAIN mid = {"kind", "pc", "gen", "profile", "backend"} /\ mid.profile = ops[o].profile
  BY <1>1 DEF OpRecords
<1>3. ops' = [ops EXCEPT ![o] = [mid EXCEPT !.backend = backend]]
  BY <1>1
<1> HIDE DEF mid
<1> QED
  BY <1>1, <1>2, <1>3

LEMMA SectionMoves ==
    ASSUME Core, Kinds, NEW o \in Ops, Section(o), contexts \in Int
    PROVE  OpMoves(o)
<1>1. AtHead(o) /\ ops[o].pc = "queued" /\ DisposedFirst(o) /\ ~Holding(o)
  BY DEF Section, Holding
<1>2. CASE Settle(o) /\ UNCHANGED <<resident, contexts>>
  BY <1>1, <1>2, SettleOnlyMoves
<1>3. CASE /\ UsesModel(o) /\ resident = Identity(o) /\ ops[o].kind = "query"
           /\ ops' = [ops EXCEPT ![o].pc = "generating", ![o].backend = resident[2]]
           /\ UNCHANGED <<queue, waits, resident, contexts>>
  <2>1. /\ resident[1] = ops[o].profile /\ resident[2] \in {"cpu", "gpu"}
        /\ resident = <<resident[1], resident[2]>> /\ "generating" \in Places
        /\ resident[2] \in {"cpu", "gpu", "bypass"}
    BY <1>3 DEF Identity, EffectiveBackend, Places, QueuePlaces
  <2>2. Becomes(o, "generating")
    BY <1>3, <2>1, MovesWithBackend, Zenon
  <2>3. ops'[o].profile = ops[o].profile /\ ops'[o].backend = resident[2]
    <3> DEFINE backend == resident[2]
    <3>1. ops' = [ops EXCEPT ![o].pc = "generating", ![o].backend = backend]
      BY <1>3
    <3> HIDE DEF backend
    <3>2. ops'[o].profile = ops[o].profile /\ ops'[o].backend = backend
      BY <3>1, MovedWithBackend
    <3> QED
      BY <3>2 DEF backend
  <2>4. resident' = Held(o)'
    BY <1>3, <2>1, <2>3 DEF Held
  <2>5. ~Holding(o)'
    BY <2>2, BecomesAt DEF Holding
  <2>6. ModelMoves(o)
    BY <1>1, <1>3, <2>4, <2>5 DEF ModelMoves
  <2> QED
    BY <1>1, <1>3, <2>2, <2>6, HeadMoves
<1>4. CASE /\ UsesModel(o) /\ Goes(o, "belt") /\ UNCHANGED <<queue, waits, resident, contexts>>
  <2>1. "belt" \in Places
    BY DEF Places, QueuePlaces
  <2>2. Becomes(o, "belt")
    BY <1>4, <2>1, Moves, Zenon DEF Goes
  <2>3. ~Holding(o)' /\ ~Local(o)'
    BY <2>2, BecomesAt DEF Holding, Local
  <2>4. ModelMoves(o)
    BY <1>1, <1>4, <2>3 DEF ModelMoves
  <2> QED
    BY <1>1, <1>4, <2>2, <2>4, HeadMoves DEF UsesModel
<1>5. CASE UsesModel(o) /\ ~Armed /\ StartLoad(o)
  BY <1>1, <1>5, StartLoadMoves
<1>6. CASE /\ ops[o].kind = "external"
           /\ Goes(o, "generating") /\ UNCHANGED <<queue, waits, resident, contexts>>
  <2>1. "generating" \in Places
    BY DEF Places, QueuePlaces
  <2>2. Becomes(o, "generating")
    BY <1>6, <2>1, Moves, Zenon DEF Goes
  <2>3. ~Holding(o)' /\ ~Local(o)'
    BY <1>6, <2>2, BecomesAt DEF Holding, Local
  <2>4. ModelMoves(o)
    BY <1>1, <1>6, <2>3 DEF ModelMoves
  <2> QED
    BY <1>1, <1>6, <2>2, <2>4, HeadMoves
<1>7. CASE /\ ops[o].kind = "release" /\ resident # NoModel /\ resident' = NoModel
           /\ Goes(o, "freeing") /\ UNCHANGED <<queue, waits, contexts>>
  <2>1. "freeing" \in Places
    BY DEF Places, QueuePlaces
  <2>2. Becomes(o, "freeing")
    BY <1>7, <2>1, Moves, Zenon DEF Goes
  <2>3. Holding(o)' /\ ~Local(o)'
    BY <2>2, BecomesAt DEF Holding, Local
  <2>4. contexts' = contexts + 1 - 1
    BY <1>7
  <2>5. ModelMoves(o)
    BY <1>1, <1>7, <2>3, <2>4 DEF ModelMoves, One
  <2> QED
    BY <1>1, <1>7, <2>2, <2>5, HeadMoves
<1> QED
  BY <1>2, <1>3, <1>4, <1>5, <1>6, <1>7 DEF Section

LEMMA BeltOpensMoves ==
    ASSUME Core, Kinds, NEW o \in Ops, BeltOpens(o), contexts \in Int
    PROVE  OpMoves(o)
<1>1. ops[o].pc = "belt" /\ StartLoad(o) /\ ~Armed
  BY DEF BeltOpens
<1>2. AtHead(o)
  BY <1>1, UnderWay DEF QueuePlaces
<1>3. UsesModel(o)
  BY <1>1 DEF Core, Captured, Loading
<1> QED
  BY <1>1, <1>2, <1>3, StartLoadMoves

LEMMA ReleasedMoves ==
    ASSUME Core, Kinds, Exclusive, NEW o \in Ops, Released(o)
    PROVE  OpMoves(o)
<1>1. /\ ops[o].pc = "releasing" /\ Holding(o)
      /\ ops' = [ops EXCEPT ![o].pc = "loading", ![o].backend = EffectiveBackend]
      /\ UNCHANGED <<queue, waits, resident, contexts>>
  BY DEF Released, Holding
<1>2. AtHead(o) /\ UsesModel(o)
  BY <1>1, UnderWay DEF QueuePlaces, Core, Captured, Loading
<1>3. EffectiveBackend \in {"cpu", "gpu", "bypass"} /\ "loading" \in Places
  BY DEF EffectiveBackend, Places, QueuePlaces
<1>4. Becomes(o, "loading")
  BY <1>1, <1>3, MovesWithBackend, Zenon
<1>5. Holding(o)' /\ ~Local(o)'
  BY <1>4, BecomesAt DEF Holding, Local
<1>6. ModelMoves(o)
  BY <1>1, <1>5 DEF ModelMoves, Exclusive
<1> QED
  BY <1>1, <1>2, <1>4, <1>6, HeadMoves DEF UsesModel

LEMMA LoadSucceedsMoves ==
    ASSUME Core, Kinds, Exclusive, NEW o \in Ops, LoadSucceeds(o), contexts \in Int
    PROVE  OpMoves(o)
<1>1. /\ ops[o].pc = "loading" /\ Holding(o) /\ resident' = Held(o) /\ Loaded(o)
      /\ UNCHANGED contexts /\ ops \in [Ops -> OpRecords] /\ ops[o] \in OpRecords
  BY DEF LoadSucceeds, Holding, Held, Core, Types
<1>2. AtHead(o) /\ UsesModel(o)
  BY <1>1, UnderWay DEF QueuePlaces, Core, Captured, Loading
<1>3. resident' # NoModel
  BY <1>1, ModelAssumption DEF Held, OpRecords
<1>4. contexts' = contexts + 1 - 1
  BY <1>1
<1>5. CASE ops[o].kind = "query" /\ LoadOver(o, "generating")
  <2>1. "generating" \in Places
    BY DEF Places, QueuePlaces
  <2>2. Becomes(o, "generating")
    BY <1>5, <2>1, Moves, Zenon DEF LoadOver, Goes
  <2>3. ops'[o].profile = ops[o].profile /\ ops'[o].backend = ops[o].backend
    BY <1>1, <1>5 DEF LoadOver, Goes, OpRecords
  <2>4. resident' = Held(o)'
    BY <1>1, <2>3 DEF Held
  <2>5. ~Holding(o)'
    BY <2>2, BecomesAt DEF Holding
  <2>6. ModelMoves(o)
    BY <1>1, <1>2, <1>3, <1>4, <2>4, <2>5 DEF ModelMoves, One
  <2>7. UNCHANGED queue /\ \A c \in Callers : call[c] \in {"join", "drain"} => waits'[c] = waits[c]
    BY <1>5 DEF LoadOver
  <2> QED
    BY <1>2, <1>5, <2>2, <2>6, <2>7, HeadMoves
<1>6. CASE Settle(o)
  <2>1. /\ \A x \in Ops : x # o => ops'[x] = ops[x]
        /\ QueueMoves(o) /\ KindMoves(o) /\ ~Holding(o)' /\ ~Local(o)'
    BY <1>2, <1>6, SettleMoves
  <2>2. ModelMoves(o)
    BY <1>1, <1>2, <1>3, <1>4, <2>1 DEF ModelMoves, One
  <2> QED
    BY <2>1, <2>2 DEF OpMoves
<1> QED
  BY <1>1, <1>5, <1>6 DEF Loaded

\* What was being built or freed is gone.
LEMMA HeldIsGone ==
    ASSUME Core, Exclusive, NEW o \in Ops, Holding(o), Settle(o), contexts \in Int,
           UNCHANGED resident, contexts' = contexts - 1
    PROVE  OpMoves(o)
<1>1. AtHead(o) /\ resident = NoModel
  BY UnderWay DEF Holding, QueuePlaces, Exclusive
<1>2. /\ \A x \in Ops : x # o => ops'[x] = ops[x]
      /\ QueueMoves(o) /\ KindMoves(o) /\ ~Holding(o)' /\ ~Local(o)'
  BY <1>1, SettleMoves
<1>3. contexts' = contexts + 0 - 1
  OBVIOUS
<1>4. ModelMoves(o)
  BY <1>1, <1>2, <1>3 DEF ModelMoves, One
<1> QED
  BY <1>2, <1>4 DEF OpMoves

LEMMA LoadFailsMoves ==
    ASSUME Core, Kinds, Exclusive, NEW o \in Ops, LoadFails(o), contexts \in Int
    PROVE  OpMoves(o)
<1>1. ops[o].pc = "loading" /\ Holding(o) /\ UNCHANGED resident
  BY DEF LoadFails, Holding
<1>2. AtHead(o) /\ UsesModel(o)
  BY <1>1, UnderWay DEF QueuePlaces, Core, Captured, Loading
<1>3. CASE \E b \in {"cpu", "bypass"} : /\ ops' = [ops EXCEPT ![o].backend = b]
                                        /\ UNCHANGED <<queue, waits, contexts>>
  <2>1. PICK b \in {"cpu", "bypass"} : ops' = [ops EXCEPT ![o].backend = b]
    BY <1>3
  <2>2. b \in {"cpu", "gpu", "bypass"}
    OBVIOUS
  <2>3. Becomes(o, "loading")
    BY <1>1, <2>1, <2>2, TriesAnotherBackend, Zenon
  <2>4. Holding(o)' /\ ~Local(o)'
    BY <2>3, BecomesAt DEF Holding, Local
  <2>5. ModelMoves(o)
    BY <1>1, <1>3, <2>4 DEF ModelMoves, Exclusive
  <2> QED
    BY <1>2, <1>3, <2>3, <2>5, HeadMoves DEF UsesModel
<1>4. CASE Settle(o) /\ contexts' = contexts - 1
  BY <1>1, <1>4, HeldIsGone
<1> QED
  BY <1>3, <1>4 DEF LoadFails

LEMMA GeneratedMoves ==
    ASSUME Core, NEW o \in Ops, Generated(o)
    PROVE  OpMoves(o)
<1>1. ops[o].pc = "generating" /\ Settle(o) /\ UNCHANGED <<resident, contexts>> /\ ~Holding(o)
  BY DEF Generated, Holding
<1>2. AtHead(o)
  BY <1>1, UnderWay DEF QueuePlaces
<1> QED
  BY <1>1, <1>2, SettleOnlyMoves

LEMMA ReleaseFreedMoves ==
    ASSUME Core, Exclusive, NEW o \in Ops, ReleaseFreed(o), contexts \in Int
    PROVE  OpMoves(o)
<1>1. Holding(o) /\ Settle(o) /\ UNCHANGED resident /\ contexts' = contexts - 1
  BY DEF ReleaseFreed, Holding
<1> QED
  BY <1>1, HeldIsGone

-----------------------------------------------------------------------------
(* Who holds the device.                                                   *)

EngineHolds == resident # NoModel \/ \E o \in Ops : Holding(o)

TestFrees == \E f \in Flights : call[f] = "free"

\* Every native context has one owner: the engine, which holds the resident
\* model or whose head is between two of them, the stop, or a GPU test.
Counted == contexts = One(EngineHolds) + One(call[Stop] = "free") + One(TestFrees)

\* While the boot measures the device nothing has a model.
BootQuiet == \A l \in Lives : host = "up" /\ l = life /\ Booting(l) => ~EngineHolds

\* The operations a dispose waits for are the front of the queue.
FrontOfQueue(s) ==
    /\ \A o \in s : \E i \in 1..Len(queue) : queue[i] = o
    /\ \A i, j \in 1..Len(queue) : i <= j /\ queue[j] \in s => queue[i] \in s

\* The test's pause keeps queries out of the queue; its join waits for those
\* that are in, and its dispose for a release that takes the model before it.
TestQuiet(f) ==
    host = "up" =>
        /\ tests[f].pc \in {"join", "unload", "probe"} => paused
        /\ tests[f].pc = "join" /\ call[f] = "join" => \A o \in Ops : InUse(o) => o \in waits[f]
        /\ tests[f].pc \in {"unload", "probe"} => \A o \in Ops : ~InUse(o)
        /\ tests[f].pc = "unload" => call[f] # "drainLoad"
        /\ tests[f].pc = "unload" /\ call[f] = "drain" =>
              /\ FrontOfQueue(waits[f])
              /\ \A o \in Ops : ops[o].pc = "freeing" => o \in waits[f]
        /\ tests[f].pc = "probe" \/ (tests[f].pc = "unload" /\ call[f] \in {"free", "disposed"})
              => ~EngineHolds

\* A stop waits for the releases too, and no release comes after it.
ReleasesGone ==
    /\ host = "unloading" =>
          \A o \in Ops : ops[o].kind = "release" =>
              call[Stop] = "drain" /\ o \in waits[Stop]
    /\ host \in {"down", "starting"} => \A o \in Ops : ops[o].kind # "release"

DeviceInv ==
    /\ Kinds /\ Exclusive /\ Counted /\ BootQuiet /\ ReleasesGone /\ GeneratesOnResident
    /\ \A f \in Flights : TestQuiet(f)

\* What an operation's move is counted as.
LEMMA OneIsANumber == \A b \in BOOLEAN : One(b) \in {0, 1}
  BY DEF One

LEMMA CountIsANumber ==
    ASSUME Counted
    PROVE  contexts \in Int
<1>1. One(EngineHolds) \in Int /\ One(call[Stop] = "free") \in Int /\ One(TestFrees) \in Int
  BY DEF One
<1> QED
  BY <1>1 DEF Counted

\* The engine holds a context when the model is resident or its head holds one.
LEMMA HeadHolds ==
    ASSUME Core, NEW o \in Ops, AtHead(o), \A x \in Ops : x # o => ops'[x] = ops[x]
    PROVE  /\ EngineHolds <=> resident # NoModel \/ Holding(o)
           /\ EngineHolds' <=> resident' # NoModel \/ Holding(o)'
<1>1. \A x \in Ops : x # o => ~Holding(x) /\ ~Holding(x)'
  BY OneOperationHolds DEF Holding
<1> QED
  BY <1>1 DEF EngineHolds

LEMMA MoveKeepsCount ==
    ASSUME Core, Counted, NEW o \in Ops, OpMoves(o), UNCHANGED call
    PROVE  Counted'
<1>1. One(EngineHolds) \in Int /\ One(call[Stop] = "free") \in Int /\ One(TestFrees) \in Int
      /\ One(EngineHolds') \in Int
  BY DEF One
<1>2. TestFrees' = TestFrees /\ (call[Stop] = "free")' = (call[Stop] = "free")
  BY DEF TestFrees
<1>3. One(TestFrees') = One(TestFrees) /\ One((call[Stop] = "free")') = One(call[Stop] = "free")
  BY <1>2 DEF One
<1>4. CASE resident' = resident /\ contexts' = contexts /\ (Holding(o)' <=> Holding(o))
  <2>1. EngineHolds' <=> EngineHolds
    BY <1>4 DEF OpMoves, EngineHolds, Holding
  <2>2. One(EngineHolds') = One(EngineHolds)
    BY <2>1 DEF One
  <2> QED
    BY <1>3, <1>4, <2>2 DEF Counted
<1>5. CASE /\ AtHead(o)
           /\ contexts' = contexts + One(resident' # NoModel \/ Holding(o)')
                                   - One(resident # NoModel \/ Holding(o))
  <2>1. /\ EngineHolds <=> resident # NoModel \/ Holding(o)
        /\ EngineHolds' <=> resident' # NoModel \/ Holding(o)'
    BY <1>5, HeadHolds DEF OpMoves
  <2>2. /\ One(resident # NoModel \/ Holding(o)) = One(EngineHolds)
        /\ One(resident' # NoModel \/ Holding(o)') = One(EngineHolds')
    BY <2>1 DEF One
  <2>3. contexts' = contexts + One(EngineHolds') - One(EngineHolds)
    BY <1>5, <2>2
  <2>4. contexts = One(EngineHolds) + One(call[Stop] = "free") + One(TestFrees)
    BY DEF Counted
  <2>5. contexts' = One(EngineHolds') + One(call[Stop] = "free") + One(TestFrees)
    BY <1>1, <2>3, <2>4
  <2> QED
    BY <1>3, <2>5 DEF Counted
<1> QED
  BY <1>4, <1>5 DEF OpMoves, ModelMoves

\* The engine begins to hold a context only for a query or warmup behind an
\* open gate.
LEMMA MoveKeepsUnheld ==
    ASSUME Core, ~EngineHolds, NEW o \in Ops, OpMoves(o), Armed \/ ~InUse(o)
    PROVE  ~EngineHolds'
<1>1. resident = NoModel /\ \A x \in Ops : ~Holding(x)
  BY DEF EngineHolds
<1>2. resident' = NoModel /\ ~Holding(o)'
  BY <1>1 DEF OpMoves, ModelMoves
<1> QED
  BY <1>1, <1>2 DEF EngineHolds, OpMoves, Holding

LEMMA MoveKeepsModel ==
    ASSUME Core, Exclusive, GeneratesOnResident, NEW o \in Ops, OpMoves(o), UNCHANGED host
    PROVE  Exclusive' /\ GeneratesOnResident'
<1>1. ASSUME NEW x \in Ops, x # o
      PROVE  /\ Holding(x)' <=> Holding(x)
             /\ Local(x)' <=> Local(x)
             /\ Held(x)' = Held(x)
             /\ Holding(x) \/ Local(x) => resident' = resident
  <2>1. ops'[x] = ops[x]
    BY <1>1 DEF OpMoves
  <2>2. Holding(x) \/ Local(x) => ~AtHead(o)
    BY <1>1, OneOperationHolds
  <2> QED
    BY <2>1, <2>2 DEF Holding, Local, Held, OpMoves, ModelMoves
<1>2. Exclusive'
  BY <1>1 DEF Exclusive, OpMoves, ModelMoves
<1>3. GeneratesOnResident'
  <2>1. ASSUME host = "up", NEW x \in Ops, Local(x)' PROVE resident' = Held(x)'
    BY <1>1, <2>1 DEF GeneratesOnResident, OpMoves, ModelMoves
  <2> QED
    BY <2>1 DEF GeneratesOnResident
<1> QED
  BY <1>2, <1>3

LEMMA MoveKeepsReleases ==
    ASSUME Core, Kinds, ReleasesGone, NEW o \in Ops, OpMoves(o), UNCHANGED <<host, call>>
    PROVE  Kinds' /\ ReleasesGone'
<1>1. Kinds'
  BY DEF Kinds, KindFits, OpMoves, KindMoves
<1>2. ReleasesGone'
  <2>1. ASSUME NEW x \in Ops, ops'[x].kind = "release"
        PROVE  ops[x].kind = "release" \/ Serving
    BY <2>1 DEF OpMoves, KindMoves
  <2>2. ASSUME host = "unloading", NEW x \in Ops, ops'[x].kind = "release"
        PROVE  call[Stop] = "drain" /\ x \in waits'[Stop]
    <3>1. ops[x].kind = "release"
      BY <2>1, <2>2 DEF Serving
    <3>2. call[Stop] = "drain" /\ x \in waits[Stop] /\ Stop \in Callers
      BY <2>2, <3>1 DEF ReleasesGone, Callers
    <3>3. x # o \/ ops'[o] # Idle
      BY <2>2, IdleIsARecord
    <3> QED
      BY <3>2, <3>3 DEF OpMoves, QueueMoves
  <2> QED
    BY <2>1, <2>2 DEF ReleasesGone, Serving
<1> QED
  BY <1>1, <1>2

\* What a dispose waits for stays the front of the queue when the head leaves.
LEMMA FrontAfterTail ==
    ASSUME Types, Ordered, NEW o \in Ops, AtHead(o), queue' = Tail(queue),
           NEW s \in SUBSET Ops, FrontOfQueue(s),
           NEW t, t = s \ {o}
    PROVE  /\ \A x \in t : \E i \in 1..Len(queue') : queue'[i] = x
           /\ \A i, j \in 1..Len(queue') : i <= j /\ queue'[j] \in t => queue'[i] \in t
<1>1. queue # <<>> /\ queue[1] = o /\ 1 \in 1..Len(queue)
  BY HeadHasAPlace
<1>2. /\ queue' \in Seq(Ops) /\ Len(queue') = Len(queue) - 1 /\ Len(queue) \in Nat
      /\ \A i \in 1..Len(queue') : queue'[i] = queue[i + 1]
  BY <1>1, HeadTailProperties, LenProperties DEF Types
<1>3. \A i \in 1..Len(queue') : i + 1 \in 1..Len(queue) /\ i + 1 # 1
  BY <1>2
<1>4. \A i \in 1..Len(queue) : i = 1 \/ (i - 1 \in 1..Len(queue') /\ (i - 1) + 1 = i)
  BY <1>2
<1>5. \A i \in 1..Len(queue') : queue'[i] # o
  BY <1>1, <1>2, <1>3 DEF Ordered
<1>6. ASSUME NEW x \in t PROVE \E i \in 1..Len(queue') : queue'[i] = x
  <2>1. PICK i \in 1..Len(queue) : queue[i] = x
    BY DEF FrontOfQueue
  <2>2. i # 1
    BY <1>1, <2>1
  <2>3. i - 1 \in 1..Len(queue') /\ queue'[i - 1] = queue[(i - 1) + 1] /\ (i - 1) + 1 = i
    BY <1>2, <1>4, <2>2
  <2> QED
    BY <2>1, <2>3
<1>7. ASSUME NEW i \in 1..Len(queue'), NEW j \in 1..Len(queue'), i <= j, queue'[j] \in t
      PROVE  queue'[i] \in t
  <2>1. /\ i + 1 \in 1..Len(queue) /\ j + 1 \in 1..Len(queue) /\ i + 1 <= j + 1
        /\ queue'[i] = queue[i + 1] /\ queue'[j] = queue[j + 1]
    BY <1>2, <1>3, <1>7
  <2>2. queue[i + 1] \in s
    BY <1>7, <2>1 DEF FrontOfQueue
  <2> QED
    BY <1>5, <2>1, <2>2
<1> QED
  BY <1>6, <1>7

\* It stays the front when an operation is chained behind it.
LEMMA FrontAfterAppend ==
    ASSUME Types, Ordered, NEW o \in Ops, ops[o].pc \notin QueuePlaces, queue' = Append(queue, o),
           NEW s \in SUBSET Ops, FrontOfQueue(s)
    PROVE  /\ \A x \in s : \E i \in 1..Len(queue') : queue'[i] = x
           /\ \A i, j \in 1..Len(queue') : i <= j /\ queue'[j] \in s => queue'[i] \in s
<1>1. /\ queue' \in Seq(Ops) /\ Len(queue') = Len(queue) + 1 /\ queue'[Len(queue) + 1] = o
      /\ \A i \in 1..Len(queue) : queue'[i] = queue[i]
      /\ Len(queue) \in Nat
  BY AppendProperties, LenProperties DEF Types
<1>2. o \notin s
  BY DEF FrontOfQueue, Ordered
<1>3. \A x \in s : \E i \in 1..Len(queue') : queue'[i] = x
  <2>1. \A i \in 1..Len(queue) : i \in 1..Len(queue')
    BY <1>1
  <2> QED
    BY <1>1, <2>1 DEF FrontOfQueue
<1>4. ASSUME NEW i \in 1..Len(queue'), NEW j \in 1..Len(queue'), i <= j, queue'[j] \in s
      PROVE  queue'[i] \in s
  <2>1. j # Len(queue) + 1
    BY <1>1, <1>2, <1>4
  <2>2. i \in 1..Len(queue) /\ j \in 1..Len(queue)
    BY <1>1, <1>4, <2>1
  <2> QED
    BY <1>1, <1>4, <2>2 DEF FrontOfQueue
<1> QED
  BY <1>3, <1>4

\* A dispose that has waited for all there was has no release before it.
LEMMA HeadIsAwaited ==
    ASSUME Types, Ordered, NEW o \in Ops, AtHead(o), NEW s \in SUBSET Ops, s # {}, FrontOfQueue(s)
    PROVE  o \in s
<1>1. PICK x \in s : TRUE
  OBVIOUS
<1>2. PICK j \in 1..Len(queue) : queue[j] = x
  BY DEF FrontOfQueue
<1>3. queue[1] = o /\ 1 \in 1..Len(queue)
  BY HeadHasAPlace
<1> QED
  BY <1>1, <1>2, <1>3 DEF FrontOfQueue

\* An operation that moves leaves what a test waits for as it should be.
LEMMA MoveKeepsTest ==
    ASSUME IInv, PhaseInv, DeviceInv, NEW f \in Flights, NEW o \in Ops, OpMoves(o),
           UNCHANGED <<paused, call, host, tests>>
    PROVE  TestQuiet(f)'
<1>1. /\ Core /\ Types /\ Ordered /\ TestQuiet(f) /\ CallFits(f)
      /\ waits \in [Callers -> SUBSET Ops] /\ f \in Callers
      /\ ops \in [Ops -> OpRecords]
  BY CallersAreDistinct DEF IInv, Core, Types, DeviceInv, PhaseInv
<1> SUFFICES ASSUME host = "up"
             PROVE  /\ tests[f].pc = "join" /\ call[f] = "join"
                         => \A x \in Ops : InUse(x)' => x \in waits'[f]
                    /\ tests[f].pc \in {"join", "unload", "probe"} => paused
                    /\ tests[f].pc \in {"unload", "probe"} => \A x \in Ops : ~InUse(x)'
                    /\ tests[f].pc = "unload" => call[f] # "drainLoad"
                    /\ tests[f].pc = "unload" /\ call[f] = "drain" =>
                          /\ FrontOfQueue(waits[f])'
                          /\ \A x \in Ops : ops'[x].pc = "freeing" => x \in waits'[f]
                    /\ tests[f].pc = "probe"
                         \/ (tests[f].pc = "unload" /\ call[f] \in {"free", "disposed"})
                          => ~EngineHolds'
  BY DEF TestQuiet
<1>2. \A x \in Ops : InUse(x)' => InUse(x) \/ ~paused
  BY DEF OpMoves, KindMoves, InUse, UsesModel
<1>3. \A x \in Ops : x \in waits[f] =>
          x \in waits'[f] \/ (x = o /\ ops'[o] = Idle) \/ call[f] \notin {"join", "drain"}
  BY <1>1 DEF OpMoves, QueueMoves
<1>4. ~InUse(o)' \/ ops'[o] # Idle
  BY IdleIsARecord DEF InUse, UsesModel
<1>5. ASSUME tests[f].pc = "join", call[f] = "join", NEW x \in Ops, InUse(x)'
      PROVE  x \in waits'[f]
  BY <1>1, <1>2, <1>3, <1>4, <1>5 DEF TestQuiet
<1>6. tests[f].pc \in {"unload", "probe"} => \A x \in Ops : ~InUse(x) /\ ~InUse(x)'
  BY <1>1, <1>2 DEF TestQuiet
<1>7. ASSUME tests[f].pc = "unload", call[f] = "drain"
      PROVE  FrontOfQueue(waits[f])'
  <2>1. FrontOfQueue(waits[f]) /\ waits[f] \in SUBSET Ops
    BY <1>1, <1>7 DEF TestQuiet
  <2>2. CASE AtHead(o) /\ queue' = Tail(queue) /\ waits' = [c \in Callers |-> waits[c] \ {o}]
    <3>1. waits'[f] = waits[f] \ {o}
      BY <1>1, <2>2
    <3> QED
      BY <1>1, <2>1, <2>2, <3>1, FrontAfterTail DEF FrontOfQueue
  <2>3. CASE /\ ops[o].pc \notin QueuePlaces /\ queue' = queue
             /\ waits' = [c \in Callers |-> waits[c] \ {o}]
    <3>1. o \notin waits[f]
      BY <1>1, <2>1, <2>3 DEF FrontOfQueue, Ordered
    <3>2. waits'[f] = waits[f]
      BY <1>1, <2>3, <3>1
    <3> QED
      BY <2>1, <2>3, <3>2 DEF FrontOfQueue
  <2>4. CASE queue' = queue /\ waits'[f] = waits[f]
    BY <2>1, <2>4 DEF FrontOfQueue
  <2>5. CASE ops[o].pc \notin QueuePlaces /\ queue' = Append(queue, o) /\ waits' = waits
    BY <1>1, <2>1, <2>5, FrontAfterAppend DEF FrontOfQueue
  <2> QED
    BY <1>1, <1>7, <2>2, <2>3, <2>4, <2>5 DEF OpMoves, QueueMoves
<1>8. ASSUME tests[f].pc = "unload", call[f] = "drain", NEW x \in Ops, ops'[x].pc = "freeing"
      PROVE  x \in waits'[f]
  <2>1. FrontOfQueue(waits[f]) /\ waits[f] \in SUBSET Ops
        /\ (ops[x].pc = "freeing" => x \in waits[f])
    BY <1>1, <1>8 DEF TestQuiet
  <2>2. x # o \/ ops'[o] # Idle
    BY <1>8, IdleIsARecord
  <2>3. CASE ops[x].pc = "freeing"
    BY <1>1, <1>3, <1>8, <2>1, <2>2, <2>3
  <2>4. CASE ops[x].pc # "freeing"
    <3>1. x = o /\ AtHead(o) /\ ops[o].kind = "release" /\ DisposedFirst(o)
      BY <1>8, <2>4 DEF OpMoves, KindMoves
    <3>2. waits[f] # {}
      BY <1>1, <1>8, <3>1 DEF DisposedFirst
    <3>3. x \in waits[f]
      BY <1>1, <2>1, <3>1, <3>2, HeadIsAwaited
    <3> QED
      BY <1>1, <1>3, <1>8, <2>2, <3>3
  <2> QED
    BY <2>3, <2>4
<1>9. ASSUME \/ tests[f].pc = "probe"
             \/ tests[f].pc = "unload" /\ call[f] \in {"free", "disposed"}
      PROVE  ~EngineHolds'
  <2>1. ~EngineHolds /\ ~InUse(o)
    BY <1>1, <1>6, <1>9 DEF TestQuiet
  <2> QED
    BY <1>1, <2>1, MoveKeepsUnheld
<1> QED
  BY <1>1, <1>5, <1>6, <1>7, <1>8, <1>9 DEF TestQuiet

\* An operation of the engine moves.
LEMMA MoveKeepsDevice ==
    ASSUME IInv, PhaseInv, DeviceInv, NEW o \in Ops, OpMoves(o),
           UNCHANGED <<paused, gate, call, hostVars>>
    PROVE  DeviceInv'
<1>1. /\ Core /\ Kinds /\ Exclusive /\ Counted /\ ReleasesGone /\ GeneratesOnResident
      /\ UNCHANGED <<host, life, boot, tests>>
  BY DEF IInv, DeviceInv, hostVars
<1>2. Counted' /\ Exclusive' /\ GeneratesOnResident' /\ Kinds' /\ ReleasesGone'
  BY <1>1, MoveKeepsCount, MoveKeepsModel, MoveKeepsReleases
<1>3. \A f \in Flights : TestQuiet(f)'
  BY <1>1, MoveKeepsTest
<1>4. BootQuiet'
  <2>1. ASSUME NEW l \in Lives, host = "up", l = life, Booting(l) PROVE ~EngineHolds'
    <3>1. Armed /\ ~EngineHolds
      BY <2>1 DEF PhaseInv, BootInStep, BootFits, Booting, DeviceInv, BootQuiet
    <3> QED
      BY <1>1, <3>1, MoveKeepsUnheld
  <2> QED
    BY <1>1, <2>1 DEF BootQuiet, Booting
<1> QED
  BY <1>2, <1>3, <1>4 DEF DeviceInv

-----------------------------------------------------------------------------
(* Calls beside the queue.                                                 *)

\* What a test that is not concerned waits for stays as it is.
LEMMA OtherTestStays ==
    ASSUME NEW f \in Flights, TestQuiet(f), UNCHANGED <<ops, queue, paused, host>>,
           tests'[f].pc = tests[f].pc, call'[f] = call[f], waits'[f] = waits[f],
           EngineHolds' => EngineHolds
    PROVE  TestQuiet(f)'
<1>1. \A x \in Ops : InUse(x)' <=> InUse(x)
  BY DEF InUse, UsesModel
<1>2. FrontOfQueue(waits[f])' <=> FrontOfQueue(waits[f])
  BY DEF FrontOfQueue
<1> QED
  BY <1>1, <1>2 DEF TestQuiet

\* A test that frees the model unloads it, and is the only one.
LEMMA FreeingTest ==
    ASSUME PhaseInv, NEW f \in Flights, call[f] \in {"drain", "drainLoad", "free", "disposed"}
    PROVE  /\ tests[f].pc = "unload" /\ Testing(f)
           /\ \A g \in Flights : call[g] = "free" => g = f
<1>1. \A g \in Flights : call[g] \in {"drain", "drainLoad", "free", "disposed"} =>
        tests[g].pc = "unload" /\ Testing(g)
  BY DEF PhaseInv, CallFits, Testing
<1> QED
  BY <1>1 DEF PhaseInv, OneTest

\* What the kinds, the model and the boot's quiet rest on.
LEMMA QuietStays ==
    ASSUME Kinds, Exclusive, BootQuiet, UNCHANGED <<ops, host, life, boot>>,
           resident' \in {resident, NoModel}
    PROVE  /\ Kinds' /\ Exclusive' /\ BootQuiet' /\ (EngineHolds' => EngineHolds)
           /\ \A o \in Ops : Holding(o)' <=> Holding(o)
<1>1. Kinds'
  BY DEF Kinds, KindFits
<1>2. \A o \in Ops : Holding(o)' <=> Holding(o)
  BY DEF Holding
<1>3. EngineHolds' => EngineHolds
  BY <1>2 DEF EngineHolds
<1>4. Exclusive' /\ BootQuiet'
  BY <1>2, <1>3 DEF Exclusive, BootQuiet, Booting
<1> QED
  BY <1>1, <1>2, <1>3, <1>4

LEMMA JoinLoadedKeepsDevice ==
    ASSUME IInv, PhaseInv, DeviceInv, NEW c \in Callers, JoinLoaded(c), UNCHANGED hostVars
    PROVE  DeviceInv'
<1>1. /\ call[c] = "joinLoad" /\ call' = [call EXCEPT ![c] = "join"]
      /\ waits' = [waits EXCEPT ![c] = ToSet(queue)]
      /\ UNCHANGED <<ops, queue, resident, contexts, paused, host, life, boot, tests>>
      /\ DOMAIN call = Callers /\ waits \in [Callers -> SUBSET Ops]
      /\ Types /\ Ordered /\ Unloads
  BY DEF JoinLoaded, hostVars, flags, IInv, Core, Types
<1>2. /\ call'[c] = "join" /\ waits'[c] = ToSet(queue)
      /\ \A d \in Callers : d # c => call'[d] = call[d] /\ waits'[d] = waits[d]
  BY <1>1
<1>3. Kinds' /\ Exclusive' /\ BootQuiet' /\ (EngineHolds' <=> EngineHolds)
  BY <1>1, QuietStays DEF DeviceInv, EngineHolds
<1>4. Counted'
  <2>1. /\ (TestFrees' <=> TestFrees) /\ (call'[Stop] = "free" <=> call[Stop] = "free")
    BY <1>1, <1>2, CallersAreDistinct DEF TestFrees, Callers
  <2>2. /\ One(TestFrees') = One(TestFrees) /\ One(call'[Stop] = "free") = One(call[Stop] = "free")
        /\ One(EngineHolds') = One(EngineHolds)
    BY <1>3, <2>1 DEF One
  <2> QED
    BY <1>1, <2>2 DEF DeviceInv, Counted
<1>5. ReleasesGone'
  <2>1. host = "unloading" => c # Stop
    BY <1>1 DEF Unloads
  <2> QED
    BY <1>1, <1>2, <2>1 DEF DeviceInv, ReleasesGone, Callers
<1>6. GeneratesOnResident'
  BY <1>1 DEF DeviceInv, GeneratesOnResident, Local, Held
<1>7. ASSUME NEW f \in Flights PROVE TestQuiet(f)'
  <2>1. TestQuiet(f) /\ f \in Callers /\ CallFits(f)
    BY CallersAreDistinct DEF DeviceInv, PhaseInv
  <2>2. CASE f # c
    BY <1>1, <1>2, <1>3, <2>1, <2>2, OtherTestStays
  <2>3. CASE f = c
    <3>1. tests[f].pc = "join" /\ call'[f] = "join"
      BY <1>1, <1>2, <2>1, <2>3 DEF CallFits
    <3>2. \A x \in Ops : InUse(x)' => x \in waits'[f]
      BY <1>1, <1>2, <2>3, QueueIsOfOps DEF InUse, UsesModel, Ordered
    <3> QED
      BY <1>1, <2>1, <3>1, <3>2 DEF TestQuiet
  <2> QED
    BY <2>2, <2>3
<1> QED
  BY <1>3, <1>4, <1>5, <1>6, <1>7 DEF DeviceInv

\* The native context of a disposed model is gone.
LEMMA FreedKeepsDevice ==
    ASSUME IInv, PhaseInv, DeviceInv, NEW c \in Callers, Freed(c), UNCHANGED hostVars
    PROVE  DeviceInv'
<1>1. /\ call[c] = "free" /\ call' = [call EXCEPT ![c] = "disposed"] /\ contexts' = contexts - 1
      /\ UNCHANGED <<ops, queue, resident, paused, host, life, boot, tests, waits>>
      /\ DOMAIN call = Callers
  BY DEF Freed, hostVars, flags, IInv, Core, Types
<1>2. /\ call'[c] = "disposed"
      /\ \A d \in Callers : d # c => call'[d] = call[d]
  BY <1>1
<1>3. Kinds' /\ Exclusive' /\ BootQuiet' /\ (EngineHolds' <=> EngineHolds)
  BY <1>1, QuietStays DEF DeviceInv, EngineHolds
<1>4. Counted'
  <2>1. contexts = One(EngineHolds) + One(call[Stop] = "free") + One(TestFrees)
    BY DEF DeviceInv, Counted
  <2>2. /\ One(EngineHolds) \in Int /\ One(call[Stop] = "free") \in Int /\ One(TestFrees) \in Int
    BY DEF One
  <2>3. One(EngineHolds') = One(EngineHolds)
    BY <1>3 DEF One
  <2>4. CASE c = Stop
    <3>1. /\ TestFrees' <=> TestFrees
          /\ call[Stop] = "free" /\ call'[Stop] # "free"
      BY <1>1, <1>2, <2>4, CallersAreDistinct DEF TestFrees
    <3>2. /\ One(TestFrees') = One(TestFrees)
          /\ One(call[Stop] = "free") = 1 /\ One(call'[Stop] = "free") = 0
      BY <3>1 DEF One
    <3> QED
      BY <1>1, <2>1, <2>2, <2>3, <3>2 DEF Counted
  <2>5. CASE c \in Flights
    <3>1. \A g \in Flights : call[g] = "free" => g = c
      BY <1>1, <2>5, FreeingTest
    <3>2. TestFrees /\ ~TestFrees' /\ (call'[Stop] = "free" <=> call[Stop] = "free")
      BY <1>1, <1>2, <2>5, <3>1, CallersAreDistinct DEF TestFrees
    <3>3. /\ One(TestFrees) = 1 /\ One(TestFrees') = 0
          /\ One(call'[Stop] = "free") = One(call[Stop] = "free")
      BY <3>2 DEF One
    <3> QED
      BY <1>1, <2>1, <2>2, <2>3, <3>3 DEF Counted
  <2> QED
    BY <2>4, <2>5 DEF Callers
<1>5. ReleasesGone'
  BY <1>1, <1>2 DEF DeviceInv, ReleasesGone, Callers
<1>6. GeneratesOnResident'
  BY <1>1 DEF DeviceInv, GeneratesOnResident, Local, Held
<1>7. ASSUME NEW f \in Flights PROVE TestQuiet(f)'
  <2>1. TestQuiet(f) /\ f \in Callers
    BY CallersAreDistinct DEF DeviceInv
  <2>2. CASE f # c
    BY <1>1, <1>2, <1>3, <2>1, <2>2, OtherTestStays
  <2>3. CASE f = c
    <3>1. tests[f].pc = "unload" /\ call[f] = "free" /\ call'[f] = "disposed"
      BY <1>1, <1>2, <2>3, FreeingTest
    <3>2. \A x \in Ops : InUse(x)' <=> InUse(x)
      BY <1>1 DEF InUse, UsesModel
    <3> QED
      BY <1>1, <1>3, <2>1, <3>1, <3>2 DEF TestQuiet
  <2> QED
    BY <2>2, <2>3
<1> QED
  BY <1>3, <1>4, <1>5, <1>6, <1>7 DEF DeviceInv

\* A stop's dispose that waits for nobody has no release to wait for.
LEMMA NoReleaseIsLeft ==
    ASSUME ReleasesGone, waits[Stop] = {}, host = "unloading"
    PROVE  \A o \in Ops : ops[o].kind # "release"
  BY DEF ReleasesGone

\* A test's dispose that waits for nobody finds the engine still.
LEMMA TestFindsItStill ==
    ASSUME IInv, PhaseInv, DeviceInv, NEW f \in Flights, host = "up",
           call[f] \in {"drain", "drainLoad"}, waits[f] = {}
    PROVE  /\ tests[f].pc = "unload" /\ call[f] = "drain" /\ ~LoadInFlight
           /\ \A o \in Ops : ~Holding(o) /\ ~Local(o)
<1>1. tests[f].pc = "unload" /\ TestQuiet(f) /\ Kinds /\ Captured
  BY FreeingTest DEF DeviceInv, IInv, Core
<1>2. /\ call[f] = "drain" /\ \A o \in Ops : ~InUse(o) /\ ops[o].pc # "freeing"
  BY <1>1 DEF TestQuiet
<1>3. \A o \in Ops : ~Loading(o) /\ ~Local(o)
  BY <1>1, <1>2 DEF InUse, Loading, Local, UsesModel, QueuePlaces, Captured
<1> QED
  BY <1>1, <1>2, <1>3 DEF LoadInFlight, Holding, Loading

\* A dispose takes the model, or waits for a load.
LEMMA DrainedKeepsDevice ==
    ASSUME IInv, PhaseInv, DeviceInv, NEW c \in Callers, Drained(c), UNCHANGED hostVars
    PROVE  DeviceInv'
<1>1. /\ call[c] \in {"drain", "drainLoad"} /\ waits[c] = {} /\ resident' \in {resident, NoModel}
      /\ UNCHANGED <<ops, queue, contexts, paused, host, life, boot, tests>>
      /\ DOMAIN call = Callers /\ waits \in [Callers -> SUBSET Ops]
  BY DEF Drained, TakeResident, hostVars, flags, IInv, Core, Types
<1>2. \A d \in Callers : d # c => call'[d] = call[d] /\ waits'[d] = waits[d]
  BY <1>1 DEF Drained, TakeResident
<1>3. /\ Kinds' /\ Exclusive' /\ BootQuiet' /\ (EngineHolds' => EngineHolds)
      /\ \A o \in Ops : Holding(o)' <=> Holding(o)
  BY <1>1, QuietStays DEF DeviceInv
<1>4. \/ resident' = resident /\ call'[c] = "drainLoad" /\ LoadInFlight
      \/ /\ resident' = NoModel
         /\ call'[c] = IF resident = NoModel THEN "disposed" ELSE "free"
  BY <1>1 DEF Drained, TakeResident
<1>5. c = Stop => host = "unloading"
  BY <1>1 DEF PhaseInv, StopFits, IInv, Core, Types
<1>6. c = Stop \/ c \in Flights
  BY DEF Callers
<1>7. Counted'
  <2>1. contexts = One(EngineHolds) + One(call[Stop] = "free") + One(TestFrees)
    BY DEF DeviceInv, Counted
  <2>2. /\ One(EngineHolds) \in Int /\ One(call[Stop] = "free") \in Int /\ One(TestFrees) \in Int
    BY DEF One
  <2>3. CASE resident' = resident /\ call'[c] # "free"
    <3>1. EngineHolds' <=> EngineHolds
      BY <1>3, <2>3 DEF EngineHolds
    <3>2. (TestFrees' <=> TestFrees) /\ (call'[Stop] = "free" <=> call[Stop] = "free")
      BY <1>1, <1>2, <2>3, CallersAreDistinct DEF TestFrees, Callers
    <3>3. /\ One(TestFrees') = One(TestFrees) /\ One(call'[Stop] = "free") = One(call[Stop] = "free")
          /\ One(EngineHolds') = One(EngineHolds)
      BY <3>1, <3>2 DEF One
    <3> QED
      BY <1>1, <2>1, <3>3 DEF Counted
  <2>4. CASE resident # NoModel /\ resident' = NoModel /\ call'[c] = "free"
    <3>1. EngineHolds /\ ~EngineHolds'
      BY <1>3, <2>4 DEF EngineHolds, DeviceInv, Exclusive
    <3>2. One(EngineHolds) = 1 /\ One(EngineHolds') = 0
      BY <3>1 DEF One
    <3>3. CASE c = Stop
      <4>1. /\ TestFrees' <=> TestFrees
            /\ call[Stop] # "free" /\ call'[Stop] = "free"
        BY <1>1, <1>2, <2>4, <3>3, CallersAreDistinct DEF TestFrees
      <4>2. /\ One(TestFrees') = One(TestFrees)
            /\ One(call[Stop] = "free") = 0 /\ One(call'[Stop] = "free") = 1
        BY <4>1 DEF One
      <4> QED
        BY <1>1, <2>1, <2>2, <3>2, <4>2 DEF Counted
    <3>4. CASE c \in Flights
      <4>1. \A g \in Flights : call[g] = "free" => g = c
        BY <1>1, <3>4, FreeingTest
      <4>2. ~TestFrees /\ TestFrees' /\ (call'[Stop] = "free" <=> call[Stop] = "free")
        BY <1>1, <1>2, <2>4, <3>4, <4>1, CallersAreDistinct DEF TestFrees
      <4>3. /\ One(TestFrees) = 0 /\ One(TestFrees') = 1
            /\ One(call'[Stop] = "free") = One(call[Stop] = "free")
        BY <4>2 DEF One
      <4> QED
        BY <1>1, <2>1, <2>2, <3>2, <4>3 DEF Counted
    <3> QED
      BY <1>6, <3>3, <3>4
  <2> QED
    BY <1>4, <2>3, <2>4
<1>8. ReleasesGone'
  <2>1. CASE c = Stop
    <3>1. \A o \in Ops : ops[o].kind # "release"
      BY <1>1, <1>5, <2>1, NoReleaseIsLeft DEF DeviceInv
    <3> QED
      BY <1>1, <3>1 DEF ReleasesGone
  <2>2. CASE c # Stop
    BY <1>1, <1>2, <2>2 DEF DeviceInv, ReleasesGone, Callers
  <2> QED
    BY <2>1, <2>2
<1>9. GeneratesOnResident'
  <2>1. CASE host = "up"
    <3>1. c \in Flights
      BY <1>5, <1>6, <2>1
    <3>2. \A o \in Ops : ~Local(o)
      BY <1>1, <2>1, <3>1, TestFindsItStill
    <3> QED
      BY <1>1, <3>2 DEF GeneratesOnResident, Local
  <2> QED
    BY <1>1, <2>1 DEF GeneratesOnResident
<1>10. ASSUME NEW f \in Flights PROVE TestQuiet(f)'
  <2>1. TestQuiet(f) /\ f \in Callers
    BY CallersAreDistinct DEF DeviceInv
  <2>2. CASE f # c
    BY <1>1, <1>2, <1>3, <2>1, <2>2, OtherTestStays
  <2>3. CASE f = c /\ host = "up"
    <3>1. /\ tests[f].pc = "unload" /\ ~LoadInFlight /\ \A o \in Ops : ~Holding(o)
      BY <1>1, <2>3, TestFindsItStill
    <3>2. call'[f] \in {"free", "disposed"} /\ resident' = NoModel
      BY <1>4, <2>3, <3>1
    <3>3. ~EngineHolds'
      BY <1>3, <3>1, <3>2 DEF EngineHolds
    <3>4. \A x \in Ops : InUse(x)' <=> InUse(x)
      BY <1>1 DEF InUse, UsesModel
    <3> QED
      BY <1>1, <2>1, <3>1, <3>2, <3>3, <3>4 DEF TestQuiet
  <2>4. CASE host # "up"
    BY <1>1, <2>4 DEF TestQuiet
  <2> QED
    BY <2>2, <2>3, <2>4
<1> QED
  BY <1>3, <1>7, <1>8, <1>9, <1>10 DEF DeviceInv

\* The engine's step keeps who holds the device.
LEMMA EngineKeepsDevice ==
    ASSUME IInv, PhaseInv, DeviceInv, UNCHANGED hostVars,
           \/ EngineReaction
           \/ \E o \in Ops : OpTask(o)
           \/ \E c \in Callers : Freed(c)
           \/ Serving /\ \E o \in Ops : Query(o) \/ SwitchExternal(o)
           \/ Serving /\ SwitchLocal
    PROVE  PhaseInv' /\ DeviceInv'
<1>1. Core /\ Kinds /\ Exclusive /\ contexts \in Int /\ DOMAIN call = Callers
  BY CountIsANumber DEF IInv, Core, Types, DeviceInv
<1>2. ASSUME NEW o \in Ops, OpMoves(o), UNCHANGED <<paused, gate, call>>
      PROVE  PhaseInv' /\ DeviceInv'
  <2>1. DeviceInv'
    BY <1>2, MoveKeepsDevice
  <2>2. PhaseInv'
    BY <1>2, EngineKeepsPhases DEF CallGoesOn
  <2> QED
    BY <2>1, <2>2
<1>3. ASSUME NEW o \in Ops, GateOpens(o) \/ Section(o) \/ BeltOpens(o) \/ OpTask(o)
      PROVE  PhaseInv' /\ DeviceInv'
  <2>1. UNCHANGED <<paused, gate, call>>
    BY <1>3 DEF GateOpens, Section, BeltOpens, OpTask, Retrieved, Released, LoadSucceeds, LoadFails,
                Generated, ReleaseFreed, flags, admission
  <2>2. OpMoves(o)
    BY <1>1, <1>3, GateOpensMoves, SectionMoves, BeltOpensMoves, RetrievedMoves, ReleasedMoves,
       LoadSucceedsMoves, LoadFailsMoves, GeneratedMoves, ReleaseFreedMoves DEF OpTask
  <2> QED
    BY <1>2, <2>1, <2>2
<1>4. ASSUME Serving, NEW o \in Ops, Query(o) \/ SwitchExternal(o)
      PROVE  PhaseInv' /\ DeviceInv'
  <2>1. UNCHANGED <<paused, gate, call>>
    BY <1>4 DEF Query, SwitchExternal, flags, admission
  <2>2. OpMoves(o)
    BY <1>1, <1>4, QueryMoves, SwitchExternalMoves
  <2> QED
    BY <1>2, <2>1, <2>2
<1>5. ASSUME NEW c \in Callers, JoinLoaded(c) \/ Drained(c) \/ Freed(c)
      PROVE  PhaseInv' /\ DeviceInv'
  <2>1. DeviceInv'
    BY <1>5, JoinLoadedKeepsDevice, DrainedKeepsDevice, FreedKeepsDevice
  <2>2. UNCHANGED gate /\ \E x : call' = [call EXCEPT ![c] = x]
    BY <1>5 DEF JoinLoaded, Drained, TakeResident, Freed, admission
  <2>3. CallGoesOn(c)
    BY <1>1, <1>5 DEF JoinLoaded, Drained, TakeResident, Freed, CallGoesOn
  <2>4. \A d \in Callers : CallGoesOn(d)
    BY <1>1, <2>2, <2>3 DEF CallGoesOn
  <2> QED
    BY <2>1, <2>2, <2>4, EngineKeepsPhases
<1>6. ASSUME SwitchLocal
      PROVE  PhaseInv' /\ DeviceInv'
  <2>1. /\ UNCHANGED <<ops, queue, resident, contexts, paused, call, waits, gate>>
        /\ UNCHANGED <<host, life, boot, tests>>
    BY <1>6 DEF SwitchLocal, admission, hostVars
  <2>2. Kinds' /\ Exclusive' /\ BootQuiet' /\ (EngineHolds' <=> EngineHolds)
    BY <2>1, QuietStays DEF DeviceInv, EngineHolds
  <2>3. Counted' /\ ReleasesGone' /\ GeneratesOnResident'
    BY <2>1, <2>2 DEF DeviceInv, Counted, One, TestFrees, ReleasesGone, GeneratesOnResident, Local, Held
  <2>4. \A f \in Flights : TestQuiet(f)'
    BY <2>1, <2>2, OtherTestStays DEF DeviceInv
  <2>5. PhaseInv'
    BY <2>1, EngineKeepsPhases DEF CallGoesOn
  <2> QED
    BY <2>2, <2>3, <2>4, <2>5 DEF DeviceInv
<1> QED
  BY <1>3, <1>4, <1>5, <1>6 DEF EngineReaction

-----------------------------------------------------------------------------
(* The host's own steps.                                                   *)

\* Nothing of the engine changes but calls that free no model.
LEMMA HostKeepsModel ==
    ASSUME Kinds, Exclusive, Counted, UNCHANGED <<ops, resident, contexts>>,
           call'[Stop] = "free" <=> call[Stop] = "free", TestFrees' <=> TestFrees,
           \/ host' = host /\ GeneratesOnResident
           \/ host' # "up"
           \/ \A o \in Ops : ~Local(o)
    PROVE  /\ Kinds' /\ Exclusive' /\ Counted' /\ GeneratesOnResident'
           /\ EngineHolds' <=> EngineHolds
<1>1. Kinds'
  BY DEF Kinds, KindFits
<1>2. Exclusive' /\ (EngineHolds' <=> EngineHolds)
  BY DEF Exclusive, EngineHolds, Holding
<1>3. /\ One(EngineHolds') = One(EngineHolds) /\ One(TestFrees') = One(TestFrees)
      /\ One(call'[Stop] = "free") = One(call[Stop] = "free")
  BY <1>2 DEF One
<1>4. Counted'
  BY <1>3 DEF Counted
<1>5. GeneratesOnResident'
  BY DEF GeneratesOnResident, Local, Held
<1> QED
  BY <1>1, <1>2, <1>4, <1>5

\* A step of a boot measures the device or ends.
LEMMA BootStepKeepsDevice ==
    ASSUME IInv, PhaseInv, DeviceInv, NEW l \in Lives, DeviceAnswers(l) \/ BootProbed(l)
    PROVE  DeviceInv'
<1>1. /\ UNCHANGED <<ops, queue, resident, contexts, paused, call, waits, host, life, tests>>
      /\ boot[l].pc \in {"query", "probe"} /\ DOMAIN boot = Lives
      /\ \E r : boot' = [boot EXCEPT ![l] = r]
  BY DEF DeviceAnswers, BootProbed, BootEnds, flags, IInv, Core, Types
<1>2. /\ Kinds' /\ Exclusive' /\ Counted' /\ GeneratesOnResident'
      /\ EngineHolds' <=> EngineHolds
  BY <1>1, HostKeepsModel DEF DeviceInv, TestFrees
<1>3. BootQuiet'
  BY <1>1, <1>2 DEF DeviceInv, BootQuiet, Booting
<1>4. ReleasesGone'
  BY <1>1 DEF DeviceInv, ReleasesGone
<1>5. \A f \in Flights : TestQuiet(f)'
  BY <1>1, <1>2, OtherTestStays DEF DeviceInv
<1> QED
  BY <1>2, <1>3, <1>4, <1>5 DEF DeviceInv

\* A warmup is chained and takes nothing yet.
LEMMA WarmupKeepsModel ==
    ASSUME Core, Kinds, Exclusive, Counted, GeneratesOnResident, ReleasesGone, ~Armed,
           NEW o \in Ops, Warmup(o), UNCHANGED <<resident, contexts, host>>,
           call'[Stop] = call[Stop], waits'[Stop] = waits[Stop], TestFrees' <=> TestFrees
    PROVE  Kinds' /\ Exclusive' /\ Counted' /\ GeneratesOnResident' /\ ReleasesGone'
<1>1. PICK p \in Profiles : Enqueue(o, Chosen(o, "warmup", p, "queued"))
  BY DEF Warmup
<1> DEFINE r == Chosen(o, "warmup", p, "queued")
<1>2. r.kind = "warmup" /\ r.pc = "queued"
  <2>1. "queued" \in Places /\ "warmup" \in {"query", "external", "warmup", "release"}
    BY DEF Places, QueuePlaces
  <2> QED
    BY <2>1, ChosenIsARecord
<1>3. ops' = [ops EXCEPT ![o] = r] /\ ops \in [Ops -> OpRecords] /\ ops[o].pc = "idle"
  BY <1>1 DEF Enqueue, Core, Types, Warmup
<1> HIDE DEF r
<1>4. ops'[o] = r /\ \A x \in Ops : x # o => ops'[x] = ops[x]
  BY <1>3
<1>5. \A x \in Ops : (Holding(x)' <=> Holding(x)) /\ (Local(x)' <=> Local(x))
                     /\ (Local(x) => Held(x)' = Held(x))
  BY <1>2, <1>3, <1>4 DEF Holding, Local, Held
<1>6. Kinds' /\ ReleasesGone'
  BY <1>2, <1>4 DEF Kinds, KindFits, ReleasesGone
<1>7. Exclusive' /\ GeneratesOnResident' /\ (EngineHolds' <=> EngineHolds)
  BY <1>5 DEF Exclusive, GeneratesOnResident, EngineHolds
<1>8. One(EngineHolds') = One(EngineHolds) /\ One(TestFrees') = One(TestFrees)
  BY <1>7 DEF One
<1>9. Counted'
  BY <1>8 DEF Counted
<1> QED
  BY <1>6, <1>7, <1>9

\* A test that has not begun, or is over, waits for nothing.
LEMMA NotYetWaiting ==
    ASSUME NEW f \in Flights, tests'[f].pc \notin {"join", "unload", "probe"}
    PROVE  TestQuiet(f)'
  BY DEF TestQuiet

LEMMA OthersAreNotTesting ==
    ASSUME PhaseInv, NEW f \in Flights, Testing(f), NEW g \in Flights, g # f
    PROVE  tests[g].pc \in {"none", "over"} /\ call[g] = "none"
  BY DEF PhaseInv, OneTest, CallFits, Testing

\* The boot is over, and no test has begun.
LEMMA WarmAfterBootKeepsDevice ==
    ASSUME IInv, PhaseInv, DeviceInv, NEW l \in Lives, WarmAfterBoot(l)
    PROVE  DeviceInv'
<1>1. /\ boot[l].pc = "ended" /\ l = life /\ ~Armed /\ l \in Ops
      /\ boot' = [boot EXCEPT ![l].pc = "done"] /\ DOMAIN boot = Lives
      /\ DOMAIN boot[l] = {"pc", "seq", "epoch", "stored", "killed"}
      /\ UNCHANGED <<resident, contexts, paused, call, waits, host, life, tests>>
  BY DEF WarmAfterBoot, PhaseInv, BootInStep, BootFits, Shaped, Ops, flags, IInv, Core, Types
<1>2. Kinds' /\ Exclusive' /\ Counted' /\ GeneratesOnResident' /\ ReleasesGone'
  <2>1. CASE Warmup(l)
    BY <1>1, <2>1, WarmupKeepsModel DEF DeviceInv, IInv, TestFrees
  <2>2. CASE UNCHANGED <<ops, queue>>
    BY <1>1, <2>2, HostKeepsModel DEF DeviceInv, TestFrees, ReleasesGone
  <2> QED
    BY <2>1, <2>2 DEF WarmAfterBoot
<1>3. BootQuiet'
  BY <1>1 DEF BootQuiet, Booting
<1>4. ASSUME NEW f \in Flights PROVE TestQuiet(f)'
  <2>1. tests[f].pc \notin {"join", "unload", "probe"}
    BY <1>1 DEF PhaseInv, OneTest, TestOfThisLife, Testing
  <2> QED
    BY <1>1, <2>1, NotYetWaiting
<1> QED
  BY <1>2, <1>3, <1>4 DEF DeviceInv

\* A test begins or ends: it waits for nothing.
LEMMA TestRestsDevice ==
    ASSUME IInv, PhaseInv, DeviceInv, NEW f \in Flights,
           Testing(f) \/ tests[f].pc = "none",
           UNCHANGED <<ops, resident, contexts, host, life, boot>>,
           tests'[f].pc \notin {"join", "unload", "probe"},
           \A g \in Flights : g # f => tests'[g] = tests[g] /\ call'[g] = call[g],
           call'[Stop] = call[Stop], waits'[Stop] = waits[Stop],
           call[f] # "free", call'[f] # "free",
           tests[f].pc = "none" => UNCHANGED <<queue, paused, call, waits>>
    PROVE  DeviceInv'
<1>1. TestFrees' <=> TestFrees
  BY DEF TestFrees
<1>2. /\ Kinds' /\ Exclusive' /\ Counted' /\ GeneratesOnResident'
      /\ EngineHolds' <=> EngineHolds
  BY <1>1, HostKeepsModel DEF DeviceInv
<1>3. BootQuiet' /\ ReleasesGone'
  BY <1>2 DEF DeviceInv, BootQuiet, Booting, ReleasesGone
<1>4. ASSUME NEW g \in Flights PROVE TestQuiet(g)'
  <2>1. CASE g = f
    BY <2>1, NotYetWaiting
  <2>2. CASE g # f /\ Testing(f)
    BY <2>2, OthersAreNotTesting, NotYetWaiting
  <2>3. CASE g # f /\ tests[f].pc = "none"
    BY <1>2, <2>3, OtherTestStays DEF DeviceInv
  <2> QED
    BY <2>1, <2>2, <2>3
<1> QED
  BY <1>2, <1>3, <1>4 DEF DeviceInv

LEMMA CallTestKeepsDevice ==
    ASSUME IInv, PhaseInv, DeviceInv, NEW f \in Flights, CallTest(f)
    PROVE  DeviceInv'
<1>1. /\ UNCHANGED <<ops, queue, resident, contexts, paused, call, waits, host, life, boot>>
      /\ tests[f].pc = "none" /\ call[f] = "none"
      /\ tests' = [tests EXCEPT ![f].pc = "boot", ![f].born = life]
  BY DEF CallTest, engineVars, PhaseInv, CallFits
<1>2. tests'[f].pc = "boot" /\ \A g \in Flights : g # f => tests'[g] = tests[g]
  BY <1>1, TestTakes
<1> QED
  BY <1>1, <1>2, TestRestsDevice

\* A test ends, from whatever phase.
LEMMA TestEndsKeepsDevice ==
    ASSUME IInv, PhaseInv, DeviceInv, NEW f \in Flights, Testing(f), call[f] # "free",
           UNCHANGED <<ops, resident, contexts, host, life, boot, waits>>,
           tests' = [tests EXCEPT ![f] = Over],
           call' = [call EXCEPT ![f] = "none"] \/ call' = call
    PROVE  DeviceInv'
<1>1. /\ tests'[f] = Over /\ \A g \in Flights : g # f => tests'[g] = tests[g]
  BY DEF PhaseInv, Shaped
<1>2. /\ call'[f] # "free" /\ call'[Stop] = call[Stop]
      /\ \A g \in Flights : g # f => call'[g] = call[g]
  BY CallIsItsOwn
<1> QED
  BY <1>1, <1>2, OverIsOver, TestRestsDevice DEF Testing

\* A test goes on: only what it waits for is to be shown.
LEMMA TestGoesOnKeepsDevice ==
    ASSUME IInv, PhaseInv, DeviceInv, NEW f \in Flights, Testing(f),
           UNCHANGED <<ops, queue, resident, contexts, host, life, boot>>,
           \A g \in Flights : g # f => tests'[g] = tests[g],
           NEW x, call' = [call EXCEPT ![f] = x], call[f] # "free", x # "free",
           waits'[Stop] = waits[Stop],
           TestQuiet(f)'
    PROVE  DeviceInv'
<1>1. /\ call'[f] = x /\ call'[Stop] = call[Stop]
      /\ \A g \in Flights : g # f => call'[g] = call[g]
  BY CallIsItsOwn
<1>2. TestFrees' <=> TestFrees
  BY <1>1 DEF TestFrees
<1>3. /\ Kinds' /\ Exclusive' /\ Counted' /\ GeneratesOnResident'
      /\ EngineHolds' <=> EngineHolds
  BY <1>1, <1>2, HostKeepsModel DEF DeviceInv
<1>4. BootQuiet' /\ ReleasesGone'
  BY <1>1, <1>3 DEF DeviceInv, BootQuiet, Booting, ReleasesGone
<1>5. ASSUME NEW g \in Flights PROVE TestQuiet(g)'
  BY OthersAreNotTesting, NotYetWaiting
<1> QED
  BY <1>3, <1>4, <1>5 DEF DeviceInv

\* The queue waits for itself: what is in use is in it, and all of it is its
\* own front.
LEMMA WholeQueue ==
    ASSUME Types, Ordered
    PROVE  /\ ToSet(queue) \in SUBSET Ops /\ FrontOfQueue(ToSet(queue))
           /\ \A o \in Ops : ops[o].pc \in QueuePlaces => o \in ToSet(queue)
<1>1. DOMAIN queue = 1..Len(queue)
  BY LenProperties DEF Types
<1>2. FrontOfQueue(ToSet(queue))
  BY <1>1 DEF FrontOfQueue, ToSet
<1> QED
  BY <1>2, QueueIsOfOps DEF Ordered

LEMMA BeginTestKeepsDevice ==
    ASSUME IInv, PhaseInv, DeviceInv, NEW f \in Flights, BeginTest(f)
    PROVE  DeviceInv'
<1>1. /\ tests[f].pc = "boot" /\ Testing(f) /\ call[f] = "none"
      /\ UNCHANGED <<ops, queue, resident, contexts, host, life, boot>>
      /\ Types /\ Ordered /\ waits \in [Callers -> SUBSET Ops] /\ DOMAIN call = Callers
  BY DEF BeginTest, Testing, PhaseInv, CallFits, IInv, Core, Types
<1>2. CASE stoppedAt
  BY <1>1, <1>2, TestEndsKeepsDevice DEF BeginTest
<1>3. CASE ~stoppedAt
  <2>1. /\ tests' = [tests EXCEPT ![f].pc = "join", ![f].seq = verdictSeq] /\ paused'
        /\ Join(f)
    BY <1>3 DEF BeginTest
  <2>2. /\ tests'[f].pc = "join" /\ \A g \in Flights : g # f => tests'[g] = tests[g]
    BY <2>1, TestTakes
  <2>3. /\ f \in Callers /\ Stop \in Callers /\ f # Stop
    BY CallersAreDistinct
  <2>4. PICK x \in {"joinLoad", "join"} :
           /\ call' = [call EXCEPT ![f] = x]
           /\ waits' = [waits EXCEPT ![f] = IF x = "join" THEN ToSet(queue) ELSE {Head(queue)}]
    BY <2>1 DEF Join
  <2>5. /\ call'[f] = x /\ (x = "join" => waits'[f] = ToSet(queue)) /\ waits'[Stop] = waits[Stop]
    BY <1>1, <2>3, <2>4
  <2>6. \A o \in Ops : InUse(o)' => o \in ToSet(queue)
    BY <1>1, WholeQueue DEF InUse, UsesModel
  <2>7. TestQuiet(f)'
    BY <2>1, <2>2, <2>5, <2>6 DEF TestQuiet
  <2> QED
    BY <1>1, <2>2, <2>4, <2>5, <2>7, TestGoesOnKeepsDevice
<1> QED
  BY <1>2, <1>3

\* The test's pause held: nothing is in use when it begins to unload.
LEMMA UnloadForTestKeepsDevice ==
    ASSUME IInv, PhaseInv, DeviceInv, NEW f \in Flights, UnloadForTest(f)
    PROVE  DeviceInv'
<1>1. /\ tests[f].pc = "join" /\ Testing(f) /\ call[f] = "join" /\ waits[f] = {}
      /\ UNCHANGED <<ops, queue, resident, contexts, host, life, boot>>
      /\ Types /\ Ordered /\ waits \in [Callers -> SUBSET Ops] /\ DOMAIN call = Callers
  BY DEF UnloadForTest, Joined, Testing, IInv, Core, Types
<1>2. CASE stoppedAt
  BY <1>1, <1>2, TestEndsKeepsDevice DEF UnloadForTest, TestEnds
<1>3. CASE ~stoppedAt
  <2>1. /\ tests' = [tests EXCEPT ![f].pc = "unload"] /\ UNCHANGED paused
        /\ call' = [call EXCEPT ![f] = "drain"] /\ waits' = [waits EXCEPT ![f] = ToSet(queue)]
    BY <1>3 DEF UnloadForTest, Dispose
  <2>2. /\ tests'[f].pc = "unload" /\ \A g \in Flights : g # f => tests'[g] = tests[g]
    BY <2>1, TestTakes
  <2>3. /\ f \in Callers /\ Stop \in Callers /\ f # Stop
    BY CallersAreDistinct
  <2>4. call'[f] = "drain" /\ waits'[f] = ToSet(queue) /\ waits'[Stop] = waits[Stop]
    BY <1>1, <2>1, <2>3
  <2>5. TestQuiet(f)
    BY DEF DeviceInv
  <2>6. \A o \in Ops : InUse(o)' <=> InUse(o)
    BY <1>1 DEF InUse, UsesModel
  <2>7. FrontOfQueue(waits[f])'
    BY <1>1, <2>4, WholeQueue DEF FrontOfQueue
  <2>8. \A o \in Ops : ops'[o].pc = "freeing" => o \in waits'[f]
    BY <1>1, <2>4, WholeQueue DEF QueuePlaces
  <2>9. TestQuiet(f)'
    BY <1>1, <2>1, <2>2, <2>4, <2>5, <2>6, <2>7, <2>8 DEF TestQuiet
  <2> QED
    BY <1>1, <2>1, <2>2, <2>4, <2>9, TestGoesOnKeepsDevice
<1> QED
  BY <1>2, <1>3

\* The probe begins when the model is gone.
LEMMA ProbeForTestKeepsDevice ==
    ASSUME IInv, PhaseInv, DeviceInv, NEW f \in Flights, ProbeForTest(f)
    PROVE  DeviceInv'
<1>1. /\ tests[f].pc = "unload" /\ Testing(f) /\ call[f] = "disposed"
      /\ UNCHANGED <<ops, queue, resident, contexts, host, life, boot, waits>>
      /\ DOMAIN call = Callers
  BY DEF ProbeForTest, Testing, IInv, Core, Types
<1>2. CASE stoppedAt
  BY <1>1, <1>2, TestEndsKeepsDevice DEF ProbeForTest, TestEnds
<1>3. CASE ~stoppedAt
  <2>1. /\ tests' = [tests EXCEPT ![f].pc = "probe"] /\ UNCHANGED paused
        /\ call' = [call EXCEPT ![f] = "none"]
    BY <1>3 DEF ProbeForTest
  <2>2. /\ tests'[f].pc = "probe" /\ \A g \in Flights : g # f => tests'[g] = tests[g]
    BY <2>1, TestTakes
  <2>3. TestQuiet(f)
    BY DEF DeviceInv
  <2>4. (\A o \in Ops : InUse(o)' <=> InUse(o)) /\ (EngineHolds' <=> EngineHolds)
    BY <1>1 DEF InUse, UsesModel, EngineHolds, Holding
  <2>5. TestQuiet(f)'
    BY <1>1, <2>1, <2>2, <2>3, <2>4 DEF TestQuiet
  <2> QED
    BY <1>1, <2>1, <2>2, <2>5, TestGoesOnKeepsDevice
<1> QED
  BY <1>2, <1>3

LEMMA TestProbedKeepsDevice ==
    ASSUME IInv, PhaseInv, DeviceInv, NEW f \in Flights, TestProbed(f)
    PROVE  DeviceInv'
<1>1. /\ tests[f].pc = "probe" /\ Testing(f) /\ call[f] = "none" /\ f \in Ops
      /\ UNCHANGED <<resident, contexts, host, life, boot>>
      /\ Core /\ waits \in [Callers -> SUBSET Ops] /\ DOMAIN call = Callers
  BY DEF TestProbed, Testing, PhaseInv, CallFits, IInv, Core, Types, Ops
<1>2. CASE TestEnds(f) /\ UNCHANGED <<ops, queue, waits>>
  BY <1>1, <1>2, TestEndsKeepsDevice DEF TestEnds
<1>3. CASE /\ Warmup(f) /\ tests' = [tests EXCEPT ![f].pc = "warm"]
           /\ call' = [call EXCEPT ![f] = "warmup"] /\ waits' = [waits EXCEPT ![f] = {f}]
  <2>1. f \in Callers /\ Stop \in Callers /\ f # Stop
    BY CallersAreDistinct
  <2>2. /\ call'[Stop] = call[Stop] /\ waits'[Stop] = waits[Stop] /\ call'[f] = "warmup"
        /\ \A g \in Flights : g # f => call'[g] = call[g]
    BY <1>1, <1>3, <2>1, CallIsItsOwn
  <2>3. TestFrees' <=> TestFrees
    BY <1>1, <2>2 DEF TestFrees
  <2>4. boot[life].pc = "done" /\ life \in Lives
    BY <1>1 DEF PhaseInv, OneTest, TestOfThisLife
  <2>5. ~Armed
    BY <2>4 DEF PhaseInv, BootInStep, BootFits
  <2>6. Kinds' /\ Exclusive' /\ Counted' /\ GeneratesOnResident' /\ ReleasesGone'
    BY <1>1, <1>3, <2>2, <2>3, <2>5, WarmupKeepsModel DEF DeviceInv
  <2>7. BootQuiet'
    BY <1>1, <2>4 DEF BootQuiet, Booting
  <2>8. tests'[f].pc = "warm" /\ \A g \in Flights : g # f => tests'[g] = tests[g]
    BY <1>3, TestTakes
  <2>9. ASSUME NEW g \in Flights PROVE TestQuiet(g)'
    BY <1>1, <2>8, OthersAreNotTesting, NotYetWaiting
  <2> QED
    BY <2>6, <2>7, <2>9 DEF DeviceInv
<1> QED
  BY <1>2, <1>3 DEF TestProbed

LEMMA TestWarmedKeepsDevice ==
    ASSUME IInv, PhaseInv, DeviceInv, NEW f \in Flights, TestWarmed(f)
    PROVE  DeviceInv'
<1>1. /\ Testing(f) /\ call[f] = "warmup" /\ TestEnds(f)
      /\ UNCHANGED <<ops, resident, contexts, host, life, boot, waits>>
  BY DEF TestWarmed, Testing, PhaseInv, CallFits
<1> QED
  BY <1>1, TestEndsKeepsDevice DEF TestEnds

\* A step that takes the host from one phase to another.
LEMMA HostLeavesUp ==
    ASSUME Kinds, Exclusive, Counted, UNCHANGED <<ops, resident, contexts>>, host' # "up",
           \A f \in Flights : call'[f] = call[f],
           call'[Stop] = "free" <=> call[Stop] = "free", ReleasesGone'
    PROVE  DeviceInv'
<1>1. TestFrees' <=> TestFrees
  BY DEF TestFrees
<1>2. Kinds' /\ Exclusive' /\ Counted' /\ GeneratesOnResident'
  BY <1>1, HostKeepsModel
<1>3. BootQuiet' /\ \A f \in Flights : TestQuiet(f)'
  BY DEF BootQuiet, TestQuiet
<1> QED
  BY <1>2, <1>3 DEF DeviceInv

LEMMA StopCalledKeepsDevice ==
    ASSUME IInv, PhaseInv, DeviceInv, StopCalled
    PROVE  DeviceInv'
<1>1. UNCHANGED <<ops, queue, resident, contexts, paused, call, waits, host, life, boot, tests>>
  BY DEF StopCalled, engineVars
<1>2. /\ Kinds' /\ Exclusive' /\ Counted' /\ GeneratesOnResident'
      /\ EngineHolds' <=> EngineHolds
  BY <1>1, HostKeepsModel DEF DeviceInv, TestFrees
<1>3. BootQuiet' /\ ReleasesGone'
  BY <1>1, <1>2 DEF DeviceInv, BootQuiet, Booting, ReleasesGone
<1>4. \A f \in Flights : TestQuiet(f)'
  BY <1>1, <1>2, OtherTestStays DEF DeviceInv
<1> QED
  BY <1>2, <1>3, <1>4 DEF DeviceInv

\* The listener opens on an engine that is unloaded.
LEMMA ListeningKeepsDevice ==
    ASSUME IInv, PhaseInv, DeviceInv, Listening
    PROVE  DeviceInv'
<1>1. /\ host = "starting" /\ host' = "up"
      /\ UNCHANGED <<ops, queue, resident, contexts, paused, call, waits, life, tests>>
  BY DEF Listening, engineVars
<1>2. resident = NoModel /\ \A o \in Ops : ~InUse(o) /\ ops[o].kind # "release"
  BY <1>1 DEF IInv, Core, Unloaded, DeviceInv, ReleasesGone
<1>3. \A o \in Ops : ~Holding(o) /\ ~Local(o)
  BY <1>2 DEF Holding, Local, InUse, UsesModel, QueuePlaces, IInv, Core, Captured, Loading,
              DeviceInv, Kinds, KindFits
<1>4. ~EngineHolds
  BY <1>2, <1>3 DEF EngineHolds
<1>5. /\ Kinds' /\ Exclusive' /\ Counted' /\ GeneratesOnResident'
      /\ EngineHolds' <=> EngineHolds
  BY <1>1, <1>3, HostKeepsModel DEF DeviceInv, TestFrees
<1>6. BootQuiet' /\ ReleasesGone'
  BY <1>1, <1>4, <1>5 DEF BootQuiet, ReleasesGone
<1>7. ASSUME NEW f \in Flights PROVE TestQuiet(f)'
  <2>1. tests[f].pc \notin {"join", "unload", "probe"}
    BY <1>1 DEF PhaseInv, OneTest, TestOfThisLife, Testing
  <2> QED
    BY <1>1, <2>1, NotYetWaiting
<1> QED
  BY <1>5, <1>6, <1>7 DEF DeviceInv

\* The host starts, fails to, or begins to stop.
LEMMA StartStopKeepsDevice ==
    ASSUME IInv, PhaseInv, DeviceInv, Start \/ StartFails \/ Teardown \/ DrainForStop
    PROVE  DeviceInv'
<1>1. /\ UNCHANGED <<ops, resident, contexts>>
      /\ \/ host \in {"down", "starting"} /\ host' \in {"down", "starting"} /\ call' = call
         \/ host' = "stopping" /\ call' = call
         \/ host' = "draining" /\ host = "stopping" /\ Join(Stop)
  BY DEF Start, StartFails, Teardown, DrainForStop, engineVars
<1>2. ReleasesGone'
  BY <1>1 DEF DeviceInv, ReleasesGone
<1>3. /\ \A f \in Flights : call'[f] = call[f]
      /\ call'[Stop] = "free" <=> call[Stop] = "free"
  <2>1. CASE call' = call
    BY <2>1
  <2>2. CASE Join(Stop) /\ host = "stopping"
    <3>1. DOMAIN call = Callers /\ Stop \in Callers /\ call[Stop] = "none"
      BY <2>2 DEF IInv, Core, Types, Callers, PhaseInv, StopFits
    <3>2. \E x \in {"joinLoad", "join"} : call' = [call EXCEPT ![Stop] = x]
      BY <2>2 DEF Join
    <3> QED
      BY <3>1, <3>2, CallersAreDistinct
  <2> QED
    BY <1>1, <2>1, <2>2
<1> QED
  BY <1>1, <1>2, <1>3, HostLeavesUp DEF DeviceInv

\* Every release that is left has a place in the queue the stop drains.
LEMMA ShutdownKeepsDevice ==
    ASSUME IInv, PhaseInv, DeviceInv, Shutdown
    PROVE  DeviceInv'
<1>1. /\ UNCHANGED <<ops, queue, resident, contexts>> /\ host' = "unloading"
      /\ call[Stop] = "join" /\ call' = [call EXCEPT ![Stop] = "drain"]
      /\ waits' = [waits EXCEPT ![Stop] = ToSet(queue)]
      /\ DOMAIN call = Callers /\ waits \in [Callers -> SUBSET Ops] /\ Stop \in Callers
      /\ Types /\ Ordered
  BY DEF Shutdown, Joined, Dispose, IInv, Core, Types, Callers
<1>2. /\ call'[Stop] = "drain" /\ waits'[Stop] = ToSet(queue)
      /\ \A f \in Flights : call'[f] = call[f]
  BY <1>1, CallersAreDistinct
<1>3. \A o \in Ops : ops[o].kind = "release" => o \in ToSet(queue)
  BY <1>1, WholeQueue DEF DeviceInv, Kinds, KindFits, QueuePlaces
<1>4. ReleasesGone'
  BY <1>1, <1>2, <1>3 DEF ReleasesGone
<1> QED
  BY <1>1, <1>2, <1>4, HostLeavesUp DEF DeviceInv

LEMMA StopEndsKeepsDevice ==
    ASSUME IInv, PhaseInv, DeviceInv, StopEnds
    PROVE  DeviceInv'
<1>1. /\ UNCHANGED <<ops, resident, contexts>> /\ host = "unloading" /\ host' = "down"
      /\ call[Stop] = "disposed" /\ call' = [call EXCEPT ![Stop] = "none"]
      /\ DOMAIN call = Callers /\ Stop \in Callers
  BY DEF StopEnds, IInv, Core, Types, Callers
<1>2. call'[Stop] = "none" /\ \A f \in Flights : call'[f] = call[f]
  BY <1>1, CallersAreDistinct
<1>3. ReleasesGone'
  BY <1>1 DEF DeviceInv, ReleasesGone
<1> QED
  BY <1>1, <1>2, <1>3, HostLeavesUp DEF DeviceInv

-----------------------------------------------------------------------------
(* The theorems.                                                           *)

Inv == IInv /\ PhaseInv /\ DeviceInv

LEMMA InitQuiet == Init => Inv
<1> SUFFICES ASSUME Init PROVE PhaseInv /\ DeviceInv
  BY InitHolds DEF Inv
<1>1. /\ ops = [o \in Ops |-> Idle] /\ resident = NoModel /\ contexts = 0
      /\ host = "down" /\ life = 0 /\ Lives = 1..MaxLives
      /\ call = [c \in Callers |-> "none"]
      /\ boot = [l \in Lives |-> NoBoot] /\ tests = [f \in Flights |-> NoTest]
  BY DEF Init, EngineInit, Lives
<1>2. \A f \in Flights : tests[f] = NoTest /\ call[f] = "none" /\ call[Stop] = "none"
  BY <1>1, CallersAreDistinct
<1>3. call[Stop] = "none"
  BY <1>1 DEF Callers
<1>4. /\ \A l \in Lives : boot[l] = NoBoot
      /\ NoBoot.pc = "none" /\ DOMAIN NoBoot = {"pc", "seq", "epoch", "stored", "killed"}
      /\ NoTest.pc = "none" /\ DOMAIN NoTest = {"pc", "born", "seq", "killed"}
  BY <1>1 DEF NoBoot, NoTest
<1>5. /\ \A o \in Ops : ops[o] = Idle
      /\ Idle.pc = "idle" /\ Idle.kind = "none"
  BY <1>1, IdleIsARecord
<1>6. PhaseInv
  BY <1>1, <1>2, <1>3, <1>4 DEF PhaseInv, Shaped, StopStamped, OneTest, TestOfThisLife, Testing,
     StopFits, BootInStep, BootFits, Booting, CallFits
<1>7. ~EngineHolds /\ ~TestFrees
  BY <1>1, <1>2, <1>5 DEF EngineHolds, Holding, TestFrees
<1>8. Counted
  BY <1>1, <1>3, <1>7 DEF Counted, One
<1>9. DeviceInv
  BY <1>1, <1>5, <1>8 DEF DeviceInv, Kinds, KindFits, Exclusive, Holding, BootQuiet, ReleasesGone,
     GeneratesOnResident, TestQuiet
<1> QED
  BY <1>6, <1>9

LEMMA NextQuiet ==
    ASSUME ~Overlap
    PROVE  Inv /\ [Next]_vars => Inv'
<1> SUFFICES ASSUME Inv, [Next]_vars PROVE PhaseInv' /\ DeviceInv'
  BY NextKeeps DEF Inv
<1>1. IInv /\ PhaseInv /\ DeviceInv
  BY DEF Inv
<1>2. CASE UNCHANGED vars
  <2>1. UNCHANGED <<ops, queue, resident, contexts, paused, call, waits, host, life, boot, tests>>
        /\ UNCHANGED hostVars /\ UNCHANGED gate
    BY <1>2 DEF vars, engineVars, hostVars
  <2>2. PhaseInv'
    BY <1>1, <2>1, EngineKeepsPhases DEF CallGoesOn
  <2>3. /\ Kinds' /\ Exclusive' /\ Counted' /\ GeneratesOnResident'
        /\ EngineHolds' <=> EngineHolds
    BY <1>1, <2>1, HostKeepsModel DEF DeviceInv, TestFrees
  <2>4. BootQuiet' /\ ReleasesGone'
    BY <1>1, <2>1, <2>3 DEF DeviceInv, BootQuiet, Booting, ReleasesGone
  <2>5. \A f \in Flights : TestQuiet(f)'
    BY <1>1, <2>1, <2>3, OtherTestStays DEF DeviceInv
  <2> QED
    BY <2>2, <2>3, <2>4, <2>5 DEF DeviceInv
<1>3. CASE Reaction
  <2>1. CASE EngineReaction /\ UNCHANGED hostVars
    BY <1>1, <2>1, EngineKeepsDevice
  <2>2. CASE \E l \in Lives : WarmAfterBoot(l)
    BY <1>1, <2>2, WarmAfterBootKeepsDevice, BootStepKeepsPhases
  <2>3. CASE \E f \in Flights : BeginTest(f) \/ UnloadForTest(f) \/ ProbeForTest(f) \/ TestWarmed(f)
    BY <1>1, <2>3, TestStepKeepsPhases, BeginTestKeepsDevice, UnloadForTestKeepsDevice,
       ProbeForTestKeepsDevice, TestWarmedKeepsDevice
  <2>4. CASE Shutdown \/ StopEnds
    BY <1>1, <2>4, StopStepKeepsPhases, ShutdownKeepsDevice, StopEndsKeepsDevice
  <2> QED
    BY <1>3, <2>1, <2>2, <2>3, <2>4 DEF Reaction
<1>4. CASE Completion
  <2>1. CASE UNCHANGED hostVars /\ ((\E o \in Ops : OpTask(o)) \/ (\E c \in Callers : Freed(c)))
    BY <1>1, <2>1, EngineKeepsDevice
  <2>2. CASE \E l \in Lives : DeviceAnswers(l) \/ BootProbed(l)
    BY <1>1, <2>2, BootStepKeepsPhases, BootStepKeepsDevice
  <2>3. CASE \E f \in Flights : TestProbed(f)
    BY <1>1, <2>3, TestStepKeepsPhases, TestProbedKeepsDevice
  <2>4. CASE Listening
    BY <1>1, <2>4, ListeningKeepsPhases, ListeningKeepsDevice
  <2>5. CASE Teardown
    BY <1>1, <2>5, TeardownKeepsPhases, StartStopKeepsDevice
  <2>6. CASE DrainForStop
    BY <1>1, <2>6, StopStepKeepsPhases, StartStopKeepsDevice
  <2> QED
    BY <1>4, <2>1, <2>2, <2>3, <2>4, <2>5, <2>6 DEF Completion
<1>5. CASE ~Pending /\ Request
  <2>1. CASE UNCHANGED hostVars /\ Serving /\ ((\E o \in Ops : Query(o) \/ SwitchExternal(o)) \/ SwitchLocal)
    BY <1>1, <2>1, EngineKeepsDevice
  <2>2. CASE \E f \in Flights : CallTest(f)
    BY <1>1, <2>2, CallTestKeepsPhases, CallTestKeepsDevice
  <2>3. CASE Start
    BY <1>1, <1>5, <2>3, StartKeepsPhases, StartStopKeepsDevice
  <2>4. CASE StartFails
    BY <1>1, <2>4, StartFailsKeepsPhases, StartStopKeepsDevice
  <2>5. CASE StopCalled
    BY <1>1, <2>5, StopCalledKeepsPhases, StopCalledKeepsDevice
  <2> QED
    BY <1>5, <2>1, <2>2, <2>3, <2>4, <2>5 DEF Request
<1> QED
  BY <1>2, <1>3, <1>4, <1>5 DEF Next

\* While the host is up at most one native context exists, is being built or
\* is being freed, however many queries, switches of endpoints, GPU tests and
\* lives there are: a test that frees the model found the engine empty.
THEOREM OneContextWhileUp ==
    ASSUME ~Overlap
    PROVE  Spec => []OneContext
<1>1. Inv => OneContext
  <2> SUFFICES ASSUME Inv, host = "up" PROVE contexts <= 1
    BY DEF OneContext
  <2>1. call[Stop] # "free"
    BY DEF Inv, PhaseInv, StopFits
  <2>2. ~(TestFrees /\ EngineHolds)
    <3>1. ASSUME NEW f \in Flights, call[f] = "free" PROVE ~EngineHolds
      <4>1. tests[f].pc = "unload"
        BY <3>1, FreeingTest DEF Inv
      <4> QED
        BY <3>1, <4>1 DEF Inv, DeviceInv, TestQuiet
    <3> QED
      BY <3>1 DEF TestFrees
  <2>3. contexts = One(EngineHolds) + One(call[Stop] = "free") + One(TestFrees)
    BY DEF Inv, DeviceInv, Counted
  <2> QED
    BY <2>1, <2>2, <2>3 DEF One
<1> QED
  BY <1>1, InitQuiet, NextQuiet, PTL DEF Spec

\* A query generates on the model it was given: no load, no unload for a GPU
\* test and no switch of endpoints disposes it under the query.
THEOREM QueriesKeepTheirModel ==
    ASSUME ~Overlap
    PROVE  Spec => []GeneratesOnResident
<1>1. Inv => GeneratesOnResident
  BY DEF Inv, DeviceInv
<1> QED
  BY <1>1, InitQuiet, NextQuiet, PTL DEF Spec

\* What a probe measures is a device without a model, whether the boot or a
\* GPU test asked for it: the admission gate keeps every load back from the
\* one, the pause, the join and the dispose from the other.
THEOREM ProbesMeasureAFreeDevice ==
    ASSUME ~Overlap
    PROVE  Spec => []ProbesFindTheDeviceFree
<1>1. Inv => ProbesFindTheDeviceFree
  <2> SUFFICES ASSUME Inv, Probing PROVE contexts = 0
    BY DEF ProbesFindTheDeviceFree
  <2>1. /\ host = "up" /\ ~EngineHolds
        /\ \A f \in Flights : call[f] # "free"
    <3>1. CASE \E l \in Lives : Booting(l) /\ ~boot[l].killed
      <4>1. PICK l \in Lives : Booting(l) /\ ~boot[l].killed
        BY <3>1
      <4>2. l = life /\ host = "up"
        BY <4>1 DEF Inv, PhaseInv, BootInStep, BootFits, Booting
      <4>3. \A f \in Flights : call[f] # "free"
        <5>1. ASSUME NEW f \in Flights, call[f] = "free" PROVE FALSE
          <6>1. tests[f].pc = "unload" /\ Testing(f)
            BY <5>1, FreeingTest DEF Inv
          <6> QED
            BY <4>1, <4>2, <6>1 DEF Inv, PhaseInv, OneTest, TestOfThisLife, Booting
        <5> QED
          BY <5>1
      <4> QED
        BY <4>1, <4>2, <4>3 DEF Inv, DeviceInv, BootQuiet
    <3>2. CASE \E f \in Flights : tests[f].pc = "probe" /\ ~tests[f].killed
      <4>1. PICK f \in Flights : tests[f].pc = "probe" /\ ~tests[f].killed
        BY <3>2
      <4>2. host = "up" /\ call[f] = "none" /\ Testing(f)
        BY <4>1 DEF Inv, PhaseInv, CallFits, Testing
      <4>3. \A g \in Flights : call[g] # "free"
        BY <4>2, OthersAreNotTesting DEF Inv
      <4> QED
        BY <4>1, <4>2, <4>3 DEF Inv, DeviceInv, TestQuiet
    <3> QED
      BY <3>1, <3>2 DEF Probing
  <2>2. call[Stop] # "free" /\ ~TestFrees
    BY <2>1 DEF Inv, PhaseInv, StopFits, TestFrees
  <2>3. contexts = One(EngineHolds) + One(call[Stop] = "free") + One(TestFrees)
    BY DEF Inv, DeviceInv, Counted
  <2> QED
    BY <2>1, <2>2, <2>3 DEF One
<1> QED
  BY <1>1, InitQuiet, NextQuiet, PTL DEF Spec

-----------------------------------------------------------------------------
(* Types.                                                                  *)

\* A life takes two generations of operations: its start's and its shutdown's.
GenerationFits ==
    /\ generation <= 2 * life
    /\ host \in {"starting", "up", "stopping", "draining"} => generation < 2 * life

Calls == {"none", "joinLoad", "join", "drain", "drainLoad", "free", "disposed", "warmup"}

EngineFields ==
    /\ resident \in {NoModel} \cup (Profiles \X {"cpu", "gpu"})
    /\ paused \in BOOLEAN /\ stopped \in BOOLEAN /\ external \in BOOLEAN
    /\ call \in [Callers -> Calls]
    /\ verdict \in Verdicts /\ stored \in Verdicts

BootRecords == [pc : {"none", "query", "probe", "ended", "done"}, seq : Seqs,
                epoch : BOOLEAN, stored : Verdicts, killed : BOOLEAN]

TestRecords == [pc : {"none", "boot", "join", "unload", "probe", "warm", "over"},
                born : 0..MaxLives, seq : Seqs, killed : BOOLEAN]

FlightFields ==
    /\ stoppedAt \in BOOLEAN
    /\ boot \in [Lives -> BootRecords]
    /\ tests \in [Flights -> TestRecords]
    /\ flight \in Flights \cup {NoFlight}

\* Every boot and every test publishes one verdict at most, when it settles.
SettledBoots == {l \in Lives : boot[l].pc \in {"ended", "done"}}
SettledTests == {f \in Flights : tests[f].pc \in {"warm", "over"}}

VerdictsCounted ==
    verdictSeq \in 0..(Cardinality(SettledBoots) + Cardinality(SettledTests))

TypeInv == GenerationFits /\ EngineFields /\ FlightFields /\ VerdictsCounted

\* The number of verdicts is in its bound.
LEMMA VerdictsAreBounded ==
    ASSUME VerdictsCounted
    PROVE  verdictSeq \in Seqs /\ 0 \in Seqs
<1>1. IsFiniteSet(Lives) /\ Cardinality(Lives) = MaxLives
  BY LivesAssumption, FS_Interval DEF Lives
<1>2. /\ Cardinality(SettledBoots) \in Nat /\ Cardinality(SettledBoots) <= MaxLives
  <2>1. SettledBoots \in SUBSET Lives
    BY DEF SettledBoots
  <2>2. IsFiniteSet(SettledBoots) /\ Cardinality(SettledBoots) <= Cardinality(Lives)
    BY <1>1, <2>1, FS_Subset
  <2> QED
    BY <1>1, <2>2, FS_CardinalityType
<1>3. /\ Cardinality(SettledTests) \in Nat /\ Cardinality(Flights) \in Nat
      /\ Cardinality(SettledTests) <= Cardinality(Flights)
  <2>1. SettledTests \in SUBSET Flights
    BY DEF SettledTests
  <2>2. /\ IsFiniteSet(SettledTests) /\ IsFiniteSet(Flights)
        /\ Cardinality(SettledTests) <= Cardinality(Flights)
    BY <2>1, FS_Subset, FlightsAreFinite
  <2> QED
    BY <2>2, FS_CardinalityType
<1> QED
  BY <1>2, <1>3, LivesAssumption DEF VerdictsCounted, Seqs

\* The count goes on when no flight comes back, and a new verdict has a flight
\* that settles with it.
LEMMA CountGoesOn ==
    ASSUME VerdictsCounted, SettledBoots \subseteq SettledBoots', SettledTests \subseteq SettledTests',
           \/ verdictSeq' = verdictSeq
           \/ verdictSeq' = verdictSeq + 1
                 /\ (SettledBoots' # SettledBoots \/ SettledTests' # SettledTests)
    PROVE  VerdictsCounted'
<1> DEFINE b == Cardinality(SettledBoots)
           bb == Cardinality(SettledBoots')
           t == Cardinality(SettledTests)
           tt == Cardinality(SettledTests')
<1>1. b \in Nat /\ bb \in Nat /\ b <= bb /\ (b = bb => SettledBoots = SettledBoots')
  <2>1. IsFiniteSet(Lives)
    BY LivesAssumption, FS_Interval DEF Lives
  <2>2. IsFiniteSet(SettledBoots')
    <3>1. SettledBoots' \in SUBSET Lives
      BY DEF SettledBoots
    <3> QED
      BY <2>1, <3>1, FS_Subset
  <2>3. IsFiniteSet(SettledBoots) /\ b <= bb /\ (b = bb => SettledBoots = SettledBoots')
    <3>1. SettledBoots \in SUBSET SettledBoots'
      OBVIOUS
    <3> QED
      BY <2>2, <3>1, FS_Subset
  <2> QED
    BY <2>2, <2>3, FS_CardinalityType
<1>2. t \in Nat /\ tt \in Nat /\ t <= tt /\ (t = tt => SettledTests = SettledTests')
  <2>1. IsFiniteSet(SettledTests')
    <3>1. SettledTests' \in SUBSET Flights
      BY DEF SettledTests
    <3> QED
      BY <3>1, FS_Subset, FlightsAreFinite
  <2>2. IsFiniteSet(SettledTests) /\ t <= tt /\ (t = tt => SettledTests = SettledTests')
    <3>1. SettledTests \in SUBSET SettledTests'
      OBVIOUS
    <3> QED
      BY <2>1, <3>1, FS_Subset
  <2> QED
    BY <2>1, <2>2, FS_CardinalityType
<1>3. verdictSeq \in 0..(b + t)
  BY DEF VerdictsCounted
<1>4. verdictSeq' \in 0..(bb + tt)
  <2> HIDE DEF b, bb, t, tt
  <2>1. verdictSeq \in Nat /\ verdictSeq <= b + t
    BY <1>1, <1>2, <1>3
  <2>2. CASE verdictSeq' = verdictSeq
    BY <1>1, <1>2, <2>1, <2>2
  <2>3. CASE verdictSeq' = verdictSeq + 1 /\ (b # bb \/ t # tt)
    BY <1>1, <1>2, <2>1, <2>3
  <2> QED
    BY <1>1, <1>2, <2>2, <2>3
<1> QED
  BY <1>4 DEF VerdictsCounted

\* What a step of the engine leaves alone, and a flight's.
LEMMA EngineSteps ==
    ASSUME \/ EngineReaction \/ \E o \in Ops : OpTask(o)
           \/ \E c \in Callers : Freed(c)
           \/ \E o \in Ops : Query(o) \/ SwitchExternal(o)
           \/ SwitchLocal
    PROVE  UNCHANGED <<paused, stopped, generation, gate>>
<1>1. ASSUME NEW o \in Ops, GateOpens(o) \/ Section(o) \/ BeltOpens(o) \/ OpTask(o)
                              \/ Query(o) \/ SwitchExternal(o)
      PROVE  UNCHANGED <<paused, stopped, generation, gate>>
  BY <1>1 DEF GateOpens, Section, BeltOpens, OpTask, Retrieved, Released, LoadSucceeds, LoadFails,
     Generated, ReleaseFreed, Query, SwitchExternal, flags, admission
<1>2. ASSUME NEW c \in Callers, JoinLoaded(c) \/ Drained(c) \/ Freed(c)
      PROVE  UNCHANGED <<paused, stopped, generation, gate>>
  BY <1>2 DEF JoinLoaded, Drained, Freed, flags, admission
<1>3. CASE SwitchLocal
  BY <1>3 DEF SwitchLocal, admission
<1> QED
  BY <1>1, <1>2, <1>3 DEF EngineReaction

\* The steps of the host, beside those of the engine.
FlightSteps ==
    \/ \E l \in Lives : WarmAfterBoot(l) \/ DeviceAnswers(l) \/ BootProbed(l)
    \/ \E f \in Flights :
          BeginTest(f) \/ UnloadForTest(f) \/ ProbeForTest(f) \/ TestWarmed(f) \/ TestProbed(f)
             \/ CallTest(f)

EngineOnly ==
    /\ UNCHANGED hostVars
    /\ \/ EngineReaction \/ \E o \in Ops : OpTask(o)
       \/ \E c \in Callers : Freed(c)
       \/ \E o \in Ops : Query(o) \/ SwitchExternal(o)
       \/ SwitchLocal

HostSteps ==
    \/ Start \/ StartFails \/ Listening \/ StopCalled \/ Teardown \/ DrainForStop \/ Shutdown
    \/ StopEnds

LEMMA NextSteps ==
    ASSUME Next PROVE EngineOnly \/ FlightSteps \/ HostSteps
  BY DEF Next, Reaction, Completion, Request, EngineOnly, FlightSteps, HostSteps

LEMMA FlightsLeave ==
    ASSUME FlightSteps PROVE UNCHANGED <<stopped, generation, external, resident, host, life, stoppedAt>>
  BY DEF FlightSteps, WarmAfterBoot, DeviceAnswers, BootProbed, BeginTest, UnloadForTest,
     ProbeForTest, TestWarmed, TestProbed, CallTest, flags, admission, engineVars

\* A start and a shutdown begin a generation.
LEMMA StepGeneration ==
    ASSUME IInv, GenerationFits, [Next]_vars
    PROVE  GenerationFits'
<1>1. generation \in Nat /\ life \in Nat
  BY LivesAssumption DEF IInv, Core, Types
<1>2. CASE UNCHANGED <<generation, host, life>>
  BY <1>2 DEF GenerationFits
<1>3. CASE EngineOnly
  BY <1>2, <1>3, EngineSteps DEF EngineOnly, hostVars
<1>4. CASE FlightSteps
  BY <1>2, <1>4, FlightsLeave
<1>5. CASE HostSteps
  BY <1>1, <1>5 DEF GenerationFits, HostSteps, Start, StartFails, Listening, StopCalled, Teardown,
     DrainForStop, Shutdown, StopEnds, flags, engineVars
<1>6. CASE UNCHANGED vars
  BY <1>2, <1>6 DEF vars, engineVars, hostVars
<1> QED
  BY <1>3, <1>4, <1>5, <1>6, NextSteps

\* The engine's fields keep their types.
LEMMA StepEngineFields ==
    ASSUME IInv, EngineFields, FlightFields, [Next]_vars
    PROVE  EngineFields'
<1>1. CASE EngineOnly
  <2>1. paused' \in BOOLEAN /\ stopped' \in BOOLEAN
    BY <1>1, EngineSteps DEF EngineOnly, EngineFields
  <2>2. ASSUME NEW o \in Ops, GateOpens(o) \/ Section(o) \/ BeltOpens(o) \/ OpTask(o)
                              \/ Query(o) \/ SwitchExternal(o)
        PROVE  /\ external' \in BOOLEAN /\ call' = call
               /\ verdict' \in Verdicts /\ stored' \in Verdicts
               /\ resident' \in {NoModel} \cup (Profiles \X {"cpu", "gpu"})
    <3>1. external' \in BOOLEAN /\ call' = call
      BY <2>2 DEF GateOpens, Section, BeltOpens, OpTask, Retrieved, Released, LoadSucceeds,
         LoadFails, Generated, ReleaseFreed, Query, SwitchExternal, flags, admission, EngineFields
    <3>2. verdict' \in Verdicts /\ stored' \in Verdicts
      BY <2>2 DEF GateOpens, Section, BeltOpens, OpTask, Retrieved, Released, LoadSucceeds,
         LoadFails, Generated, ReleaseFreed, Query, SwitchExternal, flags, admission, EngineFields,
         ReadBack, Verdicts
    <3>3. resident' = resident \/ resident' = NoModel
             \/ resident' = <<ops[o].profile, IF ops[o].backend = "cpu" THEN "cpu" ELSE "gpu">>
      BY <2>2 DEF GateOpens, Section, BeltOpens, StartLoad, OpTask, Retrieved, Released, LoadSucceeds,
         LoadFails, Generated, ReleaseFreed, Query, SwitchExternal
    <3>4. ops[o].profile \in Profiles
      BY DEF IInv, Core, Types, OpRecords
    <3> QED
      BY <3>1, <3>2, <3>3, <3>4 DEF EngineFields
  <2>3. ASSUME NEW c \in Callers, JoinLoaded(c) \/ Drained(c) \/ Freed(c)
        PROVE  /\ UNCHANGED <<external, verdict, stored>> /\ call' \in [Callers -> Calls]
               /\ resident' = resident \/ resident' = NoModel
    BY <2>3 DEF JoinLoaded, Drained, Freed, TakeResident, flags, admission, EngineFields, Calls
  <2>4. CASE SwitchLocal
    BY <2>1, <2>4 DEF SwitchLocal, admission, EngineFields
  <2> QED
    BY <1>1, <2>1, <2>2, <2>3, <2>4 DEF EngineOnly, EngineReaction, EngineFields
<1>2. CASE FlightSteps
  <2>1. /\ UNCHANGED <<stopped, external, resident>>
    BY <1>2, FlightsLeave
  <2>2. paused' \in BOOLEAN
    BY <1>2 DEF FlightSteps, WarmAfterBoot, DeviceAnswers, BootProbed, BeginTest, UnloadForTest,
     ProbeForTest, TestWarmed, TestProbed, CallTest, TestEnds, flags, engineVars, EngineFields
  <2>3. call' \in [Callers -> Calls]
    <3>1. \A f \in Flights : f \in Callers
      BY DEF Callers
    <3> QED
      BY <1>2, <3>1 DEF FlightSteps, WarmAfterBoot, DeviceAnswers, BootProbed, BeginTest,
         UnloadForTest, ProbeForTest, TestWarmed, TestProbed, CallTest, TestEnds, Join, Dispose,
         engineVars, EngineFields, Calls
  <2>4. verdict' \in Verdicts /\ stored' \in Verdicts
    <3>1. ASSUME NEW l \in Lives PROVE boot[l].stored \in Verdicts
      BY DEF FlightFields, BootRecords
    <3> QED
      BY <1>2, <3>1 DEF FlightSteps, WarmAfterBoot, DeviceAnswers, BootProbed, BeginTest,
         UnloadForTest, ProbeForTest, TestWarmed, TestProbed, CallTest, Probed, Publish, ReadBack,
         engineVars, admission, EngineFields, Verdicts
  <2> QED
    BY <2>1, <2>2, <2>3, <2>4 DEF EngineFields
<1>3. CASE HostSteps
  <2>1. Stop \in Callers
    BY DEF Callers
  <2> QED
    BY <1>3, <2>1 DEF HostSteps, Start, StartFails, Listening, StopCalled, Teardown, DrainForStop,
       Shutdown, StopEnds, Join, Dispose, flags, admission, engineVars, EngineFields, Calls, Verdicts
<1>4. CASE UNCHANGED vars
  BY <1>4 DEF vars, engineVars, EngineFields
<1> QED
  BY <1>1, <1>2, <1>3, <1>4, NextSteps

\* The flights keep their types.
LEMMA StepFlightFields ==
    ASSUME IInv, EngineFields, FlightFields, VerdictsCounted, [Next]_vars
    PROVE  FlightFields'
<1>0. /\ verdictSeq \in Seqs /\ 0 \in Seqs
      /\ life \in 0..MaxLives /\ (host = "starting" => life \in Lives)
  BY VerdictsAreBounded DEF IInv, Core, Types, Shut, InTurn
<1>1. CASE UNCHANGED hostVars
  BY <1>1 DEF hostVars, FlightFields
<1>2. CASE \E l \in Lives : WarmAfterBoot(l) \/ DeviceAnswers(l) \/ BootProbed(l)
  <2>1. PICK l \in Lives : WarmAfterBoot(l) \/ DeviceAnswers(l) \/ BootProbed(l)
    BY <1>2
  <2>2. UNCHANGED <<stoppedAt, tests, flight>>
    BY <2>1 DEF WarmAfterBoot, DeviceAnswers, BootProbed
  <2>3. \/ BootEnds(l)
        \/ boot' = [boot EXCEPT ![l].pc = "probe"] \/ boot' = [boot EXCEPT ![l].pc = "done"]
    BY <2>1 DEF WarmAfterBoot, DeviceAnswers, BootProbed
  <2>4. boot' \in [Lives -> BootRecords]
    <3>1. CASE BootEnds(l)
      <4>1. [NoBoot EXCEPT !.pc = "ended"] \in BootRecords
        BY <1>0 DEF NoBoot, BootRecords, Verdicts
      <4> QED
        BY <3>1, <4>1 DEF BootEnds, FlightFields
    <3>2. CASE ~BootEnds(l)
      BY <2>3, <3>2 DEF FlightFields, BootRecords
    <3> QED
      BY <3>1, <3>2
  <2> QED
    BY <2>2, <2>4 DEF FlightFields
<1>3. CASE \E f \in Flights : BeginTest(f) \/ UnloadForTest(f) \/ ProbeForTest(f) \/ TestWarmed(f)
                                 \/ TestProbed(f) \/ CallTest(f)
  <2>1. PICK f \in Flights : BeginTest(f) \/ UnloadForTest(f) \/ ProbeForTest(f) \/ TestWarmed(f)
                                 \/ TestProbed(f) \/ CallTest(f)
    BY <1>3
  <2>2. UNCHANGED <<stoppedAt, boot>> /\ flight' \in Flights \cup {NoFlight}
    BY <2>1 DEF BeginTest, UnloadForTest, ProbeForTest, TestWarmed, TestProbed, CallTest, TestEnds,
       FlightFields
  <2>3. \/ tests' = [tests EXCEPT ![f] = Over]
        \/ \E pc \in {"unload", "probe", "warm"} : tests' = [tests EXCEPT ![f].pc = pc]
        \/ tests' = [tests EXCEPT ![f].pc = "join", ![f].seq = verdictSeq]
        \/ tests' = [tests EXCEPT ![f].pc = "boot", ![f].born = life]
    <3>1. ASSUME BeginTest(f) \/ CallTest(f)
          PROVE  \/ tests' = [tests EXCEPT ![f] = Over]
                 \/ tests' = [tests EXCEPT ![f].pc = "join", ![f].seq = verdictSeq]
                 \/ tests' = [tests EXCEPT ![f].pc = "boot", ![f].born = life]
      BY <3>1 DEF BeginTest, CallTest
    <3>2. ASSUME UnloadForTest(f) \/ ProbeForTest(f) \/ TestWarmed(f) \/ TestProbed(f)
          PROVE  \/ tests' = [tests EXCEPT ![f] = Over]
                 \/ tests' = [tests EXCEPT ![f].pc = "unload"]
                 \/ tests' = [tests EXCEPT ![f].pc = "probe"]
                 \/ tests' = [tests EXCEPT ![f].pc = "warm"]
      BY <3>2 DEF UnloadForTest, ProbeForTest, TestWarmed, TestProbed, TestEnds
    <3> QED
      BY <2>1, <3>1, <3>2
  <2>4. Over \in TestRecords /\ tests[f] \in TestRecords
    <3>1. NoTest \in TestRecords
      BY <1>0, LivesAssumption DEF NoTest, TestRecords
    <3>2. Over \in TestRecords
      BY <3>1 DEF Over, TestRecords
    <3> QED
      BY <3>2 DEF FlightFields
  <2>5. tests' \in [Flights -> TestRecords]
    <3>1. CASE tests' = [tests EXCEPT ![f] = Over]
      BY <2>4, <3>1 DEF FlightFields
    <3>2. CASE \E pc \in {"unload", "probe", "warm"} : tests' = [tests EXCEPT ![f].pc = pc]
      BY <2>4, <3>2 DEF FlightFields, TestRecords
    <3>3. CASE tests' = [tests EXCEPT ![f].pc = "join", ![f].seq = verdictSeq]
      <4> DEFINE mid == [tests[f] EXCEPT !.pc = "join"]
                 new == [mid EXCEPT !.seq = verdictSeq]
      <4>1. mid \in TestRecords
        BY <2>4 DEF TestRecords
      <4>2. tests' = [tests EXCEPT ![f] = new]
        BY <2>4, <3>3 DEF FlightFields
      <4>3. new \in TestRecords
        <5> HIDE DEF mid
        <5> QED
          BY <1>0, <4>1 DEF TestRecords
      <4> HIDE DEF new
      <4> QED
        BY <4>2, <4>3 DEF FlightFields
    <3>4. CASE tests' = [tests EXCEPT ![f].pc = "boot", ![f].born = life]
      <4> DEFINE mid == [tests[f] EXCEPT !.pc = "boot"]
                 new == [mid EXCEPT !.born = life]
      <4>1. mid \in TestRecords
        BY <2>4 DEF TestRecords
      <4>2. tests' = [tests EXCEPT ![f] = new]
        BY <2>4, <3>4 DEF FlightFields
      <4>3. new \in TestRecords
        <5> HIDE DEF mid
        <5> QED
          BY <1>0, <4>1 DEF TestRecords
      <4> HIDE DEF new
      <4> QED
        BY <4>2, <4>3 DEF FlightFields
    <3> QED
      BY <2>3, <3>1, <3>2, <3>3, <3>4
  <2> QED
    BY <2>2, <2>5 DEF FlightFields
<1>4. CASE HostSteps
  <2>1. stoppedAt' \in BOOLEAN /\ flight' \in Flights \cup {NoFlight}
    BY <1>4 DEF HostSteps, Start, StartFails, Listening, StopCalled, Teardown, DrainForStop,
       Shutdown, StopEnds, FlightFields
  <2>2. boot' \in [Lives -> BootRecords]
    <3>1. CASE Listening
      <4> DEFINE new == [pc |-> IF stored = "none" THEN "probe" ELSE "query", seq |-> verdictSeq,
                         epoch |-> stoppedAt, stored |-> stored, killed |-> FALSE]
      <4>1. new \in BootRecords
        BY <1>0 DEF BootRecords, EngineFields, FlightFields
      <4>2. boot' = [boot EXCEPT ![life] = new] /\ life \in Lives
        BY <1>0, <3>1 DEF Listening
      <4> HIDE DEF new
      <4> QED
        BY <4>1, <4>2 DEF FlightFields
    <3>2. CASE Teardown
      <4>1. \A l \in Lives : [boot[l] EXCEPT !.killed = TRUE] \in BootRecords /\ boot[l] \in BootRecords
        BY DEF FlightFields, BootRecords
      <4> QED
        BY <3>2, <4>1 DEF Teardown
    <3> QED
      BY <1>4, <3>1, <3>2 DEF HostSteps, Start, StartFails, StopCalled, DrainForStop, Shutdown,
         StopEnds, FlightFields
  <2>3. tests' \in [Flights -> TestRecords]
    <3>1. CASE Teardown
      <4>1. \A f \in Flights :
                [tests[f] EXCEPT !.killed = TRUE] \in TestRecords /\ tests[f] \in TestRecords
        BY DEF FlightFields, TestRecords
      <4> QED
        BY <3>1, <4>1 DEF Teardown
    <3> QED
      BY <1>4, <3>1 DEF HostSteps, Start, StartFails, Listening, StopCalled, DrainForStop, Shutdown,
         StopEnds, FlightFields
  <2> QED
    BY <2>1, <2>2, <2>3 DEF FlightFields
<1>5. CASE UNCHANGED vars
  BY <1>1, <1>5 DEF vars
<1> QED
  BY <1>1, <1>2, <1>3, <1>4, <1>5, NextSteps DEF EngineOnly, FlightSteps

\* A verdict is published when its flight settles, and no flight comes back.
LEMMA StepVerdicts ==
    ASSUME IInv, FlightFields, VerdictsCounted, [Next]_vars
    PROVE  VerdictsCounted'
<1>1. CASE UNCHANGED <<boot, tests, verdictSeq>>
  <2>1. SettledBoots' = SettledBoots /\ SettledTests' = SettledTests
    BY <1>1 DEF SettledBoots, SettledTests
  <2> QED
    BY <1>1, <2>1, CountGoesOn
<1>2. CASE \E l \in Lives : WarmAfterBoot(l) \/ DeviceAnswers(l) \/ BootProbed(l)
  <2>1. PICK l \in Lives : WarmAfterBoot(l) \/ DeviceAnswers(l) \/ BootProbed(l)
    BY <1>2
  <2>2. /\ \A k \in Lives : k # l => boot'[k] = boot[k]
        /\ \/ boot[l].pc \in {"query", "probe"} /\ boot'[l].pc = "ended"
           \/ verdictSeq' = verdictSeq /\ boot[l].pc = "ended" /\ boot'[l].pc = "done"
           \/ verdictSeq' = verdictSeq /\ boot[l].pc = "query" /\ boot'[l].pc = "probe"
    BY <2>1 DEF WarmAfterBoot, DeviceAnswers, BootProbed, BootEnds, NoBoot, FlightFields, BootRecords
  <2>3. tests' = tests /\ verdictSeq' \in {verdictSeq, verdictSeq + 1}
    BY <2>1 DEF WarmAfterBoot, DeviceAnswers, BootProbed, Probed, Publish
  <2>4. SettledTests' = SettledTests
    BY <2>3 DEF SettledTests
  <2>5. SettledBoots \subseteq SettledBoots'
    BY <2>2 DEF SettledBoots
  <2>6. boot'[l].pc = "ended" => l \in SettledBoots'
    BY DEF SettledBoots
  <2>7. boot[l].pc \in {"query", "probe"} => l \notin SettledBoots
    BY DEF SettledBoots
  <2> QED
    BY <2>2, <2>3, <2>4, <2>5, <2>6, <2>7, CountGoesOn
<1>3. CASE \E f \in Flights : BeginTest(f) \/ UnloadForTest(f) \/ ProbeForTest(f) \/ TestWarmed(f)
                                 \/ TestProbed(f) \/ CallTest(f)
  <2>1. PICK f \in Flights : BeginTest(f) \/ UnloadForTest(f) \/ ProbeForTest(f) \/ TestWarmed(f)
                                 \/ TestProbed(f) \/ CallTest(f)
    BY <1>3
  <2>2. Over.pc = "over"
    BY DEF Over, NoTest
  <2>3. /\ \A g \in Flights : g # f => tests'[g] = tests[g]
        /\ \/ tests[f].pc = "probe" /\ tests'[f].pc \in {"warm", "over"}
           \/ verdictSeq' = verdictSeq /\ tests[f].pc = "warm" /\ tests'[f].pc = "over"
           \/ verdictSeq' = verdictSeq /\ tests[f].pc \notin {"warm", "over"}
    BY <2>1, <2>2 DEF BeginTest, UnloadForTest, ProbeForTest, TestWarmed, TestProbed, CallTest,
       TestEnds, FlightFields, TestRecords, admission
  <2>4. boot' = boot /\ verdictSeq' \in {verdictSeq, verdictSeq + 1}
    BY <2>1 DEF BeginTest, UnloadForTest, ProbeForTest, TestWarmed, TestProbed, CallTest, Probed,
       Publish
  <2>5. SettledBoots' = SettledBoots
    BY <2>4 DEF SettledBoots
  <2>6. SettledTests \subseteq SettledTests'
    BY <2>3 DEF SettledTests
  <2>7. /\ tests'[f].pc \in {"warm", "over"} => f \in SettledTests'
        /\ tests[f].pc = "probe" => f \notin SettledTests
    BY DEF SettledTests
  <2> QED
    BY <2>3, <2>4, <2>5, <2>6, <2>7, CountGoesOn
<1>4. CASE HostSteps
  <2>1. verdictSeq' = verdictSeq
    BY <1>4 DEF HostSteps, Start, StartFails, Listening, StopCalled, Teardown, DrainForStop,
       Shutdown, StopEnds
  <2>2. SettledBoots' = SettledBoots
    <3>1. CASE Listening
      <4>1. boot[life].pc = "none" /\ life \in Lives /\ \A k \in Lives : k # life => boot'[k] = boot[k]
        BY <3>1 DEF Listening, IInv, Shut, InTurn, FlightFields
      <4>2. boot'[life].pc \in {"query", "probe"}
        BY <3>1, <4>1 DEF Listening, FlightFields
      <4> QED
        BY <4>1, <4>2 DEF SettledBoots
    <3>2. CASE Teardown
      <4>1. \A l \in Lives : boot'[l].pc = boot[l].pc
        BY <3>2 DEF Teardown, FlightFields, BootRecords
      <4> QED
        BY <4>1 DEF SettledBoots
    <3>3. CASE boot' = boot
      BY <3>3 DEF SettledBoots
    <3> QED
      BY <1>4, <3>1, <3>2, <3>3 DEF HostSteps, Start, StartFails, StopCalled, DrainForStop,
         Shutdown, StopEnds
  <2>3. SettledTests' = SettledTests
    <3>1. CASE Teardown
      <4>1. \A f \in Flights : tests'[f].pc = tests[f].pc
        BY <3>1 DEF Teardown, FlightFields, TestRecords
      <4> QED
        BY <4>1 DEF SettledTests
    <3>2. CASE tests' = tests
      BY <3>2 DEF SettledTests
    <3> QED
      BY <1>4, <3>1, <3>2 DEF HostSteps, Start, StartFails, Listening, StopCalled, DrainForStop,
         Shutdown, StopEnds
  <2> QED
    BY <2>1, <2>2, <2>3, CountGoesOn
<1>5. CASE UNCHANGED vars
  BY <1>1, <1>5 DEF vars, hostVars
<1>6. CASE EngineOnly
  BY <1>1, <1>6 DEF EngineOnly, hostVars
<1> QED
  BY <1>2, <1>3, <1>4, <1>5, <1>6, NextSteps DEF FlightSteps

LEMMA TypeInvHolds ==
    /\ Init => TypeInv
    /\ IInv /\ TypeInv /\ [Next]_vars => TypeInv'
<1>1. ASSUME Init PROVE TypeInv
  <2>1. SettledBoots = {} /\ SettledTests = {}
    BY <1>1 DEF Init, SettledBoots, SettledTests, NoBoot, NoTest
  <2>2. VerdictsCounted
    BY <1>1, <2>1, FS_EmptySet DEF Init, VerdictsCounted
  <2>3. GenerationFits
    BY <1>1 DEF Init, EngineInit, GenerationFits
  <2>5. EngineFields
    <3>1. call \in [Callers -> Calls]
      BY <1>1 DEF Init, EngineInit, Calls
    <3> QED
      BY <1>1, <3>1 DEF Init, EngineInit, EngineFields, Verdicts
  <2>4. FlightFields
    <3>1. NoBoot \in BootRecords /\ NoTest \in TestRecords
      BY <2>2, VerdictsAreBounded, LivesAssumption DEF NoBoot, NoTest, BootRecords, TestRecords,
         Verdicts
    <3> QED
      BY <1>1, <3>1 DEF Init, FlightFields
  <2> QED
    BY <2>2, <2>3, <2>4, <2>5 DEF TypeInv
<1>2. ASSUME IInv, TypeInv, [Next]_vars PROVE TypeInv'
  BY <1>2, StepGeneration, StepEngineFields, StepFlightFields, StepVerdicts DEF TypeInv
<1> QED
  BY <1>1, <1>2

\* Every variable keeps its type: the generation a start or a shutdown begins
\* stays within two of a life, and verdictSeq within the flights that publish
\* (operationGeneration of llama-engine.ts, verdictSeq of index.ts).
THEOREM HostTypeCorrect ==
    ASSUME ~Overlap
    PROVE  Spec => []TypeOK
<1>1. Inv /\ TypeInv => TypeOK
  <2> SUFFICES ASSUME Inv, TypeInv PROVE TypeOK
    OBVIOUS
  <2>1. generation \in 0..(2 * MaxLives)
    BY LivesAssumption DEF Inv, IInv, Core, Types, TypeInv, GenerationFits
  <2>2. ops \in [Ops -> [kind : {"none", "query", "external", "warmup", "release"},
                         pc : {"idle", "gate", "retrieving", "queued", "belt", "releasing",
                               "loading", "generating", "freeing"},
                         gen : 0..(2 * MaxLives), profile : Profiles,
                         backend : {"cpu", "gpu", "bypass"}]]
    <3>1. ops \in [Ops -> OpRecords]
      BY DEF Inv, IInv, Core, Types
    <3>2. ASSUME NEW o \in Ops PROVE ops[o].gen \in 0..(2 * MaxLives)
      <4>1. ops[o].gen \in Nat /\ ops[o].gen <= generation
        BY <3>1 DEF Inv, IInv, Core, Captured, OpRecords
      <4> QED
        BY <2>1, <4>1, LivesAssumption
    <3> QED
      BY <3>1, <3>2 DEF OpRecords, Places, QueuePlaces
  <2>3. contexts \in Nat
    BY DEF Inv, DeviceInv, Counted, One
  <2>4. EngineTypeOK
    BY <2>1, <2>2, <2>3 DEF EngineTypeOK, Inv, IInv, Core, Types, TypeInv, EngineFields, Calls
  <2>5. HostTypeOK
    BY VerdictsAreBounded
       DEF HostTypeOK, Inv, IInv, Core, Types, TypeInv, FlightFields, BootRecords, TestRecords
  <2> QED
    BY <2>4, <2>5 DEF TypeOK
<1>2. Init => Inv /\ TypeInv
  BY InitQuiet, TypeInvHolds
<1>3. Inv /\ TypeInv /\ [Next]_vars => (Inv /\ TypeInv)'
  BY NextQuiet, TypeInvHolds DEF Inv
<1> QED
  BY <1>1, <1>2, <1>3, PTL DEF Spec

\* What a stop leaves on the device when stop() resolves: nothing, or the one
\* model a GPU test is still freeing.  Only the test that runStop does not wait
\* for keeps StopFreesTheDevice from holding.
OnlyATestStillFrees == host = "down" => contexts = One(TestFrees)

THEOREM OnlyATestOutlivesAStop ==
    ASSUME ~Overlap
    PROVE  Spec => []OnlyATestStillFrees
<1>1. Inv => OnlyATestStillFrees
  <2> SUFFICES ASSUME Inv, host = "down" PROVE contexts = One(TestFrees)
    BY DEF OnlyATestStillFrees
  <2>1. resident = NoModel /\ \A o \in Ops : ~InUse(o)
    BY DEF Inv, IInv, Core, Unloaded
  <2>2. ASSUME NEW o \in Ops PROVE ~Holding(o)
    <3>1. ops[o].kind # "release"
      BY DEF Inv, DeviceInv, ReleasesGone
    <3>2. Loading(o) => InUse(o)
      BY DEF Inv, IInv, Core, Captured, Loading, InUse, QueuePlaces
    <3>3. ops[o].pc # "freeing"
      BY <3>1 DEF Inv, DeviceInv, Kinds, KindFits
    <3> QED
      BY <2>1, <3>2, <3>3 DEF Holding, Loading
  <2>3. ~EngineHolds /\ call[Stop] # "free"
    BY <2>1, <2>2 DEF EngineHolds, Inv, PhaseInv, StopFits
  <2>4. contexts = One(EngineHolds) + One(call[Stop] = "free") + One(TestFrees)
    BY DEF Inv, DeviceInv, Counted
  <2> QED
    BY <2>3, <2>4 DEF One
<1> QED
  BY <1>1, InitQuiet, NextQuiet, PTL DEF Spec
===============================================================================
