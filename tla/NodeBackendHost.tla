---------------------------- MODULE NodeBackendHost ----------------------------
(***************************************************************************)
(* The GPU side of NodeBackendHost (desktop/main/backend/index.ts): start  *)
(* and stop of a host over one engine, the boot admission that validates   *)
(* the stored GPU verdict and then warms the engine, and the GPU test that *)
(* pauses queries, drains and unloads the engine, probes and warms it      *)
(* again.  Probes and device queries run in child processes, which a stop  *)
(* kills but does not wait for; nor does it wait for the test.             *)
(*                                                                         *)
(* A start is made when no stop is under way, and, unless Overlap holds,   *)
(* when the flights of earlier lives have settled.                         *)
(* The reactions of promises run before any other task; in what order is   *)
(* left open, but for a release behind a dispose.                          *)
(***************************************************************************)
EXTENDS LlamaEngine

CONSTANTS
    Overlap,   \* a start may find a flight of an earlier life unsettled
    NoFlight   \* gpuTestFlight is null

ASSUME FlightAssumption == NoFlight \notin Flights
ASSUME FlightsAreFinite == IsFiniteSet(Flights)

VARIABLES
    host,       \* down, starting, up, stopping, draining or unloading
    life,       \* how often the host was started
    stoppedAt,  \* whether it is set
    verdictSeq, \* verdictSeq
    boot,       \* the boot admission of every life
    tests,      \* every GPU test
    flight      \* gpuTestFlight

hostVars == <<host, life, stoppedAt, verdictSeq, boot, tests, flight>>
vars == <<engineVars, hostVars>>

NoBoot == [pc |-> "none", seq |-> 0, epoch |-> FALSE, stored |-> "none", killed |-> FALSE]
NoTest == [pc |-> "none", born |-> 0, seq |-> 0, killed |-> FALSE]
Over == [NoTest EXCEPT !.pc = "over"]

Seqs == 0..(MaxLives + Cardinality(Flights))

HostTypeOK ==
    /\ host \in {"down", "starting", "up", "stopping", "draining", "unloading"}
    /\ life \in 0..MaxLives
    /\ stoppedAt \in BOOLEAN
    /\ verdictSeq \in Seqs
    /\ boot \in [Lives -> [pc : {"none", "query", "probe", "ended", "done"}, seq : Seqs,
                           epoch : BOOLEAN, stored : Verdicts, killed : BOOLEAN]]
    /\ tests \in [Flights -> [pc : {"none", "boot", "join", "unload", "probe", "warm", "over"},
                              born : 0..MaxLives, seq : Seqs, killed : BOOLEAN]]
    /\ flight \in Flights \cup {NoFlight}

TypeOK == EngineTypeOK /\ HostTypeOK

Booting(l) == boot[l].pc \in {"query", "probe"}
Testing(f) == tests[f].pc \notin {"none", "over"}

-----------------------------------------------------------------------------
(* Start.                                                                  *)

Quiet == (\A f \in Flights : ~Testing(f)) /\ (\A l \in Lives : ~Booting(l))

\* runStart's first lines: resetLifecycle and resetGpuVerdictLifecycle.
Start ==
    /\ host = "down" /\ life < MaxLives /\ (Overlap \/ Quiet)
    /\ host' = "starting" /\ life' = life + 1
    /\ stoppedAt' = FALSE
    /\ stopped' = FALSE /\ paused' = FALSE /\ generation' = generation + 1
    /\ verdict' = "none" /\ gate' = "armed"
    /\ UNCHANGED <<ops, queue, resident, contexts, external, call, waits, stored,
                   verdictSeq, boot, tests, flight>>

\* The listener cannot be bound: the gate stays armed, for a stop that waits
\* or for the next start.
StartFails ==
    /\ host = "starting"
    /\ host' = IF stoppedAt THEN "stopping" ELSE "down"
    /\ UNCHANGED <<engineVars, life, stoppedAt, verdictSeq, boot, tests, flight>>

\* The host listens and the boot admission begins with the stored verdict.
Listening ==
    /\ host = "starting" /\ host' = "up"
    /\ boot' = [boot EXCEPT ![life] =
                  [pc |-> IF stored = "none" THEN "probe" ELSE "query", seq |-> verdictSeq,
                   epoch |-> stoppedAt, stored |-> stored, killed |-> FALSE]]
    /\ UNCHANGED <<engineVars, life, stoppedAt, verdictSeq, tests, flight>>

-----------------------------------------------------------------------------
(* Verdicts.                                                               *)

\* publishVerdict: not while stopping, and the latest wins.
Publish(v, readback, seq) ==
    IF stoppedAt \/ verdictSeq # seq
    THEN UNCHANGED <<verdict, stored, verdictSeq>>
    ELSE verdict' = v /\ stored' \in readback /\ verdictSeq' = verdictSeq + 1

\* startGpuProbe ends: nothing is adopted of a killed probe or without a model.
Probed(killed, seq) ==
    \/ UNCHANGED <<verdict, stored, verdictSeq>>
    \/ ~killed /\ \E v \in {"gpu", "cpu"} : Publish(v, ReadBack(v), seq)

-----------------------------------------------------------------------------
(* Boot admission.                                                         *)

\* Mutant: a flight ends without resolving its gate.
GateKept(l) == gate

\* A flight resolves the gate of its own life.
GateOpened(l) == IF l = life THEN "settled" ELSE gate

BootEnds(l) ==
    /\ boot' = [boot EXCEPT ![l] = [NoBoot EXCEPT !.pc = "ended"]]
    /\ gate' = GateOpened(l)

DeviceAnswers(l) ==
    /\ boot[l].pc = "query"
    /\ \/ /\ boot[l].killed \/ stoppedAt # boot[l].epoch
          /\ BootEnds(l)
          /\ UNCHANGED <<verdict, stored, verdictSeq>>
       \/ /\ ~boot[l].killed /\ stoppedAt = boot[l].epoch
          /\ Publish(boot[l].stored, {boot[l].stored, stored}, boot[l].seq)
          /\ BootEnds(l)
       \/ /\ ~boot[l].killed /\ stoppedAt = boot[l].epoch
          /\ verdict' = "none"
          /\ boot' = [boot EXCEPT ![l].pc = "probe"]
          /\ UNCHANGED <<stored, verdictSeq, gate>>
    /\ UNCHANGED <<ops, queue, resident, contexts, flags, call, waits,
                   host, life, stoppedAt, tests, flight>>

BootProbed(l) ==
    /\ boot[l].pc = "probe"
    /\ Probed(boot[l].killed, boot[l].seq)
    /\ BootEnds(l)
    /\ UNCHANGED <<ops, queue, resident, contexts, flags, call, waits,
                   host, life, stoppedAt, tests, flight>>

\* warmupAfterBoot
WarmAfterBoot(l) ==
    /\ boot[l].pc = "ended"
    /\ boot' = [boot EXCEPT ![l].pc = "done"]
    /\ IF ~stoppedAt /\ Warms THEN Warmup(l) ELSE UNCHANGED <<ops, queue>>
    /\ UNCHANGED <<resident, contexts, flags, call, waits, admission,
                   host, life, stoppedAt, verdictSeq, tests, flight>>

-----------------------------------------------------------------------------
(* The GPU test.                                                           *)

\* Requests come while the listener is open.
Serving == host \in {"up", "stopping"}

\* gpuTest: while a test is in flight another caller joins it.
CallTest(f) ==
    /\ Serving /\ flight = NoFlight /\ tests[f].pc = "none"
    /\ flight' = f
    /\ tests' = [tests EXCEPT ![f].pc = "boot", ![f].born = life]
    /\ UNCHANGED <<engineVars, host, life, stoppedAt, verdictSeq, boot>>

\* Mutant: a test ends without lifting its pause.
TestEndsPaused(f) ==
    /\ tests' = [tests EXCEPT ![f] = Over]
    /\ flight' = NoFlight
    /\ call' = [call EXCEPT ![f] = "none"]
    /\ UNCHANGED paused

\* The finally of a test past its pause, and the caller's that clears the memo.
TestEnds(f) ==
    /\ tests' = [tests EXCEPT ![f] = Over]
    /\ paused' = FALSE
    /\ flight' = NoFlight
    /\ call' = [call EXCEPT ![f] = "none"]

BeginTest(f) ==
    /\ tests[f].pc = "boot" /\ boot[tests[f].born].pc = "done"
    /\ IF stoppedAt
       THEN /\ tests' = [tests EXCEPT ![f] = Over]
            /\ flight' = NoFlight
            /\ UNCHANGED <<paused, call, waits>>
       ELSE /\ tests' = [tests EXCEPT ![f].pc = "join", ![f].seq = verdictSeq]
            /\ paused' = TRUE
            /\ Join(f)
            /\ UNCHANGED flight
    /\ UNCHANGED <<ops, queue, resident, contexts, stopped, generation, external, admission,
                   host, life, stoppedAt, verdictSeq, boot>>

UnloadForTest(f) ==
    /\ tests[f].pc = "join" /\ Joined(f)
    /\ IF stoppedAt
       THEN TestEnds(f) /\ UNCHANGED waits
       ELSE /\ tests' = [tests EXCEPT ![f].pc = "unload"]
            /\ Dispose(f)
            /\ UNCHANGED <<paused, flight>>
    /\ UNCHANGED <<ops, queue, resident, contexts, stopped, generation, external, admission,
                   host, life, stoppedAt, verdictSeq, boot>>

ProbeForTest(f) ==
    /\ tests[f].pc = "unload" /\ call[f] = "disposed"
    /\ IF stoppedAt
       THEN TestEnds(f)
       ELSE /\ tests' = [tests EXCEPT ![f].pc = "probe"]
            /\ call' = [call EXCEPT ![f] = "none"]
            /\ UNCHANGED <<paused, flight>>
    /\ UNCHANGED <<ops, queue, resident, contexts, stopped, generation, external, waits, admission,
                   host, life, stoppedAt, verdictSeq, boot>>

TestProbed(f) ==
    /\ tests[f].pc = "probe"
    /\ Probed(tests[f].killed, tests[f].seq)
    /\ IF stoppedAt \/ ~Warms
       THEN TestEnds(f) /\ UNCHANGED <<ops, queue, waits>>
       ELSE /\ tests' = [tests EXCEPT ![f].pc = "warm"]
            /\ Warmup(f)
            /\ call' = [call EXCEPT ![f] = "warmup"]
            /\ waits' = [waits EXCEPT ![f] = {f}]
            /\ UNCHANGED <<paused, flight>>
    /\ UNCHANGED <<resident, contexts, stopped, generation, external, gate,
                   host, life, stoppedAt, boot>>

TestWarmed(f) ==
    /\ tests[f].pc = "warm" /\ waits[f] = {}
    /\ TestEnds(f)
    /\ UNCHANGED <<ops, queue, resident, contexts, stopped, generation, external, waits, admission,
                   host, life, stoppedAt, verdictSeq, boot>>

-----------------------------------------------------------------------------
(* Stop.                                                                   *)

\* stop() stamps stoppedAt, then waits for a start that is under way.
StopCalled ==
    /\ host \in {"starting", "up"} /\ ~stoppedAt
    /\ stoppedAt' = TRUE
    /\ UNCHANGED <<engineVars, host, life, verdictSeq, boot, tests, flight>>

\* The synchronous part: every probe child is killed.
Teardown ==
    /\ host = "up" /\ stoppedAt
    /\ host' = "stopping"
    /\ boot' = [l \in Lives |-> IF Booting(l) THEN [boot[l] EXCEPT !.killed = TRUE] ELSE boot[l]]
    /\ tests' = [f \in Flights |->
                    IF tests[f].pc = "probe" THEN [tests[f] EXCEPT !.killed = TRUE] ELSE tests[f]]
    /\ UNCHANGED <<engineVars, life, stoppedAt, verdictSeq, flight>>

\* The worker, the store and the listener are closed.
DrainForStop ==
    /\ host = "stopping" /\ host' = "draining"
    /\ paused' = FALSE
    /\ Join(Stop)
    /\ UNCHANGED <<ops, queue, resident, contexts, stopped, generation, external, admission,
                   life, stoppedAt, verdictSeq, boot, tests, flight>>

\* shutdown()
Shutdown ==
    /\ host = "draining" /\ Joined(Stop)
    /\ host' = "unloading"
    /\ stopped' = TRUE /\ generation' = generation + 1
    /\ Dispose(Stop)
    /\ UNCHANGED <<ops, queue, resident, contexts, paused, external, admission,
                   life, stoppedAt, verdictSeq, boot, tests, flight>>

StopEnds ==
    /\ host = "unloading" /\ call[Stop] = "disposed"
    /\ host' = "down"
    /\ call' = [call EXCEPT ![Stop] = "none"]
    /\ gate' = "settled"
    /\ flight' = NoFlight
    /\ UNCHANGED <<ops, queue, resident, contexts, flags, waits, verdict, stored,
                   life, stoppedAt, verdictSeq, boot, tests>>

-----------------------------------------------------------------------------
Init ==
    /\ EngineInit
    /\ host = "down" /\ life = 0 /\ stoppedAt = FALSE /\ verdictSeq = 0
    /\ boot = [l \in Lives |-> NoBoot]
    /\ tests = [f \in Flights |-> NoTest]
    /\ flight = NoFlight

Reaction ==
    \/ EngineReaction /\ UNCHANGED hostVars
    \/ \E l \in Lives : WarmAfterBoot(l)
    \/ \E f \in Flights : BeginTest(f) \/ UnloadForTest(f) \/ ProbeForTest(f) \/ TestWarmed(f)
    \/ Shutdown \/ StopEnds

Pending ==
    \/ EnginePending
    \/ \E l \in Lives : boot[l].pc = "ended"
    \/ \E f \in Flights : tests[f].pc = "boot" /\ boot[tests[f].born].pc = "done"

Completion ==
    \/ \E o \in Ops : OpTask(o) /\ UNCHANGED hostVars
    \/ \E c \in Callers : Freed(c) /\ UNCHANGED hostVars
    \/ \E l \in Lives : DeviceAnswers(l) \/ BootProbed(l)
    \/ \E f \in Flights : TestProbed(f)
    \/ Listening \/ Teardown \/ DrainForStop

Request ==
    \/ Serving /\ (\E o \in Ops : Query(o) \/ SwitchExternal(o)) /\ UNCHANGED hostVars
    \/ Serving /\ SwitchLocal /\ UNCHANGED hostVars
    \/ \E f \in Flights : CallTest(f)
    \/ Start \/ StartFails \/ StopCalled

Next == Reaction \/ (~Pending /\ (Completion \/ Request))

Spec == Init /\ [][Next]_vars

-----------------------------------------------------------------------------
(* Safety.                                                                 *)

Local(o) == ops[o].kind = "query" /\ ops[o].pc = "generating"

\* The model a generating query was given.
Held(o) == <<ops[o].profile, IF ops[o].backend = "cpu" THEN "cpu" ELSE "gpu">>

\* While the host is up at most one native context exists or is being built or
\* freed: loadBackend and dispose await the old model's teardown, also when a
\* GPU test and a switch to an external endpoint dispose beside the queue.
OneContext == host = "up" => contexts <= 1

\* While the host is up a query generates on the resident model: no load,
\* unload for a GPU test or switch of endpoints disposes it under the query.
GeneratesOnResident == host = "up" => \A o \in Ops : Local(o) => resident = Held(o)

Probing ==
    \/ \E l \in Lives : Booting(l) /\ ~boot[l].killed
    \/ \E f \in Flights : tests[f].pc = "probe" /\ ~tests[f].killed

\* While a probe child may be measuring the GPU no model holds it: the boot's
\* gate keeps every load back, and the test's pause every query.
ProbesFindTheDeviceFree == Probing => contexts = 0

\* A stopped or starting host has no resident model, and no query or warmup has
\* a model or a place in the queue: shutdown drained what was under way.
DownIsUnloaded ==
    host \in {"down", "starting"} =>
        /\ resident = NoModel
        /\ \A o \in Ops : UsesModel(o) => ops[o].pc \in {"gate", "retrieving"}

\* When stop() resolves every native context is freed.  It does not hold: a
\* GPU test may still be freeing the model (README, section 4).
StopFreesTheDevice == host = "down" => contexts = 0

\* A query or warmup that waited at the gate, in retrieval or in the queue
\* across a stop and a start fails: it neither loads nor generates in the new
\* life.
OldQueriesFail ==
    host = "up" => \A o \in Ops : Local(o) \/ Loading(o) => ops[o].gen = generation

\* A GPU test of an earlier life only ends, and does not lift a pause (the
\* comment of coordinatedGpuTest: "a stop at any point ends the operation").
StopEndsTheTest ==
    [][\A f \in Flights :
          Testing(f) /\ tests[f].born # life =>
              /\ tests'[f].pc \in {tests[f].pc, "over"}
              /\ tests'[f].pc = "over" => paused' = paused]_vars

-----------------------------------------------------------------------------
(* Liveness.                                                               *)

\* Reactions run to the end, and a task that is ready runs although reactions
\* come in between: children exit or time out, retrievals, loads, generations
\* and native teardowns end, a stop gets through its synchronous part.
Fairness ==
    /\ WF_vars(Reaction)
    /\ \A o \in Ops : SF_vars(~Pending /\ OpTask(o) /\ UNCHANGED hostVars)
    /\ \A c \in Callers : SF_vars(~Pending /\ Freed(c) /\ UNCHANGED hostVars)
    /\ \A l \in Lives : SF_vars(~Pending /\ (DeviceAnswers(l) \/ BootProbed(l)))
    /\ \A f \in Flights : SF_vars(~Pending /\ TestProbed(f))
    /\ SF_vars(~Pending /\ (Listening \/ Teardown \/ DrainForStop))

FairSpec == Spec /\ Fairness

\* Every query, and every release a switch of endpoints queues, is over at
\* some time: no gate, pause, load or disposal keeps it for ever.
QueriesSettle == \A o \in Queries : ops[o].pc # "idle" ~> ops[o].pc = "idle"

\* Every pause of a GPU test is lifted, however the test or a stop ends it.
PauseEnds == paused ~> ~paused

\* Every stop resolves: its drain, shutdown and the chained releases never
\* wait for each other.
StopCompletes == stoppedAt ~> host = "down"

=============================================================================
