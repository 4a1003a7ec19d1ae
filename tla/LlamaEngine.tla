------------------------------ MODULE LlamaEngine ------------------------------
(***************************************************************************)
(* The local inference engine of the desktop backend                       *)
(* (desktop/main/backend/inference/llama-engine.ts): one resident model,   *)
(* a queue that runs one operation at a time, the single-flight load, the  *)
(* pause and stop flags, the operation generation, the admission gate and  *)
(* the shared GPU verdict (inference/gpu-probe.ts).                        *)
(*                                                                         *)
(* An operation is a query, an external query, a warmup or the release     *)
(* that a switch to an external endpoint queues.  A call is an awaited     *)
(* joinLoadAndQueue or dispose, which run beside the queue and wait for    *)
(* the operations that were in it when they were made.  Free memory, the   *)
(* profile setting and the pressure override are one choice of a profile;  *)
(* inference.vulkan is "auto"; the profiles' model files are present.      *)
(***************************************************************************)
EXTENDS Integers, SequencesExt

CONSTANTS
    Queries,   \* slots of operations that a client or a settings change starts
    Flights,   \* GPU tests, each used once
    MaxLives,  \* bound: how often the host is started
    Stop,      \* the host's stop as a caller of the engine
    NoModel    \* no resident model

Lives == 1..MaxLives

\* A warmup is named for who runs it: a GPU test, or the boot of a life.
Ops == Queries \cup Flights \cup Lives
Callers == Flights \cup {Stop}

ASSUME LivesAssumption == MaxLives \in Nat
ASSUME CallersAssumption == Stop \notin Flights

VARIABLES
    ops,         \* every operation: its kind, where it is, what it captured
    queue,       \* the operations chained on the engine's queue, in order
    resident,    \* profile and backend of the resident model, or NoModel
    contexts,    \* native contexts that exist or are being built or freed
    paused,      \* pauseReason is set
    stopped,     \* lifecycleStopped
    generation,  \* operationGeneration
    external,    \* an external endpoint generates
    call,        \* every caller's awaited engine call
    waits,       \* the operations the call still waits for
    verdict,     \* activeVerdict
    gate,        \* the admission gate: armed or settled
    stored       \* the verdict in gpu-probe.json

engineVars == <<ops, queue, resident, contexts, paused, stopped, generation,
                external, call, waits, verdict, gate, stored>>

\* What effectiveProfile may answer.
Profiles == {"fast", "quality"}

ASSUME ModelAssumption == NoModel \notin Profiles \X {"cpu", "gpu"}

Verdicts == {"none", "gpu", "cpu"}

Idle == [kind |-> "none", pc |-> "idle", gen |-> 0, profile |-> "fast", backend |-> "cpu"]

EngineTypeOK ==
    /\ ops \in [Ops -> [kind : {"none", "query", "external", "warmup", "release"},
                        pc : {"idle", "gate", "retrieving", "queued", "belt", "releasing",
                              "loading", "generating", "freeing"},
                        gen : 0..(2 * MaxLives), profile : Profiles,
                        backend : {"cpu", "gpu", "bypass"}]]
    /\ queue \in Seq(Ops)
    /\ resident \in {NoModel} \cup (Profiles \X {"cpu", "gpu"})
    /\ contexts \in Nat
    /\ {paused, stopped, external} \subseteq BOOLEAN
    /\ generation \in 0..(2 * MaxLives)
    /\ call \in [Callers -> {"none", "joinLoad", "join", "drain", "drainLoad", "free",
                             "disposed", "warmup"}]
    /\ waits \in [Callers -> SUBSET Ops]
    /\ {verdict, stored} \subseteq Verdicts
    /\ gate \in {"armed", "settled"}

-----------------------------------------------------------------------------
(* What the engine reads.                                                  *)

\* effectiveGpuBackend
EffectiveBackend == IF verdict = "gpu" THEN "gpu" ELSE "cpu"

\* Mutant: nothing waits for the admission gate.
NeverArmed == FALSE

Armed == gate = "armed"

\* Mutant: a pause refuses nothing.
NotStopped == ~stopped

\* assertQueriesAllowed
QueriesAllowed == ~paused /\ ~stopped

\* Mutant: an operation of an earlier life goes on.
AnyGeneration(o) == TRUE

\* assertGenerationAlive
GenerationAlive(o) == ops[o].gen = generation

Identity(o) == <<ops[o].profile, EffectiveBackend>>

Loading(o) == ops[o].pc \in {"belt", "releasing", "loading"}

LoadInFlight == \E o \in Ops : Loading(o)

AtHead(o) == queue # <<>> /\ Head(queue) = o

-----------------------------------------------------------------------------
(* How an operation moves.                                                 *)

Goes(o, pc) == ops' = [ops EXCEPT ![o].pc = pc]

\* The operation's promise settles, for its queue link and for its waiters.
Settle(o) ==
    /\ ops' = [ops EXCEPT ![o] = Idle]
    /\ queue' = IF AtHead(o) THEN Tail(queue) ELSE queue
    /\ waits' = [c \in Callers |-> waits[c] \ {o}]

\* loadInFlight settles while the operation goes on.
LoadOver(o, pc) ==
    /\ Goes(o, pc)
    /\ waits' = [c \in Callers |->
                    IF call[c] \in {"joinLoad", "drainLoad"} THEN waits[c] \ {o} ELSE waits[c]]
    /\ UNCHANGED queue

Enqueue(o, op) ==
    /\ ops' = [ops EXCEPT ![o] = op]
    /\ queue' = Append(queue, o)

Chosen(o, kind, profile, pc) ==
    [Idle EXCEPT !.kind = kind, !.pc = pc, !.gen = generation, !.profile = profile]

UsesModel(o) == ops[o].kind \in {"query", "warmup"}

\* With a model loaded a query generates and a warmup is over.
Loaded(o) == IF ops[o].kind = "query" THEN LoadOver(o, "generating") ELSE Settle(o)

flags == <<paused, stopped, generation, external>>
admission == <<verdict, gate, stored>>

-----------------------------------------------------------------------------
(* Queries and warmups up to the queue.                                    *)

Query(o) ==
    /\ o \in Queries /\ ops[o].pc = "idle"
    /\ \/ /\ external
          /\ ops' = [ops EXCEPT ![o] = Chosen(o, "external", "fast", "retrieving")]
       \/ /\ ~external /\ QueriesAllowed /\ Armed
          /\ ops' = [ops EXCEPT ![o] = Chosen(o, "query", "fast", "gate")]
       \/ /\ ~external /\ QueriesAllowed /\ ~Armed
          /\ \E p \in Profiles :
                ops' = [ops EXCEPT ![o] = Chosen(o, "query", p, "retrieving")]
    /\ UNCHANGED <<queue, resident, contexts, flags, call, waits, admission>>

\* warmup: nothing to do on an external endpoint or a stopped engine.
Warms == ~external /\ (Armed \/ ~stopped)

Warmup(o) ==
    /\ Warms /\ ops[o].pc = "idle"
    /\ IF Armed
       THEN /\ ops' = [ops EXCEPT ![o] = Chosen(o, "warmup", "fast", "gate")]
            /\ UNCHANGED queue
       ELSE \E p \in Profiles : Enqueue(o, Chosen(o, "warmup", p, "queued"))

GateOpens(o) ==
    /\ ops[o].pc = "gate" /\ ~Armed
    /\ \/ /\ ~GenerationAlive(o) \/ (ops[o].kind = "warmup" /\ stopped)
          /\ Settle(o)
       \/ /\ GenerationAlive(o) /\ ops[o].kind = "query"
          /\ \E p \in Profiles :
                ops' = [ops EXCEPT ![o].profile = p, ![o].pc = "retrieving"]
          /\ UNCHANGED <<queue, waits>>
       \/ /\ GenerationAlive(o) /\ ops[o].kind = "warmup" /\ ~stopped
          /\ \E p \in Profiles : Enqueue(o, [ops[o] EXCEPT !.profile = p, !.pc = "queued"])
          /\ UNCHANGED waits
    /\ UNCHANGED <<resident, contexts, flags, call, admission>>

\* Retrieval answers; a local query is checked again before it is queued.
Retrieved(o) ==
    /\ ops[o].pc = "retrieving"
    /\ IF ops[o].kind = "external" \/ (GenerationAlive(o) /\ QueriesAllowed)
       THEN Enqueue(o, [ops[o] EXCEPT !.pc = "queued"]) /\ UNCHANGED waits
       ELSE Settle(o)
    /\ UNCHANGED <<resident, contexts, flags, call, admission>>

-----------------------------------------------------------------------------
(* The queued section.                                                     *)

\* Mutant: the new model is loaded beside the old one.
LoadBeside(o) ==
    \/ /\ stopped
       /\ Settle(o)
       /\ UNCHANGED <<resident, contexts>>
    \/ /\ ~stopped
       /\ contexts' = contexts + 1
       /\ ops' = [ops EXCEPT ![o].pc = "loading", ![o].backend = EffectiveBackend]
       /\ UNCHANGED <<queue, waits, resident>>

\* loadBackend past its gate.
StartLoad(o) ==
    \/ /\ stopped
       /\ Settle(o)
       /\ UNCHANGED <<resident, contexts>>
    \/ /\ ~stopped /\ resident # NoModel
       /\ resident' = NoModel
       /\ Goes(o, "releasing")
       /\ UNCHANGED <<queue, waits, contexts>>
    \/ /\ ~stopped /\ resident = NoModel
       /\ contexts' = contexts + 1
       /\ ops' = [ops EXCEPT ![o].pc = "loading", ![o].backend = EffectiveBackend]
       /\ UNCHANGED <<queue, waits, resident>>

Refused(o) == ops[o].kind = "query" /\ ~(GenerationAlive(o) /\ QueriesAllowed)

\* Mutant: the release is chained behind itself.
ReleaseAwaitsItself(o) == ops[o].kind # "release"

\* A queued release is itself a dispose: earlier ones take the model first.
DisposedFirst(o) ==
    ops[o].kind = "release" => \A c \in Callers : call[c] = "drain" => waits[c] # {}

Section(o) ==
    /\ AtHead(o) /\ ops[o].pc = "queued" /\ DisposedFirst(o)
    /\ \/ /\ Refused(o)
          /\ Settle(o)
          /\ UNCHANGED <<resident, contexts>>
       \/ /\ UsesModel(o) /\ ~Refused(o) /\ resident = Identity(o)
          /\ IF ops[o].kind = "query"
             THEN /\ ops' = [ops EXCEPT ![o].pc = "generating", ![o].backend = resident[2]]
                  /\ UNCHANGED <<queue, waits>>
             ELSE Settle(o)
          /\ UNCHANGED <<resident, contexts>>
       \/ /\ UsesModel(o) /\ ~Refused(o) /\ resident # Identity(o)
          /\ IF Armed
             THEN Goes(o, "belt") /\ UNCHANGED <<queue, waits, resident, contexts>>
             ELSE StartLoad(o)
       \/ /\ ops[o].kind = "external"
          /\ Goes(o, "generating")
          /\ UNCHANGED <<queue, waits, resident, contexts>>
       \/ /\ ops[o].kind = "release" /\ resident = NoModel
          /\ Settle(o)
          /\ UNCHANGED <<resident, contexts>>
       \/ /\ ops[o].kind = "release" /\ resident # NoModel
          /\ resident' = NoModel
          /\ Goes(o, "freeing")
          /\ UNCHANGED <<queue, waits, contexts>>
    /\ UNCHANGED <<flags, call, admission>>

BeltOpens(o) ==
    /\ ops[o].pc = "belt" /\ ~Armed
    /\ StartLoad(o)
    /\ UNCHANGED <<flags, call, admission>>

\* The old model is gone and the new one is built, with no check in between.
Released(o) ==
    /\ ops[o].pc = "releasing"
    /\ ops' = [ops EXCEPT ![o].pc = "loading", ![o].backend = EffectiveBackend]
    /\ UNCHANGED <<queue, waits, resident, contexts, flags, call, admission>>

LoadSucceeds(o) ==
    /\ ops[o].pc = "loading"
    /\ resident' = <<ops[o].profile, IF ops[o].backend = "cpu" THEN "cpu" ELSE "gpu">>
    /\ Loaded(o)
    /\ UNCHANGED <<contexts, flags, call, admission>>

\* How gpu-probe.json reads once v was written: the write may fail, and a
\* record without a device reads as absent.
ReadBack(v) == {stored, v, "none"}

\* A failed GPU load: an estimate is retried without the check; any other
\* failure publishes a CPU verdict, and writes it unless all was estimate.
LoadFails(o) ==
    /\ ops[o].pc = "loading"
    /\ \/ /\ ops[o].backend = "gpu"
          /\ ops' = [ops EXCEPT ![o].backend = "bypass"]
          /\ UNCHANGED <<queue, waits, contexts, verdict, stored>>
       \/ /\ ops[o].backend # "cpu"
          /\ ops' = [ops EXCEPT ![o].backend = "cpu"]
          /\ verdict' = "cpu"
          /\ stored' \in ReadBack("cpu")
          /\ UNCHANGED <<queue, waits, contexts>>
       \/ /\ ops[o].backend = "cpu"
          /\ contexts' = contexts - 1
          /\ Settle(o)
          /\ UNCHANGED <<verdict, stored>>
    /\ UNCHANGED <<resident, flags, call, gate>>

Generated(o) ==
    /\ ops[o].pc = "generating"
    /\ Settle(o)
    /\ UNCHANGED <<resident, contexts, flags, call, admission>>

-----------------------------------------------------------------------------
(* Disposal, inside the queue and beside it.                               *)

\* applySettingsPatch: a switch to an external endpoint queues a release.
SwitchExternal(o) ==
    /\ ~external /\ external' = TRUE
    /\ o \in Queries /\ ops[o].pc = "idle"
    /\ Enqueue(o, Chosen(o, "release", "fast", "queued"))
    /\ UNCHANGED <<resident, contexts, paused, stopped, generation, call, waits, admission>>

SwitchLocal ==
    /\ external /\ external' = FALSE
    /\ UNCHANGED <<ops, queue, resident, contexts, paused, stopped, generation, call, waits, admission>>

ReleaseFreed(o) ==
    /\ ops[o].pc = "freeing"
    /\ contexts' = contexts - 1
    /\ Settle(o)
    /\ UNCHANGED <<resident, flags, call, admission>>

\* joinLoadAndQueue: the load in flight first, then the queue's tail.
Join(c) ==
    IF LoadInFlight
    THEN /\ call' = [call EXCEPT ![c] = "joinLoad"]
         /\ waits' = [waits EXCEPT ![c] = {Head(queue)}]
    ELSE /\ call' = [call EXCEPT ![c] = "join"]
         /\ waits' = [waits EXCEPT ![c] = ToSet(queue)]

JoinLoaded(c) ==
    /\ call[c] = "joinLoad" /\ waits[c] = {}
    /\ call' = [call EXCEPT ![c] = "join"]
    /\ waits' = [waits EXCEPT ![c] = ToSet(queue)]
    /\ UNCHANGED <<ops, queue, resident, contexts, flags, admission>>

Joined(c) == call[c] = "join" /\ waits[c] = {}

\* Mutant: dispose does not wait for the queue.
DisposeAtOnce(c) ==
    /\ call' = [call EXCEPT ![c] = "drain"]
    /\ waits' = [waits EXCEPT ![c] = {}]

\* dispose: the tail of the queue is captured at entry.
Dispose(c) ==
    /\ call' = [call EXCEPT ![c] = "drain"]
    /\ waits' = [waits EXCEPT ![c] = ToSet(queue)]

TakeResident(c) ==
    /\ resident' = NoModel
    /\ call' = [call EXCEPT ![c] = IF resident = NoModel THEN "disposed" ELSE "free"]
    /\ UNCHANGED waits

Drained(c) ==
    /\ waits[c] = {}
    /\ \/ /\ call[c] = "drain" /\ LoadInFlight
          /\ call' = [call EXCEPT ![c] = "drainLoad"]
          /\ waits' = [waits EXCEPT ![c] = {Head(queue)}]
          /\ UNCHANGED resident
       \/ /\ call[c] = "drain" /\ ~LoadInFlight
          /\ TakeResident(c)
       \/ /\ call[c] = "drainLoad"
          /\ TakeResident(c)
    /\ UNCHANGED <<ops, queue, contexts, flags, admission>>

Freed(c) ==
    /\ call[c] = "free"
    /\ contexts' = contexts - 1
    /\ call' = [call EXCEPT ![c] = "disposed"]
    /\ UNCHANGED <<ops, queue, resident, flags, waits, admission>>

-----------------------------------------------------------------------------
EngineInit ==
    /\ ops = [o \in Ops |-> Idle]
    /\ queue = <<>>
    /\ resident = NoModel
    /\ contexts = 0
    /\ paused = FALSE /\ stopped = FALSE /\ external = FALSE
    /\ generation = 0
    /\ call = [c \in Callers |-> "none"]
    /\ waits = [c \in Callers |-> {}]
    /\ verdict = "none" /\ gate = "settled" /\ stored \in Verdicts

\* Promise reactions: they run before any other task of the event loop.
EngineReaction ==
    \/ \E o \in Ops : GateOpens(o) \/ Section(o) \/ BeltOpens(o)
    \/ \E c \in Callers : JoinLoaded(c) \/ Drained(c)

EnginePending ==
    \/ queue # <<>> /\ ops[Head(queue)].pc = "queued"
    \/ ~Armed /\ \E o \in Ops : ops[o].pc \in {"gate", "belt"}
    \/ \E c \in Callers : call[c] \notin {"none", "free"} /\ waits[c] = {}

\* What completes by itself.
OpTask(o) ==
    Retrieved(o) \/ Released(o) \/ LoadSucceeds(o) \/ LoadFails(o) \/ Generated(o) \/ ReleaseFreed(o)

=============================================================================
