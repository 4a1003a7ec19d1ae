------------------------- MODULE GenerationScheduler -------------------------
(***************************************************************************)
(* ConcurrencyScheduler (desktop/main/backend/memory/scheduler.ts): a FIFO *)
(* mutex around generations, and the seam on which an ingest pauses before *)
(* it embeds while a generation runs.                                      *)
(*                                                                         *)
(* The callbacks of one promise settlement run before anything else does,  *)
(* so a finished generation frees its slot, releases the paused ingests    *)
(* and starts the next queued generation in one step.                      *)
(***************************************************************************)
EXTENDS Naturals, Sequences, FiniteSets

CONSTANTS
    Clients,        \* who asks; each has at most one question at a time
    Ingests,        \* ingest queues, each with one document in its embed phase
    MaxConcurrent   \* concurrency.maxConcurrentGenerations

ASSUME MaxConcurrentAssumption == MaxConcurrent \in Nat \ {0}
ASSUME ClientsAssumption == IsFiniteSet(Clients)

VARIABLES
    queue,    \* generations waiting to start, in order
    running,  \* generations in flight
    ingest    \* each ingest: idle, paused on the seam, or embedding

schedVars == <<queue, running, ingest>>

Queued == {queue[k] : k \in DOMAIN queue}
Paused == {i \in Ingests : ingest[i] = "paused"}

\* Neither running nor queued: the triple the host reads before an upgrade.
Drained == running = {} /\ queue = <<>>

SchedInit == /\ queue = <<>>
             /\ running = {}
             /\ ingest = [i \in Ingests |-> "idle"]

-----------------------------------------------------------------------------
\* Mutants: one generation too many; the newest question first.
OneTooMany(r) == (MaxConcurrent + 1) - Cardinality(r)
NewestFirst(q, n) == [queue |-> SubSeq(q, 1, Len(q) - n),
                      started |-> {q[k] : k \in Len(q) - n + 1 .. Len(q)}]

Slots(r) == MaxConcurrent - Cardinality(r)

TakeFirst(q, n) == [queue |-> SubSeq(q, n + 1, Len(q)), started |-> {q[k] : k \in 1..n}]

\* pump: start queued generations while there is a slot.
Pump(q, r) ==
    LET n == IF Len(q) <= Slots(r) THEN Len(q) ELSE Slots(r)
        taken == TakeFirst(q, n)
    IN  /\ queue' = taken.queue
        /\ running' = r \cup taken.started

RunGeneration(c) ==
    /\ c \notin running \cup Queued
    /\ Pump(Append(queue, c), running)
    /\ UNCHANGED ingest

\* Mutant: the paused ingests are released when nothing is queued any more
\* instead of when nothing runs any more.
ReleasesWhenQueueEmpty(r) == IF queue = <<>> THEN Paused ELSE {}

\* The ingests a finished generation lets go, "r" being those still running.
Released(r) == IF r = {} THEN Paused ELSE {}

\* The generation resolves or rejects, which is the same to the scheduler.
Finish(c) ==
    /\ c \in running
    /\ Pump(queue, running \ {c})
    /\ ingest' = [i \in Ingests |->
                    IF i \in Released(running \ {c}) THEN "embedding" ELSE ingest[i]]

\* waitForGenerationEnd: at once when idle.
BeginEmbed(i) ==
    /\ ingest[i] = "idle"
    /\ ingest' = [ingest EXCEPT ![i] = IF running = {} THEN "embedding" ELSE "paused"]
    /\ UNCHANGED <<queue, running>>

EndEmbed(i) ==
    /\ ingest[i] = "embedding"
    /\ ingest' = [ingest EXCEPT ![i] = "idle"]
    /\ UNCHANGED <<queue, running>>

\* rejectQueued: the queued generations and the paused ingests fail.
RejectQueued ==
    /\ queue' = <<>>
    /\ ingest' = [i \in Ingests |-> IF ingest[i] = "paused" THEN "idle" ELSE ingest[i]]
    /\ UNCHANGED running

-----------------------------------------------------------------------------
\* What the host's clients ask for, and what ends by itself.  RejectQueued is
\* part of the host's stop.
Request == (\E c \in Clients : RunGeneration(c)) \/ \E i \in Ingests : BeginEmbed(i)
Completion == (\E c \in Clients : Finish(c)) \/ \E i \in Ingests : EndEmbed(i)

-----------------------------------------------------------------------------
\* A question is queued at most once, and no longer once it runs.
SchedTypeOK == /\ queue \in Seq(Clients)
               /\ \A j, k \in DOMAIN queue : queue[j] = queue[k] => j = k
               /\ Queued \cap running = {}
               /\ running \subseteq Clients
               /\ ingest \in [Ingests -> {"idle", "paused", "embedding"}]

\* At most maxConcurrentGenerations generations are in flight, and one is
\* queued only while they all are: no slot is lost when a generation fails,
\* when the queue is rejected, or when several finish at once.
SlotsAreUsed == /\ Cardinality(running) <= MaxConcurrent
                /\ queue # <<>> => Cardinality(running) = MaxConcurrent

\* A queued generation is started or rejected, whoever else keeps asking.
QueuedGenerationLeaves == \A c \in Clients : c \in Queued ~> c \notin Queued

\* A paused ingest goes on.  With more than one slot, overlapping generations
\* may never leave a gap; with the default of one, every end is a gap.
PausedIngestGoesOn == \A i \in Ingests : i \in Paused ~> i \notin Paused

\* "The awaited seam resolves the moment no generation runs" (pipeline.ts,
\* embed phase): an ingest starts to embed while nothing is generated.  It
\* does not hold (README, section 4).
EmbeddingStartsIdle ==
    [][\A i \in Ingests :
          (ingest[i] # "embedding" /\ ingest'[i] = "embedding") => running' = {}]_schedVars
=============================================================================
