--------------------------- MODULE RetrievalWorker ---------------------------
(***************************************************************************)
(* The retrieval worker: WorkerReranker and ResumableReranker              *)
(* (desktop/main/backend/retrieval/reranker.ts), the idle unload that      *)
(* terminates it (memory/idle-unload.ts), and the searches and ingests     *)
(* that use it (retrieval/hybrid.ts, createRetrievalSurface).              *)
(*                                                                         *)
(* A runner is one WorkerReranker, a thread one worker thread it spawned.  *)
(* A search embeds its query, scores the candidates, and when either fails *)
(* embeds once more for the fused ordering; an ingest embeds once; a probe *)
(* asks for the memory counters.  What a promise settlement runs before    *)
(* the next event belongs to the same step.                                *)
(***************************************************************************)
EXTENDS Naturals, Sequences, FiniteSets

CONSTANTS
    Searches,    \* searches
    Ingests,     \* documents or packs in their embed call
    Probes,      \* memory ticks
    MaxCrashes   \* bound on the threads that fail by themselves

ASSUME CrashesAssumption == MaxCrashes \in Nat
ASSUME CallersDisjoint == /\ Searches \cap Ingests = {}
                          /\ (Searches \cup Ingests) \cap Probes = {}

Callers == Searches \cup Ingests \cup Probes

VARIABLES
    runner,     \* ResumableReranker.runner, 0 when null
    worker,     \* each runner's WorkerReranker.worker, 0 when null
    disposed,   \* runners that were disposed
    thread,     \* the runner of every thread ever spawned
    up,         \* the threads still running
    caller,     \* each caller's phase, and the runner that holds its job
    reranking,  \* the surface's reranker latch
    armed,      \* the idle window's timer is set
    closed,     \* the host stopped
    crashes

vars == <<runner, worker, disposed, thread, up, caller, reranking, armed, closed, crashes>>

Asking == {"embed", "score", "plain", "probe"}
Phases == Asking \cup {"idle", "done", "failed"}
PendingOn(k) == {c \in Callers : caller[c].at \in Asking /\ caller[c].on = k}

Init == /\ runner = 0
        /\ worker = <<>>
        /\ disposed = {}
        /\ thread = <<>>
        /\ up = {}
        /\ caller = [c \in Callers |-> [at |-> "idle", on |-> 0]]
        /\ reranking = TRUE
        /\ armed = FALSE
        /\ closed = FALSE
        /\ crashes = 0

-----------------------------------------------------------------------------
\* Mutants: the catch branch disposes the runner it finds; an exit leaves the
\* jobs it interrupted; the idle unload only forgets the runner; building a
\* runner does not touch the idle timer.
DisposesCurrent(own, current) == IF current = 0 THEN own ELSE current
LeavesJobs(k) == {}
ForgetsOnly(k) == {}
TouchesOnReuse(fresh) == ~fresh

\* The runner a failed job disposes: the generation it ran on.
Dropped(own, current) == own

\* The runner the idle unload disposes.
Unloaded(k) == {k} \ {0}

\* The callers whose jobs a failed thread or a disposed runner rejects.
Rejected(k) == PendingOn(k)

\* onUse fires on every job start, "including during a rebuild".
Touched(fresh) == TRUE

\* What a caller may do when its job is answered (a search that finds nothing
\* scores nothing), and what it does when its job is rejected.
Answered == [embed |-> {"score", "done"}, score |-> {"done"},
             plain |-> {"done"}, probe |-> {"done"}]
Refused == [embed |-> "plain", score |-> "plain", plain |-> "failed", probe |-> "failed"]

\* The callers "next" names move on, each to the phase it gives, from the
\* resumable state r (a runner, the runners' workers, the disposed ones).
\* A phase that asks for another job touches the idle timer and, as needed,
\* builds a runner and spawns its thread; a stopped host refuses it.
MoveOn(next, r) ==
    LET asks == {c \in DOMAIN next : next[c] \in Asking}
        fresh == r.runner = 0
        k == IF fresh THEN Len(r.worker) + 1 ELSE r.runner
        spawns == fresh \/ r.worker[k] = 0
        t == IF spawns THEN Len(thread) + 1 ELSE r.worker[k]
    IN  /\ disposed' = r.disposed
        /\ IF asks # {} /\ ~closed
           THEN /\ runner' = k
                /\ worker' = IF fresh THEN Append(r.worker, t) ELSE [r.worker EXCEPT ![k] = t]
                /\ thread' = IF spawns THEN Append(thread, k) ELSE thread
                /\ armed' = (armed \/ Touched(fresh))
           ELSE /\ runner' = r.runner
                /\ worker' = r.worker
                /\ UNCHANGED <<thread, armed>>
        /\ caller' = [c \in Callers |->
             IF c \notin DOMAIN next THEN caller[c]
             ELSE IF c \notin asks THEN [at |-> next[c], on |-> 0]
             ELSE IF closed THEN [at |-> "failed", on |-> 0]
             ELSE [at |-> next[c], on |-> k]]

\* The threads after MoveOn, "left" being those that still run before it.
Spawned(left) == left \cup (DOMAIN thread' \ DOMAIN thread)

Resumable == [runner |-> runner, worker |-> worker, disposed |-> disposed]

\* WorkerReranker.dispose, forgotten by the resumable where it is the current
\* one.  The thread goes on until it is terminated.
Dispose(r, k) == [runner |-> IF r.runner = k THEN 0 ELSE r.runner,
                  worker |-> [r.worker EXCEPT ![k] = 0],
                  disposed |-> r.disposed \cup {k}]

\* Runner k rejects its jobs.  "dead" says that the error names an exit or a
\* disposal, for which the catch branch of a score or an embed (not of a
\* probe) disposes the runner.
Fail(k, r, dead) ==
    LET hit == Rejected(k)
        uses == {c \in hit : caller[c].at # "probe"}
    IN  /\ MoveOn([c \in hit |-> Refused[caller[c].at]],
                  IF dead /\ uses # {} THEN Dispose(r, Dropped(k, r.runner)) ELSE r)
        /\ reranking' = (reranking /\ ~\E c \in hit : caller[c].at \in {"embed", "score"})

-----------------------------------------------------------------------------
\* search: with the reranker, or on the fused ordering, when the query asks
\* for that or the latch is off.
Search(c) ==
    /\ caller[c].at = "idle"
    /\ ~closed
    /\ \E at \in {"plain"} \cup (IF reranking THEN {"embed"} ELSE {}) :
          MoveOn([x \in {c} |-> at], Resumable)
    /\ up' = Spawned(up)
    /\ UNCHANGED <<reranking, closed, crashes>>

\* WorkerEmbedder.embed, from the ingest pipeline or the pack build.
IngestEmbed(c) ==
    /\ caller[c].at = "idle"
    /\ ~closed
    /\ MoveOn([x \in {c} |-> "plain"], Resumable)
    /\ up' = Spawned(up)
    /\ UNCHANGED <<reranking, closed, crashes>>

\* reportMemory: null unless a thread is there; it builds and touches nothing.
ReportMemory(c) ==
    /\ caller[c].at = "idle"
    /\ ~closed
    /\ caller' = [caller EXCEPT ![c] =
         IF runner # 0 /\ worker[runner] # 0 THEN [at |-> "probe", on |-> runner]
                                             ELSE [at |-> "done", on |-> 0]]
    /\ UNCHANGED <<runner, worker, disposed, thread, up, reranking, armed, closed, crashes>>

\* The worker answers, which it may still do while it is being terminated.
Answer(c) ==
    /\ caller[c].at \in Asking
    /\ \E t \in up : thread[t] = caller[c].on
    /\ \E to \in Answered[caller[c].at] : MoveOn([x \in {c} |-> to], Resumable)
    /\ up' = Spawned(up)
    /\ UNCHANGED <<reranking, closed, crashes>>

\* The worker answers that the job failed, or the search fails on the store
\* after it was answered: the runner is kept.
AnswerError(c) ==
    /\ caller[c].at \in Asking \ {"probe"}
    /\ crashes < MaxCrashes
    /\ \E t \in up : thread[t] = caller[c].on
    /\ crashes' = crashes + 1
    /\ MoveOn([x \in {c} |-> Refused[caller[c].at]], Resumable)
    /\ up' = Spawned(up)
    /\ reranking' = (reranking /\ caller[c].at = "plain")
    /\ UNCHANGED closed

\* 'error': the jobs fail at once, before the thread exits.  Running out of
\* memory is an error that says "terminated".
WorkerError(t) ==
    /\ t \in up
    /\ worker[thread[t]] = t
    /\ crashes < MaxCrashes
    /\ crashes' = crashes + 1
    /\ \E dead \in BOOLEAN : Fail(thread[t], Resumable, dead)
    /\ up' = Spawned(up)
    /\ UNCHANGED closed

\* 'exit' of a thread nobody terminated.
Exit(t) ==
    /\ t \in up
    /\ worker[thread[t]] = t
    /\ crashes < MaxCrashes
    /\ crashes' = crashes + 1
    /\ Fail(thread[t], [Resumable EXCEPT !.worker[thread[t]] = 0], TRUE)
    /\ up' = Spawned(up \ {t})
    /\ UNCHANGED closed

\* terminate() resolved: dispose goes on to reject what is still pending.
Terminated(t) ==
    /\ t \in up
    /\ worker[thread[t]] # t
    /\ Fail(thread[t], Resumable, TRUE)
    /\ up' = Spawned(up \ {t})
    /\ UNCHANGED <<closed, crashes>>

\* The idle window elapsed since the last job START.
Unload ==
    /\ armed
    /\ armed' = FALSE
    /\ runner' = 0
    /\ disposed' = disposed \cup Unloaded(runner)
    /\ worker' = [k \in DOMAIN worker |-> IF k \in Unloaded(runner) THEN 0 ELSE worker[k]]
    /\ UNCHANGED <<thread, up, caller, reranking, closed, crashes>>

\* stop(): the idle timer and the resumable are disposed for good.
Close ==
    /\ ~closed
    /\ closed' = TRUE
    /\ armed' = FALSE
    /\ runner' = 0
    /\ disposed' = disposed \cup ({runner} \ {0})
    /\ worker' = [k \in DOMAIN worker |-> IF k = runner THEN 0 ELSE worker[k]]
    /\ UNCHANGED <<thread, up, caller, reranking, crashes>>

Next == \/ \E c \in Searches : Search(c)
        \/ \E c \in Ingests : IngestEmbed(c)
        \/ \E c \in Probes : ReportMemory(c)
        \/ \E c \in Callers : Answer(c) \/ AnswerError(c)
        \/ \E t \in up : WorkerError(t) \/ Exit(t) \/ Terminated(t)
        \/ Unload
        \/ Close

Spec == Init /\ [][Next]_vars

\* A thread that stays up answers what it was asked, and terminate() resolves.
Fairness == /\ \A c \in Callers : WF_vars(Answer(c))
            /\ WF_vars(\E t \in up : Terminated(t))

FairSpec == Spec /\ Fairness

-----------------------------------------------------------------------------
TypeOK == /\ worker \in Seq(0..Len(thread))
          /\ runner \in 0..Len(worker)
          /\ runner # 0 => runner \notin disposed
          /\ disposed \subseteq DOMAIN worker
          /\ \A k \in disposed : worker[k] = 0
          /\ thread \in Seq(DOMAIN worker)
          /\ up \subseteq DOMAIN thread
          /\ caller \in [Callers -> [at: Phases, on: 0..Len(worker)]]
          /\ \A c \in Callers : caller[c].at \in Asking <=> caller[c].on # 0
          /\ reranking \in BOOLEAN /\ armed \in BOOLEAN /\ closed \in BOOLEAN
          /\ crashes \in 0..MaxCrashes

\* No thread leaks: one that runs is the current runner's, or its runner was
\* disposed and the thread is about to end.
NoOrphanThread ==
    \A t \in up : (thread[t] = runner /\ worker[runner] = t) \/ thread[t] \in disposed

\* The idle window covers every runner: one in place is always going to be
\* unloaded, so the ONNX memory it holds comes back.
IdleWindowCovers == runner # 0 => armed

\* Issue #229 (a): a job that fails on an old runner takes no replacement
\* down.  What disposes a runner is the idle window, stop(), or the failure of
\* its own jobs when its own thread died.
ReplacementSurvives ==
    [][\A k \in disposed' \ disposed :
         \/ armed /\ ~armed'
         \/ crashes' > crashes /\ PendingOn(k) # {}]_vars

\* Nobody waits for a thread that is gone: every job is answered or rejected,
\* whatever is unloaded, crashes or stops meanwhile.
CallsSettle == \A c \in Callers : caller[c].at \in Asking ~> caller[c].at \in {"done", "failed"}

\* "Terminated after the idle window with no rerank/embed/ingest-embed use"
\* (docs/adr/0008-memory-budget.md): no job is in flight at an idle unload.
UnloadIsIdle == [][(armed /\ ~armed' /\ ~closed' /\ runner # 0) => PendingOn(runner) = {}]_vars

\* "Single-thread ORT ownership is REQUIRED" (retrieval/rerank-worker.ts):
\* there are never two worker threads at once.
OneThread == Cardinality(up) <= 1
=============================================================================
