------------------------ MODULE RetrievalWorkerProofs ------------------------
(***************************************************************************)
(* What RetrievalWorker guarantees for all searches, ingests, probes and   *)
(* bounds: no thread is left behind, the idle window covers every runner,  *)
(* and a failure of old jobs takes no other runner down.                   *)
(***************************************************************************)
EXTENDS RetrievalWorker, SequenceTheorems, TLAPS

IInv == TypeOK /\ NoOrphanThread /\ IdleWindowCovers

\* A resumable state r, with the threads "left" that still run, from which the
\* callers may move on: what IInv says of the runner, the workers and the
\* disposed runners.
Sound(r, left) ==
    /\ r.worker \in Seq(0..Len(thread)) /\ Len(r.worker) = Len(worker)
    /\ r.runner \in {0, runner}
    /\ r.runner # 0 => r.runner \notin r.disposed
    /\ r.disposed \subseteq DOMAIN worker
    /\ \A k \in r.disposed : r.worker[k] = 0
    /\ left \subseteq DOMAIN thread
    /\ \A t \in left : \/ thread[t] = r.runner /\ r.worker[r.runner] = t
                       \/ thread[t] \in r.disposed

\* A sequence of S is a function on 1..n, and the other way round.
LEMMA SeqIsFun ==
    ASSUME NEW S, NEW s \in Seq(S)
    PROVE  /\ Len(s) \in Nat /\ DOMAIN s = 1..Len(s)
           /\ \A i \in 1..Len(s) : s[i] \in S
  BY LenProperties, ElementOfSeq

LEMMA FunIsSeq ==
    ASSUME NEW S, NEW T, NEW s \in Seq(T), \A i \in 1..Len(s) : s[i] \in S
    PROVE  s \in Seq(S)
<1>1. Len(s) \in Nat /\ s \in [1..Len(s) -> T]
  BY LenProperties
<1>2. s \in [1..Len(s) -> S]
  BY <1>1
<1> QED
  BY <1>1, <1>2, SeqDef

\* One more element, or one other element.
LEMMA AppendIsFun ==
    ASSUME NEW S, NEW s \in Seq(S), NEW e \in S, NEW a, a = Append(s, e)
    PROVE  /\ a \in Seq(S) /\ Len(a) = Len(s) + 1 /\ a[Len(s) + 1] = e
           /\ \A i \in 1..Len(s) : a[i] = s[i]
  BY AppendProperties

LEMMA ExceptIsFun ==
    ASSUME NEW S, NEW s \in Seq(S), NEW j \in 1..Len(s), NEW e \in S, NEW a,
           a = [s EXCEPT ![j] = e]
    PROVE  /\ a \in Seq(S) /\ Len(a) = Len(s)
           /\ \A i \in 1..Len(s) : a[i] = IF i = j THEN e ELSE s[i]
  BY ExceptSeq

\* The initial state.
LEMMA InitHolds == Init => IInv
<1> SUFFICES ASSUME Init PROVE IInv
  OBVIOUS
<1>1. worker = <<>> /\ thread = <<>> /\ Len(worker) = 0 /\ Len(thread) = 0
  BY EmptySeq DEF Init
<1>2. worker \in Seq(0..Len(thread)) /\ thread \in Seq(DOMAIN worker)
  BY <1>1, EmptySeq
<1>3. /\ caller \in [Callers -> [at: Phases, on: 0..Len(worker)]]
      /\ \A c \in Callers : caller[c].at \in Asking <=> caller[c].on # 0
  BY <1>1 DEF Init, Phases, Asking
<1>4. reranking \in BOOLEAN /\ armed \in BOOLEAN /\ closed \in BOOLEAN
  BY DEF Init
<1>5. TypeOK
  <2>1. runner \in 0..Len(worker) /\ crashes \in 0..MaxCrashes
    BY <1>1, CrashesAssumption DEF Init
  <2> QED
    BY <2>1, <1>2, <1>3, <1>4 DEF TypeOK, Init
<1> QED
  BY <1>5 DEF Init, IInv, NoOrphanThread, IdleWindowCovers

\* What TypeOK says of the two sequences.
LEMMA Shape ==
    ASSUME TypeOK
    PROVE  /\ Len(worker) \in Nat /\ Len(thread) \in Nat
           /\ DOMAIN worker = 1..Len(worker) /\ DOMAIN thread = 1..Len(thread)
           /\ \A i \in 1..Len(worker) : worker[i] \in 0..Len(thread)
           /\ \A i \in 1..Len(thread) : thread[i] \in 1..Len(worker)
<1>1. worker \in Seq(0..Len(thread)) /\ thread \in Seq(DOMAIN worker)
  BY DEF TypeOK
<1> QED
  BY <1>1, SeqIsFun

\* What the callers that move on leave behind them: threads, workers and
\* runner stay in step, whoever spawned a thread and whoever was refused.
LEMMA MoveOnKeeps ==
    ASSUME IInv, NEW next, NEW r, NEW left, Sound(r, left), MoveOn(next, r),
           up' = Spawned(left), closed' = closed,
           reranking' \in BOOLEAN, crashes' \in 0..MaxCrashes,
           DOMAIN next \subseteq Callers, \A c \in DOMAIN next : next[c] \in Phases
    PROVE  IInv' /\ disposed' = r.disposed
<1> DEFINE asks == {c \in DOMAIN next : next[c] \in Asking}
           fresh == r.runner = 0
           k == IF fresh THEN Len(r.worker) + 1 ELSE r.runner
           spawns == fresh \/ r.worker[k] = 0
           t == IF spawns THEN Len(thread) + 1 ELSE r.worker[k]
<1>a. /\ Len(worker) \in Nat /\ Len(thread) \in Nat
      /\ DOMAIN worker = 1..Len(worker) /\ DOMAIN thread = 1..Len(thread)
      /\ \A i \in 1..Len(worker) : worker[i] \in 0..Len(thread)
      /\ \A i \in 1..Len(thread) : thread[i] \in 1..Len(worker)
  BY Shape DEF IInv
<1>b. /\ Len(r.worker) = Len(worker) /\ DOMAIN r.worker = 1..Len(worker)
      /\ \A j \in 1..Len(worker) : r.worker[j] \in 0..Len(thread)
      /\ r.worker \in Seq(Nat)
  <2>1. r.worker \in Seq(0..Len(thread)) /\ Len(r.worker) = Len(worker)
    BY DEF Sound
  <2>2. /\ DOMAIN r.worker = 1..Len(worker)
        /\ \A j \in 1..Len(worker) : r.worker[j] \in 0..Len(thread)
    BY <2>1, SeqIsFun
  <2>3. 0..Len(thread) \subseteq Nat
    BY <1>a
  <2> QED
    BY <2>1, <2>2, <2>3, SeqMonotonic
<1>c. disposed' = r.disposed
  BY DEF MoveOn
<1>d. runner \in 0..Len(worker)
  BY DEF IInv, TypeOK
<1>1. CASE ~(asks # {} /\ ~closed)
  <2>1. runner' = r.runner /\ worker' = r.worker /\ thread' = thread /\ armed' = armed
    BY <1>1 DEF MoveOn
  <2>2. up' = left
    BY <2>1 DEF Spawned
  <2>3. caller' = [c \in Callers |->
            IF c \notin DOMAIN next THEN caller[c]
            ELSE IF c \notin asks THEN [at |-> next[c], on |-> 0]
            ELSE [at |-> "failed", on |-> 0]]
    BY <1>1 DEF MoveOn
  <2>4. /\ caller' \in [Callers -> [at: Phases, on: 0..Len(worker')]]
        /\ \A c \in Callers : caller'[c].at \in Asking <=> caller'[c].on # 0
    BY <2>1, <2>3, <1>a, <1>b DEF IInv, TypeOK, Phases, Asking
  <2>5. worker' \in Seq(0..Len(thread')) /\ thread' \in Seq(DOMAIN worker')
    BY <2>1, <1>a, <1>b DEF Sound, IInv, TypeOK
  <2>6. reranking' \in BOOLEAN /\ armed' \in BOOLEAN /\ closed' \in BOOLEAN
    BY <2>1 DEF IInv, TypeOK
  <2>7. /\ runner' \in 0..Len(worker') /\ disposed' \subseteq DOMAIN worker'
        /\ runner' # 0 => runner' \notin disposed'
        /\ \A j \in disposed' : worker'[j] = 0
    BY <2>1, <1>a, <1>b, <1>c, <1>d DEF Sound
  <2>8. TypeOK'
    BY <2>1, <2>2, <2>4, <2>5, <2>6, <2>7 DEF TypeOK, Sound
  <2>9. NoOrphanThread' /\ IdleWindowCovers'
    BY <2>1, <2>2, <1>c DEF IInv, NoOrphanThread, IdleWindowCovers, Sound
  <2> QED
    BY <2>8, <2>9, <1>c DEF IInv
<1>2. CASE asks # {} /\ ~closed
  <2>1. /\ runner' = k /\ armed' = TRUE
        /\ worker' = IF fresh THEN Append(r.worker, t) ELSE [r.worker EXCEPT ![k] = t]
        /\ thread' = IF spawns THEN Append(thread, k) ELSE thread
        /\ caller' = [c \in Callers |->
              IF c \notin DOMAIN next THEN caller[c]
              ELSE IF c \notin asks THEN [at |-> next[c], on |-> 0]
              ELSE [at |-> next[c], on |-> k]]
    BY <1>2 DEF MoveOn, Touched
  \* A new runner, or the one in place; a new thread, or the one in place.
  <2>2. \/ /\ r.runner = 0 /\ k = Len(worker) + 1 /\ t = Len(thread) + 1
           /\ worker' = Append(r.worker, t) /\ thread' = Append(thread, k)
        \/ /\ r.runner = k /\ k \in 1..Len(worker) /\ r.worker[k] = 0
           /\ t = Len(thread) + 1
           /\ worker' = [r.worker EXCEPT ![k] = t] /\ thread' = Append(thread, k)
        \/ /\ r.runner = k /\ k \in 1..Len(worker) /\ r.worker[k] = t
           /\ t \in 1..Len(thread)
           /\ worker' = [r.worker EXCEPT ![k] = t] /\ thread' = thread
    <3>1. CASE fresh
      BY <3>1, <2>1, <1>b
    <3>2. CASE ~fresh
      <4>1. k = r.runner /\ k \in 1..Len(worker) /\ r.worker[k] \in 0..Len(thread)
        BY <3>2, <1>b, <1>d, <1>a DEF Sound
      <4>2. CASE r.worker[k] = 0
        BY <3>2, <4>1, <4>2, <2>1
      <4>3. CASE r.worker[k] # 0
        <5>1. ~spawns /\ t = r.worker[k] /\ t \in 1..Len(thread)
          BY <3>2, <4>1, <4>3, <1>a
        <5> QED
          BY <3>2, <4>1, <5>1, <2>1
      <4> QED
        BY <4>2, <4>3
    <3> QED
      BY <3>1, <3>2
  <2> HIDE DEF k, spawns, t, fresh
  <2>3. /\ k \in 1..(Len(worker) + 1) /\ t \in 1..(Len(thread) + 1) /\ t \in Nat
        /\ k \notin r.disposed
    BY <2>2, <1>a DEF Sound
  <2>4. /\ Len(worker') \in Nat /\ Len(worker) <= Len(worker') /\ k \in 1..Len(worker')
        /\ worker' \in Seq(Nat) /\ DOMAIN worker' = 1..Len(worker')
        /\ \A j \in 1..Len(worker') : j # k => j \in 1..Len(worker) /\ worker'[j] = r.worker[j]
        /\ worker'[k] = t
    <3>1. CASE k = Len(worker) + 1 /\ worker' = Append(r.worker, t)
      <4>1. /\ worker' \in Seq(Nat) /\ Len(worker') = Len(worker) + 1
            /\ worker'[Len(worker) + 1] = t
            /\ \A i \in 1..Len(worker) : worker'[i] = r.worker[i]
        BY <1>b, <2>3, <3>1, AppendIsFun
      <4> QED
        BY <3>1, <4>1, <1>a, SeqIsFun
    <3>2. CASE k \in 1..Len(worker) /\ worker' = [r.worker EXCEPT ![k] = t]
      <4>1. /\ worker' \in Seq(Nat) /\ Len(worker') = Len(worker)
            /\ \A i \in 1..Len(worker) : worker'[i] = IF i = k THEN t ELSE r.worker[i]
        BY <1>b, <2>3, <3>2, ExceptIsFun
      <4> QED
        BY <3>2, <4>1, <1>a, SeqIsFun
    <3> QED
      BY <3>1, <3>2, <2>2
  <2>5. /\ Len(thread') \in Nat /\ Len(thread) <= Len(thread') /\ t \in 1..Len(thread')
        /\ thread' \in Seq(DOMAIN worker') /\ DOMAIN thread' = 1..Len(thread')
        /\ \A u \in 1..Len(thread) : thread'[u] = thread[u]
        /\ \A u \in 1..Len(thread') : u \in 1..Len(thread) \/ (u = t /\ thread'[u] = k)
    <3>0. thread \in Seq(DOMAIN worker') /\ k \in DOMAIN worker'
      <4>1. thread \in Seq(DOMAIN worker)
        BY DEF IInv, TypeOK
      <4>2. DOMAIN worker \subseteq DOMAIN worker'
        BY <1>a, <2>4
      <4> QED
        BY <4>1, <4>2, <2>4, SeqMonotonic
    <3>1. CASE t = Len(thread) + 1 /\ thread' = Append(thread, k)
      <4>1. /\ thread' \in Seq(DOMAIN worker') /\ Len(thread') = Len(thread) + 1
            /\ thread'[Len(thread) + 1] = k
            /\ \A i \in 1..Len(thread) : thread'[i] = thread[i]
        BY <3>0, <3>1, AppendIsFun
      <4>2. DOMAIN thread' = 1..Len(thread')
        BY <4>1, SeqIsFun
      <4> QED
        BY <3>1, <4>1, <4>2, <1>a
    <3>2. CASE t \in 1..Len(thread) /\ thread' = thread
      BY <3>0, <3>2, <1>a
    <3> QED
      BY <3>1, <3>2, <2>2
  <2>6. worker' \in Seq(0..Len(thread'))
    <3>1. \A j \in 1..Len(worker') : worker'[j] \in 0..Len(thread')
      <4> SUFFICES ASSUME NEW j \in 1..Len(worker') PROVE worker'[j] \in 0..Len(thread')
        OBVIOUS
      <4>1. CASE j = k
        BY <4>1, <2>4, <2>5
      <4>2. CASE j # k
        <5>1. worker'[j] = r.worker[j] /\ r.worker[j] \in 0..Len(thread)
          BY <4>2, <2>4, <1>b
        <5> QED
          BY <5>1, <2>5, <1>a
      <4> QED
        BY <4>1, <4>2
    <3>2. worker' \in Seq(Nat)
      BY <2>4
    <3> QED
      BY <3>1, <3>2, FunIsSeq
  <2>7. /\ caller' \in [Callers -> [at: Phases, on: 0..Len(worker')]]
        /\ \A c \in Callers : caller'[c].at \in Asking <=> caller'[c].on # 0
    <3>1. \A c \in Callers : caller[c] \in [at: Phases, on: 0..Len(worker')]
      BY <1>a, <2>4 DEF IInv, TypeOK
    <3>2. k \in 0..Len(worker') /\ k # 0 /\ 0 \in 0..Len(worker')
      BY <1>a, <2>4
    <3> QED
      BY <2>1, <3>1, <3>2 DEF IInv, TypeOK, Phases, Asking
  <2>8. up' \subseteq left \cup (DOMAIN thread' \ DOMAIN thread) /\ up' \subseteq DOMAIN thread'
    BY <1>a, <2>5 DEF Spawned, Sound
  <2>9. reranking' \in BOOLEAN /\ armed' \in BOOLEAN /\ closed' \in BOOLEAN
    BY <2>1 DEF IInv, TypeOK
  <2>10. /\ runner' \in 0..Len(worker') /\ disposed' \subseteq DOMAIN worker'
         /\ runner' # 0 => runner' \notin disposed'
         /\ \A j \in disposed' : worker'[j] = 0
    <3>1. runner' = k /\ k \in 0..Len(worker') /\ DOMAIN worker \subseteq DOMAIN worker'
      BY <2>1, <2>4, <1>a
    <3> QED
      BY <3>1, <2>3, <2>4, <1>a, <1>c DEF Sound
  <2>11. TypeOK'
    BY <2>5, <2>6, <2>7, <2>8, <2>9, <2>10 DEF TypeOK
  <2>12. NoOrphanThread'
    <3> SUFFICES ASSUME NEW u \in up'
                 PROVE  \/ thread'[u] = runner' /\ worker'[runner'] = u
                        \/ thread'[u] \in disposed'
      BY DEF NoOrphanThread
    <3>1. CASE u \in left
      <4>1. thread'[u] = thread[u] /\ thread[u] \in 1..Len(worker) /\ u \in 1..Len(thread)
        BY <3>1, <1>a, <2>5 DEF Sound
      <4>2. CASE thread[u] \in r.disposed
        BY <4>1, <4>2, <1>c
      <4>3. CASE thread[u] = r.runner /\ r.worker[r.runner] = u
        <5>1. k = r.runner /\ t = u
          BY <4>1, <4>3, <2>2
        <5> QED
          BY <4>1, <4>3, <5>1, <2>1, <2>4
      <4> QED
        BY <3>1, <4>2, <4>3 DEF Sound
    <3>2. CASE u \notin left
      <4>1. u = t /\ thread'[u] = k
        BY <3>2, <2>5, <2>8, <1>a
      <4> QED
        BY <4>1, <2>1, <2>4
    <3> QED
      BY <3>1, <3>2
  <2> QED
    BY <2>1, <2>11, <2>12, <1>c DEF IInv, IdleWindowCovers
<1> QED
  BY <1>1, <1>2, <1>c

\* The callers may move on from the state as it is, also without some thread.
LEMMA ResumableIsSound ==
    ASSUME IInv, NEW left \in SUBSET up
    PROVE  Sound(Resumable, left)
  BY DEF IInv, TypeOK, NoOrphanThread, Sound, Resumable

\* A disposal leaves a state to move on from, and only adds its runner.
LEMMA DisposeIsSound ==
    ASSUME IInv, NEW r, NEW left, Sound(r, left), NEW k \in 1..Len(worker)
    PROVE  Sound(Dispose(r, k), left) /\ Dispose(r, k).disposed = r.disposed \cup {k}
<1> DEFINE d == Dispose(r, k)
<1>a. /\ Len(worker) \in Nat /\ Len(thread) \in Nat
      /\ DOMAIN worker = 1..Len(worker) /\ DOMAIN thread = 1..Len(thread)
      /\ \A i \in 1..Len(thread) : thread[i] \in 1..Len(worker)
  BY Shape DEF IInv
<1>1. /\ d.runner = IF r.runner = k THEN 0 ELSE r.runner
      /\ d.worker = [r.worker EXCEPT ![k] = 0]
      /\ d.disposed = r.disposed \cup {k}
  BY DEF Dispose
<1>2. /\ d.worker \in Seq(0..Len(thread)) /\ Len(d.worker) = Len(worker)
      /\ \A i \in 1..Len(worker) : d.worker[i] = IF i = k THEN 0 ELSE r.worker[i]
  <2>1. r.worker \in Seq(0..Len(thread)) /\ Len(r.worker) = Len(worker) /\ 0 \in 0..Len(thread)
    BY <1>a DEF Sound
  <2> QED
    BY <1>1, <2>1, ExceptIsFun
<1>3. /\ d.runner \in {0, runner}
      /\ d.runner # 0 => d.runner \notin d.disposed
      /\ d.disposed \subseteq DOMAIN worker
      /\ \A j \in d.disposed : d.worker[j] = 0
  BY <1>1, <1>2, <1>a DEF Sound
<1>4. left \subseteq DOMAIN thread
  BY DEF Sound
<1>5. \A t \in left : \/ thread[t] = d.runner /\ d.worker[d.runner] = t
                      \/ thread[t] \in d.disposed
  <2> SUFFICES ASSUME NEW t \in left, thread[t] \notin d.disposed
               PROVE  thread[t] = d.runner /\ d.worker[d.runner] = t
    OBVIOUS
  <2>1. thread[t] = r.runner /\ r.worker[r.runner] = t /\ thread[t] # k
    BY <1>1 DEF Sound
  <2>2. thread[t] \in 1..Len(worker)
    BY <1>a, <1>4
  <2> QED
    BY <1>1, <1>2, <2>1, <2>2
<1> HIDE DEF d
<1>6. Sound(d, left)
  BY <1>2, <1>3, <1>4, <1>5 DEF Sound
<1> QED
  BY <1>1, <1>6 DEF d

\* The jobs of a runner that are rejected take down no runner but theirs.
LEMMA FailKeeps ==
    ASSUME IInv, NEW k \in 1..Len(worker), NEW r, NEW left, Sound(r, left),
           NEW dead \in BOOLEAN, Fail(k, r, dead), up' = Spawned(left),
           closed' = closed, crashes' \in 0..MaxCrashes
    PROVE  /\ IInv'
           /\ disposed' \subseteq r.disposed \cup {k}
           /\ disposed' # r.disposed => PendingOn(k) # {}
<1> DEFINE hit == Rejected(k)
           uses == {c \in hit : caller[c].at # "probe"}
           next == [c \in hit |-> Refused[caller[c].at]]
           q == IF dead /\ uses # {} THEN Dispose(r, Dropped(k, r.runner)) ELSE r
<1>1. MoveOn(next, q) /\ reranking' \in BOOLEAN
  BY DEF Fail
<1>2. DOMAIN next \subseteq Callers /\ \A c \in DOMAIN next : next[c] \in Phases
  BY DEF Rejected, PendingOn, Refused, Asking, Phases
<1>3. /\ Sound(q, left)
      /\ q.disposed \subseteq r.disposed \cup {k}
      /\ q.disposed # r.disposed => PendingOn(k) # {}
  <2>1. CASE dead /\ uses # {}
    <3>1. q = Dispose(r, k) /\ PendingOn(k) # {}
      BY <2>1 DEF Dropped, Rejected
    <3>2. Sound(Dispose(r, k), left) /\ Dispose(r, k).disposed = r.disposed \cup {k}
      BY DisposeIsSound
    <3> QED
      BY <3>1, <3>2
  <2>2. CASE ~(dead /\ uses # {})
    BY <2>2
  <2> QED
    BY <2>1, <2>2
<1> HIDE DEF q, next, uses, hit
<1>4. IInv' /\ disposed' = q.disposed
  BY <1>1, <1>2, <1>3, MoveOnKeeps
<1> QED
  BY <1>3, <1>4

\* One caller moves on from the state as it is.
LEMMA CallerKeeps ==
    ASSUME IInv, NEW c \in Callers, NEW to \in Phases,
           MoveOn([x \in {c} |-> to], Resumable), up' = Spawned(up),
           closed' = closed, reranking' \in BOOLEAN, crashes' \in 0..MaxCrashes
    PROVE  IInv' /\ disposed' = disposed
<1> DEFINE next == [x \in {c} |-> to]
<1>1. DOMAIN next \subseteq Callers /\ \A x \in DOMAIN next : next[x] \in Phases
  OBVIOUS
<1>2. Sound(Resumable, up) /\ Resumable.disposed = disposed
  BY ResumableIsSound DEF Resumable
<1>3. MoveOn(next, Resumable)
  OBVIOUS
<1> HIDE DEF next
<1> QED
  BY <1>1, <1>2, <1>3, MoveOnKeeps

\* A runner goes away with its thread left to end: what an idle unload and a
\* stop do.
LEMMA DropKeeps ==
    ASSUME IInv, runner' = 0, disposed' = disposed \cup ({runner} \ {0}),
           worker' = [k \in DOMAIN worker |-> IF k \in {runner} \ {0} THEN 0 ELSE worker[k]],
           thread' = thread, up' = up, caller' = caller, crashes' = crashes,
           reranking' = reranking, armed' \in BOOLEAN, closed' \in BOOLEAN
    PROVE  IInv'
<1>a. /\ Len(worker) \in Nat /\ Len(thread) \in Nat
      /\ DOMAIN worker = 1..Len(worker) /\ DOMAIN thread = 1..Len(thread)
      /\ \A i \in 1..Len(worker) : worker[i] \in 0..Len(thread)
      /\ \A i \in 1..Len(thread) : thread[i] \in 1..Len(worker)
  BY Shape DEF IInv
<1>1. /\ worker' \in Seq(0..Len(thread)) /\ Len(worker') = Len(worker)
      /\ DOMAIN worker' = 1..Len(worker)
      /\ \A i \in 1..Len(worker) : worker'[i] = IF i = runner THEN 0 ELSE worker[i]
  <2>1. \A i \in 1..Len(worker) : worker'[i] = IF i = runner THEN 0 ELSE worker[i]
    BY <1>a
  <2>2. worker' \in [1..Len(worker) -> 0..Len(thread)]
    BY <1>a
  <2>3. worker' \in Seq(0..Len(thread))
    BY <2>2, <1>a, SeqDef
  <2>4. DOMAIN worker' = 1..Len(worker')
    BY <2>3, SeqIsFun
  <2>5. Len(worker') = Len(worker)
    BY <2>2, <2>3, <1>a, LenProperties
  <2> QED
    BY <2>1, <2>3, <2>4, <2>5
<1>2. /\ runner' \in 0..Len(worker') /\ disposed' \subseteq DOMAIN worker'
      /\ \A j \in disposed' : worker'[j] = 0
  BY <1>1, <1>a DEF IInv, TypeOK
<1>3. thread' \in Seq(DOMAIN worker') /\ up' \subseteq DOMAIN thread'
  BY <1>1, <1>a DEF IInv, TypeOK
<1>4. /\ caller' \in [Callers -> [at: Phases, on: 0..Len(worker')]]
      /\ \A c \in Callers : caller'[c].at \in Asking <=> caller'[c].on # 0
  BY <1>1 DEF IInv, TypeOK
<1>5. reranking' \in BOOLEAN /\ crashes' \in 0..MaxCrashes
  BY DEF IInv, TypeOK
<1>6. TypeOK'
  BY <1>1, <1>2, <1>3, <1>4, <1>5 DEF TypeOK
<1>7. NoOrphanThread'
  <2> SUFFICES ASSUME NEW t \in up PROVE thread[t] \in disposed'
    BY DEF NoOrphanThread
  <2>1. thread[t] \in 1..Len(worker)
    BY <1>a DEF IInv, TypeOK
  <2> QED
    BY <2>1, <1>a DEF IInv, NoOrphanThread
<1> QED
  BY <1>6, <1>7 DEF IInv, IdleWindowCovers

\* What a step may do to the disposed runners.
Disposing == \A k \in disposed' \ disposed :
    \/ armed /\ ~armed'
    \/ crashes' > crashes /\ PendingOn(k) # {}

\* Every step keeps the invariant, and disposes for a reason.
LEMMA StepKeeps == IInv /\ [Next]_vars => IInv' /\ Disposing
<1> SUFFICES ASSUME IInv, [Next]_vars PROVE IInv' /\ Disposing
  OBVIOUS
<1>a. /\ Len(worker) \in Nat /\ Len(thread) \in Nat
      /\ DOMAIN worker = 1..Len(worker) /\ DOMAIN thread = 1..Len(thread)
      /\ \A i \in 1..Len(worker) : worker[i] \in 0..Len(thread)
      /\ \A i \in 1..Len(thread) : thread[i] \in 1..Len(worker)
  BY Shape DEF IInv
<1>b. reranking \in BOOLEAN /\ armed \in BOOLEAN /\ closed \in BOOLEAN /\ crashes \in 0..MaxCrashes
  BY DEF IInv, TypeOK
<1>c. \A t \in up : t \in 1..Len(thread) /\ thread[t] \in 1..Len(worker)
  BY <1>a DEF IInv, TypeOK
<1>1. ASSUME NEW c \in Searches, Search(c) PROVE IInv' /\ Disposing
  <2>1. PICK at \in {"plain", "embed"} : MoveOn([x \in {c} |-> at], Resumable)
    BY <1>1 DEF Search
  <2>2. c \in Callers /\ at \in Phases
    BY DEF Callers, Phases, Asking
  <2> QED
    BY <1>1, <1>b, <2>1, <2>2, CallerKeeps DEF Search, Disposing
<1>2. ASSUME NEW c \in Ingests, IngestEmbed(c) PROVE IInv' /\ Disposing
  <2>1. c \in Callers /\ "plain" \in Phases
    BY DEF Callers, Phases, Asking
  <2> QED
    BY <1>2, <1>b, <2>1, CallerKeeps DEF IngestEmbed, Disposing
<1>3. ASSUME NEW c \in Probes, ReportMemory(c) PROVE IInv' /\ Disposing
  <2>1. UNCHANGED <<runner, worker, disposed, thread, up, reranking, armed, closed, crashes>>
    BY <1>3 DEF ReportMemory
  <2>2. /\ caller' \in [Callers -> [at: Phases, on: 0..Len(worker)]]
        /\ \A d \in Callers : caller'[d].at \in Asking <=> caller'[d].on # 0
    BY <1>3, <1>a DEF ReportMemory, IInv, TypeOK, Phases, Asking
  <2>3. TypeOK'
    BY <2>1, <2>2 DEF IInv, TypeOK
  <2> QED
    BY <2>1, <2>3 DEF IInv, NoOrphanThread, IdleWindowCovers, Disposing
<1>4. ASSUME NEW c \in Callers, Answer(c) PROVE IInv' /\ Disposing
  <2>1. PICK to \in Answered[caller[c].at] : MoveOn([x \in {c} |-> to], Resumable)
    BY <1>4 DEF Answer
  <2>2. to \in Phases
    BY <1>4 DEF Answer, Answered, Phases, Asking
  <2> QED
    BY <1>4, <1>b, <2>1, <2>2, CallerKeeps DEF Answer, Disposing
<1>5. ASSUME NEW c \in Callers, AnswerError(c) PROVE IInv' /\ Disposing
  <2>1. /\ MoveOn([x \in {c} |-> Refused[caller[c].at]], Resumable)
        /\ up' = Spawned(up) /\ closed' = closed /\ reranking' \in BOOLEAN
    BY <1>5, <1>b DEF AnswerError
  <2>2. Refused[caller[c].at] \in Phases
    BY <1>5 DEF AnswerError, Refused, Phases, Asking
  <2>3. crashes' \in 0..MaxCrashes
    BY <1>5, <1>b, CrashesAssumption DEF AnswerError
  <2> QED
    BY <2>1, <2>2, <2>3, CallerKeeps DEF Disposing
<1>6. ASSUME NEW t \in up, WorkerError(t) PROVE IInv' /\ Disposing
  <2>1. crashes' = crashes + 1 /\ crashes' \in 0..MaxCrashes /\ crashes' > crashes
    BY <1>6, <1>b, CrashesAssumption DEF WorkerError
  <2>2. PICK dead \in BOOLEAN : Fail(thread[t], Resumable, dead)
    BY <1>6 DEF WorkerError
  <2>3. Sound(Resumable, up) /\ Resumable.disposed = disposed
    BY ResumableIsSound DEF Resumable
  <2>4. up' = Spawned(up) /\ closed' = closed
    BY <1>6 DEF WorkerError
  <2>5. /\ IInv'
        /\ disposed' \subseteq disposed \cup {thread[t]}
        /\ disposed' # disposed => PendingOn(thread[t]) # {}
    BY <2>1, <2>2, <2>3, <2>4, <1>c, FailKeeps
  <2> QED
    BY <2>1, <2>5 DEF Disposing
<1>7. ASSUME NEW t \in up, Exit(t) PROVE IInv' /\ Disposing
  <2> DEFINE k == thread[t]
             r == [Resumable EXCEPT !.worker[k] = 0]
             left == up \ {t}
  <2>1. crashes' = crashes + 1 /\ crashes' \in 0..MaxCrashes /\ crashes' > crashes
    BY <1>7, <1>b, CrashesAssumption DEF Exit
  <2>2. Fail(k, r, TRUE) /\ up' = Spawned(left) /\ closed' = closed /\ worker[k] = t
    BY <1>7 DEF Exit
  <2>3. r.runner = runner /\ r.disposed = disposed /\ r.worker = [worker EXCEPT ![k] = 0]
    BY DEF Resumable
  <2>4. k \in 1..Len(worker)
    BY <1>c
  <2> HIDE DEF r, k
  <2>5. /\ r.worker \in Seq(0..Len(thread)) /\ Len(r.worker) = Len(worker)
        /\ \A i \in 1..Len(worker) : r.worker[i] = IF i = k THEN 0 ELSE worker[i]
    <3>1. worker \in Seq(0..Len(thread)) /\ 0 \in 0..Len(thread)
      BY <1>a DEF IInv, TypeOK
    <3> QED
      BY <3>1, <2>3, <2>4, ExceptIsFun
  <2>6. Sound(r, left)
    <3>1. \A u \in left : \/ thread[u] = r.runner /\ r.worker[r.runner] = u
                          \/ thread[u] \in r.disposed
      <4> SUFFICES ASSUME NEW u \in left, thread[u] \notin r.disposed
                   PROVE  thread[u] = r.runner /\ r.worker[r.runner] = u
        OBVIOUS
      <4>1. thread[u] = runner /\ worker[runner] = u /\ runner \in 1..Len(worker)
        BY <2>3, <1>c DEF IInv, NoOrphanThread
      <4>2. runner # k
        BY <4>1, <2>2
      <4> QED
        BY <4>1, <4>2, <2>3, <2>5
    <3>2. /\ r.runner \in {0, runner}
          /\ r.runner # 0 => r.runner \notin r.disposed
          /\ r.disposed \subseteq DOMAIN worker
          /\ \A j \in r.disposed : r.worker[j] = 0
          /\ left \subseteq DOMAIN thread
      BY <2>3, <2>5, <1>a DEF IInv, TypeOK
    <3> HIDE DEF left
    <3> QED
      BY <3>1, <3>2, <2>5 DEF Sound
  <2> HIDE DEF left
  <2>7. /\ IInv'
        /\ disposed' \subseteq disposed \cup {k}
        /\ disposed' # disposed => PendingOn(k) # {}
    BY <2>1, <2>2, <2>3, <2>4, <2>6, FailKeeps
  <2> QED
    BY <2>1, <2>7 DEF Disposing
<1>8. ASSUME NEW t \in up, Terminated(t) PROVE IInv' /\ Disposing
  <2>1. thread[t] \in disposed
    BY <1>8 DEF Terminated, IInv, NoOrphanThread
  <2>2. Sound(Resumable, up \ {t}) /\ Resumable.disposed = disposed
    BY ResumableIsSound DEF Resumable
  <2>3. /\ Fail(thread[t], Resumable, TRUE) /\ up' = Spawned(up \ {t})
        /\ closed' = closed /\ crashes' \in 0..MaxCrashes
    BY <1>8, <1>b DEF Terminated
  <2>4. IInv' /\ disposed' \subseteq disposed \cup {thread[t]}
    BY <2>2, <2>3, <1>c, FailKeeps
  <2> QED
    BY <2>1, <2>4 DEF Disposing
<1>9. CASE Unload
  <2>1. IInv'
    BY <1>9, <1>b, DropKeeps DEF Unload, Unloaded
  <2> QED
    BY <1>9, <2>1 DEF Unload, Disposing
<1>10. CASE Close
  <2>1. worker' = [k \in DOMAIN worker |-> IF k \in {runner} \ {0} THEN 0 ELSE worker[k]]
    BY <1>10, <1>a DEF Close
  <2>2. IInv'
    BY <1>10, <1>b, <2>1, DropKeeps DEF Close
  <2>3. disposed' \ disposed # {} => armed /\ ~armed'
    BY <1>10 DEF Close, IInv, IdleWindowCovers
  <2> QED
    BY <2>2, <2>3 DEF Disposing
<1>11. CASE UNCHANGED vars
  BY <1>11 DEF vars, IInv, TypeOK, NoOrphanThread, IdleWindowCovers, Disposing
<1> QED
  BY <1>1, <1>2, <1>3, <1>4, <1>5, <1>6, <1>7, <1>8, <1>9, <1>10, <1>11 DEF Next

\* The state stays one the worker, its runners and its callers agree on.
THEOREM TypeCorrect == Spec => []TypeOK
<1>1. IInv => TypeOK
  BY DEF IInv
<1> QED
  BY InitHolds, StepKeeps, <1>1, PTL DEF Spec

\* No thread leaks: one that runs is the current runner's, or its runner was
\* disposed and the thread is about to end.
THEOREM ThreadsAreOwned == Spec => []NoOrphanThread
<1>1. IInv => NoOrphanThread
  BY DEF IInv
<1> QED
  BY InitHolds, StepKeeps, <1>1, PTL DEF Spec

\* A runner in place is always going to be unloaded.
THEOREM RunnersAreUnloaded == Spec => []IdleWindowCovers
<1>1. IInv => IdleWindowCovers
  BY DEF IInv
<1> QED
  BY InitHolds, StepKeeps, <1>1, PTL DEF Spec

\* A job that fails on an old runner takes no replacement down.
THEOREM ReplacementsSurvive == Spec => ReplacementSurvives
<1>1. IInv /\ [Next]_vars => [Disposing]_vars
  BY StepKeeps
<1> QED
  BY InitHolds, StepKeeps, <1>1, PTL DEF Spec, ReplacementSurvives, Disposing
=============================================================================
