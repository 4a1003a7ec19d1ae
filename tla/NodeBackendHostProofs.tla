------------------------- MODULE NodeBackendHostProofs -------------------------
(***************************************************************************)
(* What a host that stops and starts over one engine guarantees for every  *)
(* number of queries, GPU tests and lives, also when flights of earlier    *)
(* lives are still under way: a stopped host has no model, and nothing of  *)
(* an earlier life loads or generates.                                     *)
(***************************************************************************)
EXTENDS NodeBackendHost, SequenceTheorems, TLAPS

\* Where an operation has a place in the engine's queue.
QueuePlaces == {"queued", "belt", "releasing", "loading", "generating", "freeing"}

Places == QueuePlaces \cup {"idle", "gate", "retrieving"}

OpRecords == [kind : {"none", "query", "external", "warmup", "release"},
              pc : Places,
              gen : Nat, profile : Profiles, backend : {"cpu", "gpu", "bypass"}]

Types ==
    /\ ops \in [Ops -> OpRecords]
    /\ queue \in Seq(Ops)
    /\ generation \in Nat
    /\ stopped \in BOOLEAN
    /\ DOMAIN call = Callers /\ waits \in [Callers -> SUBSET Ops]
    /\ host \in {"down", "starting", "up", "stopping", "draining", "unloading"}
    /\ gate \in {"armed", "settled"}
    /\ life \in 0..MaxLives
    /\ DOMAIN boot = Lives

\* The queue holds each operation that has a place in it once, and only its
\* head is under way.
Ordered ==
    /\ \A i, j \in 1..Len(queue) : queue[i] = queue[j] => i = j
    /\ \A o \in Ops : ops[o].pc \in QueuePlaces <=> \E i \in 1..Len(queue) : queue[i] = o
    /\ \A i \in 2..Len(queue) : ops[queue[i]].pc = "queued"

\* A query or warmup with a place in the queue; of a life, unless it is a
\* query that is still going to be checked.
InUse(o) == UsesModel(o) /\ ops[o].pc \in QueuePlaces
OfThisLife(o) == InUse(o) /\ (ops[o].kind = "warmup" \/ ops[o].pc # "queued")

\* Operations and the generation they captured.
Captured ==
    \A o \in Ops :
        /\ Loading(o) => UsesModel(o)
        /\ ops[o].pc = "idle" => ~UsesModel(o)
        /\ ops[o].pc = "retrieving" => ops[o].kind # "warmup"
        /\ ops[o].gen <= generation
        /\ host \notin {"up", "stopping", "draining"} /\ ops[o].kind = "query"
              => ops[o].gen < generation
        /\ host # "unloading" /\ OfThisLife(o) => ops[o].gen = generation

\* The dispose of a stop waits for whatever may still use the model.
Unloads ==
    host = "unloading" =>
        /\ stopped
        /\ \/ call[Stop] = "drain" /\ \A o \in Ops : InUse(o) => o \in waits[Stop]
           \/ /\ call[Stop] \in {"free", "disposed"} /\ resident = NoModel
              /\ \A o \in Ops : ~InUse(o)

Unloaded ==
    host \in {"down", "starting"} => resident = NoModel /\ \A o \in Ops : ~InUse(o)

\* A host that is down or starting lets nothing through the gate.
Shut ==
    host \in {"down", "starting"} =>
        \/ host = "down" /\ stopped
        \/ life \in Lives /\ Armed /\ boot[life].pc = "none"
        \/ life = 0

\* No life has begun its boot before its start, and nothing happens before
\* the first one.
InTurn ==
    /\ \A l \in Lives : l > life => boot[l].pc = "none"
    /\ life = 0 => /\ host = "down"
                   /\ \A f \in Flights : tests[f].pc = "none"
                   /\ \A o \in Ops : ops[o] = Idle

Core == Types /\ Ordered /\ Captured /\ Unloads /\ Unloaded
IInv == Core /\ Shut /\ InTurn

-----------------------------------------------------------------------------
(* The queue.                                                              *)

LEMMA IdleIsARecord == Idle \in OpRecords /\ Idle.pc = "idle" /\ Idle.kind = "none" /\ Idle.gen = 0
  BY DEF Idle, OpRecords, Places, Profiles

\* An operation that is under way in the queue is its head.
LEMMA UnderWayIsHead ==
    ASSUME Types, Ordered, NEW o \in Ops,
           ops[o].pc \in QueuePlaces \ {"queued"}
    PROVE  AtHead(o)
<1>1. PICK i \in 1..Len(queue) : queue[i] = o
  BY DEF Ordered
<1>2. i = 1
  <2>1. Len(queue) \in Nat
    BY LenProperties DEF Types
  <2>2. i \notin 2..Len(queue)
    BY <1>1 DEF Ordered
  <2> QED
    BY <2>1, <2>2
<1>3. queue # <<>>
  <2>1. Len(queue) # 0
    BY <1>1, <1>2
  <2> QED
    BY <2>1, EmptySeq
<1> QED
  BY <1>1, <1>2, <1>3 DEF AtHead, Types

LEMMA HeadHasAPlace ==
    ASSUME Types, Ordered, NEW o \in Ops, AtHead(o)
    PROVE  ops[o].pc \in QueuePlaces /\ queue # <<>> /\ queue[1] = o /\ 1 \in 1..Len(queue)
<1>1. queue # <<>> /\ queue[1] = o
  BY DEF AtHead, Types
<1>2. Len(queue) \in Nat /\ Len(queue) # 0
  BY <1>1, LenProperties, EmptySeq DEF Types
<1> QED
  BY <1>1, <1>2 DEF Ordered

\* An operation moves within the queue's head, or outside the queue.
LEMMA MoveKeepsOrder ==
    ASSUME Types, Ordered, NEW o \in Ops, NEW r \in OpRecords,
           ops' = [ops EXCEPT ![o] = r], queue' = queue,
           \/ AtHead(o) /\ r.pc \in QueuePlaces
           \/ ops[o].pc \notin QueuePlaces /\ r.pc \notin QueuePlaces
    PROVE  Ordered' /\ queue' \in Seq(Ops) /\ ops' \in [Ops -> OpRecords]
<1>1. /\ ops' \in [Ops -> OpRecords] /\ ops'[o] = r
      /\ \A x \in Ops : x # o => ops'[x] = ops[x]
  BY DEF Types
<1>2. \A x \in Ops : ops'[x].pc \in QueuePlaces <=> ops[x].pc \in QueuePlaces
  BY <1>1, HeadHasAPlace
<1>3. Len(queue) \in Nat /\ \A i \in 1..Len(queue) : queue[i] \in Ops
  BY LenProperties, ElementOfSeq DEF Types
<1>4. ASSUME NEW i \in 2..Len(queue) PROVE ops'[queue[i]].pc = "queued"
  <2>1. i \in 1..Len(queue) /\ ops[queue[i]].pc = "queued" /\ queue[i] \in Ops
    BY <1>3 DEF Ordered
  <2>2. queue[i] # o
    <3>1. CASE AtHead(o)
      <4>1. queue[1] = o /\ 1 \in 1..Len(queue) /\ i # 1
        BY <3>1, HeadHasAPlace, <1>3
      <4> QED
        BY <2>1, <4>1 DEF Ordered
    <3>2. CASE ops[o].pc \notin QueuePlaces
      BY <2>1, <3>2 DEF QueuePlaces
    <3> QED
      BY <3>1, <3>2
  <2> QED
    BY <1>1, <2>1, <2>2
<1> QED
  BY <1>1, <1>2, <1>4 DEF Ordered, Types

\* An operation is chained on the queue.
LEMMA EnqueueKeepsOrder ==
    ASSUME Types, Ordered, NEW o \in Ops, NEW r \in OpRecords,
           ops' = [ops EXCEPT ![o] = r], queue' = Append(queue, o),
           ops[o].pc \notin QueuePlaces, r.pc = "queued"
    PROVE  Ordered' /\ queue' \in Seq(Ops) /\ ops' \in [Ops -> OpRecords]
<1>1. /\ ops' \in [Ops -> OpRecords] /\ ops'[o] = r
      /\ \A x \in Ops : x # o => ops'[x] = ops[x]
  BY DEF Types
<1>2. /\ queue' \in Seq(Ops) /\ Len(queue') = Len(queue) + 1 /\ queue'[Len(queue) + 1] = o
      /\ \A i \in 1..Len(queue) : queue'[i] = queue[i]
      /\ Len(queue) \in Nat
  BY AppendProperties, LenProperties DEF Types
<1>3. \A i \in 1..Len(queue) : queue[i] \in Ops /\ queue[i] # o
  BY ElementOfSeq DEF Types, Ordered
<1>4. \A i \in 1..Len(queue') : i \in 1..Len(queue) \/ i = Len(queue) + 1
  BY <1>2
<1>5. \A i, j \in 1..Len(queue') : queue'[i] = queue'[j] => i = j
  BY <1>2, <1>3, <1>4 DEF Ordered
<1>6. ASSUME NEW x \in Ops
      PROVE  ops'[x].pc \in QueuePlaces <=> \E i \in 1..Len(queue') : queue'[i] = x
  <2>1. CASE x = o
    <3>1. Len(queue) + 1 \in 1..Len(queue')
      BY <1>2
    <3> QED
      BY <1>1, <1>2, <2>1, <3>1 DEF QueuePlaces
  <2>2. CASE x # o
    <3>1. ops'[x].pc \in QueuePlaces <=> \E i \in 1..Len(queue) : queue[i] = x
      BY <1>1, <2>2 DEF Ordered
    <3>2. \A i \in 1..Len(queue) : i \in 1..Len(queue')
      BY <1>2
    <3> QED
      BY <1>2, <1>4, <2>2, <3>1, <3>2
  <2> QED
    BY <2>1, <2>2
<1>7. ASSUME NEW i \in 2..Len(queue') PROVE ops'[queue'[i]].pc = "queued"
  <2>1. CASE i \in 2..Len(queue)
    <3>1. i \in 1..Len(queue)
      BY <1>2, <2>1
    <3> QED
      BY <1>1, <1>2, <1>3, <2>1, <3>1 DEF Ordered
  <2>2. CASE i = Len(queue) + 1
    BY <1>1, <1>2, <2>2
  <2> QED
    BY <1>2, <2>1, <2>2
<1> QED
  BY <1>1, <1>2, <1>5, <1>6, <1>7 DEF Ordered

\* The head leaves the queue.
LEMMA LeaveKeepsOrder ==
    ASSUME Types, Ordered, NEW o \in Ops, NEW r \in OpRecords,
           ops' = [ops EXCEPT ![o] = r], queue' = Tail(queue),
           AtHead(o), r.pc \notin QueuePlaces
    PROVE  Ordered' /\ queue' \in Seq(Ops) /\ ops' \in [Ops -> OpRecords]
<1>1. /\ ops' \in [Ops -> OpRecords] /\ ops'[o] = r
      /\ \A x \in Ops : x # o => ops'[x] = ops[x]
  BY DEF Types
<1>2. queue # <<>> /\ queue[1] = o /\ 1 \in 1..Len(queue)
  BY HeadHasAPlace
<1>3. /\ queue' \in Seq(Ops) /\ Len(queue') = Len(queue) - 1 /\ Len(queue) \in Nat
      /\ \A i \in 1..Len(queue') : queue'[i] = queue[i + 1]
  BY <1>2, HeadTailProperties, LenProperties DEF Types
<1>4. \A i \in 1..Len(queue') : i + 1 \in 1..Len(queue) /\ i + 1 \in 2..Len(queue) /\ i + 1 # 1
  BY <1>3
<1>5. \A i \in 1..Len(queue) : i = 1 \/ (i - 1 \in 1..Len(queue') /\ (i - 1) + 1 = i)
  BY <1>3
<1>6. \A i, j \in 1..Len(queue') : queue'[i] = queue'[j] => i = j
  <2>1. ASSUME NEW i \in 1..Len(queue'), NEW j \in 1..Len(queue'), queue'[i] = queue'[j]
        PROVE  i = j
    <3>1. i + 1 = j + 1
      BY <1>3, <1>4, <2>1 DEF Ordered
    <3> QED
      BY <3>1
  <2> QED
    BY <2>1
<1>7. \A i \in 1..Len(queue') : queue'[i] # o /\ queue'[i] \in Ops
  <2>1. ASSUME NEW i \in 1..Len(queue') PROVE queue'[i] # o
    BY <1>2, <1>3, <1>4 DEF Ordered
  <2> QED
    BY <1>3, <2>1, ElementOfSeq
<1>8. ASSUME NEW x \in Ops
      PROVE  ops'[x].pc \in QueuePlaces <=> \E i \in 1..Len(queue') : queue'[i] = x
  <2>1. CASE x = o
    BY <1>1, <1>7, <2>1
  <2>2. CASE x # o
    <3>1. ops'[x].pc \in QueuePlaces <=> \E i \in 1..Len(queue) : queue[i] = x
      BY <1>1, <2>2 DEF Ordered
    <3>2. ASSUME NEW i \in 1..Len(queue), queue[i] = x
          PROVE  \E j \in 1..Len(queue') : queue'[j] = x
      <4>1. i # 1
        BY <1>2, <2>2, <3>2
      <4>2. i - 1 \in 1..Len(queue') /\ queue'[i - 1] = queue[(i - 1) + 1] /\ (i - 1) + 1 = i
        BY <1>3, <1>5, <4>1
      <4> QED
        BY <3>2, <4>2
    <3>3. ASSUME NEW i \in 1..Len(queue'), queue'[i] = x
          PROVE  \E j \in 1..Len(queue) : queue[j] = x
      BY <1>3, <1>4, <3>3
    <3> QED
      BY <3>1, <3>2, <3>3
  <2> QED
    BY <2>1, <2>2
<1>9. ASSUME NEW i \in 2..Len(queue') PROVE ops'[queue'[i]].pc = "queued"
  <2>1. i \in 1..Len(queue')
    BY <1>3
  <2>2. ops[queue'[i]].pc = "queued"
    BY <1>3, <1>4, <2>1 DEF Ordered
  <2> QED
    BY <1>1, <1>7, <2>1, <2>2
<1> QED
  BY <1>1, <1>3, <1>6, <1>8, <1>9 DEF Ordered

-----------------------------------------------------------------------------
(* Operations.                                                             *)

\* What operation o may become, r, in the life the host is in.
Admissible(o, r) ==
    LET use == r.kind \in {"query", "warmup"} /\ r.pc \in QueuePlaces IN
    /\ r.pc \in {"belt", "releasing", "loading"} => r.kind \in {"query", "warmup"}
    /\ r.pc = "idle" => r.kind \notin {"query", "warmup"}
    /\ r.pc = "retrieving" => r.kind # "warmup"
    /\ r.gen <= generation
    /\ host \notin {"up", "stopping", "draining"} /\ r.kind = "query" => r.gen < generation
    /\ host # "unloading" /\ use /\ (r.kind = "warmup" \/ r.pc # "queued") => r.gen = generation
    /\ use => host \notin {"down", "starting"} /\ (host = "unloading" => InUse(o))

\* One operation changes, and nobody but an operation in use fills the model in.
LEMMA OpStep ==
    ASSUME Types, Captured, Unloads, Unloaded, NEW o \in Ops, NEW r \in OpRecords,
           ops' = [ops EXCEPT ![o] = r], Admissible(o, r),
           UNCHANGED <<generation, stopped, host>>, call'[Stop] = call[Stop],
           call[Stop] = "drain" =>
               \A x \in Ops : x \in waits[Stop] =>
                   x \in waits'[Stop] \/ (x = o /\ r.pc \notin QueuePlaces),
           resident' = resident \/ resident' = NoModel \/ InUse(o)
    PROVE  Captured' /\ Unloads' /\ Unloaded'
<1>1. ops'[o] = r /\ \A x \in Ops : x # o => ops'[x] = ops[x]
  BY DEF Types
<1>2. Captured'
  <2>1. ASSUME NEW x \in Ops
        PROVE  /\ (Loading(x) => UsesModel(x))'
               /\ (ops[x].pc = "idle" => ~UsesModel(x))'
               /\ (ops[x].pc = "retrieving" => ops[x].kind # "warmup")'
               /\ (ops[x].gen <= generation)'
               /\ (host \notin {"up", "stopping", "draining"} /\ ops[x].kind = "query"
                     => ops[x].gen < generation)'
               /\ (host # "unloading" /\ OfThisLife(x) => ops[x].gen = generation)'
    <3>1. CASE x = o
      BY <1>1, <3>1 DEF Admissible, Loading, UsesModel, OfThisLife, InUse
    <3>2. CASE x # o
      BY <1>1, <3>2 DEF Captured, Loading, UsesModel, OfThisLife, InUse
    <3> QED
      BY <3>1, <3>2
  <2> QED
    BY <2>1 DEF Captured
<1>3. \A x \in Ops : InUse(x)' => InUse(x) \/ (x = o /\ host \notin {"down", "starting", "unloading"})
  BY <1>1 DEF Admissible, InUse, UsesModel
<1>4. Unloads'
  <2>1. SUFFICES ASSUME host = "unloading"
                 PROVE  \/ call[Stop] = "drain" /\ \A x \in Ops : InUse(x)' => x \in waits'[Stop]
                        \/ /\ call[Stop] \in {"free", "disposed"} /\ resident' = NoModel
                           /\ \A x \in Ops : ~InUse(x)'
    BY DEF Unloads
  <2>2. CASE call[Stop] = "drain" /\ \A x \in Ops : InUse(x) => x \in waits[Stop]
    <3>1. ASSUME NEW x \in Ops, InUse(x)' PROVE x \in waits'[Stop]
      <4>1. x \in waits[Stop] /\ ~(x = o /\ r.pc \notin QueuePlaces)
        BY <1>1, <1>3, <2>1, <2>2, <3>1 DEF InUse
      <4> QED
        BY <2>2, <4>1
    <3> QED
      BY <2>2, <3>1
  <2>3. CASE /\ call[Stop] \in {"free", "disposed"} /\ resident = NoModel
             /\ \A x \in Ops : ~InUse(x)
    BY <1>3, <2>1, <2>3
  <2> QED
    BY <2>1, <2>2, <2>3 DEF Unloads
<1>5. Unloaded'
  BY <1>3 DEF Unloaded
<1> QED
  BY <1>2, <1>4, <1>5

\* No operation changes.
LEMMA OpsStay ==
    ASSUME Captured, Unloads, Unloaded, UNCHANGED <<ops, generation, stopped, host>>,
           host = "unloading" =>
               /\ call'[Stop] = call[Stop] \/ (call[Stop] = "free" /\ call'[Stop] = "disposed")
               /\ waits'[Stop] = waits[Stop],
           resident' = resident \/ resident' = NoModel
    PROVE  Captured' /\ Unloads' /\ Unloaded'
<1>1. \A x \in Ops : (InUse(x)' <=> InUse(x)) /\ (UsesModel(x)' <=> UsesModel(x))
                     /\ (Loading(x)' <=> Loading(x)) /\ (OfThisLife(x)' <=> OfThisLife(x))
  BY DEF InUse, UsesModel, Loading, OfThisLife
<1>2. Captured'
  BY <1>1 DEF Captured
<1>3. Unloads'
  BY <1>1 DEF Unloads
<1>4. Unloaded'
  BY <1>1 DEF Unloaded
<1> QED
  BY <1>2, <1>3, <1>4

\* What the rest of the host reads stays.
LEMMA HostStays ==
    ASSUME Shut, InTurn, UNCHANGED <<host, stopped, gate, life, boot, tests>>,
           \/ UNCHANGED ops
           \/ \E x \in Ops : ops[x] # Idle
           \/ host # "down"
    PROVE  Shut' /\ InTurn'
  BY DEF Shut, InTurn, Armed

\* An operation that settles leaves the queue, if it is there, and everybody
\* who waits for it.
LEMMA Settles ==
    ASSUME Types, Ordered, NEW o \in Ops, Settle(o),
           ops[o].pc \in QueuePlaces => AtHead(o)
    PROVE  /\ ops' = [ops EXCEPT ![o] = Idle] /\ Ordered'
           /\ queue' \in Seq(Ops) /\ ops' \in [Ops -> OpRecords] /\ waits' \in [Callers -> SUBSET Ops]
           /\ \A x \in Ops : x \in waits[Stop] => x \in waits'[Stop] \/ x = o
<1>1. /\ ops' = [ops EXCEPT ![o] = Idle]
      /\ queue' = IF AtHead(o) THEN Tail(queue) ELSE queue
      /\ waits' = [c \in Callers |-> waits[c] \ {o}]
  BY DEF Settle
<1>2. waits' \in [Callers -> SUBSET Ops] /\ waits'[Stop] = waits[Stop] \ {o}
  BY <1>1 DEF Types, Callers
<1>3. Idle \in OpRecords /\ Idle.pc \notin QueuePlaces
  BY IdleIsARecord DEF QueuePlaces
<1>4. CASE AtHead(o)
  BY <1>1, <1>2, <1>3, <1>4, LeaveKeepsOrder
<1>5. CASE ~AtHead(o)
  BY <1>1, <1>2, <1>3, <1>5, MoveKeepsOrder
<1> QED
  BY <1>4, <1>5

LEMMA IdleIsAdmissible ==
    ASSUME Types, Captured, NEW o \in Ops
    PROVE  Admissible(o, Idle)
  BY IdleIsARecord DEF Admissible, Types, QueuePlaces

\* One operation moves, or is chained on the queue.
LEMMA OpKeeps ==
    ASSUME Core, NEW o \in Ops, NEW r \in OpRecords,
           ops' = [ops EXCEPT ![o] = r], Admissible(o, r),
           \/ queue' = queue /\ AtHead(o) /\ r.pc \in QueuePlaces
           \/ queue' = queue /\ ops[o].pc \notin QueuePlaces /\ r.pc \notin QueuePlaces
           \/ queue' = Append(queue, o) /\ ops[o].pc \notin QueuePlaces /\ r.pc = "queued",
           UNCHANGED <<generation, stopped, host, gate, life>>, DOMAIN boot' = Lives,
           DOMAIN call' = Callers, call'[Stop] = call[Stop],
           waits' \in [Callers -> SUBSET Ops],
           call[Stop] = "drain" => waits'[Stop] = waits[Stop],
           resident' = resident \/ resident' = NoModel \/ InUse(o)
    PROVE  Core'
<1>1. Types /\ Ordered /\ Captured /\ Unloads /\ Unloaded
  BY DEF Core
<1>2. Ordered' /\ queue' \in Seq(Ops) /\ ops' \in [Ops -> OpRecords]
  BY <1>1, MoveKeepsOrder, EnqueueKeepsOrder
<1>3. Captured' /\ Unloads' /\ Unloaded'
  BY <1>1, OpStep
<1>4. Types'
  BY <1>1, <1>2 DEF Types
<1> QED
  BY <1>2, <1>3, <1>4 DEF Core

\* One operation settles.
LEMMA SettleKeeps ==
    ASSUME Core, NEW o \in Ops, Settle(o),
           ops[o].pc \in QueuePlaces => AtHead(o),
           UNCHANGED <<generation, stopped, host, gate, life, boot, call>>,
           resident' = resident \/ resident' = NoModel \/ InUse(o)
    PROVE  Core'
<1>1. Types /\ Ordered /\ Captured /\ Unloads /\ Unloaded
  BY DEF Core
<1>2. /\ ops' = [ops EXCEPT ![o] = Idle] /\ Ordered'
      /\ queue' \in Seq(Ops) /\ ops' \in [Ops -> OpRecords] /\ waits' \in [Callers -> SUBSET Ops]
      /\ \A x \in Ops : x \in waits[Stop] => x \in waits'[Stop] \/ x = o
  BY <1>1, Settles
<1>3. Idle \in OpRecords /\ Idle.pc \notin QueuePlaces /\ Admissible(o, Idle)
  BY <1>1, IdleIsARecord, IdleIsAdmissible DEF QueuePlaces
<1>4. Captured' /\ Unloads' /\ Unloaded'
  BY <1>1, <1>2, <1>3, OpStep
<1>5. Types'
  BY <1>1, <1>2 DEF Types
<1> QED
  BY <1>2, <1>4, <1>5 DEF Core

\* Only calls and flags change.
LEMMA CallKeeps ==
    ASSUME Core, UNCHANGED <<ops, queue, generation, stopped, host, life>>,
           gate' \in {"armed", "settled"},
           DOMAIN boot' = Lives, DOMAIN call' = Callers, waits' \in [Callers -> SUBSET Ops],
           host = "unloading" =>
               /\ call'[Stop] = call[Stop] \/ (call[Stop] = "free" /\ call'[Stop] = "disposed")
               /\ waits'[Stop] = waits[Stop],
           resident' = resident \/ resident' = NoModel
    PROVE  Core'
<1>1. Captured' /\ Unloads' /\ Unloaded'
  BY OpsStay DEF Core
<1>2. Types'
  BY DEF Core, Types
<1>3. Ordered'
  BY DEF Core, Ordered
<1> QED
  BY <1>1, <1>2, <1>3 DEF Core

-----------------------------------------------------------------------------
(* The actions of the engine.                                              *)

rest == <<generation, stopped, host, gate, life, boot>>

\* Operation o at another place, with a profile and a backend.
Moved(o, pc, profile, backend) ==
    [kind |-> ops[o].kind, pc |-> pc, gen |-> ops[o].gen, profile |-> profile, backend |-> backend]

\* Only where an operation is matters to what follows.
Becomes(o, pc) ==
    \E r \in OpRecords : /\ ops' = [ops EXCEPT ![o] = r]
                         /\ r.pc = pc /\ r.kind = ops[o].kind /\ r.gen = ops[o].gen

LEMMA MovedIsARecord ==
    ASSUME Core, NEW o \in Ops, NEW pc \in Places,
           NEW profile \in Profiles, NEW backend \in {"cpu", "gpu", "bypass"}
    PROVE  /\ Moved(o, pc, profile, backend) \in OpRecords
           /\ Moved(o, pc, profile, backend).pc = pc
           /\ Moved(o, pc, profile, backend).kind = ops[o].kind
           /\ Moved(o, pc, profile, backend).gen = ops[o].gen
<1>1. ops[o] \in OpRecords
  BY DEF Core, Types
<1> QED
  BY <1>1 DEF Moved, OpRecords

\* An operation goes to another place.
LEMMA Moves ==
    ASSUME Core, NEW o \in Ops, NEW pc \in Places,
           \/ ops' = [ops EXCEPT ![o].pc = pc]
           \/ ops' = [ops EXCEPT ![o] = [ops[o] EXCEPT !.pc = pc]]
    PROVE  Becomes(o, pc)
<1> DEFINE old == ops[o]
           r == Moved(o, pc, old.profile, old.backend)
<1>1. ops \in [Ops -> OpRecords] /\ old \in OpRecords
  BY DEF Core, Types
<1>2. old.profile \in Profiles /\ old.backend \in {"cpu", "gpu", "bypass"}
  BY <1>1 DEF OpRecords
<1>3. [old EXCEPT !.pc = pc] = r
  BY <1>1 DEF OpRecords, Moved
<1>4. ops' = [ops EXCEPT ![o] = [old EXCEPT !.pc = pc]]
  BY <1>1
<1>5. ops' = [ops EXCEPT ![o] = r]
  BY <1>3, <1>4, Zenon
<1>6. r \in OpRecords /\ r.pc = pc /\ r.kind = ops[o].kind /\ r.gen = ops[o].gen
  BY <1>2, MovedIsARecord
<1> HIDE DEF r
<1> QED
  BY <1>5, <1>6 DEF Becomes

\* An operation goes to another place with another profile.
LEMMA MovesWithProfile ==
    ASSUME Core, NEW o \in Ops, NEW pc \in Places,
           NEW profile \in Profiles,
           \/ ops' = [ops EXCEPT ![o].profile = profile, ![o].pc = pc]
           \/ ops' = [ops EXCEPT ![o] = [ops[o] EXCEPT !.profile = profile, !.pc = pc]]
    PROVE  Becomes(o, pc)
<1> DEFINE old == ops[o]
           r == Moved(o, pc, profile, old.backend)
           mid == [old EXCEPT !.profile = profile]
<1>1. ops \in [Ops -> OpRecords] /\ old \in OpRecords
  BY DEF Core, Types
<1>2. old.backend \in {"cpu", "gpu", "bypass"}
  BY <1>1 DEF OpRecords
<1>3. /\ mid \in OpRecords /\ mid.kind = old.kind /\ mid.gen = old.gen
      /\ mid.profile = profile /\ mid.backend = old.backend
  BY <1>1 DEF OpRecords
<1>4. [mid EXCEPT !.pc = pc] = r
  <2> HIDE DEF mid
  <2> QED
    BY <1>3 DEF OpRecords, Moved
<1>5. ops' = [ops EXCEPT ![o] = [mid EXCEPT !.pc = pc]]
  BY <1>1
<1>6. ops' = [ops EXCEPT ![o] = r]
  BY <1>4, <1>5, Zenon
<1>7. r \in OpRecords /\ r.pc = pc /\ r.kind = ops[o].kind /\ r.gen = ops[o].gen
  BY <1>2, MovedIsARecord
<1> HIDE DEF r
<1> QED
  BY <1>6, <1>7 DEF Becomes

\* An operation goes to another place with another backend.
LEMMA MovesWithBackend ==
    ASSUME Core, NEW o \in Ops, NEW pc \in Places,
           NEW backend \in {"cpu", "gpu", "bypass"},
           ops' = [ops EXCEPT ![o].pc = pc, ![o].backend = backend]
    PROVE  Becomes(o, pc)
<1> DEFINE old == ops[o]
           r == Moved(o, pc, old.profile, backend)
           mid == [old EXCEPT !.pc = pc]
<1>1. ops \in [Ops -> OpRecords] /\ old \in OpRecords
  BY DEF Core, Types
<1>2. old.profile \in Profiles
  BY <1>1 DEF OpRecords
<1>3. /\ mid \in OpRecords /\ mid.kind = old.kind /\ mid.gen = old.gen
      /\ mid.profile = old.profile /\ mid.pc = pc
  BY <1>1 DEF OpRecords
<1>4. [mid EXCEPT !.backend = backend] = r
  <2> HIDE DEF mid
  <2> QED
    BY <1>3 DEF OpRecords, Moved
<1>5. ops' = [ops EXCEPT ![o] = [mid EXCEPT !.backend = backend]]
  BY <1>1
<1>6. ops' = [ops EXCEPT ![o] = r]
  BY <1>4, <1>5, Zenon
<1>7. r \in OpRecords /\ r.pc = pc /\ r.kind = ops[o].kind /\ r.gen = ops[o].gen
  BY <1>2, MovedIsARecord
<1> HIDE DEF r
<1> QED
  BY <1>6, <1>7 DEF Becomes

\* An operation stays where it is, with another backend.
LEMMA TriesAnotherBackend ==
    ASSUME Core, NEW o \in Ops, NEW backend \in {"cpu", "gpu", "bypass"},
           ops' = [ops EXCEPT ![o].backend = backend]
    PROVE  Becomes(o, ops[o].pc)
<1> DEFINE r == [ops[o] EXCEPT !.backend = backend]
<1>1. ops \in [Ops -> OpRecords] /\ ops[o] \in OpRecords
  BY DEF Core, Types
<1>2. r \in OpRecords /\ r.pc = ops[o].pc /\ r.kind = ops[o].kind /\ r.gen = ops[o].gen
  BY <1>1 DEF OpRecords
<1>3. ops' = [ops EXCEPT ![o] = r]
  BY <1>1
<1> QED
  BY <1>2, <1>3 DEF Becomes

\* An operation under way in the queue goes on there.
LEMMA GoesOn ==
    ASSUME Core, NEW o \in Ops, AtHead(o), NEW pc \in QueuePlaces \ {"queued"}, Becomes(o, pc),
           UsesModel(o) /\ host # "unloading" => ops[o].gen = generation,
           pc \in {"belt", "releasing", "loading"} => UsesModel(o),
           UNCHANGED <<queue, generation, stopped, host, gate, life, boot, call>>,
           waits' \in [Callers -> SUBSET Ops],
           call[Stop] = "drain" => waits'[Stop] = waits[Stop],
           resident' = resident \/ resident' = NoModel \/ InUse(o)
    PROVE  Core'
<1>1. ops[o].pc \in QueuePlaces
  BY HeadHasAPlace DEF Core
<1>2. PICK r \in OpRecords : ops' = [ops EXCEPT ![o] = r] /\ r.pc = pc
                               /\ r.kind = ops[o].kind /\ r.gen = ops[o].gen
  BY DEF Becomes
<1>3. r.pc = pc /\ r.kind = ops[o].kind /\ r.gen = ops[o].gen
  BY <1>2
<1>4. /\ ops[o].gen <= generation
      /\ host \notin {"up", "stopping", "draining"} /\ ops[o].kind = "query" => ops[o].gen < generation
      /\ UsesModel(o) => InUse(o) /\ host \notin {"down", "starting"}
  BY <1>1 DEF Core, Captured, Unloaded, InUse
<1>5. Admissible(o, r)
  BY <1>3, <1>4 DEF Admissible, UsesModel, QueuePlaces
<1>6. DOMAIN boot' = Lives /\ DOMAIN call' = Callers /\ r.pc \in QueuePlaces
  BY <1>3 DEF Core, Types
<1> QED
  BY <1>2, <1>5, <1>6, OpKeeps

LEMMA ChosenIsARecord ==
    ASSUME Core, NEW o, NEW kind \in {"query", "external", "warmup", "release"},
           NEW profile \in Profiles,
           NEW pc \in Places
    PROVE  /\ Chosen(o, kind, profile, pc) \in OpRecords
           /\ Chosen(o, kind, profile, pc).kind = kind /\ Chosen(o, kind, profile, pc).pc = pc
           /\ Chosen(o, kind, profile, pc).gen = generation
<1>1. generation \in Nat
  BY DEF Core, Types
<1> QED
  BY <1>1, IdleIsARecord DEF Chosen, OpRecords

\* A load begins only for an operation of this life.
LEMMA StartLoadKeeps ==
    ASSUME Core, NEW o \in Ops, AtHead(o), ops[o].pc \in {"queued", "belt"}, UsesModel(o),
           host # "unloading" => ops[o].gen = generation,
           StartLoad(o), UNCHANGED <<rest, call>>
    PROVE  Core'
<1>1. InUse(o) /\ ops[o].gen <= generation
  BY DEF InUse, QueuePlaces, Core, Captured
<1>2. host \notin {"down", "starting"}
  BY <1>1 DEF Core, Unloaded
<1>3. CASE Settle(o) /\ UNCHANGED resident
  BY <1>3, SettleKeeps DEF rest
<1>4. CASE Goes(o, "releasing") /\ resident' = NoModel /\ UNCHANGED <<queue, waits>>
  <2>1. PICK r \in OpRecords : ops' = [ops EXCEPT ![o] = r] /\ r.pc = "releasing"
                                 /\ r.kind = ops[o].kind /\ r.gen = ops[o].gen
    <3>1. "releasing" \in Places
      BY DEF Places, QueuePlaces
    <3>2. Becomes(o, "releasing")
      BY <3>1, <1>4, Moves, Zenon DEF Goes
    <3> QED
      BY <3>2 DEF Becomes
  <2>2. r.pc = "releasing" /\ r.kind = ops[o].kind /\ r.gen = ops[o].gen
    BY <2>1
  <2>3. Admissible(o, r)
    BY <1>1, <1>2, <2>2 DEF Admissible, UsesModel, Core, Captured
  <2> QED
    BY <1>4, <2>1, <2>2, <2>3, OpKeeps DEF rest, QueuePlaces, Core, Types
<1>5. CASE /\ ops' = [ops EXCEPT ![o].pc = "loading", ![o].backend = EffectiveBackend]
           /\ UNCHANGED <<queue, waits, resident>>
  <2>1. PICK r \in OpRecords : ops' = [ops EXCEPT ![o] = r] /\ r.pc = "loading"
                                 /\ r.kind = ops[o].kind /\ r.gen = ops[o].gen
    <3>1. EffectiveBackend \in {"cpu", "gpu", "bypass"} /\ "loading" \in Places
      BY DEF EffectiveBackend, Places, QueuePlaces
    <3>2. Becomes(o, "loading")
      BY <1>5, <3>1, MovesWithBackend, Zenon
    <3> QED
      BY <3>2 DEF Becomes
  <2>2. r.pc = "loading" /\ r.kind = ops[o].kind /\ r.gen = ops[o].gen
    BY <2>1
  <2>3. Admissible(o, r)
    BY <1>1, <1>2, <2>2 DEF Admissible, UsesModel, Core, Captured
  <2> QED
    BY <1>5, <2>1, <2>2, <2>3, OpKeeps DEF rest, QueuePlaces, Core, Types
<1> QED
  BY <1>3, <1>4, <1>5 DEF StartLoad

LEMMA QueryKeeps ==
    ASSUME Core, Serving, NEW o \in Ops, Query(o), UNCHANGED hostVars
    PROVE  Core'
<1>1. PICK r \in OpRecords :
         /\ ops' = [ops EXCEPT ![o] = r]
         /\ r.kind \in {"external", "query"} /\ r.pc \in {"gate", "retrieving"}
         /\ r.gen = generation
  <2>1. PICK kind \in {"external", "query"}, pc \in {"gate", "retrieving"}, p \in Profiles :
           ops' = [ops EXCEPT ![o] = Chosen(o, kind, p, pc)]
    <3>1. "fast" \in Profiles
      BY DEF Profiles
    <3> QED
      BY <3>1 DEF Query
  <2>2. pc \in Places
    BY <2>1 DEF Places
  <2>3. /\ Chosen(o, kind, p, pc) \in OpRecords
        /\ Chosen(o, kind, p, pc).kind = kind /\ Chosen(o, kind, p, pc).pc = pc
        /\ Chosen(o, kind, p, pc).gen = generation
    <3>1. kind \in {"query", "external", "warmup", "release"} /\ p \in Profiles
      BY <2>1
    <3> QED
      BY <2>2, <3>1, ChosenIsARecord
  <2> QED
    BY <2>1, <2>3
<1>2. /\ r.kind \in {"external", "query"} /\ r.pc \in {"gate", "retrieving"}
      /\ r.gen = generation
  BY <1>1
<1>3. Admissible(o, r)
  BY <1>2 DEF Admissible, Serving, QueuePlaces, Core, Types
<1>4. ops[o].pc = "idle" /\ UNCHANGED <<queue, generation, stopped, host, gate, life, boot, call, waits, resident>>
  BY DEF Query, hostVars, flags, admission
<1>5. ops' = [ops EXCEPT ![o] = r] /\ "idle" \notin QueuePlaces /\ r.pc \notin QueuePlaces
  BY <1>1, <1>2 DEF QueuePlaces
<1>6. DOMAIN boot' = Lives /\ DOMAIN call' = Callers /\ waits' \in [Callers -> SUBSET Ops]
  BY <1>4 DEF Core, Types
<1> QED
  BY <1>3, <1>4, <1>5, <1>6, OpKeeps

\* A warmup is chained only while the gate is open and the engine runs.
LEMMA WarmupKeeps ==
    ASSUME Core, Shut, life # 0, NEW o \in Ops, Warmup(o),
           UNCHANGED <<generation, stopped, host, gate, life, resident>>,
           DOMAIN boot' = Lives, DOMAIN call' = Callers, call'[Stop] = call[Stop],
           waits' \in [Callers -> SUBSET Ops], call[Stop] = "drain" => waits'[Stop] = waits[Stop]
    PROVE  Core'
<1>1. "fast" \in Profiles /\ ops[o].pc = "idle" /\ generation \in Nat
  BY DEF Profiles, Warmup, Core, Types
<1>2. CASE Armed
  <2> DEFINE r == Chosen(o, "warmup", "fast", "gate")
  <2>1. ops' = [ops EXCEPT ![o] = r] /\ UNCHANGED queue
    BY <1>2 DEF Warmup
  <2>2. r \in OpRecords /\ r.kind = "warmup" /\ r.pc = "gate" /\ r.gen = generation
    BY <1>1, ChosenIsARecord DEF Places
  <2> HIDE DEF r
  <2>3. Admissible(o, r)
    BY <1>1, <2>2 DEF Admissible, QueuePlaces
  <2> QED
    BY <1>1, <2>1, <2>2, <2>3, OpKeeps DEF QueuePlaces
<1>3. CASE ~Armed
  <2>1. PICK p \in Profiles : Enqueue(o, Chosen(o, "warmup", p, "queued"))
    BY <1>3 DEF Warmup
  <2> DEFINE r == Chosen(o, "warmup", p, "queued")
  <2>2. ops' = [ops EXCEPT ![o] = r] /\ queue' = Append(queue, o)
    BY <2>1 DEF Enqueue
  <2>3. r \in OpRecords /\ r.kind = "warmup" /\ r.pc = "queued" /\ r.gen = generation
    BY ChosenIsARecord DEF Places, QueuePlaces
  <2> HIDE DEF r
  <2>4. ~stopped
    BY <1>3 DEF Warmup, Warms
  <2>5. host \notin {"down", "starting", "unloading"}
    BY <1>3, <2>4 DEF Shut, Core, Unloads
  <2>6. Admissible(o, r)
    BY <1>1, <2>3, <2>5 DEF Admissible, QueuePlaces
  <2> QED
    BY <1>1, <2>2, <2>3, <2>6, OpKeeps DEF QueuePlaces
<1> QED
  BY <1>2, <1>3

LEMMA GateOpensKeeps ==
    ASSUME IInv, NEW o \in Ops, GateOpens(o), UNCHANGED hostVars
    PROVE  Core'
<1>1. /\ Core /\ ops[o].pc = "gate" /\ ~Armed /\ ops[o].gen <= generation
      /\ UNCHANGED <<generation, stopped, host, gate, life, boot, call, resident>>
  BY DEF IInv, Core, Captured, GateOpens, hostVars, flags, admission
<1>2. CASE Settle(o)
  BY <1>1, <1>2, SettleKeeps DEF QueuePlaces
<1>3. CASE /\ GenerationAlive(o) /\ ops[o].kind = "query"
           /\ \E p \in Profiles : ops' = [ops EXCEPT ![o].profile = p, ![o].pc = "retrieving"]
           /\ UNCHANGED <<queue, waits>>
  <2>1. PICK p \in Profiles : ops' = [ops EXCEPT ![o].profile = p, ![o].pc = "retrieving"]
    BY <1>3
  <2>2. PICK r \in OpRecords : ops' = [ops EXCEPT ![o] = r] /\ r.pc = "retrieving"
                                 /\ r.kind = ops[o].kind /\ r.gen = ops[o].gen
    <3>1. "retrieving" \in Places
      BY DEF Places, QueuePlaces
    <3>2. Becomes(o, "retrieving")
      BY <3>1, <2>1, <1>1, MovesWithProfile, Zenon
    <3> QED
      BY <3>2 DEF Becomes
  <2>3. r.pc = "retrieving" /\ r.kind = ops[o].kind /\ r.gen = ops[o].gen
    BY <2>2
  <2>4. Admissible(o, r)
    BY <1>1, <1>3, <2>3 DEF Admissible, QueuePlaces, Core, Captured
  <2> QED
    BY <1>1, <1>3, <2>2, <2>3, <2>4, OpKeeps DEF QueuePlaces, Core, Types
<1>4. CASE /\ GenerationAlive(o) /\ ops[o].kind = "warmup" /\ ~stopped
           /\ \E p \in Profiles : Enqueue(o, [ops[o] EXCEPT !.profile = p, !.pc = "queued"])
           /\ UNCHANGED waits
  <2>1. PICK p \in Profiles : Enqueue(o, [ops[o] EXCEPT !.profile = p, !.pc = "queued"])
    BY <1>4
  <2>2. PICK r \in OpRecords : ops' = [ops EXCEPT ![o] = r] /\ r.pc = "queued"
                                 /\ r.kind = ops[o].kind /\ r.gen = ops[o].gen
    <3>1. "queued" \in Places
      BY DEF Places, QueuePlaces
    <3>2. Becomes(o, "queued")
      BY <3>1, <1>1, <2>1, MovesWithProfile, Zenon DEF Enqueue
    <3> QED
      BY <3>2 DEF Becomes
  <2>3. /\ r.pc = "queued" /\ r.kind = ops[o].kind /\ r.gen = ops[o].gen
        /\ queue' = Append(queue, o)
    BY <2>1, <2>2 DEF Enqueue
  <2>4. host \notin {"down", "starting", "unloading"}
    <3>1. host # "unloading"
      BY <1>1, <1>4 DEF Core, Unloads
    <3>2. life # 0
      <4>1. ops[o] # Idle
        BY <1>1, IdleIsARecord
      <4> QED
        BY <4>1 DEF IInv, InTurn
    <3> QED
      BY <1>1, <1>4, <3>1, <3>2 DEF IInv, Shut
  <2>5. Admissible(o, r)
    BY <1>1, <1>4, <2>3, <2>4 DEF Admissible, QueuePlaces, GenerationAlive
  <2> QED
    BY <1>1, <1>4, <2>2, <2>3, <2>5, OpKeeps DEF QueuePlaces, Core, Types
<1> QED
  BY <1>2, <1>3, <1>4 DEF GateOpens

LEMMA RetrievedKeeps ==
    ASSUME IInv, NEW o \in Ops, Retrieved(o), UNCHANGED hostVars
    PROVE  Core'
<1>1. /\ Core /\ ops[o].pc = "retrieving" /\ ops[o].gen <= generation /\ ops[o].kind # "warmup"
      /\ UNCHANGED <<generation, stopped, host, gate, life, boot, call, resident>>
  BY DEF IInv, Core, Captured, Retrieved, hostVars, flags, admission
<1>2. CASE Settle(o)
  BY <1>1, <1>2, SettleKeeps DEF QueuePlaces
<1>3. CASE /\ ops[o].kind = "external" \/ (GenerationAlive(o) /\ QueriesAllowed)
           /\ Enqueue(o, [ops[o] EXCEPT !.pc = "queued"]) /\ UNCHANGED waits
  <2>1. PICK r \in OpRecords : ops' = [ops EXCEPT ![o] = r] /\ r.pc = "queued"
                                 /\ r.kind = ops[o].kind /\ r.gen = ops[o].gen
    <3>1. "queued" \in Places
      BY DEF Places, QueuePlaces
    <3>2. Becomes(o, "queued")
      BY <3>1, <1>1, <1>3, Moves, Zenon DEF Enqueue
    <3> QED
      BY <3>2 DEF Becomes
  <2>2. /\ r.pc = "queued" /\ r.kind = ops[o].kind /\ r.gen = ops[o].gen
        /\ queue' = Append(queue, o)
    BY <1>3, <2>1 DEF Enqueue
  <2>3. ops[o].kind = "query" => host \notin {"down", "starting", "unloading"}
    BY <1>1, <1>3 DEF Core, Captured, Types, GenerationAlive
  <2>4. ops[o].kind = "query" => ops[o].gen = generation
    BY <1>3 DEF GenerationAlive
  <2>5. Admissible(o, r)
    <3>1. r.kind = "query" => host \notin {"down", "starting", "unloading"}
      BY <2>2, <2>3
    <3> QED
      BY <1>1, <2>2, <2>4, <3>1 DEF Admissible, QueuePlaces, Core, Captured
  <2> QED
    BY <1>1, <1>3, <2>1, <2>2, <2>5, OpKeeps DEF QueuePlaces, Core, Types
<1> QED
  BY <1>2, <1>3 DEF Retrieved

\* An operation that is under way captured the generation of this life.
LEMMA UnderWay ==
    ASSUME Core, NEW o \in Ops, ops[o].pc \in QueuePlaces \ {"queued"}
    PROVE  /\ AtHead(o)
           /\ UsesModel(o) /\ host # "unloading" => ops[o].gen = generation
           /\ UsesModel(o) => InUse(o)
<1>1. AtHead(o)
  BY UnderWayIsHead DEF Core
<1>2. UsesModel(o) /\ host # "unloading" => ops[o].gen = generation
  BY DEF Core, Captured, OfThisLife, InUse
<1> QED
  BY <1>1, <1>2 DEF InUse

LEMMA SectionKeeps ==
    ASSUME Core, NEW o \in Ops, Section(o), UNCHANGED hostVars
    PROVE  Core'
<1>1. /\ AtHead(o) /\ ops[o].pc = "queued" /\ ops[o].gen <= generation
      /\ UNCHANGED <<generation, stopped, host, gate, life, boot, call>>
      /\ UNCHANGED rest /\ UNCHANGED call
  BY DEF Core, Captured, Section, hostVars, flags, admission, rest
<1>2. waits \in [Callers -> SUBSET Ops]
  BY DEF Core, Types
<1>3. ~Refused(o) /\ UsesModel(o) /\ host # "unloading" => ops[o].gen = generation
  BY <1>1 DEF Refused, GenerationAlive, UsesModel, Core, Captured, OfThisLife, InUse, QueuePlaces
<1>4. CASE Settle(o) /\ UNCHANGED resident
  BY <1>1, <1>4, SettleKeeps
<1>5. CASE /\ UsesModel(o) /\ ~Refused(o) /\ resident = Identity(o) /\ ops[o].kind = "query"
           /\ ops' = [ops EXCEPT ![o].pc = "generating", ![o].backend = resident[2]]
           /\ UNCHANGED <<queue, waits, resident>>
  <2>1. resident[2] \in {"cpu", "gpu", "bypass"} /\ "generating" \in Places
    BY <1>5 DEF Identity, EffectiveBackend, Places, QueuePlaces
  <2>2. Becomes(o, "generating")
    BY <1>5, <2>1, MovesWithBackend, Zenon
  <2> QED
    BY <1>1, <1>2, <1>3, <1>5, <2>2, GoesOn DEF QueuePlaces
<1>6. CASE /\ UsesModel(o) /\ ~Refused(o)
           /\ Goes(o, "belt") /\ UNCHANGED <<queue, waits, resident, contexts>>
  <2>1. "belt" \in Places
    BY DEF Places, QueuePlaces
  <2>2. Becomes(o, "belt")
    BY <1>6, <2>1, Moves, Zenon DEF Goes
  <2> QED
    BY <1>1, <1>2, <1>3, <1>6, <2>2, GoesOn DEF QueuePlaces
<1>7. CASE UsesModel(o) /\ ~Refused(o) /\ StartLoad(o)
  BY <1>1, <1>3, <1>7, StartLoadKeeps
<1>8. CASE /\ ops[o].kind = "external"
           /\ Goes(o, "generating")
           /\ UNCHANGED <<queue, waits, resident, contexts>>
  <2>1. "generating" \in Places
    BY DEF Places, QueuePlaces
  <2>2. Becomes(o, "generating")
    BY <1>8, <2>1, Moves, Zenon DEF Goes
  <2> QED
    BY <1>1, <1>2, <1>8, <2>2, GoesOn DEF QueuePlaces, UsesModel
<1>9. CASE /\ ops[o].kind = "release" /\ resident' = NoModel
           /\ Goes(o, "freeing")
           /\ UNCHANGED <<queue, waits, contexts>>
  <2>1. "freeing" \in Places
    BY DEF Places, QueuePlaces
  <2>2. Becomes(o, "freeing")
    BY <1>9, <2>1, Moves, Zenon DEF Goes
  <2> QED
    BY <1>1, <1>2, <1>9, <2>2, GoesOn DEF QueuePlaces, UsesModel
<1> QED
  BY <1>4, <1>5, <1>6, <1>7, <1>8, <1>9 DEF Section

LEMMA BeltOpensKeeps ==
    ASSUME Core, NEW o \in Ops, BeltOpens(o), UNCHANGED hostVars
    PROVE  Core'
<1>1. /\ ops[o].pc = "belt" /\ StartLoad(o) /\ UNCHANGED rest /\ UNCHANGED call
  BY DEF BeltOpens, hostVars, flags, admission, rest
<1>2. AtHead(o) /\ (UsesModel(o) /\ host # "unloading" => ops[o].gen = generation)
  BY <1>1, UnderWay DEF QueuePlaces
<1>3. UsesModel(o)
  BY <1>1 DEF Core, Captured, Loading
<1> QED
  BY <1>1, <1>2, <1>3, StartLoadKeeps

LEMMA ReleasedKeeps ==
    ASSUME Core, NEW o \in Ops, Released(o), UNCHANGED hostVars
    PROVE  Core'
<1>1. /\ ops[o].pc = "releasing"
      /\ ops' = [ops EXCEPT ![o].pc = "loading", ![o].backend = EffectiveBackend]
      /\ UNCHANGED <<queue, waits, resident, generation, stopped, host, gate, life, boot, call>>
      /\ waits \in [Callers -> SUBSET Ops]
  BY DEF Released, hostVars, flags, admission, Core, Types
<1>2. AtHead(o) /\ (UsesModel(o) /\ host # "unloading" => ops[o].gen = generation)
  BY <1>1, UnderWay DEF QueuePlaces
<1>3. UsesModel(o)
  BY <1>1 DEF Core, Captured, Loading
<1>4. EffectiveBackend \in {"cpu", "gpu", "bypass"} /\ "loading" \in Places
  BY DEF EffectiveBackend, Places, QueuePlaces
<1>5. Becomes(o, "loading")
  BY <1>1, <1>4, MovesWithBackend, Zenon
<1> QED
  BY <1>1, <1>2, <1>3, <1>5, GoesOn DEF QueuePlaces

LEMMA LoadSucceedsKeeps ==
    ASSUME Core, NEW o \in Ops, LoadSucceeds(o), UNCHANGED hostVars
    PROVE  Core'
<1>1. /\ ops[o].pc = "loading" /\ Loaded(o)
      /\ UNCHANGED <<generation, stopped, host, gate, life, boot, call>>
      /\ waits \in [Callers -> SUBSET Ops]
  BY DEF LoadSucceeds, hostVars, flags, admission, Core, Types
<1>2. AtHead(o) /\ (UsesModel(o) /\ host # "unloading" => ops[o].gen = generation)
      /\ (UsesModel(o) => InUse(o))
  BY <1>1, UnderWay DEF QueuePlaces
<1>3. UsesModel(o) /\ InUse(o)
  BY <1>1, <1>2 DEF Core, Captured, Loading
<1>4. CASE LoadOver(o, "generating")
  <2>1. "generating" \in Places
    BY DEF Places, QueuePlaces
  <2>2. Becomes(o, "generating")
    BY <1>4, <2>1, Moves, Zenon DEF Goes, LoadOver
  <2>3. /\ UNCHANGED queue
        /\ waits' = [c \in Callers |->
                       IF call[c] \in {"joinLoad", "drainLoad"} THEN waits[c] \ {o} ELSE waits[c]]
    BY <1>4 DEF LoadOver
  <2>4. waits' \in [Callers -> SUBSET Ops] /\ (call[Stop] = "drain" => waits'[Stop] = waits[Stop])
    BY <1>1, <2>3 DEF Callers
  <2> QED
    BY <1>1, <1>2, <1>3, <2>2, <2>3, <2>4, GoesOn DEF QueuePlaces
<1>5. CASE Settle(o)
  BY <1>1, <1>2, <1>3, <1>5, SettleKeeps
<1> QED
  BY <1>1, <1>4, <1>5 DEF Loaded

LEMMA LoadFailsKeeps ==
    ASSUME Core, NEW o \in Ops, LoadFails(o), UNCHANGED hostVars
    PROVE  Core'
<1>1. /\ ops[o].pc = "loading"
      /\ UNCHANGED <<resident, generation, stopped, host, gate, life, boot, call>>
      /\ waits \in [Callers -> SUBSET Ops]
  BY DEF LoadFails, hostVars, flags, Core, Types
<1>2. AtHead(o) /\ (UsesModel(o) /\ host # "unloading" => ops[o].gen = generation)
  BY <1>1, UnderWay DEF QueuePlaces
<1>3. UsesModel(o)
  BY <1>1 DEF Core, Captured, Loading
<1>4. CASE \E b \in {"cpu", "bypass"} : /\ ops' = [ops EXCEPT ![o].backend = b]
                                        /\ UNCHANGED <<queue, waits>>
  <2>1. PICK b \in {"cpu", "bypass"} : ops' = [ops EXCEPT ![o].backend = b]
    BY <1>4
  <2>2. b \in {"cpu", "gpu", "bypass"}
    OBVIOUS
  <2>3. Becomes(o, ops[o].pc)
    BY <2>1, <2>2, TriesAnotherBackend, Zenon
  <2>4. ops[o].pc \in QueuePlaces \ {"queued"}
    BY <1>1 DEF QueuePlaces
  <2> QED
    BY <1>1, <1>2, <1>3, <1>4, <2>3, <2>4, GoesOn
<1>5. CASE Settle(o)
  BY <1>1, <1>2, <1>5, SettleKeeps
<1> QED
  BY <1>4, <1>5 DEF LoadFails

\* A generation, and the freeing of a queued release, end.
LEMMA GeneratedKeeps ==
    ASSUME Core, NEW o \in Ops, Generated(o) \/ ReleaseFreed(o), UNCHANGED hostVars
    PROVE  Core'
<1>1. /\ ops[o].pc \in QueuePlaces \ {"queued"} /\ Settle(o)
      /\ UNCHANGED <<resident, generation, stopped, host, gate, life, boot, call>>
  BY DEF Generated, ReleaseFreed, hostVars, flags, admission, QueuePlaces
<1>2. AtHead(o)
  BY <1>1, UnderWay
<1> QED
  BY <1>1, <1>2, SettleKeeps

LEMMA SwitchExternalKeeps ==
    ASSUME Core, NEW o \in Ops, SwitchExternal(o), UNCHANGED hostVars
    PROVE  Core'
<1> DEFINE r == Chosen(o, "release", "fast", "queued")
<1>1. /\ ops[o].pc = "idle" /\ ops' = [ops EXCEPT ![o] = r] /\ queue' = Append(queue, o)
      /\ UNCHANGED <<resident, generation, stopped, host, gate, life, boot, call, waits>>
  BY DEF SwitchExternal, Enqueue, hostVars, admission
<1>2. "fast" \in Profiles /\ "queued" \in Places /\ "queued" \in QueuePlaces /\ "idle" \notin QueuePlaces
  BY DEF Profiles, Places, QueuePlaces
<1>3. r \in OpRecords /\ r.kind = "release" /\ r.pc = "queued" /\ r.gen = generation
  BY <1>2, ChosenIsARecord
<1> HIDE DEF r
<1>4. Admissible(o, r)
  BY <1>3 DEF Admissible, Core, Types
<1>5. DOMAIN boot' = Lives /\ DOMAIN call' = Callers /\ waits' \in [Callers -> SUBSET Ops]
  BY <1>1 DEF Core, Types
<1> QED
  BY <1>1, <1>2, <1>3, <1>4, <1>5, OpKeeps

-----------------------------------------------------------------------------
(* Calls beside the queue.                                                 *)

LEMMA QueueIsOfOps ==
    ASSUME Types
    PROVE  /\ ToSet(queue) \in SUBSET Ops
           /\ \A o \in Ops : (\E i \in 1..Len(queue) : queue[i] = o) => o \in ToSet(queue)
<1>1. DOMAIN queue = 1..Len(queue) /\ \A i \in 1..Len(queue) : queue[i] \in Ops
  BY LenProperties, ElementOfSeq DEF Types
<1> QED
  BY <1>1 DEF ToSet

\* A load in flight is the head's.
LEMMA LoadIsTheHeads ==
    ASSUME Core, LoadInFlight
    PROVE  Head(queue) \in Ops
<1>1. PICK o \in Ops : Loading(o)
  BY DEF LoadInFlight
<1>2. AtHead(o)
  BY <1>1, UnderWay DEF Loading, QueuePlaces
<1> QED
  BY <1>2 DEF AtHead

\* A caller other than stop leaves stop's call alone.
LEMMA OthersCall ==
    ASSUME Core, NEW f \in Flights, NEW c, NEW w \in SUBSET Ops,
           call' = [call EXCEPT ![f] = c],
           waits' = waits \/ waits' = [waits EXCEPT ![f] = w]
    PROVE  /\ DOMAIN call' = Callers /\ waits' \in [Callers -> SUBSET Ops]
           /\ call'[Stop] = call[Stop] /\ waits'[Stop] = waits[Stop]
<1>1. f \in Callers /\ Stop \in Callers /\ f # Stop
  BY CallersAssumption DEF Callers
<1> QED
  BY <1>1 DEF Core, Types

LEMMA JoinIsACall ==
    ASSUME Core, NEW c \in Callers, Join(c)
    PROVE  /\ \E x : call' = [call EXCEPT ![c] = x]
           /\ \E w \in SUBSET Ops : waits' = [waits EXCEPT ![c] = w]
<1>1. ToSet(queue) \in SUBSET Ops
  BY QueueIsOfOps DEF Core
<1>2. LoadInFlight => {Head(queue)} \in SUBSET Ops
  BY LoadIsTheHeads
<1> QED
  BY <1>1, <1>2 DEF Join

LEMMA JoinLoadedKeeps ==
    ASSUME Core, NEW c \in Callers, JoinLoaded(c), UNCHANGED hostVars
    PROVE  Core'
<1>1. /\ call[c] = "joinLoad" /\ call' = [call EXCEPT ![c] = "join"]
      /\ waits' = [waits EXCEPT ![c] = ToSet(queue)]
      /\ UNCHANGED <<ops, queue, resident, generation, stopped, host, gate, life, boot>>
      /\ gate \in {"armed", "settled"} /\ DOMAIN boot = Lives /\ DOMAIN call = Callers
      /\ waits \in [Callers -> SUBSET Ops]
  BY DEF JoinLoaded, hostVars, flags, admission, Core, Types
<1>2. ToSet(queue) \in SUBSET Ops
  BY QueueIsOfOps DEF Core
<1>3. DOMAIN call' = Callers /\ waits' \in [Callers -> SUBSET Ops]
  BY <1>1, <1>2
<1>4. host = "unloading" => c # Stop
  BY <1>1 DEF Core, Unloads
<1>5. c # Stop => call'[Stop] = call[Stop] /\ waits'[Stop] = waits[Stop]
  BY <1>1 DEF Callers
<1> QED
  BY <1>1, <1>3, <1>4, <1>5, CallKeeps

LEMMA FreedKeeps ==
    ASSUME Core, NEW c \in Callers, Freed(c), UNCHANGED hostVars
    PROVE  Core'
<1>1. /\ call[c] = "free" /\ call' = [call EXCEPT ![c] = "disposed"]
      /\ UNCHANGED <<ops, queue, resident, generation, stopped, host, gate, life, boot, waits>>
      /\ gate \in {"armed", "settled"} /\ DOMAIN boot = Lives /\ DOMAIN call = Callers
      /\ waits \in [Callers -> SUBSET Ops]
  BY DEF Freed, hostVars, flags, admission, Core, Types
<1>2. /\ DOMAIN call' = Callers
      /\ call'[Stop] = call[Stop] \/ (call[Stop] = "free" /\ call'[Stop] = "disposed")
  BY <1>1 DEF Callers
<1> QED
  BY <1>1, <1>2, CallKeeps

\* The dispose of a stop takes the model when nothing may use it any more.
LEMMA DrainedKeeps ==
    ASSUME Core, NEW c \in Callers, Drained(c), UNCHANGED hostVars
    PROVE  Core'
<1>1. /\ waits[c] = {} /\ call[c] \in {"drain", "drainLoad"}
      /\ \E x : call' = [call EXCEPT ![c] = x]
      /\ resident' = resident \/ resident' = NoModel
      /\ UNCHANGED <<ops, queue, generation, stopped, host, gate, life, boot>>
      /\ gate \in {"armed", "settled"} /\ DOMAIN boot = Lives /\ DOMAIN call = Callers
      /\ waits \in [Callers -> SUBSET Ops]
  BY DEF Drained, TakeResident, hostVars, flags, admission, Core, Types
<1>2. \E w \in SUBSET Ops : waits' = [waits EXCEPT ![c] = w]
  <2>1. LoadInFlight => {Head(queue)} \in SUBSET Ops
    BY LoadIsTheHeads
  <2>2. waits = [waits EXCEPT ![c] = waits[c]] /\ waits[c] \in SUBSET Ops
    BY <1>1
  <2> QED
    BY <2>1, <2>2 DEF Drained, TakeResident
<1>3. DOMAIN call' = Callers /\ waits' \in [Callers -> SUBSET Ops]
  BY <1>1, <1>2
<1>4. CASE c # Stop \/ host # "unloading"
  <2>1. c # Stop => call'[Stop] = call[Stop] /\ waits'[Stop] = waits[Stop]
    BY <1>1, <1>2 DEF Callers
  <2> QED
    BY <1>1, <1>3, <1>4, <2>1, CallKeeps
<1>5. CASE c = Stop /\ host = "unloading"
  <2>1. /\ stopped /\ call[Stop] = "drain" /\ \A o \in Ops : ~InUse(o)
    BY <1>1, <1>5 DEF Core, Unloads
  <2>2. ~LoadInFlight
    BY <2>1 DEF LoadInFlight, Loading, InUse, QueuePlaces, Core, Captured
  <2>3. TakeResident(Stop)
    BY <1>5, <2>1, <2>2 DEF Drained
  <2>4. resident' = NoModel /\ call'[Stop] \in {"free", "disposed"}
    BY <1>1, <2>3 DEF TakeResident, Callers
  <2>5. \A o \in Ops : (InUse(o)' <=> InUse(o)) /\ (UsesModel(o)' <=> UsesModel(o))
                       /\ (Loading(o)' <=> Loading(o)) /\ (OfThisLife(o)' <=> OfThisLife(o))
    BY <1>1 DEF InUse, UsesModel, Loading, OfThisLife
  <2>6. Captured'
    BY <1>1, <2>5 DEF Core, Captured
  <2>7. Unloads' /\ Unloaded'
    BY <1>1, <1>5, <2>1, <2>4, <2>5 DEF Unloads, Unloaded
  <2>8. Types' /\ Ordered'
    BY <1>1, <1>3 DEF Core, Types, Ordered
  <2> QED
    BY <2>6, <2>7, <2>8 DEF Core
<1> QED
  BY <1>4, <1>5

\* What no host step does: a step of the engine.
LEMMA EngineKeeps ==
    ASSUME IInv, UNCHANGED hostVars,
           \/ EngineReaction
           \/ \E o \in Ops : OpTask(o)
           \/ \E c \in Callers : Freed(c)
           \/ Serving /\ \E o \in Ops : Query(o) \/ SwitchExternal(o)
           \/ Serving /\ SwitchLocal
    PROVE  IInv'
<1>1. Core /\ Shut /\ InTurn
  BY DEF IInv
<1>2. ASSUME NEW o \in Ops,
             GateOpens(o) \/ Section(o) \/ BeltOpens(o) \/ OpTask(o)
      PROVE  /\ Core' /\ \E x \in Ops : ops[x] # Idle
             /\ UNCHANGED <<host, stopped, gate, life, boot, tests>>
  <2>1. Core'
    BY <1>1, <1>2, GateOpensKeeps, SectionKeeps, BeltOpensKeeps, RetrievedKeeps, ReleasedKeeps,
       LoadSucceedsKeeps, LoadFailsKeeps, GeneratedKeeps DEF OpTask
  <2>2. ops[o].pc # "idle"
    BY <1>2 DEF GateOpens, Section, BeltOpens, OpTask, Retrieved, Released, LoadSucceeds, LoadFails,
                Generated, ReleaseFreed
  <2>3. ops[o] # Idle
    BY <2>2, IdleIsARecord
  <2>4. UNCHANGED <<host, stopped, gate, life, boot, tests>>
    BY <1>2 DEF GateOpens, Section, BeltOpens, OpTask, Retrieved, Released, LoadSucceeds, LoadFails,
                Generated, ReleaseFreed, hostVars, flags, admission
  <2> QED
    BY <2>1, <2>3, <2>4
<1>3. ASSUME NEW c \in Callers, JoinLoaded(c) \/ Drained(c) \/ Freed(c)
      PROVE  /\ Core' /\ UNCHANGED <<ops, host, stopped, gate, life, boot, tests>>
  <2>1. Core'
    BY <1>1, <1>3, JoinLoadedKeeps, DrainedKeeps, FreedKeeps
  <2> QED
    BY <1>3, <2>1 DEF JoinLoaded, Drained, Freed, hostVars, flags, admission
<1>4. ASSUME Serving, NEW o \in Ops, Query(o) \/ SwitchExternal(o)
      PROVE  /\ Core' /\ host # "down" /\ UNCHANGED <<host, stopped, gate, life, boot, tests>>
  <2>1. Core'
    BY <1>1, <1>4, QueryKeeps, SwitchExternalKeeps
  <2> QED
    BY <1>4, <2>1 DEF Query, SwitchExternal, Serving, hostVars, flags, admission
<1>5. ASSUME SwitchLocal
      PROVE  Core' /\ UNCHANGED <<ops, host, stopped, gate, life, boot, tests>>
  <2>1. /\ UNCHANGED <<ops, queue, generation, stopped, host, life, gate, boot, call, waits, resident, tests>>
        /\ gate \in {"armed", "settled"} /\ DOMAIN boot = Lives /\ DOMAIN call = Callers
        /\ waits \in [Callers -> SUBSET Ops]
    BY <1>1, <1>5 DEF SwitchLocal, hostVars, admission, Core, Types
  <2> QED
    BY <1>1, <2>1, CallKeeps
<1>6. /\ Core' /\ UNCHANGED <<host, stopped, gate, life, boot, tests>>
      /\ UNCHANGED ops \/ (\E x \in Ops : ops[x] # Idle) \/ host # "down"
  BY <1>2, <1>3, <1>4, <1>5 DEF EngineReaction
<1>7. Shut' /\ InTurn'
  BY <1>1, <1>6, HostStays
<1> QED
  BY <1>6, <1>7 DEF IInv

-----------------------------------------------------------------------------
(* The actions of the host.                                                *)

\* A host step that moves no operation and no flag of the engine.
LEMMA HostStepKeeps ==
    ASSUME Core, UNCHANGED <<ops, queue, generation, stopped, host, life, resident>>,
           gate' \in {"armed", "settled"}, DOMAIN boot' = Lives, DOMAIN call' = Callers,
           waits' \in [Callers -> SUBSET Ops],
           call'[Stop] = call[Stop], waits'[Stop] = waits[Stop]
    PROVE  Core'
  BY CallKeeps

\* A boot flight is one of a life that has begun.
LEMMA BootOfALife ==
    ASSUME IInv, NEW l \in Lives, boot[l].pc # "none"
    PROVE  life # 0 /\ life \in Lives /\ l <= life
<1>1. life \in 0..MaxLives /\ l \in 1..MaxLives /\ MaxLives \in Nat
  BY LivesAssumption DEF IInv, Core, Types, Lives
<1>2. ~(l > life)
  BY DEF IInv, InTurn
<1> QED
  BY <1>1, <1>2 DEF Lives

\* A GPU test is one of a life that has begun.
LEMMA TestOfALife ==
    ASSUME IInv, NEW f \in Flights, tests[f].pc # "none"
    PROVE  life # 0
  BY DEF IInv, InTurn

\* What the host reads stays while a flight of a life that has begun goes on.
LEMMA FlightStays ==
    ASSUME Shut, InTurn, life # 0, UNCHANGED <<host, stopped, life>>,
           UNCHANGED gate \/ boot[life].pc # "none",
           \A l \in Lives : boot[l].pc = "none" => boot'[l] = boot[l]
    PROVE  Shut' /\ InTurn'
<1>1. Shut'
  BY DEF Shut, Armed
<1>2. InTurn'
  BY DEF InTurn
<1> QED
  BY <1>1, <1>2

LEMMA WarmAfterBootKeeps ==
    ASSUME IInv, NEW l \in Lives, WarmAfterBoot(l)
    PROVE  IInv'
<1>1. /\ Core /\ Shut /\ InTurn /\ boot[l].pc = "ended"
      /\ boot' = [boot EXCEPT ![l].pc = "done"] /\ DOMAIN boot = Lives
      /\ UNCHANGED <<generation, stopped, host, gate, life, resident, call, waits>>
      /\ gate \in {"armed", "settled"} /\ DOMAIN call = Callers
      /\ waits \in [Callers -> SUBSET Ops]
  BY DEF IInv, Core, Types, WarmAfterBoot, flags, admission
<1>2. life # 0
  BY <1>1, BootOfALife
<1>3. l \in Ops /\ DOMAIN boot' = Lives
  BY <1>1 DEF Ops
<1>4. Core'
  <2>1. CASE Warmup(l)
    BY <1>1, <1>2, <1>3, <2>1, WarmupKeeps
  <2>2. CASE UNCHANGED <<ops, queue>>
    BY <1>1, <1>3, <2>2, HostStepKeeps
  <2> QED
    BY <2>1, <2>2 DEF WarmAfterBoot
<1>5. \A x \in Lives : boot[x].pc = "none" => boot'[x] = boot[x]
  BY <1>1
<1>6. Shut' /\ InTurn'
  BY <1>1, <1>2, <1>5, FlightStays
<1> QED
  BY <1>4, <1>6 DEF IInv

LEMMA BootStepKeeps ==
    ASSUME IInv, NEW l \in Lives, DeviceAnswers(l) \/ BootProbed(l)
    PROVE  IInv'
<1>1. /\ Core /\ Shut /\ InTurn /\ boot[l].pc \in {"query", "probe"}
      /\ UNCHANGED <<ops, queue, generation, stopped, host, life, resident, call, waits>>
      /\ DOMAIN boot = Lives /\ DOMAIN call = Callers /\ gate \in {"armed", "settled"}
      /\ waits \in [Callers -> SUBSET Ops]
  BY DEF IInv, Core, Types, DeviceAnswers, BootProbed, flags
<1>2. /\ \E b : boot' = [boot EXCEPT ![l] = b]
      /\ UNCHANGED gate \/ gate' = GateOpened(l)
  <2>1. CASE BootEnds(l)
    BY <2>1 DEF BootEnds
  <2>2. CASE boot' = [boot EXCEPT ![l].pc = "probe"] /\ UNCHANGED gate
    BY <2>2
  <2> QED
    BY <2>1, <2>2 DEF DeviceAnswers, BootProbed
<1>3. /\ DOMAIN boot' = Lives /\ gate' \in {"armed", "settled"}
      /\ \A x \in Lives : boot[x].pc = "none" => boot'[x] = boot[x]
      /\ UNCHANGED gate \/ boot[life].pc # "none"
  BY <1>1, <1>2 DEF GateOpened
<1>4. Core'
  BY <1>1, <1>3, HostStepKeeps
<1>5. life # 0
  BY <1>1, BootOfALife
<1>6. Shut' /\ InTurn'
  BY <1>1, <1>3, <1>5, FlightStays
<1> QED
  BY <1>4, <1>6 DEF IInv

\* A step of a GPU test but the one that warms the engine again.
LEMMA TestStepKeeps ==
    ASSUME IInv, NEW f \in Flights,
           BeginTest(f) \/ UnloadForTest(f) \/ ProbeForTest(f) \/ TestWarmed(f)
    PROVE  IInv'
<1>1. /\ Core /\ Shut /\ InTurn /\ tests[f].pc # "none"
      /\ UNCHANGED <<ops, queue, generation, stopped, host, life, resident, gate, boot>>
      /\ DOMAIN boot = Lives /\ DOMAIN call = Callers /\ gate \in {"armed", "settled"}
      /\ waits \in [Callers -> SUBSET Ops]
  BY DEF IInv, Core, Types, BeginTest, UnloadForTest, ProbeForTest, TestWarmed, admission
<1>2. f \in Callers /\ Stop \in Callers /\ f # Stop
  BY CallersAssumption DEF Callers
<1>3. /\ UNCHANGED call \/ \E x : call' = [call EXCEPT ![f] = x]
      /\ UNCHANGED waits \/ \E w \in SUBSET Ops : waits' = [waits EXCEPT ![f] = w]
  <2>1. CASE BeginTest(f)
    <3>1. CASE Join(f)
      BY <1>1, <1>2, <3>1, JoinIsACall
    <3>2. CASE UNCHANGED <<call, waits>>
      BY <3>2
    <3> QED
      BY <2>1, <3>1, <3>2 DEF BeginTest
  <2>2. CASE UnloadForTest(f)
    <3>1. ToSet(queue) \in SUBSET Ops
      BY <1>1, QueueIsOfOps DEF Core
    <3> QED
      BY <2>2, <3>1 DEF UnloadForTest, TestEnds, Dispose
  <2>3. CASE ProbeForTest(f)
    BY <2>3 DEF ProbeForTest, TestEnds
  <2>4. CASE TestWarmed(f)
    BY <2>4 DEF TestWarmed, TestEnds
  <2> QED
    BY <2>1, <2>2, <2>3, <2>4
<1>4. /\ DOMAIN call' = Callers /\ waits' \in [Callers -> SUBSET Ops]
      /\ call'[Stop] = call[Stop] /\ waits'[Stop] = waits[Stop]
  BY <1>1, <1>2, <1>3
<1>5. Core'
  BY <1>1, <1>4, HostStepKeeps
<1>6. life # 0
  BY <1>1, TestOfALife
<1>7. Shut' /\ InTurn'
  BY <1>1, <1>6, FlightStays
<1> QED
  BY <1>5, <1>7 DEF IInv

LEMMA TestProbedKeeps ==
    ASSUME IInv, NEW f \in Flights, TestProbed(f)
    PROVE  IInv'
<1>1. /\ Core /\ Shut /\ InTurn /\ tests[f].pc # "none"
      /\ UNCHANGED <<generation, stopped, host, life, resident, gate, boot>>
      /\ DOMAIN boot = Lives /\ DOMAIN call = Callers /\ gate \in {"armed", "settled"}
      /\ waits \in [Callers -> SUBSET Ops]
  BY DEF IInv, Core, Types, TestProbed
<1>2. f \in Callers /\ Stop \in Callers /\ f # Stop /\ f \in Ops
  BY CallersAssumption DEF Callers, Ops
<1>3. life # 0
  BY <1>1, TestOfALife
<1>4. Core'
  <2>1. CASE TestEnds(f) /\ UNCHANGED <<ops, queue, waits>>
    <3>1. DOMAIN call' = Callers /\ call'[Stop] = call[Stop]
      BY <1>1, <1>2, <2>1 DEF TestEnds
    <3> QED
      BY <1>1, <2>1, <3>1, HostStepKeeps
  <2>2. CASE /\ Warmup(f) /\ call' = [call EXCEPT ![f] = "warmup"]
             /\ waits' = [waits EXCEPT ![f] = {f}]
    <3>1. /\ DOMAIN call' = Callers /\ waits' \in [Callers -> SUBSET Ops]
          /\ call'[Stop] = call[Stop] /\ waits'[Stop] = waits[Stop]
      BY <1>1, <1>2, <2>2
    <3> QED
      BY <1>1, <1>2, <1>3, <2>2, <3>1, WarmupKeeps
  <2> QED
    BY <2>1, <2>2 DEF TestProbed
<1>5. Shut' /\ InTurn'
  BY <1>1, <1>3, FlightStays
<1> QED
  BY <1>4, <1>5 DEF IInv

LEMMA CallTestKeeps ==
    ASSUME IInv, NEW f \in Flights, CallTest(f)
    PROVE  IInv'
<1>1. /\ Core /\ Shut /\ InTurn /\ host \notin {"down", "starting"}
      /\ UNCHANGED <<ops, queue, generation, stopped, host, life, resident, gate, boot, call, waits>>
      /\ DOMAIN boot = Lives /\ DOMAIN call = Callers /\ gate \in {"armed", "settled"}
      /\ waits \in [Callers -> SUBSET Ops]
  BY DEF IInv, Core, Types, CallTest, Serving, engineVars
<1>2. Core'
  BY <1>1, HostStepKeeps
<1>3. life # 0
  BY <1>1 DEF InTurn
<1>4. Shut' /\ InTurn'
  BY <1>1, <1>3, FlightStays
<1> QED
  BY <1>2, <1>4 DEF IInv

LEMMA StopCalledKeeps ==
    ASSUME IInv, StopCalled
    PROVE  IInv'
<1>1. /\ Core /\ Shut /\ InTurn
      /\ UNCHANGED <<ops, queue, generation, stopped, host, life, resident, gate, boot, tests, call, waits>>
      /\ DOMAIN boot = Lives /\ DOMAIN call = Callers /\ gate \in {"armed", "settled"}
      /\ waits \in [Callers -> SUBSET Ops]
  BY DEF IInv, Core, Types, StopCalled, engineVars
<1>2. Core'
  BY <1>1, HostStepKeeps
<1>3. Shut' /\ InTurn'
  BY <1>1, HostStays
<1> QED
  BY <1>2, <1>3 DEF IInv

\* A step of the host that leaves it up or stopping, or takes it there.
LEMMA HostMoves ==
    ASSUME IInv, UNCHANGED <<ops, queue, generation, stopped, life, resident, gate, tests>>,
           host \in {"starting", "up", "stopping"}, host' \in {"up", "stopping", "draining"},
           host = "starting" => host' \in {"up", "stopping"},
           DOMAIN boot' = Lives, \A l \in Lives : l > life => boot'[l].pc = "none",
           DOMAIN call' = Callers, waits' \in [Callers -> SUBSET Ops]
    PROVE  IInv'
<1>1. Core /\ Shut /\ InTurn
  BY DEF IInv
<1>2. \A x \in Ops : (InUse(x)' <=> InUse(x)) /\ (UsesModel(x)' <=> UsesModel(x))
                     /\ (Loading(x)' <=> Loading(x)) /\ (OfThisLife(x)' <=> OfThisLife(x))
  BY DEF InUse, UsesModel, Loading, OfThisLife
<1>3. Captured'
  BY <1>1, <1>2 DEF Core, Captured
<1>4. Types' /\ Ordered' /\ Unloads' /\ Unloaded' /\ Shut'
  BY <1>1 DEF Core, Types, Ordered, Unloads, Unloaded, Shut
<1>5. InTurn'
  BY <1>1 DEF InTurn
<1> QED
  BY <1>3, <1>4, <1>5 DEF IInv, Core

LEMMA ListeningKeeps ==
    ASSUME IInv, Listening
    PROVE  IInv'
<1>1. /\ host = "starting" /\ host' = "up" /\ \E b : boot' = [boot EXCEPT ![life] = b]
      /\ UNCHANGED <<ops, queue, generation, stopped, life, resident, gate, tests, call, waits>>
  BY DEF Listening, engineVars
<1>2. /\ DOMAIN boot = Lives /\ DOMAIN call = Callers /\ waits \in [Callers -> SUBSET Ops]
      /\ life \in 0..MaxLives /\ MaxLives \in Nat
      /\ \A l \in Lives : l > life => boot[l].pc = "none"
  BY LivesAssumption DEF IInv, Core, Types, InTurn
<1>3. \A l \in Lives : l > life => l # life
  BY <1>2 DEF Lives
<1>4. DOMAIN boot' = Lives /\ \A l \in Lives : l > life => boot'[l].pc = "none"
  BY <1>1, <1>2, <1>3
<1> QED
  BY <1>1, <1>2, <1>4, HostMoves

LEMMA TeardownKeeps ==
    ASSUME IInv, Teardown
    PROVE  IInv'
<1>1. /\ Core /\ Shut /\ InTurn /\ host = "up" /\ host' = "stopping"
      /\ boot' = [l \in Lives |-> IF Booting(l) THEN [boot[l] EXCEPT !.killed = TRUE] ELSE boot[l]]
      /\ UNCHANGED <<ops, queue, generation, stopped, life, resident, gate, call, waits>>
  BY DEF IInv, Teardown, engineVars
<1>2. DOMAIN call = Callers /\ waits \in [Callers -> SUBSET Ops] /\ life # 0
  BY <1>1 DEF Core, Types, InTurn
<1>3. \A l \in Lives : l > life => boot'[l].pc = "none"
  BY <1>1 DEF InTurn, Booting
<1>4. \A x \in Ops : (InUse(x)' <=> InUse(x)) /\ (UsesModel(x)' <=> UsesModel(x))
                     /\ (Loading(x)' <=> Loading(x)) /\ (OfThisLife(x)' <=> OfThisLife(x))
  BY <1>1 DEF InUse, UsesModel, Loading, OfThisLife
<1>5. Captured'
  BY <1>1, <1>4 DEF Core, Captured
<1>6. Types' /\ Ordered' /\ Unloads' /\ Unloaded' /\ Shut'
  BY <1>1 DEF Core, Types, Ordered, Unloads, Unloaded, Shut
<1>7. InTurn'
  BY <1>1, <1>2, <1>3 DEF InTurn
<1> QED
  BY <1>5, <1>6, <1>7 DEF IInv, Core

LEMMA DrainForStopKeeps ==
    ASSUME IInv, DrainForStop
    PROVE  IInv'
<1>1. /\ Core /\ host = "stopping" /\ host' = "draining" /\ Join(Stop)
      /\ UNCHANGED <<ops, queue, generation, stopped, life, resident, gate, boot, tests>>
  BY DEF IInv, DrainForStop, admission
<1>2. /\ \E x : call' = [call EXCEPT ![Stop] = x]
      /\ \E w \in SUBSET Ops : waits' = [waits EXCEPT ![Stop] = w]
  BY <1>1, JoinIsACall DEF Callers
<1>3. /\ DOMAIN boot = Lives /\ DOMAIN call = Callers /\ waits \in [Callers -> SUBSET Ops]
      /\ \A l \in Lives : l > life => boot[l].pc = "none"
  BY DEF IInv, Core, Types, InTurn
<1>4. DOMAIN call' = Callers /\ waits' \in [Callers -> SUBSET Ops]
  BY <1>2, <1>3
<1> QED
  BY <1>1, <1>3, <1>4, HostMoves

\* The operations that may use the model are in the queue that shutdown drains.
LEMMA ShutdownKeeps ==
    ASSUME IInv, Shutdown
    PROVE  IInv'
<1>1. /\ Core /\ InTurn /\ host = "draining" /\ host' = "unloading" /\ stopped' = TRUE
      /\ generation' = generation + 1 /\ Dispose(Stop)
      /\ UNCHANGED <<ops, queue, life, resident, gate, boot, tests>>
  BY DEF IInv, Shutdown, admission
<1>2. /\ DOMAIN call = Callers /\ waits \in [Callers -> SUBSET Ops] /\ generation \in Nat
      /\ ops \in [Ops -> OpRecords]
  BY <1>1 DEF Core, Types
<1>3. ToSet(queue) \in SUBSET Ops
  BY <1>1, QueueIsOfOps DEF Core
<1>4. /\ DOMAIN call' = Callers /\ waits' \in [Callers -> SUBSET Ops]
      /\ call'[Stop] = "drain" /\ waits'[Stop] = ToSet(queue)
  BY <1>1, <1>2, <1>3 DEF Dispose, Callers
<1>5. \A x \in Ops : (InUse(x)' <=> InUse(x)) /\ (UsesModel(x)' <=> UsesModel(x))
                     /\ (Loading(x)' <=> Loading(x)) /\ (InUse(x) => ops[x].pc \in QueuePlaces)
  BY <1>1 DEF InUse, UsesModel, Loading
<1>6. \A x \in Ops : ops[x].gen \in Nat /\ ops[x].gen <= generation
  BY <1>1, <1>2 DEF Core, Captured, OpRecords
<1>7. Captured'
  <2>1. \A x \in Ops : ops[x].gen <= generation' /\ ops[x].gen < generation'
    BY <1>1, <1>2, <1>6
  <2> QED
    BY <1>1, <1>5, <2>1 DEF Core, Captured
<1>8. Unloads'
  <2>1. \A x \in Ops : InUse(x) => x \in ToSet(queue)
    BY <1>1, <1>5, QueueIsOfOps DEF Core, Ordered
  <2> QED
    BY <1>1, <1>4, <1>5, <2>1 DEF Unloads
<1>9. Types'
  BY <1>1, <1>2, <1>4 DEF Core, Types
<1>10. Ordered' /\ Unloaded' /\ Shut' /\ InTurn'
  BY <1>1 DEF Core, Ordered, Unloaded, Shut, InTurn
<1> QED
  BY <1>7, <1>8, <1>9, <1>10 DEF IInv, Core

LEMMA StopEndsKeeps ==
    ASSUME IInv, StopEnds
    PROVE  IInv'
<1>1. /\ Core /\ InTurn /\ host = "unloading" /\ host' = "down" /\ call[Stop] = "disposed"
      /\ call' = [call EXCEPT ![Stop] = "none"] /\ gate' = "settled"
      /\ UNCHANGED <<ops, queue, resident, generation, stopped, waits, life, boot, tests>>
  BY DEF IInv, StopEnds, flags
<1>2. stopped /\ resident = NoModel /\ \A x \in Ops : ~InUse(x)
  BY <1>1 DEF Core, Unloads
<1>3. \A x \in Ops : (InUse(x)' <=> InUse(x)) /\ (UsesModel(x)' <=> UsesModel(x))
                     /\ (Loading(x)' <=> Loading(x)) /\ (OfThisLife(x) => InUse(x))
                     /\ (OfThisLife(x)' <=> OfThisLife(x))
  BY <1>1 DEF InUse, UsesModel, Loading, OfThisLife
<1>4. Captured'
  BY <1>1, <1>2, <1>3 DEF Core, Captured
<1>5. Unloads' /\ Unloaded' /\ Shut'
  BY <1>1, <1>2, <1>3 DEF Unloads, Unloaded, Shut
<1>6. Types' /\ Ordered' /\ InTurn'
  BY <1>1 DEF Core, Types, Ordered, InTurn
<1> QED
  BY <1>4, <1>5, <1>6 DEF IInv, Core

\* A start changes the generation, so what waited across the stop fails.
LEMMA StartKeeps ==
    ASSUME IInv, Start
    PROVE  IInv'
<1>1. /\ Core /\ InTurn /\ host = "down" /\ host' = "starting"
      /\ life < MaxLives /\ life' = life + 1 /\ stopped' = FALSE
      /\ generation' = generation + 1 /\ gate' = "armed"
      /\ UNCHANGED <<ops, queue, resident, call, waits, boot, tests>>
  BY DEF IInv, Start
<1>2. /\ generation \in Nat /\ ops \in [Ops -> OpRecords]
      /\ life \in 0..MaxLives /\ MaxLives \in Nat
  BY <1>1, LivesAssumption DEF Core, Types
<1>3. resident = NoModel /\ \A x \in Ops : ~InUse(x)
  BY <1>1 DEF Core, Unloaded
<1>4. \A x \in Ops : (InUse(x)' <=> InUse(x)) /\ (UsesModel(x)' <=> UsesModel(x))
                     /\ (Loading(x)' <=> Loading(x)) /\ (OfThisLife(x)' => InUse(x))
  BY <1>1 DEF InUse, UsesModel, Loading, OfThisLife
<1>5. \A x \in Ops : ops[x].gen <= generation' /\ ops[x].gen < generation'
  <2>1. \A x \in Ops : ops[x].gen \in Nat /\ ops[x].gen <= generation
    BY <1>1, <1>2 DEF Core, Captured, OpRecords
  <2> QED
    BY <1>1, <1>2, <2>1
<1>6. Captured'
  BY <1>1, <1>3, <1>4, <1>5 DEF Core, Captured
<1>7. life' \in Lives /\ life' # 0 /\ \A l \in Lives : l > life' => l > life
  BY <1>1, <1>2 DEF Lives
<1>8. Unloads' /\ Unloaded' /\ Shut' /\ InTurn'
  <2>1. life' > life
    BY <1>1, <1>2
  <2>2. boot[life'].pc = "none"
    BY <1>1, <1>7, <2>1 DEF InTurn
  <2> QED
    BY <1>1, <1>3, <1>4, <1>7, <2>2 DEF Unloads, Unloaded, Shut, Armed, InTurn
<1>9. Types' /\ Ordered'
  <2>1. life' \in 0..MaxLives /\ generation' \in Nat
    BY <1>1, <1>2
  <2> QED
    BY <1>1, <2>1 DEF Core, Types, Ordered
<1> QED
  BY <1>6, <1>8, <1>9 DEF IInv, Core

LEMMA StartFailsKeeps ==
    ASSUME IInv, StartFails
    PROVE  IInv'
<1>1. /\ Core /\ Shut /\ InTurn /\ host = "starting" /\ host' \in {"down", "stopping"}
      /\ UNCHANGED <<ops, queue, resident, generation, stopped, life, gate, boot, tests, call, waits>>
  BY DEF IInv, StartFails, engineVars
<1>2. \A x \in Ops : (InUse(x)' <=> InUse(x)) /\ (UsesModel(x)' <=> UsesModel(x))
                     /\ (Loading(x)' <=> Loading(x)) /\ (OfThisLife(x)' <=> OfThisLife(x))
  BY <1>1 DEF InUse, UsesModel, Loading, OfThisLife
<1>3. Captured'
  BY <1>1, <1>2 DEF Core, Captured
<1>4. Types' /\ Ordered' /\ Unloads' /\ Unloaded' /\ Shut' /\ InTurn'
  BY <1>1, <1>2 DEF Core, Types, Ordered, Unloads, Unloaded, Shut, Armed, InTurn
<1> QED
  BY <1>3, <1>4 DEF IInv, Core

-----------------------------------------------------------------------------
(* The theorems.                                                           *)

LEMMA InitHolds == Init => IInv
<1> SUFFICES ASSUME Init PROVE IInv
  OBVIOUS
<1>1. /\ ops = [o \in Ops |-> Idle] /\ queue = <<>> /\ resident = NoModel /\ stopped = FALSE
      /\ generation = 0 /\ gate = "settled" /\ host = "down" /\ life = 0
      /\ call = [c \in Callers |-> "none"] /\ waits = [c \in Callers |-> {}]
      /\ boot = [l \in Lives |-> NoBoot] /\ tests = [f \in Flights |-> NoTest]
  BY DEF Init, EngineInit
<1>2. \A o \in Ops : ops[o] = Idle
  BY <1>1
<1>3. Types
  <2>1. ops \in [Ops -> OpRecords] /\ queue \in Seq(Ops)
    BY <1>1, IdleIsARecord
  <2>2. DOMAIN call = Callers /\ waits \in [Callers -> SUBSET Ops] /\ DOMAIN boot = Lives
    BY <1>1
  <2>3. life \in 0..MaxLives /\ generation \in Nat
    BY <1>1, LivesAssumption
  <2> QED
    BY <1>1, <2>1, <2>2, <2>3 DEF Types
<1>4. Ordered /\ Captured
  <2>1. Len(queue) = 0
    BY <1>1
  <2>2. Ordered
    BY <1>2, <2>1, IdleIsARecord DEF Ordered, QueuePlaces
  <2>3. Captured
    BY <1>1, <1>2, IdleIsARecord DEF Captured, Loading, UsesModel, OfThisLife, InUse
  <2> QED
    BY <2>2, <2>3
<1>5. Unloads /\ Unloaded /\ Shut
  BY <1>1, <1>2, IdleIsARecord DEF Unloads, Unloaded, Shut, InUse, UsesModel
<1>6. InTurn
  BY <1>1, <1>2 DEF InTurn, NoBoot, NoTest
<1> QED
  BY <1>3, <1>4, <1>5, <1>6 DEF IInv, Core

LEMMA NextKeeps == IInv /\ [Next]_vars => IInv'
<1> SUFFICES ASSUME IInv, [Next]_vars PROVE IInv'
  OBVIOUS
<1>1. CASE UNCHANGED vars
  <2>1. UNCHANGED <<ops, queue, resident, generation, stopped, host, life, gate, boot, tests, call, waits>>
    BY <1>1 DEF vars, engineVars, hostVars
  <2>2. Core' /\ Shut' /\ InTurn'
    BY <2>1, CallKeeps, HostStays DEF IInv, Core, Types
  <2> QED
    BY <2>2 DEF IInv
<1>2. CASE Reaction
  BY <1>2, EngineKeeps, WarmAfterBootKeeps, TestStepKeeps, ShutdownKeeps, StopEndsKeeps DEF Reaction
<1>3. CASE Completion
  BY <1>3, EngineKeeps, BootStepKeeps, TestProbedKeeps, ListeningKeeps, TeardownKeeps,
     DrainForStopKeeps DEF Completion
<1>4. CASE Request
  BY <1>4, EngineKeeps, CallTestKeeps, StartKeeps, StartFailsKeeps, StopCalledKeeps DEF Request
<1> QED
  BY <1>1, <1>2, <1>3, <1>4 DEF Next

\* A host that is down or starting has no resident model, and no query or
\* warmup is under way in the engine or in its queue, however many lives,
\* queries and GPU tests there are and whatever flights outlive a stop.
THEOREM DownHasNoModel == Spec => []DownIsUnloaded
<1>1. IInv => DownIsUnloaded
  BY DEF IInv, Core, Types, Unloaded, Captured, DownIsUnloaded, InUse, OpRecords, Places, UsesModel
<1> QED
  BY <1>1, InitHolds, NextKeeps, PTL DEF Spec

\* Whatever loads or generates while the host is up is of this life: what a
\* stop and a start overtook at the gate, in retrieval or in the queue fails.
THEOREM OnlyThisLifeLoads == Spec => []OldQueriesFail
<1>1. IInv => OldQueriesFail
  <2> SUFFICES ASSUME IInv, host = "up", NEW o \in Ops, Local(o) \/ Loading(o)
               PROVE  ops[o].gen = generation
    BY DEF OldQueriesFail
  <2>1. UsesModel(o) /\ ops[o].pc \in QueuePlaces \ {"queued"}
    BY DEF Local, Loading, UsesModel, QueuePlaces, IInv, Core, Captured
  <2> QED
    BY <2>1 DEF IInv, Core, Captured, OfThisLife, InUse
<1> QED
  BY <1>1, InitHolds, NextKeeps, PTL DEF Spec

=============================================================================
