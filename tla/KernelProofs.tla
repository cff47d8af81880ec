---------------------------- MODULE KernelProofs ----------------------------
(***************************************************************************)
(* Proofs about KernelScheduler, for every size of the process table, each *)
(* scheduler type and every configuration.                                 *)
(***************************************************************************)
EXTENDS KernelScheduler, TLAPS, WellFoundedInduction

-----------------------------------------------------------------------------
\* Numbers and queues.

\* A non-empty set of natural numbers has a least element.
LEMMA LeastElement ==
  ASSUME NEW S, S \subseteq Nat, S # {}
  PROVE  \E m \in S : \A x \in S : m <= x
<1>1. PICK m \in S : \A y \in S : ~(<<y, m>> \in OpToRel(<, Nat))
  BY NatLessThanWellFounded, WFMin
<1>2. \A y \in S : ~(y < m)
  BY <1>1 DEF OpToRel
<1> QED
  BY <1>2

\* Induction up to N, for the set of numbers that have a property.
LEMMA UpTo ==
  ASSUME NEW N \in Nat, NEW P, 0 \in P, \A n \in 0..N : n # N /\ n \in P => n + 1 \in P
  PROVE  \A n \in 0..N : n \in P
<1> DEFINE Bad == {n \in 0..N : n \notin P}
<1> SUFFICES ASSUME Bad # {} PROVE FALSE
  OBVIOUS
<1>1. PICK m \in Bad : \A n \in Bad : m <= n
  <2>1. Bad \subseteq Nat
    OBVIOUS
  <2> QED
    BY <2>1, LeastElement
<1>2. m \in 1..N /\ m - 1 \in 0..N /\ m - 1 # N
  BY <1>1
<1>3. m - 1 \in P
  BY <1>1, <1>2
<1> QED
  BY <1>1, <1>2, <1>3

\* g[n] are the nodes of the first n that are in S, for n up to m.
Kept(g, m, q, S, T) ==
  /\ g \in [0..m -> Seq(T)]
  /\ g[0] = <<>>
  /\ \A n \in 1..m : g[n] = IF q[n] \in S THEN Append(g[n - 1], q[n]) ELSE g[n - 1]

\* The recursive function of NodesIn exists.
LEMMA KeptExists ==
  ASSUME NEW T, NEW q \in Seq(T), NEW S
  PROVE  \E g : Kept(g, Len(q), q, S, T)
<1> DEFINE P == {m \in 0..Len(q) : \E g : Kept(g, m, q, S, T)}
<1>1. Len(q) \in Nat /\ \A n \in 1..Len(q) : q[n] \in T
  OBVIOUS
<1>2. 0 \in P
  <2>1. Kept([n \in 0..0 |-> <<>>], 0, q, S, T)
    BY DEF Kept
  <2>2. 0 \in 0..Len(q)
    BY <1>1
  <2> QED
    BY <2>1, <2>2, Zenon
<1>3. ASSUME NEW m \in 0..Len(q), m # Len(q), m \in P PROVE m + 1 \in P
  <2>1. PICK g : Kept(g, m, q, S, T)
    BY <1>3
  <2> DEFINE new == IF q[m + 1] \in S THEN Append(g[m], q[m + 1]) ELSE g[m]
             h == [n \in 0..(m + 1) |-> IF n = m + 1 THEN new ELSE g[n]]
  <2>2. new \in Seq(T)
    BY <1>1, <1>3, <2>1 DEF Kept
  <2>3. h \in [0..(m + 1) -> Seq(T)] /\ h[0] = <<>>
    BY <1>1, <2>1, <2>2 DEF Kept
  <2>4. \A n \in 1..(m + 1) : h[n] = IF q[n] \in S THEN Append(h[n - 1], q[n]) ELSE h[n - 1]
    BY <1>1, <2>1 DEF Kept
  <2>5. Kept(h, m + 1, q, S, T)
    BY <2>3, <2>4 DEF Kept
  <2>6. m + 1 \in 0..Len(q)
    BY <1>1, <1>3
  <2> QED
    BY <2>5, <2>6, Zenon
<1>4. Len(q) \in P
  <2> HIDE DEF P
  <2>1. \A m \in 0..Len(q) : m \in P
    BY <1>1, <1>2, <1>3, UpTo
  <2> QED
    BY <1>1, <2>1
<1> QED
  BY <1>4, Zenon

\* NodesIn takes one node after the other.
LEMMA NodesInUnfolds ==
  ASSUME NEW T, NEW q \in Seq(T), NEW S
  PROVE  \E kept : NodesIn(q, S) = kept[Len(q)] /\ Kept(kept, Len(q), q, S, T)
<1> DEFINE N == Len(q)
           Body(f) == [n \in 0..N |-> IF n = 0 THEN <<>>
                                      ELSE IF q[n] \in S THEN Append(f[n - 1], q[n])
                                      ELSE f[n - 1]]
           kept == CHOOSE f : f = Body(f)
<1>1. N \in Nat /\ \A n \in 1..N : q[n] \in T
  OBVIOUS
<1>2. NodesIn(q, S) = kept[N]
  BY DEF NodesIn
<1>3. kept = Body(kept)
  <2>1. PICK g : Kept(g, N, q, S, T)
    BY KeptExists
  <2>2. g \in [0..N -> Seq(T)] /\ DOMAIN g = 0..N
    BY <2>1 DEF Kept
  <2>3. ASSUME NEW n \in 0..N PROVE g[n] = Body(g)[n]
    <3>1. CASE n = 0
      BY <2>1, <2>3, <3>1, Zenon DEF Kept
    <3>2. CASE n \in 1..N
      BY <2>1, <2>3, <3>2 DEF Kept
    <3> QED
      BY <1>1, <2>3, <3>1, <3>2
  <2>4. g = Body(g)
    BY <2>2, <2>3
  <2> HIDE DEF Body
  <2> QED
    BY <2>4
<1> HIDE DEF kept
<1>4. kept[0] = <<>>
  <2>1. 0 \in 0..N
    BY <1>1
  <2> QED
    BY <1>3, <2>1, Zenon
<1>5. \A n \in 1..N : kept[n] = IF q[n] \in S THEN Append(kept[n - 1], q[n]) ELSE kept[n - 1]
  <2>1. \A n \in 1..N : n \in 0..N /\ n # 0
    BY <1>1
  <2> QED
    BY <1>3, <2>1, Zenon
<1>6. \A n \in 0..N : kept[n] \in Seq(T)
  <2> DEFINE P == {n \in 0..N : kept[n] \in Seq(T)}
  <2>1. 0 \in P
    <3>1. 0 \in 0..N /\ <<>> \in Seq(T)
      BY <1>1
    <3> QED
      BY <1>4, <3>1, Zenon
  <2>2. ASSUME NEW n \in 0..N, n # N, n \in P PROVE n + 1 \in P
    <3>1. n + 1 \in 1..N /\ n + 1 \in 0..N /\ (n + 1) - 1 = n
      BY <1>1, <2>2
    <3>2. kept[n + 1] = IF q[n + 1] \in S THEN Append(kept[n], q[n + 1]) ELSE kept[n]
      BY <1>5, <3>1
    <3>3. kept[n + 1] \in Seq(T)
      BY <1>1, <2>2, <3>1, <3>2
    <3> QED
      BY <3>1, <3>3
  <2> HIDE DEF P
  <2>3. \A n \in 0..N : n \in P
    BY <1>1, <2>1, <2>2, UpTo
  <2> QED
    BY <2>3 DEF P
<1>7. kept \in [0..N -> Seq(T)]
  BY <1>3, <1>6
<1>8. Kept(kept, N, q, S, T)
  BY <1>4, <1>5, <1>7 DEF Kept
<1> QED
  BY <1>2, <1>8

\* NodesIn keeps the nodes in S and no others.
LEMMA NodesInMembers ==
  ASSUME NEW T, NEW q \in Seq(T), NEW S
  PROVE  /\ NodesIn(q, S) \in Seq(T)
         /\ \A x : Contains(NodesIn(q, S), x) <=> x \in S /\ Contains(q, x)
<1> DEFINE N == Len(q)
<1>1. N \in Nat /\ \A n \in 1..N : q[n] \in T
  OBVIOUS
<1>2. PICK kept : NodesIn(q, S) = kept[N] /\ Kept(kept, N, q, S, T)
  BY NodesInUnfolds
<1> DEFINE P == {n \in 0..N : \A x : (\E i \in 1..Len(kept[n]) : kept[n][i] = x)
                                   <=> x \in S /\ \E i \in 1..n : q[i] = x}
<1>3. 0 \in P
  <2>1. 0 \in 0..N /\ kept[0] = <<>>
    BY <1>1, <1>2 DEF Kept
  <2>2. Len(kept[0]) = 0
    BY <2>1
  <2> QED
    BY <2>1, <2>2
<1>4. ASSUME NEW n \in 0..N, n # N, n \in P PROVE n + 1 \in P
  <2>1. n + 1 \in 0..N /\ n + 1 \in 1..N /\ (n + 1) - 1 = n
    BY <1>1, <1>4
  <2>2. /\ kept[n] \in Seq(T)
        /\ kept[n + 1] = IF q[n + 1] \in S THEN Append(kept[n], q[n + 1]) ELSE kept[n]
    BY <1>2, <2>1 DEF Kept
  <2>3. \A x : (\E i \in 1..(n + 1) : q[i] = x) <=> x = q[n + 1] \/ \E i \in 1..n : q[i] = x
    BY <1>1, <1>4
  <2>4. \A x : (\E i \in 1..Len(kept[n + 1]) : kept[n + 1][i] = x)
                <=> (\E i \in 1..Len(kept[n]) : kept[n][i] = x) \/ (x = q[n + 1] /\ x \in S)
    <3>1. CASE q[n + 1] \in S
      <4>1. /\ Len(kept[n + 1]) = Len(kept[n]) + 1 /\ kept[n + 1][Len(kept[n]) + 1] = q[n + 1]
            /\ \A i \in 1..Len(kept[n]) : kept[n + 1][i] = kept[n][i]
        BY <2>2, <3>1, <1>1, <2>1
      <4> QED
        BY <2>2, <3>1, <4>1
    <3>2. CASE q[n + 1] \notin S
      BY <2>2, <3>2
    <3> QED
      BY <3>1, <3>2
  <2> QED
    BY <1>4, <2>1, <2>3, <2>4
<1>5. N \in P
  <2> HIDE DEF P
  <2>1. \A n \in 0..N : n \in P
    BY <1>1, <1>3, <1>4, UpTo
  <2> QED
    BY <1>1, <2>1
<1>6. kept[N] \in Seq(T)
  BY <1>1, <1>2 DEF Kept
<1> QED
  BY <1>2, <1>5, <1>6 DEF Contains

\* Two queues one after the other.
LEMMA Concatenation ==
  ASSUME NEW T, NEW a \in Seq(T), NEW b \in Seq(T)
  PROVE  /\ a \o b \in Seq(T)
         /\ Len(a \o b) = Len(a) + Len(b)
         /\ \A i \in 1..Len(a) : (a \o b)[i] = a[i]
         /\ \A i \in 1..Len(b) : (a \o b)[Len(a) + i] = b[i]
OBVIOUS

\* The queue r is q without node k.
Without(r, q, k) ==
  /\ Len(r) = Len(q) - 1
  /\ \A i \in 1..(Len(q) - 1) : r[i] = IF i < k THEN q[i] ELSE q[i + 1]

\* RemoveFirst takes away one node of e, if there is one.
LEMMA RemoveFirstShape ==
  ASSUME NEW T, NEW q \in Seq(T), NEW e
  PROVE  /\ ~Contains(q, e) => RemoveFirst(q, e) = q
         /\ Contains(q, e) => /\ RemoveFirst(q, e) \in Seq(T)
                              /\ \E k \in 1..Len(q) : q[k] = e /\ Without(RemoveFirst(q, e), q, k)
<1>1. CASE ~Contains(q, e)
  BY <1>1 DEF RemoveFirst, Contains
<1>2. CASE Contains(q, e)
  <2> DEFINE I == {i \in 1..Len(q) : q[i] = e}
  <2>1. PICK m \in I : \A i \in I : m <= i
    <3>1. I \subseteq Nat /\ I # {}
      BY <1>2 DEF Contains
    <3> QED
      BY <3>1, LeastElement
  <2>2. Min(I) \in I
    BY <2>1 DEF Min
  <2>3. RemoveFirst(q, e) = RemoveAt(q, Min(I))
    BY <1>2, <2>1 DEF RemoveFirst, SelectInSeq, Contains
  <2> DEFINE k == Min(I)
             r == RemoveAt(q, k)
  <2>4. k \in 1..Len(q) /\ q[k] = e
    BY <2>2
  <2> HIDE DEF k
  <2>5. r \in Seq(T) /\ Without(r, q, k)
    <3> DEFINE a == SubSeq(q, 1, k - 1)
               b == SubSeq(q, k + 1, Len(q))
    <3>1. a \in Seq(T) /\ Len(a) = k - 1 /\ \A i \in 1..(k - 1) : a[i] = q[i]
      BY <2>4
    <3>2. b \in Seq(T) /\ Len(b) = Len(q) - k /\ \A i \in 1..(Len(q) - k) : b[i] = q[i + k]
      BY <2>4
    <3>3. r = a \o b
      BY DEF RemoveAt
    <3> HIDE DEF a, b, r
    <3>4. /\ r \in Seq(T) /\ Len(r) = Len(a) + Len(b)
          /\ \A i \in 1..Len(a) : r[i] = a[i]
          /\ \A i \in 1..Len(b) : r[Len(a) + i] = b[i]
      BY <3>1, <3>2, <3>3, Concatenation
    <3>5. ASSUME NEW i \in 1..(Len(q) - 1)
          PROVE  r[i] = IF i < k THEN q[i] ELSE q[i + 1]
      <4>1. CASE i < k
        BY <2>4, <3>1, <3>2, <3>4, <4>1
      <4>2. CASE i >= k
        <5>1. /\ i - (k - 1) \in 1..(Len(q) - k) /\ (i - (k - 1)) + k = i + 1
              /\ (k - 1) + (i - (k - 1)) = i
          BY <2>4, <4>2
        <5>2. r[i] = b[i - (k - 1)]
          BY <3>1, <3>2, <3>4, <5>1
        <5>3. b[i - (k - 1)] = q[i + 1]
          BY <3>2, <5>1
        <5>4. ~(i < k)
          BY <2>4, <4>2
        <5> QED
          BY <5>2, <5>3, <5>4
      <4> QED
        BY <2>4, <4>1, <4>2
    <3> QED
      BY <2>4, <3>1, <3>2, <3>4, <3>5 DEF Without
  <2>6. RemoveFirst(q, e) = r
    BY <2>3 DEF r, k
  <2> HIDE DEF r
  <2> QED
    BY <1>2, <2>4, <2>5, <2>6
<1> QED
  BY <1>1, <1>2

\* It takes away nothing else.
LEMMA RemoveFirstMembers ==
  ASSUME NEW T, NEW q \in Seq(T), NEW e
  PROVE  /\ RemoveFirst(q, e) \in Seq(T)
         /\ \A x : x # e => (Contains(RemoveFirst(q, e), x) <=> Contains(q, x))
<1>1. CASE ~Contains(q, e)
  BY <1>1, RemoveFirstShape
<1>2. CASE Contains(q, e)
  <2> DEFINE r == RemoveFirst(q, e)
  <2>1. PICK k \in 1..Len(q) : q[k] = e /\ Without(r, q, k)
    BY <1>2, RemoveFirstShape
  <2>2. /\ r \in Seq(T) /\ Len(r) = Len(q) - 1
        /\ \A i \in 1..(Len(q) - 1) : r[i] = IF i < k THEN q[i] ELSE q[i + 1]
    BY <1>2, <2>1, RemoveFirstShape DEF Without
  <2> HIDE DEF r
  <2>3. ASSUME NEW x, x # e
        PROVE  (\E i \in 1..Len(r) : r[i] = x) <=> (\E i \in 1..Len(q) : q[i] = x)
    <3>1. ASSUME NEW i \in 1..Len(r), r[i] = x PROVE \E j \in 1..Len(q) : q[j] = x
      <4>1. i \in 1..Len(q) /\ i + 1 \in 1..Len(q) /\ (r[i] = q[i] \/ r[i] = q[i + 1])
        BY <2>1, <2>2, <3>1
      <4> QED
        BY <3>1, <4>1
    <3>2. ASSUME NEW i \in 1..Len(q), q[i] = x PROVE \E j \in 1..Len(r) : r[j] = x
      <4>1. CASE i < k
        BY <2>1, <2>2, <3>2, <4>1
      <4>2. CASE i > k
        <5>1. i - 1 \in 1..Len(r) /\ r[i - 1] = q[i]
          BY <2>1, <2>2, <3>2, <4>2
        <5> QED
          BY <3>2, <5>1
      <4>3. i # k
        BY <2>1, <2>3, <3>2
      <4> QED
        BY <2>1, <4>1, <4>2, <4>3
    <3> QED
      BY <3>1, <3>2
  <2> QED
    BY <2>2, <2>3 DEF Contains, r
<1> QED
  BY <1>1, <1>2

-----------------------------------------------------------------------------
\* The process table and the ready queues.

Tables == [Slots -> PcbType]
ReadyQueues == [Queues -> Seq(Slots)]

\* What scheduler_schedule reads and writes.
Contexts == [pcb : Tables, ready : ReadyQueues, cur : Slots \cup {NULL},
             resched : BOOLEAN, orderly : BOOLEAN]

\* Only the current process and the idle process are RUNNING.
OneRuns(table, cur) ==
  \A p \in Slots : table[p].state = "RUNNING" => p = cur \/ p = IdleProcess

\* Nobody starts to wait between the two tables.
NoNewWaiter(from, to) ==
  \A p \in Slots : to[p].state \in {"BLOCKED", "SLEEPING"} => to[p].state = from[p].state

\* The idle process has a PCB, and PCB numbers and queue numbers are numbers.
LEMMA Numbers ==
  ASSUME sched_type \in DOMAIN MaxProcesses
  PROVE  /\ IdleProcess \in Slots /\ Slots \subseteq Nat /\ NULL \notin Slots
         /\ 0 \in Queues /\ Queues \subseteq Nat
         /\ IsMLFQ => Queues = 0..(PriorityLevels - 1)
BY KernelConstants DEF IdleProcess, Slots, NULL, Queues

\* A changed entry keeps the table well typed.
LEMMA TableUpdate ==
  ASSUME NEW table \in Tables, NEW p \in Slots, NEW b \in PcbType
  PROVE  [table EXCEPT ![p] = b] \in Tables
BY DEF Tables

\* pcb_set_state changes one state and no pid.
LEMMA SetState ==
  ASSUME NEW table \in Tables, NEW p \in Slots, NEW st \in States
  PROVE  /\ pcb_set_state(table, p, st) \in Tables
         /\ \A r \in Slots : pcb_set_state(table, p, st)[r].state
                               = IF r = p THEN st ELSE table[r].state
         /\ \A r \in Slots : pcb_set_state(table, p, st)[r].pid = table[r].pid
BY DEF Tables, PcbType, pcb_set_state

\* A process joins a ready queue that exists.
LEMMA Joins ==
  ASSUME sched_type \in DOMAIN MaxProcesses,
         NEW q \in ReadyQueues, NEW table \in Tables, NEW p \in Slots
  PROVE  add_to_ready_queue_internal(q, table, p) \in ReadyQueues
<1>1. QueueOf(table, p) \in Queues
  <2>1. table[p].level \in 0..(PriorityLevels - 1)
    BY DEF Tables, PcbType
  <2> QED
    BY <2>1, Numbers DEF QueueOf
<1>2. \A i \in Queues : Append(q[i], p) \in Seq(Slots)
  BY DEF ReadyQueues
<1> QED
  BY <1>1, <1>2 DEF add_to_ready_queue_internal, ReadyQueues

\* A process leaves the ready queue.
LEMMA Leaves ==
  ASSUME sched_type \in DOMAIN MaxProcesses, NEW q \in ReadyQueues, NEW p \in Slots
  PROVE  remove_from_ready_queue_internal(q, p) \in ReadyQueues
<1>1. 0 \in Queues /\ q[0] \in Seq(Slots)
  BY Numbers DEF ReadyQueues
<1>2. RemoveFirst(q[0], p) \in Seq(Slots)
  BY <1>1, RemoveFirstMembers
<1> QED
  BY <1>1, <1>2 DEF remove_from_ready_queue_internal, ReadyQueues

\* get_next_process dequeues a process, or nothing when all queues are empty.
LEMMA NextProcess ==
  ASSUME sched_type \in DOMAIN MaxProcesses, NEW q \in ReadyQueues
  PROVE  /\ get_next_process(q).chosen \in Slots \cup {NULL}
         /\ get_next_process(q).left \in ReadyQueues
<1>1. CASE NonEmpty(q) = {}
  BY <1>1 DEF get_next_process
<1>2. CASE NonEmpty(q) # {}
  <2>1. First(q) \in NonEmpty(q)
    <3>1. NonEmpty(q) \subseteq Nat
      BY Numbers DEF NonEmpty
    <3>2. \E m \in NonEmpty(q) : \A j \in NonEmpty(q) : m <= j
      BY <1>2, <3>1, LeastElement
    <3> QED
      BY <3>2 DEF First
  <2>2. First(q) \in Queues /\ q[First(q)] \in Seq(Slots) /\ q[First(q)] # <<>>
    BY <2>1 DEF NonEmpty, ReadyQueues
  <2>3. Head(q[First(q)]) \in Slots /\ Tail(q[First(q)]) \in Seq(Slots)
    BY <2>2
  <2> HIDE DEF First
  <2> QED
    BY <1>2, <2>2, <2>3 DEF get_next_process, ReadyQueues
<1> QED
  BY <1>1, <1>2

\* With one ready queue, what joins or leaves it.
LEMMA OneQueue ==
  ASSUME sched_type \in DOMAIN MaxProcesses, ~IsMLFQ,
         NEW q \in ReadyQueues, NEW table, NEW p
  PROVE  /\ q[0] \in Seq(Slots)
         /\ table[p].state = "READY"
              => add_to_ready_queue_internal(q, table, p)[0] = Append(q[0], p)
         /\ remove_from_ready_queue_internal(q, p)[0] = RemoveFirst(q[0], p)
<1>1. 0 \in Queues /\ DOMAIN q = Queues /\ q[0] \in Seq(Slots)
  BY Numbers DEF ReadyQueues
<1> QED
  BY <1>1 DEF add_to_ready_queue_internal, remove_from_ready_queue_internal, QueueOf

\* The process that scheduler_schedule runs next, and whether it puts back the
\* one that ran.
ToRun(q) ==
  IF get_next_process(q).chosen = NULL THEN IdleProcess ELSE get_next_process(q).chosen
GoesBack(t) == t.cur # NULL /\ t.cur # IdleProcess /\ t.pcb[t.cur].state = "RUNNING"

\* scheduler_schedule field by field.
LEMMA Switched ==
  ASSUME sched_type \in DOMAIN MaxProcesses, NEW t \in Contexts, NEW r,
         r = scheduler_schedule(t)
  PROVE  /\ r \in Contexts
         /\ ToRun(t.ready) \in Slots /\ r.cur = ToRun(t.ready)
         /\ t.cur = ToRun(t.ready) =>
              /\ r.pcb = t.pcb /\ r.ready = get_next_process(t.ready).left
              /\ r.orderly <=> t.orderly /\ t.cur = IdleProcess
         /\ t.cur # ToRun(t.ready) =>
              /\ r.orderly = t.orderly
              /\ \A p \in Slots :
                   /\ r.pcb[p].pid = t.pcb[p].pid
                   /\ r.pcb[p].state = IF p = ToRun(t.ready) THEN "RUNNING"
                                       ELSE IF p = t.cur /\ GoesBack(t) THEN "READY"
                                       ELSE t.pcb[p].state
              /\ ~IsMLFQ =>
                   LET left == get_next_process(t.ready).left[0]
                   IN  r.ready[0] = RemoveFirst(IF GoesBack(t) THEN Append(left, t.cur) ELSE left,
                                                ToRun(t.ready))
<1> DEFINE got == get_next_process(t.ready)
           next == ToRun(t.ready)
           c == t.cur
           back == GoesBack(t)
           table == IF back THEN pcb_set_state(t.pcb, c, "READY") ELSE t.pcb
           queue == IF back THEN add_to_ready_queue_internal(got.left, table, c) ELSE got.left
           final == [table EXCEPT ![next].state = "RUNNING", ![next].slice_used = 0]
           out == remove_from_ready_queue_internal(queue, next)
<1>1. /\ t.pcb \in Tables /\ t.ready \in ReadyQueues /\ t.cur \in Slots \cup {NULL}
      /\ t.resched \in BOOLEAN /\ t.orderly \in BOOLEAN
  BY DEF Contexts
<1>2. got.chosen \in Slots \cup {NULL} /\ got.left \in ReadyQueues
  BY <1>1, NextProcess
<1>3. next \in Slots
  BY <1>2, Numbers DEF ToRun
<1>4. r = IF c = next THEN [t EXCEPT !.ready = got.left, !.orderly = @ /\ c = IdleProcess]
          ELSE [pcb |-> final, ready |-> out, cur |-> next, resched |-> FALSE,
                orderly |-> t.orderly]
  BY DEF scheduler_schedule, ToRun, GoesBack
<1>5. /\ table \in Tables
      /\ \A p \in Slots : /\ table[p].state = IF p = c /\ back THEN "READY" ELSE t.pcb[p].state
                          /\ table[p].pid = t.pcb[p].pid
  <2>1. CASE back
    <3>1. c \in Slots /\ "READY" \in States
      BY <1>1, <2>1 DEF States, GoesBack
    <3> QED
      BY <1>1, <2>1, <3>1, SetState
  <2>2. CASE ~back
    BY <1>1, <2>2
  <2> QED
    BY <2>1, <2>2
<1> HIDE DEF got, table, next, back
<1>6. back => c \in Slots /\ table[c].state = "READY"
  BY <1>1, <1>5 DEF back, GoesBack
<1>7. /\ queue \in ReadyQueues
      /\ ~IsMLFQ => queue[0] = IF back THEN Append(got.left[0], c) ELSE got.left[0]
  <2>1. CASE back
    <3>1. queue = add_to_ready_queue_internal(got.left, table, c)
      BY <2>1
    <3>2. queue \in ReadyQueues
      BY <1>2, <1>5, <1>6, <2>1, <3>1, Joins
    <3>3. ASSUME ~IsMLFQ PROVE queue[0] = Append(got.left[0], c)
      BY <1>2, <1>6, <2>1, <3>1, <3>3, OneQueue
    <3> QED
      BY <2>1, <3>2, <3>3
  <2>2. CASE ~back
    BY <1>2, <2>2
  <2> QED
    BY <2>1, <2>2
<1> HIDE DEF queue
<1>8. out \in ReadyQueues /\ (~IsMLFQ => out[0] = RemoveFirst(queue[0], next))
  BY <1>3, <1>7, Leaves, OneQueue
<1>9. /\ final \in Tables
      /\ \A p \in Slots : /\ final[p].state = IF p = next THEN "RUNNING" ELSE table[p].state
                          /\ final[p].pid = table[p].pid
  <2> DEFINE b == [table[next] EXCEPT !.state = "RUNNING", !.slice_used = 0]
  <2>1. b \in PcbType /\ b.state = "RUNNING" /\ b.pid = table[next].pid
    <3>1. 0 \in 0..TimeSlice /\ "RUNNING" \in States /\ table[next] \in PcbType
      BY <1>3, <1>5, KernelConstants DEF Tables, States
    <3> QED
      BY <3>1 DEF PcbType
  <2>2. final = [table EXCEPT ![next] = b]
    BY <1>3, <1>5 DEF Tables
  <2> HIDE DEF b
  <2>3. final \in Tables
    BY <1>3, <1>5, <2>1, <2>2, TableUpdate
  <2> QED
    BY <1>3, <1>5, <2>1, <2>2, <2>3 DEF Tables
<1> HIDE DEF final, out
<1>10. CASE c = next
  <2>1. r = [t EXCEPT !.ready = got.left, !.orderly = @ /\ c = IdleProcess]
    BY <1>4, <1>10
  <2>2. (t.orderly /\ c = IdleProcess) \in BOOLEAN
    OBVIOUS
  <2>3. r \in Contexts /\ r.pcb = t.pcb /\ r.cur = t.cur /\ r.ready = got.left
    BY <1>1, <1>2, <2>1, <2>2 DEF Contexts
  <2>4. r.orderly <=> t.orderly /\ c = IdleProcess
    BY <2>1, <2>2 DEF Contexts
  <2> QED
    BY <1>3, <1>10, <2>3, <2>4 DEF next, got
<1>11. CASE c # next
  <2>1. r = [pcb |-> final, ready |-> out, cur |-> next, resched |-> FALSE,
             orderly |-> t.orderly]
    BY <1>4, <1>11
  <2>2. r \in Contexts
    BY <1>1, <1>3, <1>8, <1>9, <2>1 DEF Contexts
  <2>3. r.pcb = final /\ r.ready = out /\ r.cur = next /\ r.orderly = t.orderly
    BY <2>1
  <2>4. \A p \in Slots :
          /\ r.pcb[p].pid = t.pcb[p].pid
          /\ r.pcb[p].state = IF p = next THEN "RUNNING"
                              ELSE IF p = c /\ back THEN "READY" ELSE t.pcb[p].state
    BY <1>5, <1>9, <2>3
  <2>5. ~IsMLFQ => r.ready[0] = RemoveFirst(IF back THEN Append(got.left[0], c) ELSE got.left[0],
                                            next)
    BY <1>7, <1>8, <2>3
  <2> QED
    BY <1>3, <1>11, <2>2, <2>3, <2>4, <2>5, Zenon DEF next, got, back
<1> QED
  BY <1>10, <1>11

\* It leaves one process RUNNING and makes nobody wait.
LEMMA Scheduling ==
  ASSUME sched_type \in DOMAIN MaxProcesses, NEW t \in Contexts, OneRuns(t.pcb, t.cur)
  PROVE  /\ scheduler_schedule(t) \in Contexts
         /\ OneRuns(scheduler_schedule(t).pcb, scheduler_schedule(t).cur)
         /\ NoNewWaiter(t.pcb, scheduler_schedule(t).pcb)
<1> DEFINE r == scheduler_schedule(t)
           next == ToRun(t.ready)
<1>1. r \in Contexts /\ next \in Slots /\ r.cur = next /\ t.cur \in Slots \cup {NULL}
  BY Switched DEF Contexts
<1>2. CASE t.cur = next
  <2>1. r.pcb = t.pcb
    BY <1>2, Switched
  <2> HIDE DEF r
  <2> QED
    BY <1>1, <1>2, <2>1 DEF r, OneRuns, NoNewWaiter
<1>3. CASE t.cur # next
  <2>1. \A p \in Slots : r.pcb[p].state = IF p = next THEN "RUNNING"
                                          ELSE IF p = t.cur /\ GoesBack(t) THEN "READY"
                                          ELSE t.pcb[p].state
    BY <1>3, Switched
  <2> HIDE DEF r, next
  <2>2. OneRuns(r.pcb, r.cur)
    BY <1>1, <2>1, Numbers DEF OneRuns, GoesBack
  <2>3. NoNewWaiter(t.pcb, r.pcb)
    BY <2>1 DEF NoNewWaiter
  <2> QED
    BY <1>1, <2>2, <2>3 DEF r
<1> QED
  BY <1>2, <1>3

-----------------------------------------------------------------------------
\* The inductive invariant.

\* The queues hold everybody who waits.
Findable(table, wait, sleep) ==
  \A p \in Slots : /\ table[p].state = "BLOCKED" => Contains(wait, p)
                   /\ table[p].state = "SLEEPING" => Contains(sleep, p)

\* The parts of IInv in the next state: the constants of a run do not change.
LEMMA Assembled ==
  ASSUME IInv, UNCHANGED sched_type,
         pcb' \in Tables, ready' \in ReadyQueues,
         wait_queue' \in Seq(Slots), sleep_queue' \in Seq(Slots),
         current' \in Slots \cup {NULL}, resched' \in BOOLEAN, ticks' \in 0..(Word - 1),
         next_pid' \in Nat, calls' \subseteq Slots, orderly' \in BOOLEAN,
         OneRuns(pcb', current'), Findable(pcb', wait_queue', sleep_queue')
  PROVE  IInv'
<1>1. Slots' = Slots /\ Queues' = Queues
  BY DEF Slots, Queues, IsMLFQ
<1>2. TypeOK'
  BY <1>1 DEF IInv, TypeOK, Tables, ReadyQueues
<1>3. RunningIsCurrent' /\ WaitersFindable'
  BY <1>1 DEF OneRuns, Findable, RunningIsCurrent, WaitersFindable
<1> QED
  BY <1>2, <1>3 DEF IInv

\* What IInv says, in the vocabulary of the lemmas.
LEMMA Unpacked ==
  ASSUME IInv
  PROVE  /\ sched_type \in DOMAIN MaxProcesses
         /\ pcb \in Tables /\ ready \in ReadyQueues
         /\ wait_queue \in Seq(Slots) /\ sleep_queue \in Seq(Slots)
         /\ current \in Slots \cup {NULL} /\ ticks \in 0..(Word - 1)
         /\ resched \in BOOLEAN /\ orderly \in BOOLEAN
         /\ next_pid \in Nat /\ calls \subseteq Slots
         /\ OneRuns(pcb, current) /\ Findable(pcb, wait_queue, sleep_queue)
BY DEF IInv, TypeOK, Tables, ReadyQueues, RunningIsCurrent, WaitersFindable, OneRuns, Findable

\* A queue with one more node.
LEMMA Appended ==
  ASSUME NEW T, NEW q \in Seq(T), NEW p \in T
  PROVE  /\ Append(q, p) \in Seq(T)
         /\ \A x : Contains(Append(q, p), x) <=> Contains(q, x) \/ x = p
<1>1. /\ Append(q, p) \in Seq(T) /\ Len(Append(q, p)) = Len(q) + 1 /\ Len(q) \in Nat
      /\ Append(q, p)[Len(q) + 1] = p
      /\ \A i \in 1..Len(q) : Append(q, p)[i] = q[i]
  OBVIOUS
<1> DEFINE r == Append(q, p)
<1> HIDE DEF r
<1>2. \A x : (\E i \in 1..Len(r) : r[i] = x) <=> (\E i \in 1..Len(q) : q[i] = x) \/ x = p
  BY <1>1 DEF r
<1> QED
  BY <1>1, <1>2 DEF Contains, r

\* pcb_alloc hands out a PCB that is not in use.
LEMMA Allocated ==
  ASSUME sched_type \in DOMAIN MaxProcesses, FreePcbs # {}
  PROVE  pcb_alloc \in Slots /\ pcb[pcb_alloc].pid = 0
<1>1. FreePcbs \subseteq Nat
  BY Numbers DEF FreePcbs
<1>2. \E m \in FreePcbs : \A r \in FreePcbs : m <= r
  BY <1>1, LeastElement
<1>3. pcb_alloc \in FreePcbs
  BY <1>2 DEF pcb_alloc
<1> QED
  BY <1>3 DEF FreePcbs

\* A new process is READY; whoever had its PCB is forgotten.
LEMMA CreateStep ==
  ASSUME IInv, UNCHANGED sched_type, NEW priority \in Priorities,
         scheduler_create_process(priority)
  PROVE  IInv'
<1> DEFINE p == pcb_alloc
           b == [Blank EXCEPT !.pid = next_pid, !.state = "READY",
                              !.level = IF IsMLFQ THEN priority ELSE 0]
           table == [pcb EXCEPT ![p] = b]
<1>1. p \in Slots
  BY Allocated, Unpacked DEF scheduler_create_process
<1>2. b \in PcbType /\ b.state = "READY"
  <2>1. /\ next_pid \in Nat /\ priority \in 0..(PriorityLevels - 1) /\ 0 \in 0..(PriorityLevels - 1)
        /\ 0 \in 0..TimeSlice /\ 0 \in 0..DemotionThreshold /\ 0 \in 0..(Word - 1)
    BY Unpacked, KernelConstants
  <2>2. "READY" \in States
    BY DEF States
  <2> QED
    BY <2>1, <2>2 DEF PcbType, Blank
<1> HIDE DEF b, p
<1>3. table \in Tables /\ \A s \in Slots : table[s].state = IF s = p THEN "READY" ELSE pcb[s].state
  BY <1>1, <1>2, Unpacked, TableUpdate DEF Tables
<1>4. pcb' = table /\ ready' = add_to_ready_queue_internal(ready, table, p)
      /\ calls' = calls \ {p} /\ next_pid' = next_pid + 1
      /\ UNCHANGED <<wait_queue, sleep_queue, current, resched, ticks, orderly>>
  BY DEF scheduler_create_process, p, b
<1> HIDE DEF table
<1>5. ready' \in ReadyQueues
  BY <1>1, <1>3, <1>4, Joins, Unpacked
<1>6. OneRuns(pcb', current') /\ Findable(pcb', wait_queue', sleep_queue')
  BY <1>3, <1>4, Unpacked DEF OneRuns, Findable
<1> QED
  BY <1>3, <1>4, <1>5, <1>6, Unpacked, Assembled

\* A terminated process neither runs nor waits.
LEMMA TerminateStep ==
  ASSUME IInv, UNCHANGED sched_type, NEW pid, scheduler_terminate_process(pid)
  PROVE  IInv'
<1>1. PICK p \in Slots :
         /\ ready' = remove_from_ready_queue_internal(ready, p)
         /\ pcb' = pcb_set_state(pcb, p, "ZOMBIE")
         /\ current' = IF p = current THEN NULL ELSE current
         /\ resched' = (resched \/ p = current)
         /\ orderly' = (orderly /\ pcb[p].state \notin {"BLOCKED", "SLEEPING"})
  BY Zenon DEF scheduler_terminate_process, process_table_find
<1>2. UNCHANGED <<wait_queue, sleep_queue, ticks, next_pid, calls>>
  BY DEF scheduler_terminate_process
<1>3. /\ pcb' \in Tables
      /\ \A r \in Slots : pcb'[r].state = IF r = p THEN "ZOMBIE" ELSE pcb[r].state
  <2>1. "ZOMBIE" \in States
    BY DEF States
  <2> QED
    BY <1>1, <2>1, SetState, Unpacked
<1>4. ready' \in ReadyQueues
  BY <1>1, Leaves, Unpacked
<1>5. resched' \in BOOLEAN /\ orderly' \in BOOLEAN
  BY <1>1, Zenon
<1>6. OneRuns(pcb', current') /\ Findable(pcb', wait_queue', sleep_queue')
  BY <1>1, <1>2, <1>3, Unpacked DEF OneRuns, Findable
<1>7. current' \in Slots \cup {NULL}
  BY <1>1, Unpacked
<1> QED
  BY <1>2, <1>3, <1>4, <1>5, <1>6, <1>7, Unpacked, Assembled

\* A reaped process was a zombie.
LEMMA ReapStep ==
  ASSUME IInv, UNCHANGED sched_type, NEW pid, scheduler_reap_process(pid)
  PROVE  IInv'
<1>1. PICK p \in Slots : pcb' = [pcb EXCEPT ![p].state = "TERMINATED", ![p].pid = 0]
  BY Zenon DEF scheduler_reap_process, process_table_find
<1>2. UNCHANGED <<ready, wait_queue, sleep_queue, current, resched, ticks, next_pid,
                  calls, orderly>>
  BY DEF scheduler_reap_process
<1>3. /\ pcb' \in Tables
      /\ \A r \in Slots : pcb'[r].state = IF r = p THEN "TERMINATED" ELSE pcb[r].state
  <2>1. pcb[p] \in PcbType /\ "TERMINATED" \in States /\ 0 \in Nat
    BY Unpacked DEF Tables, States
  <2>2. [pcb[p] EXCEPT !.state = "TERMINATED", !.pid = 0] \in PcbType
    BY <2>1 DEF PcbType
  <2>3. pcb' = [pcb EXCEPT ![p] = [pcb[p] EXCEPT !.state = "TERMINATED", !.pid = 0]]
    BY <1>1, Unpacked DEF Tables
  <2>4. pcb' \in Tables
    BY <2>2, <2>3, TableUpdate, Unpacked
  <2>5. [pcb[p] EXCEPT !.state = "TERMINATED", !.pid = 0].state = "TERMINATED"
    BY <2>1 DEF PcbType
  <2> QED
    BY <2>3, <2>4, <2>5, Unpacked DEF Tables
<1>4. OneRuns(pcb', current') /\ Findable(pcb', wait_queue', sleep_queue')
  BY <1>2, <1>3, Unpacked DEF OneRuns, Findable
<1> QED
  BY <1>2, <1>3, <1>4, Unpacked, Assembled

\* The process that is taken off the wait queue is no longer BLOCKED.
LEMMA WakeupStep ==
  ASSUME IInv, UNCHANGED sched_type, NEW pid, scheduler_wakeup_process(pid)
  PROVE  IInv'
<1>1. PICK p \in Slots :
         /\ wait_queue' = RemoveFirst(wait_queue, p)
         /\ pcb' = pcb_set_state(pcb, p, "READY")
         /\ ready' = add_to_ready_queue_internal(ready, pcb', p)
  BY Zenon DEF scheduler_wakeup_process, process_table_find
<1>2. UNCHANGED <<sleep_queue, current, resched, ticks, next_pid, calls, orderly>>
  BY DEF scheduler_wakeup_process
<1>3. /\ pcb' \in Tables
      /\ \A r \in Slots : pcb'[r].state = IF r = p THEN "READY" ELSE pcb[r].state
  <2>1. "READY" \in States
    BY DEF States
  <2> QED
    BY <1>1, <2>1, SetState, Unpacked
<1>4. ready' \in ReadyQueues
  BY <1>1, <1>3, Joins, Unpacked
<1>5. /\ wait_queue' \in Seq(Slots)
      /\ \A x : x # p => (Contains(wait_queue', x) <=> Contains(wait_queue, x))
  BY <1>1, RemoveFirstMembers, Unpacked
<1>6. OneRuns(pcb', current') /\ Findable(pcb', wait_queue', sleep_queue')
  BY <1>2, <1>3, <1>5, Unpacked DEF OneRuns, Findable
<1> QED
  BY <1>2, <1>3, <1>4, <1>5, <1>6, Unpacked, Assembled

\* A change of priority only moves a process in the ready queue.
LEMMA SetPriorityStep ==
  ASSUME IInv, UNCHANGED sched_type, NEW pid, scheduler_set_priority(pid)
  PROVE  IInv'
<1>1. PICK p \in Slots :
         ready' = add_to_ready_queue_internal(remove_from_ready_queue_internal(ready, p), pcb, p)
  BY Zenon DEF scheduler_set_priority, process_table_find
<1>2. UNCHANGED <<pcb, wait_queue, sleep_queue, current, resched, ticks, next_pid,
                  calls, orderly>>
  BY DEF scheduler_set_priority
<1>3. ready' \in ReadyQueues
  BY <1>1, Leaves, Joins, Unpacked
<1> QED
  BY <1>2, <1>3, Unpacked, Assembled

\* The table and the queues after a call of scheduler_schedule.
LEMMA ScheduleStep ==
  ASSUME IInv, UNCHANGED sched_type, Become(scheduler_schedule(Here)),
         calls' \subseteq calls, UNCHANGED <<wait_queue, sleep_queue, ticks, next_pid>>
  PROVE  IInv'
<1> DEFINE r == scheduler_schedule(Here)
<1>1. Here \in Contexts /\ Here.pcb = pcb /\ Here.cur = current
  BY Unpacked DEF Here, Contexts
<1>2. r \in Contexts /\ OneRuns(r.pcb, r.cur) /\ NoNewWaiter(pcb, r.pcb)
  BY <1>1, Scheduling, Unpacked
<1>3. pcb' = r.pcb /\ ready' = r.ready /\ current' = r.cur /\ resched' = r.resched
      /\ orderly' = r.orderly
  BY DEF Become
<1> HIDE DEF r
<1>4. pcb' \in Tables /\ ready' \in ReadyQueues /\ current' \in Slots \cup {NULL}
      /\ resched' \in BOOLEAN /\ orderly' \in BOOLEAN
  BY <1>2, <1>3 DEF Contexts
<1>5. OneRuns(pcb', current') /\ Findable(pcb', wait_queue', sleep_queue')
  BY <1>2, <1>3, Unpacked DEF NoNewWaiter, Findable
<1> QED
  BY <1>4, <1>5, Unpacked, Assembled

\* What yield, block and sleep do before they unlock.
LEMMA UnlockFacts ==
  ASSUME IInv, Unlocking
  PROVE  /\ current \in Slots /\ resched' = TRUE
         /\ calls' \subseteq Slots
         /\ UNCHANGED <<ready, current, ticks, next_pid, orderly>>
BY Unpacked DEF Unlocking, CallerIsProcess

\* A process that yields stays RUNNING.
LEMMA YieldStep ==
  ASSUME IInv, UNCHANGED sched_type, scheduler_yield
  PROVE  IInv'
<1>1. UNCHANGED <<wait_queue, sleep_queue>> /\ pcb' = [pcb EXCEPT ![current].in_queue = 0]
      /\ Unlocking
  BY DEF scheduler_yield
<1>2. /\ pcb' \in Tables
      /\ \A r \in Slots : pcb'[r].state = pcb[r].state
  <2>1. pcb[current] \in PcbType /\ 0 \in 0..DemotionThreshold
    BY <1>1, UnlockFacts, Unpacked, KernelConstants DEF Tables
  <2>2. /\ [pcb[current] EXCEPT !.in_queue = 0] \in PcbType
        /\ [pcb[current] EXCEPT !.in_queue = 0].state = pcb[current].state
    BY <2>1 DEF PcbType
  <2>3. pcb' = [pcb EXCEPT ![current] = [pcb[current] EXCEPT !.in_queue = 0]]
    BY <1>1
  <2> QED
    BY <1>1, <2>2, <2>3, UnlockFacts, TableUpdate, Unpacked DEF Tables
<1>3. OneRuns(pcb', current') /\ Findable(pcb', wait_queue', sleep_queue')
  BY <1>1, <1>2, UnlockFacts, Unpacked DEF OneRuns, Findable
<1> QED
  BY <1>1, <1>2, <1>3, UnlockFacts, Unpacked, Assembled

\* A process that blocks is put on the wait queue in the same critical section.
LEMMA BlockStep ==
  ASSUME IInv, UNCHANGED sched_type, scheduler_block_process
  PROVE  IInv'
<1>1. /\ Unlocking /\ UNCHANGED sleep_queue
      /\ pcb' = pcb_set_state(pcb, current, "BLOCKED")
      /\ wait_queue' = Append(wait_queue, current)
  BY DEF scheduler_block_process
<1>2. /\ pcb' \in Tables
      /\ \A r \in Slots : pcb'[r].state = IF r = current THEN "BLOCKED" ELSE pcb[r].state
  <2>1. "BLOCKED" \in States
    BY DEF States
  <2> QED
    BY <1>1, <2>1, SetState, UnlockFacts, Unpacked
<1>3. /\ wait_queue' \in Seq(Slots)
      /\ \A x : Contains(wait_queue', x) <=> Contains(wait_queue, x) \/ x = current
  BY <1>1, Appended, UnlockFacts, Unpacked
<1>4. OneRuns(pcb', current') /\ Findable(pcb', wait_queue', sleep_queue')
  BY <1>1, <1>2, <1>3, UnlockFacts, Unpacked DEF OneRuns, Findable
<1> QED
  BY <1>1, <1>2, <1>3, <1>4, UnlockFacts, Unpacked, Assembled

\* The deadline is a word, whatever the sleep.
LEMMA Deadline ==
  ASSUME ticks \in 0..(Word - 1), NEW n \in Nat
  PROVE  (ticks + n) % Word \in 0..(Word - 1)
<1>1. ticks + n \in Nat /\ Word \in Nat /\ Word > 0
  BY KernelConstants
<1> QED
  BY <1>1

\* A process that goes to sleep is put on the sleep queue likewise.
LEMMA SleepStep ==
  ASSUME IInv, UNCHANGED sched_type, NEW n \in SleepTimes, scheduler_sleep_process(n)
  PROVE  IInv'
<1> DEFINE dl == (ticks + n) % Word
           b == [pcb[current] EXCEPT !.state = "SLEEPING", !.deadline = dl]
<1>1. /\ Unlocking /\ UNCHANGED wait_queue
      /\ sleep_queue' = Append(sleep_queue, current)
  BY DEF scheduler_sleep_process
<1>2. /\ pcb' \in Tables
      /\ \A r \in Slots : pcb'[r].state = IF r = current THEN "SLEEPING" ELSE pcb[r].state
  <2>1. pcb[current] \in PcbType /\ "SLEEPING" \in States
    BY <1>1, UnlockFacts, Unpacked DEF Tables, States
  <2>2. n \in Nat
    BY KernelConstants
  <2>3. dl \in 0..(Word - 1)
    BY <2>2, Deadline, Unpacked
  <2> HIDE DEF dl
  <2>4. b \in PcbType /\ b.state = "SLEEPING"
    BY <2>1, <2>3 DEF PcbType
  <2>5. pcb' = [pcb EXCEPT ![current].state = "SLEEPING", ![current].deadline = dl]
    BY DEF scheduler_sleep_process, dl
  <2>6. pcb' = [pcb EXCEPT ![current] = b]
    BY <1>1, <2>5, UnlockFacts, Unpacked DEF Tables
  <2> HIDE DEF b
  <2>7. pcb' \in Tables
    BY <1>1, <2>4, <2>6, UnlockFacts, TableUpdate, Unpacked
  <2> QED
    BY <1>1, <2>4, <2>6, <2>7, UnlockFacts, Unpacked DEF Tables
<1> HIDE DEF dl, b
<1>3. /\ sleep_queue' \in Seq(Slots)
      /\ \A x : Contains(sleep_queue', x) <=> Contains(sleep_queue, x) \/ x = current
  BY <1>1, Appended, UnlockFacts, Unpacked
<1>4. OneRuns(pcb', current') /\ Findable(pcb', wait_queue', sleep_queue')
  BY <1>1, <1>2, <1>3, UnlockFacts, Unpacked DEF OneRuns, Findable
<1> QED
  BY <1>1, <1>2, <1>3, <1>4, UnlockFacts, Unpacked, Assembled

\* The charge for a tick keeps the fields in range, and the state and the pid.
LEMMA ChargedPcb ==
  ASSUME NEW b \in PcbType
  PROVE  Charged(b) \in PcbType /\ Charged(b).state = b.state /\ Charged(b).pid = b.pid
<1> DEFINE used == IF b.slice_used < TimeSlice THEN b.slice_used + 1 ELSE b.slice_used
           c == [b EXCEPT !.slice_used = used]
<1>1. used \in 0..TimeSlice
  BY KernelConstants DEF PcbType
<1> HIDE DEF used
<1>2. /\ c \in PcbType /\ c.state = b.state /\ c.pid = b.pid
      /\ c.in_queue = b.in_queue /\ c.level = b.level
  BY <1>1 DEF PcbType
<1>3. Charged(b) = IF ~IsMLFQ THEN c
                   ELSE IF c.in_queue + 1 >= DemotionThreshold THEN mlfq_adjust_priority(c)
                   ELSE [c EXCEPT !.in_queue = @ + 1]
  BY DEF Charged, c, used
<1> HIDE DEF c
<1>4. CASE ~IsMLFQ
  BY <1>2, <1>3, <1>4
<1>5. CASE IsMLFQ /\ c.in_queue + 1 >= DemotionThreshold
  <2> DEFINE lower == IF c.level < PriorityLevels - 1 THEN c.level + 1 ELSE c.level
  <2>1. lower \in 0..(PriorityLevels - 1) /\ 0 \in 0..DemotionThreshold
    BY <1>2, KernelConstants DEF PcbType
  <2>2. Charged(b) = [c EXCEPT !.level = lower, !.in_queue = 0]
    BY <1>2, <1>3, <1>5 DEF mlfq_adjust_priority, PcbType
  <2> HIDE DEF lower
  <2> QED
    BY <1>2, <2>1, <2>2 DEF PcbType
<1>6. CASE IsMLFQ /\ ~(c.in_queue + 1 >= DemotionThreshold)
  <2> DEFINE more == c.in_queue + 1
  <2>1. more \in 0..DemotionThreshold
    BY <1>2, <1>6, KernelConstants DEF PcbType
  <2>2. Charged(b) = [c EXCEPT !.in_queue = more]
    BY <1>2, <1>3, <1>6 DEF PcbType
  <2> HIDE DEF more
  <2> QED
    BY <1>2, <2>1, <2>2 DEF PcbType
<1> QED
  BY <1>4, <1>5, <1>6

\* So update_process_times changes nobody's state.
LEMMA ChargedTable ==
  ASSUME IInv
  PROVE  /\ update_process_times \in Tables
         /\ \A p \in Slots : /\ update_process_times[p].state = pcb[p].state
                             /\ update_process_times[p].pid = pcb[p].pid
<1>1. CASE CallerIsProcess
  <2>1. current \in Slots
    BY <1>1, Unpacked DEF CallerIsProcess
  <2>2. update_process_times = [pcb EXCEPT ![current] = Charged(pcb[current])]
    BY <1>1 DEF update_process_times
  <2>3. pcb[current] \in PcbType
    BY <2>1, Unpacked DEF Tables
  <2>4. /\ Charged(pcb[current]) \in PcbType
        /\ Charged(pcb[current]).state = pcb[current].state
        /\ Charged(pcb[current]).pid = pcb[current].pid
    BY <2>3, ChargedPcb
  <2>5. update_process_times \in Tables
    BY <2>1, <2>2, <2>4, TableUpdate, Unpacked
  <2> QED
    BY <2>1, <2>2, <2>4, <2>5, Unpacked DEF Tables
<1>2. CASE ~CallerIsProcess
  BY <1>2, Unpacked DEF update_process_times
<1> QED
  BY <1>1, <1>2

\* The processes on woken become READY.
LEMMA AwakeTable ==
  ASSUME NEW table \in Tables, NEW woken
  PROVE  /\ Awake(table, woken) \in Tables
         /\ \A p \in Slots :
              /\ Awake(table, woken)[p].state
                   = IF Contains(woken, p) THEN "READY" ELSE table[p].state
              /\ Awake(table, woken)[p].pid = table[p].pid
<1> DEFINE up(s) == [table[s] EXCEPT !.state = "READY"]
<1>1. "READY" \in States
  BY DEF States
<1>2. \A s \in Slots : table[s] \in PcbType
  BY DEF Tables
<1>3. \A s \in Slots : up(s) \in PcbType /\ up(s).state = "READY" /\ up(s).pid = table[s].pid
  BY <1>1, <1>2 DEF PcbType
<1>4. Awake(table, woken) = [s \in Slots |-> IF Contains(woken, s) THEN up(s) ELSE table[s]]
  BY DEF Awake
<1> HIDE DEF up
<1> QED
  BY <1>2, <1>3, <1>4 DEF Tables

\* The tick's own context for scheduler_schedule, and the sleep queue it leaves.
TickNow == (ticks + 1) % Word
TickWoken == Expired(update_process_times, TickNow)
TickTable == Awake(update_process_times, TickWoken)
TickQueues ==
  [i \in Queues |-> ready[i] \o NodesIn(TickWoken, {p \in Slots : QueueOf(TickTable, p) = i})]
TickDue ==
  \/ resched
  \/ /\ current # NULL
     /\ Preemption
     /\ TickTable[current].slice_used >= TimeSlice
TickContext ==
  [pcb |-> TickTable, ready |-> TickQueues, cur |-> current, resched |-> TickDue,
   orderly |-> orderly]

\* The handler in these terms.
LEMMA TickUnfolds ==
  ASSUME scheduler_tick_handler
  PROVE  /\ ticks' = TickNow
         /\ sleep_queue' = Asleep(update_process_times, TickNow)
         /\ Become(IF TickDue THEN scheduler_schedule(TickContext) ELSE TickContext)
         /\ UNCHANGED <<wait_queue, next_pid, calls>>
BY Zenon
  DEF scheduler_tick_handler, TickNow, TickWoken, TickTable, TickQueues, TickDue,
      TickContext

\* Who is woken, who sleeps on, and where the woken go.
LEMMA TickFacts ==
  ASSUME IInv
  PROVE  /\ TickNow \in 0..(Word - 1)
         /\ TickWoken \in Seq(Slots)
         /\ Asleep(update_process_times, TickNow) \in Seq(Slots)
         /\ \A p \in Slots : Contains(sleep_queue, p) <=>
              \/ Contains(TickWoken, p)
              \/ Contains(Asleep(update_process_times, TickNow), p)
         /\ \A p : Contains(TickWoken, p) => Contains(sleep_queue, p)
         /\ \A p : Contains(TickWoken, p)
                     => ~Contains(Asleep(update_process_times, TickNow), p)
         /\ \A p : Contains(Asleep(update_process_times, TickNow), p)
                     => Contains(sleep_queue, p)
         /\ TickTable \in Tables
         /\ \A p \in Slots :
              /\ TickTable[p].state = IF Contains(TickWoken, p) THEN "READY" ELSE pcb[p].state
              /\ TickTable[p].pid = pcb[p].pid
         /\ TickContext \in Contexts
<1> DEFINE D == {p \in Slots : Due(update_process_times, TickNow, p)}
           A == {p \in Slots : ~Due(update_process_times, TickNow, p)}
<1>1. TickNow \in 0..(Word - 1)
  BY Deadline, Unpacked DEF TickNow
<1>2. /\ TickWoken = NodesIn(sleep_queue, D)
      /\ Asleep(update_process_times, TickNow) = NodesIn(sleep_queue, A)
  BY DEF TickWoken, Expired, Asleep
<1>3. \A p : p \in D => p \notin A
  OBVIOUS
<1>4. \A p \in Slots : p \in D \/ p \in A
  OBVIOUS
<1> HIDE DEF D, A
<1>5. /\ TickWoken \in Seq(Slots)
      /\ \A p : Contains(TickWoken, p) <=> p \in D /\ Contains(sleep_queue, p)
  BY <1>2, NodesInMembers, Unpacked
<1>6. /\ Asleep(update_process_times, TickNow) \in Seq(Slots)
      /\ \A p : Contains(Asleep(update_process_times, TickNow), p)
                  <=> p \in A /\ Contains(sleep_queue, p)
  BY <1>2, NodesInMembers, Unpacked
<1>7. /\ TickTable \in Tables
      /\ \A p \in Slots :
           /\ TickTable[p].state = IF Contains(TickWoken, p) THEN "READY" ELSE pcb[p].state
           /\ TickTable[p].pid = pcb[p].pid
  BY ChargedTable, AwakeTable DEF TickTable
<1>8. TickQueues \in ReadyQueues
  <2>1. ASSUME NEW i \in Queues, NEW S PROVE ready[i] \o NodesIn(TickWoken, S) \in Seq(Slots)
    <3>1. ready[i] \in Seq(Slots)
      BY Unpacked DEF ReadyQueues
    <3>2. NodesIn(TickWoken, S) \in Seq(Slots)
      BY <1>5, NodesInMembers
    <3> QED
      BY <3>1, <3>2
  <2> QED
    BY <2>1 DEF TickQueues, ReadyQueues
<1>9. TickContext \in Contexts
  <2>1. TickDue \in BOOLEAN
    BY Zenon, Unpacked DEF TickDue
  <2> QED
    BY <1>7, <1>8, <2>1, Unpacked DEF TickContext, Contexts
<1> QED
  BY <1>1, <1>3, <1>4, <1>5, <1>6, <1>7, <1>9

\* A tick wakes exactly those it takes off the sleep queue.
LEMMA TickStep ==
  ASSUME IInv, UNCHANGED sched_type, scheduler_tick_handler
  PROVE  IInv'
<1> DEFINE r == IF TickDue THEN scheduler_schedule(TickContext) ELSE TickContext
<1>1. TickContext.pcb = TickTable /\ TickContext.cur = current
  BY DEF TickContext
<1>2. OneRuns(TickTable, current)
  BY TickFacts, Unpacked DEF OneRuns
<1>3. r \in Contexts /\ OneRuns(r.pcb, r.cur) /\ NoNewWaiter(TickTable, r.pcb)
  <2>1. CASE TickDue
    BY <1>1, <1>2, <2>1, Scheduling, TickFacts, Unpacked
  <2>2. CASE ~TickDue
    BY <1>1, <1>2, <2>2, TickFacts DEF NoNewWaiter
  <2> QED
    BY <2>1, <2>2
<1>4. pcb' = r.pcb /\ ready' = r.ready /\ current' = r.cur /\ resched' = r.resched
      /\ orderly' = r.orderly
  BY TickUnfolds DEF Become
<1> HIDE DEF r
<1>5. pcb' \in Tables /\ ready' \in ReadyQueues /\ current' \in Slots \cup {NULL}
      /\ resched' \in BOOLEAN /\ orderly' \in BOOLEAN
  BY <1>3, <1>4 DEF Contexts
<1>6. ticks' \in 0..(Word - 1) /\ sleep_queue' \in Seq(Slots)
      /\ UNCHANGED <<wait_queue, next_pid, calls>>
  BY TickUnfolds, TickFacts
<1>7. ASSUME NEW p \in Slots
      PROVE  /\ pcb'[p].state = "BLOCKED" => Contains(wait_queue', p)
             /\ pcb'[p].state = "SLEEPING" => Contains(sleep_queue', p)
  <2>1. pcb'[p].state \in {"BLOCKED", "SLEEPING"} => pcb'[p].state = TickTable[p].state
    BY <1>3, <1>4 DEF NoNewWaiter
  <2>2. TickTable[p].state = IF Contains(TickWoken, p) THEN "READY" ELSE pcb[p].state
    BY TickFacts
  <2>3. /\ pcb[p].state = "BLOCKED" => Contains(wait_queue, p)
        /\ pcb[p].state = "SLEEPING" => Contains(sleep_queue, p)
    BY Unpacked DEF Findable
  <2>4. Contains(sleep_queue, p) => Contains(TickWoken, p) \/ Contains(sleep_queue', p)
    BY TickFacts, TickUnfolds
  <2> QED
    BY <1>6, <2>1, <2>2, <2>3, <2>4
<1>8. OneRuns(pcb', current') /\ Findable(pcb', wait_queue', sleep_queue')
  BY <1>3, <1>4, <1>7 DEF Findable
<1> QED
  BY <1>5, <1>6, <1>8, Unpacked, Assembled

\* The initial state.
LEMMA InitIInv ==
  ASSUME Init
  PROVE  IInv
<1> DEFINE idle == [Blank EXCEPT !.pid = 1, !.state = "RUNNING", !.level = PriorityLevels - 1]
<1>1. /\ 0 \in 0..(PriorityLevels - 1) /\ PriorityLevels - 1 \in 0..(PriorityLevels - 1)
      /\ 0 \in 0..TimeSlice /\ 0 \in 0..DemotionThreshold /\ 0 \in 0..(Word - 1)
      /\ "NEW" \in States /\ "RUNNING" \in States
  BY KernelConstants DEF States
<1>2. Blank \in PcbType /\ Blank.state = "NEW" /\ idle \in PcbType /\ idle.state = "RUNNING"
  BY <1>1 DEF PcbType, Blank
<1>3. pcb = [s \in Slots |-> IF s = IdleProcess THEN idle ELSE Blank]
  BY DEF Init
<1> HIDE DEF idle
<1>4. pcb \in Tables /\ \A p \in Slots : pcb[p].state = IF p = IdleProcess THEN "RUNNING" ELSE "NEW"
  BY <1>2, <1>3 DEF Tables
<1>5. IdleProcess \in Slots
  BY Numbers DEF Init
<1>6. ready \in [Queues -> Seq(Slots)]
  <2>1. <<IdleProcess>> \in Seq(Slots) /\ <<>> \in Seq(Slots)
    BY <1>5
  <2> QED
    BY <2>1 DEF Init
<1>7. TypeOK
  <2>1. sched_type \in DOMAIN MaxProcesses /\ wait_queue = <<>> /\ sleep_queue = <<>>
    BY DEF Init
  <2>2. wait_queue \in Seq(Slots) /\ sleep_queue \in Seq(Slots)
    BY <2>1
  <2>3. /\ current = IdleProcess /\ resched = FALSE /\ ticks = 0 /\ next_pid = 2
        /\ calls = {} /\ orderly = TRUE
    BY DEF Init
  <2>4. next_pid \in Nat /\ ticks \in 0..(Word - 1)
    BY <1>1, <2>3
  <2> QED
    BY <1>4, <1>5, <1>6, <2>1, <2>2, <2>3, <2>4 DEF TypeOK, Tables
<1>8. RunningIsCurrent /\ WaitersFindable
  BY <1>4 DEF RunningIsCurrent, WaitersFindable
<1> QED
  BY <1>7, <1>8 DEF IInv

\* Stuttering and every action preserve IInv.
LEMMA NextIInv ==
  ASSUME IInv, [Next]_vars
  PROVE  IInv'
<1>1. CASE Next
  <2> UNCHANGED sched_type
    BY <1>1 DEF Next
  <2>1. CASE \E priority \in Priorities : scheduler_create_process(priority)
    BY <2>1, CreateStep
  <2>2. CASE \E pid \in Pids : scheduler_terminate_process(pid)
    BY <2>2, TerminateStep
  <2>3. CASE \E pid \in Pids : scheduler_reap_process(pid)
    BY <2>3, ReapStep
  <2>4. CASE \E pid \in Pids : scheduler_wakeup_process(pid)
    BY <2>4, WakeupStep
  <2>5. CASE \E pid \in Pids : scheduler_set_priority(pid)
    BY <2>5, SetPriorityStep
  <2>6. CASE \E n \in SleepTimes : scheduler_sleep_process(n)
    BY <2>6, SleepStep
  <2>7. CASE scheduler_yield
    BY <2>7, YieldStep
  <2>8. CASE scheduler_block_process
    BY <2>8, BlockStep
  <2>9. CASE Schedule
    BY <2>9, ScheduleStep DEF Schedule
  <2>10. CASE ScheduleAfterUnlock
    BY <2>10, ScheduleStep DEF ScheduleAfterUnlock
  <2>11. CASE scheduler_tick_handler
    BY <2>11, TickStep
  <2> QED
    BY <1>1, <2>1, <2>2, <2>3, <2>4, <2>5, <2>6, <2>7, <2>8, <2>9, <2>10, <2>11 DEF Next
<1>2. CASE UNCHANGED vars
  BY <1>2 DEF vars, IInv, TypeOK, RunningIsCurrent, WaitersFindable, Slots, Queues, IsMLFQ
<1> QED
  BY <1>1, <1>2

\* The invariant of the kernel scheduler.
THEOREM KernelInvariant == Spec => []IInv
<1>1. Init => IInv
  BY InitIInv
<1>2. IInv /\ [Next]_vars => IInv'
  BY NextIInv
<1> QED
  BY <1>1, <1>2, PTL DEF Spec

\* One process has the processor, however creations, terminations, wakeups and
\* ticks interleave with the two halves of yield, block and sleep.
THEOREM OneProcessRuns == Spec => []RunningIsCurrent
<1>1. IInv => RunningIsCurrent
  BY DEF IInv
<1> QED
  BY <1>1, KernelInvariant, PTL

\* No wakeup is lost: whoever is BLOCKED or SLEEPING is on the queue on which
\* scheduler_wakeup_process or the tick looks for it.
THEOREM WaitersAreFound == Spec => []WaitersFindable
<1>1. IInv => WaitersFindable
  BY DEF IInv
<1> QED
  BY <1>1, KernelInvariant, PTL

-----------------------------------------------------------------------------
\* Queues without duplicates.

Distinct(q) == \A i, j \in DOMAIN q : q[i] = q[j] => i = j

\* NodesIn adds no duplicates.
LEMMA NodesInDistinct ==
  ASSUME NEW T, NEW q \in Seq(T), NEW S, Distinct(q)
  PROVE  Distinct(NodesIn(q, S))
<1> DEFINE N == Len(q)
<1>1. N \in Nat /\ DOMAIN q = 1..N /\ \A n \in 1..N : q[n] \in T
  OBVIOUS
<1>2. PICK kept : NodesIn(q, S) = kept[N] /\ Kept(kept, N, q, S, T)
  BY NodesInUnfolds
<1> DEFINE P == {n \in 0..N : /\ \A i, j \in 1..Len(kept[n]) : kept[n][i] = kept[n][j] => i = j
                              /\ \A i \in 1..Len(kept[n]) : \E k \in 1..n : q[k] = kept[n][i]}
<1>3. 0 \in P
  <2>1. 0 \in 0..N /\ kept[0] = <<>>
    BY <1>1, <1>2 DEF Kept
  <2>2. Len(kept[0]) = 0
    BY <2>1
  <2> QED
    BY <2>1, <2>2
<1>4. ASSUME NEW n \in 0..N, n # N, n \in P PROVE n + 1 \in P
  <2> DEFINE g == kept[n]
             h == kept[n + 1]
  <2>1. n + 1 \in 0..N /\ n + 1 \in 1..N /\ (n + 1) - 1 = n
    BY <1>1, <1>4
  <2>2. g \in Seq(T) /\ h = IF q[n + 1] \in S THEN Append(g, q[n + 1]) ELSE g
    BY <1>2, <2>1 DEF Kept
  <2>3. /\ \A i, j \in 1..Len(g) : g[i] = g[j] => i = j
        /\ \A i \in 1..Len(g) : \E k \in 1..n : q[k] = g[i]
    BY <1>4
  <2> HIDE DEF g, h
  <2>4. \A i \in 1..Len(g) : g[i] # q[n + 1]
    <3> SUFFICES ASSUME NEW i \in 1..Len(g), g[i] = q[n + 1] PROVE FALSE
      OBVIOUS
    <3>1. PICK k \in 1..n : q[k] = g[i]
      BY <2>3
    <3>2. k \in 1..N /\ k # n + 1
      BY <1>1, <2>1
    <3> QED
      BY <1>1, <2>1, <3>1, <3>2 DEF Distinct
  <2>5. \A k \in 1..n : k \in 1..(n + 1)
    BY <1>4
  <2>6. CASE q[n + 1] \in S
    <3>1. /\ Len(h) = Len(g) + 1 /\ h[Len(g) + 1] = q[n + 1] /\ Len(g) \in Nat
          /\ \A i \in 1..Len(g) : h[i] = g[i]
      BY <1>1, <2>1, <2>2, <2>6
    <3>2. \A i \in 1..Len(h) : i \in 1..Len(g) \/ i = Len(g) + 1
      BY <3>1
    <3>3. \A i, j \in 1..Len(h) : h[i] = h[j] => i = j
      BY <2>3, <2>4, <3>1, <3>2
    <3>4. \A i \in 1..Len(h) : \E k \in 1..(n + 1) : q[k] = h[i]
      BY <2>1, <2>3, <2>5, <3>1, <3>2
    <3> QED
      BY <2>1, <3>3, <3>4 DEF h
  <2>7. CASE q[n + 1] \notin S
    BY <2>1, <2>2, <2>3, <2>5, <2>7 DEF h
  <2> QED
    BY <2>6, <2>7
<1>5. N \in P
  <2> HIDE DEF P
  <2>1. \A n \in 0..N : n \in P
    BY <1>1, <1>3, <1>4, UpTo
  <2> QED
    BY <1>1, <2>1
<1>6. kept[N] \in Seq(T)
  BY <1>1, <1>2 DEF Kept
<1>7. DOMAIN kept[N] = 1..Len(kept[N])
  BY <1>6
<1> QED
  BY <1>2, <1>5, <1>7 DEF Distinct

\* A node that is not there yet is added once.
LEMMA AppendDistinct ==
  ASSUME NEW T, NEW q \in Seq(T), NEW p \in T, Distinct(q), ~Contains(q, p)
  PROVE  Distinct(Append(q, p))
<1> DEFINE r == Append(q, p)
<1>1. /\ DOMAIN q = 1..Len(q) /\ DOMAIN r = 1..(Len(q) + 1) /\ Len(q) \in Nat
      /\ r[Len(q) + 1] = p
      /\ \A i \in 1..Len(q) : r[i] = q[i]
  OBVIOUS
<1> HIDE DEF r
<1>2. \A i \in 1..Len(q) : q[i] # p
  BY DEF Contains
<1>3. \A i \in 1..(Len(q) + 1) : i \in 1..Len(q) \/ i = Len(q) + 1
  BY <1>1
<1>4. Distinct(r)
  BY <1>1, <1>2, <1>3 DEF Distinct
<1> QED
  BY <1>4 DEF r

\* Two queues with no node in common.
LEMMA ConcatenationDistinct ==
  ASSUME NEW T, NEW a \in Seq(T), NEW b \in Seq(T)
  PROVE  /\ \A x : Contains(a \o b, x) <=> Contains(a, x) \/ Contains(b, x)
         /\ Distinct(a) /\ Distinct(b) /\ (\A x : ~(Contains(a, x) /\ Contains(b, x)))
              => Distinct(a \o b)
<1> DEFINE r == a \o b
<1>1. /\ r \in Seq(T) /\ Len(r) = Len(a) + Len(b) /\ Len(a) \in Nat /\ Len(b) \in Nat
      /\ \A i \in 1..Len(a) : r[i] = a[i]
      /\ \A i \in 1..Len(b) : r[Len(a) + i] = b[i]
  BY Concatenation
<1>2. DOMAIN r = 1..Len(r) /\ DOMAIN a = 1..Len(a) /\ DOMAIN b = 1..Len(b)
  BY <1>1
<1> HIDE DEF r
<1>3. \A i \in 1..Len(r) : i \in 1..Len(a) \/ (i - Len(a) \in 1..Len(b) /\ r[i] = b[i - Len(a)])
  <2> SUFFICES ASSUME NEW i \in 1..Len(r), i \notin 1..Len(a)
               PROVE  i - Len(a) \in 1..Len(b) /\ r[i] = b[i - Len(a)]
    OBVIOUS
  <2>1. i - Len(a) \in 1..Len(b) /\ Len(a) + (i - Len(a)) = i
    BY <1>1
  <2> QED
    BY <1>1, <2>1
<1>4. \A x : Contains(r, x) <=> Contains(a, x) \/ Contains(b, x)
  <2>1. ASSUME NEW x, NEW i \in 1..Len(a), a[i] = x PROVE \E k \in 1..Len(r) : r[k] = x
    <3>1. i \in 1..Len(r)
      BY <1>1
    <3> QED
      BY <1>1, <2>1, <3>1
  <2>2. ASSUME NEW x, NEW i \in 1..Len(b), b[i] = x PROVE \E k \in 1..Len(r) : r[k] = x
    <3>1. Len(a) + i \in 1..Len(r)
      BY <1>1
    <3> QED
      BY <1>1, <2>2, <3>1
  <2>3. ASSUME NEW x, NEW i \in 1..Len(r), r[i] = x
        PROVE  (\E k \in 1..Len(a) : a[k] = x) \/ (\E k \in 1..Len(b) : b[k] = x)
    BY <1>1, <1>3, <2>3
  <2> QED
    BY <2>1, <2>2, <2>3 DEF Contains
<1>5. ASSUME Distinct(a), Distinct(b), \A x : ~(Contains(a, x) /\ Contains(b, x))
      PROVE  Distinct(r)
  <2>1. \A i \in 1..Len(a), j \in 1..Len(b) : a[i] # b[j]
    BY <1>5 DEF Contains
  <2> SUFFICES ASSUME NEW i \in 1..Len(r), NEW j \in 1..Len(r), r[i] = r[j] PROVE i = j
    BY <1>2 DEF Distinct
  <2>2. CASE i \in 1..Len(a) /\ j \in 1..Len(a)
    BY <1>1, <1>2, <1>5, <2>2 DEF Distinct
  <2>3. CASE i \notin 1..Len(a) /\ j \notin 1..Len(a)
    <3>1. i - Len(a) = j - Len(a)
      BY <1>2, <1>3, <1>5, <2>3 DEF Distinct
    <3> QED
      BY <1>1, <3>1
  <2>4. CASE i \in 1..Len(a) /\ j \notin 1..Len(a)
    BY <1>1, <1>3, <2>1, <2>4
  <2>5. CASE i \notin 1..Len(a) /\ j \in 1..Len(a)
    BY <1>1, <1>3, <2>1, <2>5
  <2> QED
    BY <2>2, <2>3, <2>4, <2>5
<1> QED
  BY <1>4, <1>5 DEF r

\* Without its first node, a queue has everything else.
LEMMA TailDistinct ==
  ASSUME NEW T, NEW q \in Seq(T), q # <<>>, Distinct(q)
  PROVE  /\ Distinct(Tail(q)) /\ Contains(q, Head(q))
         /\ \A x : Contains(Tail(q), x) <=> Contains(q, x) /\ x # Head(q)
<1> DEFINE r == Tail(q)
<1>1. /\ Len(q) \in Nat /\ Len(q) > 0 /\ DOMAIN q = 1..Len(q) /\ Head(q) = q[1]
      /\ r \in Seq(T) /\ Len(r) = Len(q) - 1 /\ DOMAIN r = 1..(Len(q) - 1)
      /\ \A i \in 1..(Len(q) - 1) : r[i] = q[i + 1]
  OBVIOUS
<1> HIDE DEF r
<1>2. \A i \in 1..(Len(q) - 1) : i + 1 \in 1..Len(q) /\ i + 1 # 1
  BY <1>1
<1>3. \A i \in 1..Len(q) : i = 1 \/ (i - 1 \in 1..(Len(q) - 1) /\ (i - 1) + 1 = i)
  BY <1>1
<1>4. 1 \in 1..Len(q)
  BY <1>1
<1>5. Distinct(r)
  <2> SUFFICES ASSUME NEW i \in 1..(Len(q) - 1), NEW j \in 1..(Len(q) - 1), r[i] = r[j]
               PROVE  i = j
    BY <1>1 DEF Distinct
  <2>1. q[i + 1] = q[j + 1]
    BY <1>1
  <2>2. i + 1 = j + 1
    BY <1>1, <1>2, <2>1 DEF Distinct
  <2> QED
    BY <2>2
<1>6. \A x : (\E i \in 1..Len(r) : r[i] = x) <=> (\E i \in 1..Len(q) : q[i] = x) /\ x # q[1]
  <2>1. ASSUME NEW x, NEW i \in 1..Len(r), r[i] = x
        PROVE  (\E k \in 1..Len(q) : q[k] = x) /\ x # q[1]
    BY <1>1, <1>2, <1>4, <2>1 DEF Distinct
  <2>2. ASSUME NEW x, NEW i \in 1..Len(q), q[i] = x, x # q[1] PROVE \E k \in 1..Len(r) : r[k] = x
    <3>1. i - 1 \in 1..Len(r) /\ r[i - 1] = q[i]
      BY <1>1, <1>3, <2>2
    <3> QED
      BY <2>2, <3>1
  <2> QED
    BY <2>1, <2>2
<1> QED
  BY <1>1, <1>4, <1>5, <1>6 DEF Contains, r

\* Without duplicates, RemoveFirst takes a process off the queue.
LEMMA RemoveFirstDistinct ==
  ASSUME NEW T, NEW q \in Seq(T), NEW e, Distinct(q)
  PROVE  /\ Distinct(RemoveFirst(q, e))
         /\ \A x : Contains(RemoveFirst(q, e), x) <=> Contains(q, x) /\ x # e
<1>1. CASE ~Contains(q, e)
  BY <1>1, RemoveFirstShape DEF Contains
<1>2. CASE Contains(q, e)
  <2> DEFINE r == RemoveFirst(q, e)
             at(i, k) == IF i < k THEN i ELSE i + 1
  <2>1. PICK k \in 1..Len(q) : q[k] = e /\ Without(r, q, k)
    BY <1>2, RemoveFirstShape
  <2>2. r \in Seq(T) /\ DOMAIN r = 1..Len(r) /\ Len(r) = Len(q) - 1
        /\ DOMAIN q = 1..Len(q) /\ Len(q) \in Nat
    BY <1>2, <2>1, RemoveFirstShape DEF Without
  <2>3. \A i \in 1..Len(r) : at(i, k) \in 1..Len(q) /\ at(i, k) # k /\ r[i] = q[at(i, k)]
    BY <2>1, <2>2 DEF Without
  <2>4. \A i, j \in 1..Len(r) : at(i, k) = at(j, k) => i = j
    BY <2>2
  <2> HIDE DEF r, at
  <2>5. Distinct(r)
    <3> SUFFICES ASSUME NEW i \in 1..Len(r), NEW j \in 1..Len(r), r[i] = r[j] PROVE i = j
      BY <2>2 DEF Distinct
    <3>1. q[at(i, k)] = q[at(j, k)]
      BY <2>3
    <3>2. at(i, k) = at(j, k)
      BY <2>2, <2>3, <3>1 DEF Distinct
    <3> QED
      BY <2>4, <3>2
  <2>6. ~Contains(r, e)
    BY <2>1, <2>2, <2>3 DEF Distinct, Contains
  <2>7. \A x : x # e => (Contains(r, x) <=> Contains(q, x))
    BY RemoveFirstMembers DEF r
  <2> QED
    BY <2>5, <2>6, <2>7 DEF r
<1> QED
  BY <1>1, <1>2

-----------------------------------------------------------------------------
\* One ready queue, in order.

\* But for the idle process, q holds the processes in state st, once each.
Matches(table, q, st) ==
  /\ Distinct(q)
  /\ \A p \in Slots \ {IdleProcess} : Contains(q, p) <=> table[p].state = st

FreeMatches(table) ==
  \A p \in Slots : table[p].pid = 0 <=> table[p].state \in {"NEW", "TERMINATED"}

CallerRuns(table, cur, inside) ==
  cur # NULL => /\ table[cur].pid # 0 /\ table[cur].state # "ZOMBIE"
                /\ cur \notin inside => table[cur].state = "RUNNING"

IdleRuns(table) == table[IdleProcess].pid = 1 /\ table[IdleProcess].state = "RUNNING"

InOrder(table, q, wait, sleep, cur, inside) ==
  /\ Matches(table, q, "READY") /\ Matches(table, wait, "BLOCKED")
  /\ Matches(table, sleep, "SLEEPING")
  /\ FreeMatches(table) /\ CallerRuns(table, cur, inside)

\* Holds of KernelScheduler, for any table.
HoldsIn(table, q, st) ==
  /\ \A i \in DOMAIN q : q[i] # IdleProcess => table[q[i]].state = st
  /\ \A p \in Slots : table[p].state = st => Contains(q, p)
  /\ \A i, j \in DOMAIN q : q[i] = q[j] => i = j

\* Both say the same of a queue when the idle process is RUNNING.
LEMMA HoldsIsMatches ==
  ASSUME NEW table, NEW q \in Seq(Slots), NEW st, st # "RUNNING",
         table[IdleProcess].state = "RUNNING"
  PROVE  HoldsIn(table, q, st) <=> Matches(table, q, st)
<1>1. DOMAIN q = 1..Len(q) /\ \A i \in 1..Len(q) : q[i] \in Slots
  OBVIOUS
<1> QED
  BY <1>1 DEF HoldsIn, Matches, Contains, Distinct

\* OrderIInv in this vocabulary.
LEMMA OrderUnpacked ==
  ASSUME OrderIInv
  PROVE  /\ IInv /\ IdleRuns(pcb) /\ ~Contains(sleep_queue, IdleProcess) /\ next_pid >= 2
         /\ orderly /\ ~IsMLFQ
              => InOrder(pcb, ready[0], wait_queue, sleep_queue, current, calls)
<1>1. IInv /\ IdleRuns(pcb) /\ ~Contains(sleep_queue, IdleProcess) /\ next_pid >= 2
  BY DEF OrderIInv, IdleKept, IdleRuns
<1>2. ASSUME orderly, ~IsMLFQ
      PROVE  InOrder(pcb, ready[0], wait_queue, sleep_queue, current, calls)
  <2>1. /\ HoldsIn(pcb, ready[0], "READY") /\ HoldsIn(pcb, wait_queue, "BLOCKED")
        /\ HoldsIn(pcb, sleep_queue, "SLEEPING")
    BY <1>2 DEF OrderIInv, QueuesMatchStates, Holds, HoldsIn
  <2>2. ready[0] \in Seq(Slots) /\ wait_queue \in Seq(Slots) /\ sleep_queue \in Seq(Slots)
    BY <1>1, <1>2, OneQueue, Unpacked
  <2>3. /\ Matches(pcb, ready[0], "READY") /\ Matches(pcb, wait_queue, "BLOCKED")
        /\ Matches(pcb, sleep_queue, "SLEEPING")
    BY <1>1, <2>1, <2>2, HoldsIsMatches DEF IdleRuns
  <2>4. FreeMatches(pcb) /\ CallerRuns(pcb, current, calls)
    BY <1>2 DEF OrderIInv, FreeAndRunning, FreeMatches, CallerRuns
  <2> QED
    BY <2>3, <2>4 DEF InOrder
<1> QED
  BY <1>1, <1>2

\* And in the next state.
LEMMA OrderAssembled ==
  ASSUME IInv', UNCHANGED sched_type, IdleRuns(pcb'),
         ~Contains(sleep_queue', IdleProcess), next_pid' >= 2,
         orderly' /\ ~IsMLFQ
           => InOrder(pcb', ready'[0], wait_queue', sleep_queue', current', calls')
  PROVE  OrderIInv'
<1>1. Slots' = Slots /\ Queues' = Queues /\ IsMLFQ' = IsMLFQ
  BY DEF Slots, Queues, IsMLFQ
<1>2. IdleKept'
  BY DEF IdleKept, IdleRuns
<1>3. FreeAndRunning'
  BY <1>1 DEF FreeAndRunning, InOrder, FreeMatches, CallerRuns
<1>4. ASSUME orderly', ~IsMLFQ
      PROVE  /\ Holds(ready[0], "READY")' /\ Holds(wait_queue, "BLOCKED")'
             /\ Holds(sleep_queue, "SLEEPING")'
  <2>1. ready'[0] \in Seq(Slots) /\ wait_queue' \in Seq(Slots) /\ sleep_queue' \in Seq(Slots)
    <3>1. /\ ready' \in [Queues -> Seq(Slots)] /\ wait_queue' \in Seq(Slots)
          /\ sleep_queue' \in Seq(Slots)
      BY <1>1 DEF IInv, TypeOK
    <3> QED
      BY <1>4, <3>1 DEF Queues
  <2>2. /\ HoldsIn(pcb', ready'[0], "READY") /\ HoldsIn(pcb', wait_queue', "BLOCKED")
        /\ HoldsIn(pcb', sleep_queue', "SLEEPING")
    BY <1>4, <2>1, HoldsIsMatches DEF IdleRuns, InOrder
  <2> QED
    BY <1>1, <2>2 DEF HoldsIn, Holds
<1>5. QueuesMatchStates'
  BY <1>1, <1>4 DEF QueuesMatchStates
<1> QED
  BY <1>2, <1>3, <1>5 DEF OrderIInv

\* With one ready queue get_next_process takes its head.
LEMMA NextOfOne ==
  ASSUME sched_type \in DOMAIN MaxProcesses, ~IsMLFQ, NEW q \in ReadyQueues
  PROVE  /\ q[0] = <<>> => get_next_process(q) = [chosen |-> NULL, left |-> q]
         /\ q[0] # <<>> => /\ get_next_process(q).chosen = Head(q[0])
                           /\ get_next_process(q).left[0] = Tail(q[0])
<1>1. Queues = {0} /\ DOMAIN q = {0}
  BY DEF Queues, ReadyQueues
<1>2. CASE q[0] = <<>>
  BY <1>1, <1>2 DEF get_next_process, NonEmpty
<1>3. CASE q[0] # <<>>
  <2>1. NonEmpty(q) = {0}
    BY <1>1, <1>3 DEF NonEmpty
  <2>2. First(q) = 0
    BY <2>1 DEF First
  <2> QED
    BY <1>1, <1>3, <2>1, <2>2 DEF get_next_process
<1> QED
  BY <1>2, <1>3

\* scheduler_schedule never takes the processor from the idle process for good.
LEMMA IdleStaysRunning ==
  ASSUME sched_type \in DOMAIN MaxProcesses, NEW t \in Contexts, IdleRuns(t.pcb)
  PROVE  IdleRuns(scheduler_schedule(t).pcb)
<1> DEFINE r == scheduler_schedule(t)
<1>1. \/ r.pcb = t.pcb
      \/ /\ r.pcb[IdleProcess].pid = t.pcb[IdleProcess].pid
         /\ r.pcb[IdleProcess].state \in {"RUNNING", t.pcb[IdleProcess].state}
  BY Switched, Numbers DEF GoesBack
<1> HIDE DEF r
<1>2. IdleRuns(r.pcb)
  BY <1>1 DEF IdleRuns
<1> QED
  BY <1>2 DEF r

\* The queue loses the process that runs next and gains the one that goes back.
LEMMA SchedulingInOrder ==
  ASSUME sched_type \in DOMAIN MaxProcesses, ~IsMLFQ, NEW t \in Contexts, IdleRuns(t.pcb),
         scheduler_schedule(t).orderly,
         NEW wait, NEW sleep, NEW inside, NEW inside2,
         InOrder(t.pcb, t.ready[0], wait, sleep, t.cur, inside)
  PROVE  LET r == scheduler_schedule(t)
         IN  t.orderly /\ InOrder(r.pcb, r.ready[0], wait, sleep, r.cur, inside2)
<1> DEFINE r == scheduler_schedule(t)
           q == t.ready[0]
           left == get_next_process(t.ready).left[0]
           next == ToRun(t.ready)
           back == GoesBack(t)
<1>1. t.ready \in ReadyQueues /\ t.cur \in Slots \cup {NULL} /\ q \in Seq(Slots)
  BY OneQueue DEF Contexts
<1>2. Matches(t.pcb, q, "READY") /\ Distinct(q)
  BY DEF InOrder, Matches
<1>3. /\ left \in Seq(Slots) /\ Distinct(left) /\ next \in Slots
      /\ \A p \in Slots \ {IdleProcess} : Contains(left, p) <=> t.pcb[p].state = "READY" /\ p # next
      /\ next # IdleProcess => t.pcb[next].state = "READY"
  <2>1. CASE q = <<>>
    <3>1. left = q /\ next = IdleProcess
      BY <1>1, <2>1, NextOfOne DEF ToRun
    <3> QED
      BY <1>1, <1>2, <3>1, Numbers DEF Matches
  <2>2. CASE q # <<>>
    <3>1. get_next_process(t.ready).chosen = Head(q) /\ left = Tail(q)
      BY <1>1, <2>2, NextOfOne
    <3>2. Head(q) \in Slots /\ Tail(q) \in Seq(Slots)
      BY <1>1, <2>2
    <3>3. next = Head(q)
      BY <3>1, <3>2, Numbers DEF ToRun
    <3>4. /\ Distinct(Tail(q)) /\ Contains(q, Head(q))
          /\ \A x : Contains(Tail(q), x) <=> Contains(q, x) /\ x # Head(q)
      BY <1>1, <1>2, <2>2, TailDistinct
    <3> HIDE DEF next, left, q
    <3> QED
      BY <1>2, <3>1, <3>2, <3>3, <3>4 DEF Matches
  <2> QED
    BY <2>1, <2>2
<1> HIDE DEF q, left
<1>4. CASE t.cur = next
  <2>1. /\ r.pcb = t.pcb /\ r.ready[0] = left /\ r.cur = t.cur
        /\ t.orderly /\ t.cur = IdleProcess
    BY <1>4, Switched DEF left
  <2> HIDE DEF r
  <2>2. Matches(r.pcb, r.ready[0], "READY")
    BY <1>2, <1>3, <1>4, <2>1 DEF Matches
  <2>3. CallerRuns(r.pcb, r.cur, inside2)
    BY <2>1 DEF IdleRuns, CallerRuns
  <2> QED
    BY <2>1, <2>2, <2>3 DEF InOrder, r
<1>5. CASE t.cur # next
  <2> DEFINE queue == IF back THEN Append(left, t.cur) ELSE left
  <2>1. /\ t.orderly /\ r.ready[0] = RemoveFirst(queue, next) /\ r.cur = next
        /\ \A p \in Slots :
             /\ r.pcb[p].pid = t.pcb[p].pid
             /\ r.pcb[p].state = IF p = next THEN "RUNNING"
                                 ELSE IF p = t.cur /\ back THEN "READY" ELSE t.pcb[p].state
    BY <1>5, Switched DEF left
  <2>2. back => t.cur \in Slots /\ ~Contains(left, t.cur)
    BY <1>1, <1>3 DEF GoesBack
  <2>3. /\ queue \in Seq(Slots) /\ Distinct(queue)
        /\ \A x : Contains(queue, x) <=> Contains(left, x) \/ (back /\ x = t.cur)
    BY <1>3, <2>2, Appended, AppendDistinct
  <2> HIDE DEF queue, r
  <2>4. /\ Distinct(r.ready[0])
        /\ \A x : Contains(r.ready[0], x) <=> Contains(queue, x) /\ x # next
    BY <2>1, <2>3, RemoveFirstDistinct
  <2> HIDE DEF next
  <2>5. Matches(r.pcb, r.ready[0], "READY")
    BY <1>3, <2>1, <2>3, <2>4 DEF Matches, GoesBack
  <2>6. Matches(r.pcb, wait, "BLOCKED") /\ Matches(r.pcb, sleep, "SLEEPING")
    BY <1>3, <2>1 DEF InOrder, Matches, GoesBack
  <2>7. FreeMatches(r.pcb) /\ CallerRuns(r.pcb, r.cur, inside2)
    BY <1>3, <2>1 DEF InOrder, FreeMatches, CallerRuns, GoesBack, IdleRuns
  <2> QED
    BY <2>1, <2>5, <2>6, <2>7 DEF InOrder, r
<1> QED
  BY <1>4, <1>5

\* A new process takes a PCB that is on no queue, and joins the ready queue.
LEMMA CreateOrder ==
  ASSUME OrderIInv, IInv', UNCHANGED sched_type, NEW priority \in Priorities,
         scheduler_create_process(priority)
  PROVE  OrderIInv'
<1> DEFINE p == pcb_alloc
           b == [Blank EXCEPT !.pid = next_pid, !.state = "READY",
                              !.level = IF IsMLFQ THEN priority ELSE 0]
           table == [pcb EXCEPT ![p] = b]
<1>1. p \in Slots /\ pcb[p].pid = 0 /\ pcb \in Tables /\ next_pid \in Nat
  BY Allocated, Unpacked, OrderUnpacked DEF scheduler_create_process
<1>2. b.pid = next_pid /\ b.state = "READY"
  BY DEF Blank
<1> HIDE DEF b, p
<1>3. \A s \in Slots : /\ table[s].state = IF s = p THEN "READY" ELSE pcb[s].state
                       /\ table[s].pid = IF s = p THEN next_pid ELSE pcb[s].pid
  BY <1>1, <1>2 DEF Tables
<1>4. pcb' = table /\ ready' = add_to_ready_queue_internal(ready, table, p)
      /\ calls' = calls \ {p} /\ next_pid' = next_pid + 1
      /\ UNCHANGED <<wait_queue, sleep_queue, current, orderly>>
  BY DEF scheduler_create_process, p, b
<1> HIDE DEF table
<1>5. p # IdleProcess
  BY <1>1, OrderUnpacked DEF IdleRuns
<1>6. IdleRuns(pcb') /\ ~Contains(sleep_queue', IdleProcess) /\ next_pid' >= 2
  <2>1. IdleProcess \in Slots
    BY Numbers, Unpacked, OrderUnpacked
  <2>2. next_pid >= 2
    BY OrderUnpacked
  <2>3. next_pid' >= 2
    BY <1>1, <1>4, <2>2
  <2> QED
    BY <1>3, <1>4, <1>5, <2>1, <2>3, OrderUnpacked DEF IdleRuns
<1>7. ASSUME orderly', ~IsMLFQ
      PROVE  InOrder(pcb', ready'[0], wait_queue', sleep_queue', current', calls')
  <2>1. InOrder(pcb, ready[0], wait_queue, sleep_queue, current, calls)
    BY <1>4, <1>7, OrderUnpacked
  <2>2. pcb[p].state \in {"NEW", "TERMINATED"} /\ p # current
    BY <1>1, <2>1, Numbers, Unpacked, OrderUnpacked DEF InOrder, FreeMatches, CallerRuns
  <2>3. ready'[0] = Append(ready[0], p) /\ ready[0] \in Seq(Slots)
    BY <1>1, <1>3, <1>4, <1>7, OneQueue, Unpacked, OrderUnpacked
  <2>4. ~Contains(ready[0], p)
    BY <1>1, <1>5, <2>1, <2>2 DEF InOrder, Matches
  <2>5. Distinct(ready'[0]) /\ \A x : Contains(ready'[0], x) <=> Contains(ready[0], x) \/ x = p
    BY <1>1, <2>1, <2>3, <2>4, Appended, AppendDistinct DEF InOrder, Matches
  <2>6. Matches(pcb', ready'[0], "READY")
    BY <1>3, <1>4, <2>1, <2>5 DEF InOrder, Matches
  <2>7. Matches(pcb', wait_queue', "BLOCKED") /\ Matches(pcb', sleep_queue', "SLEEPING")
    BY <1>3, <1>4, <2>1, <2>2 DEF InOrder, Matches
  <2>8. next_pid # 0
    BY <1>1, OrderUnpacked
  <2>9. FreeMatches(pcb')
    BY <1>3, <1>4, <2>1, <2>8 DEF InOrder, FreeMatches
  <2>10. CallerRuns(pcb', current', calls')
    BY <1>3, <1>4, <2>1, <2>2, Unpacked, OrderUnpacked DEF InOrder, CallerRuns
  <2> QED
    BY <2>6, <2>7, <2>9, <2>10 DEF InOrder
<1> QED
  BY <1>6, <1>7, OrderAssembled

\* A caller names a process that is not the idle process.
LEMMA NamedProcess ==
  ASSUME OrderIInv, NEW pid \in Pids, NEW p \in process_table_find(pid)
  PROVE  p \in Slots /\ p # IdleProcess /\ pcb[p].pid = pid /\ pid # 0
<1>1. p \in Slots /\ pcb[p].pid = pid
  BY DEF process_table_find
<1>2. pid # 0 /\ pid # 1
  BY KernelConstants, OrderUnpacked, Unpacked DEF Pids
<1> QED
  BY <1>1, <1>2, OrderUnpacked DEF IdleRuns

\* A process that is terminated in order was RUNNING or on the ready queue.
LEMMA TerminateOrder ==
  ASSUME OrderIInv, IInv', UNCHANGED sched_type, NEW pid \in Pids,
         scheduler_terminate_process(pid)
  PROVE  OrderIInv'
<1>1. PICK p \in process_table_find(pid) :
         /\ pcb[p].state \notin {"TERMINATED", "ZOMBIE"}
         /\ ready' = remove_from_ready_queue_internal(ready, p)
         /\ pcb' = pcb_set_state(pcb, p, "ZOMBIE")
         /\ current' = IF p = current THEN NULL ELSE current
         /\ orderly' = (orderly /\ pcb[p].state \notin {"BLOCKED", "SLEEPING"})
  BY Zenon DEF scheduler_terminate_process
<1>2. UNCHANGED <<wait_queue, sleep_queue, next_pid, calls>>
  BY DEF scheduler_terminate_process
<1>3. p \in Slots /\ p # IdleProcess /\ pcb[p].pid # 0
  BY NamedProcess
<1>4. \A r \in Slots : /\ pcb'[r].state = IF r = p THEN "ZOMBIE" ELSE pcb[r].state
                       /\ pcb'[r].pid = pcb[r].pid
  <2>1. "ZOMBIE" \in States
    BY DEF States
  <2> QED
    BY <1>1, <1>3, <2>1, SetState, Unpacked, OrderUnpacked
<1>5. IdleRuns(pcb') /\ ~Contains(sleep_queue', IdleProcess) /\ next_pid' >= 2
  BY <1>2, <1>3, <1>4, Numbers, Unpacked, OrderUnpacked DEF IdleRuns
<1>6. ASSUME orderly', ~IsMLFQ
      PROVE  InOrder(pcb', ready'[0], wait_queue', sleep_queue', current', calls')
  <2>1. orderly /\ pcb[p].state \notin {"BLOCKED", "SLEEPING"}
    BY <1>1, <1>6, Zenon
  <2>2. InOrder(pcb, ready[0], wait_queue, sleep_queue, current, calls)
    BY <1>6, <2>1, OrderUnpacked
  <2>3. ready'[0] = RemoveFirst(ready[0], p) /\ ready[0] \in Seq(Slots)
    BY <1>1, <1>6, OneQueue, Unpacked, OrderUnpacked
  <2>4. Distinct(ready'[0]) /\ \A x : Contains(ready'[0], x) <=> Contains(ready[0], x) /\ x # p
    BY <2>2, <2>3, RemoveFirstDistinct DEF InOrder, Matches
  <2>5. Matches(pcb', ready'[0], "READY")
    BY <1>4, <2>2, <2>4 DEF InOrder, Matches
  <2>6. Matches(pcb', wait_queue', "BLOCKED") /\ Matches(pcb', sleep_queue', "SLEEPING")
    BY <1>2, <1>4, <2>1, <2>2 DEF InOrder, Matches
  <2>7. FreeMatches(pcb')
    BY <1>3, <1>4, <2>2 DEF InOrder, FreeMatches
  <2>8. CallerRuns(pcb', current', calls')
    BY <1>1, <1>2, <1>4, <2>2, Unpacked, OrderUnpacked DEF InOrder, CallerRuns
  <2> QED
    BY <2>5, <2>6, <2>7, <2>8 DEF InOrder
<1> QED
  BY <1>5, <1>6, OrderAssembled

\* A zombie that is reaped is on no queue and not current.
LEMMA ReapOrder ==
  ASSUME OrderIInv, IInv', UNCHANGED sched_type, NEW pid \in Pids,
         scheduler_reap_process(pid)
  PROVE  OrderIInv'
<1>1. PICK p \in process_table_find(pid) :
         /\ pcb[p].state = "ZOMBIE"
         /\ pcb' = [pcb EXCEPT ![p].state = "TERMINATED", ![p].pid = 0]
  BY Zenon DEF scheduler_reap_process
<1>2. UNCHANGED <<ready, wait_queue, sleep_queue, current, next_pid, calls, orderly>>
  BY DEF scheduler_reap_process
<1>3. p \in Slots /\ p # IdleProcess
  BY NamedProcess
<1>4. \A r \in Slots : /\ pcb'[r].state = IF r = p THEN "TERMINATED" ELSE pcb[r].state
                       /\ pcb'[r].pid = IF r = p THEN 0 ELSE pcb[r].pid
  BY <1>1, <1>3, Unpacked, OrderUnpacked DEF Tables, PcbType
<1>5. IdleRuns(pcb') /\ ~Contains(sleep_queue', IdleProcess) /\ next_pid' >= 2
  BY <1>2, <1>3, <1>4, Numbers, Unpacked, OrderUnpacked DEF IdleRuns
<1>6. ASSUME orderly', ~IsMLFQ
      PROVE  InOrder(pcb', ready'[0], wait_queue', sleep_queue', current', calls')
  <2>1. InOrder(pcb, ready[0], wait_queue, sleep_queue, current, calls)
    BY <1>2, <1>6, OrderUnpacked
  <2>2. /\ Matches(pcb', ready'[0], "READY") /\ Matches(pcb', wait_queue', "BLOCKED")
        /\ Matches(pcb', sleep_queue', "SLEEPING")
    <3>1. pcb[p].state = "ZOMBIE"
      BY <1>1
    <3> QED
      BY <1>2, <1>4, <2>1, <3>1 DEF InOrder, Matches
  <2>3. FreeMatches(pcb')
    BY <1>4, <2>1 DEF InOrder, FreeMatches
  <2>4. CallerRuns(pcb', current', calls')
    BY <1>1, <1>2, <1>4, <2>1, Unpacked, OrderUnpacked DEF InOrder, CallerRuns
  <2> QED
    BY <2>2, <2>3, <2>4 DEF InOrder
<1> QED
  BY <1>5, <1>6, OrderAssembled

\* A wakeup moves one node from the wait queue to the ready queue.
LEMMA WakeupOrder ==
  ASSUME OrderIInv, IInv', UNCHANGED sched_type, NEW pid \in Pids,
         scheduler_wakeup_process(pid)
  PROVE  OrderIInv'
<1>1. PICK p \in process_table_find(pid) :
         /\ Contains(wait_queue, p)
         /\ wait_queue' = RemoveFirst(wait_queue, p)
         /\ pcb' = pcb_set_state(pcb, p, "READY")
         /\ ready' = add_to_ready_queue_internal(ready, pcb', p)
  BY Zenon DEF scheduler_wakeup_process
<1>2. UNCHANGED <<sleep_queue, current, next_pid, calls, orderly>>
  BY DEF scheduler_wakeup_process
<1>3. p \in Slots /\ p # IdleProcess
  BY NamedProcess
<1>4. \A r \in Slots : /\ pcb'[r].state = IF r = p THEN "READY" ELSE pcb[r].state
                       /\ pcb'[r].pid = pcb[r].pid
  <2>1. "READY" \in States
    BY DEF States
  <2> QED
    BY <1>1, <1>3, <2>1, SetState, Unpacked, OrderUnpacked
<1>5. IdleRuns(pcb') /\ ~Contains(sleep_queue', IdleProcess) /\ next_pid' >= 2
  BY <1>2, <1>3, <1>4, Numbers, Unpacked, OrderUnpacked DEF IdleRuns
<1>6. ASSUME orderly', ~IsMLFQ
      PROVE  InOrder(pcb', ready'[0], wait_queue', sleep_queue', current', calls')
  <2>1. InOrder(pcb, ready[0], wait_queue, sleep_queue, current, calls)
    BY <1>2, <1>6, OrderUnpacked
  <2>2. pcb[p].state = "BLOCKED"
    BY <1>1, <1>3, <2>1 DEF InOrder, Matches
  <2>3. ready'[0] = Append(ready[0], p) /\ ready[0] \in Seq(Slots)
    BY <1>1, <1>3, <1>4, <1>6, OneQueue, Unpacked, OrderUnpacked
  <2>4. ~Contains(ready[0], p)
    BY <1>3, <2>1, <2>2 DEF InOrder, Matches
  <2>5. Distinct(ready'[0]) /\ \A x : Contains(ready'[0], x) <=> Contains(ready[0], x) \/ x = p
    BY <1>3, <2>1, <2>3, <2>4, Appended, AppendDistinct DEF InOrder, Matches
  <2>6. /\ Distinct(wait_queue')
        /\ \A x : Contains(wait_queue', x) <=> Contains(wait_queue, x) /\ x # p
    BY <1>1, <2>1, RemoveFirstDistinct, Unpacked, OrderUnpacked DEF InOrder, Matches
  <2>7. Matches(pcb', ready'[0], "READY")
    BY <1>4, <2>1, <2>5 DEF InOrder, Matches
  <2>8. Matches(pcb', wait_queue', "BLOCKED")
    BY <1>4, <2>1, <2>6 DEF InOrder, Matches
  <2>9. Matches(pcb', sleep_queue', "SLEEPING")
    BY <1>2, <1>4, <2>1, <2>2 DEF InOrder, Matches
  <2>10. FreeMatches(pcb')
    BY <1>4, <2>1, <2>2 DEF InOrder, FreeMatches
  <2>11. CallerRuns(pcb', current', calls')
    BY <1>2, <1>4, <2>1, <2>2, Unpacked, OrderUnpacked DEF InOrder, CallerRuns
  <2> QED
    BY <2>7, <2>8, <2>9, <2>10, <2>11 DEF InOrder
<1> QED
  BY <1>5, <1>6, OrderAssembled

\* A change of priority leaves a READY process on the ready queue once.
LEMMA SetPriorityOrder ==
  ASSUME OrderIInv, IInv', UNCHANGED sched_type, NEW pid \in Pids,
         scheduler_set_priority(pid)
  PROVE  OrderIInv'
<1>1. PICK p \in process_table_find(pid) :
         /\ pcb[p].state = "READY"
         /\ ready' = add_to_ready_queue_internal(
                       remove_from_ready_queue_internal(ready, p), pcb, p)
  BY Zenon DEF scheduler_set_priority
<1>2. UNCHANGED <<pcb, wait_queue, sleep_queue, current, next_pid, calls, orderly>>
  BY DEF scheduler_set_priority
<1>3. p \in Slots /\ p # IdleProcess
  BY NamedProcess
<1>4. ASSUME orderly', ~IsMLFQ
      PROVE  InOrder(pcb', ready'[0], wait_queue', sleep_queue', current', calls')
  <2> DEFINE q == RemoveFirst(ready[0], p)
  <2>1. InOrder(pcb, ready[0], wait_queue, sleep_queue, current, calls)
    BY <1>2, <1>4, OrderUnpacked
  <2>2. /\ remove_from_ready_queue_internal(ready, p) \in ReadyQueues
        /\ remove_from_ready_queue_internal(ready, p)[0] = q /\ ready[0] \in Seq(Slots)
    BY <1>3, <1>4, OneQueue, Leaves, Unpacked, OrderUnpacked
  <2>3. /\ q \in Seq(Slots) /\ Distinct(q)
        /\ \A x : Contains(q, x) <=> Contains(ready[0], x) /\ x # p
    BY <2>1, <2>2, RemoveFirstMembers, RemoveFirstDistinct DEF InOrder, Matches
  <2>4. ready'[0] = Append(q, p)
    BY <1>1, <1>4, <2>2, OneQueue, Unpacked, OrderUnpacked
  <2> HIDE DEF q
  <2>5. Distinct(ready'[0]) /\ \A x : Contains(ready'[0], x) <=> Contains(q, x) \/ x = p
    BY <1>3, <2>3, <2>4, Appended, AppendDistinct
  <2>6. Matches(pcb', ready'[0], "READY")
    BY <1>1, <1>2, <2>1, <2>3, <2>5 DEF InOrder, Matches
  <2> QED
    BY <1>2, <2>1, <2>6 DEF InOrder
<1> QED
  BY <1>2, <1>4, OrderUnpacked, OrderAssembled

\* The process that yields, blocks or goes to sleep is RUNNING until then.
LEMMA CallerInOrder ==
  ASSUME OrderIInv, Unlocking
  PROVE  /\ current \in Slots /\ current # IdleProcess /\ current # NULL
         /\ calls' = calls \cup {current}
         /\ UNCHANGED <<ready, current, next_pid, orderly>>
         /\ orderly /\ ~IsMLFQ => pcb[current].state = "RUNNING"
BY UnlockFacts, OrderUnpacked DEF Unlocking, CallerIsProcess, MayCall, InOrder, CallerRuns

\* A process that yields stays off the queues.
LEMMA YieldOrder ==
  ASSUME OrderIInv, IInv', UNCHANGED sched_type, scheduler_yield
  PROVE  OrderIInv'
<1>1. UNCHANGED <<wait_queue, sleep_queue>> /\ pcb' = [pcb EXCEPT ![current].in_queue = 0]
      /\ Unlocking
  BY DEF scheduler_yield
<1>2. \A r \in Slots : pcb'[r].state = pcb[r].state /\ pcb'[r].pid = pcb[r].pid
  BY <1>1, Unpacked, OrderUnpacked DEF Tables, PcbType
<1>3. IdleRuns(pcb')
  BY <1>2, Numbers, Unpacked, OrderUnpacked DEF IdleRuns
<1>4. ASSUME orderly', ~IsMLFQ
      PROVE  InOrder(pcb', ready'[0], wait_queue', sleep_queue', current', calls')
  <2>1. InOrder(pcb, ready[0], wait_queue, sleep_queue, current, calls)
    BY <1>1, <1>4, CallerInOrder, OrderUnpacked
  <2> QED
    BY <1>1, <1>2, <2>1, CallerInOrder DEF InOrder, Matches, FreeMatches, CallerRuns
<1> QED
  BY <1>1, <1>3, <1>4, CallerInOrder, OrderUnpacked, OrderAssembled

\* A process that blocks joins the wait queue, on which it was not.
LEMMA BlockOrder ==
  ASSUME OrderIInv, IInv', UNCHANGED sched_type, scheduler_block_process
  PROVE  OrderIInv'
<1>1. /\ Unlocking /\ UNCHANGED sleep_queue
      /\ pcb' = pcb_set_state(pcb, current, "BLOCKED")
      /\ wait_queue' = Append(wait_queue, current)
  BY DEF scheduler_block_process
<1>2. \A r \in Slots : /\ pcb'[r].state = IF r = current THEN "BLOCKED" ELSE pcb[r].state
                       /\ pcb'[r].pid = pcb[r].pid
  <2>1. "BLOCKED" \in States
    BY DEF States
  <2> QED
    BY <1>1, <2>1, SetState, CallerInOrder, Unpacked, OrderUnpacked
<1>3. IdleRuns(pcb')
  BY <1>1, <1>2, Numbers, CallerInOrder, Unpacked, OrderUnpacked DEF IdleRuns
<1>4. ASSUME orderly', ~IsMLFQ
      PROVE  InOrder(pcb', ready'[0], wait_queue', sleep_queue', current', calls')
  <2>1. InOrder(pcb, ready[0], wait_queue, sleep_queue, current, calls)
    BY <1>1, <1>4, CallerInOrder, OrderUnpacked
  <2>2. /\ pcb[current].state = "RUNNING" /\ current \in Slots /\ current # IdleProcess
        /\ UNCHANGED <<ready, current>> /\ calls' = calls \cup {current}
    BY <1>1, <1>4, CallerInOrder
  <2>3. ~Contains(wait_queue, current)
    BY <2>1, <2>2 DEF InOrder, Matches
  <2>4. /\ Distinct(wait_queue')
        /\ \A x : Contains(wait_queue', x) <=> Contains(wait_queue, x) \/ x = current
    BY <1>1, <2>1, <2>2, <2>3, Appended, AppendDistinct, Unpacked, OrderUnpacked
      DEF InOrder, Matches
  <2>5. Matches(pcb', wait_queue', "BLOCKED")
    BY <1>2, <2>1, <2>4 DEF InOrder, Matches
  <2>6. Matches(pcb', ready'[0], "READY") /\ Matches(pcb', sleep_queue', "SLEEPING")
    BY <1>1, <1>2, <2>1, <2>2 DEF InOrder, Matches
  <2>7. FreeMatches(pcb') /\ CallerRuns(pcb', current', calls')
    BY <1>2, <2>1, <2>2 DEF InOrder, FreeMatches, CallerRuns
  <2> QED
    BY <2>5, <2>6, <2>7 DEF InOrder
<1> QED
  BY <1>1, <1>3, <1>4, CallerInOrder, OrderUnpacked, OrderAssembled

\* A process that goes to sleep joins the sleep queue likewise.
LEMMA SleepOrder ==
  ASSUME OrderIInv, IInv', UNCHANGED sched_type, NEW n \in SleepTimes,
         scheduler_sleep_process(n)
  PROVE  OrderIInv'
<1>1. /\ Unlocking /\ UNCHANGED wait_queue
      /\ sleep_queue' = Append(sleep_queue, current)
  BY DEF scheduler_sleep_process
<1>2. \A r \in Slots : /\ pcb'[r].state = IF r = current THEN "SLEEPING" ELSE pcb[r].state
                       /\ pcb'[r].pid = pcb[r].pid
  <2> DEFINE dl == (ticks + n) % Word
  <2>1. pcb' = [pcb EXCEPT ![current].state = "SLEEPING", ![current].deadline = dl]
    BY DEF scheduler_sleep_process
  <2> HIDE DEF dl
  <2> QED
    BY <1>1, <2>1, CallerInOrder, Unpacked, OrderUnpacked DEF Tables, PcbType
<1>3. /\ sleep_queue \in Seq(Slots)
      /\ \A x : Contains(sleep_queue', x) <=> Contains(sleep_queue, x) \/ x = current
  BY <1>1, Appended, CallerInOrder, Unpacked, OrderUnpacked
<1>4. IdleRuns(pcb') /\ ~Contains(sleep_queue', IdleProcess)
  BY <1>1, <1>2, <1>3, Numbers, CallerInOrder, Unpacked, OrderUnpacked DEF IdleRuns
<1>5. ASSUME orderly', ~IsMLFQ
      PROVE  InOrder(pcb', ready'[0], wait_queue', sleep_queue', current', calls')
  <2>1. InOrder(pcb, ready[0], wait_queue, sleep_queue, current, calls)
    BY <1>1, <1>5, CallerInOrder, OrderUnpacked
  <2>2. /\ pcb[current].state = "RUNNING" /\ current \in Slots /\ current # IdleProcess
        /\ UNCHANGED <<ready, current>> /\ calls' = calls \cup {current}
    BY <1>1, <1>5, CallerInOrder
  <2>3. ~Contains(sleep_queue, current)
    BY <2>1, <2>2 DEF InOrder, Matches
  <2>4. Distinct(sleep_queue')
    BY <1>1, <1>3, <2>1, <2>2, <2>3, AppendDistinct DEF InOrder, Matches
  <2>5. Matches(pcb', sleep_queue', "SLEEPING")
    BY <1>2, <1>3, <2>1, <2>4 DEF InOrder, Matches
  <2>6. Matches(pcb', ready'[0], "READY") /\ Matches(pcb', wait_queue', "BLOCKED")
    BY <1>1, <1>2, <2>1, <2>2 DEF InOrder, Matches
  <2>7. FreeMatches(pcb') /\ CallerRuns(pcb', current', calls')
    BY <1>2, <2>1, <2>2 DEF InOrder, FreeMatches, CallerRuns
  <2> QED
    BY <2>5, <2>6, <2>7 DEF InOrder
<1> QED
  BY <1>1, <1>4, <1>5, CallerInOrder, OrderUnpacked, OrderAssembled

\* A switch leaves the queues in order.
LEMMA ScheduleOrder ==
  ASSUME OrderIInv, IInv', UNCHANGED sched_type, Become(scheduler_schedule(Here)),
         UNCHANGED <<wait_queue, sleep_queue, next_pid>>
  PROVE  OrderIInv'
<1> DEFINE r == scheduler_schedule(Here)
<1>1. Here \in Contexts /\ Here.pcb = pcb /\ Here.cur = current /\ Here.ready = ready
      /\ Here.orderly = orderly
  BY Unpacked, OrderUnpacked DEF Here, Contexts
<1>2. pcb' = r.pcb /\ ready' = r.ready /\ current' = r.cur /\ orderly' = r.orderly
  BY DEF Become
<1>3. IdleRuns(pcb')
  BY <1>1, <1>2, IdleStaysRunning, Unpacked, OrderUnpacked
<1>4. ASSUME orderly', ~IsMLFQ
      PROVE  InOrder(pcb', ready'[0], wait_queue', sleep_queue', current', calls')
  <2>1. orderly
    BY <1>1, <1>2, <1>4, Switched, Unpacked, OrderUnpacked DEF Contexts
  <2>2. InOrder(pcb, ready[0], wait_queue, sleep_queue, current, calls)
    BY <1>4, <2>1, OrderUnpacked
  <2>3. InOrder(r.pcb, r.ready[0], wait_queue, sleep_queue, r.cur, calls')
    BY <1>1, <1>2, <1>4, <2>2, SchedulingInOrder, Unpacked, OrderUnpacked
  <2> QED
    BY <1>2, <2>3
<1> QED
  BY <1>3, <1>4, OrderUnpacked, OrderAssembled

\* The nodes that a tick wakes move from the sleep queue to the ready queue.
LEMMA TickInOrder ==
  ASSUME OrderIInv, orderly, ~IsMLFQ
  PROVE  InOrder(TickTable, TickQueues[0], wait_queue, Asleep(update_process_times, TickNow),
                 current, calls)
<1> DEFINE rest == Asleep(update_process_times, TickNow)
           all == {p \in Slots : QueueOf(TickTable, p) = 0}
<1>1. InOrder(pcb, ready[0], wait_queue, sleep_queue, current, calls)
  BY OrderUnpacked
<1>2. ready[0] \in Seq(Slots) /\ sleep_queue \in Seq(Slots) /\ TickWoken \in Seq(Slots) /\ IInv
  BY OneQueue, TickFacts, Unpacked, OrderUnpacked
<1>3. Distinct(TickWoken) /\ Distinct(rest)
  BY <1>1, <1>2, NodesInDistinct DEF InOrder, Matches, TickWoken, Expired, Asleep
<1>4. all = Slots
  BY DEF QueueOf
<1>5. TickQueues[0] = ready[0] \o NodesIn(TickWoken, Slots)
  BY <1>4 DEF TickQueues, Queues
<1> HIDE DEF all
<1>6. \A x : /\ Contains(ready[0], x) => x \in Slots
             /\ Contains(TickWoken, x) => x \in Slots /\ x # IdleProcess
  <2>1. \A x : Contains(TickWoken, x) => Contains(sleep_queue, x)
    BY <1>2, TickFacts
  <2> QED
    BY <1>2, <2>1, OrderUnpacked DEF Contains
<1>7. /\ NodesIn(TickWoken, Slots) \in Seq(Slots) /\ Distinct(NodesIn(TickWoken, Slots))
      /\ \A x : Contains(NodesIn(TickWoken, Slots), x) <=> Contains(TickWoken, x)
  BY <1>2, <1>3, <1>6, NodesInMembers, NodesInDistinct
<1>8. \A p \in Slots :
        /\ TickTable[p].state = IF Contains(TickWoken, p) THEN "READY" ELSE pcb[p].state
        /\ TickTable[p].pid = pcb[p].pid
        /\ Contains(sleep_queue, p) <=> Contains(TickWoken, p) \/ Contains(rest, p)
        /\ ~(Contains(TickWoken, p) /\ Contains(rest, p))
  BY <1>2, TickFacts
<1> HIDE DEF rest
<1>9. \A p \in Slots \ {IdleProcess} : Contains(TickWoken, p) => pcb[p].state = "SLEEPING"
  BY <1>1, <1>8 DEF InOrder, Matches
<1>10. \A x : ~(Contains(ready[0], x) /\ Contains(NodesIn(TickWoken, Slots), x))
  BY <1>1, <1>6, <1>7, <1>9 DEF InOrder, Matches
<1>11. /\ Distinct(TickQueues[0])
       /\ \A x : Contains(TickQueues[0], x) <=> Contains(ready[0], x) \/ Contains(TickWoken, x)
  BY <1>1, <1>2, <1>5, <1>7, <1>10, ConcatenationDistinct DEF InOrder, Matches
<1>12. Matches(TickTable, TickQueues[0], "READY")
  BY <1>1, <1>8, <1>11 DEF InOrder, Matches
<1>13. Matches(TickTable, wait_queue, "BLOCKED")
  BY <1>1, <1>8, <1>9 DEF InOrder, Matches
<1>14. Matches(TickTable, rest, "SLEEPING")
  BY <1>1, <1>3, <1>8 DEF InOrder, Matches
<1>15. FreeMatches(TickTable)
  BY <1>1, <1>6, <1>8, <1>9 DEF InOrder, FreeMatches
<1>16. CallerRuns(TickTable, current, calls)
  BY <1>1, <1>2, <1>6, <1>8, <1>9, Unpacked DEF InOrder, CallerRuns
<1> QED
  BY <1>12, <1>13, <1>14, <1>15, <1>16 DEF InOrder, rest

\* So a tick leaves the queues in order, whether it switches or not.
LEMMA TickOrder ==
  ASSUME OrderIInv, IInv', UNCHANGED sched_type, scheduler_tick_handler
  PROVE  OrderIInv'
<1> DEFINE r == IF TickDue THEN scheduler_schedule(TickContext) ELSE TickContext
           rest == Asleep(update_process_times, TickNow)
<1>1. IInv /\ sched_type \in DOMAIN MaxProcesses /\ TickContext \in Contexts
  BY OrderUnpacked, Unpacked, TickFacts
<1>2. /\ TickContext.pcb = TickTable /\ TickContext.ready = TickQueues
      /\ TickContext.cur = current /\ TickContext.orderly = orderly
  BY DEF TickContext
<1>3. /\ pcb' = r.pcb /\ ready' = r.ready /\ current' = r.cur /\ orderly' = r.orderly
      /\ sleep_queue' = rest /\ UNCHANGED <<wait_queue, next_pid, calls>>
  BY TickUnfolds DEF Become
<1>4. ~Contains(rest, IdleProcess) /\ ~Contains(TickWoken, IdleProcess)
  BY <1>1, TickFacts, OrderUnpacked
<1>5. IdleRuns(TickTable)
  <2>1. IdleProcess \in Slots
    BY <1>1, Numbers
  <2>2. /\ TickTable[IdleProcess].state = pcb[IdleProcess].state
        /\ TickTable[IdleProcess].pid = pcb[IdleProcess].pid
    BY <1>1, <1>4, <2>1, TickFacts
  <2> QED
    BY <2>2, OrderUnpacked DEF IdleRuns
<1>6. IdleRuns(pcb')
  BY <1>1, <1>2, <1>3, <1>5, IdleStaysRunning
<1>7. ASSUME orderly', ~IsMLFQ
      PROVE  InOrder(pcb', ready'[0], wait_queue', sleep_queue', current', calls')
  <2>1. orderly
    BY <1>1, <1>2, <1>3, <1>7, Switched DEF Contexts
  <2>2. InOrder(TickTable, TickQueues[0], wait_queue, rest, current, calls)
    BY <1>7, <2>1, TickInOrder
  <2> HIDE DEF rest
  <2>3. CASE TickDue
    <3>1. r = scheduler_schedule(TickContext)
      BY <2>3
    <3>2. scheduler_schedule(TickContext).orderly
      BY <1>3, <1>7, <3>1
    <3>3. InOrder(r.pcb, r.ready[0], wait_queue, rest, r.cur, calls)
      BY <1>1, <1>2, <1>5, <1>7, <2>2, <3>1, <3>2, SchedulingInOrder
    <3> QED
      BY <1>3, <3>3
  <2>4. CASE ~TickDue
    BY <1>2, <1>3, <2>2, <2>4
  <2> QED
    BY <2>3, <2>4
<1> QED
  BY <1>3, <1>4, <1>6, <1>7, OrderUnpacked, OrderAssembled

\* The initial state is in order: the idle process is on the ready queue, and
\* RUNNING.
LEMMA InitOrder ==
  ASSUME Init
  PROVE  OrderIInv
<1> DEFINE idle == [Blank EXCEPT !.pid = 1, !.state = "RUNNING", !.level = PriorityLevels - 1]
<1>1. IInv /\ IdleProcess \in Slots
  BY InitIInv, Numbers DEF Init
<1>2. Blank.state = "NEW" /\ Blank.pid = 0 /\ idle.state = "RUNNING" /\ idle.pid = 1
  BY DEF Blank
<1>3. pcb = [s \in Slots |-> IF s = IdleProcess THEN idle ELSE Blank]
  BY DEF Init
<1> HIDE DEF idle
<1>4. \A p \in Slots : /\ pcb[p].state = IF p = IdleProcess THEN "RUNNING" ELSE "NEW"
                       /\ pcb[p].pid = IF p = IdleProcess THEN 1 ELSE 0
  BY <1>2, <1>3
<1>5. /\ wait_queue = <<>> /\ sleep_queue = <<>> /\ current = IdleProcess /\ next_pid = 2
      /\ calls = {}
  BY DEF Init
<1>6. IdleKept
  BY <1>1, <1>4, <1>5 DEF IdleKept, Contains
<1>7. FreeAndRunning
  BY <1>1, <1>4, <1>5 DEF FreeAndRunning
<1>8. ASSUME ~IsMLFQ PROVE ready[0] = <<IdleProcess>>
  BY <1>8 DEF Init, Queues
<1>9. QueuesMatchStates
  BY <1>4, <1>5, <1>8 DEF QueuesMatchStates, Holds
<1> QED
  BY <1>1, <1>6, <1>7, <1>9 DEF OrderIInv

\* Stuttering and every action preserve OrderIInv.
LEMMA NextOrder ==
  ASSUME OrderIInv, [Next]_vars
  PROVE  OrderIInv'
<1>1. IInv'
  BY NextIInv, OrderUnpacked
<1>2. CASE Next
  <2> UNCHANGED sched_type
    BY <1>2 DEF Next
  <2>1. CASE \E priority \in Priorities : scheduler_create_process(priority)
    BY <1>1, <2>1, CreateOrder
  <2>2. CASE \E pid \in Pids : scheduler_terminate_process(pid)
    BY <1>1, <2>2, TerminateOrder
  <2>3. CASE \E pid \in Pids : scheduler_reap_process(pid)
    BY <1>1, <2>3, ReapOrder
  <2>4. CASE \E pid \in Pids : scheduler_wakeup_process(pid)
    BY <1>1, <2>4, WakeupOrder
  <2>5. CASE \E pid \in Pids : scheduler_set_priority(pid)
    BY <1>1, <2>5, SetPriorityOrder
  <2>6. CASE \E n \in SleepTimes : scheduler_sleep_process(n)
    BY <1>1, <2>6, SleepOrder
  <2>7. CASE scheduler_yield
    BY <1>1, <2>7, YieldOrder
  <2>8. CASE scheduler_block_process
    BY <1>1, <2>8, BlockOrder
  <2>9. CASE Schedule
    BY <1>1, <2>9, ScheduleOrder DEF Schedule
  <2>10. CASE ScheduleAfterUnlock
    BY <1>1, <2>10, ScheduleOrder DEF ScheduleAfterUnlock
  <2>11. CASE scheduler_tick_handler
    BY <1>1, <2>11, TickOrder
  <2> QED
    BY <1>2, <2>1, <2>2, <2>3, <2>4, <2>5, <2>6, <2>7, <2>8, <2>9, <2>10, <2>11 DEF Next
<1>3. CASE UNCHANGED vars
  BY <1>1, <1>3
    DEF vars, OrderIInv, IdleKept, FreeAndRunning, QueuesMatchStates, Holds, Slots, IsMLFQ
<1> QED
  BY <1>2, <1>3

\* With one ready queue, as long as nobody terminates a waiting process and no
\* wakeup overtakes the switch of the process that blocks, the three queues hold
\* exactly the READY, BLOCKED and SLEEPING processes, once each.
THEOREM QueuesInStep == Spec => []QueuesMatchStates
<1>1. Init => OrderIInv
  BY InitOrder
<1>2. OrderIInv /\ [Next]_vars => OrderIInv'
  BY NextOrder
<1>3. OrderIInv => QueuesMatchStates
  BY DEF OrderIInv
<1> QED
  BY <1>1, <1>2, <1>3, PTL DEF Spec

-----------------------------------------------------------------------------
\* The life of a process.

\* The diagram, move by move.
LEMMA MovesAre ==
  /\ <<"NEW", "READY">> \in Moves /\ <<"TERMINATED", "READY">> \in Moves
  /\ <<"READY", "RUNNING">> \in Moves /\ <<"RUNNING", "READY">> \in Moves
  /\ <<"RUNNING", "BLOCKED">> \in Moves /\ <<"BLOCKED", "READY">> \in Moves
  /\ <<"RUNNING", "SLEEPING">> \in Moves /\ <<"SLEEPING", "READY">> \in Moves
  /\ <<"SLEEPING", "RUNNING">> \in Moves /\ <<"ZOMBIE", "TERMINATED">> \in Moves
  /\ \A st \in {"READY", "RUNNING", "BLOCKED", "SLEEPING"} : <<st, "ZOMBIE">> \in Moves
BY DEF Moves

\* A switch in order makes a READY process RUNNING, and the other one READY.
LEMMA SwitchMoves ==
  ASSUME sched_type \in DOMAIN MaxProcesses, ~IsMLFQ, NEW t \in Contexts, IdleRuns(t.pcb),
         NEW wait, NEW sleep, NEW inside,
         InOrder(t.pcb, t.ready[0], wait, sleep, t.cur, inside), NEW p \in Slots
  PROVE  LET r == scheduler_schedule(t)
         IN  \/ r.pcb[p].state = t.pcb[p].state
             \/ t.pcb[p].state = "READY" /\ r.pcb[p].state = "RUNNING"
             \/ t.pcb[p].state = "RUNNING" /\ r.pcb[p].state = "READY"
<1> DEFINE r == scheduler_schedule(t)
           q == t.ready[0]
           next == ToRun(t.ready)
<1>1. t.ready \in ReadyQueues /\ q \in Seq(Slots) /\ next \in Slots
  BY OneQueue, Switched DEF Contexts
<1>2. next # IdleProcess => t.pcb[next].state = "READY"
  <2>1. CASE q = <<>>
    BY <1>1, <2>1, NextOfOne DEF ToRun
  <2>2. CASE q # <<>>
    <3>1. get_next_process(t.ready).chosen = Head(q) /\ Head(q) \in Slots
      BY <1>1, <2>2, NextOfOne
    <3>2. next = Head(q)
      BY <3>1, Numbers DEF ToRun
    <3>3. Contains(q, Head(q))
      BY <1>1, <2>2, TailDistinct DEF InOrder, Matches
    <3> HIDE DEF next, q
    <3> QED
      BY <1>1, <3>2, <3>3 DEF InOrder, Matches, q
  <2> QED
    BY <2>1, <2>2
<1>3. CASE t.cur = next
  BY <1>3, Switched
<1>4. CASE t.cur # next
  <2>1. r.pcb[p].state = IF p = next THEN "RUNNING"
                         ELSE IF p = t.cur /\ GoesBack(t) THEN "READY" ELSE t.pcb[p].state
    BY <1>4, Switched
  <2> HIDE DEF r, next
  <2>2. CASE p = next
    BY <1>2, <2>1, <2>2 DEF IdleRuns, r
  <2>3. CASE p # next /\ p = t.cur /\ GoesBack(t)
    BY <2>1, <2>3 DEF GoesBack, r
  <2>4. CASE p # next /\ ~(p = t.cur /\ GoesBack(t))
    BY <2>1, <2>4 DEF r
  <2> QED
    BY <2>2, <2>3, <2>4
<1> QED
  BY <1>3, <1>4

\* The calls that change the state of the one process they name.
LEMMA CallsFollow ==
  ASSUME OrderIInv, orderly, ~IsMLFQ, NEW p \in Slots,
         \/ \E priority \in Priorities : scheduler_create_process(priority)
         \/ \E pid \in Pids : scheduler_terminate_process(pid)
         \/ \E pid \in Pids : scheduler_reap_process(pid)
         \/ \E pid \in Pids : scheduler_wakeup_process(pid)
         \/ \E pid \in Pids : scheduler_set_priority(pid)
  PROVE  Follows(p)
<1>1. /\ IInv /\ InOrder(pcb, ready[0], wait_queue, sleep_queue, current, calls)
      /\ sched_type \in DOMAIN MaxProcesses /\ pcb \in Tables /\ pcb[p].state \in States
  BY OrderUnpacked, Unpacked DEF Tables, PcbType
<1>2. ASSUME NEW priority \in Priorities, scheduler_create_process(priority)
      PROVE  Follows(p)
  <2> DEFINE c == pcb_alloc
             new == [Blank EXCEPT !.pid = next_pid, !.state = "READY",
                                  !.level = IF IsMLFQ THEN priority ELSE 0]
  <2>1. c \in Slots /\ pcb[c].pid = 0
    BY <1>1, <1>2, Allocated DEF scheduler_create_process
  <2>2. pcb' = [pcb EXCEPT ![c] = new]
    BY <1>2 DEF scheduler_create_process
  <2>3. new.state = "READY"
    BY DEF Blank
  <2>4. pcb[c].state \in {"NEW", "TERMINATED"}
    BY <1>1, <2>1 DEF InOrder, FreeMatches
  <2> HIDE DEF c, new
  <2>5. pcb'[p].state = IF p = c THEN "READY" ELSE pcb[p].state
    BY <1>1, <2>1, <2>2, <2>3 DEF Tables
  <2> QED
    BY <2>4, <2>5, MovesAre DEF Follows
<1>3. ASSUME NEW pid \in Pids, scheduler_terminate_process(pid)
      PROVE  Follows(p)
  <2>1. PICK c \in process_table_find(pid) :
          pcb[c].state \notin {"TERMINATED", "ZOMBIE"} /\ pcb' = pcb_set_state(pcb, c, "ZOMBIE")
    BY <1>3, Zenon DEF scheduler_terminate_process
  <2>2. c \in Slots /\ pcb[c].pid # 0
    BY <1>3, NamedProcess
  <2>3. pcb[c].state \in {"READY", "RUNNING", "BLOCKED", "SLEEPING"}
    BY <1>1, <2>1, <2>2 DEF InOrder, FreeMatches, Tables, PcbType, States
  <2>4. pcb'[p].state = IF p = c THEN "ZOMBIE" ELSE pcb[p].state
    <3>1. "ZOMBIE" \in States
      BY DEF States
    <3> QED
      BY <1>1, <2>1, <2>2, <3>1, SetState
  <2>5. <<pcb[c].state, "ZOMBIE">> \in Moves
    BY <2>3, MovesAre
  <2> QED
    BY <2>4, <2>5 DEF Follows
<1>4. ASSUME NEW pid \in Pids, scheduler_reap_process(pid)
      PROVE  Follows(p)
  <2>1. PICK c \in process_table_find(pid) :
          /\ pcb[c].state = "ZOMBIE"
          /\ pcb' = [pcb EXCEPT ![c].state = "TERMINATED", ![c].pid = 0]
    BY <1>4 DEF scheduler_reap_process
  <2>2. c \in Slots
    BY <1>4, NamedProcess
  <2>3. pcb'[p].state = IF p = c THEN "TERMINATED" ELSE pcb[p].state
    BY <1>1, <2>1, <2>2 DEF Tables, PcbType
  <2> QED
    BY <2>1, <2>3, MovesAre DEF Follows
<1>5. ASSUME NEW pid \in Pids, scheduler_wakeup_process(pid)
      PROVE  Follows(p)
  <2>1. PICK c \in process_table_find(pid) :
          Contains(wait_queue, c) /\ pcb' = pcb_set_state(pcb, c, "READY")
    BY <1>5 DEF scheduler_wakeup_process
  <2>2. c \in Slots /\ c # IdleProcess
    BY <1>5, NamedProcess
  <2>3. pcb[c].state = "BLOCKED"
    BY <1>1, <2>1, <2>2 DEF InOrder, Matches
  <2>4. pcb'[p].state = IF p = c THEN "READY" ELSE pcb[p].state
    <3>1. "READY" \in States
      BY DEF States
    <3> QED
      BY <1>1, <2>1, <2>2, <3>1, SetState
  <2> QED
    BY <2>3, <2>4, MovesAre DEF Follows
<1>6. ASSUME NEW pid \in Pids, scheduler_set_priority(pid)
      PROVE  Follows(p)
  BY <1>6 DEF scheduler_set_priority, Follows
<1> QED
  BY <1>2, <1>3, <1>4, <1>5, <1>6

\* The calls a process makes for itself: it is RUNNING, and waits or goes on.
LEMMA OwnCallsFollow ==
  ASSUME OrderIInv, orderly, ~IsMLFQ, NEW p \in Slots,
         \/ scheduler_yield \/ scheduler_block_process
         \/ \E n \in SleepTimes : scheduler_sleep_process(n)
  PROVE  Follows(p)
<1>1. pcb \in Tables /\ pcb[p] \in PcbType
  BY OrderUnpacked, Unpacked DEF Tables
<1>2. current \in Slots /\ pcb[current].state = "RUNNING"
  BY CallerInOrder DEF scheduler_yield, scheduler_block_process, scheduler_sleep_process
<1>3. CASE scheduler_yield
  BY <1>1, <1>2, <1>3 DEF scheduler_yield, Follows, Tables, PcbType
<1>4. CASE scheduler_block_process
  <2>1. "BLOCKED" \in States /\ pcb' = pcb_set_state(pcb, current, "BLOCKED")
    BY <1>4 DEF States, scheduler_block_process
  <2>2. pcb'[p].state = IF p = current THEN "BLOCKED" ELSE pcb[p].state
    BY <1>1, <1>2, <2>1, SetState
  <2> QED
    BY <1>2, <2>2, MovesAre DEF Follows
<1>5. CASE \E n \in SleepTimes : scheduler_sleep_process(n)
  <2>1. PICK n \in SleepTimes :
          pcb' = [pcb EXCEPT ![current].state = "SLEEPING",
                             ![current].deadline = (ticks + n) % Word]
    BY <1>5 DEF scheduler_sleep_process
  <2>2. pcb'[p].state = IF p = current THEN "SLEEPING" ELSE pcb[p].state
    BY <1>1, <1>2, <2>1 DEF Tables, PcbType
  <2> QED
    BY <1>2, <2>2, MovesAre DEF Follows
<1> QED
  BY <1>3, <1>4, <1>5

\* The switch that a call ends with.
LEMMA ScheduleFollows ==
  ASSUME OrderIInv, orderly, ~IsMLFQ, NEW p \in Slots, Become(scheduler_schedule(Here))
  PROVE  Follows(p)
<1> DEFINE r == scheduler_schedule(Here)
<1>1. Here \in Contexts /\ Here.pcb = pcb /\ Here.cur = current /\ Here.ready = ready
  BY Unpacked, OrderUnpacked DEF Here, Contexts
<1>2. /\ InOrder(Here.pcb, Here.ready[0], wait_queue, sleep_queue, Here.cur, calls)
      /\ IdleRuns(Here.pcb) /\ sched_type \in DOMAIN MaxProcesses
  BY <1>1, Unpacked, OrderUnpacked
<1>3. \/ r.pcb[p].state = pcb[p].state
      \/ pcb[p].state = "READY" /\ r.pcb[p].state = "RUNNING"
      \/ pcb[p].state = "RUNNING" /\ r.pcb[p].state = "READY"
  BY <1>1, <1>2, SwitchMoves
<1>4. pcb' = r.pcb
  BY DEF Become
<1> HIDE DEF r
<1> QED
  BY <1>3, <1>4, MovesAre DEF Follows

\* A tick wakes sleepers, and then may switch.
LEMMA TickFollows ==
  ASSUME OrderIInv, orderly, ~IsMLFQ, NEW p \in Slots, scheduler_tick_handler
  PROVE  Follows(p)
<1> DEFINE s == scheduler_schedule(TickContext)
<1>1. IInv /\ sched_type \in DOMAIN MaxProcesses /\ TickContext \in Contexts
  BY OrderUnpacked, Unpacked, TickFacts
<1>2. /\ TickContext.pcb = TickTable /\ TickContext.ready = TickQueues
      /\ TickContext.cur = current
  BY DEF TickContext
<1>3. pcb' = IF TickDue THEN s.pcb ELSE TickTable
  BY <1>2, TickUnfolds DEF Become
<1>4. ~Contains(TickWoken, IdleProcess) /\ IdleProcess \in Slots
  BY <1>1, TickFacts, OrderUnpacked, Numbers
<1>5. IdleRuns(TickTable)
  <2>1. /\ TickTable[IdleProcess].state = pcb[IdleProcess].state
        /\ TickTable[IdleProcess].pid = pcb[IdleProcess].pid
    BY <1>1, <1>4, TickFacts
  <2> QED
    BY <2>1, OrderUnpacked DEF IdleRuns
<1>6. TickTable[p].state = pcb[p].state
      \/ (pcb[p].state = "SLEEPING" /\ TickTable[p].state = "READY")
  <2>1. TickTable[p].state = IF Contains(TickWoken, p) THEN "READY" ELSE pcb[p].state
    BY <1>1, TickFacts
  <2>2. Contains(TickWoken, p) => p # IdleProcess /\ Contains(sleep_queue, p)
    BY <1>1, <1>4, TickFacts
  <2>3. Contains(TickWoken, p) => pcb[p].state = "SLEEPING"
    BY <2>2, OrderUnpacked DEF InOrder, Matches
  <2> QED
    BY <2>1, <2>3
<1>7. \/ s.pcb[p].state = TickTable[p].state
      \/ TickTable[p].state = "READY" /\ s.pcb[p].state = "RUNNING"
      \/ TickTable[p].state = "RUNNING" /\ s.pcb[p].state = "READY"
  BY <1>1, <1>2, <1>5, TickInOrder, SwitchMoves
<1> HIDE DEF s
<1>8. \/ pcb'[p].state = TickTable[p].state
      \/ TickTable[p].state = "READY" /\ pcb'[p].state = "RUNNING"
      \/ TickTable[p].state = "RUNNING" /\ pcb'[p].state = "READY"
  BY <1>3, <1>7
<1> QED
  BY <1>6, <1>8, MovesAre DEF Follows

\* In order, and with one ready queue, every step takes every process along the
\* diagram of its life; in particular a ZOMBIE never runs again.
THEOREM LifeInOrder == Spec => OrderlyLife
<1>1. Init => OrderIInv
  BY InitOrder
<1>2. OrderIInv /\ [Next]_vars => OrderIInv'
  BY NextOrder
<1>3. OrderIInv /\ [Next]_vars => [orderly /\ ~IsMLFQ => \A p \in Slots : Follows(p)]_vars
  <2> SUFFICES ASSUME OrderIInv, Next, orderly, ~IsMLFQ, NEW p \in Slots
               PROVE  Follows(p)
    OBVIOUS
  <2>1. CASE \/ \E priority \in Priorities : scheduler_create_process(priority)
             \/ \E pid \in Pids : scheduler_terminate_process(pid)
             \/ \E pid \in Pids : scheduler_reap_process(pid)
             \/ \E pid \in Pids : scheduler_wakeup_process(pid)
             \/ \E pid \in Pids : scheduler_set_priority(pid)
    BY <2>1, CallsFollow
  <2>2. CASE \/ scheduler_yield \/ scheduler_block_process
             \/ \E n \in SleepTimes : scheduler_sleep_process(n)
    BY <2>2, OwnCallsFollow
  <2>3. CASE Schedule \/ ScheduleAfterUnlock
    BY <2>3, ScheduleFollows DEF Schedule, ScheduleAfterUnlock
  <2>4. CASE scheduler_tick_handler
    BY <2>4, TickFollows
  <2> QED
    BY <2>1, <2>2, <2>3, <2>4 DEF Next
<1> QED
  BY <1>1, <1>2, <1>3, PTL DEF Spec, OrderlyLife
=============================================================================
