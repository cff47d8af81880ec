--------------------------- MODULE SchedulerProofs ---------------------------
(***************************************************************************)
(* The inductive invariant IInv of Scheduler holds for every size of the   *)
(* process table, every policy and every configuration.                    *)
(*                                                                         *)
(* The argument does not need the lists to be well formed, and they are    *)
(* not: the queue primitives are only shown to keep the links on slots     *)
(* that were filled once.  What keeps a single process on the processor is *)
(* the order of the assignments in scheduler_schedule.                     *)
(***************************************************************************)
EXTENDS Scheduler, TLAPS, WellFoundedInduction

\* The type of a state record.
StateType ==
  [rq : QueueType(Slots), pcb : [Slots -> PcbType], cur : Ptr, ticks : Nat, boost : Nat,
   boosting : Queues, npid : Nat \ {0}, stats : StatsType]

\* The part of the invariant that speaks of processes, said of a state record.
Safe(t) ==
  /\ t \in StateType
  /\ t.rq \in QueueType(Created(t.pcb))
  /\ \A p \in Slots : t.pcb[p].state = "RUNNING" => t.cur = p
  /\ t.cur # NULL => /\ t.pcb[t.cur].state \in {"RUNNING", "READY"}
                     /\ t.pcb[t.cur].pid # 0
  /\ \A p, q \in Slots : t.pcb[p].pid = t.pcb[q].pid /\ t.pcb[p].pid # 0 => p = q
  /\ \A p \in Slots : t.pcb[p].pid < t.npid

\* A non-empty set of natural numbers has a least element.
LEMMA LeastElement ==
  ASSUME NEW S, S \subseteq Nat, S # {}
  PROVE  \E m \in S : \A x \in S : m <= x
<1>1. PICK m \in S : \A y \in S : ~(<<y, m>> \in OpToRel(<, Nat))
  BY NatLessThanWellFounded, WFMin
<1>2. \A y \in S : ~(y < m)
  BY <1>1 DEF OpToRel
<1> QED
  BY <1>2

-----------------------------------------------------------------------------
\* The queue primitives keep the links inside a set P of slots.

\* A queue on which a crash is recorded is still a queue over P.
LEMMA CrashType ==
  ASSUME NEW P \in SUBSET Slots, NEW q \in QueueType(P)
  PROVE  Crash(q) \in QueueType(P)
BY DEF Crash, QueueType

\* Appending a slot of P to a queue over P, whatever the links of the queue are.
LEMMA LinkType ==
  ASSUME NEW P \in SUBSET Slots, NEW q \in QueueType(P), NEW i \in Queues, NEW p \in P
  PROVE  Link(q, i, p) \in QueueType(P)
<1>1. CASE q.head[i] = NULL
  <2>1. Link(q, i, p) =
          [head |-> [q.head EXCEPT ![i] = p], tail |-> [q.tail EXCEPT ![i] = p],
           count |-> [q.count EXCEPT ![i] = q.count[i] + 1], next |-> q.next,
           prev |-> q.prev, fault |-> q.fault]
    BY <1>1 DEF Link, QueueType
  <2> QED
    BY <2>1 DEF QueueType
<1>2. CASE q.head[i] # NULL /\ q.tail[i] = NULL
  BY <1>2, CrashType DEF Link
<1>3. CASE q.head[i] # NULL /\ q.tail[i] # NULL
  <2>1. Link(q, i, p) =
          [head |-> q.head, tail |-> [q.tail EXCEPT ![i] = p],
           count |-> [q.count EXCEPT ![i] = q.count[i] + 1],
           next |-> [q.next EXCEPT ![q.tail[i]] = p],
           prev |-> [q.prev EXCEPT ![p] = q.tail[i]], fault |-> q.fault]
    BY <1>3 DEF Link, QueueType
  <2> QED
    BY <2>1, <1>3 DEF QueueType
<1> QED
  BY <1>1, <1>2, <1>3

\* Taking the head off a queue over P, as each policy does when it picks a process.
LEMMA UnlinkType ==
  ASSUME NEW P \in SUBSET Slots, NEW q \in QueueType(P), NEW i \in Queues, q.count[i] # 0
  PROVE  Unlink(q, i) \in QueueType(P)
<1> DEFINE first == q.head[i]
           second == q.next[first]
           less == [q.count EXCEPT ![i] = q.count[i] - 1]
<1>1. less \in [Queues -> Nat]
  BY DEF QueueType
<1>2. CASE first = q.tail[i]
  <2>1. Unlink(q, i) =
          [head |-> [q.head EXCEPT ![i] = NULL], tail |-> [q.tail EXCEPT ![i] = NULL],
           count |-> less, next |-> q.next, prev |-> q.prev, fault |-> q.fault]
    BY <1>2 DEF Unlink, QueueType
  <2> QED
    BY <2>1, <1>1 DEF QueueType
<1>3. CASE first # q.tail[i] /\ first = NULL
  BY <1>3, CrashType DEF Unlink
<1>4. CASE first # q.tail[i] /\ first # NULL /\ second = NULL
  <2>1. Unlink(q, i) =
          [head |-> [q.head EXCEPT ![i] = NULL], tail |-> q.tail,
           count |-> less, next |-> q.next, prev |-> q.prev, fault |-> q.fault]
    BY <1>4 DEF Unlink, QueueType
  <2> QED
    BY <2>1, <1>1 DEF QueueType
<1>5. CASE first # q.tail[i] /\ first # NULL /\ second # NULL
  <2>1. Unlink(q, i) =
          [head |-> [q.head EXCEPT ![i] = second], tail |-> q.tail,
           count |-> less, next |-> q.next, prev |-> [q.prev EXCEPT ![second] = NULL],
           fault |-> q.fault]
    BY <1>5 DEF Unlink, QueueType
  <2>2. first \in P /\ second \in P
    BY <1>5 DEF QueueType
  <2> QED
    BY <2>1, <2>2, <1>1 DEF QueueType
<1> QED
  BY <1>2, <1>3, <1>4, <1>5

\* remove_from_ready_queue on a queue over P, also when the slot is not on the list.
LEMMA SpliceType ==
  ASSUME NEW P \in SUBSET Slots, NEW q \in QueueType(P), NEW i \in Queues, NEW p \in Slots
  PROVE  Splice(q, i, p) \in QueueType(P)
<1> DEFINE nx == q.next[p]
           pv == q.prev[p]
           a == IF pv # NULL THEN [q EXCEPT !.next[pv] = nx] ELSE [q EXCEPT !.head[i] = nx]
           b == IF nx # NULL THEN [a EXCEPT !.prev[nx] = pv] ELSE [a EXCEPT !.tail[i] = pv]
           c == IF b.count[i] > 0 THEN [b EXCEPT !.count[i] = @ - 1] ELSE b
<1>1. nx \in P \cup {NULL} /\ pv \in P \cup {NULL}
  BY DEF QueueType
<1>2. a \in QueueType(P)
  BY <1>1 DEF QueueType
<1>3. b \in QueueType(P)
  <2> HIDE DEF a
  <2> QED BY <1>1, <1>2 DEF QueueType
<1>4. c \in QueueType(P)
  <2> HIDE DEF b
  <2> QED BY <1>3 DEF QueueType
<1>5. [c EXCEPT !.next[p] = NULL, !.prev[p] = NULL] \in QueueType(P)
  <2> HIDE DEF c
  <2> QED BY <1>4 DEF QueueType
<1> QED
  BY <1>5 DEF Splice

\* Clearing the links of a slot keeps the type of the queue.
LEMMA BareType ==
  ASSUME NEW P \in SUBSET Slots, NEW q \in QueueType(P), NEW p \in P
  PROVE  [q EXCEPT !.next[p] = NULL, !.prev[p] = NULL] \in QueueType(P)
<1> DEFINE a == [q EXCEPT !.next[p] = NULL]
<1>1. a \in QueueType(P)
  BY DEF QueueType
<1>2. [a EXCEPT !.prev[p] = NULL] \in QueueType(P)
  <2> HIDE DEF a
  <2> QED BY <1>1 DEF QueueType
<1> QED
  BY <1>2

\* A queue over P is a queue over every larger set of slots.
LEMMA QueueTypeMonotone ==
  ASSUME NEW P \in SUBSET Slots, NEW R \in SUBSET Slots, P \subseteq R,
         NEW q \in QueueType(P)
  PROVE  q \in QueueType(R)
BY DEF QueueType

-----------------------------------------------------------------------------
\* u differs from t in the queues only, and its links lead to P.
OnlyQueues(t, u, P) ==
  /\ u \in StateType
  /\ u.rq \in QueueType(P)
  /\ u.pcb = t.pcb
  /\ u.cur = t.cur
  /\ u.npid = t.npid
  /\ u.boosting = t.boosting
  /\ u.stats = t.stats

\* Replacing the queues by queues over the created slots keeps the type of the state.
LEMMA NewQueues ==
  ASSUME NEW P \in SUBSET Slots, NEW t \in StateType, NEW q \in QueueType(P)
  PROVE  OnlyQueues(t, [t EXCEPT !.rq = q], P)
<1>1. q \in QueueType(Slots)
  BY QueueTypeMonotone
<1> QED
  BY <1>1 DEF OnlyQueues, StateType

\* Queue 0 exists and the queues are numbered by natural numbers.
LEMMA QueueIndex ==
  /\ 0 \in Queues
  /\ IsMLFQ => \A n \in Nat : n < PriorityLevels => n \in Queues
  /\ Queues \subseteq Nat
BY SchedulerConstants DEF Queues

\* add_to_ready_queue changes nothing but the queues, and keeps their type.
LEMMA AddKeeps ==
  ASSUME NEW P \in SUBSET Slots, NEW t \in StateType, t.rq \in QueueType(P), NEW p \in P
  PROVE  OnlyQueues(t, add_to_ready_queue(t, p), P)
<1> DEFINE level == Level(t.pcb[p].priority)
           i == IF IsMLFQ THEN level ELSE 0
           bare == [t.rq EXCEPT !.next[p] = NULL, !.prev[p] = NULL]
<1>1. t.pcb[p].priority \in Nat
  BY DEF StateType, PcbType
<1>2. i \in Queues
  BY <1>1, QueueIndex, SchedulerConstants DEF Level
<1>3. bare \in QueueType(P)
  BY BareType
<1>4. Link(bare, i, p) \in QueueType(P)
  BY <1>2, <1>3, LinkType
<1> QED
  BY <1>4, NewQueues DEF add_to_ready_queue

\* remove_from_ready_queue changes nothing but the queues, and keeps their type.
LEMMA RemoveKeeps ==
  ASSUME NEW P \in SUBSET Slots, NEW t \in StateType, t.rq \in QueueType(P), NEW p \in Slots
  PROVE  OnlyQueues(t, remove_from_ready_queue(t, p), P)
<1> DEFINE i == IF IsMLFQ THEN t.pcb[p].priority ELSE 0
<1>1. t.pcb[p].priority \in Nat
  BY DEF StateType, PcbType
<1>2. CASE IsMLFQ /\ t.pcb[p].priority >= PriorityLevels
  BY <1>2 DEF OnlyQueues, remove_from_ready_queue
<1>3. CASE ~(IsMLFQ /\ t.pcb[p].priority >= PriorityLevels)
  <2>1. i \in Queues
    BY <1>1, <1>3, QueueIndex, SchedulerConstants
  <2>2. Splice(t.rq, i, p) \in QueueType(P)
    BY <2>1, SpliceType
  <2> QED
    BY <2>2, <1>3, NewQueues DEF remove_from_ready_queue
<1> QED
  BY <1>2, <1>3

\* u differs from t in the queues, the slices and the fault flag only: the
\* states and pids of the processes and the current process are t's.
SameProcesses(t, u) ==
  /\ u \in StateType
  /\ u.rq \in QueueType(Created(t.pcb))
  /\ \A s \in Slots : u.pcb[s].state = t.pcb[s].state /\ u.pcb[s].pid = t.pcb[s].pid
  /\ u.cur = t.cur
  /\ u.npid = t.npid
  /\ u.boosting = t.boosting

\* A policy hands back such a state and a process that was created, or NULL.
GoodChoice(t, r) ==
  /\ SameProcesses(t, r.st)
  /\ r.chosen \in Created(t.pcb) \cup {NULL}

\* FIFO picks a created process or none.
LEMMA FifoChoice ==
  ASSUME NEW t, Safe(t)
  PROVE  GoodChoice(t, scheduler_fifo_schedule(t))
<1> DEFINE C == Created(t.pcb)
<1>1. C \in SUBSET Slots /\ t \in StateType /\ t.rq \in QueueType(C)
  BY DEF Created, Safe
<1>2. CASE t.rq.count[0] = 0
  BY <1>1, <1>2 DEF GoodChoice, SameProcesses, scheduler_fifo_schedule
<1>3. CASE t.rq.count[0] # 0
  <2>1. Unlink(t.rq, 0) \in QueueType(C)
    BY <1>1, <1>3, QueueIndex, UnlinkType
  <2>2. OnlyQueues(t, [t EXCEPT !.rq = Unlink(t.rq, 0)], C)
    BY <2>1, <1>1, NewQueues
  <2>3. t.rq.head[0] \in C \cup {NULL}
    BY <1>1, QueueIndex DEF QueueType
  <2> QED
    BY <2>2, <2>3, <1>3
    DEF OnlyQueues, GoodChoice, SameProcesses, scheduler_fifo_schedule
<1> QED
  BY <1>2, <1>3

\* Round robin picks a created process or none.
LEMMA RrChoice ==
  ASSUME NEW t, Safe(t)
  PROVE  GoodChoice(t, scheduler_rr_schedule(t))
<1> DEFINE C == Created(t.pcb)
           r == scheduler_fifo_schedule(t)
<1>1. GoodChoice(t, r)
  BY FifoChoice
<1>2. CASE r.chosen # NULL /\ t.cur # NULL /\ t.pcb[t.cur].state = "READY"
  <2>1. t.cur \in C
    BY <1>2 DEF Safe, Created, StateType, Ptr
  <2>2. OnlyQueues(r.st, add_to_ready_queue(r.st, t.cur), C)
    BY <2>1, <1>1, AddKeeps DEF GoodChoice, SameProcesses, Created
  <2> HIDE DEF r
  <2>3. GoodChoice(t, [st |-> add_to_ready_queue(r.st, t.cur), chosen |-> r.chosen])
    BY <2>2, <1>1 DEF OnlyQueues, GoodChoice, SameProcesses
  <2> QED
    BY <2>3, <1>2 DEF scheduler_rr_schedule, r
<1>3. CASE ~(r.chosen # NULL /\ t.cur # NULL /\ t.pcb[t.cur].state = "READY")
  BY <1>1, <1>3 DEF scheduler_rr_schedule
<1> QED
  BY <1>2, <1>3

\* The level picked is a queue, and its slice a natural number.
LEMMA SliceType ==
  ASSUME NEW i \in Queues
  PROVE  MlfqSlice(i) \in Nat
BY SchedulerConstants, ShiftAssumption, QueueIndex DEF MlfqSlice, Queues

\* MLFQ picks a created process or none, and loads its slice.
LEMMA MlfqChoice ==
  ASSUME NEW t, Safe(t)
  PROVE  GoodChoice(t, scheduler_mlfq_schedule(t))
<1> DEFINE C == Created(t.pcb)
           B == Busy(t.rq)
           i == CHOOSE x \in B : \A y \in B : x <= y
           n == t.rq.head[i]
<1>1. C \in SUBSET Slots /\ t \in StateType /\ t.rq \in QueueType(C)
  BY DEF Created, Safe
<1>2. CASE B = {}
  BY <1>1, <1>2 DEF GoodChoice, SameProcesses, scheduler_mlfq_schedule
<1>3. CASE B # {}
  <2>1. B \subseteq Nat
    BY QueueIndex DEF Busy
  <2>2. \E m \in B : \A x \in B : m <= x
    BY <2>1, <1>3, LeastElement
  <2>3. i \in B
    BY <2>2
  <2>4. i \in Queues /\ t.rq.count[i] # 0
    BY <2>3, <1>1 DEF Busy, QueueType
  <2> HIDE DEF i
  <2>5. n \in C \cup {NULL}
    BY <2>4, <1>1 DEF QueueType
  <2>6. CASE n = NULL
    <3>1. OnlyQueues(t, [t EXCEPT !.rq = Crash(t.rq)], C)
      BY <1>1, CrashType, NewQueues
    <3>2. scheduler_mlfq_schedule(t) = [st |-> [t EXCEPT !.rq = Crash(t.rq)], chosen |-> NULL]
      BY <1>3, <2>6 DEF scheduler_mlfq_schedule, i
    <3>3. SameProcesses(t, [t EXCEPT !.rq = Crash(t.rq)])
      BY <3>1 DEF OnlyQueues, SameProcesses
    <3> QED
      BY <3>2, <3>3 DEF GoodChoice
  <2>7. CASE n # NULL
    <3> DEFINE table == [t.pcb EXCEPT ![n].time_slice = MlfqSlice(i)]
               u == [t EXCEPT !.rq = Unlink(t.rq, i), !.pcb = table]
    <3>1. Unlink(t.rq, i) \in QueueType(C) /\ Unlink(t.rq, i) \in QueueType(Slots)
      BY <1>1, <2>4, UnlinkType, QueueTypeMonotone
    <3>2. MlfqSlice(i) \in Nat
      BY <2>4, SliceType
    <3>3. /\ table \in [Slots -> PcbType]
          /\ \A s \in Slots : table[s].state = t.pcb[s].state /\ table[s].pid = t.pcb[s].pid
      BY <1>1, <2>5, <2>7, <3>2 DEF StateType, PcbType
    <3> HIDE DEF table, n
    <3>4. SameProcesses(t, u)
      BY <1>1, <3>1, <3>3 DEF SameProcesses, StateType
    <3>5. scheduler_mlfq_schedule(t) = [st |-> u, chosen |-> n]
      BY <1>3, <2>7 DEF scheduler_mlfq_schedule, i, table, n
    <3> QED
      BY <3>4, <3>5, <2>5 DEF GoodChoice
  <2> QED
    BY <2>6, <2>7
<1> QED
  BY <1>2, <1>3

\* Whatever the policy, the process scheduler_schedule picks is a created one or none.
LEMMA DecideChoice ==
  ASSUME NEW t, Safe(t)
  PROVE  GoodChoice(t, Decide(t))
BY FifoChoice, RrChoice, MlfqChoice, SchedulerConstants DEF Decide

-----------------------------------------------------------------------------
\* scheduler_schedule and scheduler_yield keep the invariant.

\* A step that leaves the processes as they are keeps the invariant.
LEMMA SameSafe ==
  ASSUME NEW t, Safe(t), NEW u, SameProcesses(t, u)
  PROVE  Safe(u) /\ Created(u.pcb) = Created(t.pcb)
<1>1. Created(u.pcb) = Created(t.pcb)
  BY DEF SameProcesses, Created
<1>2. t \in StateType /\ u \in StateType /\ t.cur \in Slots \cup {NULL}
  BY DEF Safe, SameProcesses, StateType, Ptr
<1> QED
  BY <1>1, <1>2 DEF Safe, SameProcesses

\* A step that touches only the queues keeps the invariant if it keeps the type.
LEMMA OnlyQueuesSafe ==
  ASSUME NEW t, Safe(t), NEW u, OnlyQueues(t, u, Created(t.pcb))
  PROVE  Safe(u)
BY DEF Safe, OnlyQueues

\* Changing the state of one slot.
LEMMA SetStateType ==
  ASSUME NEW table \in [Slots -> PcbType], NEW p \in Slots, NEW st \in States
  PROVE  /\ SetState(table, p, st) \in [Slots -> PcbType]
         /\ Created(SetState(table, p, st)) = Created(table)
         /\ \A s \in Slots :
              /\ SetState(table, p, st)[s].pid = table[s].pid
              /\ SetState(table, p, st)[s].state = IF s = p THEN st ELSE table[s].state
BY DEF SetState, PcbType, Created

\* Putting the preempted process back leaves nobody RUNNING.
LEMMA RequeueSafe ==
  ASSUME NEW t, Safe(t)
  PROVE  /\ Safe(Requeue(t))
         /\ \A p \in Slots : Requeue(t).pcb[p].state # "RUNNING"
         /\ Requeue(t).cur = t.cur
         /\ Requeue(t).boosting = t.boosting
         /\ Created(Requeue(t).pcb) = Created(t.pcb)
<1>1. t \in StateType /\ t.cur \in Slots \cup {NULL} /\ t.pcb \in [Slots -> PcbType]
  BY DEF Safe, StateType, Ptr
<1>2. CASE t.cur = NULL
  <2>1. NULL \notin Slots
    BY SchedulerConstants DEF NULL, Slots
  <2> QED
    BY <2>1, <1>2 DEF Requeue, Safe
<1>3. CASE t.cur # NULL
  <2> DEFINE table == SetState(t.pcb, t.cur, "READY")
             u == [t EXCEPT !.pcb = table]
             v == add_to_ready_queue(u, t.cur)
  <2>1. /\ table \in [Slots -> PcbType]
        /\ Created(table) = Created(t.pcb)
        /\ \A s \in Slots : /\ table[s].pid = t.pcb[s].pid
                            /\ table[s].state = IF s = t.cur THEN "READY" ELSE t.pcb[s].state
    BY <1>1, <1>3, SetStateType DEF States
  <2> HIDE DEF table
  <2>2. /\ u \in StateType /\ u.pcb = table /\ u.cur = t.cur /\ u.npid = t.npid
        /\ u.boosting = t.boosting /\ u.rq = t.rq
    BY <1>1, <2>1 DEF StateType
  <2> HIDE DEF u
  <2>3. Safe(u)
    <3>1. u.rq \in QueueType(Created(u.pcb))
      BY <2>1, <2>2 DEF Safe
    <3>2. \A p \in Slots : u.pcb[p].state = "RUNNING" => u.cur = p
      BY <2>1, <2>2 DEF Safe
    <3>3. u.cur # NULL => u.pcb[u.cur].state \in {"RUNNING", "READY"} /\ u.pcb[u.cur].pid # 0
      BY <1>1, <1>3, <2>1, <2>2 DEF Safe
    <3>4. /\ \A p, q \in Slots : u.pcb[p].pid = u.pcb[q].pid /\ u.pcb[p].pid # 0 => p = q
          /\ \A p \in Slots : u.pcb[p].pid < u.npid
      BY <2>1, <2>2 DEF Safe
    <3> QED
      BY <2>2, <3>1, <3>2, <3>3, <3>4 DEF Safe
  <2>4. t.cur \in Created(u.pcb) /\ Created(u.pcb) \in SUBSET Slots
    BY <1>1, <1>3, <2>1, <2>2 DEF Safe, Created
  <2>5. OnlyQueues(u, v, Created(u.pcb))
    BY <2>3, <2>4, AddKeeps DEF Safe
  <2>6. Safe(v)
    BY <2>3, <2>5, OnlyQueuesSafe
  <2>7. \A p \in Slots : v.pcb[p].state # "RUNNING"
    BY <2>1, <2>2, <2>5 DEF OnlyQueues, Safe
  <2>8. v.cur = t.cur /\ v.boosting = t.boosting /\ Created(v.pcb) = Created(t.pcb)
    BY <2>1, <2>2, <2>5 DEF OnlyQueues
  <2>9. Requeue(t) = v
    BY <1>3 DEF Requeue, u, table
  <2> QED
    BY <2>6, <2>7, <2>8, <2>9
<1> QED
  BY <1>2, <1>3

\* Dispatching the process picked makes it the only RUNNING one.
LEMMA SwitchSafe ==
  ASSUME NEW t, Safe(t), NEW n \in Created(t.pcb)
  PROVE  Safe(SwitchTo(t, n)) /\ SwitchTo(t, n).boosting = t.boosting
<1> DEFINE u == Requeue(t)
           run == [u.pcb[n] EXCEPT !.state = "RUNNING", !.slice_used = 0]
           table == [u.pcb EXCEPT ![n] = run]
           count == [u.stats EXCEPT !.switches = u.stats.switches + 1]
           v == [u EXCEPT !.cur = n, !.pcb = table, !.stats = count]
<1>1. /\ Safe(u) /\ u.boosting = t.boosting /\ n \in Created(u.pcb) /\ n \in Slots
      /\ \A p \in Slots : u.pcb[p].state # "RUNNING"
  BY RequeueSafe DEF Created
<1> HIDE DEF u
<1>2. u \in StateType /\ u.pcb \in [Slots -> PcbType] /\ u.pcb[n] \in PcbType /\ u.stats \in StatsType
  BY <1>1 DEF Safe, StateType
<1>3. run \in PcbType /\ run.state = "RUNNING" /\ run.pid = u.pcb[n].pid
  BY <1>2 DEF PcbType, States
<1> HIDE DEF run
<1>4. /\ table \in [Slots -> PcbType]
      /\ \A s \in Slots : /\ table[s].pid = u.pcb[s].pid
                          /\ table[s].state = IF s = n THEN "RUNNING" ELSE u.pcb[s].state
  BY <1>1, <1>2, <1>3
<1>5. Created(table) = Created(u.pcb)
  BY <1>4 DEF Created
<1>6. count \in StatsType
  BY <1>2 DEF StatsType
<1> HIDE DEF table, count
<1>7. /\ v \in StateType /\ v.pcb = table /\ v.cur = n /\ v.npid = u.npid
      /\ v.boosting = u.boosting /\ v.rq = u.rq
  BY <1>1, <1>2, <1>4, <1>6 DEF StateType, Ptr
<1> HIDE DEF v
<1>8. Safe(v)
  <2>1. v.rq \in QueueType(Created(v.pcb))
    BY <1>1, <1>5, <1>7 DEF Safe
  <2>2. \A p \in Slots : v.pcb[p].state = "RUNNING" => v.cur = p
    BY <1>1, <1>4, <1>7
  <2>3. v.pcb[v.cur].state = "RUNNING" /\ v.pcb[v.cur].pid # 0
    BY <1>1, <1>4, <1>7 DEF Created
  <2>4. /\ \A p, q \in Slots : v.pcb[p].pid = v.pcb[q].pid /\ v.pcb[p].pid # 0 => p = q
        /\ \A p \in Slots : v.pcb[p].pid < v.npid
    BY <1>1, <1>4, <1>7 DEF Safe
  <2> QED
    BY <1>7, <2>1, <2>2, <2>3, <2>4 DEF Safe
<1>9. OnlyQueues(v, remove_from_ready_queue(v, n), Created(v.pcb))
  BY <1>1, <1>8, RemoveKeeps DEF Safe, Created
<1>10. SwitchTo(t, n) = remove_from_ready_queue(v, n)
  BY DEF SwitchTo, v, table, count, run, u
<1> QED
  BY <1>1, <1>7, <1>8, <1>9, <1>10, OnlyQueuesSafe DEF OnlyQueues

\* scheduler_schedule keeps the invariant.
LEMMA ScheduleSafe ==
  ASSUME NEW t, Safe(t)
  PROVE  Safe(scheduler_schedule(t)) /\ scheduler_schedule(t).boosting = t.boosting
<1> DEFINE r == Decide(t)
<1>1. GoodChoice(t, r)
  BY DecideChoice
<1>2. Safe(r.st) /\ Created(r.st.pcb) = Created(t.pcb) /\ r.st.boosting = t.boosting
  BY <1>1, SameSafe DEF GoodChoice, SameProcesses
<1>3. r.chosen # NULL => r.chosen \in Created(t.pcb)
  BY <1>1 DEF GoodChoice
<1> HIDE DEF r
<1>4. CASE r.chosen # NULL /\ r.chosen # t.cur
  BY <1>2, <1>3, <1>4, SwitchSafe DEF scheduler_schedule, r
<1>5. CASE ~(r.chosen # NULL /\ r.chosen # t.cur)
  BY <1>2, <1>5 DEF scheduler_schedule, r
<1> QED
  BY <1>4, <1>5

\* scheduler_yield keeps the invariant.
LEMMA YieldSafe ==
  ASSUME NEW t, Safe(t)
  PROVE  Safe(scheduler_yield(t)) /\ scheduler_yield(t).boosting = t.boosting
BY RequeueSafe, ScheduleSafe DEF scheduler_yield

-----------------------------------------------------------------------------
\* The invariant of the variables is the invariant of the state record.

\* The fields of the state record are the variables.
LEMMA StateFields ==
  /\ State.rq = rq /\ State.pcb = pcb /\ State.cur = current /\ State.ticks = ticks
  /\ State.boost = last_boost /\ State.boosting = boosting
  /\ State.npid = next_pid /\ State.stats = stats
BY DEF State

\* The invariant over the variables is the invariant of the state record.
LEMMA InvAsRecord == IInv <=> Safe(State) /\ BoostProgress
<1>1. TypeOK <=> State \in StateType
  BY DEF TypeOK, State, StateType
<1>2. OnlyCreatedLinked <=> State.rq \in QueueType(Created(State.pcb))
  BY StateFields DEF OnlyCreatedLinked
<1> QED
  BY <1>1, <1>2, StateFields DEF IInv, Safe, RunningIsCurrent, CurrentAlive, UniquePids

\* A step that ends in a crash keeps the invariant.
LEMMA CrashSafe ==
  ASSUME NEW t, Safe(t)
  PROVE  LET u == [t EXCEPT !.rq.fault = TRUE]
         IN  Safe(u) /\ u.boosting = t.boosting /\ u.rq.count = t.rq.count
<1> DEFINE u == [t EXCEPT !.rq = Crash(t.rq)]
<1>1. Created(t.pcb) \in SUBSET Slots /\ t \in StateType /\ t.rq \in QueueType(Created(t.pcb))
  BY DEF Safe, Created
<1>2. OnlyQueues(t, u, Created(t.pcb))
  BY <1>1, CrashType, NewQueues
<1>3. Safe(u) /\ u.boosting = t.boosting
  BY <1>2, OnlyQueuesSafe DEF OnlyQueues
<1>4. u.rq.count = t.rq.count
  BY <1>1 DEF Crash, QueueType, StateType
<1>5. u = [t EXCEPT !.rq.fault = TRUE]
  BY DEF Crash
<1> QED
  BY <1>3, <1>4, <1>5

\* Installing a safe state, or crashing on the way, keeps the invariant.
LEMMA BecomeSafe ==
  ASSUME Safe(State), NEW t, Safe(t), Become(t)
  PROVE  /\ Safe(State)'
         /\ \/ boosting' = t.boosting /\ rq' = t.rq
            \/ boosting' = boosting /\ rq'.count = rq.count
<1> DEFINE c == [State EXCEPT !.rq.fault = TRUE]
           r == IF t.rq.fault THEN c ELSE t
<1>1. Safe(c) /\ c.boosting = boosting /\ c.rq.count = rq.count
  BY CrashSafe, StateFields
<1> HIDE DEF c
<1>2. Safe(r) /\ r \in StateType
  BY <1>1 DEF Safe
<1>3. /\ rq' = r.rq /\ pcb' = r.pcb /\ current' = r.cur /\ ticks' = r.ticks
      /\ last_boost' = r.boost /\ boosting' = r.boosting /\ next_pid' = r.npid
      /\ stats' = r.stats
  BY DEF Become, c
<1> HIDE DEF r
<1>4. State' = r
  BY <1>2, <1>3 DEF State, StateType
<1>5. Safe(State)'
  BY <1>2, <1>4 DEF Safe, Created, StateType
<1> QED
  BY <1>1, <1>3, <1>5 DEF r

\* A call made outside the boost that installs a safe state keeps the invariant.
LEMMA IdleStep ==
  ASSUME IInv, Idle, NEW t, Safe(t), t.boosting \in {0, 1}, Become(t)
  PROVE  IInv'
<1>1. Safe(State)' /\ boosting' \in {0, 1}
  BY BecomeSafe, InvAsRecord DEF Idle
<1>2. BoostProgress'
  BY <1>1, QueueIndex DEF BoostProgress
<1> QED
  BY <1>1, <1>2, InvAsRecord, PTL

-----------------------------------------------------------------------------
\* One lemma per entry point.

\* If a slot is free, find_free_pcb returns a free one.
LEMMA FreeSlot ==
  ASSUME FreeSlots # {}
  PROVE  find_free_pcb \in FreeSlots /\ find_free_pcb \in Slots
<1>1. FreeSlots \subseteq Nat /\ FreeSlots \subseteq Slots
  BY SchedulerConstants DEF FreeSlots, Slots
<1>2. \E s \in FreeSlots : \A r \in FreeSlots : s <= r
  BY <1>1, LeastElement
<1> QED
  BY <1>1, <1>2 DEF find_free_pcb

\* scheduler_create_process keeps the invariant: the slot it fills is not the current one.
LEMMA CreateSafe ==
  ASSUME IInv, NEW priority \in Priorities, scheduler_create_process(priority)
  PROVE  IInv'
<1>1. CASE UNCHANGED vars
  BY <1>1 DEF vars, IInv, TypeOK, RunningIsCurrent, CurrentAlive, UniquePids,
              OnlyCreatedLinked, BoostProgress
<1>2. CASE FreeSlots # {} /\ ~UNCHANGED vars
  <2> DEFINE p == find_free_pcb
             slice == (TimeSliceBase * (PriorityLevels - priority)) % Word
             new == [pid |-> next_pid, state |-> "READY", priority |-> priority,
                     time_slice |-> slice, slice_used |-> 0, time_used |-> 0]
             table == [pcb EXCEPT ![p] = new]
             t == [State EXCEPT !.npid = State.npid + 1, !.pcb = table]
             u == add_to_ready_queue(t, p)
  <2>1. p \in Slots
    BY <1>2, FreeSlot
  <2>2. Become(u) /\ Idle
    BY <1>2 DEF scheduler_create_process
  <2>3. slice \in Nat
    <3>1. TimeSliceBase * (PriorityLevels - priority) \in Int
      BY SchedulerConstants
    <3> HIDE DEF slice
    <3>2. \A n \in Int : n % Word \in Nat
      BY SchedulerConstants
    <3> QED
      BY <3>1, <3>2 DEF slice
  <2>4. Safe(State) /\ State \in StateType /\ pcb \in [Slots -> PcbType] /\ next_pid \in Nat \ {0}
    BY InvAsRecord DEF IInv, TypeOK, Safe
  <2> HIDE DEF slice
  <2>5. new \in PcbType /\ new.pid = next_pid /\ new.state = "READY"
    BY <2>3, <2>4, SchedulerConstants DEF PcbType, States
  <2> HIDE DEF p, new
  <2>6. /\ table \in [Slots -> PcbType]
        /\ \A s \in Slots : table[s] = IF s = p THEN new ELSE pcb[s]
    BY <2>1, <2>4, <2>5
  <2> HIDE DEF table
  <2>7. /\ t \in StateType /\ t.pcb = table /\ t.npid = next_pid + 1 /\ t.cur = current
        /\ t.boosting = boosting /\ t.rq = rq
    <3>1. next_pid + 1 \in Nat \ {0} /\ State.npid = next_pid
      BY <2>4, StateFields
    <3>2. t \in StateType
      BY <2>4, <2>6, <3>1 DEF StateType
    <3>3. t.pcb = table /\ t.npid = next_pid + 1
      BY <2>4, <3>1 DEF StateType
    <3>4. t.cur = current /\ t.boosting = boosting /\ t.rq = rq
      BY <2>4, StateFields DEF StateType
    <3> QED
      BY <3>2, <3>3, <3>4
  <2> HIDE DEF t
  <2>8. Safe(t)
    <3>1. \A s \in Slots : pcb[s].pid # 0 => t.pcb[s].pid # 0
      BY <2>4, <2>5, <2>6, <2>7
    <3>2. t.rq \in QueueType(Created(t.pcb))
      <4>1. Created(pcb) \subseteq Created(t.pcb) /\ Created(t.pcb) \subseteq Slots
        BY <3>1 DEF Created
      <4> QED
        BY <4>1, <2>7, QueueTypeMonotone DEF IInv, OnlyCreatedLinked
    <3>3. \A s \in Slots : t.pcb[s].state = "RUNNING" => t.cur = s
      BY <2>5, <2>6, <2>7 DEF IInv, RunningIsCurrent
    <3>4. t.cur # NULL => t.pcb[t.cur].state \in {"RUNNING", "READY"} /\ t.pcb[t.cur].pid # 0
      BY <2>4, <2>5, <2>6, <2>7 DEF IInv, TypeOK, CurrentAlive, Ptr
    <3>5. \A s \in Slots : t.pcb[s].pid < t.npid
      BY <2>4, <2>5, <2>6, <2>7 DEF IInv, UniquePids, PcbType
    <3>6. \A s, q \in Slots : t.pcb[s].pid = t.pcb[q].pid /\ t.pcb[s].pid # 0 => s = q
      BY <2>4, <2>5, <2>6, <2>7 DEF IInv, UniquePids, PcbType
    <3> QED
      BY <2>7, <3>2, <3>3, <3>4, <3>5, <3>6 DEF Safe
  <2>9. p \in Created(t.pcb) /\ Created(t.pcb) \in SUBSET Slots
    BY <2>1, <2>4, <2>5, <2>6, <2>7 DEF Created
  <2>10. OnlyQueues(t, u, Created(t.pcb))
    BY <2>7, <2>8, <2>9, AddKeeps DEF Safe
  <2>11. Safe(u) /\ u.boosting = 0
    BY <2>2, <2>7, <2>8, <2>10, OnlyQueuesSafe DEF OnlyQueues, Idle
  <2> QED
    BY <2>2, <2>11, IdleStep
<1> QED
  BY <1>1, <1>2 DEF scheduler_create_process

\* The statistics a termination updates keep their type.
LEMMA SumsType ==
  ASSUME NEW r \in StatsType, NEW a \in Nat, NEW b \in Nat
  PROVE  [r EXCEPT !.completed = a, !.runtime = b] \in StatsType
BY DEF StatsType

\* scheduler_terminate_process keeps the invariant: a current process that ends is no longer current.
LEMMA TerminateSafe ==
  ASSUME IInv, NEW pid \in 1..MaxPid, scheduler_terminate_process(pid)
  PROVE  IInv'
<1>1. CASE UNCHANGED vars
  BY <1>1 DEF vars, IInv, TypeOK, RunningIsCurrent, CurrentAlive, UniquePids,
              OnlyCreatedLinked, BoostProgress
<1>2. CASE ~UNCHANGED vars
  <2>1. PICK p \in Slots : pcb[p].pid = pid /\ Become(Terminated(p)) /\ Idle
    BY <1>2 DEF scheduler_terminate_process
  <2> DEFINE table == SetState(pcb, p, "TERMINATED")
             s == [State EXCEPT !.pcb = table]
             t == remove_from_ready_queue(s, p)
             sums == [t.stats EXCEPT !.completed = t.stats.completed + 1,
                                     !.runtime = t.stats.runtime + pcb[p].time_used]
             u == [t EXCEPT !.stats = sums]
             w == [u EXCEPT !.cur = NULL]
  <2>2. pid # 0
    BY SchedulerConstants
  <2>3. /\ Safe(State) /\ State \in StateType /\ pcb \in [Slots -> PcbType]
        /\ pcb[p].time_used \in Nat
    BY InvAsRecord DEF IInv, TypeOK, Safe, PcbType
  <2>4. /\ table \in [Slots -> PcbType]
        /\ Created(table) = Created(pcb)
        /\ \A q \in Slots :
             /\ table[q].pid = pcb[q].pid
             /\ table[q].state = IF q = p THEN "TERMINATED" ELSE pcb[q].state
    BY <2>3, SetStateType DEF States
  <2> HIDE DEF table
  <2>5. /\ s \in StateType /\ s.pcb = table /\ s.cur = current /\ s.npid = next_pid
        /\ s.boosting = boosting /\ s.rq = rq
    BY <2>3, <2>4, StateFields DEF StateType
  <2> HIDE DEF s
  <2>6. OnlyQueues(s, t, Created(pcb))
    BY <2>5, RemoveKeeps DEF Created, IInv, OnlyCreatedLinked
  <2> HIDE DEF t
  <2>7. t \in StateType /\ t.stats \in StatsType
    BY <2>6 DEF OnlyQueues, StateType
  <2>8. sums \in StatsType
    <3>1. t.stats.completed + 1 \in Nat /\ t.stats.runtime + pcb[p].time_used \in Nat
      BY <2>3, <2>7 DEF StatsType
    <3> QED
      BY <2>7, <3>1, SumsType
  <2> HIDE DEF sums
  <2>9. /\ u \in StateType /\ u.pcb = table /\ u.cur = current /\ u.npid = next_pid
        /\ u.boosting = 0 /\ u.rq \in QueueType(Created(table))
    BY <2>1, <2>4, <2>5, <2>6, <2>7, <2>8 DEF OnlyQueues, StateType, Idle
  <2> HIDE DEF u
  <2>10. /\ w \in StateType /\ w.pcb = table /\ w.cur = NULL /\ w.npid = next_pid
         /\ w.boosting = 0 /\ w.rq \in QueueType(Created(table))
    BY <2>9 DEF StateType, Ptr
  <2> HIDE DEF w
  <2>11. /\ \A a, b \in Slots : table[a].pid = table[b].pid /\ table[a].pid # 0 => a = b
         /\ \A a \in Slots : table[a].pid < next_pid
    BY <2>4 DEF IInv, UniquePids
  <2>12. CASE current # NULL /\ pcb[current].pid = pcb[p].pid
    <3>1. current = p
      BY <2>1, <2>2, <2>12 DEF IInv, UniquePids, TypeOK, Ptr
    <3>2. \A a \in Slots : table[a].state # "RUNNING"
      BY <2>4, <3>1 DEF IInv, RunningIsCurrent
    <3>3. Safe(w)
      BY <2>10, <2>11, <3>2 DEF Safe
    <3>4. Safe(scheduler_schedule(w)) /\ scheduler_schedule(w).boosting = 0
      BY <2>10, <3>3, ScheduleSafe
    <3>5. Terminated(p) = scheduler_schedule(w)
      BY <2>12 DEF Terminated, w, u, sums, t, s, table
    <3> QED
      BY <2>1, <3>4, <3>5, IdleStep
  <2>13. CASE ~(current # NULL /\ pcb[current].pid = pcb[p].pid)
    <3>1. current # p
      BY <2>1, <2>13, SchedulerConstants DEF Slots, NULL
    <3>2. current # NULL => table[current].state \in {"RUNNING", "READY"} /\ table[current].pid # 0
      BY <2>4, <3>1 DEF IInv, CurrentAlive, TypeOK, Ptr
    <3>3. \A a \in Slots : table[a].state = "RUNNING" => current = a
      BY <2>4 DEF IInv, RunningIsCurrent
    <3>4. Safe(u)
      BY <2>9, <2>11, <3>2, <3>3 DEF Safe
    <3>5. Terminated(p) = u
      BY <2>13 DEF Terminated, u, sums, t, s, table
    <3> QED
      BY <2>1, <2>9, <3>4, <3>5, IdleStep
  <2> QED
    BY <2>12, <2>13
<1> QED
  BY <1>1, <1>2

\* The entry point scheduler_yield keeps the invariant.
LEMMA YieldStep == ASSUME IInv, Yield PROVE IInv'
BY InvAsRecord, StateFields, YieldSafe, IdleStep DEF Yield, Idle

\* The entry point scheduler_schedule keeps the invariant.
LEMMA ScheduleStep == ASSUME IInv, Schedule PROVE IInv'
BY InvAsRecord, StateFields, ScheduleSafe, IdleStep DEF Schedule, Idle

\* Charging a tick to the current process keeps the invariant.
LEMMA ChargeSafe ==
  ASSUME NEW t, Safe(t), t.cur # NULL, t.boosting = 0
  PROVE  Safe(Charge(t)) /\ Charge(t).boosting \in {0, 1}
<1> DEFINE c == t.cur
           charged == [t.pcb[c] EXCEPT !.time_used = t.pcb[c].time_used + 1,
                                       !.slice_used = t.pcb[c].slice_used + 1]
           table == [t.pcb EXCEPT ![c] = charged]
           u == [t EXCEPT !.pcb = table]
           v == IF Preemption /\ u.pcb[c].slice_used >= u.pcb[c].time_slice
                THEN scheduler_yield(u) ELSE u
<1>1. t \in StateType /\ c \in Slots /\ t.pcb \in [Slots -> PcbType] /\ t.pcb[c] \in PcbType
  BY DEF Safe, StateType, Ptr
<1>2. charged \in PcbType /\ charged.state = t.pcb[c].state /\ charged.pid = t.pcb[c].pid
  <2> DEFINE r == t.pcb[c]
             a == r.time_used + 1
             b == r.slice_used + 1
  <2>1. r \in PcbType /\ a \in Nat /\ b \in Nat
    BY <1>1 DEF PcbType
  <2> HIDE DEF r, a, b
  <2>2. LET x == [r EXCEPT !.time_used = a, !.slice_used = b]
        IN  x \in PcbType /\ x.state = r.state /\ x.pid = r.pid
    BY <2>1 DEF PcbType
  <2> QED
    BY <2>2 DEF r, a, b
<1> HIDE DEF charged, c
<1>3. /\ table \in [Slots -> PcbType]
      /\ \A a \in Slots : table[a].state = t.pcb[a].state /\ table[a].pid = t.pcb[a].pid
  BY <1>1, <1>2
<1> HIDE DEF table
<1>4. SameProcesses(t, u)
  BY <1>1, <1>3 DEF SameProcesses, Safe, StateType
<1>5. Safe(u) /\ u.boosting = 0
  BY <1>4, SameSafe DEF SameProcesses
<1> HIDE DEF u
<1>6. Safe(v) /\ v.boosting = 0
  BY <1>5, YieldSafe
<1> HIDE DEF v
<1>7. CASE ~(IsMLFQ /\ v.ticks - v.boost >= BoostInterval)
  <2>1. Charge(t) = v
    BY <1>7 DEF Charge, v, u, table, charged, c
  <2> QED
    BY <2>1, <1>6
<1>8. CASE IsMLFQ /\ v.ticks - v.boost >= BoostInterval
  <2> DEFINE w == [v EXCEPT !.boosting = 1]
  <2>1. Charge(t) = w
    BY <1>8 DEF Charge, v, u, table, charged, c
  <2>2. 1 \in Queues
    BY <1>8, QueueIndex, SchedulerConstants
  <2>3. v \in StateType
    BY <1>6 DEF Safe
  <2>4. /\ w \in StateType /\ w.boosting = 1 /\ w.rq = v.rq /\ w.pcb = v.pcb
        /\ w.cur = v.cur /\ w.npid = v.npid
    BY <2>2, <2>3 DEF StateType
  <2> HIDE DEF w
  <2>5. Safe(w)
    BY <1>6, <2>4 DEF Safe
  <2> QED
    BY <2>1, <2>4, <2>5
<1> QED
  BY <1>7, <1>8

\* scheduler_tick keeps the invariant, in its charge, its expiry and its start of a boost.
LEMMA TickStep == ASSUME IInv, scheduler_tick PROVE IInv'
<1> DEFINE t == [State EXCEPT !.ticks = State.ticks + 1]
<1>1. Safe(State) /\ State \in StateType
  BY InvAsRecord DEF Safe
<1>2. /\ t \in StateType /\ t.rq = rq /\ t.pcb = pcb /\ t.cur = current /\ t.npid = next_pid
      /\ t.boosting = 0
  BY <1>1, StateFields DEF StateType, scheduler_tick, Idle
<1> HIDE DEF t
<1>3. Safe(t)
  BY <1>1, <1>2, StateFields DEF Safe
<1>4. Idle /\ Become(IF current = NULL THEN t ELSE Charge(t))
  BY DEF scheduler_tick, t
<1>5. CASE current = NULL
  BY <1>2, <1>3, <1>4, <1>5, IdleStep
<1>6. CASE current # NULL
  BY <1>2, <1>3, <1>4, <1>6, ChargeSafe, IdleStep
<1> QED
  BY <1>5, <1>6

\* A turn of the boost loop: it takes from the queue being emptied and adds to
\* queue 0, so the queues already passed stay empty.
LEMMA BoostCounts ==
  ASSUME NEW P \in SUBSET Slots, NEW q \in QueueType(P), NEW i \in Queues, NEW p \in P,
         q.count[i] # 0, NEW j \in Queues, j # 0, j # i
  PROVE  Link(Unlink(q, i), 0, p).count[j] = q.count[j]
<1> DEFINE r == Unlink(q, i)
<1>1. r \in QueueType(P)
  BY UnlinkType
<1>2. r.count[j] = q.count[j]
  BY DEF Unlink, Crash, QueueType
<1> HIDE DEF r
<1>3. Link(r, 0, p).count[j] = r.count[j]
  BY <1>1, QueueIndex DEF Link, Crash, QueueType
<1> QED
  BY <1>2, <1>3 DEF r

\* One turn of the boost loop keeps the invariant.
LEMMA BoostStep ==
  ASSUME IInv, scheduler_mlfq_boost_priority
  PROVE  IInv' /\ boosting' = boosting
<1> DEFINE i == boosting
           p == rq.head[i]
           C == Created(pcb)
           b == BoostOne(State, i)
<1>1. /\ Safe(State) /\ State \in StateType /\ i \in Queues /\ C \in SUBSET Slots
      /\ rq \in QueueType(C) /\ pcb \in [Slots -> PcbType] /\ BoostProgress
  BY InvAsRecord DEF IInv, TypeOK, Safe, Created, OnlyCreatedLinked
<1>2. rq.count[i] # 0 /\ Become(b) /\ i # 0
  BY <1>1 DEF scheduler_mlfq_boost_priority, QueueType
<1>3. p \in C \cup {NULL}
  BY <1>1 DEF QueueType
<1>4. CASE p = NULL
  <2> DEFINE c == [State EXCEPT !.rq = Crash(rq)]
  <2>1. b = c
    BY <1>4, StateFields DEF BoostOne
  <2>2. OnlyQueues(State, c, C)
    BY <1>1, CrashType, NewQueues
  <2>3. Safe(c) /\ c.boosting = boosting
    BY <1>1, <2>2, StateFields, OnlyQueuesSafe DEF OnlyQueues
  <2>4. c.rq.count = rq.count
    BY <1>1 DEF Crash, QueueType, StateType
  <2> HIDE DEF c
  <2>5. Safe(State)' /\ boosting' = boosting /\ rq'.count = rq.count
    BY <1>1, <1>2, <2>1, <2>3, <2>4, BecomeSafe
  <2>6. BoostProgress'
    BY <1>1, <2>5 DEF BoostProgress
  <2> QED
    BY <2>5, <2>6, InvAsRecord, PTL
<1>5. CASE p # NULL
  <2> DEFINE q == Link(Unlink(rq, i), 0, p)
             table == [pcb EXCEPT ![p].priority = 0]
             u == [State EXCEPT !.rq = q, !.pcb = table]
  <2>1. q \in QueueType(C) /\ q \in QueueType(Slots)
    BY <1>1, <1>2, <1>3, <1>5, QueueIndex, UnlinkType, LinkType, QueueTypeMonotone
  <2>2. /\ table \in [Slots -> PcbType]
        /\ \A s \in Slots : table[s].state = pcb[s].state /\ table[s].pid = pcb[s].pid
    BY <1>1, <1>3, <1>5 DEF PcbType
  <2>3. \A j \in Queues : j # 0 /\ j # i => q.count[j] = rq.count[j]
    BY <1>1, <1>2, <1>3, <1>5, BoostCounts
  <2> HIDE DEF q, table
  <2>4. SameProcesses(State, u) /\ u.boosting = boosting /\ u.rq = q
    BY <1>1, <2>1, <2>2, StateFields DEF SameProcesses, StateType
  <2>5. b = u
    BY <1>5, StateFields DEF BoostOne, q, table
  <2> HIDE DEF u
  <2>6. Safe(u)
    BY <1>1, <2>4, SameSafe
  <2>7. Safe(State)' /\ boosting' = boosting /\ (rq' = q \/ rq'.count = rq.count)
    BY <1>1, <1>2, <2>4, <2>5, <2>6, BecomeSafe
  <2>8. BoostProgress'
    <3> SUFFICES ASSUME NEW j \in Queues, 0 < j, j < boosting'
                 PROVE  rq'.count[j] = 0
      BY DEF BoostProgress
    <3>1. rq.count[j] = 0 /\ j # 0 /\ j # i
      BY <1>1, <2>7, QueueIndex DEF BoostProgress
    <3> QED
      BY <2>3, <2>7, <3>1
  <2> QED
    BY <2>7, <2>8, InvAsRecord, PTL
<1> QED
  BY <1>4, <1>5

\* Going on to the next queue keeps the invariant: the queue left behind is empty.
LEMMA BoostNextStep ==
  ASSUME IInv, BoostNextQueue
  PROVE  /\ IInv'
         /\ boosting' = 0 => \A i \in Queues \ {0} : rq'.count[i] = 0
<1>1. /\ Safe(State) /\ State \in StateType /\ boosting \in Queues /\ BoostProgress
      /\ boosting # 0 /\ rq.count[boosting] = 0 /\ boosting \in Nat
  BY InvAsRecord, QueueIndex DEF Safe, IInv, TypeOK, BoostNextQueue
<1>2. IsMLFQ
  BY <1>1 DEF Queues
<1>3. CASE boosting < PriorityLevels - 1
  <2> DEFINE u == [State EXCEPT !.boosting = State.boosting + 1]
  <2>1. Become(u)
    BY <1>3 DEF BoostNextQueue
  <2>2. boosting + 1 \in Queues
    BY <1>1, <1>2, <1>3, SchedulerConstants, QueueIndex
  <2>3. /\ u \in StateType /\ u.rq = rq /\ u.pcb = pcb /\ u.cur = current /\ u.npid = next_pid
        /\ u.boosting = boosting + 1
    BY <1>1, <2>2, StateFields DEF StateType
  <2> HIDE DEF u
  <2>4. Safe(u)
    BY <1>1, <2>3, StateFields DEF Safe
  <2>5. /\ Safe(State)' /\ (boosting' = boosting + 1 \/ boosting' = boosting)
        /\ rq'.count = rq.count
    BY <1>1, <2>1, <2>3, <2>4, BecomeSafe
  <2>6. BoostProgress'
    <3> SUFFICES ASSUME NEW j \in Queues, 0 < j, j < boosting'
                 PROVE  rq'.count[j] = 0
      BY DEF BoostProgress
    <3>1. j \in Nat
      BY QueueIndex
    <3>2. j < boosting \/ j = boosting
      BY <1>1, <2>5, <3>1
    <3> QED
      BY <1>1, <2>5, <3>2 DEF BoostProgress
  <2>7. IInv'
    BY <2>5, <2>6, InvAsRecord, PTL
  <2> QED
    BY <1>1, <2>5, <2>7
<1>4. CASE ~(boosting < PriorityLevels - 1)
  <2> DEFINE u == [State EXCEPT !.boosting = 0, !.boost = ticks]
  <2>1. Become(u)
    BY <1>4 DEF BoostNextQueue
  <2>2. ticks \in Nat
    BY DEF IInv, TypeOK
  <2>3. /\ u \in StateType /\ u.rq = rq /\ u.pcb = pcb /\ u.cur = current /\ u.npid = next_pid
        /\ u.boosting = 0
    BY <1>1, <2>2, QueueIndex, StateFields DEF StateType
  <2> HIDE DEF u
  <2>4. Safe(u)
    BY <1>1, <2>3, StateFields DEF Safe
  <2>5. Safe(State)' /\ (boosting' = 0 \/ boosting' = boosting) /\ rq'.count = rq.count
    BY <1>1, <2>1, <2>3, <2>4, BecomeSafe
  <2>6. BoostProgress'
    <3> SUFFICES ASSUME NEW j \in Queues, 0 < j, j < boosting'
                 PROVE  rq'.count[j] = 0
      BY DEF BoostProgress
    <3>1. j \in Nat
      BY QueueIndex
    <3>2. j < boosting \/ j = boosting
      BY <1>1, <2>5, <3>1
    <3> QED
      BY <1>1, <2>5, <3>2 DEF BoostProgress
  <2>7. IInv'
    BY <2>5, <2>6, InvAsRecord, PTL
  <2>8. \A i \in Queues \ {0} : rq'.count[i] = 0
    <3> SUFFICES ASSUME NEW i \in Queues, i # 0
                 PROVE  rq'.count[i] = 0
      OBVIOUS
    <3>1. i \in Nat /\ i <= PriorityLevels - 1
      BY <1>2, SchedulerConstants DEF Queues
    <3>2. i < boosting \/ i = boosting
      BY <1>1, <1>4, <3>1, SchedulerConstants
    <3> QED
      BY <1>1, <2>5, <3>1, <3>2 DEF BoostProgress
  <2> QED
    BY <2>7, <2>8
<1> QED
  BY <1>3, <1>4

-----------------------------------------------------------------------------
\* scheduler_init establishes the invariant.
LEMMA InitInv == Init => IInv
<1> SUFFICES ASSUME Init PROVE IInv
  OBVIOUS
<1>1. TypeOK
  BY SchedulerConstants, QueueIndex
  DEF Init, scheduler_init, TypeOK, QueueType, PcbType, StatsType, States, Ptr
<1>2. RunningIsCurrent /\ CurrentAlive /\ UniquePids
  BY DEF Init, scheduler_init, RunningIsCurrent, CurrentAlive, UniquePids
<1>3. OnlyCreatedLinked
  BY DEF Init, scheduler_init, OnlyCreatedLinked, QueueType
<1>4. BoostProgress
  BY DEF Init, scheduler_init, BoostProgress
<1> QED
  BY <1>1, <1>2, <1>3, <1>4 DEF IInv

\* Every step keeps the invariant.
LEMMA NextInv == IInv /\ [Next]_vars => IInv'
<1> SUFFICES ASSUME IInv, [Next]_vars PROVE IInv'
  OBVIOUS
<1>1. CASE UNCHANGED vars
  BY <1>1 DEF vars, IInv, TypeOK, RunningIsCurrent, CurrentAlive, UniquePids,
              OnlyCreatedLinked, BoostProgress
<1>2. CASE \E priority \in Priorities : scheduler_create_process(priority)
  BY <1>2, CreateSafe
<1>3. CASE \E pid \in 1..MaxPid : scheduler_terminate_process(pid)
  BY <1>3, TerminateSafe
<1>4. CASE Yield
  BY <1>4, YieldStep
<1>5. CASE Schedule
  BY <1>5, ScheduleStep
<1>6. CASE scheduler_tick
  BY <1>6, TickStep
<1>7. CASE scheduler_mlfq_boost_priority
  BY <1>7, BoostStep
<1>8. CASE BoostNextQueue
  BY <1>8, BoostNextStep
<1> QED
  BY <1>1, <1>2, <1>3, <1>4, <1>5, <1>6, <1>7, <1>8 DEF Next

\* The inductive invariant: every link stays inside process_table and on a slot
\* that scheduler_create_process has filled, whatever the primitives do to the
\* lists.
THEOREM SchedulerInvariant == Spec => []IInv
BY InitInv, NextInv, PTL DEF Spec

\* The scheduler is type correct under every policy, for every table size.
THEOREM TypeCorrect == Spec => []TypeOK
<1>1. IInv => TypeOK
  BY DEF IInv
<1> QED
  BY <1>1, SchedulerInvariant, PTL

\* At most one process is RUNNING, and it is current_process, for every number
\* of processes, every policy and every sequence of calls.
THEOREM MutualExclusion == Spec => []RunningIsCurrent
<1>1. IInv => RunningIsCurrent
  BY DEF IInv
<1> QED
  BY <1>1, SchedulerInvariant, PTL

\* The slot scheduler_tick charges belongs to a living process, so
\* find_free_pcb never reuses it under the scheduler's feet.
THEOREM CurrentNeverDangles == Spec => []CurrentAlive
<1>1. IInv => CurrentAlive
  BY DEF IInv
<1> QED
  BY <1>1, SchedulerInvariant, PTL

\* A pid names one slot, so scheduler_terminate_process ends the process it was
\* asked to end.
THEOREM PidsAreUnique == Spec => []UniquePids
<1>1. IInv => UniquePids
  BY DEF IInv
<1> QED
  BY <1>1, SchedulerInvariant, PTL

-----------------------------------------------------------------------------
\* The order of the queues through the boost.

\* What it means that s reads the queues q.
LEMMA ReadingFacts ==
  ASSUME NEW q \in QueueType(Slots), NEW table, NEW b, NEW s \in Readings(q, table, b)
  PROVE  /\ NoneTwice(s)
         /\ \A i \in Queues : /\ q.count[i] \in Nat
                              /\ s[i] \in [1..q.count[i] -> Slots]
                              /\ IsList(q, table, i, b, s[i])
BY DEF Readings, Lists, QueueType

\* Lists of the right shape make a reading.
LEMMA ReadingBuilt ==
  ASSUME NEW q, NEW table, NEW b, NEW r, r = [i \in Queues |-> r[i]],
         \A i \in Queues : r[i] \in Lists(q, table, i, b), NoneTwice(r)
  PROVE  r \in Readings(q, table, b)
<1>1. \A i \in Queues : r[i] \in UNION {Lists(q, table, j, b) : j \in Queues}
  OBVIOUS
<1>2. r \in [Queues -> UNION {Lists(q, table, j, b) : j \in Queues}]
  BY <1>1
<1> QED
  BY <1>2 DEF Readings

\* v is the queues q after p, the head of queue b, has moved to the tail of
\* queue 0: the fields of every queue and every link.
Moved(q, v, b, p) ==
  /\ ~v.fault
  /\ v.count[0] = q.count[0] + 1 /\ v.tail[0] = p
  /\ v.head[0] = IF q.count[0] = 0 THEN p ELSE q.head[0]
  /\ v.count[b] = q.count[b] - 1
  /\ v.head[b] = IF q.count[b] = 1 THEN NULL ELSE q.next[p]
  /\ v.tail[b] = IF q.count[b] = 1 THEN NULL ELSE q.tail[b]
  /\ \A i \in Queues \ {0, b} : /\ v.count[i] = q.count[i]
                                /\ v.head[i] = q.head[i]
                                /\ v.tail[i] = q.tail[i]
  /\ \A x \in Slots :
       v.next[x] = IF q.count[0] # 0 /\ x = q.tail[0] THEN p ELSE q.next[x]
  /\ \A x \in Slots :
       v.prev[x] = IF q.count[0] # 0 /\ x = p THEN q.tail[0]
                   ELSE IF q.count[b] > 1 /\ x = q.next[p] THEN NULL
                   ELSE q.prev[x]

\* A turn of the boost loop moves the head so, if ends and counts agree.
LEMMA MovedQueues ==
  ASSUME NEW q \in QueueType(Slots), ~q.fault, NEW b \in Queues, b # 0, NEW p \in Slots,
         p = q.head[b], q.count[b] \in Nat, q.count[0] \in Nat, q.count[b] > 0,
         q.count[b] = 1 <=> q.head[b] = q.tail[b],
         q.count[b] > 1 => q.next[p] # NULL,
         q.head[0] = NULL <=> q.count[0] = 0,
         q.tail[0] = NULL <=> q.count[0] = 0
  PROVE  Moved(q, Link(Unlink(q, b), 0, p), b, p)
<1> DEFINE u == Unlink(q, b)
<1>0. 0 \in Queues /\ p # NULL
  BY QueueIndex DEF Slots, NULL
<1>1. /\ u.fault = q.fault /\ u.next = q.next
      /\ u.count = [q.count EXCEPT ![b] = q.count[b] - 1]
      /\ u.head = [q.head EXCEPT ![b] = IF q.count[b] = 1 THEN NULL ELSE q.next[p]]
      /\ u.tail = [q.tail EXCEPT ![b] = IF q.count[b] = 1 THEN NULL ELSE q.tail[b]]
      /\ u.prev = IF q.count[b] = 1 THEN q.prev ELSE [q.prev EXCEPT ![q.next[p]] = NULL]
  <2>1. CASE q.count[b] = 1
    BY <2>1 DEF Unlink, QueueType
  <2>2. CASE q.count[b] # 1
    <3>1. q.next[p] # NULL /\ q.head[b] # q.tail[b] /\ p # NULL
      BY <1>0, <2>2
    <3> QED
      BY <2>2, <3>1 DEF Unlink, QueueType
  <2> QED
    BY <2>1, <2>2
<1>2. u \in QueueType(Slots)
  BY UnlinkType
<1>3. /\ u.count[0] = q.count[0] /\ u.head[0] = q.head[0] /\ u.tail[0] = q.tail[0]
  BY <1>0, <1>1 DEF QueueType
<1>4. \A i \in Queues \ {b} : u.count[i] = q.count[i] /\ u.head[i] = q.head[i] /\ u.tail[i] = q.tail[i]
  BY <1>1 DEF QueueType
<1>5. /\ u.count[b] = q.count[b] - 1
      /\ u.head[b] = IF q.count[b] = 1 THEN NULL ELSE q.next[p]
      /\ u.tail[b] = IF q.count[b] = 1 THEN NULL ELSE q.tail[b]
  BY <1>1 DEF QueueType
<1>6. \A x \in Slots : u.prev[x] = IF q.count[b] > 1 /\ x = q.next[p] THEN NULL ELSE q.prev[x]
  BY <1>1 DEF QueueType
<1> HIDE DEF u
<1> DEFINE v == Link(u, 0, p)
<1>7. Moved(q, v, b, p)
  <2>1. CASE q.count[0] = 0
    <3>1. /\ v.fault = u.fault /\ v.next = u.next /\ v.prev = u.prev
          /\ v.head = [u.head EXCEPT ![0] = p] /\ v.tail = [u.tail EXCEPT ![0] = p]
          /\ v.count = [u.count EXCEPT ![0] = u.count[0] + 1]
      BY <1>2, <1>3, <2>1 DEF Link, QueueType
    <3> HIDE DEF v
    <3>2. v.count[0] = q.count[0] + 1 /\ v.tail[0] = p /\ v.head[0] = p
      BY <1>0, <1>2, <1>3, <3>1 DEF QueueType
    <3>3. \A i \in Queues \ {0} : v.count[i] = u.count[i] /\ v.head[i] = u.head[i] /\ v.tail[i] = u.tail[i]
      BY <1>2, <3>1 DEF QueueType
    <3> QED
      BY <1>0, <1>1, <1>4, <1>5, <1>6, <2>1, <3>1, <3>2, <3>3 DEF Moved
  <2>2. CASE q.count[0] # 0
    <3>1. /\ v.fault = u.fault /\ v.next = [u.next EXCEPT ![q.tail[0]] = p]
          /\ v.prev = [u.prev EXCEPT ![p] = q.tail[0]]
          /\ v.head = u.head /\ v.tail = [u.tail EXCEPT ![0] = p]
          /\ v.count = [u.count EXCEPT ![0] = u.count[0] + 1]
      BY <1>2, <1>3, <2>2 DEF Link, QueueType
    <3> HIDE DEF v
    <3>2. v.count[0] = q.count[0] + 1 /\ v.tail[0] = p /\ v.head[0] = q.head[0]
      BY <1>0, <1>2, <1>3, <3>1 DEF QueueType
    <3>3. \A i \in Queues \ {0} : v.count[i] = u.count[i] /\ v.head[i] = u.head[i] /\ v.tail[i] = u.tail[i]
      BY <1>2, <3>1 DEF QueueType
    <3>4. \A x \in Slots : /\ v.next[x] = IF x = q.tail[0] THEN p ELSE q.next[x]
                           /\ v.prev[x] = IF x = p THEN q.tail[0] ELSE u.prev[x]
      BY <1>1, <1>2, <3>1 DEF QueueType
    <3> QED
      BY <1>0, <1>1, <1>4, <1>5, <1>6, <2>2, <3>1, <3>2, <3>3, <3>4 DEF Moved
  <2> QED
    BY <2>1, <2>2
<1> QED
  BY <1>7 DEF u, v

\* In queues that can be read, the ends agree with the counts, and the process
\* at the head has a successor unless it is alone.
LEMMA ReadingEnds ==
  ASSUME NEW q \in QueueType(Slots), NEW table, NEW b \in Queues, q.count[b] > 0,
         NEW s \in Readings(q, table, b)
  PROVE  /\ q.head[b] = s[b][1] /\ s[b][1] \in Slots
         /\ q.count[b] = 1 <=> q.head[b] = q.tail[b]
         /\ q.count[b] > 1 => q.next[s[b][1]] = s[b][2] /\ s[b][2] \in Slots
         /\ q.head[0] = NULL <=> q.count[0] = 0
         /\ q.tail[0] = NULL <=> q.count[0] = 0
<1>1. /\ 0 \in Queues /\ q.count[0] \in Nat /\ q.count[b] \in Nat
      /\ s[0] \in [1..q.count[0] -> Slots] /\ s[b] \in [1..q.count[b] -> Slots]
      /\ IsList(q, table, 0, b, s[0]) /\ IsList(q, table, b, b, s[b]) /\ NoneTwice(s)
  BY ReadingFacts, QueueIndex
<1>2. /\ 1 \in DOMAIN s[b] /\ q.count[b] \in DOMAIN s[b]
      /\ q.head[b] = s[b][1] /\ q.tail[b] = s[b][q.count[b]]
  BY <1>1 DEF IsList
<1>3. q.count[b] = 1 <=> q.head[b] = q.tail[b]
  BY <1>1, <1>2 DEF NoneTwice
<1>4. q.count[b] > 1 => q.next[s[b][1]] = s[b][2] /\ s[b][2] \in Slots
  <2>1. ASSUME q.count[b] > 1 PROVE 2 \in 2..q.count[b] /\ 2 \in DOMAIN s[b] /\ 2 - 1 = 1
    BY <1>1, <2>1
  <2> QED
    BY <1>1, <2>1 DEF IsList
<1>5. \A x \in Slots : x # NULL
  BY DEF Slots, NULL
<1>6. (q.head[0] = NULL <=> q.count[0] = 0) /\ (q.tail[0] = NULL <=> q.count[0] = 0)
  <2>1. CASE q.count[0] = 0
    BY <1>1, <2>1 DEF IsList
  <2>2. CASE q.count[0] # 0
    <3>1. 1 \in DOMAIN s[0] /\ q.count[0] \in DOMAIN s[0]
      BY <1>1, <2>2
    <3> QED
      BY <1>1, <1>5, <2>2, <3>1 DEF IsList
  <2> QED
    BY <2>1, <2>2
<1> QED
  BY <1>1, <1>2, <1>3, <1>4, <1>6

\* The reading s after the head of queue b has moved to the tail of queue 0.
AfterMove(q, s, b) ==
  [i \in Queues |->
     IF i = 0 THEN [k \in 1..(q.count[0] + 1) |-> IF k <= q.count[0] THEN s[0][k] ELSE s[b][1]]
     ELSE IF i = b THEN [k \in 1..(q.count[b] - 1) |-> s[b][k + 1]]
     ELSE s[i]]

\* Every place of s has a place after the move, at which stands the same
\* process, and the reverse; when nobody is between queue 0 and queue b, the
\* order of the places is the same.
LEMMA SameOrder ==
  ASSUME NEW q \in QueueType(Slots), NEW table, NEW b \in Queues, b # 0, q.count[b] > 0,
         \A i \in Queues : 0 < i /\ i < b => q.count[i] = 0,
         NEW s \in Readings(q, table, b)
  PROVE  LET r == AfterMove(q, s, b) IN NoneTwice(r) /\ Order(r) = Order(s)
<1> DEFINE r == AfterMove(q, s, b)
           m == q.count[0]
           n == q.count[b]
           place(i, k) == IF i = b THEN IF k = 1 THEN <<0, m + 1>> ELSE <<b, k - 1>> ELSE <<i, k>>
           back(i, k) == IF i = 0 /\ k = m + 1 THEN <<b, 1>>
                         ELSE IF i = b THEN <<b, k + 1>> ELSE <<i, k>>
           before(x, y) == x[1] < y[1] \/ (x[1] = y[1] /\ x[2] <= y[2])
<1>1. /\ NoneTwice(s) /\ 0 \in Queues /\ m \in Nat /\ n \in Nat /\ n > 0
      /\ \A i \in Queues : /\ i \in Nat /\ q.count[i] \in Nat
                           /\ s[i] \in [1..q.count[i] -> Slots]
  BY ReadingFacts, QueueIndex
<1>2. /\ r[0] = [k \in 1..(m + 1) |-> IF k <= m THEN s[0][k] ELSE s[b][1]]
      /\ r[b] = [k \in 1..(n - 1) |-> s[b][k + 1]]
      /\ \A i \in Queues \ {0, b} : r[i] = s[i]
  BY <1>1 DEF AfterMove
<1> HIDE DEF r
<1>3. ASSUME NEW i \in Queues, NEW k \in DOMAIN s[i]
      PROVE  /\ place(i, k)[1] \in Queues /\ place(i, k)[2] \in DOMAIN r[place(i, k)[1]]
             /\ r[place(i, k)[1]][place(i, k)[2]] = s[i][k]
  <2>1. CASE i = b /\ k = 1
    <3>1. m + 1 \in 1..(m + 1) /\ ~(m + 1 <= m)
      BY <1>1
    <3>2. r[0][m + 1] = s[b][1] /\ m + 1 \in DOMAIN r[0]
      BY <1>2, <3>1
    <3> QED
      BY <1>1, <2>1, <3>2
  <2>2. CASE i = b /\ k # 1
    <3>1. k - 1 \in 1..(n - 1) /\ (k - 1) + 1 = k
      BY <1>1, <2>2
    <3>2. r[b][k - 1] = s[b][k] /\ k - 1 \in DOMAIN r[b]
      BY <1>2, <3>1
    <3> QED
      BY <2>2, <3>2
  <2>3. CASE i = 0
    <3>1. k \in 1..m /\ k \in 1..(m + 1) /\ k <= m
      BY <1>1, <2>3
    <3> QED
      BY <1>2, <2>3, <3>1
  <2>4. CASE i # 0 /\ i # b
    BY <1>2, <2>4
  <2> QED
    BY <2>1, <2>2, <2>3, <2>4
<1>4. ASSUME NEW i \in Queues, NEW k \in DOMAIN r[i]
      PROVE  /\ back(i, k)[1] \in Queues /\ back(i, k)[2] \in DOMAIN s[back(i, k)[1]]
             /\ s[back(i, k)[1]][back(i, k)[2]] = r[i][k]
  <2>1. CASE i = 0 /\ k = m + 1
    <3>1. 1 \in 1..n /\ ~(m + 1 <= m) /\ k \in 1..(m + 1)
      BY <1>1, <1>2, <2>1
    <3> QED
      BY <1>1, <1>2, <2>1, <3>1
  <2>2. CASE i = 0 /\ k # m + 1
    <3>1. k \in 1..(m + 1) /\ k \in 1..m /\ k <= m
      BY <1>1, <1>2, <2>2
    <3> QED
      BY <1>1, <1>2, <2>2, <3>1
  <2>3. CASE i = b
    <3>1. k \in 1..(n - 1) /\ k + 1 \in 1..n
      BY <1>1, <1>2, <2>3
    <3> QED
      BY <1>1, <1>2, <2>3, <3>1
  <2>4. CASE i # 0 /\ i # b
    BY <1>2, <2>4
  <2> QED
    BY <2>1, <2>2, <2>3, <2>4
<1>5. ASSUME NEW i \in Queues, NEW k \in DOMAIN s[i], NEW j \in Queues, NEW l \in DOMAIN s[j],
             i < j \/ (i = j /\ k <= l)
      PROVE  before(place(i, k), place(j, l))
  <2>1. /\ k \in Nat /\ 1 <= k /\ k <= q.count[i] /\ l \in Nat /\ 1 <= l /\ l <= q.count[j]
        /\ i \in Nat /\ j \in Nat /\ q.count[i] # 0 /\ q.count[j] # 0 /\ b \in Nat
    BY <1>1
  <2>2. ~(0 < i /\ i < b) /\ ~(0 < j /\ j < b)
    BY <2>1
  <2> QED
    BY <1>1, <1>5, <2>1, <2>2
<1>6. ASSUME NEW x \in Queues, NEW y \in DOMAIN r[x]
       PROVE  y \in Nat /\ 1 <= y /\ (x = 0 => y <= m + 1)
  <2>1. CASE x = 0
    BY <1>1, <1>2, <2>1
  <2>2. CASE x = b
    BY <1>1, <1>2, <2>2
  <2>3. CASE x # 0 /\ x # b
    BY <1>1, <1>2, <2>3
  <2> QED
    BY <2>1, <2>2, <2>3
<1>7. ASSUME NEW i \in Queues, NEW k \in DOMAIN r[i], NEW j \in Queues, NEW l \in DOMAIN r[j],
             i < j \/ (i = j /\ k <= l)
      PROVE  before(back(i, k), back(j, l))
  <2>1. ASSUME NEW x \in Queues, NEW y \in DOMAIN r[x]
        PROVE  ~(0 < x /\ x < b)
    <3> SUFFICES ASSUME 0 < x, x < b PROVE FALSE
      OBVIOUS
    <3>1. x \in Nat /\ b \in Nat /\ x # 0 /\ x # b
      BY <1>1
    <3>2. r[x] = s[x] /\ q.count[x] = 0
      BY <1>2, <3>1
    <3> QED
      BY <1>1, <3>2
  <2>2. /\ k \in Nat /\ 1 <= k /\ (i = 0 => k <= m + 1)
        /\ l \in Nat /\ 1 <= l /\ (j = 0 => l <= m + 1)
        /\ i \in Nat /\ j \in Nat /\ b \in Nat
    BY <1>1, <1>6
  <2>3. ~(0 < i /\ i < b) /\ ~(0 < j /\ j < b)
    BY <2>1
  <2> QED
    BY <1>1, <1>7, <2>2, <2>3
<1>8. NoneTwice(r)
  <2> SUFFICES ASSUME NEW i \in Queues, NEW j \in Queues, NEW k \in DOMAIN r[i],
                      NEW l \in DOMAIN r[j], r[i][k] = r[j][l]
               PROVE  i = j /\ k = l
    BY DEF NoneTwice
  <2>1. back(i, k)[1] = back(j, l)[1] /\ back(i, k)[2] = back(j, l)[2]
    <3> DEFINE x == back(i, k)
               y == back(j, l)
    <3>1. /\ x[1] \in Queues /\ x[2] \in DOMAIN s[x[1]] /\ s[x[1]][x[2]] = r[i][k]
          /\ y[1] \in Queues /\ y[2] \in DOMAIN s[y[1]] /\ s[y[1]][y[2]] = r[j][l]
      BY <1>4
    <3> HIDE DEF x, y
    <3>2. x[1] = y[1] /\ x[2] = y[2]
      BY <1>1, <3>1 DEF NoneTwice
    <3> QED
      BY <3>2 DEF x, y
  <2>2. k \in Nat /\ 1 <= k /\ l \in Nat /\ 1 <= l
    BY <1>6
  <2> QED
    BY <1>1, <2>1, <2>2
<1>9. Order(s) \subseteq Order(r)
  <2> SUFFICES ASSUME NEW o \in Slots \X Slots, NEW i \in Queues, NEW j \in Queues,
                      NEW k \in DOMAIN s[i], NEW l \in DOMAIN s[j],
                      s[i][k] = o[1], s[j][l] = o[2], i < j \/ (i = j /\ k <= l)
               PROVE  o \in Order(r)
    BY DEF Order
  <2> DEFINE x == place(i, k)
             y == place(j, l)
  <2>1. /\ x[1] \in Queues /\ x[2] \in DOMAIN r[x[1]] /\ r[x[1]][x[2]] = o[1]
        /\ y[1] \in Queues /\ y[2] \in DOMAIN r[y[1]] /\ r[y[1]][y[2]] = o[2]
    BY <1>3
  <2>2. before(x, y)
    BY <1>5
  <2> HIDE DEF x, y
  <2> QED
    BY <2>1, <2>2 DEF Order
<1>10. Order(r) \subseteq Order(s)
  <2> SUFFICES ASSUME NEW o \in Slots \X Slots, NEW i \in Queues, NEW j \in Queues,
                      NEW k \in DOMAIN r[i], NEW l \in DOMAIN r[j],
                      r[i][k] = o[1], r[j][l] = o[2], i < j \/ (i = j /\ k <= l)
               PROVE  o \in Order(s)
    BY DEF Order
  <2> DEFINE x == back(i, k)
             y == back(j, l)
  <2>1. /\ x[1] \in Queues /\ x[2] \in DOMAIN s[x[1]] /\ s[x[1]][x[2]] = o[1]
        /\ y[1] \in Queues /\ y[2] \in DOMAIN s[y[1]] /\ s[y[1]][y[2]] = o[2]
    BY <1>4
  <2>2. before(x, y)
    BY <1>7
  <2> HIDE DEF x, y
  <2> QED
    BY <2>1, <2>2 DEF Order
<1> QED
  BY <1>8, <1>9, <1>10 DEF r

\* After the move every queue is again the list of its processes, each at the
\* level of its queue.
LEMMA MovedLists ==
  ASSUME NEW q \in QueueType(Slots), NEW v \in QueueType(Slots), NEW table \in [Slots -> PcbType],
         NEW b \in Queues, b # 0, q.count[b] > 0,
         NEW s \in Readings(q, table, b), NEW p, p = q.head[b], Moved(q, v, b, p),
         NEW new, new = [table EXCEPT ![p].priority = 0],
         NEW i \in Queues
  PROVE  AfterMove(q, s, b)[i] \in Lists(v, new, i, b)
<1> DEFINE m == q.count[0]
           n == q.count[b]
           c == AfterMove(q, s, b)[i]
<1>1. /\ NoneTwice(s) /\ 0 \in Queues /\ m \in Nat /\ n \in Nat /\ n > 0
      /\ \A j \in Queues : /\ j \in Nat /\ q.count[j] \in Nat
                           /\ s[j] \in [1..q.count[j] -> Slots]
                           /\ IsList(q, table, j, b, s[j])
  BY ReadingFacts, QueueIndex
<1>2. /\ p = s[b][1] /\ p \in Slots /\ 1 \in DOMAIN s[b]
      /\ n > 1 => q.next[p] = s[b][2] /\ s[b][2] \in Slots /\ 2 \in DOMAIN s[b]
      /\ n = 1 <=> p = q.tail[b]
  BY <1>1, ReadingEnds
<1>3. ASSUME NEW j \in Queues, NEW k \in DOMAIN s[j]
      PROVE  /\ s[j][k] \in Slots
             /\ <<j, k>> # <<b, 1>> => /\ s[j][k] # p
                                       /\ Level(new[s[j][k]].priority) = j
             /\ m # 0 /\ <<j, k>> # <<0, m>> => v.next[s[j][k]] = q.next[s[j][k]]
             /\ m = 0 => v.next[s[j][k]] = q.next[s[j][k]]
             /\ <<j, k>> # <<b, 1>> /\ <<j, k>> # <<b, 2>> => v.prev[s[j][k]] = q.prev[s[j][k]]
  <2> DEFINE x == s[j][k]
  <2>1. x \in Slots /\ k \in 1..q.count[j]
    BY <1>1
  <2>2. Level(table[x].priority) = j
    BY <1>1, <2>1 DEF IsList
  <2>3. <<j, k>> # <<b, 1>> => x # p
    BY <1>1, <1>2 DEF NoneTwice
  <2>4. n > 1 /\ <<j, k>> # <<b, 2>> => x # q.next[p]
    BY <1>1, <1>2 DEF NoneTwice
  <2>5. m # 0 /\ <<j, k>> # <<0, m>> => x # q.tail[0]
    <3>1. ASSUME m # 0 PROVE q.tail[0] = s[0][m] /\ m \in DOMAIN s[0]
      BY <1>1, <3>1 DEF IsList
    <3> QED
      BY <1>1, <3>1 DEF NoneTwice
  <2>6. x # p => new[x] = table[x]
    BY <2>1
  <2>7. v.next[x] = IF m # 0 /\ x = q.tail[0] THEN p ELSE q.next[x]
    BY <2>1 DEF Moved
  <2>8. v.prev[x] = IF m # 0 /\ x = p THEN q.tail[0]
                    ELSE IF n > 1 /\ x = q.next[p] THEN NULL ELSE q.prev[x]
    BY <2>1 DEF Moved
  <2> HIDE DEF x
  <2>9. /\ x # p => Level(new[x].priority) = j
        /\ m # 0 /\ x # q.tail[0] => v.next[x] = q.next[x]
        /\ m = 0 => v.next[x] = q.next[x]
        /\ x # p /\ ~(n > 1 /\ x = q.next[p]) => v.prev[x] = q.prev[x]
    BY <2>2, <2>6, <2>7, <2>8
  <2> QED
    BY <2>1, <2>3, <2>4, <2>5, <2>9 DEF x
<1>4. q.prev[p] = NULL /\ v.next[p] = q.next[p] /\ (m = 0 => v.prev[p] = NULL)
  <2>1. q.prev[p] = NULL
    BY <1>1 DEF IsList
  <2>2. <<b, 1>> # <<0, m>>
    OBVIOUS
  <2>3. n > 1 => q.next[p] # p
    BY <1>1, <1>2 DEF NoneTwice
  <2> QED
    BY <1>2, <1>3, <2>1, <2>2, <2>3 DEF Moved
<1>5. CASE i = 0
  <2>1. /\ c = [k \in 1..(m + 1) |-> IF k <= m THEN s[0][k] ELSE s[b][1]]
        /\ v.count[0] = m + 1
    BY <1>1, <1>5 DEF AfterMove, Moved
  <2> HIDE DEF c
  <2>2. c \in [1..v.count[0] -> Slots]
    BY <1>1, <1>2, <2>1
  <2>3. /\ c[m + 1] = p
        /\ \A k \in 1..m : c[k] = s[0][k] /\ k \in DOMAIN s[0]
    BY <1>1, <1>2, <2>1
  <2>4. v.tail[0] = c[v.count[0]] /\ v.head[0] = c[1]
    <3>1. CASE m = 0
      BY <2>1, <2>3, <3>1 DEF Moved
    <3>2. CASE m # 0
      <4>1. 1 \in 1..m /\ q.head[0] = s[0][1]
        BY <1>1, <3>2 DEF IsList
      <4> QED
        BY <2>1, <2>3, <3>2, <4>1 DEF Moved
    <3> QED
      BY <3>1, <3>2
  <2>5. v.prev[v.head[0]] = NULL
    <3>1. CASE m = 0
      BY <1>4, <2>3, <2>4, <3>1
    <3>2. CASE m # 0
      <4>1. 1 \in 1..m /\ q.head[0] = s[0][1] /\ q.prev[s[0][1]] = NULL
        BY <1>1, <3>2 DEF IsList
      <4> QED
        BY <1>1, <1>3, <2>3, <2>4, <4>1
    <3> QED
      BY <3>1, <3>2
  <2>6. v.next[v.tail[0]] = NULL \/ v.next[v.tail[0]] = v.head[b]
    <3>1. CASE n = 1
      <4>1. q.next[q.tail[b]] = NULL
        BY <1>1 DEF IsList
      <4> QED
        BY <1>2, <1>4, <2>1, <2>3, <2>4, <3>1, <4>1
    <3>2. CASE n # 1
      <4>1. v.head[b] = q.next[p]
        BY <3>2 DEF Moved
      <4> QED
        BY <1>4, <2>1, <2>3, <2>4, <4>1
    <3> QED
      BY <3>1, <3>2
  <2>7. \A k \in 1..v.count[0] : Level(new[c[k]].priority) = 0
    <3>1. Level(new[p].priority) = 0
      BY <1>2, SchedulerConstants DEF Level, PcbType
    <3>2. ASSUME NEW k \in 1..m PROVE Level(new[c[k]].priority) = 0
      BY <1>1, <1>3, <2>3
    <3> SUFFICES ASSUME NEW k \in 1..v.count[0] PROVE Level(new[c[k]].priority) = 0
      OBVIOUS
    <3>3. k \in 1..m \/ k = m + 1
      BY <1>1, <2>1
    <3> QED
      BY <2>3, <3>1, <3>2, <3>3
  <2>8. ASSUME NEW k \in 2..v.count[0]
        PROVE  v.next[c[k - 1]] = c[k] /\ v.prev[c[k]] = c[k - 1]
    <3>1. CASE k = m + 1
      <4>1. m # 0 /\ m \in 1..m /\ k - 1 = m /\ q.tail[0] = s[0][m]
        BY <1>1, <2>1, <3>1 DEF IsList
      <4>2. c[k - 1] = q.tail[0] /\ q.tail[0] \in Slots
        BY <1>1, <2>3, <4>1
      <4> QED
        BY <1>2, <2>3, <3>1, <4>1, <4>2 DEF Moved
    <3>2. CASE k # m + 1
      <4>1. k \in 2..m /\ k \in 1..m /\ k - 1 \in 1..m /\ k - 1 # m /\ m # 0
        BY <1>1, <2>1, <3>2
      <4>2. q.next[s[0][k - 1]] = s[0][k] /\ q.prev[s[0][k]] = s[0][k - 1]
        BY <1>1, <4>1 DEF IsList
      <4> QED
        BY <1>1, <1>3, <2>3, <4>1, <4>2
    <3> QED
      BY <3>1, <3>2
  <2>9. IsList(v, new, 0, b, c)
    <3>1. v.count[0] # 0
      BY <1>1, <2>1
    <3> QED
      BY <2>4, <2>5, <2>6, <2>7, <2>8, <3>1 DEF IsList
  <2> QED
    BY <1>5, <2>2, <2>9 DEF Lists, c
<1>6. CASE i = b
  <2>1. c = [k \in 1..(n - 1) |-> s[b][k + 1]] /\ v.count[b] = n - 1
    BY <1>1, <1>6 DEF AfterMove, Moved
  <2> HIDE DEF c
  <2>2. \A k \in 1..(n - 1) : c[k] = s[b][k + 1] /\ k + 1 \in DOMAIN s[b] /\ k + 1 # 1
    BY <1>1, <2>1
  <2>3. c \in [1..v.count[b] -> Slots]
    BY <1>1, <2>1, <2>2
  <2>4. \A k \in 1..v.count[b] : Level(new[c[k]].priority) = b
    BY <1>3, <2>1, <2>2
  <2>5. ASSUME NEW k \in 2..v.count[b]
        PROVE  v.next[c[k - 1]] = c[k] /\ v.prev[c[k]] = c[k - 1]
    <3>1. /\ k \in 1..(n - 1) /\ k - 1 \in 1..(n - 1) /\ (k - 1) + 1 = k
          /\ k + 1 \in 2..n /\ (k + 1) - 1 = k /\ k + 1 # 1 /\ k + 1 # 2
      BY <1>1, <2>1
    <3>2. c[k] = s[b][k + 1] /\ c[k - 1] = s[b][k] /\ k \in DOMAIN s[b] /\ k + 1 \in DOMAIN s[b]
      BY <2>2, <3>1
    <3>3. q.next[s[b][k]] = s[b][k + 1] /\ q.prev[s[b][k + 1]] = s[b][k]
      BY <1>1, <3>1 DEF IsList
    <3> QED
      BY <1>3, <3>1, <3>2, <3>3
  <2>6. CASE n = 1
    <3>1. v.count[b] = 0 /\ v.head[b] = NULL /\ v.tail[b] = NULL
      BY <2>1, <2>6 DEF Moved
    <3> QED
      BY <1>6, <2>3, <2>4, <2>5, <3>1 DEF IsList, Lists, c
  <2>7. CASE n # 1
    <3>1. /\ 1 \in 1..(n - 1) /\ n - 1 \in 1..(n - 1) /\ (n - 1) + 1 = n /\ 1 + 1 = 2
          /\ n > 1 /\ v.count[b] # 0 /\ n \in DOMAIN s[b]
      BY <1>1, <2>1, <2>7
    <3>2. v.head[b] = q.next[p] /\ v.tail[b] = q.tail[b] /\ q.tail[b] = s[b][n]
      BY <1>1, <2>7 DEF Moved, IsList
    <3>3. v.head[b] = c[1] /\ v.tail[b] = c[v.count[b]]
      BY <1>2, <2>1, <2>2, <3>1, <3>2
    <3>4. v.prev[v.head[b]] = NULL
      <4>1. q.next[p] # p /\ q.next[p] \in Slots
        BY <1>1, <1>2, <3>1 DEF NoneTwice
      <4> QED
        BY <3>1, <3>2, <4>1 DEF Moved
    <3>5. v.next[v.tail[b]] = NULL
      <4>1. q.next[q.tail[b]] = NULL
        BY <1>1 DEF IsList
      <4> QED
        BY <1>3, <3>1, <3>2, <4>1
    <3> QED
      BY <1>6, <2>3, <2>4, <2>5, <3>1, <3>3, <3>4, <3>5 DEF IsList, Lists, c
  <2> QED
    BY <2>6, <2>7
<1>7. CASE i # 0 /\ i # b
  <2>1. /\ c = s[i] /\ v.count[i] = q.count[i] /\ v.head[i] = q.head[i] /\ v.tail[i] = q.tail[i]
    BY <1>7 DEF AfterMove, Moved
  <2>2. \A k \in 1..q.count[i] : /\ Level(new[s[i][k]].priority) = i
                                 /\ v.next[s[i][k]] = q.next[s[i][k]]
                                 /\ v.prev[s[i][k]] = q.prev[s[i][k]]
    BY <1>1, <1>3, <1>7
  <2>3. ASSUME NEW k \in 2..q.count[i]
        PROVE  v.next[s[i][k - 1]] = s[i][k] /\ v.prev[s[i][k]] = s[i][k - 1]
    <3>1. k \in 1..q.count[i] /\ k - 1 \in 1..q.count[i]
      BY <1>1
    <3>2. q.next[s[i][k - 1]] = s[i][k] /\ q.prev[s[i][k]] = s[i][k - 1]
      BY <1>1 DEF IsList
    <3> QED
      BY <2>2, <3>1, <3>2
  <2>4. CASE q.count[i] = 0
    BY <1>1, <2>1, <2>2, <2>3, <2>4 DEF IsList, Lists
  <2>5. CASE q.count[i] # 0
    <3>1. 1 \in 1..q.count[i] /\ q.count[i] \in 1..q.count[i]
      BY <1>1, <2>5
    <3>2. /\ q.head[i] = s[i][1] /\ q.tail[i] = s[i][q.count[i]]
          /\ q.prev[q.head[i]] = NULL /\ q.next[q.tail[i]] = NULL
      BY <1>1, <1>7, <2>5 DEF IsList
    <3>3. v.prev[q.head[i]] = NULL /\ v.next[q.tail[i]] = NULL
      BY <2>2, <3>1, <3>2
    <3> QED
      BY <1>1, <2>1, <2>2, <2>3, <2>5, <3>2, <3>3 DEF IsList, Lists
  <2> QED
    BY <2>4, <2>5
<1> QED
  BY <1>5, <1>6, <1>7

\* One turn of the loop of scheduler_mlfq_boost_priority keeps the queues
\* readable and everybody in his place.
LEMMA BoostTurnKeepsOrder ==
  ASSUME IInv, scheduler_mlfq_boost_priority, NEW s \in Readings(rq, pcb, boosting)
  PROVE  \E r \in Readings(rq', pcb', boosting') : Order(r) = Order(s)
<1> DEFINE b == boosting
           p == rq.head[b]
           v == Link(Unlink(rq, b), 0, p)
           new == [pcb EXCEPT ![p].priority = 0]
           r == AfterMove(rq, s, b)
<1>1. /\ rq \in QueueType(Slots) /\ pcb \in [Slots -> PcbType] /\ b \in Queues /\ b # 0
      /\ ~rq.fault /\ rq.count[b] > 0 /\ rq.count[b] \in Nat /\ rq.count[0] \in Nat
      /\ \A i \in Queues : 0 < i /\ i < b => rq.count[i] = 0
  BY QueueIndex DEF IInv, TypeOK, BoostProgress, scheduler_mlfq_boost_priority, QueueType
<1>2. /\ p = s[b][1] /\ p \in Slots
      /\ rq.count[b] = 1 <=> rq.head[b] = rq.tail[b]
      /\ rq.count[b] > 1 => rq.next[p] = s[b][2] /\ s[b][2] \in Slots
      /\ rq.head[0] = NULL <=> rq.count[0] = 0
      /\ rq.tail[0] = NULL <=> rq.count[0] = 0
  BY <1>1, ReadingEnds
<1>3. \A x \in Slots : x # NULL
  BY DEF Slots, NULL
<1>4. Moved(rq, v, b, p)
  BY <1>1, <1>2, <1>3, MovedQueues
<1>5. v \in QueueType(Slots)
  BY <1>1, <1>2, UnlinkType, LinkType, QueueIndex
<1>6. rq' = v /\ pcb' = new /\ boosting' = b
  <2> DEFINE u == [State EXCEPT !.rq = v, !.pcb = new]
  <2>1. BoostOne(State, b) = u
    BY <1>2, <1>3, StateFields DEF BoostOne
  <2>2. u.rq = v /\ u.pcb = new /\ u.boosting = b
    BY DEF State
  <2> HIDE DEF u
  <2>3. Become(u)
    BY <2>1 DEF scheduler_mlfq_boost_priority
  <2> QED
    BY <1>4, <2>2, <2>3 DEF Become, Moved
<1> HIDE DEF v, new
<1>7. \A i \in Queues : r[i] \in Lists(v, new, i, b)
  BY <1>1, <1>4, <1>5, MovedLists DEF new
<1>8. NoneTwice(r) /\ Order(r) = Order(s)
  BY <1>1, SameOrder
<1>9. r = [i \in Queues |-> r[i]]
  BY DEF AfterMove
<1> HIDE DEF r
<1>10. r \in Readings(v, new, b)
  BY <1>7, <1>8, <1>9, ReadingBuilt
<1> QED
  BY <1>6, <1>8, <1>10

\* Going on to the next queue, or out of the loop, leaves the reading as it is.
LEMMA BoostNextKeepsOrder ==
  ASSUME IInv, BoostNextQueue, NEW s \in Readings(rq, pcb, boosting)
  PROVE  /\ s \in Readings(rq', pcb', boosting')
         /\ boosting' = 0 => \A i \in Queues \ {0} : DOMAIN s[i] = {}
<1>1. /\ rq \in QueueType(Slots) /\ boosting \in Queues /\ boosting # 0 /\ rq.count[boosting] = 0
      /\ ~rq.fault
  BY DEF IInv, TypeOK, BoostNextQueue
<1>2. rq' = rq /\ pcb' = pcb
  BY <1>1 DEF BoostNextQueue, Become, State
<1>3. rq.head[boosting] = NULL
  BY <1>1, ReadingFacts DEF IsList
<1>4. /\ s = [i \in Queues |-> s[i]] /\ NoneTwice(s)
      /\ \A i \in Queues : s[i] \in Lists(rq, pcb, i, boosting)
  BY DEF Readings
<1>5. ASSUME NEW i \in Queues PROVE s[i] \in Lists(rq, pcb, i, boosting')
  BY <1>3, <1>4 DEF Lists, IsList
<1>6. s \in Readings(rq, pcb, boosting')
  BY <1>4, <1>5, ReadingBuilt
<1>7. ASSUME boosting' = 0, NEW i \in Queues \ {0} PROVE DOMAIN s[i] = {}
  <2>1. rq'.count[i] = 0
    BY <1>7, BoostNextStep
  <2>2. s[i] \in [1..0 -> Slots]
    BY <1>1, <1>2, <2>1, ReadingFacts
  <2> QED
    BY <2>2
<1> QED
  BY <1>2, <1>6, <1>7

\* The boost of any number of processes over any number of levels keeps their
\* order, if it finds their queues well linked, and ends with all of them on
\* the top queue.
THEOREM BoostOrderKept == Spec => BoostKeepsOrder
<1> DEFINE A == boosting # 0 =>
                  \A s \in Readings(rq, pcb, boosting) :
                    \E r \in Readings(rq', pcb', boosting') :
                      /\ Order(r) = Order(s)
                      /\ boosting' = 0 => \A i \in Queues \ {0} : DOMAIN r[i] = {}
<1>1. IInv /\ [Next]_vars => [A]_vars
  <2> SUFFICES ASSUME IInv, Next, boosting # 0, NEW s \in Readings(rq, pcb, boosting)
               PROVE  \E r \in Readings(rq', pcb', boosting') :
                        /\ Order(r) = Order(s)
                        /\ boosting' = 0 => \A i \in Queues \ {0} : DOMAIN r[i] = {}
    OBVIOUS
  <2>1. scheduler_mlfq_boost_priority \/ BoostNextQueue
    BY DEF Next, scheduler_create_process, scheduler_terminate_process, Yield, Schedule,
           scheduler_tick, Idle
  <2>2. CASE scheduler_mlfq_boost_priority
    BY <2>2, BoostStep, BoostTurnKeepsOrder
  <2>3. CASE BoostNextQueue
    BY <2>3, BoostNextKeepsOrder
  <2> QED
    BY <2>1, <2>2, <2>3
<1> QED
  BY <1>1, SchedulerInvariant, PTL DEF Spec, BoostKeepsOrder
=============================================================================
