------------------------------ MODULE Scheduler ------------------------------
(***************************************************************************)
(* The SparrowOS teaching scheduler, lab3-2-sparrowos-scheduler/src/       *)
(* scheduler.c, with the declarations of include/pcb.h and                 *)
(* include/scheduler.h.                                                    *)
(*                                                                         *)
(* The ready queues are the intrusive doubly linked lists of the code:     *)
(* head, tail and count per queue, next and prev inside each PCB.  Every C *)
(* function that is called from another one is an operator from a state    *)
(* record t to a state record; an entry point of the scheduler is an       *)
(* action that installs the record its function computes.                  *)
(*                                                                         *)
(* PCB fields that the code writes and never reads back (vruntime,         *)
(* time_created, time_started, time_in_queue, promotions, the registers)   *)
(* are left out.                                                           *)
(***************************************************************************)
EXTENDS Integers, FiniteSets

CONSTANTS
  MaxProcesses,     \* MAX_PROCESSES: slots of process_table
  PriorityLevels,   \* MAX_PRIORITY_LEVELS: MLFQ queues
  TimeSliceBase,    \* TIME_SLICE_BASE
  SchedType,        \* config.type
  Preemption,       \* config.enable_preemption
  MlfqLevels,       \* config.mlfq_levels
  BoostInterval,    \* config.boost_interval
  Priorities,       \* the priorities callers pass to scheduler_create_process
  Word,             \* 2^32, where the uint32_t time_slice wraps
  MaxPid,           \* bound: processes created in one behaviour
  MaxTicks,         \* bound: timer ticks in one behaviour
  MaxSwitches,      \* bound: context switches in one behaviour
  MaxCount          \* bound: the length a queue's count may reach

ASSUME SchedulerConstants ==
  /\ MaxProcesses \in Nat \ {0}
  /\ PriorityLevels \in Nat \ {0, 1}
  /\ TimeSliceBase \in Nat \ {0}
  /\ SchedType \in {"FIFO", "RR", "MLFQ", "CFS"}
  /\ Preemption \in BOOLEAN
  /\ MlfqLevels \in Nat
  /\ BoostInterval \in Nat
  /\ Priorities \subseteq Nat
  /\ Word \in Nat \ {0}
  /\ {MaxPid, MaxTicks, MaxSwitches, MaxCount} \subseteq Nat

\* The provers know nothing of ^; TLC evaluates this for the instances it checks.
ASSUME ShiftAssumption == \A i \in 0..PriorityLevels : 2^i \in Nat

NULL == 0
Slots == 1..MaxProcesses
Ptr == Slots \cup {NULL}
IsMLFQ == SchedType = "MLFQ"

\* Queue 0 stands for ready_queue when the scheduler is not an MLFQ.
Queues == IF IsMLFQ THEN 0..(PriorityLevels - 1) ELSE {0}

States == {"NEW", "READY", "RUNNING", "BLOCKED", "TERMINATED"}

VARIABLES
  rq,          \* head, tail and count of every queue, next and prev of every PCB;
               \* fault is TRUE once a list operation has dereferenced NULL
  pcb,         \* process_table without the links
  current,     \* current_process, a slot or NULL
  ticks,       \* system_ticks
  last_boost,  \* mlfq.last_boost_time
  boosting,    \* the queue scheduler_mlfq_boost_priority is emptying, 0 when it is not running
  next_pid,
  stats        \* scheduler_stats

vars == <<rq, pcb, current, ticks, last_boost, boosting,
          next_pid, stats>>

State == [rq |-> rq, pcb |-> pcb, cur |-> current, ticks |-> ticks,
          boost |-> last_boost, boosting |-> boosting, npid |-> next_pid,
          stats |-> stats]

\* Install the state t; a dereference of NULL anywhere on the way kills the kernel.
Become(t) ==
  LET r == IF t.rq.fault THEN [State EXCEPT !.rq.fault = TRUE] ELSE t
  IN  /\ rq' = r.rq
      /\ pcb' = r.pcb
      /\ current' = r.cur
      /\ ticks' = r.ticks
      /\ last_boost' = r.boost
      /\ boosting' = r.boosting
      /\ next_pid' = r.npid
      /\ stats' = r.stats

-----------------------------------------------------------------------------
\* Queue primitives, from a queue record to a queue record.

Crash(q) == [q EXCEPT !.fault = TRUE]

\* tail->next = p; p->prev = tail; tail = p, or the first element of queue i.
Link(q, i, p) ==
  LET last == q.tail[i] IN
  IF q.head[i] = NULL
  THEN [q EXCEPT !.head[i] = p, !.tail[i] = p, !.count[i] = @ + 1]
  ELSE IF last = NULL
  THEN Crash(q)
  ELSE [q EXCEPT !.next[last] = p, !.prev[p] = last, !.tail[i] = p, !.count[i] = @ + 1]

\* Take the first element of queue i off; the caller has seen count[i] > 0.
Unlink(q, i) ==
  LET first == q.head[i]
      second == q.next[first]
  IN
  IF first = q.tail[i]
  THEN [q EXCEPT !.head[i] = NULL, !.tail[i] = NULL, !.count[i] = @ - 1]
  ELSE IF first = NULL
  THEN Crash(q)
  ELSE IF second = NULL
  THEN [q EXCEPT !.head[i] = NULL, !.count[i] = @ - 1]
  ELSE [q EXCEPT !.head[i] = second, !.prev[second] = NULL, !.count[i] = @ - 1]

\* Splice p out of the list its links describe, whether or not it is on queue i.
Splice(q, i, p) ==
  LET nx == q.next[p]
      pv == q.prev[p]
      a == IF pv # NULL THEN [q EXCEPT !.next[pv] = nx] ELSE [q EXCEPT !.head[i] = nx]
      b == IF nx # NULL THEN [a EXCEPT !.prev[nx] = pv] ELSE [a EXCEPT !.tail[i] = pv]
      c == IF b.count[i] > 0 THEN [b EXCEPT !.count[i] = @ - 1] ELSE b
  IN  [c EXCEPT !.next[p] = NULL, !.prev[p] = NULL]

\* The level of a priority, clamped to the last queue.
Level(priority) == IF priority >= PriorityLevels THEN PriorityLevels - 1 ELSE priority

add_to_ready_queue(t, p) ==
  LET bare == [t.rq EXCEPT !.next[p] = NULL, !.prev[p] = NULL]
  IN  [t EXCEPT !.rq = Link(bare, IF IsMLFQ THEN Level(t.pcb[p].priority) ELSE 0, p)]

remove_from_ready_queue(t, p) ==
  IF IsMLFQ /\ t.pcb[p].priority >= PriorityLevels
  THEN t
  ELSE [t EXCEPT !.rq = Splice(t.rq, IF IsMLFQ THEN t.pcb[p].priority ELSE 0, p)]

-----------------------------------------------------------------------------
\* The three policies.  Each returns the state and the process chosen, or NULL.

scheduler_fifo_schedule(t) ==
  IF t.rq.count[0] = 0 THEN [st |-> t, chosen |-> NULL]
  ELSE [st |-> [t EXCEPT !.rq = Unlink(t.rq, 0)], chosen |-> t.rq.head[0]]

scheduler_rr_schedule(t) ==
  LET r == scheduler_fifo_schedule(t) IN
  IF r.chosen # NULL /\ t.cur # NULL /\ t.pcb[t.cur].state = "READY"
  THEN [st |-> add_to_ready_queue(r.st, t.cur), chosen |-> r.chosen]
  ELSE r

MlfqSlice(i) == IF i < MlfqLevels THEN TimeSliceBase * 2^i ELSE 0

Busy(q) == {i \in Queues : q.count[i] > 0}

\* The first queue with a positive count; its head is dereferenced unchecked.
scheduler_mlfq_schedule(t) ==
  IF Busy(t.rq) = {} THEN [st |-> t, chosen |-> NULL]
  ELSE LET i == CHOOSE x \in Busy(t.rq) : \A y \in Busy(t.rq) : x <= y
           n == t.rq.head[i]
       IN  IF n = NULL
           THEN [st |-> [t EXCEPT !.rq = Crash(@)], chosen |-> NULL]
           ELSE [st |-> [t EXCEPT !.rq = Unlink(@, i),
                                  !.pcb = [@ EXCEPT ![n].time_slice = MlfqSlice(i)]],
                 chosen |-> n]

\* The label of the third case, SCHFQ_MLFQ, is declared nowhere; it is read as
\* SCHED_MLFQ of pcb.h.
Decide(t) ==
  CASE SchedType = "RR"   -> scheduler_rr_schedule(t)
    [] SchedType = "MLFQ" -> scheduler_mlfq_schedule(t)
    [] OTHER              -> scheduler_fifo_schedule(t)

SetState(table, p, st) == [table EXCEPT ![p].state = st]

\* Mutant: the process that gives up the processor keeps its state.
RequeueStateKept(t) ==
  IF t.cur = NULL THEN t ELSE add_to_ready_queue(t, t.cur)

\* The current process goes back to a queue, READY.
Requeue(t) ==
  IF t.cur = NULL THEN t
  ELSE add_to_ready_queue([t EXCEPT !.pcb = SetState(@, t.cur, "READY")], t.cur)

\* The context switch: the current process is enqueued, the chosen one spliced out.
SwitchTo(t, n) ==
  LET u == Requeue(t)
      run == [u.pcb[n] EXCEPT !.state = "RUNNING", !.slice_used = 0]
      v == [u EXCEPT !.cur = n, !.pcb = [u.pcb EXCEPT ![n] = run],
                     !.stats = [u.stats EXCEPT !.switches = @ + 1]]
  IN  remove_from_ready_queue(v, n)

scheduler_schedule(t) ==
  LET r == Decide(t) IN
  IF r.chosen # NULL /\ r.chosen # t.cur THEN SwitchTo(r.st, r.chosen) ELSE r.st

scheduler_yield(t) == scheduler_schedule(Requeue(t))

-----------------------------------------------------------------------------
\* Entry points.

FreeSlots == {s \in Slots : pcb[s].state = "TERMINATED" \/ pcb[s].pid = 0}

find_free_pcb == CHOOSE s \in FreeSlots : \A r \in FreeSlots : s <= r

\* Everything zeroed.  The time slices that scheduler_rr_init presets are left
\* out: scheduler_create_process overwrites them.
scheduler_init ==
  [rq |-> [head |-> [i \in Queues |-> NULL], tail |-> [i \in Queues |-> NULL],
           count |-> [i \in Queues |-> 0],
           next |-> [s \in Slots |-> NULL], prev |-> [s \in Slots |-> NULL],
           fault |-> FALSE],
   pcb |-> [s \in Slots |-> [pid |-> 0, state |-> "NEW", priority |-> 0,
                             time_slice |-> 0, slice_used |-> 0, time_used |-> 0]],
   cur |-> NULL, ticks |-> 0, boost |-> 0, boosting |-> 0, npid |-> 1,
   stats |-> [switches |-> 0, completed |-> 0, runtime |-> 0]]

Init ==
  /\ rq = scheduler_init.rq
  /\ pcb = scheduler_init.pcb
  /\ current = scheduler_init.cur
  /\ ticks = scheduler_init.ticks
  /\ last_boost = scheduler_init.boost
  /\ boosting = scheduler_init.boosting
  /\ next_pid = scheduler_init.npid
  /\ stats = scheduler_init.stats

\* The kernel is inside none of the scheduler's functions, it has not crashed,
\* and the bounds leave room for one more call.
Idle ==
  /\ ~rq.fault
  /\ boosting = 0
  /\ stats.switches < MaxSwitches
  /\ \A i \in Queues : rq.count[i] < MaxCount

\* The new PCB in the first free slot; a full table is an error return.
scheduler_create_process(priority) ==
  /\ Idle
  /\ next_pid <= MaxPid
  /\ \/ /\ FreeSlots = {}
        /\ UNCHANGED vars
     \/ /\ FreeSlots # {}
        /\ LET p == find_free_pcb
               slice == (TimeSliceBase * (PriorityLevels - priority)) % Word
               new == [pid |-> next_pid, state |-> "READY", priority |-> priority,
                       time_slice |-> slice, slice_used |-> 0, time_used |-> 0]
           IN  Become(add_to_ready_queue(
                        [State EXCEPT !.npid = @ + 1, !.pcb = [pcb EXCEPT ![p] = new]], p))

\* Mutant: current_process keeps pointing at the process that was terminated.
TerminatedStaysCurrent(p) ==
  remove_from_ready_queue([State EXCEPT !.pcb = SetState(pcb, p, "TERMINATED")], p)

\* Mutant: the CPU time of the process is not added to total_runtime.
TerminatedUncounted(p) ==
  LET t == remove_from_ready_queue(
             [State EXCEPT !.pcb = SetState(pcb, p, "TERMINATED"),
                           !.stats = [stats EXCEPT !.completed = @ + 1]], p)
  IN  IF current # NULL /\ pcb[current].pid = pcb[p].pid
      THEN scheduler_schedule([t EXCEPT !.cur = NULL])
      ELSE t

\* What scheduler_terminate_process does to the process it has found.
Terminated(p) ==
  LET t == remove_from_ready_queue(
             [State EXCEPT !.pcb = SetState(pcb, p, "TERMINATED")], p)
      u == [t EXCEPT !.stats = [t.stats EXCEPT !.completed = @ + 1,
                                               !.runtime = @ + pcb[p].time_used]]
  IN  IF current # NULL /\ pcb[current].pid = pcb[p].pid
      THEN scheduler_schedule([u EXCEPT !.cur = NULL])
      ELSE u

\* A pid that names no living process is an error return.
scheduler_terminate_process(pid) ==
  LET found == {p \in Slots : pcb[p].pid = pid /\ pcb[p].state # "TERMINATED"}
  IN  /\ Idle
      /\ \/ found = {} /\ UNCHANGED vars
         \/ \E p \in found : Become(Terminated(p))

Yield ==
  /\ Idle
  /\ Become(scheduler_yield(State))

Schedule ==
  /\ Idle
  /\ Become(scheduler_schedule(State))

\* What scheduler_tick does for the running process once system_ticks has
\* advanced.  When a boost is due the tick goes on in the two Boost actions.
Charge(t) ==
  LET c == t.cur
      charged == [t.pcb[c] EXCEPT !.time_used = @ + 1, !.slice_used = @ + 1]
      u == [t EXCEPT !.pcb = [t.pcb EXCEPT ![c] = charged]]
      v == IF Preemption /\ u.pcb[c].slice_used >= u.pcb[c].time_slice
           THEN scheduler_yield(u) ELSE u
  IN  IF IsMLFQ /\ v.ticks - v.boost >= BoostInterval
      THEN [v EXCEPT !.boosting = 1]
      ELSE v

scheduler_tick ==
  /\ Idle
  /\ ticks < MaxTicks
  /\ LET t == [State EXCEPT !.ticks = @ + 1]
     IN  Become(IF current = NULL THEN t ELSE Charge(t))

\* Mutant: the tail of queue 0 is not moved on to the process appended to it.
BoostForgetsTail(t, i) ==
  LET p == t.rq.head[i]
      linked == Link(Unlink(t.rq, i), 0, p)
  IN  [t EXCEPT !.rq = [linked EXCEPT !.tail[0] = IF t.rq.head[0] = NULL THEN p
                                                  ELSE t.rq.tail[0]],
                !.pcb = [t.pcb EXCEPT ![p].priority = 0]]

\* One turn of the loop of scheduler_mlfq_boost_priority: the head of the queue
\* moves to the tail of queue 0, its own links untouched where Link leaves them.
BoostOne(t, i) ==
  LET p == t.rq.head[i] IN
  IF p = NULL
  THEN [t EXCEPT !.rq = Crash(@)]
  ELSE [t EXCEPT !.rq = Link(Unlink(t.rq, i), 0, p),
                 !.pcb = [t.pcb EXCEPT ![p].priority = 0]]

\* The loop runs inside scheduler_tick: no other entry point is enabled until
\* it is over.
scheduler_mlfq_boost_priority ==
  /\ ~rq.fault
  /\ boosting # 0
  /\ rq.count[boosting] > 0
  /\ Become(BoostOne(State, boosting))

\* Mutant: the loop variable is never advanced.
BoostStuck ==
  /\ ~rq.fault
  /\ boosting # 0
  /\ rq.count[boosting] = 0
  /\ UNCHANGED vars

\* The queue is empty: on to the next one, or back in scheduler_tick.
BoostNextQueue ==
  /\ ~rq.fault
  /\ boosting # 0
  /\ rq.count[boosting] = 0
  /\ Become(IF boosting < PriorityLevels - 1
            THEN [State EXCEPT !.boosting = @ + 1]
            ELSE [State EXCEPT !.boosting = 0, !.boost = ticks])

Next ==
  \/ \E priority \in Priorities : scheduler_create_process(priority)
  \/ \E pid \in 1..MaxPid : scheduler_terminate_process(pid)
  \/ Yield
  \/ Schedule
  \/ scheduler_tick
  \/ scheduler_mlfq_boost_priority
  \/ BoostNextQueue

Spec == Init /\ [][Next]_vars

\* The processor does not stop in the middle of scheduler_tick, so the boost
\* loop keeps running once it is entered.  Calls and ticks are never owed.
FairSpec == Spec /\ WF_vars(scheduler_mlfq_boost_priority \/ BoostNextQueue)

-----------------------------------------------------------------------------
\* Queue records whose links lead to the slots P only.
QueueType(P) ==
  [head : [Queues -> P \cup {NULL}], tail : [Queues -> P \cup {NULL}],
   count : [Queues -> Nat], next : [Slots -> P \cup {NULL}],
   prev : [Slots -> P \cup {NULL}], fault : BOOLEAN]

PcbType == [pid : Nat, state : States, priority : Nat, time_slice : Nat,
            slice_used : Nat, time_used : Nat]

StatsType == [switches : Nat, completed : Nat, runtime : Nat]

\* Every link is NULL or a slot of process_table and every counter stays a
\* natural number, whatever the queue primitives do to the lists.
TypeOK ==
  /\ rq \in QueueType(Slots)
  /\ pcb \in [Slots -> PcbType]
  /\ current \in Ptr
  /\ ticks \in Nat
  /\ last_boost \in Nat
  /\ boosting \in Queues
  /\ next_pid \in Nat \ {0}
  /\ stats \in StatsType

\* Mutual exclusion on the processor: only current_process is RUNNING, so at
\* most one process is, even though scheduler_schedule may pick a process that
\* is on a corrupted list, is linked twice or has been terminated.
RunningIsCurrent == \A p \in Slots : pcb[p].state = "RUNNING" => current = p

\* current_process never dangles: it is a process that was created and is not
\* TERMINATED, so find_free_pcb cannot hand its slot to a new process while
\* the scheduler still charges ticks to it.
CurrentAlive ==
  current # NULL => /\ pcb[current].state \in {"RUNNING", "READY"}
                    /\ pcb[current].pid # 0

\* The pid scheduler_terminate_process searches for names one process: no two
\* slots share one, and scheduler_create_process issues pids not seen before.
UniquePids ==
  /\ \A p, q \in Slots : pcb[p].pid = pcb[q].pid /\ pcb[p].pid # 0 => p = q
  /\ \A p \in Slots : pcb[p].pid < next_pid

\* The processes of queue i in order, when head, tail, count, next and prev all
\* describe one list.  While queue b is being emptied, the last process moved
\* still points at its old successor.
IsList(q, table, i, b, c) ==
  /\ IF q.count[i] = 0 THEN q.head[i] = NULL /\ q.tail[i] = NULL
     ELSE /\ q.head[i] = c[1] /\ q.tail[i] = c[q.count[i]]
          /\ q.prev[q.head[i]] = NULL
          /\ \/ q.next[q.tail[i]] = NULL
             \/ (i = 0 /\ b # 0 /\ q.next[q.tail[i]] = q.head[b])
  /\ \A k \in 1..q.count[i] : Level(table[c[k]].priority) = i
  /\ \A k \in 2..q.count[i] : q.next[c[k-1]] = c[k] /\ q.prev[c[k]] = c[k-1]

Lists(q, table, i, b) == {c \in [1..q.count[i] -> Slots] : IsList(q, table, i, b, c)}

NoneTwice(s) ==
  \A i, j \in Queues : \A k \in DOMAIN s[i], l \in DOMAIN s[j] :
    s[i][k] = s[j][l] => i = j /\ k = l

\* The readings of the linked queues as sequences: at most one, and none when a
\* count or a link is wrong or a process is linked twice.
Readings(q, table, b) ==
  {s \in [Queues -> UNION {Lists(q, table, i, b) : i \in Queues}] :
     NoneTwice(s) /\ \A i \in Queues : s[i] \in Lists(q, table, i, b)}

\* Who is served no later than whom: the queues from the top, each from its head.
Order(s) ==
  {o \in Slots \X Slots :
     \E i, j \in Queues : \E k \in DOMAIN s[i], l \in DOMAIN s[j] :
       s[i][k] = o[1] /\ s[j][l] = o[2] /\ (i < j \/ (i = j /\ k <= l))}

\* "Move all low priority processes to the highest": a boost that finds the
\* queues well linked keeps them so at every turn of its loop, loses nobody,
\* lists nobody twice, lets nobody overtake anybody, and when it returns all
\* are on the top queue, at its priority.  (Queues whose counts the double
\* decrement of scheduler_schedule has spoilt have no reading.)
BoostKeepsOrder ==
  [][boosting # 0 =>
       \A s \in Readings(rq, pcb, boosting) :
         \E r \in Readings(rq', pcb', boosting') :
           /\ Order(r) = Order(s)
           /\ boosting' = 0 => \A i \in Queues \ {0} : DOMAIN r[i] = {}]_vars

\* The loop of scheduler_mlfq_boost_priority ends, so scheduler_tick returns to
\* the interrupt handler, unless it runs into a NULL list head.
BoostReturns == (boosting # 0) ~> (boosting = 0 \/ rq.fault)

\* Only slots that scheduler_create_process has filled are linked.
Created(table) == {s \in Slots : table[s].pid # 0}
OnlyCreatedLinked == rq \in QueueType(Created(pcb))

\* The counts of the queues the boost has been through stay zero; with it the
\* conjunction below is inductive.
BoostProgress == \A i \in Queues : 0 < i /\ i < boosting => rq.count[i] = 0

\* The inductive invariant behind the properties above.
IInv ==
  /\ TypeOK
  /\ RunningIsCurrent
  /\ CurrentAlive
  /\ UniquePids
  /\ OnlyCreatedLinked
  /\ BoostProgress

-----------------------------------------------------------------------------
\* What the tests and comments of the repository say of the scheduler and the
\* code does not do.

\* tests/test_fifo.c: after the running process is terminated the second one
\* runs ("Second process not scheduled after first termination").  For that a
\* READY process must still be on a queue that scheduler_schedule looks at.
ReadyIsSchedulable ==
  ~rq.fault /\ boosting = 0 /\ current = NULL /\ (\E s \in Slots : pcb[s].state = "READY")
    => \E i \in Queues : rq.count[i] > 0 /\ rq.head[i] # NULL
=============================================================================
