--------------------------- MODULE KernelScheduler ---------------------------
(***************************************************************************)
(* The SparrowOS kernel scheduler, lab3-2-sparrowos-scheduler/kernel/core/ *)
(* scheduler.c: processes that block, sleep, are woken, terminated and     *)
(* reaped, and a timer interrupt that preempts them.                       *)
(*                                                                         *)
(* One processor.  A critical section under scheduler_lock is one step;    *)
(* scheduler_yield, scheduler_block_process and scheduler_sleep_process    *)
(* unlock and only then call scheduler_schedule, so each is two steps and  *)
(* interrupts come between them.  The set calls holds the processes that   *)
(* are between the two.  A process that is switched out there makes its    *)
(* call when it runs again.                                                *)
(*                                                                         *)
(* The queue, PCB and lock primitives are declared in src/pcb.h and        *)
(* defined nowhere; they are modelled from how scheduler.c uses them:      *)
(* queues of nodes that refer to PCBs, FIFO order, remove takes the first  *)
(* node out.  scheduler_lock keeps interrupts off.  Statistics, names,     *)
(* registers and the process tree are left out.                            *)
(***************************************************************************)
EXTENDS Integers, Sequences, SequencesExt

CONSTANTS
  MaxProcesses,       \* MAX_PROCESSES, for each scheduler type to be checked
  PriorityLevels,     \* MAX_PRIORITY_LEVELS
  Preemption,         \* config.enable_preemption
  TimeSlice,          \* what calculate_time_slice returns, for every priority
  DemotionThreshold,  \* mlfq.demotion_threshold
  Word,               \* 2^32, where system_ticks and deadlines wrap
  Priorities,         \* the priorities callers pass
  SleepTimes,         \* the ticks callers sleep for
  MaxPid,             \* bound: processes created, the idle one included
  MaxNodes            \* bound: queue nodes in use before a call may add one

ASSUME KernelConstants ==
  /\ DOMAIN MaxProcesses \subseteq {"FIFO", "RR", "MLFQ"}
  /\ \A type \in DOMAIN MaxProcesses : MaxProcesses[type] \in Nat \ {0}
  /\ PriorityLevels \in Nat \ {0}
  /\ Preemption \in BOOLEAN
  /\ TimeSlice \in Nat \ {0}
  /\ DemotionThreshold \in Nat \ {0}
  /\ Word \in Nat \ {0, 1}
  /\ Priorities \subseteq 0..(PriorityLevels - 1)
  /\ SleepTimes \subseteq Nat
  /\ MaxPid \in Nat /\ MaxNodes \in Nat

NULL == 0
IdleProcess == 1        \* the first PCB that pcb_alloc hands out

States == {"NEW", "READY", "RUNNING", "BLOCKED", "SLEEPING", "ZOMBIE", "TERMINATED"}

VARIABLES
  sched_type, \* config.scheduler_type, fixed by scheduler_init
  pcb,       \* process_table; pid 0 marks a PCB that is not allocated
  ready,     \* the ready queue, or the queues of the MLFQ
  wait_queue, sleep_queue,
  current,   \* current_process
  resched,   \* need_reschedule
  ticks,     \* system_ticks
  next_pid,
  calls,     \* processes that have unlocked and not yet called scheduler_schedule
  orderly    \* history: no process has been terminated while it waited, and
             \* scheduler_schedule has not dequeued the process that called it

vars == <<sched_type, pcb, ready, wait_queue, sleep_queue, current, resched, ticks, next_pid,
          calls, orderly>>

Slots == 1..MaxProcesses[sched_type]
IsMLFQ == sched_type = "MLFQ"

\* Queue 0 is ready_queue when the scheduler is not an MLFQ.
Queues == IF IsMLFQ THEN 0..(PriorityLevels - 1) ELSE {0}

-----------------------------------------------------------------------------
\* pcb.h, as used here.

Blank == [pid |-> 0, state |-> "NEW", level |-> 0, slice_used |-> 0,
          in_queue |-> 0, deadline |-> 0]

FreePcbs == {s \in Slots : pcb[s].pid = 0}
pcb_alloc == CHOOSE s \in FreePcbs : \A r \in FreePcbs : s <= r

process_table_find(pid) == {s \in Slots : pcb[s].pid = pid}

pcb_set_state(table, p, st) == [table EXCEPT ![p].state = st]

\* One level down, and the time in the queue starts again.
mlfq_adjust_priority(b) ==
  [b EXCEPT !.level = IF @ < PriorityLevels - 1 THEN @ + 1 ELSE @, !.in_queue = 0]

-----------------------------------------------------------------------------
\* Ready queues.

QueueOf(table, p) == IF IsMLFQ THEN table[p].level ELSE 0

\* Only a READY process is added.
add_to_ready_queue_internal(q, table, p) ==
  IF table[p].state # "READY" THEN q
  ELSE [q EXCEPT ![QueueOf(table, p)] = Append(@, p)]

\* For the MLFQ the code removes nothing.
remove_from_ready_queue_internal(q, p) ==
  IF IsMLFQ THEN q ELSE [q EXCEPT ![0] = RemoveFirst(@, p)]

NonEmpty(q) == {i \in Queues : q[i] # <<>>}
First(q) == CHOOSE i \in NonEmpty(q) : \A j \in NonEmpty(q) : i <= j

\* The process that get_next_process dequeues, or NULL, and what it leaves.
get_next_process(q) ==
  IF NonEmpty(q) = {} THEN [chosen |-> NULL, left |-> q]
  ELSE [chosen |-> Head(q[First(q)]), left |-> [q EXCEPT ![First(q)] = Tail(@)]]

\* Mutant: the process that is switched out keeps its state.
ScheduleStateKept(t) ==
  LET got == get_next_process(t.ready)
      next == IF got.chosen = NULL THEN IdleProcess ELSE got.chosen
  IN  IF t.cur = next THEN [t EXCEPT !.ready = got.left]
      ELSE [t EXCEPT !.pcb = pcb_set_state(@, next, "RUNNING"), !.ready = got.left,
                     !.cur = next, !.resched = FALSE]

\* scheduler_schedule, from and to records of what it reads and writes.  The
\* current process is put back only after the next one has been chosen, and
\* only if it is RUNNING.  Without a switch need_reschedule stays as it was.
scheduler_schedule(t) ==
  LET got == get_next_process(t.ready)
      next == IF got.chosen = NULL THEN IdleProcess ELSE got.chosen
      c == t.cur
      back == c # NULL /\ c # IdleProcess /\ t.pcb[c].state = "RUNNING"
      table == IF back THEN pcb_set_state(t.pcb, c, "READY") ELSE t.pcb
      queue == IF back THEN add_to_ready_queue_internal(got.left, table, c) ELSE got.left
  IN  IF c = next THEN [t EXCEPT !.ready = got.left, !.orderly = @ /\ c = IdleProcess]
      ELSE [pcb |-> [table EXCEPT ![next].state = "RUNNING", ![next].slice_used = 0],
            ready |-> remove_from_ready_queue_internal(queue, next),
            cur |-> next,
            resched |-> FALSE,
            orderly |-> t.orderly]

Here == [pcb |-> pcb, ready |-> ready, cur |-> current, resched |-> resched,
         orderly |-> orderly]

Become(t) ==
  /\ pcb' = t.pcb
  /\ ready' = t.ready
  /\ current' = t.cur
  /\ resched' = t.resched
  /\ orderly' = t.orderly

-----------------------------------------------------------------------------
\* scheduler_init: the idle process is created like any other, so it is on a
\* ready queue and current at once.
Init ==
  /\ sched_type \in DOMAIN MaxProcesses
  /\ pcb = [s \in Slots |->
              IF s = IdleProcess
              THEN [Blank EXCEPT !.pid = 1, !.state = "RUNNING", !.level = PriorityLevels - 1]
              ELSE Blank]
  /\ ready = [i \in Queues |->
                IF i = (IF IsMLFQ THEN PriorityLevels - 1 ELSE 0) THEN <<IdleProcess>> ELSE <<>>]
  /\ wait_queue = <<>>
  /\ sleep_queue = <<>>
  /\ current = IdleProcess
  /\ resched = FALSE
  /\ ticks = 0
  /\ next_pid = 2
  /\ calls = {}
  /\ orderly = TRUE

\* The running process, the idle loop or what is left of a terminated process
\* is not inside a call of the scheduler and may make one.
MayCall == current \notin calls

\* The process that calls is a process of its own: not idle, not terminated.
CallerIsProcess == current # NULL /\ current # IdleProcess

\* The bound on the queues, for the calls that add a node.
Room ==
  /\ Len(wait_queue) < MaxNodes
  /\ Len(sleep_queue) < MaxNodes
  /\ \A i \in Queues : Len(ready[i]) < MaxNodes

\* Callers name processes they have created, not the idle process.
Pids == 2..MaxPid

\* A full table is an error return.
scheduler_create_process(priority) ==
  /\ MayCall /\ Room
  /\ next_pid \in Pids
  /\ FreePcbs # {}
  /\ LET p == pcb_alloc
         table == [pcb EXCEPT ![p] = [Blank EXCEPT !.pid = next_pid, !.state = "READY",
                                        !.level = IF IsMLFQ THEN priority ELSE 0]]
     IN  /\ pcb' = table
         /\ ready' = add_to_ready_queue_internal(ready, table, p)
         /\ calls' = calls \ {p}
  /\ next_pid' = next_pid + 1
  /\ UNCHANGED <<wait_queue, sleep_queue, current, resched, ticks, orderly>>

\* Mutant: the PCB does not leave the ready queue.
TerminateStaysReady(pid) ==
  /\ MayCall
  /\ \E p \in process_table_find(pid) :
       /\ pcb[p].state \notin {"TERMINATED", "ZOMBIE"}
       /\ pcb' = pcb_set_state(pcb, p, "ZOMBIE")
       /\ current' = IF p = current THEN NULL ELSE current
       /\ resched' = (resched \/ p = current)
       /\ orderly' = (orderly /\ pcb[p].state \notin {"BLOCKED", "SLEEPING"})
  /\ UNCHANGED <<ready, wait_queue, sleep_queue, ticks, next_pid, calls>>

\* The PCB leaves the ready queue only; on the wait and sleep queues it stays.
scheduler_terminate_process(pid) ==
  /\ MayCall
  /\ \E p \in process_table_find(pid) :
       /\ pcb[p].state \notin {"TERMINATED", "ZOMBIE"}
       /\ ready' = remove_from_ready_queue_internal(ready, p)
       /\ pcb' = pcb_set_state(pcb, p, "ZOMBIE")
       /\ current' = IF p = current THEN NULL ELSE current
       /\ resched' = (resched \/ p = current)
       /\ orderly' = (orderly /\ pcb[p].state \notin {"BLOCKED", "SLEEPING"})
  /\ UNCHANGED <<wait_queue, sleep_queue, ticks, next_pid, calls>>

scheduler_reap_process(pid) ==
  /\ MayCall
  /\ \E p \in process_table_find(pid) :
       /\ pcb[p].state = "ZOMBIE"
       /\ pcb' = [pcb EXCEPT ![p].state = "TERMINATED", ![p].pid = 0]
  /\ UNCHANGED <<ready, wait_queue, sleep_queue, current, resched, ticks, next_pid,
                 calls, orderly>>

Schedule ==
  /\ MayCall
  /\ Become(scheduler_schedule(Here))
  /\ UNCHANGED <<wait_queue, sleep_queue, ticks, next_pid, calls>>

\* The call of scheduler_schedule that ends yield, block and sleep.
ScheduleAfterUnlock ==
  /\ current \in calls
  /\ Become(scheduler_schedule(Here))
  /\ calls' = calls \ {current}
  /\ UNCHANGED <<wait_queue, sleep_queue, ticks, next_pid>>

\* The first half of the three calls, up to the unlock.
Unlocking ==
  /\ MayCall /\ CallerIsProcess
  /\ resched' = TRUE
  /\ calls' = calls \cup {current}
  /\ UNCHANGED <<ready, current, ticks, next_pid, orderly>>

scheduler_yield ==
  /\ Unlocking
  /\ pcb' = [pcb EXCEPT ![current].in_queue = 0]
  /\ UNCHANGED <<wait_queue, sleep_queue>>

scheduler_block_process ==
  /\ Unlocking /\ Room
  /\ pcb' = pcb_set_state(pcb, current, "BLOCKED")
  /\ wait_queue' = Append(wait_queue, current)
  /\ UNCHANGED sleep_queue

scheduler_sleep_process(n) ==
  /\ Unlocking /\ Room
  /\ pcb' = [pcb EXCEPT ![current].state = "SLEEPING",
                        ![current].deadline = (ticks + n) % Word]
  /\ sleep_queue' = Append(sleep_queue, current)
  /\ UNCHANGED wait_queue

\* Mutant: the process is taken off the wait queue and stays BLOCKED.
WakeupStateKept(pid) ==
  /\ \E p \in process_table_find(pid) :
       /\ Contains(wait_queue, p)
       /\ wait_queue' = RemoveFirst(wait_queue, p)
       /\ ready' = add_to_ready_queue_internal(ready, pcb, p)
  /\ UNCHANGED <<pcb, sleep_queue, current, resched, ticks, next_pid, calls, orderly>>

\* The process of the first node with this pid becomes READY, whatever it was.
\* Device interrupts call this too, so MayCall is not asked for.
scheduler_wakeup_process(pid) ==
  /\ \E p \in process_table_find(pid) :
       /\ Contains(wait_queue, p)
       /\ wait_queue' = RemoveFirst(wait_queue, p)
       /\ pcb' = pcb_set_state(pcb, p, "READY")
       /\ ready' = add_to_ready_queue_internal(ready, pcb', p)
  /\ UNCHANGED <<sleep_queue, current, resched, ticks, next_pid, calls, orderly>>

\* Mutant: the process is added to its queue and not taken off first.
SetPriorityAddsOnly(pid) ==
  /\ MayCall /\ Room
  /\ \E p \in process_table_find(pid) :
       /\ pcb[p].state = "READY"
       /\ ready' = add_to_ready_queue_internal(ready, pcb, p)
  /\ UNCHANGED <<pcb, wait_queue, sleep_queue, current, resched, ticks, next_pid,
                 calls, orderly>>

\* A READY process is moved to the end of its queue, which is that of its
\* queue_level and not of its new priority.
scheduler_set_priority(pid) ==
  /\ MayCall /\ Room
  /\ \E p \in process_table_find(pid) :
       /\ pcb[p].state = "READY"
       /\ ready' = add_to_ready_queue_internal(
                     remove_from_ready_queue_internal(ready, p), pcb, p)
  /\ UNCHANGED <<pcb, wait_queue, sleep_queue, current, resched, ticks, next_pid,
                 calls, orderly>>

\* The running process is charged for a tick.  slice_used stops at TimeSlice,
\* beyond which no test tells its values apart.
Charged(b) ==
  LET c == [b EXCEPT !.slice_used = IF @ < TimeSlice THEN @ + 1 ELSE @]
  IN  IF ~IsMLFQ THEN c
      ELSE IF c.in_queue + 1 >= DemotionThreshold
      THEN mlfq_adjust_priority(c)
      ELSE [c EXCEPT !.in_queue = @ + 1]

update_process_times ==
  IF CallerIsProcess THEN [pcb EXCEPT ![current] = Charged(@)] ELSE pcb

\* Mutant: a process is woken one tick late.
DueLate(table, now, p) == now > table[p].deadline

Due(table, now, p) == now >= table[p].deadline

\* The nodes of a queue that are in S, in queue order.  A recursive function and
\* not SelectSeq, whose test no proof can instantiate.
NodesIn(q, S) ==
  LET kept[n \in 0..Len(q)] == IF n = 0 THEN <<>>
                               ELSE IF q[n] \in S THEN Append(kept[n - 1], q[n])
                               ELSE kept[n - 1]
  IN  kept[Len(q)]

\* The nodes of sleep_queue whose deadline has passed, and the rest.
Expired(table, now) == NodesIn(sleep_queue, {p \in Slots : Due(table, now, p)})
Asleep(table, now) == NodesIn(sleep_queue, {p \in Slots : ~Due(table, now, p)})

\* check_sleeping_processes: they become READY and join their queues.
Awake(table, woken) ==
  [s \in Slots |-> IF Contains(woken, s) THEN [table[s] EXCEPT !.state = "READY"] ELSE table[s]]

scheduler_tick_handler ==
  LET now == (ticks + 1) % Word
      charged == update_process_times
      woken == Expired(charged, now)
      table == Awake(charged, woken)
      queues == [i \in Queues |->
                   ready[i] \o NodesIn(woken, {p \in Slots : QueueOf(table, p) = i})]
      due == \/ resched
             \/ /\ current # NULL
                /\ Preemption
                /\ table[current].slice_used >= TimeSlice
      t == [pcb |-> table, ready |-> queues, cur |-> current, resched |-> due,
            orderly |-> orderly]
  IN
  /\ ticks' = now
  /\ sleep_queue' = Asleep(charged, now)
  /\ Become(IF due THEN scheduler_schedule(t) ELSE t)
  /\ UNCHANGED <<wait_queue, next_pid, calls>>

Next ==
  /\ UNCHANGED sched_type
  /\ \/ \E priority \in Priorities : scheduler_create_process(priority)
     \/ \E pid \in Pids : scheduler_terminate_process(pid)
     \/ \E pid \in Pids : scheduler_reap_process(pid)
     \/ \E pid \in Pids : scheduler_wakeup_process(pid)
     \/ \E pid \in Pids : scheduler_set_priority(pid)
     \/ \E n \in SleepTimes : scheduler_sleep_process(n)
     \/ scheduler_yield
     \/ scheduler_block_process
     \/ Schedule
     \/ ScheduleAfterUnlock
     \/ scheduler_tick_handler

Spec == Init /\ [][Next]_vars

\* The timer never stops: the interrupt is always enabled, so that system_ticks
\* changes again and again is weak fairness of scheduler_tick_handler, the only
\* action that changes it.  Nothing else is owed to anybody.
FairSpec == Spec /\ []<><<ticks' # ticks>>_ticks

-----------------------------------------------------------------------------
PcbType == [pid : Nat, state : States, level : 0..(PriorityLevels - 1),
            slice_used : 0..TimeSlice, in_queue : 0..DemotionThreshold,
            deadline : 0..(Word - 1)]

\* Queues hold PCBs, and every field keeps its range.
TypeOK ==
  /\ sched_type \in DOMAIN MaxProcesses
  /\ pcb \in [Slots -> PcbType]
  /\ ready \in [Queues -> Seq(Slots)]
  /\ wait_queue \in Seq(Slots)
  /\ sleep_queue \in Seq(Slots)
  /\ current \in Slots \cup {NULL}
  /\ resched \in BOOLEAN
  /\ ticks \in 0..(Word - 1)
  /\ next_pid \in Nat
  /\ calls \subseteq Slots
  /\ orderly \in BOOLEAN

\* One process has the processor: a RUNNING process is current_process, except
\* that the idle process stays RUNNING for ever.
RunningIsCurrent ==
  \A p \in Slots : pcb[p].state = "RUNNING" => p = current \/ p = IdleProcess

\* No wakeup is lost: a BLOCKED process is on the wait queue, where
\* scheduler_wakeup_process finds it, and a SLEEPING one on the sleep queue,
\* where the tick finds it, even when interrupts come between the unlock of
\* scheduler_block_process and its call of scheduler_schedule, and when PCBs
\* of terminated processes are reused while nodes still refer to them.
WaitersFindable ==
  \A p \in Slots : /\ pcb[p].state = "BLOCKED" => Contains(wait_queue, p)
                   /\ pcb[p].state = "SLEEPING" => Contains(sleep_queue, p)

\* Both follow from themselves: an inductive invariant.
IInv == TypeOK /\ RunningIsCurrent /\ WaitersFindable

\* With one ready queue, and as long as nobody terminates a process that waits
\* and no wakeup overtakes the switch of the process that blocks, the queues are
\* what docs/theory.md says: READY processes are on the ready queue, BLOCKED ones
\* on the wait queue and SLEEPING ones on the sleep queue, once, and nothing else
\* is, but for the idle process at first.  No process is lost and none runs that
\* should not.
Holds(q, st) ==
  /\ \A i \in DOMAIN q : q[i] # IdleProcess => pcb[q[i]].state = st
  /\ \A p \in Slots : pcb[p].state = st => Contains(q, p)
  /\ \A i, j \in DOMAIN q : q[i] = q[j] => i = j

QueuesMatchStates ==
  orderly /\ ~IsMLFQ => /\ Holds(ready[0], "READY")
                        /\ Holds(wait_queue, "BLOCKED")
                        /\ Holds(sleep_queue, "SLEEPING")

\* What QueuesMatchStates rests on: the idle process keeps its PCB and never
\* waits; and in order, exactly the PCBs that were never used or have been reaped
\* are free, and a process outside the scheduler's calls is RUNNING.
IdleKept ==
  /\ pcb[IdleProcess].pid = 1 /\ pcb[IdleProcess].state = "RUNNING"
  /\ ~Contains(sleep_queue, IdleProcess)
  /\ next_pid >= 2

FreeAndRunning ==
  orderly /\ ~IsMLFQ =>
    /\ \A p \in Slots : pcb[p].pid = 0 <=> pcb[p].state \in {"NEW", "TERMINATED"}
    /\ current # NULL => /\ pcb[current].pid # 0 /\ pcb[current].state # "ZOMBIE"
                         /\ current \notin calls => pcb[current].state = "RUNNING"

OrderIInv == IInv /\ IdleKept /\ FreeAndRunning /\ QueuesMatchStates

\* The life of a process, a move per assignment to its state; a tick may wake and
\* dispatch in one step.
Moves ==
  {<<"NEW", "READY">>, <<"READY", "RUNNING">>, <<"RUNNING", "READY">>,
   <<"RUNNING", "BLOCKED">>, <<"BLOCKED", "READY">>, <<"RUNNING", "SLEEPING">>,
   <<"SLEEPING", "READY">>, <<"SLEEPING", "RUNNING">>,
   <<"READY", "ZOMBIE">>, <<"RUNNING", "ZOMBIE">>, <<"BLOCKED", "ZOMBIE">>,
   <<"SLEEPING", "ZOMBIE">>, <<"ZOMBIE", "TERMINATED">>, <<"TERMINATED", "READY">>}

Follows(p) == pcb'[p].state = pcb[p].state \/ <<pcb[p].state, pcb'[p].state>> \in Moves

\* As long as no call was out of order, every step takes every process along one
\* of the moves or leaves it: only a RUNNING process blocks or sleeps, only a
\* waiting one is woken, and a ZOMBIE is only ever reaped, whatever node still
\* refers to its PCB and wherever the timer interrupt comes between the unlock of
\* yield, block or sleep and its scheduler_schedule.
OrderlyLife == [][orderly /\ ~IsMLFQ => \A p \in Slots : Follows(p)]_vars

\* A sleeping process wakes up: the tick handler skips no node of the sleep
\* queue, and a deadline that wraps round is passed all the same.
Sleeping(type, p) == sched_type = type /\ pcb[p].state = "SLEEPING"

SleepersWake ==
  \A type \in DOMAIN MaxProcesses : \A p \in 1..MaxProcesses[type] \ {IdleProcess} :
    Sleeping(type, p) ~> ~Sleeping(type, p)

-----------------------------------------------------------------------------
\* What the comments and documents of the repository say of the scheduler and
\* the code does not do.

\* kernel/core/scheduler.c, scheduler_terminate_process takes the process off
\* the scheduling queues; so a zombie is reaped and never runs again.
ZombieIsFinal ==
  [][\A p \in Slots : pcb[p].state = "ZOMBIE" => pcb'[p].state \in {"ZOMBIE", "TERMINATED"}]_vars
=============================================================================
