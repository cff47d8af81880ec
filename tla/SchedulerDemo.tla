---------------------------- MODULE SchedulerDemo ----------------------------
(***************************************************************************)
(* The programs that drive the SparrowOS scheduler of module Scheduler:    *)
(* lab3-2-sparrowos-scheduler/examples/demo_simple.c, demo_advanced.c and  *)
(* src/main.c.  Each is a menu that runs demonstrations in any order; each *)
(* demonstration configures the scheduler, creates processes and then      *)
(* calls the scheduler tick by tick from a single thread.                  *)
(*                                                                         *)
(* A demonstration is written down as data, one definition per function: a *)
(* sequence of sittings, one per scheduler_init it makes.  The actions     *)
(* below carry a sitting out, one call of the scheduler per step, and every *)
(* call is the action of module Scheduler under the sitting's              *)
(* configuration.  What the programs print is left out.                    *)
(***************************************************************************)
EXTENDS Integers, Sequences, FiniteSets, FiniteSetsExt, TLC

CONSTANTS
  MaxProcesses,     \* MAX_PROCESSES
  PriorityLevels,   \* MAX_PRIORITY_LEVELS
  TimeSliceBase,    \* TIME_SLICE_BASE
  Word,             \* where the uint32_t time_slice wraps, out of reach here
  Ample             \* a bound no demonstration reaches: ticks, pids, switches, counts

VARIABLES
  rq, pcb, current, ticks, last_boost, boosting, next_pid, stats,  \* of Scheduler
  program,   \* the executable that was started
  pc,        \* where it is
  choice,    \* the variable choice of main
  input,     \* "line", or "stuck" when what scanf cannot read stays in front
  sitting,   \* which scheduler_init of the demonstration
  i,         \* the counter of the loop the demonstration is in
  handle,    \* the pointers it keeps: slot, and pid of the process it was given
  picked,    \* the local variable current of demo_fifo and demo_priority
  busy       \* history: ticks that found a current process since scheduler_init

schedVars == <<rq, pcb, current, ticks, last_boost, boosting, next_pid, stats>>
demoVars == <<program, pc, choice, input, sitting, i, handle, picked, busy>>
vars == <<rq, pcb, current, ticks, last_boost, boosting, next_pid, stats,
          program, pc, choice, input, sitting, i, handle, picked, busy>>

\* The scheduler under configuration c; its bounds are out of the way.
Sched(c) == INSTANCE Scheduler WITH
  SchedType <- c.type, Preemption <- c.preempt, MlfqLevels <- c.levels,
  BoostInterval <- c.boost, Priorities <- 0..3,
  MaxPid <- Ample, MaxTicks <- Ample, MaxSwitches <- Ample, MaxCount <- Ample

NULL == 0
Slots == 1..MaxProcesses
Unset == 0

-----------------------------------------------------------------------------
\* How a sitting is written down.

Config(type, preempt, levels, boost) ==
  [type |-> type, preempt |-> preempt, levels |-> levels, boost |-> boost]

\* After a tick whose number every divides: make the call if handle who is (or
\* whoever is) current, or RUNNING, with at least used ticks of its slice gone.
Reaction(call, test, who, every, used) ==
  [call |-> call, test |-> test, who |-> who, every |-> every, used |-> used]

Kill(k) == [call |-> "terminate", arg |-> k]
Spawn(priority) == [call |-> "create", arg |-> priority]

\* A sitting that creates processes with these priorities and, unless EXCEPT says
\* more, ticks that often and terminates what the list cleanup names.
Sitting(config, create, loops, cleanup) ==
  [config |-> config, create |-> create, loops |-> loops, cleanup |-> cleanup,
   schedules |-> FALSE,  \* scheduler_schedule before the loop
   reactions |-> {}, events |-> <<>>,
   careful |-> FALSE,    \* the clean-up tests the state first
   burst |-> 0,          \* ticks per dispatch of a loop that runs to completion
   patient |-> FALSE]    \* that loop goes on when nobody can be dispatched

-----------------------------------------------------------------------------
\* examples/demo_simple.c

\* Mutant: the loop looks for another process as long as one is not terminated.
demo_fifo_patient ==
  << [Sitting(Config("FIFO", FALSE, 0, 0), <<0, 0, 0, 0, 0>>, 0, <<>>)
        EXCEPT !.burst = 5, !.patient = TRUE] >>

\* Five processes, each dispatched, run for five ticks and terminated.
demo_fifo ==
  << [Sitting(Config("FIFO", FALSE, 0, 0), <<0, 0, 0, 0, 0>>, 0, <<>>)
        EXCEPT !.burst = 5] >>

\* Mutant: the clean-up starts at processes[0], whose PCB has a new owner.
demo_round_robin_all ==
  << [Sitting(Config("RR", TRUE, 0, 0), <<0, 0, 0>>, 60, <<1, 2, 3>>)
        EXCEPT !.events = (20 :> Kill(1)) @@ (40 :> Spawn(0)), !.careful = TRUE] >>

\* The first process is terminated at tick 20 and a late one joins at tick 40.
demo_round_robin ==
  << [Sitting(Config("RR", TRUE, 0, 0), <<0, 0, 0>>, 60, <<2, 3>>)
        EXCEPT !.events = (20 :> Kill(1)) @@ (40 :> Spawn(0)), !.careful = TRUE] >>

demo_state_transitions ==
  << [Sitting(Config("FIFO", FALSE, 0, 0), <<0>>, 10, <<1>>)
        EXCEPT !.schedules = TRUE] >>

\* The loop ends only when it has completed four processes.
demo_priority ==
  << [Sitting(Config("FIFO", FALSE, 0, 0), <<0, 2, 3, 0>>, 0, <<>>)
        EXCEPT !.burst = 3, !.patient = TRUE] >>

-----------------------------------------------------------------------------
\* examples/demo_advanced.c

\* Four workloads, three of which yield when they find themselves current; the
\* fifth process is created on the way and never terminated.
demo_mlfq_full ==
  << [Sitting(Config("MLFQ", TRUE, 4, 40), <<0, 0, 0, 0>>, 200, <<1, 2, 3>>)
        EXCEPT !.reactions = {Reaction("yield", "current", 1, 3, 0),
                              Reaction("yield", "current", 3, 4, 0),
                              Reaction("yield", "current", 2, 20, 0)},
               !.events = (80 :> Spawn(2)) @@ (120 :> Kill(4))] >>

\* The same two processes with boost_interval 0 and with a boost every 25 ticks.
demo_starvation_solution ==
  << Sitting(Config("MLFQ", TRUE, 4, 0), <<0, 3>>, 50, <<1, 2>>),
     Sitting(Config("MLFQ", TRUE, 4, 25), <<0, 3>>, 80, <<1, 2>>) >>

\* The control task yields when it has run for two ticks of its slice.
demo_real_time_simulation ==
  << [Sitting(Config("RR", TRUE, 0, 0), <<0, 1, 2, 3>>, 100, <<1, 2, 3, 4>>)
        EXCEPT !.reactions = {Reaction("yield", "running", 1, 1, 2)}] >>

\* Six workloads under each policy; the I/O tasks are the third and fourth, the
\* interactive ones the fifth and sixth.  The fields of config that are not set
\* are not read under that policy.
demo_scheduler_comparison ==
  LET Under(config) ==
        [Sitting(config, <<0, 0, 0, 0, 0, 0>>, 150, <<1, 2, 3, 4, 5, 6>>)
           EXCEPT !.reactions = {Reaction("yield", "current", k, 3, 0) : k \in {3, 4}}
                                  \cup {Reaction("yield", "current", k, 4, 0) : k \in {5, 6}}]
  IN  << Under(Config("FIFO", TRUE, 0, 0)), Under(Config("RR", TRUE, 0, 0)),
         Under(Config("MLFQ", TRUE, 4, 30)) >>

-----------------------------------------------------------------------------
\* src/main.c

\* Every fifth tick a call of scheduler_schedule, whoever is current.
test_fifo_scheduler ==
  << [Sitting(Config("FIFO", FALSE, 4, 100), <<0, 0, 0>>, 15, <<1, 2, 3>>)
        EXCEPT !.reactions = {Reaction("schedule", "always", 0, 5, 0)}] >>

test_rr_scheduler ==
  << Sitting(Config("RR", TRUE, 4, 100), <<0, 0, 0>>, 30, <<1, 2, 3>>) >>

test_mlfq_scheduler ==
  << Sitting(Config("MLFQ", TRUE, 4, 50), <<0, 2, 3>>, 100, <<1, 2, 3>>) >>

\* The interactive process yields at every fifth tick that finds it RUNNING.
integrated_test ==
  << [Sitting(Config("MLFQ", TRUE, 4, 100), <<0, 2, 3>>, 200, <<1, 2, 3>>)
        EXCEPT !.reactions = {Reaction("yield", "running", 1, 5, 0)}] >>

Programs ==
  [demo_simple   |-> <<demo_fifo, demo_round_robin, demo_state_transitions, demo_priority>>,
   demo_advanced |-> <<demo_mlfq_full, demo_starvation_solution,
                       demo_real_time_simulation, demo_scheduler_comparison>>,
   main          |-> <<test_fifo_scheduler, test_rr_scheduler, test_mlfq_scheduler,
                       integrated_test>>]

Quit == 5
Numbers == 1..6      \* 6 stands for every other number
Sittings == UNION {UNION {{Programs[p][n][k] : k \in DOMAIN Programs[p][n]} :
                            n \in 1..4} : p \in DOMAIN Programs}
Configs == {s.config : s \in Sittings}

-----------------------------------------------------------------------------
\* The menus.

Init ==
  /\ Sched(Config("FIFO", FALSE, 0, 0))!Init   \* static storage: all zero, SCHED_FIFO
  /\ program \in DOMAIN Programs
  /\ pc = IF program = "main" THEN "start" ELSE "menu"
  /\ choice = Unset
  /\ input = "line"
  /\ sitting = 1
  /\ i = 0
  /\ handle = <<>>
  /\ picked = NULL
  /\ busy = 0

\* interrupt_init and timer_init write to I/O ports, which an operating system
\* may refuse to a process and kill it.
Ports ==
  /\ pc = "start"
  /\ pc' \in {"menu", "killed"}
  /\ UNCHANGED <<schedVars, program, choice, input, sitting, i, handle, picked, busy>>

\* What choice holds when scanf has not set it: anything before the first number.
Remembered == IF choice = Unset THEN Numbers ELSE {choice}

\* The switch over choice n: a demonstration, or what follows the switch.
Select(n, after) ==
  /\ choice' = n
  /\ pc' = IF n \in 1..4 THEN "init" ELSE after
  /\ sitting' = 1
  /\ UNCHANGED <<schedVars, program, i, handle, picked, busy>>

\* demo_simple.c: a line that is no number is skipped and the loop condition
\* tested with the old choice; at the end of the input the skipping never ends.
\* Enter is waited for after every choice, Quit included.
simple_main ==
  /\ program = "demo_simple"
  /\ pc = "menu"
  /\ UNCHANGED input
  /\ \/ \E n \in Numbers : Select(n, "pause")
     \/ \E n \in Remembered :
          /\ choice' = n
          /\ pc' = IF n = Quit THEN "exit" ELSE "menu"
          /\ UNCHANGED <<schedVars, program, sitting, i, handle, picked, busy>>
     \/ pc' = "spin" /\ UNCHANGED <<schedVars, program, choice, sitting, i, handle, picked, busy>>

\* demo_advanced.c: the same, without the wait after Quit.
advanced_main ==
  /\ program = "demo_advanced"
  /\ pc = "menu"
  /\ UNCHANGED input
  /\ \/ \E n \in Numbers : Select(n, IF n = Quit THEN "exit" ELSE "pause")
     \/ \E n \in Remembered :
          /\ choice' = n
          /\ pc' = IF n = Quit THEN "exit" ELSE "menu"
          /\ UNCHANGED <<schedVars, program, sitting, i, handle, picked, busy>>
     \/ pc' = "spin" /\ UNCHANGED <<schedVars, program, choice, sitting, i, handle, picked, busy>>

\* src/main.c ignores the result of scanf: what is no number, or the end of the
\* input, stays in front, and the old choice is carried out again and again.
main ==
  /\ program = "main"
  /\ pc = "menu"
  /\ \/ /\ input = "line"
        /\ \E n \in Numbers : Select(n, IF n = Quit THEN "exit" ELSE "menu")
        /\ UNCHANGED input
     \/ /\ input' = "stuck"
        /\ \E n \in Remembered : Select(n, IF n = Quit THEN "exit" ELSE "menu")

\* The rest of the line is skipped, without end if the input has ended, and one
\* more character awaited.
Pause ==
  /\ pc = "pause"
  /\ pc' \in {IF choice = Quit THEN "exit" ELSE "menu", "spin"}
  /\ UNCHANGED <<schedVars, program, choice, input, sitting, i, handle, picked, busy>>

-----------------------------------------------------------------------------
\* Carrying out a demonstration.

Running == pc \in {"init", "create", "schedule", "tick", "react", "event",
                   "pick", "burst", "finish", "cleanup", "done"}
Demo == Programs[program][choice]
Here == Demo[sitting]

Go(label) == pc' = label /\ UNCHANGED <<program, choice, input>>

AfterCreate == IF Here.burst > 0 THEN "pick"
               ELSE IF Here.schedules THEN "schedule" ELSE "tick"

AfterLoop == IF Here.cleanup = <<>> THEN "done" ELSE "cleanup"

\* The process of handle k, and the pid a demonstration reads through it.
Pcb(k) == pcb[handle[k].slot]

StartSitting(c) ==
  /\ pc = "init"
  /\ Sched(c)!Become(Sched(c)!scheduler_init)
  /\ Go("create")
  /\ i' = 0 /\ handle' = <<>> /\ picked' = NULL /\ busy' = 0
  /\ UNCHANGED sitting

CreateNext(c) ==
  /\ pc = "create"
  /\ Sched(c)!scheduler_create_process(Here.create[i + 1])
  /\ handle' = Append(handle, [slot |-> Sched(c)!find_free_pcb, pid |-> next_pid])
  /\ IF i + 1 < Len(Here.create)
     THEN Go("create") /\ i' = i + 1
     ELSE Go(AfterCreate) /\ i' = 0
  /\ UNCHANGED <<sitting, picked, busy>>

ScheduleOnce(c) ==
  /\ pc = "schedule"
  /\ Sched(c)!Schedule
  /\ Go("tick")
  /\ UNCHANGED <<sitting, i, handle, picked, busy>>

TickOnce(c) ==
  /\ pc = "tick"
  /\ Sched(c)!scheduler_tick
  /\ busy' = IF current = NULL THEN busy ELSE busy + 1
  /\ Go("react")
  /\ UNCHANGED <<sitting, i, handle, picked>>

Applies(r) ==
  /\ i % r.every = 0
  /\ r.test = "current" => current = handle[r.who].slot
  /\ r.test = "running" => Pcb(r.who).state = "RUNNING" /\ Pcb(r.who).slice_used >= r.used

\* At most one reaction applies: they are about different processes, of which
\* one is current.
React(c) ==
  LET due == {r \in Here.reactions : Applies(r)} IN
  /\ pc = "react"
  /\ Sched(c)!Idle
  /\ Sched(c)!Become(CASE due = {} -> Sched(c)!State
                       [] \E r \in due : r.call = "schedule" ->
                            Sched(c)!scheduler_schedule(Sched(c)!State)
                       [] OTHER -> Sched(c)!scheduler_yield(Sched(c)!State))
  /\ Go("event")
  /\ UNCHANGED <<sitting, i, handle, picked, busy>>

\* A process created on the way is nobody's handle.
Event(c) ==
  /\ pc = "event"
  /\ IF i \notin DOMAIN Here.events THEN UNCHANGED schedVars
     ELSE LET e == Here.events[i] IN
          IF e.call = "create"
          THEN Sched(c)!scheduler_create_process(e.arg)
          ELSE Sched(c)!scheduler_terminate_process(Pcb(e.arg).pid)
  /\ IF i + 1 < Here.loops
     THEN Go("tick") /\ i' = i + 1
     ELSE Go(AfterLoop) /\ i' = 0
  /\ UNCHANGED <<sitting, handle, picked, busy>>

-----------------------------------------------------------------------------
\* The loops that run processes to completion: demo_fifo tests whether all are
\* TERMINATED, demo_priority counts the ones it has terminated.

Finished ==
  IF Here.patient THEN i \div Here.burst >= Len(Here.create)
  ELSE \A k \in DOMAIN handle : Pcb(k).state = "TERMINATED"

Pick(c) ==
  /\ pc = "pick"
  /\ IF Finished
     THEN Go("done") /\ UNCHANGED <<schedVars, picked>>
     ELSE /\ Sched(c)!Schedule
          /\ picked' = current'
          /\ Go(IF current' # NULL THEN "burst" ELSE IF Here.patient THEN "pick" ELSE "done")
  /\ UNCHANGED <<sitting, i, handle, busy>>

Burst(c) ==
  /\ pc = "burst"
  /\ Sched(c)!scheduler_tick
  /\ busy' = IF current = NULL THEN busy ELSE busy + 1
  /\ i' = i + 1
  /\ Go(IF i' % Here.burst = 0 THEN "finish" ELSE "burst")
  /\ UNCHANGED <<sitting, handle, picked>>

Finish(c) ==
  /\ pc = "finish"
  /\ Sched(c)!scheduler_terminate_process(pcb[picked].pid)
  /\ Go("pick")
  /\ UNCHANGED <<sitting, i, handle, picked, busy>>

-----------------------------------------------------------------------------
Cleanup(c) ==
  LET k == Here.cleanup[i + 1] IN
  /\ pc = "cleanup"
  /\ IF Here.careful /\ Pcb(k).state = "TERMINATED"
     THEN UNCHANGED schedVars
     ELSE Sched(c)!scheduler_terminate_process(Pcb(k).pid)
  /\ i' = i + 1
  /\ Go(IF i' = Len(Here.cleanup) THEN "done" ELSE "cleanup")
  /\ UNCHANGED <<sitting, handle, picked, busy>>

\* The next scheduler_init of the demonstration, or back to the menu.
Done ==
  /\ pc = "done"
  /\ IF sitting < Len(Demo)
     THEN sitting' = sitting + 1 /\ Go("init")
     ELSE /\ Go(IF program = "main" THEN "menu" ELSE "pause")
          /\ UNCHANGED sitting
  /\ UNCHANGED <<schedVars, i, handle, picked, busy>>

\* One step of the demonstration that is running.
Proceed ==
  \/ \E c \in Configs :
       /\ Running /\ c = Here.config
       /\ \/ StartSitting(c) \/ CreateNext(c) \/ ScheduleOnce(c) \/ TickOnce(c)
          \/ React(c) \/ Event(c) \/ Pick(c) \/ Burst(c) \/ Finish(c) \/ Cleanup(c)
  \/ Done

Next == Ports \/ simple_main \/ advanced_main \/ main \/ Pause \/ Proceed

\* The program is one thread that is not suspended inside a demonstration; what
\* the user types, and when, is not promised.
Spec == Init /\ [][Next]_vars /\ WF_vars(Proceed)

-----------------------------------------------------------------------------
Sum(f) == MapThenSumSet(LAMBDA s : f[s].time_used, {s \in Slots : f[s].state # "TERMINATED"})

\* No tick is lost or counted twice: what the scheduler has added to
\* total_runtime for terminated processes and what the living ones have used
\* together are the ticks that found a current process, also when a slot has
\* been reused or a process is terminated through a stale queue.
TimeAccounted == Running /\ pc # "init" => stats.runtime + Sum(pcb) = busy

\* The pid a demonstration passes to scheduler_terminate_process is read through
\* a pointer into process_table, and the slot may have been given to another
\* process meanwhile (find_free_pcb): no step terminates a process other than
\* one that the demonstration created at its start and still refers to.
TerminatesItsOwn ==
  [][\A s \in Slots :
       Running /\ pcb[s].state # "TERMINATED" /\ pcb'[s].state = "TERMINATED" =>
         \E k \in DOMAIN handle : handle[k] = [slot |-> s, pid |-> pcb[s].pid]]_vars

\* Every demonstration comes back to its menu: although the queue of the FIFO
\* scheduler loses its members, no loop waits for them and no list operation
\* dereferences NULL.  demo_priority is the exception; its loop counts
\* completions that never come.
DemosReturn ==
  (Running /\ Demo # demo_priority) ~> (pc \in {"menu", "pause"})
=============================================================================
