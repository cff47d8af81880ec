---------------------------- MODULE MCScheduler ----------------------------
(***************************************************************************)
(* Small instances of Scheduler for TLC: a table of two or three PCBs, two *)
(* or three priority levels and slices of one or two ticks.  The policy    *)
(* and its parameters come from the configuration files.                   *)
(***************************************************************************)
EXTENDS Scheduler

\* Priorities below, at and beyond the last level, so that the clamp of
\* add_to_ready_queue and the early return of remove_from_ready_queue happen.
MCPriorities == 0..PriorityLevels
=============================================================================
