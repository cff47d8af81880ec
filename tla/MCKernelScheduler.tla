------------------------- MODULE MCKernelScheduler -------------------------
(***************************************************************************)
(* Small instances of KernelScheduler for TLC: the idle process and one or *)
(* two more PCBs, which are reused, and a tick counter that wraps.         *)
(***************************************************************************)
EXTENDS KernelScheduler

\* The levels of an MLFQ multiply the states, so its table is the smaller one.
MCTables == [RR |-> 3, MLFQ |-> 2]
MCTableRr == [RR |-> 3]
=============================================================================
