----------------------------- MODULE RpcService -----------------------------
(***************************************************************************)
(* What rpc_call of lab4-2-user-interrupt, examples/rpc_framework.c,       *)
(* promises main: calls are made one after the other, each is executed     *)
(* exactly once, and each returns, with the result of its own execution.   *)
(* Slots, flags and threads are not visible.  Rpc implements this.         *)
(***************************************************************************)
EXTENDS Integers

CONSTANTS Calls, Unknown

VARIABLES
  phase,       \* of the call in progress: "idle", "asked" or "executed"
  returned,    \* calls that have returned
  executions,  \* methods called by the server
  answer       \* what the last call returned

vars == <<phase, returned, executions, answer>>

Init ==
  /\ phase = "idle"
  /\ returned = 0
  /\ executions = 0
  /\ answer = 0

Ask ==
  /\ phase = "idle" /\ returned < Calls
  /\ phase' = "asked"
  /\ UNCHANGED <<returned, executions, answer>>

Execute ==
  /\ phase = "asked"
  /\ phase' = "executed"
  /\ executions' = executions + 1
  /\ UNCHANGED <<returned, answer>>

Return ==
  /\ phase = "executed"
  /\ phase' = "idle"
  /\ returned' = returned + 1
  /\ answer' = IF returned' \in Unknown THEN 0 ELSE returned'
  /\ UNCHANGED executions

Next == Ask \/ Execute \/ Return

Safety == Init /\ [][Next]_vars

Spec == Safety /\ WF_vars(Next)
=============================================================================
