--------------------------------- MODULE Rpc ---------------------------------
(***************************************************************************)
(* The RPC example of lab4-2-user-interrupt, examples/rpc_framework.c: a   *)
(* server thread that scans an array of request slots, and the main thread *)
(* that calls through them one slot after the other, without a lock on the *)
(* client's side and with plain int fields beside the two volatile flags.  *)
(*                                                                         *)
(* A step is one load or store of a flag, or a group of stores to fields   *)
(* that only the other thread's flag test makes readable.  Stores become   *)
(* visible in program order, as on the x86 the laboratory requires.        *)
(* Parameters and results are the number of the call: the result of call k *)
(* is k, and 0 if its method_id is out of range.                           *)
(***************************************************************************)
EXTENDS Integers

CONSTANTS
  RequestCount,   \* server.request_count
  Calls,          \* rpc_call invocations main makes before it stops the server
  Unknown         \* the calls whose method_id is not one of rpc_methods

ASSUME RpcConstants ==
  /\ RequestCount \in Nat \ {0}
  /\ Calls \in Nat \ {0}
  /\ Unknown \subseteq 1..Calls

Slots == 0..(RequestCount - 1)

VARIABLES
  slots,   \* shared_reqs: params, result, ready, processed
  lock,    \* server.lock is held
  spc, si, \* the server thread: program counter, loop variable
  cpc, k,  \* the main thread: program counter, number of the call
  ret,     \* what the last rpc_call returned
  executed \* history: methods the server has called

vars == <<slots, lock, spc, si, cpc, k, ret, executed>>

\* main's i % 10.
Slot == k % RequestCount

\* main has called pthread_cancel; the thread notices at usleep and printf.
Cancelled == cpc = "join"

Init ==
  /\ slots = [s \in Slots |-> [params |-> 0, result |-> 0, ready |-> 0, processed |-> 0]]
  /\ lock = FALSE
  /\ spc = "ready?" /\ si = 0
  /\ cpc = "params" /\ k = 1
  /\ ret = 0
  /\ executed = 0

-----------------------------------------------------------------------------
\* rpc_server_thread.

serverOnly == <<spc, si, executed>>
clientOnly == <<cpc, k, ret>>

\* The next slot, or usleep at the end of a scan, where the thread can be cancelled.
Advance == IF si < RequestCount - 1 THEN spc' = "ready?" /\ si' = si + 1
                                    ELSE spc' = "usleep" /\ si' = 0

\* req->ready && !req->processed: two loads, the client's stores between them.
ServerTestsReady ==
  /\ spc = "ready?"
  /\ \/ slots[si].ready = 1 /\ spc' = "processed?" /\ UNCHANGED si
     \/ slots[si].ready = 0 /\ Advance
  /\ UNCHANGED <<slots, lock, executed, clientOnly>>

ServerTestsProcessed ==
  /\ spc = "processed?"
  /\ \/ slots[si].processed = 0 /\ spc' = "lock" /\ UNCHANGED si
     \/ slots[si].processed = 1 /\ Advance
  /\ UNCHANGED <<slots, lock, executed, clientOnly>>

ServerLocks ==
  /\ spc = "lock"
  /\ ~lock
  /\ lock' = TRUE
  /\ spc' = "call"
  /\ UNCHANGED <<slots, si, executed, clientOnly>>

\* An unknown method leaves the result alone.
ServerCalls ==
  LET arg == slots[si].params IN
  /\ spc = "call"
  /\ slots' = [slots EXCEPT ![si].result = IF arg \in Unknown THEN @ ELSE arg]
  /\ executed' = executed + 1
  /\ spc' = "done"
  /\ UNCHANGED <<lock, si, clientOnly>>

\* Between the two stores the result is printed, where a cancelled thread would
\* end with the lock held.
ServerFinishes ==
  /\ spc = "done"
  /\ slots' = IF Cancelled THEN slots ELSE [slots EXCEPT ![si].processed = 1]
  /\ spc' = IF Cancelled THEN "cancelled" ELSE "unlock"
  /\ UNCHANGED <<lock, si, executed, clientOnly>>

\* Mutant: the thread can be cancelled before it unlocks.
UnlockCancellable ==
  /\ spc = "unlock"
  /\ IF Cancelled THEN spc' = "cancelled" /\ UNCHANGED <<lock, si>>
     ELSE lock' = FALSE /\ Advance
  /\ UNCHANGED <<slots, executed, clientOnly>>

ServerUnlocks ==
  /\ spc = "unlock"
  /\ lock' = FALSE
  /\ Advance
  /\ UNCHANGED <<slots, executed, clientOnly>>

\* usleep: the thread goes on, or ends here if it has been cancelled.
ServerSleeps ==
  /\ spc = "usleep"
  /\ spc' = IF Cancelled THEN "cancelled" ELSE "ready?"
  /\ UNCHANGED <<slots, lock, si, executed, clientOnly>>

-----------------------------------------------------------------------------
\* main, through rpc_call.

\* Mutant: the result of the last call through the slot is not reset.
ParamsKeepResult ==
  /\ cpc = "params"
  /\ slots' = [slots EXCEPT ![Slot].params = k]
  /\ cpc' = "clear"
  /\ UNCHANGED <<lock, serverOnly, k, ret>>

\* method_id, params and result, which the server reads after the flags only.
ClientParams ==
  /\ cpc = "params"
  /\ slots' = [slots EXCEPT ![Slot].params = k, ![Slot].result = 0]
  /\ cpc' = "clear"
  /\ UNCHANGED <<lock, serverOnly, k, ret>>

ClientClears ==
  /\ cpc = "clear"
  /\ slots' = [slots EXCEPT ![Slot].processed = 0]
  /\ cpc' = "raise"
  /\ UNCHANGED <<lock, serverOnly, k, ret>>

ClientRaises ==
  /\ cpc = "raise"
  /\ slots' = [slots EXCEPT ![Slot].ready = 1]
  /\ cpc' = "await"
  /\ UNCHANGED <<lock, serverOnly, k, ret>>

ClientSeesProcessed ==
  /\ cpc = "await"
  /\ slots[Slot].processed = 1
  /\ cpc' = "lower"
  /\ UNCHANGED <<slots, lock, serverOnly, k, ret>>

ClientLowers ==
  /\ cpc = "lower"
  /\ slots' = [slots EXCEPT ![Slot].ready = 0]
  /\ cpc' = "return"
  /\ UNCHANGED <<lock, serverOnly, k, ret>>

\* return req->result; then the next call, or pthread_cancel.
ClientReturns ==
  /\ cpc = "return"
  /\ ret' = slots[Slot].result
  /\ k' = IF k < Calls THEN k + 1 ELSE k
  /\ cpc' = IF k < Calls THEN "params" ELSE "join"
  /\ UNCHANGED <<slots, lock, serverOnly>>

\* pthread_join, then pthread_mutex_destroy.
MainDestroys ==
  /\ cpc = "join"
  /\ spc = "cancelled"
  /\ cpc' = "destroyed"
  /\ UNCHANGED <<slots, lock, serverOnly, k, ret>>

Server ==
  \/ ServerTestsReady \/ ServerTestsProcessed \/ ServerLocks \/ ServerCalls
  \/ ServerFinishes \/ ServerUnlocks \/ ServerSleeps

Main ==
  \/ ClientParams \/ ClientClears \/ ClientRaises \/ ClientSeesProcessed
  \/ ClientLowers \/ ClientReturns \/ MainDestroys

Next == Server \/ Main

Spec == Init /\ [][Next]_vars

\* Both threads run.
FairSpec == Spec /\ WF_vars(Server) /\ WF_vars(Main)

-----------------------------------------------------------------------------
TypeOK ==
  /\ slots \in [Slots -> [params : 0..Calls, result : 0..Calls, ready : {0, 1},
                           processed : {0, 1}]]
  /\ lock \in BOOLEAN
  /\ spc \in {"ready?", "processed?", "lock", "call", "done", "unlock", "usleep", "cancelled"}
  /\ si \in Slots
  /\ cpc \in {"params", "clear", "raise", "await", "lower", "return", "join", "destroyed"}
  /\ k \in 1..Calls
  /\ ret \in 0..Calls
  /\ executed \in Nat

\* Each call is executed once: no more executions than calls, and none missing
\* when a call returns.
ExecutedOnce ==
  /\ executed <= k
  /\ cpc \in {"lower", "return", "join"} => executed = k

\* main destroys the mutex unlocked: pthread_cancel never ends the server thread
\* inside its critical section, because a request is marked processed only after
\* the last cancellation point in it.
MutexFreeWhenDestroyed == cpc = "destroyed" => ~lock

\* The calls as RpcService sees them: a call is asked for as soon as its
\* parameters are in the slot, because the server may execute it before the ready
\* flag is raised, and executed when the server has called as often as main.
Service == INSTANCE RpcService WITH
  phase <- IF cpc \in {"params", "join", "destroyed"} THEN "idle"
           ELSE IF executed < k THEN "asked" ELSE "executed",
  returned <- IF cpc \in {"join", "destroyed"} THEN k ELSE k - 1,
  executions <- executed,
  answer <- ret

\* The slots with their two flags implement one call at a time: each is executed
\* exactly once, returns the result of this call and never of the last one
\* through the same slot, and returns, although the server may have seen the
\* ready flag of the last call and the cleared processed flag of this one.
ImplementsCalls == Service!Spec

-----------------------------------------------------------------------------
\* What holds of both threads between any two steps; RpcProofs shows that it is
\* inductive.

Expected == IF k \in Unknown THEN 0 ELSE k

Pending == {"raise", "await"}    \* the call is in its slot and may be executed
Finished == {"lower", "return"}  \* rpc_call has seen it processed

\* Only the slot of the current call is ever ready.
OnlyCurrentReady ==
  \A s \in Slots : slots[s].ready = 1 <=> s = Slot /\ cpc \in {"await", "lower"}

\* The server takes up a request only while main waits for it, also when the
\* ready flag it saw was that of an earlier call.
TakesCurrent ==
  /\ spc = "processed?" /\ slots[si].processed = 0 => si = Slot /\ cpc \in Pending
  /\ spc \in {"lock", "call", "done"} =>
       si = Slot /\ cpc \in Pending /\ slots[si].processed = 0

\* What the slot of the current call holds, and how often the server has called.
CurrentCall ==
  /\ cpc \in {"params", "clear"} => executed = k - 1
  /\ cpc \in {"clear"} \cup Pending => slots[Slot].params = k
  /\ cpc = "clear" => slots[Slot].result = 0
  /\ cpc \in Finished \cup {"join", "destroyed"} => executed = k
  /\ cpc \in Finished => slots[Slot].processed = 1 /\ slots[Slot].result = Expected
  /\ cpc \in Pending =>
       IF spc = "done" \/ slots[Slot].processed = 1
       THEN executed = k /\ slots[Slot].result = Expected
       ELSE executed = k - 1 /\ slots[Slot].result = 0

\* The mutex is held exactly in the critical section.
LockHeld == lock <=> spc \in {"call", "done", "unlock"}

IInv ==
  /\ TypeOK /\ OnlyCurrentReady /\ TakesCurrent /\ CurrentCall /\ LockHeld
  /\ cpc = "destroyed" => spc = "cancelled"
=============================================================================
