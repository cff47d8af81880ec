------------------------------ MODULE RpcProofs ------------------------------
(***************************************************************************)
(* Proofs about Rpc, for every number of slots and calls and every set of  *)
(* unknown methods.                                                        *)
(***************************************************************************)
EXTENDS Rpc, TLAPS

\* The fields of one rpc_request_t.
Request == [params : 0..Calls, result : 0..Calls, ready : {0, 1}, processed : {0, 1}]

\* The index i % 10 of main is the index of a slot.
LEMMA SlotExists ==
  ASSUME NEW n \in Nat
  PROVE  n % RequestCount \in Slots
BY RpcConstants DEF RpcConstants, Slots

\* The server thread's scan stays within the slots.
LEMMA AdvanceStays ==
  ASSUME si \in Slots, Advance
  PROVE  si' \in Slots /\ spc' \in {"ready?", "usleep"}
BY RpcConstants DEF RpcConstants, Slots, Advance

\* The threads start with no request in any slot and the mutex free.
LEMMA InitInv ==
  ASSUME Init
  PROVE  IInv
<1>1. 0 \in Slots
  BY RpcConstants DEF RpcConstants, Slots
<1>2. TypeOK
  <2>1. 0 \in 0..Calls /\ 1 \in 1..Calls /\ 0 \in Nat
    BY RpcConstants DEF RpcConstants
  <2>2. slots \in [Slots -> Request]
    BY <2>1 DEF Init, Request
  <2>3. lock \in BOOLEAN
    BY Zenon DEF Init
  <2> QED
    BY <1>1, <2>1, <2>2, <2>3 DEF Init, TypeOK, Request
<1> QED
  BY <1>1, <1>2
    DEF Init, IInv, OnlyCurrentReady, TakesCurrent, CurrentCall, LockHeld, Pending, Finished

\* A step of the server thread keeps the invariant.
LEMMA ServerInv ==
  ASSUME IInv, Server
  PROVE  IInv'
<1> USE DEF IInv, serverOnly, clientOnly
<1>1. CASE ServerTestsReady
  <2>1. TypeOK'
    BY <1>1, AdvanceStays DEF ServerTestsReady, TypeOK
  <2> QED
    BY <1>1, <2>1, AdvanceStays
      DEF ServerTestsReady, TypeOK, OnlyCurrentReady, TakesCurrent, CurrentCall, LockHeld,
          Pending, Finished, Slot, Expected
<1>2. CASE ServerTestsProcessed
  <2>1. TypeOK'
    BY <1>2, AdvanceStays DEF ServerTestsProcessed, TypeOK
  <2> QED
    BY <1>2, <2>1, AdvanceStays
      DEF ServerTestsProcessed, TypeOK, OnlyCurrentReady, TakesCurrent, CurrentCall,
          LockHeld, Pending, Finished, Slot, Expected
<1>3. CASE ServerLocks
  <2>1. TypeOK'
    BY <1>3, AdvanceStays DEF ServerLocks, TypeOK
  <2> QED
    BY <1>3, <2>1, AdvanceStays
      DEF ServerLocks, TypeOK, OnlyCurrentReady, TakesCurrent, CurrentCall, LockHeld,
          Pending, Finished, Slot, Expected
<1>4. CASE ServerCalls
  <2>1. TypeOK'
    BY <1>4 DEF ServerCalls, TypeOK
  <2> QED
    BY <1>4, <2>1
      DEF ServerCalls, TypeOK, OnlyCurrentReady, TakesCurrent, CurrentCall, LockHeld,
          Pending, Finished, Slot, Expected
<1>5. CASE ServerFinishes
  <2>1. TypeOK'
    BY <1>5 DEF ServerFinishes, TypeOK
  <2> QED
    BY <1>5, <2>1
      DEF ServerFinishes, TypeOK, OnlyCurrentReady, TakesCurrent, CurrentCall, LockHeld,
          Pending, Finished, Slot, Expected, Cancelled
<1>6. CASE ServerUnlocks
  <2>1. TypeOK'
    BY <1>6, AdvanceStays DEF ServerUnlocks, TypeOK
  <2> QED
    BY <1>6, <2>1, AdvanceStays
      DEF ServerUnlocks, TypeOK, OnlyCurrentReady, TakesCurrent, CurrentCall, LockHeld,
          Pending, Finished, Slot, Expected
<1>7. CASE ServerSleeps
  <2>1. TypeOK'
    BY <1>7 DEF ServerSleeps, TypeOK
  <2> QED
    BY <1>7, <2>1
      DEF ServerSleeps, TypeOK, OnlyCurrentReady, TakesCurrent, CurrentCall, LockHeld,
          Pending, Finished, Slot, Expected
<1> QED
  BY <1>1, <1>2, <1>3, <1>4, <1>5, <1>6, <1>7 DEF Server

\* A step of main keeps the invariant.
LEMMA MainInv ==
  ASSUME IInv, Main
  PROVE  IInv'
<1> USE DEF IInv, serverOnly, clientOnly
<1>a. k \in 0..Calls /\ k \in Nat /\ 0 \in 0..Calls
  BY RpcConstants DEF TypeOK, RpcConstants
<1>0. k \in Nat /\ Slot \in Slots
  BY <1>a, SlotExists DEF Slot
<1>1. CASE ClientParams
  <2>1. TypeOK'
    <3>1. slots' = [slots EXCEPT ![Slot] = [@ EXCEPT !.params = k, !.result = 0]]
      BY <1>1 DEF ClientParams
    <3>2. slots[Slot] \in Request
      BY <1>0 DEF TypeOK, Request
    <3>3. [slots[Slot] EXCEPT !.params = k, !.result = 0] \in Request
      BY <1>a, <3>2 DEF Request
    <3>4. slots' \in [Slots -> Request]
      BY <1>0, <3>1, <3>3 DEF TypeOK, Request
    <3> QED
      BY <1>1, <3>4 DEF ClientParams, TypeOK, Request
  <2> QED
    BY <1>1, <1>0, <2>1
      DEF ClientParams, TypeOK, OnlyCurrentReady, TakesCurrent, CurrentCall, LockHeld,
          Pending, Finished, Slot, Expected
<1>2. CASE ClientClears
  <2>1. TypeOK'
    BY <1>2, <1>0, RpcConstants DEF ClientClears, TypeOK, RpcConstants
  <2> QED
    BY <1>2, <1>0, <2>1
      DEF ClientClears, TypeOK, OnlyCurrentReady, TakesCurrent, CurrentCall, LockHeld,
          Pending, Finished, Slot, Expected
<1>3. CASE ClientRaises
  <2>1. TypeOK'
    BY <1>3, <1>0, RpcConstants DEF ClientRaises, TypeOK, RpcConstants
  <2> QED
    BY <1>3, <1>0, <2>1
      DEF ClientRaises, TypeOK, OnlyCurrentReady, TakesCurrent, CurrentCall, LockHeld,
          Pending, Finished, Slot, Expected
<1>4. CASE ClientSeesProcessed
  <2>1. TypeOK'
    BY <1>4, <1>0, RpcConstants DEF ClientSeesProcessed, TypeOK, RpcConstants
  <2> QED
    BY <1>4, <1>0, <2>1
      DEF ClientSeesProcessed, TypeOK, OnlyCurrentReady, TakesCurrent, CurrentCall,
          LockHeld, Pending, Finished, Slot, Expected
<1>5. CASE ClientLowers
  <2>1. TypeOK'
    BY <1>5, <1>0, RpcConstants DEF ClientLowers, TypeOK, RpcConstants
  <2> QED
    BY <1>5, <1>0, <2>1
      DEF ClientLowers, TypeOK, OnlyCurrentReady, TakesCurrent, CurrentCall, LockHeld,
          Pending, Finished, Slot, Expected
<1>6. CASE ClientReturns
  <2>1. TypeOK'
    BY <1>6, <1>0, RpcConstants DEF ClientReturns, TypeOK, RpcConstants
  <2> QED
    BY <1>6, <1>0, <2>1
      DEF ClientReturns, TypeOK, OnlyCurrentReady, TakesCurrent, CurrentCall, LockHeld,
          Pending, Finished, Slot, Expected
<1>7. CASE MainDestroys
  <2>1. TypeOK'
    BY <1>7, <1>0, RpcConstants DEF MainDestroys, TypeOK, RpcConstants
  <2> QED
    BY <1>7, <1>0, <2>1
      DEF MainDestroys, TypeOK, OnlyCurrentReady, TakesCurrent, CurrentCall, LockHeld,
          Pending, Finished, Slot, Expected
<1> QED
  BY <1>1, <1>2, <1>3, <1>4, <1>5, <1>6, <1>7 DEF Main

\* What holds of both threads between any two steps.
THEOREM RpcInvariant == Spec => []IInv
<1>1. IInv /\ UNCHANGED vars => IInv'
  BY
    DEF vars, IInv, TypeOK, OnlyCurrentReady, TakesCurrent, CurrentCall, LockHeld, Slot,
        Expected
<1>2. IInv /\ [Next]_vars => IInv'
  BY <1>1, ServerInv, MainInv DEF Next
<1> QED
  BY <1>2, InitInv, PTL DEF Spec

\* Each call is executed once, whatever the two threads see of each other's
\* flags: no request is taken up twice, and none returns before its execution.
THEOREM CallsExecutedOnce == Spec => []ExecutedOnce
<1>1. IInv => ExecutedOnce
  <2> SUFFICES ASSUME IInv PROVE ExecutedOnce
    OBVIOUS
  <2>1. k \in Nat /\ executed \in Nat
    BY RpcConstants DEF IInv, TypeOK, RpcConstants
  <2> QED
    BY <2>1 DEF IInv, TypeOK, CurrentCall, ExecutedOnce, Pending, Finished
<1> QED
  BY <1>1, RpcInvariant, PTL

\* pthread_mutex_destroy gets an unlocked mutex, because pthread_cancel cannot end
\* the server thread between lock and unlock.
THEOREM MutexFree == Spec => []MutexFreeWhenDestroyed
<1>1. IInv => MutexFreeWhenDestroyed
  BY DEF IInv, LockHeld, MutexFreeWhenDestroyed
<1> QED
  BY <1>1, RpcInvariant, PTL

\* A step of the two threads is a step of the calls that main sees, or none.
LEMMA StepSimulation ==
  ASSUME IInv, IInv', [Next]_vars
  PROVE  [Service!Next]_(Service!vars)
<1>a. k \in Nat /\ executed \in Nat /\ k' \in Nat /\ executed' \in Nat
  BY RpcConstants DEF IInv, TypeOK, RpcConstants
<1>1. CASE Server
  <2>1. CASE ServerCalls
    <3>1. cpc \in Pending /\ cpc' = cpc /\ executed = k - 1 /\ executed' = k /\ k' = k /\ ret' = ret
      BY <2>1, <1>a DEF ServerCalls, IInv, TakesCurrent, CurrentCall, clientOnly
    <3>2. Service!Execute
      BY <3>1, <1>a DEF Service!Execute, Pending
    <3> QED
      BY <3>2 DEF Service!Next
  <2>2. CASE ~ServerCalls
    <3>1. UNCHANGED <<cpc, k, ret, executed>>
      BY <1>1, <2>2
        DEF Server, ServerTestsReady, ServerTestsProcessed, ServerLocks, ServerFinishes,
                        ServerUnlocks, ServerSleeps, clientOnly
    <3> QED
      BY <3>1 DEF Service!vars
  <2> QED
    BY <2>1, <2>2
<1>2. CASE ClientParams
  <2>1. cpc = "params" /\ cpc' = "clear" /\ executed = k - 1 /\ executed' = executed
        /\ k' = k /\ ret' = ret /\ k <= Calls
    BY <1>2 DEF ClientParams, IInv, TypeOK, CurrentCall, serverOnly
  <2>2. k - 1 < Calls /\ executed' < k'
    BY <2>1, <1>a, RpcConstants DEF RpcConstants
  <2>3. Service!Ask
    BY <2>1, <2>2 DEF Service!Ask
  <2> QED
    BY <2>3 DEF Service!Next
<1>3. CASE ClientReturns
  <2>1. cpc = "return" /\ executed = k /\ executed' = executed /\ ret' = Expected
    BY <1>3 DEF ClientReturns, IInv, CurrentCall, Finished, serverOnly
  <2>2. cpc' \in {"params", "join"} /\ ~(executed < k) /\ k - 1 + 1 = k
    BY <1>3, <2>1, <1>a DEF ClientReturns
  <2>3. (IF cpc' \in {"join", "destroyed"} THEN k' ELSE k' - 1) = k
    BY <1>3, <1>a DEF ClientReturns
  <2>4. Service!Return
    BY <2>1, <2>2, <2>3 DEF Service!Return, Expected
  <2> QED
    BY <2>4 DEF Service!Next
<1>4. CASE ClientClears \/ ClientRaises \/ ClientSeesProcessed \/ ClientLowers
  <2>1. /\ UNCHANGED <<k, ret, executed>>
        /\ cpc \notin {"params", "join", "destroyed"}
        /\ cpc' \notin {"params", "join", "destroyed"}
    BY <1>4 DEF ClientClears, ClientRaises, ClientSeesProcessed, ClientLowers, serverOnly
  <2> QED
    BY <2>1 DEF Service!vars
<1>5. CASE MainDestroys
  BY <1>5 DEF MainDestroys, Service!vars, serverOnly
<1>6. CASE UNCHANGED vars
  BY <1>6 DEF vars, Service!vars
<1> QED
  BY <1>1, <1>2, <1>3, <1>4, <1>5, <1>6 DEF Next, Main

\* The slots with their two flags implement one call at a time (the part of
\* ImplementsCalls that is not liveness): each call executed exactly once, and
\* answered with the result of this call.
THEOREM CallsImplemented == Spec => Service!Safety
<1>1. Init => Service!Init
  <2>1. 1 - 1 = 0
    OBVIOUS
  <2> QED
    BY <2>1 DEF Init, Service!Init
<1>2. IInv /\ IInv' /\ [Next]_vars => [Service!Next]_(Service!vars)
  BY StepSimulation
<1> QED
  BY <1>1, <1>2, RpcInvariant, PTL DEF Spec, Service!Safety

=============================================================================
