------------------------- MODULE UserInterruptProofs -------------------------
(***************************************************************************)
(* Proofs about UserInterrupt, for every set of clients and every number   *)
(* of requests and runs.                                                   *)
(***************************************************************************)
EXTENDS UserInterrupt, TLAPS

\* Five stages, in the order of cleanup().
LEMMA Stages ==
  /\ DOMAIN CleanupOrder = {1, 2, 3, 4, 5} /\ Len(CleanupOrder) = 5
  /\ CleanupOrder[1] = "sender" /\ CleanupOrder[2] = "fd" /\ CleanupOrder[3] = "map"
  /\ CleanupOrder[4] = "shm" /\ CleanupOrder[5] = "handler"
  /\ CleanupStage(1) = "cleanup1" /\ CleanupStage(2) = "cleanup2"
  /\ CleanupStage(3) = "cleanup3" /\ CleanupStage(4) = "cleanup4"
  /\ CleanupStage(5) = "cleanup5"
BY DEF CleanupOrder, CleanupStage

\* A step of main keeps the invariant.
LEMMA ServerInv ==
  ASSUME IInv, Server
  PROVE  IInv'
<1> USE DEF At, clientVars
<1>1. CASE ServerShmget
  <2>1. TypeOK'
    BY <1>1 DEF ServerShmget, Acquire, IInv, TypeOK, ServerPcs, Serving, Starting, Cleaning, Resources
  <2>2. HeldAt' /\ HandlerHasMemory'
    BY <1>1
      DEF ServerShmget, Acquire, IInv, TypeOK, HeldAt, HandlerHasMemory, Serving, Starting, Cleaning,
          Resources
  <2>3. CountBehind' /\ NobodyConnected'
    BY <1>1 DEF ServerShmget, Acquire, IInv, TypeOK, CountBehind, NobodyConnected, Starting, Serving,
          Cleaning, HeldAt
  <2>4. ClientProgress' /\ AloneExact' /\ interrupt_count' + Posted' <= sent'
    BY <1>1
      DEF ServerShmget, Acquire, IInv, TypeOK, ClientProgress, AloneExact, Alone, Posted,
          NobodyConnected
  <2> QED
    BY <2>1, <2>2, <2>3, <2>4 DEF IInv
<1>2. CASE ServerShmat
  <2>1. TypeOK'
    BY <1>2 DEF ServerShmat, Acquire, IInv, TypeOK, ServerPcs, Serving, Starting, Cleaning, Resources
  <2>2. HeldAt' /\ HandlerHasMemory'
    BY <1>2
      DEF ServerShmat, Acquire, IInv, TypeOK, HeldAt, HandlerHasMemory, Serving, Starting, Cleaning,
          Resources
  <2>3. CountBehind' /\ NobodyConnected'
    BY <1>2 DEF ServerShmat, Acquire, IInv, TypeOK, CountBehind, NobodyConnected, Starting, Serving,
          Cleaning, HeldAt
  <2>4. ClientProgress' /\ AloneExact' /\ interrupt_count' + Posted' <= sent'
    BY <1>2
      DEF ServerShmat, Acquire, IInv, TypeOK, ClientProgress, AloneExact, Alone, Posted,
          NobodyConnected
  <2> QED
    BY <2>1, <2>2, <2>3, <2>4 DEF IInv
<1>3. CASE ServerRegister
  <2>1. TypeOK'
    BY <1>3 DEF ServerRegister, IInv, TypeOK, ServerPcs, Serving, Starting, Cleaning, Resources
  <2>2. HeldAt' /\ HandlerHasMemory'
    BY <1>3
      DEF ServerRegister, IInv, TypeOK, HeldAt, HandlerHasMemory, Serving, Starting, Cleaning,
          Resources
  <2>3. CountBehind' /\ NobodyConnected'
    <3>1. CountBehind'
      BY <1>3 DEF ServerRegister, IInv, TypeOK, CountBehind
    <3>2. spc \in Starting
      BY <1>3 DEF ServerRegister, Starting
    <3> QED
      BY <1>3, <3>1, <3>2 DEF ServerRegister, IInv, TypeOK, NobodyConnected
  <2>4. ClientProgress' /\ AloneExact' /\ interrupt_count' + Posted' <= sent'
    BY <1>3
      DEF ServerRegister, IInv, TypeOK, ClientProgress, AloneExact, Alone, Posted,
          NobodyConnected, Starting
  <2> QED
    BY <2>1, <2>2, <2>3, <2>4 DEF IInv
<1>4. CASE ServerCreateFd
  <2>1. TypeOK'
    BY <1>4 DEF ServerCreateFd, Acquire, IInv, TypeOK, ServerPcs, Serving, Starting, Cleaning, Resources
  <2>2. HeldAt' /\ HandlerHasMemory'
    BY <1>4
      DEF ServerCreateFd, Acquire, IInv, TypeOK, HeldAt, HandlerHasMemory, Serving,
          Starting, Cleaning, Resources
  <2>3. CountBehind' /\ NobodyConnected'
    BY <1>4 DEF ServerCreateFd, Acquire, IInv, TypeOK, CountBehind, NobodyConnected, Starting, Serving,
          Cleaning, HeldAt
  <2>4. ClientProgress' /\ AloneExact' /\ interrupt_count' + Posted' <= sent'
    BY <1>4
      DEF ServerCreateFd, Acquire, IInv, TypeOK, ClientProgress, AloneExact, Alone, Posted,
          NobodyConnected
  <2> QED
    BY <2>1, <2>2, <2>3, <2>4 DEF IInv
<1>5. CASE ServerRegisterSender
  <2>1. TypeOK'
    BY <1>5
      DEF ServerRegisterSender, Acquire, IInv, TypeOK, ServerPcs, Serving, Starting, Cleaning,
          Resources
  <2>2. HeldAt' /\ HandlerHasMemory'
    BY <1>5
      DEF ServerRegisterSender, Acquire, IInv, TypeOK, HeldAt, HandlerHasMemory, Serving,
          Starting, Cleaning, Resources
  <2>3. CountBehind' /\ NobodyConnected'
    BY <1>5 DEF ServerRegisterSender, Acquire, IInv, TypeOK, CountBehind, NobodyConnected, Starting, Serving,
          Cleaning, HeldAt
  <2>4. ClientProgress' /\ AloneExact' /\ interrupt_count' + Posted' <= sent'
    BY <1>5
      DEF ServerRegisterSender, Acquire, IInv, TypeOK, ClientProgress, AloneExact, Alone,
          Posted, NobodyConnected
  <2> QED
    BY <2>1, <2>2, <2>3, <2>4 DEF IInv
<1>6. CASE ServerPublish
  <2>1. TypeOK'
    BY <1>6, UserInterruptConstants
      DEF ServerPublish, IInv, TypeOK, ServerPcs, Serving, Starting, Cleaning, Resources,
          UserInterruptConstants
  <2>2. HeldAt' /\ HandlerHasMemory'
    BY <1>6
      DEF ServerPublish, IInv, TypeOK, HeldAt, HandlerHasMemory, Serving, Starting, Cleaning,
          Resources
  <2>3. CountBehind' /\ NobodyConnected'
    BY <1>6, UserInterruptConstants
      DEF ServerPublish, IInv, TypeOK, CountBehind, NobodyConnected, Starting, Serving,
          Cleaning, HeldAt
  <2>4. ClientProgress' /\ AloneExact' /\ interrupt_count' + Posted' <= sent'
    BY <1>6
      DEF ServerPublish, IInv, TypeOK, ClientProgress, AloneExact, Alone, Posted,
          NobodyConnected, Starting
  <2> QED
    BY <2>1, <2>2, <2>3, <2>4 DEF IInv
<1>7. CASE ServerReset
  <2>1. TypeOK'
    BY <1>7 DEF ServerReset, IInv, TypeOK, ServerPcs, Serving, Starting, Cleaning, Resources
  <2>2. HeldAt' /\ HandlerHasMemory'
    BY <1>7
      DEF ServerReset, IInv, TypeOK, HeldAt, HandlerHasMemory, Serving, Starting, Cleaning, Resources
  <2>3. CountBehind' /\ NobodyConnected'
    BY <1>7 DEF ServerReset, IInv, TypeOK, CountBehind, NobodyConnected, Starting, Serving,
          Cleaning, HeldAt
  <2>4. ClientProgress' /\ AloneExact' /\ interrupt_count' + Posted' <= sent'
    BY <1>7
      DEF ServerReset, IInv, TypeOK, ClientProgress, AloneExact, Alone, Posted,
          NobodyConnected
  <2> QED
    BY <2>1, <2>2, <2>3, <2>4 DEF IInv
<1>8. CASE ServerSeesReady
  <2>1. TypeOK'
    BY <1>8 DEF ServerSeesReady, IInv, TypeOK, ServerPcs, Serving, Starting, Cleaning, Resources
  <2>2. HeldAt' /\ HandlerHasMemory'
    BY <1>8
      DEF ServerSeesReady, IInv, TypeOK, HeldAt, HandlerHasMemory, Serving, Starting, Cleaning,
          Resources
  <2>3. CountBehind' /\ NobodyConnected'
    BY <1>8 DEF ServerSeesReady, IInv, TypeOK, CountBehind, NobodyConnected, Starting, Serving,
          Cleaning, HeldAt
  <2>4. ClientProgress' /\ AloneExact' /\ interrupt_count' + Posted' <= sent'
    BY <1>8
      DEF ServerSeesReady, IInv, TypeOK, ClientProgress, AloneExact, Alone, Posted,
          NobodyConnected
  <2> QED
    BY <2>1, <2>2, <2>3, <2>4 DEF IInv
<1>9. CASE ServerMeasures
  <2>1. TypeOK'
    BY <1>9, UserInterruptConstants
      DEF ServerMeasures, IInv, TypeOK, ServerPcs, Serving, Starting, Cleaning, Resources,
          UserInterruptConstants
  <2>2. HeldAt' /\ HandlerHasMemory'
    BY <1>9
      DEF ServerMeasures, IInv, TypeOK, HeldAt, HandlerHasMemory, Serving, Starting, Cleaning,
          Resources
  <2>3. CountBehind' /\ NobodyConnected'
    BY <1>9, UserInterruptConstants
      DEF ServerMeasures, IInv, TypeOK, CountBehind, NobodyConnected, Starting, Serving,
          Cleaning, HeldAt
  <2>4. ClientProgress' /\ AloneExact' /\ interrupt_count' + Posted' <= sent'
    BY <1>9
      DEF ServerMeasures, IInv, TypeOK, ClientProgress, AloneExact, Alone, Posted,
          NobodyConnected
  <2> QED
    BY <2>1, <2>2, <2>3, <2>4 DEF IInv
<1>10. CASE ServerSleeps
  <2>1. TypeOK'
    BY <1>10 DEF ServerSleeps, IInv, TypeOK, ServerPcs, Serving, Starting, Cleaning, Resources
  <2>2. HeldAt' /\ HandlerHasMemory'
    BY <1>10
      DEF ServerSleeps, IInv, TypeOK, HeldAt, HandlerHasMemory, Serving, Starting, Cleaning, Resources
  <2>3. CountBehind' /\ NobodyConnected'
    BY <1>10 DEF ServerSleeps, IInv, TypeOK, CountBehind, NobodyConnected, Starting, Serving,
          Cleaning, HeldAt
  <2>4. ClientProgress' /\ AloneExact' /\ interrupt_count' + Posted' <= sent'
    BY <1>10
      DEF ServerSleeps, IInv, TypeOK, ClientProgress, AloneExact, Alone, Posted,
          NobodyConnected
  <2> QED
    BY <2>1, <2>2, <2>3, <2>4 DEF IInv
<1>11. ASSUME NEW i \in DOMAIN CleanupOrder, cleanup(i) PROVE IInv'
  <2>a. ~pending /\ UNCHANGED <<shared, unstored, pending, interrupt_count, iterations, clientVars>>
    BY <1>11 DEF cleanup
  <2>b. \/ spc = "cleanup1" /\ held' = held \ ({"sender"} \ unstored) /\ spc' = "cleanup2"
        \/ spc = "cleanup2" /\ held' = held \ ({"fd"} \ unstored) /\ spc' = "cleanup3"
        \/ spc = "cleanup3" /\ held' = held \ ({"map"} \ unstored) /\ spc' = "cleanup4"
        \/ spc = "cleanup4" /\ held' = held \ ({"shm"} \ unstored) /\ spc' = "cleanup5"
        \/ spc = "cleanup5" /\ held' = held \ ({"handler"} \ unstored) /\ spc' = "exited"
    <3>1. i = 1 \/ i = 2 \/ i = 3 \/ i = 4 \/ i = 5
      BY <1>11, Stages
    <3>2. spc = CleanupStage(i) /\ held' = held \ ({CleanupOrder[i]} \ unstored)
          /\ spc' = IF i < 5 THEN CleanupStage(i + 1) ELSE "exited"
      BY <1>11, Stages DEF cleanup
    <3> QED
      BY <3>1, <3>2, Stages
  <2>1. TypeOK'
    BY <2>a, <2>b DEF IInv, TypeOK, ServerPcs, Serving, Starting, Cleaning, Resources
  <2>2. HeldAt' /\ HandlerHasMemory'
    <3>1. ~pending' /\ unstored' = unstored /\ unstored \subseteq held
          /\ (spc \in Cleaning /\ "sender" \in held \ unstored => spc = "cleanup1")
          /\ (spc \in {"cleanup3", "cleanup4", "cleanup5"} => "fd" \notin held \ unstored)
          /\ (spc \in {"cleanup4", "cleanup5"} => "map" \notin held \ unstored)
          /\ (spc = "cleanup5" => "shm" \notin held \ unstored)
      BY <2>a DEF IInv, TypeOK, HeldAt
    <3>2. HandlerHasMemory'
      BY <3>1 DEF HandlerHasMemory
    <3>3. held' \ unstored \subseteq held \ unstored /\ held \subseteq Resources
      BY <2>b DEF IInv, TypeOK
    <3>4. CASE spc = "cleanup5"
      <4>1. spc' = "exited" /\ held' = held \ ({"handler"} \ unstored)
        BY <2>b, <3>4
      <4>2. held' = unstored
        BY <3>1, <3>3, <3>4, <4>1 DEF Cleaning, Resources
      <4> QED
        BY <3>1, <3>2, <4>1, <4>2 DEF HeldAt, Serving, Cleaning
    <3>5. CASE spc # "cleanup5"
      <4>1. /\ spc \in Cleaning /\ "sender" \notin held' \ unstored
            /\ spc' \in {"cleanup3", "cleanup4", "cleanup5"} => "fd" \notin held' \ unstored
            /\ spc' \in {"cleanup4", "cleanup5"} => "map" \notin held' \ unstored
            /\ spc' = "cleanup5" => "shm" \notin held' \ unstored
            /\ spc' \in {"cleanup2", "cleanup3", "cleanup4", "cleanup5"}
        BY <2>b, <3>1, <3>3, <3>5 DEF Cleaning
      <4> QED
        BY <3>1, <3>2, <4>1 DEF HeldAt, Serving, Cleaning
    <3> QED
      BY <3>4, <3>5
  <2>3. CountBehind' /\ NobodyConnected'
    BY <2>a, <2>b DEF IInv, TypeOK, CountBehind, NobodyConnected, Starting, Serving,
          Cleaning, HeldAt
  <2>4. ClientProgress' /\ AloneExact' /\ interrupt_count' + Posted' <= sent'
    BY <2>a DEF IInv, TypeOK, ClientProgress, AloneExact, Alone, Posted
  <2> QED
    BY <2>1, <2>2, <2>3, <2>4 DEF IInv
<1> QED
  BY <1>1, <1>2, <1>3, <1>4, <1>5, <1>6, <1>7, <1>8, <1>9, <1>10, <1>11 DEF Server

\* The handler and the signals keep the invariant.
LEMMA HandlersInv ==
  ASSUME IInv, uintr_handler \/ signal_handler
  PROVE  IInv'
<1>1. CASE uintr_handler
  <2>1. TypeOK'
    <3>1. pending' \in BOOLEAN
      BY <1>1, Zenon DEF uintr_handler
    <3>2. shared' \in [vector : Nat, ready : {0, 1}, response : Nat] /\ interrupt_count' \in Nat
      BY <1>1 DEF uintr_handler, IInv, TypeOK
    <3> QED
      BY <1>1, <3>1, <3>2 DEF uintr_handler, IInv, TypeOK, serverVars, clientVars
  <2>2. HeldAt' /\ HandlerHasMemory' /\ CountBehind' /\ NobodyConnected' /\ ClientProgress'
    BY <1>1 DEF uintr_handler, IInv, TypeOK, serverVars, clientVars, HeldAt, HandlerHasMemory,
                CountBehind, NobodyConnected, ClientProgress
  <2>3. interrupt_count' + Posted' <= sent'
    BY <1>1 DEF uintr_handler, IInv, TypeOK, clientVars, Posted
  <2>4. AloneExact'
    BY <1>1 DEF uintr_handler, IInv, TypeOK, clientVars, AloneExact, Alone, Posted
  <2> QED
    BY <2>1, <2>2, <2>3, <2>4 DEF IInv
<1>2. CASE signal_handler
  <2>1. TypeOK'
    BY <1>2 DEF signal_handler, IInv, TypeOK, clientVars, ServerPcs, Cleaning
  <2>2. HeldAt' /\ HandlerHasMemory'
    BY <1>2
      DEF signal_handler, IInv, TypeOK, HeldAt, HandlerHasMemory, ServerPcs, Serving,
          Starting, Cleaning,
                Resources
  <2>3. CountBehind' /\ NobodyConnected' /\ ClientProgress' /\ AloneExact'
        /\ interrupt_count' + Posted' <= sent'
    BY <1>2
      DEF signal_handler, IInv, clientVars, CountBehind, NobodyConnected, Starting,
          ClientProgress, AloneExact, Alone, Posted
  <2> QED
    BY <2>1, <2>2, <2>3 DEF IInv
<1> QED
  BY <1>1, <1>2

\* A step of a client keeps the invariant.
LEMMA ClientInv ==
  ASSUME IInv, NEW c \in Clients, ClientStart(c) \/ Client(c)
  PROVE  IInv'
<1>1. CASE ClientStart(c)
  <2>1. TypeOK'
    BY <1>1, UserInterruptConstants
      DEF ClientStart, Goto, IInv, TypeOK, serverVars, ClientPcs, ClientProgress,
          UserInterruptConstants
  <2>2. HeldAt' /\ HandlerHasMemory' /\ CountBehind' /\ NobodyConnected'
    BY <1>1
      DEF ClientStart, Goto, IInv, TypeOK, serverVars, HeldAt, HandlerHasMemory,
          CountBehind,
                NobodyConnected, Serving, Starting, Cleaning, ServerPcs, Resources
  <2>3. ClientProgress' /\ interrupt_count' + Posted' <= sent'
    BY <1>1, UserInterruptConstants
      DEF ClientStart, Goto, IInv, TypeOK, serverVars, ClientProgress, Posted,
          UserInterruptConstants
  <2>4. AloneExact'
    BY <1>1
      DEF ClientStart, Goto, IInv, TypeOK, serverVars, AloneExact, Alone, ClientProgress,
          Posted
  <2> QED
    BY <2>1, <2>2, <2>3, <2>4 DEF IInv
<1>2. CASE ClientConnects(c)
  <2>1. TypeOK'
    BY <1>2, UserInterruptConstants
      DEF ClientConnects, Goto, IInv, TypeOK, serverVars, ClientPcs, ClientProgress,
          UserInterruptConstants
  <2>2. HeldAt' /\ HandlerHasMemory' /\ CountBehind' /\ NobodyConnected'
    BY <1>2
      DEF ClientConnects, Goto, IInv, TypeOK, serverVars, HeldAt, HandlerHasMemory,
          CountBehind,
                NobodyConnected, Serving, Starting, Cleaning, ServerPcs, Resources
  <2>3. ClientProgress' /\ interrupt_count' + Posted' <= sent'
    BY <1>2, UserInterruptConstants
      DEF ClientConnects, Goto, IInv, TypeOK, serverVars, ClientProgress, Posted,
          UserInterruptConstants
  <2>4. AloneExact'
    BY <1>2
      DEF ClientConnects, Goto, IInv, TypeOK, serverVars, AloneExact, Alone,
          ClientProgress, Posted
  <2> QED
    BY <2>1, <2>2, <2>3, <2>4 DEF IInv
<1>3. CASE ClientPrepares(c)
  <2>1. TypeOK'
    BY <1>3, UserInterruptConstants
      DEF ClientPrepares, Goto, IInv, TypeOK, serverVars, ClientPcs, ClientProgress,
          UserInterruptConstants
  <2>2. HeldAt' /\ HandlerHasMemory' /\ CountBehind' /\ NobodyConnected'
    BY <1>3
      DEF ClientPrepares, Goto, IInv, TypeOK, serverVars, HeldAt, HandlerHasMemory,
          CountBehind,
                NobodyConnected, Serving, Starting, Cleaning, ServerPcs, Resources
  <2>3. ClientProgress' /\ interrupt_count' + Posted' <= sent'
    BY <1>3, UserInterruptConstants
      DEF ClientPrepares, Goto, IInv, TypeOK, serverVars, ClientProgress, Posted,
          UserInterruptConstants
  <2>4. AloneExact'
    BY <1>3
      DEF ClientPrepares, Goto, IInv, TypeOK, serverVars, AloneExact, Alone,
          ClientProgress, Posted
  <2> QED
    BY <2>1, <2>2, <2>3, <2>4 DEF IInv
<1>4. CASE ClientRaises(c)
  <2>1. TypeOK'
    BY <1>4, UserInterruptConstants
      DEF ClientRaises, Goto, IInv, TypeOK, serverVars, ClientPcs, ClientProgress,
          UserInterruptConstants
  <2>2. HeldAt' /\ HandlerHasMemory' /\ CountBehind' /\ NobodyConnected'
    BY <1>4
      DEF ClientRaises, Goto, IInv, TypeOK, serverVars, HeldAt, HandlerHasMemory,
          CountBehind,
                NobodyConnected, Serving, Starting, Cleaning, ServerPcs, Resources
  <2>3. ClientProgress' /\ interrupt_count' + Posted' <= sent'
    BY <1>4, UserInterruptConstants
      DEF ClientRaises, Goto, IInv, TypeOK, serverVars, ClientProgress, Posted,
          UserInterruptConstants
  <2>4. AloneExact'
    BY <1>4
      DEF ClientRaises, Goto, IInv, TypeOK, serverVars, AloneExact, Alone, ClientProgress,
          Posted
  <2> QED
    BY <2>1, <2>2, <2>3, <2>4 DEF IInv
<1>5. CASE ClientSends(c)
  <2>1. TypeOK'
    <3>1. pending' \in BOOLEAN
      BY <1>5, Zenon DEF ClientSends, IInv, TypeOK
    <3>2. cpc' \in [Clients -> ClientPcs] /\ sent' \in Nat
      BY <1>5 DEF ClientSends, Goto, IInv, TypeOK, ClientPcs
    <3> QED
      BY <1>5, <3>1, <3>2 DEF ClientSends, IInv, TypeOK, serverVars
  <2>2. HeldAt' /\ HandlerHasMemory' /\ CountBehind' /\ NobodyConnected'
    BY <1>5
      DEF ClientSends, Goto, IInv, TypeOK, serverVars, HeldAt, HandlerHasMemory,
          CountBehind,
                NobodyConnected, Serving, Starting, Cleaning, ServerPcs, Resources
  <2>3. ClientProgress' /\ interrupt_count' + Posted' <= sent'
    BY <1>5, UserInterruptConstants
      DEF ClientSends, Goto, IInv, TypeOK, serverVars, ClientProgress, Posted,
          UserInterruptConstants
  <2>4. AloneExact'
    BY <1>5
      DEF ClientSends, Goto, IInv, TypeOK, serverVars, AloneExact, Alone, ClientProgress,
          Posted
  <2> QED
    BY <2>1, <2>2, <2>3, <2>4 DEF IInv
<1>6. CASE ClientAnswered(c)
  <2>1. TypeOK'
    BY <1>6, UserInterruptConstants
      DEF ClientAnswered, Goto, IInv, TypeOK, serverVars, ClientPcs, ClientProgress,
          UserInterruptConstants
  <2>2. HeldAt' /\ HandlerHasMemory' /\ CountBehind' /\ NobodyConnected'
    BY <1>6
      DEF ClientAnswered, Goto, IInv, TypeOK, serverVars, HeldAt, HandlerHasMemory,
          CountBehind,
                NobodyConnected, Serving, Starting, Cleaning, ServerPcs, Resources
  <2>3. ClientProgress' /\ interrupt_count' + Posted' <= sent'
    BY <1>6, UserInterruptConstants
      DEF ClientAnswered, Goto, IInv, TypeOK, serverVars, ClientProgress, Posted,
          UserInterruptConstants
  <2>4. AloneExact'
    BY <1>6
      DEF ClientAnswered, Goto, IInv, TypeOK, serverVars, AloneExact, Alone,
          ClientProgress, Posted
  <2> QED
    BY <2>1, <2>2, <2>3, <2>4 DEF IInv
<1>7. CASE ClientLowers(c)
  <2>1. TypeOK'
    BY <1>7, UserInterruptConstants
      DEF ClientLowers, Goto, IInv, TypeOK, serverVars, ClientPcs, ClientProgress,
          UserInterruptConstants
  <2>2. HeldAt' /\ HandlerHasMemory' /\ CountBehind' /\ NobodyConnected'
    BY <1>7
      DEF ClientLowers, Goto, IInv, TypeOK, serverVars, HeldAt, HandlerHasMemory,
          CountBehind,
                NobodyConnected, Serving, Starting, Cleaning, ServerPcs, Resources
  <2>3. ClientProgress' /\ interrupt_count' + Posted' <= sent'
    BY <1>7, UserInterruptConstants
      DEF ClientLowers, Goto, IInv, TypeOK, serverVars, ClientProgress, Posted,
          UserInterruptConstants
  <2>4. AloneExact'
    BY <1>7
      DEF ClientLowers, Goto, IInv, TypeOK, serverVars, AloneExact, Alone, ClientProgress,
          Posted
  <2> QED
    BY <2>1, <2>2, <2>3, <2>4 DEF IInv
<1> QED
  BY <1>1, <1>2, <1>3, <1>4, <1>5, <1>6, <1>7 DEF Client

\* What holds of server and clients between any two steps.
THEOREM UserInterruptInvariant == Spec => []IInv
<1>1. Init => IInv
  <2> SUFFICES ASSUME Init PROVE IInv
    OBVIOUS
  <2>1. pending \in BOOLEAN /\ ~pending
    BY Zenon DEF Init
  <2>2. TypeOK
    BY <2>1, UserInterruptConstants
      DEF Init, TypeOK, ServerPcs, Starting, ClientPcs, UserInterruptConstants
  <2>3. HeldAt /\ HandlerHasMemory /\ NobodyConnected /\ CountBehind
    BY <2>1
      DEF Init, HeldAt, HandlerHasMemory, NobodyConnected, CountBehind, Serving, Starting, Cleaning
  <2>4. ClientProgress /\ AloneExact /\ interrupt_count + Posted <= sent
    BY <2>1 DEF Init, ClientProgress, AloneExact, Posted
  <2> QED
    BY <2>2, <2>3, <2>4 DEF IInv
<1>2. IInv /\ UNCHANGED vars => IInv'
  BY
    DEF vars, IInv, TypeOK, HeldAt, HandlerHasMemory, CountBehind, NobodyConnected,
        ClientProgress,
         AloneExact, Alone, Posted
<1>3. IInv /\ [Next]_vars => IInv'
  BY <1>2, ServerInv, HandlersInv, ClientInv DEF Next
<1> QED
  BY <1>1, <1>3, PTL DEF Spec

\* uintr_handler runs only while the shared memory is attached, although a signal
\* may start cleanup() anywhere and clients send at any time.
THEOREM HandlerMemory == Spec => []HandlerHasMemory
<1>1. IInv => HandlerHasMemory
  BY DEF IInv
<1> QED
  BY <1>1, UserInterruptInvariant, PTL

\* The server counts no more requests than the clients made.
THEOREM RequestsCountedOnce == Spec => []CountedOnce
<1>1. IInv => CountedOnce
  BY DEF IInv, CountBehind, CountedOnce
<1> QED
  BY <1>1, UserInterruptInvariant, PTL

\* No response without an interrupt; a client alone gets the response to this request.
THEOREM AnswersAreReal == Spec => []AnswersRequest
<1>1. IInv => AnswersRequest
  BY DEF IInv, TypeOK, AloneExact, Posted, AnswersRequest
<1> QED
  BY <1>1, UserInterruptInvariant, PTL

\* A server that ends has given back everything but what was in flight between a
\* system call and the store of its result when the signal came.
THEOREM CleanupGivesBack == Spec => []CleanupComplete
<1>1. IInv => CleanupComplete
  BY DEF IInv, HeldAt, CleanupComplete
<1> QED
  BY <1>1, UserInterruptInvariant, PTL
=============================================================================
