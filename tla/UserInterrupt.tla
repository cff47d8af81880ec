---------------------------- MODULE UserInterrupt ----------------------------
(***************************************************************************)
(* User interrupts between processes, lab4-2-user-interrupt/src/           *)
(* uintr_server.c and uintr_client.c: a server that registers a handler    *)
(* and publishes its vector in System V shared memory, and clients that    *)
(* put a request there, interrupt the server and poll for the response.    *)
(*                                                                         *)
(* A step is one store to or one load from the shared memory, one system   *)
(* call, or the store of what the call returned, which a signal may        *)
(* precede.  The machine is an x86, whose stores become visible in         *)
(* program order.  The system calls of uintr_common.h are modelled from    *)
(* how the programs use them: any of them may fail; senduipi posts one     *)
(* pending bit, as long as the sender is registered, and the handler runs  *)
(* before the server's next step.  The timing statistics are left out; the *)
(* request text is the number of the request.                              *)
(***************************************************************************)
EXTENDS Integers, FiniteSets, Sequences

CONSTANTS
  Clients,        \* the client processes
  Indices,        \* what uintr_register_sender may return
  ServerRequests, \* iterations of uintr_server.c
  ClientRequests, \* iterations of uintr_client.c
  MaxRuns         \* bound: times each client program is started

ASSUME UserInterruptConstants ==
  /\ IsFiniteSet(Clients)
  /\ Indices \subseteq Nat
  /\ ServerRequests \in Nat \ {0}
  /\ ClientRequests \in Nat \ {0}
  /\ MaxRuns \in Nat

VARIABLES
  shared,    \* shared_mem: vector, ready, response
  held,      \* what the server holds and cleanup() has to give back
  unstored,  \* what it holds by a call whose result is not in its variable yet
  pending,   \* an interrupt is posted to the server
  interrupt_count,
  iterations,  \* the server's bench.iterations
  spc,       \* the server's program counter
  cpc,       \* the clients' program counters, "off" when not running
  req,       \* the clients' loop variables
  runs,      \* times each client has been started
  raised,    \* history: requests for which a client has set ready
  sent       \* history: successful senduipi calls

vars == <<shared, held, unstored, pending, interrupt_count, iterations, spc, cpc, req,
          runs, raised, sent>>

serverVars == <<held, unstored, iterations, spc>>
clientVars == <<cpc, req, runs, raised, sent>>

Resources == {"shm", "map", "handler", "fd", "sender"}

\* The stages of cleanup() in the order of the code: what each gives back.
CleanupOrder == <<"sender", "fd", "map", "shm", "handler">>

Serving == {"reset", "wait", "measure", "sleep"}
Cleaning == {"cleanup1", "cleanup2", "cleanup3", "cleanup4", "cleanup5"}
Starting == {"shmget", "shmat", "register", "create_fd", "register_sender", "publish"}
ServerPcs == {"exited", "failed"} \cup Starting \cup Serving \cup Cleaning
ClientPcs == {"off", "connect", "prepare", "raise", "send", "await", "lower"}

Init ==
  /\ shared = [vector |-> 0, ready |-> 0, response |-> 0]
  /\ held = {}
  /\ unstored = {}
  /\ pending = FALSE
  /\ interrupt_count = 0
  /\ iterations = 0
  /\ spc = "shmget"
  /\ cpc = [c \in Clients |-> "off"]
  /\ req = [c \in Clients |-> 0]
  /\ runs = [c \in Clients |-> 0]
  /\ raised = 0
  /\ sent = 0

-----------------------------------------------------------------------------
\* The server.

\* An interrupt is taken before the server goes on.
At(pc) == spc = pc /\ ~pending

\* The line of main that acquires r: the system call succeeds or fails, and only
\* after its return is its result stored, where cleanup() looks for it.
Acquire(pc, r, next, otherwise) ==
  /\ At(pc)
  /\ \/ /\ unstored = {}
        /\ held' = held \cup {r} /\ unstored' = {r}
        /\ UNCHANGED spc
     \/ /\ unstored = {}
        /\ spc' = otherwise
        /\ UNCHANGED <<held, unstored>>
     \/ /\ unstored = {r}
        /\ unstored' = {} /\ spc' = next
        /\ UNCHANGED held
  /\ UNCHANGED <<shared, pending, interrupt_count, iterations, clientVars>>

\* shmget creates the segment; without it nothing is to be cleaned up.
ServerShmget == Acquire("shmget", "shm", "shmat", "exited")

\* A failed shmat returns without cleanup().
ServerShmat == Acquire("shmat", "map", "register", "failed")

\* memset of the segment, then the handler, for which no variable is kept.
ServerRegister ==
  /\ At("register")
  /\ shared' = [vector |-> 0, ready |-> 0, response |-> 0]
  /\ \/ held' = held \cup {"handler"} /\ spc' = "create_fd"
     \/ held' = held /\ spc' = "cleanup1"
  /\ UNCHANGED <<unstored, pending, interrupt_count, iterations, clientVars>>

ServerCreateFd == Acquire("create_fd", "fd", "register_sender", "cleanup1")

\* The index is chosen where it is first used, in the next step.
ServerRegisterSender == Acquire("register_sender", "sender", "publish", "cleanup1")

ServerPublish ==
  /\ At("publish")
  /\ \E index \in Indices : shared' = [shared EXCEPT !.vector = index]
  /\ spc' = "reset"
  /\ UNCHANGED <<held, unstored, pending, interrupt_count, iterations, clientVars>>

\* The loop of main: the ready flag is reset, ...
ServerReset ==
  /\ At("reset")
  /\ shared' = [shared EXCEPT !.ready = 0]
  /\ spc' = "wait"
  /\ UNCHANGED <<held, unstored, pending, interrupt_count, iterations, clientVars>>

\* ... polled until a client sets it, ...
ServerSeesReady ==
  /\ At("wait")
  /\ shared.ready # 0
  /\ spc' = "measure"
  /\ UNCHANGED <<shared, held, unstored, pending, interrupt_count, iterations, clientVars>>

\* Mutant: the server does not wait for a client.
MeasureTwice ==
  /\ At("measure")
  /\ iterations' = IF interrupt_count > 0 /\ iterations < ServerRequests
                   THEN iterations + 1 ELSE iterations
  /\ spc' = IF iterations' >= ServerRequests THEN "cleanup1" ELSE "wait"
  /\ UNCHANGED <<shared, held, unstored, pending, interrupt_count, clientVars>>

\* ... and the request is counted, if any interrupt has ever been handled.
ServerMeasures ==
  /\ At("measure")
  /\ iterations' = IF interrupt_count > 0 /\ iterations < ServerRequests
                   THEN iterations + 1 ELSE iterations
  /\ spc' = IF iterations' >= ServerRequests THEN "cleanup1" ELSE "sleep"
  /\ UNCHANGED <<shared, held, unstored, pending, interrupt_count, clientVars>>

ServerSleeps ==
  /\ At("sleep")
  /\ spc' = "reset"
  /\ UNCHANGED <<shared, held, unstored, pending, interrupt_count, iterations, clientVars>>

\* Mutant: an interrupt is counted twice.
HandlerCountsTwice ==
  /\ pending
  /\ pending' = FALSE
  /\ interrupt_count' = interrupt_count + 2
  /\ shared' = [shared EXCEPT !.response = (interrupt_count + 2) * 100]
  /\ UNCHANGED <<serverVars, clientVars>>

\* Mutant: the handler only counts.
HandlerMute ==
  /\ pending
  /\ pending' = FALSE
  /\ interrupt_count' = interrupt_count + 1
  /\ UNCHANGED <<shared, serverVars, clientVars>>

\* The handler interrupts the server anywhere.
uintr_handler ==
  /\ pending
  /\ pending' = FALSE
  /\ interrupt_count' = interrupt_count + 1
  /\ shared' = [shared EXCEPT !.response = (interrupt_count + 1) * 100]
  /\ UNCHANGED <<serverVars, clientVars>>

\* SIGINT or SIGTERM: cleanup() from the start, inside cleanup() too, then exit.
signal_handler ==
  /\ spc \notin {"exited", "failed"} /\ ~pending
  /\ spc' = "cleanup1"
  /\ UNCHANGED <<shared, held, unstored, pending, interrupt_count, iterations, clientVars>>

CleanupStage(i) == CASE i = 1 -> "cleanup1" [] i = 2 -> "cleanup2" [] i = 3 -> "cleanup3"
                     [] i = 4 -> "cleanup4" [] OTHER -> "cleanup5"

\* Mutant: the memory is detached before the sender is unregistered.
CleanupMapFirst(i) ==
  /\ At(CleanupStage(i))
  /\ held' = held \ ({<<"map", "fd", "sender", "shm", "handler">>[i]} \ unstored)
  /\ spc' = IF i < Len(CleanupOrder) THEN CleanupStage(i + 1) ELSE "exited"
  /\ UNCHANGED <<shared, unstored, pending, interrupt_count, iterations, clientVars>>

\* Mutant: the segment is not removed.
CleanupKeepsSegment(i) ==
  /\ At(CleanupStage(i))
  /\ held' = held \ ({CleanupOrder[i]} \ (unstored \cup {"shm"}))
  /\ spc' = IF i < Len(CleanupOrder) THEN CleanupStage(i + 1) ELSE "exited"
  /\ UNCHANGED <<shared, unstored, pending, interrupt_count, iterations, clientVars>>

\* One stage of cleanup(): what is not held, or held but in no variable, is skipped.
cleanup(i) ==
  /\ At(CleanupStage(i))
  /\ held' = held \ ({CleanupOrder[i]} \ unstored)
  /\ spc' = IF i < Len(CleanupOrder) THEN CleanupStage(i + 1) ELSE "exited"
  /\ UNCHANGED <<shared, unstored, pending, interrupt_count, iterations, clientVars>>

-----------------------------------------------------------------------------
\* A client.

Goto(c, pc, next) == cpc[c] = pc /\ cpc' = [cpc EXCEPT ![c] = next]

\* shmget and shmat; without a segment the program ends at once.
ClientStart(c) ==
  /\ Goto(c, "off", "connect")
  /\ "shm" \in held
  /\ runs[c] < MaxRuns
  /\ runs' = [runs EXCEPT ![c] = @ + 1]
  /\ req' = [req EXCEPT ![c] = 1]
  /\ UNCHANGED <<shared, pending, interrupt_count, serverVars, raised, sent>>

\* The server is ready when it has published a vector that is not 0.
ClientConnects(c) ==
  /\ Goto(c, "connect", "prepare")
  /\ shared.vector # 0
  /\ UNCHANGED <<shared, pending, interrupt_count, serverVars, req, runs, raised, sent>>

\* The message, and response = 0.
ClientPrepares(c) ==
  /\ Goto(c, "prepare", "raise")
  /\ shared' = [shared EXCEPT !.response = 0]
  /\ UNCHANGED <<pending, interrupt_count, serverVars, req, runs, raised, sent>>

ClientRaises(c) ==
  /\ Goto(c, "raise", "send")
  /\ shared' = [shared EXCEPT !.ready = 1]
  /\ raised' = raised + 1
  /\ UNCHANGED <<pending, interrupt_count, serverVars, req, runs, sent>>

\* senduipi posts the interrupt, or fails and ends the loop.
ClientSends(c) ==
  /\ \/ /\ Goto(c, "send", "await")
        /\ "sender" \in held
        /\ pending' = TRUE
        /\ sent' = sent + 1
     \/ /\ Goto(c, "send", "off")
        /\ UNCHANGED <<pending, sent>>
  /\ UNCHANGED <<shared, interrupt_count, serverVars, req, runs, raised>>

ClientAnswered(c) ==
  /\ Goto(c, "await", "lower")
  /\ shared.response # 0
  /\ UNCHANGED <<shared, pending, interrupt_count, serverVars, req, runs, raised, sent>>

\* ready = 0, and the next request or the end.
ClientLowers(c) ==
  /\ Goto(c, "lower", IF req[c] < ClientRequests THEN "prepare" ELSE "off")
  /\ shared' = [shared EXCEPT !.ready = 0]
  /\ req' = [req EXCEPT ![c] = @ + 1]
  /\ UNCHANGED <<pending, interrupt_count, serverVars, runs, raised, sent>>

-----------------------------------------------------------------------------
Server ==
  \/ ServerShmget \/ ServerShmat \/ ServerRegister \/ ServerCreateFd
  \/ ServerRegisterSender \/ ServerPublish
  \/ ServerReset \/ ServerSeesReady \/ ServerMeasures \/ ServerSleeps
  \/ \E i \in DOMAIN CleanupOrder : cleanup(i)

Client(c) ==
  \/ ClientConnects(c) \/ ClientPrepares(c) \/ ClientRaises(c)
  \/ ClientSends(c) \/ ClientAnswered(c) \/ ClientLowers(c)

Next ==
  \/ Server
  \/ uintr_handler
  \/ signal_handler
  \/ \E c \in Clients : ClientStart(c) \/ Client(c)

Spec == Init /\ [][Next]_vars

\* The operating system runs every process that can run, and the processor
\* delivers a posted interrupt.  Nobody has to start a client or send a signal.
FairSpec ==
  /\ Spec
  /\ WF_vars(Server)
  /\ WF_vars(uintr_handler)
  /\ \A c \in Clients : WF_vars(Client(c))

-----------------------------------------------------------------------------
TypeOK ==
  /\ shared \in [vector : Nat, ready : {0, 1}, response : Nat]
  /\ unstored \subseteq held /\ held \subseteq Resources
  /\ pending \in BOOLEAN
  /\ interrupt_count \in Nat
  /\ iterations \in 0..ServerRequests
  /\ spc \in ServerPcs
  /\ cpc \in [Clients -> ClientPcs]
  /\ req \in [Clients -> 0..(ClientRequests + 1)]
  /\ runs \in [Clients -> Nat]
  /\ raised \in Nat
  /\ sent \in Nat

\* The handler never runs without its memory: while an interrupt is pending the
\* shared memory is attached and the handler registered, because cleanup()
\* unregisters the sender first, although it unregisters the handler last.
HandlerHasMemory == pending => {"map", "handler"} \subseteq held

\* No request is counted twice: the server's loop resets the ready flag before
\* it polls it, so however the clients' stores fall between its steps it counts
\* no more requests than were made.
CountedOnce == iterations <= raised

\* No other client has been started.
Alone(c) == \A d \in Clients \ {c} : runs[d] = 0

\* No answer is made up: a response stands for an interrupt that a client sent,
\* and for a client alone the response to the n-th request is 100 * n, so a
\* response left over from an earlier request is never taken for the answer.
AnswersRequest ==
  /\ interrupt_count <= sent
  /\ \A c \in Clients : Alone(c) /\ cpc[c] = "lower" => shared.response = 100 * sent

\* cleanup() finds what main has acquired, from whatever point of main or of
\* cleanup() itself a signal or an error led to it: a server that ends, shmat's
\* failure apart, has given back everything but the resource it was acquiring,
\* if the signal fell between that system call and the store of its result.
CleanupComplete == spc = "exited" => held = unstored

\* A client alone that has interrupted a server gets its answer, as long as the
\* server is neither signalled nor done, wherever in its loop it is interrupted.
AloneAnswered ==
  \A c \in Clients : (cpc[c] = "await" /\ Alone(c))
                        ~> (cpc[c] # "await" \/ spc \notin Serving \/ ~Alone(c))

-----------------------------------------------------------------------------
\* What holds between any two steps; UserInterruptProofs shows that it is inductive.

\* What the server holds where: main acquires in one order, cleanup() gives back
\* in another, and a signal may lead from any point of either to its start.
HeldAt ==
  /\ spc = "shmget" => held = unstored /\ unstored \subseteq {"shm"}
  /\ spc = "shmat" => held = {"shm"} \cup unstored /\ unstored \subseteq {"map"}
  /\ spc = "register" => held = {"shm", "map"} /\ unstored = {}
  /\ spc = "create_fd" =>
       held = {"shm", "map", "handler"} \cup unstored /\ unstored \subseteq {"fd"}
  /\ spc = "register_sender" =>
       held = {"shm", "map", "handler", "fd"} \cup unstored /\ unstored \subseteq {"sender"}
  /\ spc \in {"publish"} \cup Serving => held = Resources /\ unstored = {}
  /\ spc \in Cleaning /\ "sender" \in held \ unstored =>
       spc = "cleanup1" /\ {"map", "handler"} \subseteq held
  /\ spc \in {"cleanup3", "cleanup4", "cleanup5"} => "fd" \notin held \ unstored
  /\ spc \in {"cleanup4", "cleanup5"} => "map" \notin held \ unstored
  /\ spc = "cleanup5" => "shm" \notin held \ unstored
  /\ spc = "exited" => held = unstored
  /\ spc = "failed" => held = {"shm"} /\ unstored = {}

\* The server has counted fewer requests than were made when it is about to count.
CountBehind ==
  /\ iterations <= raised
  /\ spc = "measure" \/ (spc = "wait" /\ shared.ready = 1) => iterations < raised

\* Before the server publishes its vector, and for ever if a signal leaves an
\* acquisition half done, no client is past the test of the vector.
NobodyConnected ==
  spc \in Starting \/ unstored # {} =>
    shared.vector = 0 /\ \A c \in Clients : cpc[c] \in {"off", "connect"}

\* A client runs only when started, and counts its requests.
ClientProgress ==
  \A c \in Clients :
    /\ runs[c] = 0 => cpc[c] = "off"
    /\ cpc[c] # "off" => req[c] \in 1..ClientRequests

Posted == IF pending THEN 1 ELSE 0

\* With one client there is at most one interrupt, and the response is that of
\* the last one, cleared from the preparation of a request to the handler.
AloneExact ==
  \A c \in Clients : Alone(c) =>
    /\ sent = interrupt_count + Posted
    /\ pending => cpc[c] = "await"
    /\ cpc[c] \in {"raise", "send"} => shared.response = 0
    /\ cpc[c] = "await" => shared.response = IF pending THEN 0 ELSE 100 * sent
    /\ cpc[c] = "lower" => shared.response = 100 * sent

IInv ==
  /\ TypeOK /\ HeldAt /\ HandlerHasMemory /\ CountBehind
  /\ interrupt_count + Posted <= sent
  /\ NobodyConnected /\ ClientProgress /\ AloneExact
=============================================================================
