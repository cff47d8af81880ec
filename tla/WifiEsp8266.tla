----------------------------- MODULE WifiEsp8266 -----------------------------
(***************************************************************************)
(* The ESP8266 driver of the IoT collector, lab5-2-iot-sensor-rtos/src/    *)
(* wifi_esp8266.c: AT commands over a UART whose receive interrupt fills a *)
(* buffer and releases a semaphore, while the thread that sent a command   *)
(* waits for an expected token or a timeout.                               *)
(*                                                                         *)
(* A token of an answer reaches the buffer in two pieces, each with its    *)
(* interrupt; rt_strstr finds it when one read returns both.  The module   *)
(* at the other end of the wire is modelled from how the driver uses it:   *)
(* it may answer a command with its tokens, with ERROR, or not at all, as  *)
(* late as it likes.  One unit of time is the second rt_sem_take waits.    *)
(* The texts of commands and the serial settings are left out.             *)
(***************************************************************************)
EXTENDS Integers, Sequences

CONSTANTS
  Timeout,     \* what the callers pass as timeout
  MaxSends,    \* bound: calls of wifi_send_tcp
  MaxPieces    \* bound: pieces in the receive buffer

ASSUME WifiConstants == {Timeout, MaxSends, MaxPieces} \subseteq Nat

\* The commands of wifi_init and wifi_send_tcp: the token each waits for, what
\* the module answers when all is well, and whether the caller gives up without it.
Script ==
  << [expect |-> "OK", answer |-> <<"OK">>, must |-> TRUE],                       \* AT
     [expect |-> "OK", answer |-> <<"OK">>, must |-> TRUE],                       \* AT+CWMODE
     [expect |-> "WIFI_CONNECTED", answer |-> <<"WIFI_CONNECTED", "OK">>, must |-> TRUE],
     [expect |-> "+CIFSR", answer |-> <<"+CIFSR", "OK">>, must |-> FALSE],
     [expect |-> "OK", answer |-> <<"OK">>, must |-> FALSE],                      \* AT+CIPMUX
     [expect |-> "CONNECT", answer |-> <<"CONNECT", "OK">>, must |-> TRUE],       \* AT+CIPSTART
     [expect |-> ">", answer |-> <<"OK", ">">>, must |-> TRUE],                   \* AT+CIPSEND
     [expect |-> "SEND_OK", answer |-> <<"SEND_OK">>, must |-> FALSE],            \* the data
     [expect |-> "CLOSED", answer |-> <<"CLOSED", "OK">>, must |-> FALSE] >>      \* AT+CIPCLOSE
InitSteps == 1..5
FirstSend == 6
LastSteps == {5, 9}     \* of wifi_init and of wifi_send_tcp
Joins == 3              \* AT+CWJAP
Data == 8               \* the data, written before the command that awaits SEND OK

\* rt_strstr(text, token): some tokens are part of others.
Includes(text, token) ==
  \/ text = token
  \/ <<text, token>> \in {<<"SEND_OK", "OK">>, <<"WIFI_CONNECTED", "CONNECT">>}

VARIABLES
  rx,             \* the receive buffer: pieces [token, half, of]
  rx_sem,
  step,           \* the command in progress or last done, 0 before wifi_init
  pc,             \* "idle", "open", "data", "clear", "take" or "read"
  elapsed,        \* seconds since start_tick
  waited,         \* rt_sem_take has waited a second
  result,         \* what esp8266_send_cmd returned last
  wifi_connected,
  outcome,        \* of wifi_init, then of the last wifi_send_tcp
  sends,          \* calls of wifi_send_tcp so far
  todo,           \* the module: tokens it has yet to send, [token, of]
  half,           \* the module: it is in the middle of a token
  joined          \* the module: it has joined the wireless network

vars == <<rx, rx_sem, step, pc, elapsed, waited, result, wifi_connected, outcome,
          sends, todo, half, joined>>
driverVars == <<step, pc, elapsed, waited, result, wifi_connected, outcome, sends>>
moduleVars == <<todo, half, joined>>

Init ==
  /\ rx = <<>> /\ rx_sem = 0
  /\ step = 0 /\ pc = "idle"
  /\ elapsed = 0 /\ waited = FALSE
  /\ result = "none"
  /\ wifi_connected = 0
  /\ outcome = "none"
  /\ sends = 0
  /\ todo = <<>> /\ half = FALSE /\ joined = FALSE

-----------------------------------------------------------------------------
\* esp8266_send_cmd.

\* What is written reaches the module, which answers it in one of three ways.
Written ==
  \E tokens \in {Script[step].answer, <<"ERROR">>, <<>>} :
    todo' = todo \o [i \in DOMAIN tokens |-> [token |-> tokens[i], of |-> step]]

\* The buffer is emptied, the semaphore is not; then the command is written.  The
\* command that follows the data is the empty one.
SendCmd ==
  /\ pc = "clear"
  /\ rx' = <<>>
  /\ IF step = Data THEN UNCHANGED todo ELSE Written
  /\ pc' = "take"
  /\ elapsed' = 0 /\ waited' = FALSE
  /\ UNCHANGED <<rx_sem, step, result, wifi_connected, outcome, sends, half, joined>>

\* rt_sem_take gets the semaphore, ...
SemTaken ==
  /\ pc = "take"
  /\ rx_sem > 0
  /\ rx_sem' = rx_sem - 1
  /\ pc' = "read"
  /\ UNCHANGED <<rx, step, elapsed, waited, result, wifi_connected, outcome, sends,
                 moduleVars>>

\* One read returns both pieces of a token one after the other.
Contains(buffer, token) ==
  \E i \in 1..(Len(buffer) - 1) :
    Includes(buffer[i].token, token) /\ buffer[i].half = 1 /\ buffer[i + 1].half = 2

\* Mutant: wifi_init goes on without testing what the command returned.
ReturnUnchecked(r) ==
  /\ result' = r
  /\ wifi_connected' = IF step = Joins THEN 1 ELSE wifi_connected
  /\ IF step \notin LastSteps
     THEN step' = step + 1 /\ pc' = "clear" /\ UNCHANGED outcome
     ELSE step' = step /\ pc' = "idle" /\ outcome' = "ok"

\* Mutant: wifi_init goes on when the join has failed.
ReturnJoinIgnored(r) ==
  LET through == r = "ok" \/ ~Script[step].must \/ step = Joins
      last == step \in LastSteps
  IN
  /\ result' = r
  /\ wifi_connected' = IF step = Joins /\ r = "ok" THEN 1 ELSE wifi_connected
  /\ IF through /\ ~last
     THEN /\ step' = step + 1
          /\ pc' = IF step + 1 = Data THEN "data" ELSE "clear"
          /\ UNCHANGED outcome
     ELSE step' = step /\ pc' = "idle" /\ outcome' = IF through THEN "ok" ELSE "error"

\* Return r to wifi_init or wifi_send_tcp, which go on to the next command or
\* return themselves.
Return(r) ==
  LET through == r = "ok" \/ ~Script[step].must
      last == step \in LastSteps
  IN
  /\ result' = r
  /\ wifi_connected' = IF step = Joins /\ r = "ok" THEN 1 ELSE wifi_connected
  /\ IF through /\ ~last
     THEN /\ step' = step + 1
          /\ pc' = IF step + 1 = Data THEN "data" ELSE "clear"
          /\ UNCHANGED outcome
     ELSE step' = step /\ pc' = "idle" /\ outcome' = IF through THEN "ok" ELSE "error"

\* ... reads all there is, looks for the token, then for an error, then at the time.
Read ==
  LET expected == Contains(rx, Script[step].expect)
      failed == Contains(rx, "ERROR")
  IN
  /\ pc = "read"
  /\ \/ expected /\ Return("ok")
     \/ ~expected /\ failed /\ Return("error")
     \/ ~expected /\ ~failed /\ elapsed > Timeout /\ Return("timeout")
     \/ /\ ~expected /\ ~failed /\ elapsed <= Timeout
        /\ pc' = "take"
        /\ UNCHANGED <<result, wifi_connected, step, outcome>>
  /\ rx' = <<>>
  /\ waited' = FALSE
  /\ UNCHANGED <<rx_sem, elapsed, sends, moduleVars>>

\* rt_sem_take times out; the command does if it has waited long enough.
SemTimesOut ==
  /\ pc = "take"
  /\ rx_sem = 0
  /\ waited
  /\ waited' = FALSE
  /\ \/ elapsed > Timeout /\ Return("timeout")
     \/ elapsed <= Timeout /\ UNCHANGED <<pc, result, wifi_connected, step, outcome>>
  /\ UNCHANGED <<rx, rx_sem, elapsed, sends, moduleVars>>

\* A second passes while the thread waits.
Tick ==
  /\ pc = "take"
  /\ ~waited
  /\ waited' = TRUE
  /\ elapsed' = elapsed + 1
  /\ UNCHANGED <<rx, rx_sem, step, pc, result, wifi_connected, outcome, sends,
                 moduleVars>>

-----------------------------------------------------------------------------
\* The callers.

wifi_init ==
  /\ pc = "idle" /\ step = 0
  /\ step' = 1
  /\ pc' = "open"
  /\ UNCHANGED <<rx, rx_sem, elapsed, waited, result, wifi_connected, outcome, sends,
                 moduleVars>>

\* The UART is found and opened, or wifi_init returns an error.
OpenUart ==
  /\ pc = "open"
  /\ \/ pc' = "clear" /\ UNCHANGED outcome
     \/ pc' = "idle" /\ outcome' = "error"
  /\ UNCHANGED <<rx, rx_sem, step, elapsed, waited, result, wifi_connected, sends,
                 moduleVars>>

\* Callers test wifi_is_connected() first.
wifi_send_tcp ==
  /\ pc = "idle" /\ wifi_connected = 1
  /\ sends < MaxSends
  /\ sends' = sends + 1
  /\ step' = FirstSend
  /\ pc' = "clear"
  /\ outcome' = "none"
  /\ UNCHANGED <<rx, rx_sem, elapsed, waited, result, wifi_connected, moduleVars>>

\* wifi_send_tcp writes the data itself, before the next command empties the buffer.
SendData ==
  /\ pc = "data"
  /\ Written
  /\ pc' = "clear"
  /\ UNCHANGED <<rx, rx_sem, step, elapsed, waited, result, wifi_connected, outcome, sends,
                 half, joined>>

-----------------------------------------------------------------------------
\* The UART and the module.

\* Mutant: the interrupt does not release the semaphore.
RxSilent ==
  /\ todo # <<>> /\ Len(rx) < MaxPieces
  /\ LET t == Head(todo) IN
     /\ rx' = Append(rx, [token |-> t.token, half |-> IF half THEN 2 ELSE 1, of |-> t.of])
     /\ todo' = IF half THEN Tail(todo) ELSE todo
     /\ joined' = (joined \/ (half /\ t.token = "WIFI_CONNECTED"))
     /\ half' = ~half
  /\ UNCHANGED <<rx_sem, driverVars>>

\* The next piece arrives, and uart_rx_ind releases the semaphore.
uart_rx_ind ==
  /\ todo # <<>> /\ Len(rx) < MaxPieces
  /\ LET t == Head(todo) IN
     /\ rx' = Append(rx, [token |-> t.token, half |-> IF half THEN 2 ELSE 1, of |-> t.of])
     /\ todo' = IF half THEN Tail(todo) ELSE todo
     /\ joined' = (joined \/ (half /\ t.token = "WIFI_CONNECTED"))
     /\ half' = ~half
  /\ rx_sem' = rx_sem + 1
  /\ UNCHANGED driverVars

Driver == OpenUart \/ SendData \/ SendCmd \/ SemTaken \/ Read \/ SemTimesOut

Next ==
  \/ Driver \/ Tick
  \/ wifi_init \/ wifi_send_tcp
  \/ uart_rx_ind

Spec == Init /\ [][Next]_vars

\* The thread runs and time passes.  The module owes no answer.
FairSpec == Spec /\ WF_vars(Driver) /\ WF_vars(Tick)

-----------------------------------------------------------------------------
Tokens == {"ERROR"} \cup {Script[i].expect : i \in DOMAIN Script} \cup {"OK"}

Piece == [token : Tokens, half : {1, 2}, of : DOMAIN Script]   \* in the buffer
Token == [token : Tokens, of : DOMAIN Script]                  \* on its way

TypeOK ==
  /\ rx \in Seq(Piece)
  /\ rx_sem \in Nat
  /\ step \in 0..Len(Script)
  /\ pc \in {"idle", "open", "data", "clear", "take", "read"}
  /\ elapsed \in 0..(Timeout + 1)
  /\ waited \in BOOLEAN
  /\ result \in {"none", "ok", "error", "timeout"}
  /\ wifi_connected \in {0, 1}
  /\ outcome \in {"none", "ok", "error"}
  /\ sends \in 0..MaxSends
  /\ todo \in Seq(Token)
  /\ half \in BOOLEAN
  /\ joined \in BOOLEAN

\* No lost wakeup: the thread never waits for the semaphore while there is
\* something to read, although a read takes more than one interrupt's worth and
\* the buffer is emptied without the semaphore.
NoLostWakeup == pc = "take" /\ rx # <<>> => rx_sem > 0

\* wifi_connected is set only while the answer to AT+CWJAP of a module that has
\* joined the network is read, never by the late answer to another command.
ConnectedWasJoined ==
  [][wifi_connected' # wifi_connected =>
       joined /\ \E i \in DOMAIN rx : rx[i].of = Joins]_vars

\* The calls in progress as the collector sees them.
Service == INSTANCE WifiService WITH
  call <- IF pc = "idle" THEN "none" ELSE IF step \in InitSteps THEN "init" ELSE "send",
  connected <- wifi_connected

\* The driver keeps the promises the collector builds on: wifi_init returns
\* RT_EOK exactly when it has joined, the flag stays set, and every call
\* returns, however the module behaves.
ImplementsService == Service!Spec

-----------------------------------------------------------------------------
\* What holds between any two steps; WifiProofs shows that it is inductive.

\* The two pieces of a token follow each other, in the buffer or across the wire.
Halves ==
  /\ \A i \in 1..(Len(rx) - 1) :
       rx[i].half = 1 /\ rx[i + 1].half = 2 => rx[i + 1].token = rx[i].token
  /\ rx # <<>> /\ rx[Len(rx)].half = 1 =>
       half /\ todo # <<>> /\ todo[1].token = rx[Len(rx)].token

\* Only AT+CWJAP is answered with WIFI CONNECTED, by a module that has joined when
\* the answer is complete.
JoinAnswers ==
  /\ \A i \in 1..Len(rx) : rx[i].token = "WIFI_CONNECTED" =>
       rx[i].of = Joins /\ (rx[i].half = 2 => joined)
  /\ \A i \in 1..Len(todo) : todo[i].token = "WIFI_CONNECTED" => todo[i].of = Joins

\* How far the calls are, and that the driver is connected from the join on.
Calls ==
  /\ pc # "idle" => step # 0 /\ outcome = "none"
  /\ pc = "open" => step = 1
  /\ step = 0 => outcome = "none" /\ wifi_connected = 0
  /\ step >= FirstSend => wifi_connected = 1
  /\ pc # "idle" /\ step < FirstSend => (wifi_connected = 1 <=> step > Joins)

IInv ==
  /\ TypeOK /\ NoLostWakeup /\ Halves /\ JoinAnswers /\ Calls
  /\ pc = "take" /\ ~waited => elapsed <= Timeout
=============================================================================
