----------------------------- MODULE WifiProofs -----------------------------
(***************************************************************************)
(* Proofs about WifiEsp8266, for every timeout, buffer size and number of  *)
(* calls.                                                                  *)
(***************************************************************************)
EXTENDS WifiEsp8266, TLAPS

\* There are nine commands.
LEMMA NineCommands ==
  /\ Len(Script) = 9 /\ DOMAIN Script = 1..9
  /\ \A i \in 1..9 : i = 1 \/ i = 2 \/ i = 3 \/ i = 4 \/ i = 5 \/ i = 6 \/ i = 7 \/ i = 8 \/ i = 9
BY DEF Script

\* Which of them end the call that issues them, and what the join waits for.
LEMMA ScriptFacts ==
  /\ \A i \in 1..9 : Script[i].must <=> i \in {1, 2, 3, 6, 7}
  /\ Script[3].expect = "WIFI_CONNECTED"
<1>1. Script[1].must /\ Script[2].must /\ Script[3].must /\ Script[6].must /\ Script[7].must
  BY DEF Script
<1>2. ~Script[4].must /\ ~Script[5].must /\ ~Script[8].must /\ ~Script[9].must
  BY DEF Script
<1>3. Script[3].expect = "WIFI_CONNECTED"
  BY DEF Script
<1> QED
  BY <1>1, <1>2, <1>3, NineCommands

\* The tokens that are answered.
LEMMA TokenFacts ==
  {"OK", "WIFI_CONNECTED", "+CIFSR", "CONNECT", ">", "SEND_OK", "CLOSED", "ERROR"} \subseteq Tokens
<1>1. Script[3].expect = "WIFI_CONNECTED" /\ Script[4].expect = "+CIFSR"
      /\ Script[6].expect = "CONNECT" /\ Script[7].expect = ">" /\ Script[8].expect = "SEND_OK"
      /\ Script[9].expect = "CLOSED"
  BY DEF Script
<1>2. \A i \in 1..9 : Script[i].expect \in Tokens
  BY NineCommands DEF Tokens
<1>3. {3, 4, 6, 7, 8, 9} \subseteq 1..9 /\ {"OK", "ERROR"} \subseteq Tokens
  BY DEF Tokens
<1> QED
  BY <1>1, <1>2, <1>3

\* An answer of one token other than that of the join is no answer to it.
LEMMA OneToken ==
  ASSUME NEW T, NEW t \in T, NEW a, a = <<t>>, t # "WIFI_CONNECTED"
  PROVE  a \in Seq(T) /\ \A j \in 1..Len(a) : a[j] # "WIFI_CONNECTED"
OBVIOUS

\* Likewise an answer of two tokens.
LEMMA TwoTokens ==
  ASSUME NEW T, NEW t \in T, NEW u \in T, NEW a, a = <<t, u>>,
         t # "WIFI_CONNECTED", u # "WIFI_CONNECTED"
  PROVE  a \in Seq(T) /\ \A j \in 1..Len(a) : a[j] # "WIFI_CONNECTED"
OBVIOUS

\* What the module answers to a command is a sequence of tokens, with WIFI
\* CONNECTED among them only for the join.
LEMMA AnswerFacts ==
  ASSUME NEW i \in 1..9
  PROVE  /\ Script[i].answer \in Seq(Tokens)
         /\ \A j \in 1..Len(Script[i].answer) :
              Script[i].answer[j] = "WIFI_CONNECTED" => i = 3
<1>1. /\ Script[1].answer = <<"OK">> /\ Script[2].answer = <<"OK">>
      /\ Script[3].answer = <<"WIFI_CONNECTED", "OK">> /\ Script[4].answer = <<"+CIFSR", "OK">>
      /\ Script[5].answer = <<"OK">> /\ Script[6].answer = <<"CONNECT", "OK">>
      /\ Script[7].answer = <<"OK", ">">> /\ Script[8].answer = <<"SEND_OK">>
      /\ Script[9].answer = <<"CLOSED", "OK">>
  BY DEF Script
<1>2. \A t \in {"OK", "+CIFSR", "CONNECT", ">", "SEND_OK", "CLOSED"} :
        t \in Tokens /\ t # "WIFI_CONNECTED"
  BY TokenFacts
<1>3. \A t, u \in Tokens : <<t, u>> \in Seq(Tokens)
  OBVIOUS
<1>4. CASE i = 3
  <2>1. "WIFI_CONNECTED" \in Tokens /\ "OK" \in Tokens
    BY TokenFacts
  <2>2. <<"WIFI_CONNECTED", "OK">> \in Seq(Tokens)
    BY <2>1, <1>3, Zenon
  <2> QED
    BY <2>2, <1>1, <1>4, Zenon
<1>5. CASE i \in {1, 2, 5, 8}
  <2>1. PICK t \in {"OK", "SEND_OK"} : Script[i].answer = <<t>>
    BY <1>1, <1>5
  <2> QED
    BY <1>2, <2>1, OneToken, Zenon
<1>6. CASE i \in {4, 6, 7, 9}
  <2>1. PICK t, u \in {"OK", "+CIFSR", "CONNECT", ">", "CLOSED"} : Script[i].answer = <<t, u>>
    BY <1>1, <1>6
  <2>2. t \in Tokens /\ u \in Tokens /\ t # "WIFI_CONNECTED" /\ u # "WIFI_CONNECTED"
    BY <1>2
  <2> QED
    BY <2>1, <2>2, TwoTokens
<1> QED
  BY <1>4, <1>5, <1>6, NineCommands

\* The tokens of one answer go behind those that are on their way.
LEMMA WrittenTokens ==
  ASSUME todo \in Seq(Token), step \in 1..9, Written,
         \A i \in 1..Len(todo) : todo[i].token = "WIFI_CONNECTED" => todo[i].of = Joins
  PROVE  /\ todo' \in Seq(Token)
         /\ \A i \in 1..Len(todo') : todo'[i].token = "WIFI_CONNECTED" => todo'[i].of = Joins
         /\ todo # <<>> => todo' # <<>> /\ todo'[1] = todo[1]
<1>1. PICK tokens \in {Script[step].answer, <<"ERROR">>, <<>>} :
        todo' = todo \o [i \in DOMAIN tokens |-> [token |-> tokens[i], of |-> step]]
  BY DEF Written
<1>2. /\ tokens \in Seq(Tokens)
      /\ \A j \in 1..Len(tokens) : tokens[j] = "WIFI_CONNECTED" => step = 3
  <2>1. CASE tokens = Script[step].answer
    BY <2>1, AnswerFacts, Zenon
  <2>2. CASE tokens = <<"ERROR">>
    <3>1. "ERROR" \in Tokens /\ "ERROR" # "WIFI_CONNECTED"
      BY TokenFacts
    <3> QED
      BY <2>2, <3>1, OneToken, Zenon
  <2>3. CASE tokens = <<>>
    BY <2>3
  <2> QED
    BY <1>1, <2>1, <2>2, <2>3
<1> DEFINE new == [i \in DOMAIN tokens |-> [token |-> tokens[i], of |-> step]]
<1>3. /\ DOMAIN tokens = 1..Len(tokens) /\ Len(tokens) \in Nat
      /\ \A i \in 1..Len(tokens) : tokens[i] \in Tokens
  BY <1>2
<1>4. \A i \in 1..Len(tokens) : [token |-> tokens[i], of |-> step] \in Token
  BY <1>3, NineCommands DEF Token
<1>5. new \in Seq(Token) /\ Len(new) = Len(tokens)
  BY <1>3, <1>4
<1>6. \A i \in 1..Len(new) : new[i].token = "WIFI_CONNECTED" => new[i].of = Joins
  BY <1>2, <1>3, <1>5 DEF Joins
<1>7. todo' = todo \o new
  BY <1>1
<1> HIDE DEF new
<1> QED
  BY <1>5, <1>6, <1>7

\* What a return of esp8266_send_cmd does to the call that issued the command.
LEMMA ReturnFacts ==
  ASSUME TypeOK, Calls, pc \in {"take", "read"},
         NEW r \in {"ok", "error", "timeout"}, Return(r)
  PROVE  /\ result' = r /\ step' \in 1..9 /\ wifi_connected' \in {0, 1}
         /\ pc' \in {"idle", "data", "clear"} /\ outcome' \in {"none", "ok", "error"}
         /\ Calls'
         /\ wifi_connected' # wifi_connected => step = 3 /\ r = "ok"
<1>1. step \in 1..9 /\ outcome = "none" /\ wifi_connected \in {0, 1}
  BY NineCommands DEF TypeOK, Calls
<1>2. Script[step].must <=> step \in {1, 2, 3, 6, 7}
  BY <1>1, ScriptFacts
<1> DEFINE through == r = "ok" \/ step \notin {1, 2, 3, 6, 7}
<1>3. /\ result' = r
      /\ wifi_connected' = IF step = 3 /\ r = "ok" THEN 1 ELSE wifi_connected
      /\ \/ /\ through /\ step \notin {5, 9}
            /\ step' = step + 1 /\ pc' \in {"data", "clear"} /\ outcome' = outcome
         \/ /\ ~(through /\ step \notin {5, 9})
            /\ step' = step /\ pc' = "idle" /\ outcome' \in {"ok", "error"}
  BY <1>2 DEF Return, Joins, LastSteps
<1> QED
  BY <1>1, <1>3 DEF Calls, Joins, FirstSend

\* A completed WIFI CONNECTED in the buffer is the answer of a module that has joined.
LEMMA JoinRead ==
  ASSUME TypeOK, Halves, JoinAnswers, Contains(rx, "WIFI_CONNECTED")
  PROVE  joined /\ \E i \in DOMAIN rx : rx[i].of = Joins
<1>1. PICK i \in 1..(Len(rx) - 1) :
        Includes(rx[i].token, "WIFI_CONNECTED") /\ rx[i].half = 1 /\ rx[i + 1].half = 2
  BY DEF Contains
<1>2. rx[i].token = "WIFI_CONNECTED"
  BY <1>1 DEF Includes
<1>3. i \in 1..Len(rx) /\ i + 1 \in 1..Len(rx) /\ DOMAIN rx = 1..Len(rx)
  BY DEF TypeOK
<1>4. rx[i + 1].token = "WIFI_CONNECTED"
  BY <1>1, <1>2 DEF Halves
<1> QED
  BY <1>1, <1>2, <1>3, <1>4 DEF JoinAnswers

\* esp8266_send_cmd and the writing of the data.
LEMMA WritingInv ==
  ASSUME IInv, SendCmd \/ SendData
  PROVE  IInv'
<1>1. step \in 1..9
  BY NineCommands DEF IInv, TypeOK, Calls, SendCmd, SendData
<1>2. /\ todo' \in Seq(Token)
      /\ \A i \in 1..Len(todo') : todo'[i].token = "WIFI_CONNECTED" => todo'[i].of = Joins
      /\ todo # <<>> => todo' # <<>> /\ todo'[1] = todo[1]
  BY <1>1, WrittenTokens DEF IInv, TypeOK, JoinAnswers, SendCmd, SendData
<1>3. CASE SendCmd
  <2>1. TypeOK'
    <3>1. waited' \in BOOLEAN
      BY <1>3, Zenon DEF SendCmd
    <3>2. rx' \in Seq(Piece) /\ 0 \in 0..(Timeout + 1)
      BY <1>3, WifiConstants DEF SendCmd, WifiConstants
    <3> QED
      BY <1>2, <1>3, <3>1, <3>2 DEF IInv, TypeOK, SendCmd
  <2>2. NoLostWakeup' /\ Halves' /\ JoinAnswers'
    BY <1>2, <1>3 DEF SendCmd, NoLostWakeup, Halves, JoinAnswers
  <2>3. Calls' /\ (pc' = "take" /\ ~waited' => elapsed' <= Timeout')
    BY <1>3, WifiConstants DEF IInv, Calls, SendCmd, WifiConstants
  <2> QED
    BY <2>1, <2>2, <2>3 DEF IInv
<1>4. CASE SendData
  <2>1. TypeOK'
    BY <1>2, <1>4 DEF IInv, TypeOK, SendData
  <2>2. NoLostWakeup' /\ Halves' /\ JoinAnswers'
    BY <1>2, <1>4 DEF IInv, SendData, NoLostWakeup, Halves, JoinAnswers
  <2>3. Calls' /\ (pc' = "take" /\ ~waited' => elapsed' <= Timeout')
    BY <1>4 DEF IInv, Calls, SendData
  <2> QED
    BY <2>1, <2>2, <2>3 DEF IInv
<1> QED
  BY <1>3, <1>4

\* The steps that wait, and the two ends of a wait.
LEMMA WaitingInv ==
  ASSUME IInv, SemTaken \/ Tick \/ Read \/ SemTimesOut
  PROVE  IInv'
<1> USE DEF moduleVars
<1>1. CASE SemTaken
  <2>1. TypeOK'
    BY <1>1 DEF IInv, TypeOK, SemTaken
  <2>2. NoLostWakeup' /\ Halves' /\ JoinAnswers' /\ Calls'
    BY <1>1 DEF IInv, SemTaken, NoLostWakeup, Halves, JoinAnswers, Calls
  <2> QED
    BY <1>1, <2>1, <2>2 DEF IInv, SemTaken
<1>2. CASE Tick
  <2>1. TypeOK'
    <3>1. waited' \in BOOLEAN /\ ~waited
      BY <1>2, Zenon DEF Tick
    <3>2. elapsed' \in 0..(Timeout + 1)
      BY <1>2, <3>1, WifiConstants DEF IInv, TypeOK, Tick, WifiConstants
    <3> QED
      BY <1>2, <3>1, <3>2 DEF IInv, TypeOK, Tick
  <2>2. NoLostWakeup' /\ Halves' /\ JoinAnswers' /\ Calls'
    BY <1>2 DEF IInv, Tick, NoLostWakeup, Halves, JoinAnswers, Calls
  <2> QED
    BY <1>2, <2>1, <2>2 DEF IInv, Tick
<1>3. CASE Read
  <2>1. \/ \E r \in {"ok", "error", "timeout"} : Return(r)
        \/ pc' = "take" /\ elapsed <= Timeout /\ UNCHANGED <<result, wifi_connected, step, outcome>>
    BY <1>3 DEF Read
  <2>2. /\ result' \in {"none", "ok", "error", "timeout"}
        /\ step' \in 0..9 /\ wifi_connected' \in {0, 1}
        /\ pc' \in {"idle", "data", "clear", "take"}
        /\ outcome' \in {"none", "ok", "error"} /\ Calls'
        /\ pc' = "take" => elapsed <= Timeout
    BY <1>3, <2>1, ReturnFacts, NineCommands DEF IInv, TypeOK, Calls, Read
  <2>3. rx' = <<>> /\ waited' = FALSE /\ UNCHANGED <<rx_sem, elapsed, sends, todo, half, joined>>
    BY <1>3 DEF Read
  <2>4. TypeOK'
    <3>1. rx' \in Seq(Piece)
      BY <2>3
    <3>2. waited' \in BOOLEAN
      BY <2>3, Zenon
    <3> QED
      BY <2>2, <2>3, <3>1, <3>2, NineCommands DEF IInv, TypeOK
  <2>5. NoLostWakeup' /\ Halves' /\ JoinAnswers'
    BY <2>3 DEF IInv, NoLostWakeup, Halves, JoinAnswers
  <2> QED
    BY <2>2, <2>3, <2>4, <2>5 DEF IInv
<1>4. CASE SemTimesOut
  <2>1. \/ \E r \in {"ok", "error", "timeout"} : Return(r)
        \/ elapsed <= Timeout /\ UNCHANGED <<pc, result, wifi_connected, step, outcome>>
    BY <1>4 DEF SemTimesOut
  <2>2. /\ result' \in {"none", "ok", "error", "timeout"}
        /\ step' \in 0..9 /\ wifi_connected' \in {0, 1}
        /\ pc' \in {"idle", "data", "clear", "take"}
        /\ outcome' \in {"none", "ok", "error"} /\ Calls'
        /\ pc' = "take" => elapsed <= Timeout
    BY <1>4, <2>1, ReturnFacts, NineCommands DEF IInv, TypeOK, Calls, SemTimesOut
  <2>3. /\ pc = "take" /\ waited' = FALSE
        /\ UNCHANGED <<rx, rx_sem, elapsed, sends, todo, half, joined>>
    BY <1>4 DEF SemTimesOut
  <2>4. TypeOK'
    BY <2>2, <2>3, NineCommands DEF IInv, TypeOK
  <2>5. NoLostWakeup' /\ Halves' /\ JoinAnswers'
    BY <2>3 DEF IInv, NoLostWakeup, Halves, JoinAnswers
  <2> QED
    BY <2>2, <2>3, <2>4, <2>5 DEF IInv
<1> QED
  BY <1>1, <1>2, <1>3, <1>4

\* The beginning of wifi_init and of wifi_send_tcp.
LEMMA CallersInv ==
  ASSUME IInv, wifi_init \/ OpenUart \/ wifi_send_tcp
  PROVE  IInv'
<1>1. UNCHANGED <<rx, rx_sem, elapsed, waited, result, wifi_connected, todo, half, joined>>
  BY DEF wifi_init, OpenUart, wifi_send_tcp, moduleVars
<1>2. pc' # "take" /\ NoLostWakeup' /\ Halves' /\ JoinAnswers'
  BY <1>1 DEF IInv, wifi_init, OpenUart, wifi_send_tcp, NoLostWakeup, Halves, JoinAnswers
<1>3. TypeOK'
  BY <1>1, NineCommands, WifiConstants
    DEF IInv, TypeOK, wifi_init, OpenUart, wifi_send_tcp, FirstSend, WifiConstants
<1>4. Calls'
  BY <1>1 DEF IInv, TypeOK, Calls, wifi_init, OpenUart, wifi_send_tcp, FirstSend, Joins
<1> QED
  BY <1>2, <1>3, <1>4 DEF IInv

\* A piece arrives.
LEMMA ArrivalInv ==
  ASSUME IInv, uart_rx_ind
  PROVE  IInv'
<1> DEFINE t == todo[1]
           piece == [token |-> t.token, half |-> IF half THEN 2 ELSE 1, of |-> t.of]
<1>1. /\ todo # <<>> /\ rx' = Append(rx, piece) /\ todo' = IF half THEN Tail(todo) ELSE todo
      /\ rx_sem' = rx_sem + 1
      /\ UNCHANGED <<step, pc, elapsed, waited, result, wifi_connected, outcome, sends>>
  BY DEF uart_rx_ind, driverVars, IInv, TypeOK
<1>2. /\ half' \in BOOLEAN /\ joined' \in BOOLEAN /\ (half' <=> ~half) /\ (joined => joined')
      /\ half /\ Head(todo).token = "WIFI_CONNECTED" => joined'
  BY Zenon DEF uart_rx_ind
<1>3. rx \in Seq(Piece) /\ todo \in Seq(Token) /\ t \in Token /\ Head(todo) = t /\ half \in BOOLEAN
  BY <1>1 DEF IInv, TypeOK
<1>4. piece \in Piece
  BY <1>3 DEF Piece, Token
<1>5. rx' \in Seq(Piece) /\ todo' \in Seq(Token)
  BY <1>1, <1>3, <1>4
<1>6. TypeOK'
  BY <1>1, <1>2, <1>5 DEF IInv, TypeOK
<1>7. NoLostWakeup' /\ Calls' /\ (pc' = "take" /\ ~waited' => elapsed' <= Timeout')
  BY <1>1 DEF IInv, TypeOK, NoLostWakeup, Calls
<1>8. Halves'
  BY <1>1, <1>2, <1>3, <1>4 DEF IInv, Halves
<1>9. JoinAnswers'
  BY <1>1, <1>2, <1>3, <1>4 DEF IInv, JoinAnswers, Joins
<1> QED
  BY <1>6, <1>7, <1>8, <1>9 DEF IInv

\* The inductive invariant of the driver.
THEOREM WifiInvariant == Spec => []IInv
<1>1. Init => IInv
  <2> SUFFICES ASSUME Init PROVE IInv
    OBVIOUS
  <2>1. waited \in BOOLEAN /\ half \in BOOLEAN /\ joined \in BOOLEAN
    BY Zenon DEF Init
  <2>2. rx \in Seq(Piece) /\ todo \in Seq(Token) /\ Len(rx) = 0 /\ Len(todo) = 0
    BY DEF Init
  <2>3. TypeOK
    BY <2>1, <2>2, WifiConstants, NineCommands DEF Init, TypeOK, WifiConstants
  <2>4. /\ NoLostWakeup /\ Halves /\ JoinAnswers /\ Calls
        /\ (pc = "take" /\ ~waited => elapsed <= Timeout)
    BY <2>2 DEF Init, NoLostWakeup, Halves, JoinAnswers, Calls, FirstSend
  <2> QED
    BY <2>3, <2>4 DEF IInv
<1>2. IInv /\ UNCHANGED vars => IInv'
  BY DEF vars, IInv, TypeOK, NoLostWakeup, Halves, JoinAnswers, Calls
<1>3. IInv /\ [Next]_vars => IInv'
  BY <1>2, WritingInv, WaitingInv, CallersInv, ArrivalInv DEF Next, Driver
<1> QED
  BY <1>1, <1>3, PTL DEF Spec

\* The thread never waits for the semaphore while there is something to read,
\* however many interrupts a read is worth and for any size of the buffer.
THEOREM WakeupsKept == Spec => []NoLostWakeup
<1>1. IInv => NoLostWakeup
  BY DEF IInv
<1> QED
  BY <1>1, WifiInvariant, PTL

\* The flag changes only when esp8266_send_cmd returns from the join, on a buffer
\* that holds the join's own answer.
LEMMA ConnectedStep ==
  ASSUME IInv, [Next]_vars, wifi_connected' # wifi_connected
  PROVE  joined /\ (\E i \in DOMAIN rx : rx[i].of = Joins) /\ Read /\ Return("ok") /\ step = 3
<1>1. Read \/ SemTimesOut
  BY
    DEF Next, Driver, vars, SendCmd, SendData, SemTaken, Tick, wifi_init, OpenUart,
        wifi_send_tcp,
         uart_rx_ind, driverVars
<1>2. CASE SemTimesOut
  <2>1. pc = "take" /\ Return("timeout")
    BY <1>2 DEF SemTimesOut
  <2> QED
    BY <2>1, ReturnFacts DEF IInv
<1>3. CASE Read
  <2>1. pc = "read" /\ \E r \in {"ok", "error", "timeout"} : Return(r)
    BY <1>3 DEF Read
  <2>2. step = 3
    BY <2>1, ReturnFacts DEF IInv
  <2>3. ~Return("error") /\ ~Return("timeout")
    BY <2>1, ReturnFacts DEF IInv
  <2>4. Contains(rx, Script[step].expect) /\ Return("ok")
    BY <1>3, <2>3 DEF Read
  <2>5. Contains(rx, "WIFI_CONNECTED")
    BY <2>2, <2>4, ScriptFacts
  <2> QED
    BY <1>3, <2>2, <2>4, <2>5, JoinRead DEF IInv
<1> QED
  BY <1>1, <1>2, <1>3

\* wifi_connected is set only on reading the join's own, complete answer, never by
\* a late answer to another command, however the answers are cut and delayed.
THEOREM ConnectedByJoin == Spec => ConnectedWasJoined
<1>1. IInv /\ [Next]_vars =>
        [wifi_connected' # wifi_connected => joined /\ \E i \in DOMAIN rx : rx[i].of = Joins]_vars
  BY ConnectedStep
<1> QED
  BY <1>1, WifiInvariant, PTL DEF Spec, ConnectedWasJoined

\* A return of esp8266_send_cmd is the end of a call, the join, or not visible.
LEMMA ReturnSimulation ==
  ASSUME IInv, pc \in {"take", "read"}, NEW r \in {"ok", "error", "timeout"}, Return(r)
  PROVE  [Service!Next]_(Service!vars)
<1>1. step \in 1..9 /\ outcome = "none" /\ wifi_connected \in {0, 1}
      /\ (step >= 6 => wifi_connected = 1) /\ (step < 6 => (wifi_connected = 1 <=> step > 3))
  BY NineCommands DEF IInv, TypeOK, Calls, FirstSend, Joins
<1>2. Script[step].must <=> step \in {1, 2, 3, 6, 7}
  BY <1>1, ScriptFacts
<1> DEFINE through == r = "ok" \/ step \notin {1, 2, 3, 6, 7}
<1>3. wifi_connected' = IF step = 3 /\ r = "ok" THEN 1 ELSE wifi_connected
  BY DEF Return, Joins
<1>4. CASE through /\ step \notin {5, 9}
  <2>1. step' = step + 1 /\ pc' \in {"data", "clear"} /\ outcome' = outcome
    BY <1>2, <1>4 DEF Return, LastSteps
  <2>2. step \in InitSteps <=> step' \in InitSteps
    BY <1>1, <1>4, <2>1 DEF InitSteps
  <2>3. CASE step = 3 /\ r = "ok"
    <3>1. Service!Join
      BY <1>1, <1>3, <2>1, <2>2, <2>3 DEF Service!Join, InitSteps
    <3> QED
      BY <3>1 DEF Service!Next
  <2>4. CASE ~(step = 3 /\ r = "ok")
    BY <1>3, <2>1, <2>2, <2>4 DEF Service!vars
  <2> QED
    BY <2>3, <2>4
<1>5. CASE ~(through /\ step \notin {5, 9})
  <2>1. step' = step /\ pc' = "idle" /\ outcome' = IF through THEN "ok" ELSE "error"
    BY <1>2, <1>5 DEF Return, LastSteps
  <2>2. CASE step \in InitSteps
    <3>1. wifi_connected' = wifi_connected /\ (through <=> wifi_connected = 1)
      BY <1>1, <1>3, <1>5, <2>2 DEF InitSteps
    <3>2. Service!EndInit
      BY <2>1, <2>2, <3>1 DEF Service!EndInit
    <3> QED
      BY <3>2 DEF Service!Next, Service!Return
  <2>3. CASE step \notin InitSteps
    <3>1. wifi_connected' = wifi_connected
      BY <1>3, <2>3 DEF InitSteps
    <3>2. Service!EndSend
      BY <2>1, <2>3, <3>1 DEF Service!EndSend
    <3> QED
      BY <3>2 DEF Service!Next, Service!Return
  <2> QED
    BY <2>2, <2>3
<1> QED
  BY <1>4, <1>5

\* Every step of the driver and the module is one of WifiService, or invisible.
LEMMA StepSimulation ==
  ASSUME IInv, [Next]_vars
  PROVE  [Service!Next]_(Service!vars)
<1>1. CASE UNCHANGED <<step, wifi_connected, outcome>> /\ pc # "idle" /\ pc' # "idle"
  BY <1>1 DEF Service!vars
<1>2. CASE UNCHANGED <<step, pc, wifi_connected, outcome>>
  BY <1>2 DEF Service!vars
<1>3. CASE SendCmd \/ SendData \/ SemTaken \/ Tick \/ uart_rx_ind \/ UNCHANGED vars
  BY <1>1, <1>2, <1>3 DEF SendCmd, SendData, SemTaken, Tick, uart_rx_ind, driverVars, vars
<1>4. CASE Read
  <2>1. pc = "read"
    BY <1>4 DEF Read
  <2>2. \/ \E r \in {"ok", "error", "timeout"} : Return(r)
        \/ pc' = "take" /\ UNCHANGED <<result, wifi_connected, step, outcome>>
    BY <1>4 DEF Read
  <2> QED
    BY <1>1, <2>1, <2>2, ReturnSimulation
<1>5. CASE SemTimesOut
  <2>1. pc = "take"
    BY <1>5 DEF SemTimesOut
  <2>2. \/ \E r \in {"ok", "error", "timeout"} : Return(r)
        \/ UNCHANGED <<pc, result, wifi_connected, step, outcome>>
    BY <1>5 DEF SemTimesOut
  <2> QED
    BY <1>2, <2>1, <2>2, ReturnSimulation
<1>6. CASE wifi_init
  <2>1. /\ pc = "idle" /\ outcome = "none" /\ step' \in InitSteps /\ pc' = "open"
        /\ UNCHANGED <<wifi_connected, outcome>>
    BY <1>6 DEF wifi_init, IInv, Calls, InitSteps
  <2>2. Service!BeginInit
    BY <2>1 DEF Service!BeginInit
  <2> QED
    BY <2>2 DEF Service!Next
<1>7. CASE OpenUart
  <2>1. pc = "open" /\ step \in InitSteps /\ step' = step /\ wifi_connected' = wifi_connected
        /\ wifi_connected # 1
    BY <1>7 DEF OpenUart, IInv, Calls, InitSteps, FirstSend, Joins
  <2>2. CASE pc' = "clear" /\ outcome' = outcome
    BY <1>1, <2>1, <2>2
  <2>3. CASE pc' = "idle" /\ outcome' = "error"
    <3>1. Service!EndInit
      BY <2>1, <2>3 DEF Service!EndInit
    <3> QED
      BY <3>1 DEF Service!Next, Service!Return
  <2> QED
    BY <1>7, <2>2, <2>3 DEF OpenUart
<1>8. CASE wifi_send_tcp
  <2>1. /\ pc = "idle" /\ wifi_connected = 1 /\ step' \notin InitSteps /\ pc' = "clear"
        /\ outcome' = "none" /\ wifi_connected' = wifi_connected
    BY <1>8 DEF wifi_send_tcp, InitSteps, FirstSend
  <2>2. Service!BeginSend
    BY <2>1 DEF Service!BeginSend
  <2> QED
    BY <2>2 DEF Service!Next
<1> QED
  BY <1>3, <1>4, <1>5, <1>6, <1>7, <1>8 DEF Next, Driver

\* The driver keeps the promises the collector builds on, but for the liveness of
\* ImplementsService: wifi_init is called once and returns RT_EOK exactly when the
\* driver has joined, the flag stays set, and data is sent only then.
THEOREM ServiceImplemented == Spec => Service!Safety
<1>1. Init => Service!Init
  BY DEF Init, Service!Init
<1>2. IInv /\ [Next]_vars => [Service!Next]_(Service!vars)
  BY StepSimulation
<1> QED
  BY <1>1, <1>2, WifiInvariant, PTL DEF Spec, Service!Safety
=============================================================================
