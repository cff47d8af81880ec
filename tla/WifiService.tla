---------------------------- MODULE WifiService ----------------------------
(***************************************************************************)
(* What the IoT collector relies on when it calls the ESP8266 driver,      *)
(* lab5-2-iot-sensor-rtos/src/wifi_esp8266.c: wifi_init is called once,    *)
(* every call returns, wifi_init returns RT_EOK exactly when the driver    *)
(* considers itself connected, and it stays so.  Whether data arrives is   *)
(* not promised.  WifiEsp8266 implements this; Collector builds on it.     *)
(***************************************************************************)
VARIABLES
  call,       \* the call in progress: "none", "init" or "send"
  connected,  \* wifi_is_connected()
  outcome     \* of the last call, "none" before and during one that sends

vars == <<call, connected, outcome>>

Init == call = "none" /\ connected = 0 /\ outcome = "none"

BeginInit ==
  /\ call = "none" /\ outcome = "none"
  /\ call' = "init"
  /\ UNCHANGED <<connected, outcome>>

Join ==
  /\ call = "init" /\ connected = 0
  /\ connected' = 1
  /\ UNCHANGED <<call, outcome>>

EndInit ==
  /\ call = "init"
  /\ call' = "none"
  /\ outcome' = IF connected = 1 THEN "ok" ELSE "error"
  /\ UNCHANGED connected

\* Callers have seen wifi_is_connected().
BeginSend ==
  /\ call = "none" /\ connected = 1
  /\ call' = "send"
  /\ outcome' = "none"
  /\ UNCHANGED connected

EndSend ==
  /\ call = "send"
  /\ call' = "none"
  /\ outcome' \in {"ok", "error"}
  /\ UNCHANGED connected

Return == EndInit \/ EndSend

Next == BeginInit \/ Join \/ BeginSend \/ Return

Safety == Init /\ [][Next]_vars

\* Every call returns, answer or no answer.
Spec == Safety /\ WF_vars(Return)
=============================================================================
