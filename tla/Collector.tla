------------------------------ MODULE Collector ------------------------------
(***************************************************************************)
(* The IoT data collector, lab5-2-iot-sensor-rtos/src/main.c with          *)
(* mqtt_client.c: main starts a sensor thread that reads the DHT11 into    *)
(* current_data and releases data_ready_sem, and an MQTT thread that takes *)
(* the semaphore, formats current_data and publishes it.                   *)
(*                                                                         *)
(* RT-Thread runs the ready thread of the highest priority.  The MQTT      *)
(* thread (8) preempts the sensor thread (10) wherever that is, and not    *)
(* the other way round, so that what it does without blocking is one step  *)
(* to the sensor thread.  The sensor thread is the driver of SensorDht,    *)
(* step by step; wifi_init and wifi_send_tcp are those of WifiService.     *)
(*                                                                         *)
(* A measured value is the number of the reading it comes from.  The       *)
(* display thread is compiled only with OLED_ENABLE, which nobody defines. *)
(***************************************************************************)
EXTENDS SensorDht, MqttPacket

CONSTANTS
  PayloadLengths,  \* the lengths of the texts that rt_snprintf makes
  MaxReadings      \* bound: readings of the sensor

TopicLength == 18     \* "sensors/dht11/data"
ClientIdLength == 19  \* "iot_sensor_" and eight digits
PayloadSize == 100    \* sizeof(payload)

ASSUME CollectorConstants ==
  /\ PayloadLengths \subseteq Nat
  /\ MaxReadings \in Nat

VARIABLES
  main,            \* where main is
  spc,             \* the sensor thread: "off", "delay", "read", "stamp", "release"
  mpc,             \* the MQTT thread
  current_data,
  data_ready_sem,
  mqtt_mutex,      \* how often the MQTT thread, the only one to take it, holds it
  mqtt_state,
  call, connected, outcome,  \* the wireless driver
  payload,         \* what the MQTT thread has formatted
  packet,          \* what it last gave to wifi_send_tcp
  reading,         \* history: the number of the reading
  announced,       \* history: the readings for which the semaphore was released
  taken            \* history: how often it was taken

Wifi == INSTANCE WifiService

wifiVars == <<call, connected, outcome>>
sensorVars == <<spc, current_data, reading, announced>>
mqttVars == <<mpc, mqtt_mutex, mqtt_state, payload, packet, taken>>
vars == <<dhtVars, main, sensorVars, mqttVars, data_ready_sem, wifiVars>>

NoData == [temperature |-> 0, humidity |-> 0, timestamp |-> 0]
NoPacket == [type |-> 0, byte1 |-> 0, byte2 |-> 0, length |-> 2]

Init ==
  /\ dhtInit /\ Wifi!Init
  /\ main = "semaphore" /\ spc = "off" /\ mpc = "off"
  /\ current_data = NoData /\ payload = NoData /\ packet = NoPacket
  /\ data_ready_sem = 0 /\ mqtt_mutex = 0 /\ mqtt_state = "DISCONNECTED"
  /\ reading = 0 /\ announced = <<>> /\ taken = 0

\* The MQTT thread cannot run: it is not there, sleeps, or waits for the wireless
\* driver or the semaphore.
MqttBlocked ==
  \/ mpc \in {"off", "delay", "exited"}
  \/ mpc \in {"connecting", "sending"} /\ call # "none"
  \/ mpc = "take" /\ data_ready_sem = 0

-----------------------------------------------------------------------------
\* main.

\* Creation of the semaphore, without which nothing is started.
CreateSemaphore ==
  /\ main = "semaphore"
  /\ main' \in {"wifi", "failed"}
  /\ UNCHANGED <<dhtVars, sensorVars, mqttVars, data_ready_sem, wifiVars>>

CallWifiInit ==
  /\ main = "wifi" /\ Wifi!BeginInit
  /\ main' = "wifi_init"
  /\ UNCHANGED <<dhtVars, sensorVars, mqttVars, data_ready_sem>>

\* Whatever wifi_init returned, the threads are started.
WifiInitReturned ==
  /\ main = "wifi_init" /\ call = "none"
  /\ main' = "sensor"
  /\ UNCHANGED <<dhtVars, sensorVars, mqttVars, data_ready_sem, wifiVars>>

\* A thread that cannot be created is missing.  dht_sensor_init waits a second.
CreateSensorThread ==
  /\ main = "sensor"
  /\ main' = "mqtt"
  /\ spc' \in {"off", "delay"}
  /\ UNCHANGED <<dhtVars, current_data, reading, announced, mqttVars, data_ready_sem,
                 wifiVars>>

CreateMqttThread ==
  /\ main = "mqtt"
  /\ main' = "done"
  /\ mpc' \in {"off", "delay"}
  /\ Disturb
  /\ UNCHANGED <<sensorVars, mqtt_mutex, mqtt_state, payload, packet, taken,
                 data_ready_sem, wifiVars>>

Main ==
  \/ CreateSemaphore \/ CallWifiInit \/ WifiInitReturned
  \/ CreateSensorThread \/ CreateMqttThread

-----------------------------------------------------------------------------
\* sensor_thread_entry.

StartRead ==
  /\ spc = "delay" /\ reading < MaxReadings
  /\ dht_start_signal
  /\ spc' = "read"
  /\ reading' = reading + 1
  /\ UNCHANGED <<current_data, announced, data_ready_sem>>

\* Mutant: the humidity is stored before the checksum has been tested.
StoreBeforeChecksum ==
  /\ spc = "read"
  /\ \/ Driver /\ current_data' = IF dpc = "check"
                                    THEN [current_data EXCEPT !.humidity = reading]
                                    ELSE current_data
     \/ StoreHumidity /\ UNCHANGED current_data
     \/ StoreTemperature /\ current_data' = [current_data EXCEPT !.temperature = reading]
  /\ spc' = IF dpc' = "idle" THEN "stamp" ELSE "read"
  /\ UNCHANGED <<reading, announced, data_ready_sem>>

\* Inside dht_sensor_read, which stores through its pointers as soon as it can.
ReadStep ==
  /\ spc = "read"
  /\ \/ Driver /\ UNCHANGED current_data
     \/ StoreHumidity /\ current_data' = [current_data EXCEPT !.humidity = reading]
     \/ StoreTemperature /\ current_data' = [current_data EXCEPT !.temperature = reading]
  /\ spc' = IF dpc' = "idle" THEN "stamp" ELSE "read"
  /\ UNCHANGED <<reading, announced, data_ready_sem>>

\* Mutant: a reading that failed is announced too.
StampIgnoresResult ==
  /\ spc = "stamp"
  /\ current_data' = [current_data EXCEPT !.timestamp = reading]
  /\ spc' = "release"
  /\ UNCHANGED <<dhtVars, reading, announced, data_ready_sem>>

\* The time is taken of a reading that failed, too.
Stamp ==
  /\ spc = "stamp"
  /\ current_data' = [current_data EXCEPT !.timestamp = reading]
  /\ spc' = IF result = "ok" THEN "release" ELSE "delay"
  /\ UNCHANGED <<dhtVars, reading, announced, data_ready_sem>>

\* Mutant: the semaphore is no more than a flag.
ReleaseSetsFlag ==
  /\ spc = "release"
  /\ data_ready_sem' = 1
  /\ announced' = Append(announced, reading)
  /\ spc' = "delay"
  /\ UNCHANGED <<dhtVars, current_data, reading>>

Release ==
  /\ spc = "release"
  /\ data_ready_sem' = data_ready_sem + 1
  /\ announced' = Append(announced, reading)
  /\ spc' = "delay"
  /\ UNCHANGED <<dhtVars, current_data, reading>>

Sensor ==
  /\ MqttBlocked
  /\ StartRead \/ ReadStep \/ Stamp \/ Release
  /\ UNCHANGED <<main, mqttVars, wifiVars>>

-----------------------------------------------------------------------------
\* mqtt_thread_entry.

\* Once a second, until wifi_is_connected().
WaitForWifi ==
  /\ mpc = "delay"
  /\ mpc' = IF connected = 1 THEN "init" ELSE "delay"
  /\ UNCHANGED <<mqtt_mutex, mqtt_state, payload, packet, taken, data_ready_sem, wifiVars>>

\* mqtt_client_init creates the mutex and sends the CONNECT packet, or ends the thread.
mqtt_client_init ==
  /\ mpc = "init"
  /\ \/ mpc' = "exited" /\ UNCHANGED <<packet, wifiVars>>
     \/ /\ Wifi!BeginSend
        /\ packet' = mqtt_build_connect_packet(ClientIdLength)
        /\ mpc' = "connecting"
  /\ UNCHANGED <<mqtt_mutex, mqtt_state, payload, taken, data_ready_sem>>

\* That the packet was handed over counts as a connection.
ConnectReturned ==
  /\ mpc = "connecting" /\ call = "none"
  /\ IF outcome = "ok" THEN mqtt_state' = "CONNECTED" /\ mpc' = "take"
                       ELSE mpc' = "exited" /\ UNCHANGED mqtt_state
  /\ UNCHANGED <<mqtt_mutex, payload, packet, taken, data_ready_sem, wifiVars>>

\* The semaphore is taken and current_data formatted, without a lock; the sensor
\* thread cannot run in between.
TakeAndFormat ==
  /\ mpc = "take" /\ data_ready_sem > 0
  /\ data_ready_sem' = data_ready_sem - 1
  /\ taken' = taken + 1
  /\ payload' = current_data
  /\ mpc' = "publish"
  /\ UNCHANGED <<mqtt_mutex, mqtt_state, packet, wifiVars>>

\* rt_snprintf cuts the text off at the end of payload.  A mutex of RT-Thread can
\* be taken again by its owner, and no other thread takes this one.
mqtt_publish_data ==
  /\ mpc = "publish"
  /\ IF mqtt_state # "CONNECTED" THEN mpc' = "take" /\ UNCHANGED <<mqtt_mutex, packet, wifiVars>>
     ELSE \E n \in PayloadLengths :
            /\ mqtt_mutex' = mqtt_mutex + 1
            /\ packet' = mqtt_build_publish_packet(TopicLength,
                           IF n < PayloadSize THEN n ELSE PayloadSize - 1)
            /\ Wifi!BeginSend
            /\ mpc' = "sending"
  /\ UNCHANGED <<mqtt_state, payload, taken, data_ready_sem>>

\* Sent or not, the mutex is released and the thread waits for the next reading.
PublishReturned ==
  /\ mpc = "sending" /\ call = "none"
  /\ mqtt_mutex' = mqtt_mutex - 1
  /\ mpc' = "take"
  /\ UNCHANGED <<mqtt_state, payload, packet, taken, data_ready_sem, wifiVars>>

\* Whatever the MQTT thread does, it takes the processor from the sensor thread.
Mqtt ==
  /\ \/ WaitForWifi \/ mqtt_client_init \/ ConnectReturned
     \/ TakeAndFormat \/ mqtt_publish_data \/ PublishReturned
  /\ Disturb
  /\ UNCHANGED <<main, sensorVars>>

-----------------------------------------------------------------------------
\* The wireless driver works in the thread that called it.
WifiWorks ==
  /\ Wifi!Join \/ Wifi!Return
  /\ Disturb
  /\ UNCHANGED <<main, sensorVars, mqttVars, data_ready_sem>>

\* It handles an answer while the sensor thread reads.
WifiWakes ==
  /\ call = "send" /\ spc = "read"
  /\ Disturb
  /\ UNCHANGED <<main, sensorVars, mqttVars, data_ready_sem, wifiVars>>

\* The signal of the sensor goes on.
Signal ==
  /\ LineMoves
  /\ UNCHANGED <<main, sensorVars, mqttVars, data_ready_sem, wifiVars>>

Next == Main \/ Sensor \/ Mqtt \/ WifiWorks \/ WifiWakes \/ Signal

Spec == Init /\ [][Next]_vars

\* Threads that are ready run, the sensor goes on with what it sends, and the
\* calls of the wireless driver return, which WifiEsp8266 is shown to grant.
FairSpec ==
  /\ Spec
  /\ WF_vars(Main) /\ WF_vars(Sensor) /\ WF_vars(Mqtt) /\ WF_vars(Signal)
  /\ WF_vars(WifiWorks /\ Wifi!Return)

-----------------------------------------------------------------------------
DataType == [temperature : Nat, humidity : Nat, timestamp : Nat]

TypeOK ==
  /\ dhtTypeOK
  /\ main \in {"semaphore", "wifi", "wifi_init", "sensor", "mqtt", "done", "failed"}
  /\ spc \in {"off", "delay", "read", "stamp", "release"}
  /\ mpc \in {"off", "delay", "init", "connecting", "take", "publish", "sending", "exited"}
  /\ current_data \in DataType /\ payload \in DataType
  /\ data_ready_sem \in Nat /\ taken \in Nat /\ reading \in Nat
  /\ announced \in Seq(Nat)
  /\ mqtt_mutex \in Nat
  /\ mqtt_state \in {"DISCONNECTED", "CONNECTED"}
  /\ packet \in [type : {0, CONNECT, PUBLISH}, byte1 : 0..255, byte2 : 0..255, length : Nat]

\* Each time the MQTT thread takes the semaphore, the values it formats are at
\* least as new as the reading that was announced, although readings go on and
\* may be overtaken while it formats and publishes.
FreshAsAnnounced ==
  mpc \in {"publish", "sending"} =>
    /\ payload.humidity >= announced[taken]
    /\ payload.temperature >= announced[taken]
    /\ payload.timestamp >= announced[taken]

\* The last reading that was announced.
Latest == IF announced = <<>> THEN 0 ELSE announced[Len(announced)]

\* The MQTT thread formats current_data without a lock, in the middle of a store
\* even: what it has then mixes two readings at most, the last announced one and
\* the one in progress, and holds no value of a reading that failed.
MixesTwoAtMost ==
  mpc = "publish" =>
    \/ payload.humidity = Latest /\ payload.temperature = Latest
    \/ payload.humidity = reading /\ payload.temperature \in {Latest, reading}

\* What the two rest on: the parts of an inductive invariant.
DataTypes ==
  /\ current_data \in DataType /\ payload \in DataType
  /\ data_ready_sem \in Nat /\ taken \in Nat /\ reading \in Nat
  /\ announced \in Seq(Nat)

\* The semaphore counts the announcements that have not been taken.
SemaphoreCounts ==
  /\ taken + data_ready_sem = Len(announced)
  /\ mpc \in {"publish", "sending"} => taken > 0

\* Every field is between the announced readings and the reading in progress, ...
FieldsAhead ==
  \A f \in {"temperature", "humidity", "timestamp"} :
    /\ current_data[f] <= reading
    /\ \A i \in DOMAIN announced : announced[i] <= current_data[f]

\* ... and from that reading once it has been stored.
StoresDone ==
  /\ dpc = "temperature" => current_data.humidity = reading
  /\ spc # "read" => dpc = "idle"
  /\ (spc = "stamp" /\ result = "ok") \/ spc = "release" =>
       current_data.humidity = reading /\ current_data.temperature = reading
  /\ spc = "release" => current_data.timestamp = reading

\* Until then they are from the last announced reading.
StoresPending ==
  \/ spc = "release"
  \/ spc = "stamp" /\ result = "ok"
  \/ /\ current_data.temperature = Latest
     /\ dpc = "temperature" \/ current_data.humidity = Latest

\* The sensor thread is created once.
SensorStarts == main \in {"semaphore", "wifi", "wifi_init", "sensor"} => spc = "off"

IInv ==
  /\ DataTypes /\ SemaphoreCounts /\ FieldsAhead /\ StoresDone /\ StoresPending
  /\ SensorStarts /\ FreshAsAnnounced /\ MixesTwoAtMost

\* A broker reads every packet the client sends to its end and no further: no
\* payload the thread can format makes the remaining length too long for the one
\* byte the builders reserve.
PacketsWellFormed == WellFormed(packet)

\* No announcement is lost: once the client has connected, every reading that was
\* announced is followed by a publication, although publications fail and
\* readings pile up while one is being sent.
AnnouncementsTaken ==
  \A n \in 1..MaxReadings :
    (mpc \in {"take", "publish", "sending"} /\ Len(announced) >= n) ~> (taken >= n)

\* dht_sensor_read returns unless the thread is preempted in it: the sensor sends
\* as many pulses as the loops without a time limit wait for.
ReadReturns == (spc = "read" /\ ~disturbed) ~> (spc # "read" \/ disturbed)
=============================================================================
