--------------------------- MODULE CollectorProofs ---------------------------
(***************************************************************************)
(* Proofs about Collector, for every set of samples and payload lengths,   *)
(* every number of bits in a byte and every number of readings.            *)
(***************************************************************************)
EXTENDS Collector, TLAPS

-----------------------------------------------------------------------------
\* The packets of mqtt_client.c.

\* A CONNECT packet is read to its end when identifier and fixed part fit into
\* one length byte.
LEMMA ConnectFits ==
  ASSUME NEW n \in Nat, 12 + n <= 127
  PROVE  WellFormed(mqtt_build_connect_packet(n))
BY DEF WellFormed, HeaderLength, Remaining, mqtt_build_connect_packet

\* So is a PUBLISH packet when topic and payload do.
LEMMA PublishFits ==
  ASSUME NEW t \in Nat, NEW n \in Nat, 2 + t + n <= 127
  PROVE  WellFormed(mqtt_build_publish_packet(t, n))
BY DEF WellFormed, HeaderLength, Remaining, mqtt_build_publish_packet

\* Every packet the client hands to wifi_send_tcp is well-formed: the identifier,
\* and any payload that rt_snprintf leaves in its buffer with the topic of
\* mqtt_thread_entry, stay below the 127 bytes that one length byte counts.
THEOREM PacketsAlwaysWellFormed == Spec => []PacketsWellFormed
<1>1. Init => PacketsWellFormed
  <2> SUFFICES ASSUME packet = NoPacket PROVE PacketsWellFormed
    BY DEF Init
  <2> QED BY DEF PacketsWellFormed, NoPacket, WellFormed, HeaderLength, Remaining
<1>2. PacketsWellFormed /\ [Next]_vars => PacketsWellFormed'
  <2> SUFFICES ASSUME PacketsWellFormed, [Next]_vars, packet' # packet
               PROVE  PacketsWellFormed'
    BY DEF PacketsWellFormed, WellFormed, HeaderLength, Remaining
  <2>1. mqtt_client_init \/ mqtt_publish_data
    BY DEF Next, vars, mqttVars, Main, CreateSemaphore, CallWifiInit, WifiInitReturned,
           CreateSensorThread, CreateMqttThread, Sensor, Mqtt, WaitForWifi, ConnectReturned,
           TakeAndFormat, PublishReturned, WifiWorks, WifiWakes, Signal
  <2>2. CASE mqtt_client_init
    <3>1. packet' = mqtt_build_connect_packet(ClientIdLength)
      BY <2>2 DEF mqtt_client_init
    <3>2. WellFormed(mqtt_build_connect_packet(ClientIdLength))
      BY ConnectFits DEF ClientIdLength
    <3> QED BY <3>1, <3>2 DEF PacketsWellFormed, WellFormed, HeaderLength, Remaining
  <2>3. CASE mqtt_publish_data
    <3>1. PICK n \in PayloadLengths :
            packet' = mqtt_build_publish_packet(TopicLength,
                        IF n < PayloadSize THEN n ELSE PayloadSize - 1)
      BY <2>3 DEF mqtt_publish_data
    <3> DEFINE m == IF n < PayloadSize THEN n ELSE PayloadSize - 1
    <3>2. m \in Nat /\ m <= 99
      BY CollectorConstants DEF PayloadSize, CollectorConstants
    <3> HIDE DEF m
    <3>3. WellFormed(mqtt_build_publish_packet(TopicLength, m))
      BY <3>2, PublishFits DEF TopicLength
    <3> QED BY <3>1, <3>3 DEF m, PacketsWellFormed, WellFormed, HeaderLength, Remaining
  <2> QED BY <2>1, <2>2, <2>3
<1> QED BY <1>1, <1>2, PTL DEF Spec

-----------------------------------------------------------------------------
\* What is published is as new as announced.

\* dht_sensor_read stops short of its stores, or returns an error, or goes on to
\* them; it never returns RT_EOK on the way.
LEMMA DriverSteps ==
  ASSUME Driver
  PROVE  /\ dpc # "temperature" /\ dpc' # "temperature"
         /\ dpc' = "idle" => result' = "error"
BY DEF Driver, dht_wait_response, SampleBit, PulseEnds, CheckSum, Leave, AfterBit

\* The steps that leave the readings, the driver and what has been formatted
\* alone; a step of the MQTT thread may be anywhere but on the way to publish.
Quiet ==
  /\ UNCHANGED <<dpc, result, current_data, reading, announced, data_ready_sem, taken, payload>>
  /\ spc' = spc \/ (spc = "off" /\ spc' = "delay")
  /\ mpc' = mpc \/ mpc' \notin {"publish", "sending"} \/ (mpc = "publish" /\ mpc' = "sending")

\* They preserve the invariant.
LEMMA QuietKeeps ==
  ASSUME IInv, Quiet, SensorStarts'
  PROVE  IInv'
<1>1. DataTypes' /\ SemaphoreCounts' /\ FieldsAhead' /\ FreshAsAnnounced'
  BY DEF IInv, Quiet, DataTypes, SemaphoreCounts, FieldsAhead, FreshAsAnnounced
<1>2. StoresDone' /\ StoresPending' /\ MixesTwoAtMost'
  BY DEF IInv, Quiet, StoresDone, StoresPending, MixesTwoAtMost, Latest
<1> QED BY <1>1, <1>2 DEF IInv

\* Which steps they are.
LEMMA QuietSteps ==
  ASSUME SensorStarts, Main \/ WifiWorks \/ WifiWakes \/ Signal \/ UNCHANGED vars
  PROVE  Quiet /\ SensorStarts'
<1> USE DEF Quiet, SensorStarts, dhtVars, sensorVars, mqttVars, wifiVars
<1>1. CASE Main
  BY <1>1 DEF Main, CreateSemaphore, CallWifiInit, WifiInitReturned, CreateSensorThread,
              CreateMqttThread, Disturb
<1>2. CASE WifiWorks \/ WifiWakes
  BY <1>2 DEF WifiWorks, WifiWakes, Disturb
<1>3. CASE Signal
  BY <1>3 DEF Signal, LineMoves
<1>4. CASE UNCHANGED vars
  BY <1>4 DEF vars
<1> QED BY <1>1, <1>2, <1>3, <1>4

\* The sensor thread: a new reading is above every field and every announcement;
\* its stores bring the fields up to it; only when all three are there is it
\* announced.
LEMMA SensorKeeps ==
  ASSUME IInv, Sensor
  PROVE  IInv'
<1> USE DEF IInv, DataTypes, DataType
<1>m. UNCHANGED <<main, mpc, payload, taken>> /\ mpc # "publish" /\ spc # "off"
  BY DEF Sensor, mqttVars, MqttBlocked, StartRead, ReadStep, Stamp, Release
<1>a. \A i \in DOMAIN announced : announced[i] \in Nat /\ announced[i] <= reading
  BY DEF FieldsAhead
<1>b. MixesTwoAtMost' /\ SensorStarts'
  BY <1>m DEF MixesTwoAtMost, SensorStarts
<1>1. CASE StartRead
  <2>1. UNCHANGED <<current_data, announced, data_ready_sem>> /\ reading' = reading + 1
        /\ dpc' = "wait_low" /\ spc = "delay" /\ spc' = "read"
    BY <1>1 DEF StartRead, dht_start_signal
  <2>2. StoresPending'
    BY <2>1 DEF StoresDone, StoresPending, Latest
  <2> QED BY <2>1, <2>2, <1>m, <1>b DEF SemaphoreCounts, FieldsAhead, StoresDone, FreshAsAnnounced
<1>2. CASE ReadStep
  <2>1. UNCHANGED <<reading, announced, data_ready_sem>> /\ spc = "read"
        /\ spc' = (IF dpc' = "idle" THEN "stamp" ELSE "read")
    BY <1>2 DEF ReadStep
  <2>2. CASE Driver /\ UNCHANGED current_data
    <3>1. dpc # "temperature" /\ dpc' # "temperature" /\ (dpc' = "idle" => result' = "error")
      BY <2>2, DriverSteps
    <3>2. DataTypes' /\ SemaphoreCounts' /\ FreshAsAnnounced'
      BY <2>1, <2>2, <1>m DEF SemaphoreCounts, FreshAsAnnounced
    <3>3. FieldsAhead'
      BY <2>1, <2>2 DEF FieldsAhead
    <3>4. StoresDone' /\ StoresPending'
      BY <2>1, <2>2, <3>1 DEF StoresDone, StoresPending, Latest
    <3> QED BY <3>2, <3>3, <3>4, <1>b
  <2>3. CASE StoreHumidity /\ current_data' = [current_data EXCEPT !.humidity = reading]
    <3>1. dpc = "humidity" /\ dpc' = "temperature"
      BY <2>3 DEF StoreHumidity
    <3>2. DataTypes' /\ SemaphoreCounts' /\ FreshAsAnnounced'
      BY <2>1, <2>3, <1>m DEF SemaphoreCounts, FreshAsAnnounced
    <3>3. FieldsAhead'
      BY <2>1, <2>3, <1>a DEF FieldsAhead
    <3>4. StoresDone' /\ StoresPending'
      BY <2>1, <2>3, <3>1 DEF StoresDone, StoresPending, Latest
    <3> QED BY <3>2, <3>3, <3>4, <1>b
  <2>4. CASE StoreTemperature /\ current_data' = [current_data EXCEPT !.temperature = reading]
    <3>1. dpc = "temperature" /\ dpc' = "idle" /\ result' = "ok"
      BY <2>4 DEF StoreTemperature, Leave
    <3>2. StoresPending'
      BY <2>1, <3>1 DEF StoresPending
    <3> QED BY <2>1, <2>4, <3>1, <3>2, <1>m, <1>a, <1>b
          DEF SemaphoreCounts, FieldsAhead, StoresDone, FreshAsAnnounced
  <2> QED BY <1>2, <2>2, <2>3, <2>4 DEF ReadStep
<1>3. CASE Stamp
  <2>1. UNCHANGED <<dpc, result, reading, announced, data_ready_sem>> /\ spc = "stamp"
        /\ current_data' = [current_data EXCEPT !.timestamp = reading]
        /\ spc' = (IF result = "ok" THEN "release" ELSE "delay")
    BY <1>3 DEF Stamp, dhtVars
  <2>2. StoresPending'
    BY <2>1 DEF StoresDone, StoresPending, Latest
  <2> QED BY <2>1, <2>2, <1>m, <1>a, <1>b
        DEF SemaphoreCounts, FieldsAhead, StoresDone, FreshAsAnnounced
<1>4. CASE Release
  <2>1. UNCHANGED <<dpc, result, current_data, reading>> /\ spc = "release" /\ spc' = "delay"
        /\ data_ready_sem' = data_ready_sem + 1 /\ announced' = Append(announced, reading)
    BY <1>4 DEF Release, dhtVars
  <2>2. /\ announced' \in Seq(Nat) /\ Len(announced') = Len(announced) + 1
        /\ \A i \in DOMAIN announced : announced'[i] = announced[i]
        /\ announced'[Len(announced) + 1] = reading
        /\ DOMAIN announced' = DOMAIN announced \cup {Len(announced) + 1}
    BY <2>1
  <2>3. current_data.humidity = reading /\ current_data.temperature = reading
        /\ current_data.timestamp = reading
    BY <2>1 DEF StoresDone
  <2>4. DataTypes' /\ SemaphoreCounts' /\ StoresDone'
    BY <2>1, <2>2, <2>3, <1>m DEF SemaphoreCounts, StoresDone
  <2>5. FieldsAhead'
    BY <2>1, <2>2, <2>3, <1>a DEF FieldsAhead
  <2>6. FreshAsAnnounced'
    BY <2>1, <2>2, <1>m DEF FreshAsAnnounced, SemaphoreCounts
  <2>7. Latest' = reading
    <3>1. announced' # <<>> /\ announced'[Len(announced')] = reading
      BY <2>2
    <3> QED BY <3>1 DEF Latest
  <2>8. StoresPending'
    BY <2>1, <2>3, <2>7 DEF StoresPending
  <2> QED BY <2>4, <2>5, <2>6, <2>8, <1>b
<1> QED BY <1>1, <1>2, <1>3, <1>4 DEF Sensor

\* The MQTT thread: the announcement it takes is the next one in order, and the
\* fields it copies are not behind it.
LEMMA MqttKeeps ==
  ASSUME IInv, Mqtt
  PROVE  IInv'
<1>1. UNCHANGED <<dpc, result, spc, current_data, reading, announced>>
  BY DEF Mqtt, Disturb, sensorVars
<1>s. SensorStarts'
  BY <1>1 DEF Mqtt, IInv, SensorStarts
<1>2. CASE TakeAndFormat
  <2>1. data_ready_sem > 0 /\ data_ready_sem' = data_ready_sem - 1 /\ taken' = taken + 1
        /\ payload' = current_data /\ mpc' = "publish"
    BY <1>2 DEF TakeAndFormat
  <2>2. taken' \in DOMAIN announced
    BY <2>1 DEF IInv, DataTypes, SemaphoreCounts
  <2>3. DataTypes' /\ SemaphoreCounts'
    BY <1>1, <2>1 DEF IInv, DataTypes, SemaphoreCounts
  <2>4. FieldsAhead' /\ StoresDone' /\ StoresPending'
    BY <1>1 DEF IInv, FieldsAhead, StoresDone, StoresPending, Latest
  <2>5. FreshAsAnnounced'
    <3>1. \A f \in {"temperature", "humidity", "timestamp"} :
            current_data[f] \in Nat /\ announced[taken'] \in Nat
            /\ announced[taken'] <= current_data[f]
      BY <2>2 DEF IInv, DataTypes, DataType, FieldsAhead
    <3> QED BY <1>1, <2>1, <3>1 DEF FreshAsAnnounced
  <2>6. MixesTwoAtMost'
    BY <1>1, <2>1 DEF IInv, StoresDone, StoresPending, MixesTwoAtMost, Latest
  <2> QED BY <2>3, <2>4, <2>5, <2>6, <1>s DEF IInv
<1>3. CASE ~TakeAndFormat
  <2>1. Quiet
    BY <1>1, <1>3 DEF Mqtt, Quiet, WaitForWifi, mqtt_client_init, ConnectReturned,
                      mqtt_publish_data, PublishReturned
  <2> QED BY <2>1, <1>s, QuietKeeps
<1> QED BY <1>2, <1>3

\* The inductive invariant of the collector.
THEOREM CollectorInvariant == Spec => []IInv
<1>1. Init => IInv
  BY DEF Init, dhtInit, NoData, IInv, DataTypes, DataType, SemaphoreCounts, FieldsAhead,
         StoresDone, StoresPending, SensorStarts, FreshAsAnnounced, MixesTwoAtMost, Latest
<1>2. IInv /\ [Next]_vars => IInv'
  BY QuietSteps, QuietKeeps, SensorKeeps, MqttKeeps DEF Next, IInv
<1> QED BY <1>1, <1>2, PTL DEF Spec

\* What the MQTT thread publishes is never older than the reading whose
\* announcement it took, however many readings and preemptions there are.
THEOREM PublishedIsFresh == Spec => []FreshAsAnnounced
<1>1. IInv => FreshAsAnnounced
  BY DEF IInv
<1> QED BY <1>1, CollectorInvariant, PTL

\* It mixes two readings at most, the last announced one and the one in progress,
\* and holds no value of a reading that failed.
THEOREM PublishedMixesTwo == Spec => []MixesTwoAtMost
<1>1. IInv => MixesTwoAtMost
  BY DEF IInv
<1> QED BY <1>1, CollectorInvariant, PTL

-----------------------------------------------------------------------------
\* dht_read_byte keeps step with the sensor.

\* Preemption keeps the number of bits; a read that it meets is disturbed.
LEMMA DisturbKeepsStep ==
  ASSUME StepIInv, Disturb
  PROVE  StepIInv'
<1>1. /\ disturbed' = (dpc # "idle") /\ bits' = [k \in DOMAIN bits |-> 0] /\ dpc' = dpc
      /\ first' = 0
      /\ line' \in IF dpc \in Polling /\ frame # <<>> THEN line..Rest ELSE {line}
  BY DEF Disturb
<1>2. bits' \in Seq({0, 1}) /\ Len(bits') = Len(bits)
  BY <1>1 DEF StepIInv
<1>3. line' \in Nat /\ (dpc = "idle" => line' = line)
  BY <1>1 DEF StepIInv, Polling
<1>4. bits' = <<>> <=> bits = <<>>
  BY <1>1, <1>2 DEF StepIInv
<1>5. dpc = "idle" => SamplesInStep'
  BY <1>1, <1>4 DEF StepIInv, SamplesInStep
<1>6. dpc # "idle" => SamplesInStep'
  BY <1>1 DEF SamplesInStep
<1> QED
  BY <1>1, <1>2, <1>3, <1>4, <1>5, <1>6 DEF StepIInv

\* The sensor moves on only where the driver waits for it.
LEMMA LineKeepsStep ==
  ASSUME StepIInv, LineMoves
  PROVE  StepIInv'
<1>1. line' = line + 1 /\ UNCHANGED <<dpc, frame, bits, first, disturbed>> /\ Waiting
  BY DEF LineMoves
<1>2. bits \in Seq({0, 1}) /\ line \in Nat /\ first \in Nat /\ first % 2 = 0
  BY DEF StepIInv
<1>3. SamplesInStep'
  <2> SUFFICES ASSUME ~disturbed PROVE SamplesInStep'
    BY <1>1 DEF SamplesInStep
  <2>1. \A k \in DOMAIN bits' : bits'[k] = IF LongAt(Pulse(k))' THEN 1 ELSE 0
    BY <1>1 DEF StepIInv, SamplesInStep, LongAt, Pulse, FrameBit
  <2>2. Pulse(Len(bits)) \in Int /\ Pulse(Len(bits)) % 2 = 0
    BY <1>2 DEF Pulse
  <2>3. Pulse(Len(bits))' = Pulse(Len(bits)) /\ dpc # "check"
    BY <1>1 DEF Pulse, Waiting
  <2> QED
    BY <1>1, <1>2, <2>1, <2>2, <2>3 DEF StepIInv, SamplesInStep, Waiting, High
<1> QED
  BY <1>1, <1>2, <1>3 DEF StepIInv

\* The end of a read.
LEMMA LeaveKeepsStep ==
  ASSUME NEW r, Leave(r)
  PROVE  StepIInv'
<1>1. dpc' = "idle" /\ line' = 0 /\ bits' = <<>> /\ first' = 0
  BY DEF Leave
<1> QED
  BY <1>1 DEF StepIInv, SamplesInStep

\* A sample is taken in the pulse after that of the last bit, and the bit is one
\* if and only if that pulse is long.
LEMMA SampleKeepsStep ==
  ASSUME StepIInv, SampleBit
  PROVE  StepIInv'
<1> DEFINE n == Len(bits)
           b == IF ~disturbed /\ line' % 2 = 0 THEN 1 ELSE 0
<1>1. /\ dpc = "bit_low" /\ line % 2 = 0 /\ UNCHANGED <<disturbed, frame>>
      /\ line' \in IF ~disturbed THEN {IF LongAt(line) THEN line ELSE line + 1}
                   ELSE {m \in {line, line + 1, line + 2} : m <= Rest}
      /\ first' = IF ~disturbed /\ bits = <<>> THEN line ELSE first
      /\ bits' = Append(bits, b)
      /\ dpc' = IF line' % 2 = 0 THEN "bit_high" ELSE AfterBit(bits')
  BY DEF SampleBit, High
<1>2. /\ bits \in Seq({0, 1}) /\ n \in Nat /\ bits' # <<>>
      /\ bits' \in Seq({0, 1}) /\ Len(bits') = n + 1 /\ DOMAIN bits' = 1..(n + 1)
      /\ \A k \in 1..n : bits'[k] = bits[k]
      /\ bits'[n + 1] = b
  <2>1. bits' = Append(bits, b) /\ b \in {0, 1} /\ bits \in Seq({0, 1})
    BY <1>1 DEF StepIInv
  <2> HIDE DEF b
  <2> QED
    BY <2>1
<1>3. line \in Nat /\ line' \in Nat /\ first \in Nat /\ first % 2 = 0
  BY <1>1 DEF StepIInv
<1>4. first' \in Nat /\ first' % 2 = 0
  BY <1>1, <1>3
<1>5. dpc' \in {"bit_low", "bit_high", "check"}
  BY <1>1 DEF AfterBit
<1>6. SamplesInStep'
  <2> SUFFICES ASSUME ~disturbed PROVE SamplesInStep'
    BY <1>1 DEF SamplesInStep
  <2>1. line = first' + 2 * n
    <3>1. CASE bits = <<>>
      BY <1>1, <1>3, <3>1
    <3>2. CASE bits # <<>>
      <4>1. line \in {Pulse(n) + 1, Pulse(n) + 2} /\ first' = first
        BY <1>1, <3>2 DEF StepIInv, SamplesInStep
      <4>2. Pulse(n) = first + 2 * (n - 1)
        BY DEF Pulse
      <4> HIDE DEF n
      <4>3. (first + 2 * n) % 2 = 0 /\ (first + 2 * n - 1) % 2 # 0
        BY <1>2, <1>3
      <4> QED
        BY <4>1, <4>2, <4>3, <1>1, <1>2, <1>3
    <3> QED
      BY <3>1, <3>2
  <2>2. line' = IF LongAt(line) THEN line ELSE line + 1
    BY <1>1
  <2>3. (line + 1) % 2 # 0
    BY <1>1, <1>3
  <2>4. b = IF LongAt(line) THEN 1 ELSE 0
    BY <1>1, <2>2, <2>3
  <2>5. \A k \in DOMAIN bits' : bits'[k] = IF LongAt(Pulse(k))' THEN 1 ELSE 0
    <3> SUFFICES ASSUME NEW k \in 1..(n + 1)
                 PROVE  bits'[k] = IF LongAt(Pulse(k))' THEN 1 ELSE 0
      BY <1>2
    <3>1. CASE k = n + 1
      <4>1. Pulse(k)' = line
        BY <3>1, <1>2, <1>4, <2>1 DEF Pulse
      <4>2. LongAt(Pulse(k))' <=> LongAt(line)
        BY <4>1, <1>1 DEF LongAt, FrameBit
      <4> QED
        BY <3>1, <4>2, <1>2, <2>4
    <3>2. CASE k # n + 1
      <4>1. k \in 1..n /\ bits # <<>> /\ k \in DOMAIN bits
        BY <3>2, <1>2
      <4>2. Pulse(k)' = Pulse(k)
        BY <4>1, <1>1 DEF Pulse
      <4>3. bits[k] = IF LongAt(Pulse(k)) THEN 1 ELSE 0
        BY <4>1 DEF StepIInv, SamplesInStep
      <4>4. LongAt(Pulse(k))' <=> LongAt(Pulse(k))
        BY <4>2, <1>1 DEF LongAt, FrameBit
      <4> QED
        BY <4>1, <4>3, <4>4, <1>2
    <3> QED
      BY <3>1, <3>2
  <2>6. Len(bits)' = n + 1 /\ Pulse(Len(bits))' = line
    BY <1>2, <1>4, <2>1 DEF Pulse
  <2>7. \/ line' = line /\ dpc' = "bit_high"
        \/ line' = line + 1 /\ dpc' = IF n + 1 = Bits THEN "check" ELSE "bit_low"
    BY <1>1, <1>2, <2>2, <2>3 DEF AfterBit
  <2>8. dpc' = "check" => Pulse(Bits)' = line
    <3>1. dpc' = "check" => n + 1 = Bits
      BY <2>7
    <3>2. Bits' = Bits
      BY DEF Bits
    <3> QED
      BY <3>1, <3>2, <1>2, <1>4, <2>1 DEF Pulse
  <2>9. Pulse(Bits)' = first' + 2 * (Bits - 1) /\ Bits' = Bits
    BY DEF Pulse, Bits
  <2> HIDE DEF n, b
  <2> QED
    BY <2>5, <2>6, <2>7, <2>8, <2>9, <1>1, <1>3 DEF SamplesInStep
<1> QED
  BY <1>2, <1>3, <1>4, <1>5, <1>6 DEF StepIInv

\* The steps that only change where the driver is keep what has been read.
LEMMA BitsKept ==
  ASSUME UNCHANGED <<frame, bits, first>>
  PROVE  \A k : /\ Pulse(k)' = Pulse(k)
                /\ LongAt(Pulse(k))' <=> LongAt(Pulse(k))
BY DEF LongAt, Pulse, FrameBit

\* The other steps inside dht_sensor_read.
LEMMA DriverKeepsStep ==
  ASSUME StepIInv, Driver
  PROVE  StepIInv'
<1>1. CASE dht_wait_response
  <2>1. CASE \E r : Leave(r)
    BY <2>1, LeaveKeepsStep
  <2>2. CASE ~\E r : Leave(r)
    BY <1>1, <2>2 DEF dht_wait_response, StepIInv, SamplesInStep
  <2> QED
    BY <2>1, <2>2
<1>2. CASE SampleBit
  BY <1>2, SampleKeepsStep
<1>3. CASE PulseEnds
  <2>1. /\ dpc = "bit_high" /\ line % 2 # 0 /\ dpc' = AfterBit(bits)
        /\ UNCHANGED <<line, frame, bits, first, disturbed>>
    BY <1>3 DEF PulseEnds, High
  <2>2. bits # <<>> /\ first \in Nat /\ first % 2 = 0 /\ line \in Nat /\ bits \in Seq({0, 1})
    BY <2>1 DEF StepIInv
  <2>3. Pulse(Len(bits)) \in Int /\ Pulse(Len(bits)) % 2 = 0
    BY <2>2 DEF Pulse
  <2>4. \A k : Pulse(k)' = Pulse(k) /\ (LongAt(Pulse(k))' <=> LongAt(Pulse(k)))
    BY <2>1, BitsKept
  <2>5. ~disturbed => line = Pulse(Len(bits)) + 1
    BY <2>1, <2>2, <2>3 DEF StepIInv, SamplesInStep
  <2>6. SamplesInStep'
    BY <2>1, <2>4, <2>5 DEF StepIInv, SamplesInStep, AfterBit, Bits
  <2> QED
    BY <2>1, <2>2, <2>6 DEF StepIInv, AfterBit
<1>4. CASE CheckSum
  <2>1. CASE \E r : Leave(r)
    BY <2>1, LeaveKeepsStep
  <2>2. CASE ~\E r : Leave(r)
    <3>1. dpc' = "humidity" /\ UNCHANGED <<line, frame, bits, first, disturbed>>
      BY <1>4, <2>2 DEF CheckSum
    <3> QED
      BY <3>1, BitsKept DEF StepIInv, SamplesInStep
  <2> QED
    BY <2>1, <2>2
<1> QED
  BY <1>1, <1>2, <1>3, <1>4 DEF Driver

\* As long as the sensor thread keeps the processor, the bits it reads are the
\* lengths of successive pulses, whatever the sensor sends and for bytes of any
\* length.
THEOREM SamplesKeepStep == Spec => []SamplesInStep
<1>1. Init => StepIInv
  BY DEF Init, dhtInit, StepIInv, SamplesInStep
<1>2. StepIInv /\ [Next]_vars => StepIInv'
  <2> SUFFICES ASSUME StepIInv, [Next]_vars PROVE StepIInv'
    OBVIOUS
  <2>1. CASE UNCHANGED dhtVars
    BY <2>1, BitsKept DEF dhtVars, StepIInv, SamplesInStep
  <2>2. CASE Disturb
    BY <2>2, DisturbKeepsStep
  <2>3. CASE Signal
    BY <2>3, LineKeepsStep DEF Signal
  <2>4. CASE Main
    BY <2>1, <2>2, <2>4 DEF Main, CreateSemaphore, CallWifiInit, WifiInitReturned,
                            CreateSensorThread, CreateMqttThread
  <2>5. CASE Sensor
    <3>1. CASE StartRead
      BY <3>1 DEF StartRead, dht_start_signal, StepIInv, SamplesInStep
    <3>2. CASE Driver
      BY <3>2, DriverKeepsStep
    <3>3. CASE StoreHumidity
      BY <3>3, BitsKept DEF StoreHumidity, StepIInv, SamplesInStep
    <3>4. CASE StoreTemperature
      BY <3>4, LeaveKeepsStep DEF StoreTemperature
    <3> QED
      BY <2>1, <2>5, <3>1, <3>2, <3>3, <3>4 DEF Sensor, ReadStep, Stamp, Release
  <2>6. CASE Mqtt \/ WifiWorks \/ WifiWakes
    BY <2>2, <2>6 DEF Mqtt, WifiWorks, WifiWakes
  <2> QED
    BY <2>1, <2>3, <2>4, <2>5, <2>6 DEF Next, vars
<1>3. StepIInv => SamplesInStep
  BY DEF StepIInv
<1> QED
  BY <1>1, <1>2, <1>3, PTL DEF Spec
=============================================================================
