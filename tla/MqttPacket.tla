----------------------------- MODULE MqttPacket -----------------------------
(***************************************************************************)
(* The packets of the IoT collector's MQTT client, lab5-2-iot-sensor-rtos/ *)
(* src/mqtt_client.c.  A packet is its type, the two bytes after it and    *)
(* its length; topics, payloads and client identifiers are their lengths.  *)
(* The builders reserve one byte for the remaining length, and when it is  *)
(* above 127 they put a second byte over what they have written there.     *)
(***************************************************************************)
EXTENDS Integers

CONNECT == 16
PUBLISH == 48

\* mqtt_build_connect_packet: protocol name and level, flags, keep-alive time and
\* the identifier; the continuation bit of the first length byte gets lost.
mqtt_build_connect_packet(id_len) ==
  LET remaining == 10 + 2 + id_len
  IN  [type |-> CONNECT,
       byte1 |-> remaining % 128,
       byte2 |-> IF remaining > 127 THEN (remaining \div 128) % 128 ELSE 0,
       length |-> 2 + remaining]

\* Mutant: the fixed header is counted in the remaining length.
PublishCountsHeader(topic_len, payload_len) ==
  LET remaining == 2 + topic_len + payload_len
  IN  [type |-> PUBLISH, byte1 |-> (2 + remaining) % 128, byte2 |-> topic_len \div 256,
       length |-> 2 + remaining]

\* mqtt_build_publish_packet: the topic with its length, then the payload.
mqtt_build_publish_packet(topic_len, payload_len) ==
  LET remaining == 2 + topic_len + payload_len
      long == remaining > 127
  IN  [type |-> PUBLISH,
       byte1 |-> (remaining % 128) + (IF long THEN 128 ELSE 0),
       byte2 |-> IF long THEN (remaining \div 128) % 128 ELSE topic_len \div 256,
       length |-> 2 + remaining]

\* How a broker reads the packet: seven bits of the remaining length in each byte,
\* the eighth set when another byte follows.
HeaderLength(packet) == IF packet.byte1 >= 128 THEN 3 ELSE 2
Remaining(packet) ==
  IF packet.byte1 >= 128 THEN (packet.byte1 % 128) + 128 * packet.byte2 ELSE packet.byte1

\* The broker takes as many bytes for the packet as were sent.
WellFormed(packet) == packet.length = HeaderLength(packet) + Remaining(packet)
=============================================================================
