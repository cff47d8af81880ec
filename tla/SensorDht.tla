----------------------------- MODULE SensorDht -----------------------------
(***************************************************************************)
(* The DHT11 driver of the IoT collector, lab5-2-iot-sensor-rtos/src/      *)
(* sensor_dht.c: it pulls the data line low, waits for the response of the *)
(* sensor, and tells zeros from ones by whether the line is still high     *)
(* 40 us after a pulse has begun.                                          *)
(*                                                                         *)
(* The sensor drives the line on its own clock.  Its signal is a sequence  *)
(* of levels, numbered from the start signal: 0 is the line at rest, odd   *)
(* numbers are low and even ones high.  2 is the high half of the response *)
(* (80 us), 2k + 2 the pulse of bit k, long (70 us) for a one and short    *)
(* (26 us) for a zero; the last one is the line at rest again.  A loop of  *)
(* the driver that polls the line misses no level as long as the thread    *)
(* keeps the processor.  When it is preempted, any number of levels goes   *)
(* by.  Interrupt handlers are shorter than a pulse and left out.          *)
(***************************************************************************)
EXTENDS Integers, Sequences, Folds

CONSTANTS
  ByteBits,   \* 8, the bits of a byte
  Samples     \* what the sensor may measure: pairs of humidity and temperature

ASSUME DhtConstants ==
  /\ ByteBits \in Nat \ {0}
  /\ Samples \subseteq (0..(2^ByteBits - 1)) \X (0..(2^ByteBits - 1))

VARIABLES
  dpc,        \* where dht_sensor_read is, "idle" outside
  line,       \* the number of the line's level
  frame,      \* the five bytes the sensor sends, <<>> if it does not respond
  bits,       \* the bits read so far, of a disturbed read only how many
  first,      \* history: the level in which the first bit was sampled, undisturbed
  disturbed,  \* the thread has been preempted during this read
  result      \* what the last read returned: "none", "ok" or "error"

dhtVars == <<dpc, line, frame, bits, first, disturbed, result>>

Bits == 5 * ByteBits
Rest == 2 * Bits + 4
High == line % 2 = 0

dhtInit ==
  /\ dpc = "idle" /\ line = 0 /\ frame = <<>> /\ bits = <<>> /\ first = 0
  /\ disturbed = FALSE
  /\ result = "none"

\* Bit k of the frame, the most significant one of each byte first.
FrameBit(k) ==
  (frame[(k - 1) \div ByteBits + 1] \div 2^(ByteBits - 1 - ((k - 1) % ByteBits))) % 2

\* The level n is still there 40 us after it has begun.
LongAt(n) == n = 2 \/ n = Rest \/ FrameBit((n - 2) \div 2) = 1

\* dht_sensor_read returns; its local variables and the signal are gone.
Leave(r) ==
  /\ dpc' = "idle" /\ line' = 0 /\ frame' = <<>> /\ bits' = <<>> /\ first' = 0
  /\ disturbed' = FALSE
  /\ result' = r

-----------------------------------------------------------------------------
\* dht_start_signal: the sensor measures and prepares its frame, if it is there.
dht_start_signal ==
  /\ dpc = "idle"
  /\ dpc' = "wait_low"
  /\ \/ UNCHANGED frame
     \/ \E s \in Samples :
          frame' = <<s[1], 0, s[2], 0, (s[1] + s[2]) % 2^ByteBits>>
  /\ UNCHANGED <<line, bits, first, disturbed, result>>

\* Mutant: the waits for the response have no limit.
WaitForever ==
  /\ \/ dpc = "wait_low" /\ ~High /\ dpc' = "wait_high"
     \/ dpc = "wait_high" /\ High /\ dpc' = "bit_low"
  /\ UNCHANGED <<line, frame, bits, first, disturbed, result>>

\* dht_wait_response: the two waits give up after 100 polls, which is longer
\* than any level of a sensor that is there.
dht_wait_response ==
  \/ /\ \/ dpc = "wait_low" /\ ~High /\ dpc' = "wait_high"
        \/ dpc = "wait_high" /\ High /\ dpc' = "bit_low"
     /\ UNCHANGED <<line, frame, bits, first, disturbed, result>>
  \/ /\ (dpc = "wait_low" /\ High) \/ (dpc = "wait_high" /\ ~High)
     /\ frame = <<>> \/ disturbed
     /\ Leave("error")

\* The next bit, or the end of the frame.
AfterBit(read) == IF Len(read) = Bits THEN "check" ELSE "bit_low"

\* Mutant: the driver does not wait for the end of a long pulse.
SampleKeepsPulse ==
  /\ dpc = "bit_low" /\ High
  /\ line' \in IF ~disturbed THEN {IF LongAt(line) THEN line ELSE line + 1}
               ELSE {n \in {line, line + 1, line + 2} : n <= Rest}
  /\ first' = IF ~disturbed /\ bits = <<>> THEN line ELSE first
  /\ bits' = Append(bits, IF ~disturbed /\ line' % 2 = 0 THEN 1 ELSE 0)
  /\ dpc' = AfterBit(bits')
  /\ UNCHANGED <<frame, disturbed, result>>

\* dht_read_byte: when the line has gone high, wait 40 us and look again.  A thread
\* that came late may find a pulse that ends earlier, or the next one.
SampleBit ==
  /\ dpc = "bit_low" /\ High
  /\ line' \in IF ~disturbed THEN {IF LongAt(line) THEN line ELSE line + 1}
               ELSE {n \in {line, line + 1, line + 2} : n <= Rest}
  /\ first' = IF ~disturbed /\ bits = <<>> THEN line ELSE first
  /\ bits' = Append(bits, IF ~disturbed /\ line' % 2 = 0 THEN 1 ELSE 0)
  /\ dpc' = IF line' % 2 = 0 THEN "bit_high" ELSE AfterBit(bits')
  /\ UNCHANGED <<frame, disturbed, result>>

\* The end of the pulse of a one.
PulseEnds ==
  /\ dpc = "bit_high" /\ ~High
  /\ dpc' = AfterBit(bits)
  /\ UNCHANGED <<line, frame, bits, first, disturbed, result>>

\* data[i].
Byte(i) ==
  LET from == (i - 1) * ByteBits
  IN  MapThenFoldSet(LAMBDA x, y : x + y, 0,
                     LAMBDA j : bits[from + j] * 2^(ByteBits - j),
                     LAMBDA S : CHOOSE j \in S : TRUE,
                     1..ByteBits)

ChecksumOk == Byte(5) = (Byte(1) + Byte(2) + Byte(3) + Byte(4)) % 2^ByteBits

\* The checksum decides, and of a disturbed read may come out either way; then
\* humidity and temperature are stored one after the other.
CheckSum ==
  /\ dpc = "check"
  /\ \/ (disturbed \/ ~ChecksumOk) /\ Leave("error")
     \/ /\ disturbed \/ ChecksumOk
        /\ dpc' = "humidity"
        /\ UNCHANGED <<line, frame, bits, first, disturbed, result>>

StoreHumidity ==
  /\ dpc = "humidity"
  /\ dpc' = "temperature"
  /\ UNCHANGED <<line, frame, bits, first, disturbed, result>>

StoreTemperature == dpc = "temperature" /\ Leave("ok")

Driver == dht_wait_response \/ SampleBit \/ PulseEnds \/ CheckSum

-----------------------------------------------------------------------------
Polling == {"wait_low", "wait_high", "bit_low", "bit_high"}

\* The loops of the driver that wait for the sensor.
Waiting ==
  \/ dpc \in {"wait_low", "bit_high"} /\ High
  \/ dpc \in {"wait_high", "bit_low"} /\ ~High

\* The sensor goes on to its next level, which the driver waits for.
LineMoves ==
  /\ Waiting
  /\ frame # <<>> /\ line < Rest
  /\ line' = line + 1
  /\ UNCHANGED <<dpc, frame, bits, first, disturbed, result>>

\* Another thread runs while the sensor goes on sending; what is read of this
\* frame may be anything.
Disturb ==
  /\ disturbed' = (dpc # "idle")
  /\ line' \in IF dpc \in Polling /\ frame # <<>> THEN line..Rest ELSE {line}
  /\ bits' = [k \in DOMAIN bits |-> 0] /\ first' = 0
  /\ UNCHANGED <<dpc, frame, result>>

-----------------------------------------------------------------------------
dhtTypeOK ==
  /\ dpc \in {"idle", "wait_low", "wait_high", "bit_low", "bit_high", "check",
              "humidity", "temperature"}
  /\ line \in 0..Rest
  /\ frame \in Seq(Nat)
  /\ bits \in Seq({0, 1}) /\ Len(bits) <= Bits
  /\ first \in 0..Rest
  /\ disturbed \in BOOLEAN
  /\ result \in {"none", "ok", "error"}

\* The level that bit k of this read is sampled in.
Pulse(k) == first + 2 * (k - 1)

\* As long as the thread is not preempted, dht_read_byte keeps step with the
\* sensor: the bits are the lengths of successive pulses, none read twice and none
\* passed over from the first one on, whichever that is, and the read leaves
\* the last of them before the checksum is tested.
SamplesInStep ==
  ~disturbed =>
    /\ \A k \in DOMAIN bits : bits[k] = IF LongAt(Pulse(k)) THEN 1 ELSE 0
    /\ dpc = "bit_low" /\ bits # <<>> =>
         line \in {Pulse(Len(bits)) + 1, Pulse(Len(bits)) + 2}
    /\ dpc = "bit_high" => line \in {Pulse(Len(bits)), Pulse(Len(bits)) + 1}
    /\ dpc = "check" => line = Pulse(Bits) + 1

\* What it rests on, an inductive invariant: the first bit is sampled while the
\* line is high, and no bit is read before the response.
StepIInv ==
  /\ line \in Nat /\ bits \in Seq({0, 1})
  /\ dpc \in {"idle", "wait_low", "wait_high"} => bits = <<>>
  /\ dpc = "bit_high" => bits # <<>>
  /\ first \in Nat /\ first % 2 = 0
  /\ SamplesInStep
=============================================================================
