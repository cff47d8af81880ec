---------------------------- MODULE MCCollector ----------------------------
(***************************************************************************)
(* A small instance of Collector for TLC: bytes of two bits, one sample    *)
(* whose checksum the driver accepts and one it rejects even if it is not  *)
(* preempted, and the shortest and the longest text the thread formats.    *)
(* The driver reads the response as the first bit: of the frame of <<1, 2>>*)
(* it makes the bytes 2, 2, 1, 0, 1, of that of <<1, 1>> 2, 2, 0, 2, 1.    *)
(***************************************************************************)
EXTENDS Collector

MCSamples == {<<1, 2>>, <<1, 1>>}
=============================================================================
