------------------------------ MODULE MCMemory ------------------------------
(***************************************************************************)
(* Small heaps for TLC.  The size a freed block appears to have, 171 bytes *)
(* for every block below 64 KB, is not scaled down, so the heap is a       *)
(* little larger than that.                                                *)
(***************************************************************************)
EXTENDS Memory
=============================================================================
