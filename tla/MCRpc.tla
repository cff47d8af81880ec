------------------------------- MODULE MCRpc -------------------------------
(***************************************************************************)
(* A small instance of Rpc for TLC: two slots and five calls, so that each *)
(* slot is used again, one of them with an unknown method.                 *)
(***************************************************************************)
EXTENDS Rpc
=============================================================================
