-------------------------- MODULE MCUserInterrupt --------------------------
(***************************************************************************)
(* Small instances of UserInterrupt for TLC.  CountedOnce needs a server   *)
(* that counts to more than one, AnswersRequest a second request.          *)
(***************************************************************************)
EXTENDS UserInterrupt
=============================================================================
