-------------------------- MODULE MCClientSignals --------------------------
(***************************************************************************)
(* Instances of ClientSignals for TLC.  Five signals nest up to five       *)
(* handlers, with every signal before, in, between and after the rounds.   *)
(***************************************************************************)
EXTENDS ClientSignals
=============================================================================
