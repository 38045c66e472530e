---------------------------- MODULE MCInputClaim ----------------------------
(* InputClaim with the phone whose microphone is Claude's, hot twice. *)
EXTENDS InputClaim

CONSTANT cece

Starts == [p \in Phones |-> 2]
=============================================================================
