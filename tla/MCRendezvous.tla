---------------------------- MODULE MCRendezvous ----------------------------
(* Rendezvous with three askers and two transcripts. *)
EXTENDS Rendezvous, TLC

CONSTANTS a1, a2, a3, w1, w2

Alike == Permutations(Askers) \cup Permutations(Words)
=============================================================================
