-------------------------- MODULE MCThreadEvents --------------------------
(* ThreadEvents with three connections and one message. *)
EXTENDS ThreadEvents, TLC

CONSTANT m
=============================================================================
