--------------------------- MODULE MCSessionHost ---------------------------
(* SessionHost on two sessions, with room for one process. *)
EXTENDS SessionHost

CONSTANTS a, b, m1, m2, m3

ToOne == [m \in Msgs |-> IF m = m3 THEN b ELSE a]
=============================================================================
