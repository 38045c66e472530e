---------------------------- MODULE MCDuckDebt ----------------------------
(* Small instances of DuckDebt: two or three replies, two rooms. *)
EXTENDS DuckDebt

CONSTANTS r1, r2,  \* replies of the local lane
          p,       \* a reply of the phone's lane
          c1, c2   \* rooms
=============================================================================
