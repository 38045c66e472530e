---------------------------- MODULE MCPhoneJobs ----------------------------
(* Small instances of PhoneJobs: the phone and one jobs-only device. *)
EXTENDS PhoneJobs

CONSTANTS phone, pn,    \* the phone's worker, a laptop's
          cmd,          \* a command for the phone
          rst, upd,     \* a restart and an update of the laptop
          s1, s2,       \* the phone's stream, and one that replaces it
          l1, l2        \* the laptop's: an old worker's, an updated one's

MCDeviceOf == [j \in Jobs |-> IF j = cmd THEN phone ELSE pn]

MCKindOf ==
  [j \in Jobs |-> IF j = cmd THEN "cmd"
                  ELSE IF j = rst THEN "restart" ELSE "update"]

MCStreamDevice == [s \in Streams |-> IF s \in {l1, l2} THEN pn ELSE phone]

\* l1 is opened by a worker too old to take an update.
MCStreamKinds == [s \in Streams |-> IF s = l1 THEN {"restart"} ELSE Kinds]
=============================================================================
