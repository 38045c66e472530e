----------------------------- MODULE RemoteCall -----------------------------
(***************************************************************************)
(* What asking another host to run something promises, without streams,    *)
(* timeouts or retries: the command runs at most once; the caller is told  *)
(* its exit code only after it ran, and is told that nobody took it only   *)
(* if it never runs at all.  PhoneJobs implements this (PhoneJobs!Calls).  *)
(***************************************************************************)
EXTENDS Naturals

CONSTANT Jobs

VARIABLES
  call,   \* "new", "waiting", "answered", "refused" or "unknown"
  runs    \* how often the command has been run

vars == <<call, runs>>

Init ==
  /\ call = [j \in Jobs |-> "new"]
  /\ runs = [j \in Jobs |-> 0]

Tell(j, what) == call' = [call EXCEPT ![j] = what]

Ask(j) ==
  /\ call[j] = "new"
  /\ Tell(j, "waiting")
  /\ UNCHANGED runs

\* Nobody took it, and nobody will.
Refuse(j) ==
  /\ call[j] \in {"new", "waiting"}
  /\ runs[j] = 0
  /\ Tell(j, "refused")
  /\ UNCHANGED runs

\* Once; also after the caller has stopped waiting for the outcome.
Run(j) ==
  /\ call[j] \in {"waiting", "unknown"}
  /\ runs[j] = 0
  /\ runs' = [runs EXCEPT ![j] = 1]
  /\ UNCHANGED call

Answer(j) ==
  /\ call[j] = "waiting"
  /\ runs[j] = 1
  /\ Tell(j, "answered")
  /\ UNCHANGED runs

GiveUp(j) ==
  /\ call[j] = "waiting"
  /\ Tell(j, "unknown")
  /\ UNCHANGED runs

\* The server went away under every caller that was waiting.
CutOff ==
  /\ call' = [j \in Jobs |-> IF call[j] = "waiting" THEN "unknown"
                             ELSE call[j]]
  /\ UNCHANGED runs

Next ==
  \/ CutOff
  \/ \E j \in Jobs :
       Ask(j) \/ Refuse(j) \/ Run(j) \/ Answer(j) \/ GiveUp(j)

Spec == Init /\ [][Next]_vars
=============================================================================
