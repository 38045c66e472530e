-------------------------- MODULE SpeechLockProofs --------------------------
(***************************************************************************)
(* Theorems about SpeechLock for any number of clips, conversations,       *)
(* sentences and any choice of who pauses, wedges, crashes or supersedes.  *)
(***************************************************************************)
EXTENDS SpeechLock, TLAPS

\* A scanning clip has the flock; a clip that is past its take has it too,
\* unless it came back without it.
HoldsOrLoose ==
  \A c \in Clips :
    /\ pc[c] \in {"scan", "claim", "sibs"} => token = c
    /\ pc[c] \in {"taken", "cleared", "head", "mind", "play"} =>
         token = c \/ c \in loose

\* What every step preserves: a release frees the lock by looking at who
\* owns it (TokenInUse), who may speak follows from who owns it
\* (HoldsOrLoose), and only a clip without an entry submits one.
IInv == TypeOK /\ TokenInUse /\ HoldsOrLoose /\ NoGhostWaiter

-----------------------------------------------------------------------------
(* Lemmas about the registry operators *)

\* Contenders and claims are ranks.
LEMMA RanksFound ==
  ASSUME TypeOK, NEW c \in Clips
  PROVE  Contenders(c) \subseteq Ranks /\ Claims(c) \subseteq Ranks
BY DEF TypeOK, Contenders, Claims, Waiters

\* Reaping leaves a directory of entries.
LEMMA ReapedType ==
  ASSUME NEW r \in [Clips -> {"none", "pending", "waiting"}]
  PROVE  Reaped(r) \in [Clips -> {"none", "pending", "waiting"}]
BY DEF Reaped

\* A bumped rank stays a rank, and a rank below HIGH stays below HIGH.
LEMMA BumpedRank ==
  ASSUME NEW q \in Ranks
  PROVE  Bumped(q) \in Ranks /\ (q < HIGH => Bumped(q) < HIGH)
BY DEF Bumped, Ranks, HIGH, URGENT

-----------------------------------------------------------------------------

\* The rank a clip's priority gives it is a rank.
LEMMA BaseRankType == BaseRank \in [Clips -> Ranks]
BY ClipDataAssumption DEF Ranks, LOW, NORMAL, REPLAY, HIGH, UNREAD, URGENT

LEMMA InitIInv == Init => IInv
<1> SUFFICES ASSUME Init PROVE IInv
  OBVIOUS
<1>1. rank \in [Clips -> Ranks]
  BY BaseRankType DEF Init
<1>2. pos \in [Clips -> 0 .. Sentences]
  BY ClipDataAssumption DEF Init
<1>3. TypeOK
  BY <1>1, <1>2 DEF Init, TypeOK, States
<1>4. TokenInUse /\ HoldsOrLoose /\ NoGhostWaiter
  BY DEF Init, TokenInUse, HoldsOrLoose, NoGhostWaiter, Queueing
<1> QED
  BY <1>3, <1>4 DEF IInv

\* Type correctness and token ownership over the steps of Submission.
LEMMA SubmissionStep ==
  ASSUME IInv, NEW c \in Clips, Submission(c)
  PROVE  IInv'
<1> USE ClipsAssumption, ClipDataAssumption DEF Goto, Register, Unregister, Drop, worldVars
<1>0. TypeOK /\ TokenInUse /\ HoldsOrLoose /\ NoGhostWaiter
  BY DEF IInv
<1>1. CASE Announce(c)
  <2>1. TypeOK'
    BY <1>0, <1>1, BaseRankType
    DEF TypeOK, States, Announce
  <2>2. TokenInUse' /\ HoldsOrLoose' /\ NoGhostWaiter'
    BY <1>0, <1>1
    DEF TypeOK, TokenInUse, HoldsOrLoose, NoGhostWaiter, Queueing, Announce
  <2> QED
    BY <2>1, <2>2 DEF IInv
<1>2. CASE Rendered(c)
  <2>1. TypeOK'
    BY <1>0, <1>2
    DEF TypeOK, States, Rendered
  <2>2. TokenInUse' /\ HoldsOrLoose' /\ NoGhostWaiter'
    BY <1>0, <1>2
    DEF TypeOK, TokenInUse, HoldsOrLoose, NoGhostWaiter, Queueing, Rendered
  <2> QED
    BY <2>1, <2>2 DEF IInv
<1>3. CASE Silenced(c)
  <2>1. TypeOK'
    BY <1>0, <1>3
    DEF TypeOK, States, Silenced, Leave
  <2>2. TokenInUse' /\ HoldsOrLoose' /\ NoGhostWaiter'
    BY <1>0, <1>3
    DEF TypeOK, TokenInUse, HoldsOrLoose, NoGhostWaiter, Queueing, Silenced, Leave
  <2> QED
    BY <2>1, <2>2 DEF IInv
<1>4. CASE KeepPlace(c)
  <2>1. TypeOK'
    BY <1>0, <1>4, BaseRankType
    DEF TypeOK, States, KeepPlace
  <2>2. TokenInUse' /\ HoldsOrLoose' /\ NoGhostWaiter'
    BY <1>0, <1>4
    DEF TypeOK, TokenInUse, HoldsOrLoose, NoGhostWaiter, Queueing, KeepPlace
  <2> QED
    BY <2>1, <2>2 DEF IInv
<1>5. CASE Acquire(c)
  <2>1. TypeOK'
    BY <1>0, <1>5, BaseRankType
    DEF TypeOK, States, Acquire
  <2>2. TokenInUse' /\ HoldsOrLoose' /\ NoGhostWaiter'
    BY <1>0, <1>5
    DEF TypeOK, TokenInUse, HoldsOrLoose, NoGhostWaiter, Queueing, Acquire
  <2> QED
    BY <2>1, <2>2 DEF IInv
<1>6. CASE AcquireSuperseding(c)
  <2>1. TypeOK'
    BY <1>0, <1>6, BaseRankType
    DEF TypeOK, States, AcquireSuperseding, Supersedes
  <2>2. TokenInUse' /\ HoldsOrLoose' /\ NoGhostWaiter'
    BY <1>0, <1>6
    DEF TypeOK, TokenInUse, HoldsOrLoose, NoGhostWaiter, Queueing, AcquireSuperseding, Supersedes
  <2> QED
    BY <2>1, <2>2 DEF IInv
<1>7. CASE MarkSupersede(c)
  <2>1. TypeOK'
    BY <1>0, <1>7
    DEF TypeOK, States, MarkSupersede, Supersedes
  <2>2. TokenInUse' /\ HoldsOrLoose' /\ NoGhostWaiter'
    BY <1>0, <1>7
    DEF TypeOK, TokenInUse, HoldsOrLoose, NoGhostWaiter, Queueing, MarkSupersede, Supersedes
  <2> QED
    BY <2>1, <2>2 DEF IInv
<1> QED
  BY <1>1, <1>2, <1>3, <1>4, <1>5, <1>6, <1>7 DEF Submission

\* Type correctness and token ownership over the steps of Take.
LEMMA TakeStep ==
  ASSUME IInv, NEW c \in Clips, Take(c)
  PROVE  IInv'
<1> USE ClipsAssumption, ClipDataAssumption DEF Goto, Register, Unregister, Drop, worldVars
<1>0. TypeOK /\ TokenInUse /\ HoldsOrLoose /\ NoGhostWaiter
  BY DEF IInv
<1>1. CASE Lock(c)
  <2>1. TypeOK'
    BY <1>0, <1>1
    DEF TypeOK, States, Lock
  <2>2. TokenInUse' /\ HoldsOrLoose' /\ NoGhostWaiter'
    BY <1>0, <1>1
    DEF TypeOK, TokenInUse, HoldsOrLoose, NoGhostWaiter, Queueing, Lock
  <2> QED
    BY <2>1, <2>2 DEF IInv
<1>2. CASE SkipBusy(c)
  <2>1. TypeOK'
    BY <1>0, <1>2
    DEF TypeOK, States, SkipBusy, ReturnLoose, Return
  <2>2. TokenInUse' /\ HoldsOrLoose' /\ NoGhostWaiter'
    BY <1>0, <1>2
    DEF TypeOK, TokenInUse, HoldsOrLoose, NoGhostWaiter, Queueing, SkipBusy, ReturnLoose, Return
  <2> QED
    BY <2>1, <2>2 DEF IInv
<1>3. CASE GiveUpBusy(c)
  <2>1. TypeOK'
    BY <1>0, <1>3
    DEF TypeOK, States, GiveUpBusy, ReturnLoose, Return
  <2>2. TokenInUse' /\ HoldsOrLoose' /\ NoGhostWaiter'
    BY <1>0, <1>3
    DEF TypeOK, TokenInUse, HoldsOrLoose, NoGhostWaiter, Queueing, GiveUpBusy, ReturnLoose, Return
  <2> QED
    BY <2>1, <2>2 DEF IInv
<1>4. CASE GiveUpReplay(c)
  <2>1. TypeOK'
    BY <1>0, <1>4
    DEF TypeOK, States, GiveUpReplay, ReturnLoose, Return
  <2>2. TokenInUse' /\ HoldsOrLoose' /\ NoGhostWaiter'
    BY <1>0, <1>4
    DEF TypeOK, TokenInUse, HoldsOrLoose, NoGhostWaiter, Queueing, GiveUpReplay, ReturnLoose, Return
  <2> QED
    BY <2>1, <2>2 DEF IInv
<1>5. CASE ReadContenders(c)
  <2>1. TypeOK'
    BY <1>0, <1>5, RanksFound, ReapedType
    DEF TypeOK, States, ReadContenders
  <2>2. TokenInUse' /\ HoldsOrLoose' /\ NoGhostWaiter'
    BY <1>0, <1>5
    DEF TypeOK, TokenInUse, HoldsOrLoose, NoGhostWaiter, Queueing, Reaped, ReadContenders
  <2> QED
    BY <2>1, <2>2 DEF IInv
<1>6. CASE ReadClaim(c)
  <2>1. TypeOK'
    BY <1>0, <1>6, ReapedType
    DEF TypeOK, States, ReadClaim, Defer, ReturnLoose, Return
  <2>2. TokenInUse' /\ HoldsOrLoose'
    BY <1>0, <1>6
    DEF TypeOK, TokenInUse, HoldsOrLoose, ReadClaim, Defer, ReturnLoose, Return
  <2>3. \/ /\ pc' \in {[pc EXCEPT ![c] = "try"], [pc EXCEPT ![c] = "sibs"]}
           /\ reg' = Reaped(reg)
        \/ /\ \E label \in {"taken", "play"} : pc' = [pc EXCEPT ![c] = label]
           /\ reg' = [Reaped(reg) EXCEPT ![c] = "none"]
    BY <1>6 DEF ReadClaim, Defer, ReturnLoose, Return
  <2>4. NoGhostWaiter'
    BY <1>0, <1>6, <2>3
    DEF TypeOK, NoGhostWaiter, Queueing, Reaped, ReadClaim
  <2> QED
    BY <2>1, <2>2, <2>4 DEF IInv
<1>7. CASE ReadSiblings(c)
  <2>1. TypeOK'
    BY <1>0, <1>7, ReapedType
    DEF TypeOK, States, ReadSiblings, Defer, ReturnLoose, Return
  <2>2. TokenInUse' /\ HoldsOrLoose'
    BY <1>0, <1>7
    DEF TypeOK, TokenInUse, HoldsOrLoose, ReadSiblings, Defer, ReturnLoose, Return
  <2>3. \/ /\ pc' \in {[pc EXCEPT ![c] = "try"], [pc EXCEPT ![c] = "sibs"]}
           /\ reg' = Reaped(reg)
        \/ /\ \E label \in {"taken", "play"} : pc' = [pc EXCEPT ![c] = label]
           /\ reg' = [Reaped(reg) EXCEPT ![c] = "none"]
    BY <1>7 DEF ReadSiblings, Defer, ReturnLoose, Return
  <2>4. NoGhostWaiter'
    BY <1>0, <1>7, <2>3
    DEF TypeOK, NoGhostWaiter, Queueing, Reaped, ReadSiblings
  <2> QED
    BY <2>1, <2>2, <2>4 DEF IInv
<1> QED
  BY <1>1, <1>2, <1>3, <1>4, <1>5, <1>6, <1>7 DEF Take

\* Type correctness and token ownership over the steps of Checkpoint.
LEMMA CheckpointStep ==
  ASSUME IInv, NEW c \in Clips, Checkpoint(c)
  PROVE  IInv'
<1> USE ClipsAssumption, ClipDataAssumption DEF Goto, Register, Unregister, Drop, worldVars
<1>0. TypeOK /\ TokenInUse /\ HoldsOrLoose /\ NoGhostWaiter
  BY DEF IInv
<1>1. CASE Abandon(c)
  <2>1. TypeOK'
    BY <1>0, <1>1
    DEF TypeOK, States, Abandon, Leave
  <2>2. TokenInUse' /\ HoldsOrLoose' /\ NoGhostWaiter'
    BY <1>0, <1>1
    DEF TypeOK, TokenInUse, HoldsOrLoose, NoGhostWaiter, Queueing, Abandon, Leave
  <2> QED
    BY <2>1, <2>2 DEF IInv
<1>2. CASE HoldLanded(c)
  <2>1. TypeOK'
    BY <1>0, <1>2
    DEF TypeOK, States, HoldLanded
  <2>2. TokenInUse' /\ HoldsOrLoose' /\ NoGhostWaiter'
    BY <1>0, <1>2
    DEF TypeOK, TokenInUse, HoldsOrLoose, NoGhostWaiter, Queueing, HoldLanded
  <2> QED
    BY <2>1, <2>2 DEF IInv
<1>3. CASE Cleared(c)
  <2>1. TypeOK'
    BY <1>0, <1>3
    DEF TypeOK, States, Cleared
  <2>2. TokenInUse' /\ HoldsOrLoose' /\ NoGhostWaiter'
    BY <1>0, <1>3
    DEF TypeOK, TokenInUse, HoldsOrLoose, NoGhostWaiter, Queueing, Cleared
  <2> QED
    BY <2>1, <2>2 DEF IInv
<1>4. CASE DropQueued(c)
  <2>1. TypeOK'
    BY <1>0, <1>4
    DEF TypeOK, States, DropQueued, Leave
  <2>2. TokenInUse' /\ HoldsOrLoose' /\ NoGhostWaiter'
    BY <1>0, <1>4
    DEF TypeOK, TokenInUse, HoldsOrLoose, NoGhostWaiter, Queueing, DropQueued, Leave
  <2> QED
    BY <2>1, <2>2 DEF IInv
<1>5. CASE Start(c)
  <2>1. TypeOK'
    BY <1>0, <1>5
    DEF TypeOK, States, Start
  <2>2. TokenInUse' /\ HoldsOrLoose' /\ NoGhostWaiter'
    BY <1>0, <1>5
    DEF TypeOK, TokenInUse, HoldsOrLoose, NoGhostWaiter, Queueing, Start
  <2> QED
    BY <2>1, <2>2 DEF IInv
<1>6. CASE HandOff(c)
  <2>1. TypeOK'
    BY <1>0, <1>6
    DEF TypeOK, States, HandOff
  <2>2. TokenInUse' /\ HoldsOrLoose' /\ NoGhostWaiter'
    BY <1>0, <1>6
    DEF TypeOK, TokenInUse, HoldsOrLoose, NoGhostWaiter, Queueing, HandOff
  <2> QED
    BY <2>1, <2>2 DEF IInv
<1>7. CASE PushFailed(c)
  <2>1. TypeOK'
    BY <1>0, <1>7
    DEF TypeOK, States, PushFailed, Leave
  <2>2. TokenInUse' /\ HoldsOrLoose' /\ NoGhostWaiter'
    BY <1>0, <1>7
    DEF TypeOK, TokenInUse, HoldsOrLoose, NoGhostWaiter, Queueing, PushFailed, Leave
  <2> QED
    BY <2>1, <2>2 DEF IInv
<1> QED
  BY <1>1, <1>2, <1>3, <1>4, <1>5, <1>6, <1>7 DEF Checkpoint

\* Type correctness and token ownership over the steps of Speak.
LEMMA SpeakStep ==
  ASSUME IInv, NEW c \in Clips, Speak(c)
  PROVE  IInv'
<1> USE ClipsAssumption, ClipDataAssumption DEF Goto, Register, Unregister, Drop, worldVars
<1>0. TypeOK /\ TokenInUse /\ HoldsOrLoose /\ NoGhostWaiter
  BY DEF IInv
<1>1. CASE DropSpeaking(c)
  <2>1. TypeOK'
    BY <1>0, <1>1
    DEF TypeOK, States, DropSpeaking, Leave
  <2>2. TokenInUse' /\ HoldsOrLoose' /\ NoGhostWaiter'
    BY <1>0, <1>1
    DEF TypeOK, TokenInUse, HoldsOrLoose, NoGhostWaiter, Queueing, DropSpeaking, Leave
  <2> QED
    BY <2>1, <2>2 DEF IInv
<1>2. CASE Continue(c)
  <2>1. TypeOK'
    BY <1>0, <1>2
    DEF TypeOK, States, Continue
  <2>2. TokenInUse' /\ HoldsOrLoose' /\ NoGhostWaiter'
    BY <1>0, <1>2
    DEF TypeOK, TokenInUse, HoldsOrLoose, NoGhostWaiter, Queueing, Continue
  <2> QED
    BY <2>1, <2>2 DEF IInv
<1>3. CASE YieldToHigher(c)
  <2>1. TypeOK'
    BY <1>0, <1>3, ReapedType
    DEF TypeOK, States, YieldToHigher, ShouldYield
  <2>2. TokenInUse' /\ HoldsOrLoose' /\ NoGhostWaiter'
    BY <1>0, <1>3
    DEF TypeOK, TokenInUse, HoldsOrLoose, NoGhostWaiter, Queueing, Reaped, YieldToHigher, ShouldYield
  <2> QED
    BY <2>1, <2>2 DEF IInv
<1>4. CASE EndInstead(c)
  <2>1. TypeOK'
    BY <1>0, <1>4
    DEF TypeOK, States, EndInstead, Leave
  <2>2. TokenInUse' /\ HoldsOrLoose' /\ NoGhostWaiter'
    BY <1>0, <1>4
    DEF TypeOK, TokenInUse, HoldsOrLoose, NoGhostWaiter, Queueing, EndInstead, Leave
  <2> QED
    BY <2>1, <2>2 DEF IInv
<1>5. CASE PlaySentence(c)
  <2>1. TypeOK'
    BY <1>0, <1>5, ReapedType
    DEF TypeOK, States, PlaySentence
  <2>2. TokenInUse' /\ HoldsOrLoose' /\ NoGhostWaiter'
    BY <1>0, <1>5
    DEF TypeOK, TokenInUse, HoldsOrLoose, NoGhostWaiter, Queueing, Reaped, PlaySentence
  <2> QED
    BY <2>1, <2>2 DEF IInv
<1>6. CASE SentenceEnds(c)
  <2>1. TypeOK'
    BY <1>0, <1>6
    DEF TypeOK, States, SentenceEnds, SentencesLeft
  <2>2. TokenInUse' /\ HoldsOrLoose' /\ NoGhostWaiter'
    BY <1>0, <1>6
    DEF TypeOK, TokenInUse, HoldsOrLoose, NoGhostWaiter, Queueing, SentenceEnds
  <2> QED
    BY <2>1, <2>2 DEF IInv
<1>7. CASE Finish(c)
  <2>1. TypeOK'
    BY <1>0, <1>7
    DEF TypeOK, States, Finish, Leave
  <2>2. TokenInUse' /\ HoldsOrLoose' /\ NoGhostWaiter'
    BY <1>0, <1>7
    DEF TypeOK, TokenInUse, HoldsOrLoose, NoGhostWaiter, Queueing, Finish, Leave
  <2> QED
    BY <2>1, <2>2 DEF IInv
<1>8. CASE Tick(c)
  <2>1. TypeOK'
    BY <1>0, <1>8
    DEF TypeOK, States, Tick
  <2>2. TokenInUse' /\ HoldsOrLoose' /\ NoGhostWaiter'
    BY <1>0, <1>8
    DEF TypeOK, TokenInUse, HoldsOrLoose, NoGhostWaiter, Queueing, Tick
  <2> QED
    BY <2>1, <2>2 DEF IInv
<1>9. CASE StepAside(c)
  <2>1. TypeOK'
    BY <1>0, <1>9, ReapedType
    DEF TypeOK, States, StepAside, OtherSessionWaiting
  <2>2. TokenInUse' /\ HoldsOrLoose' /\ NoGhostWaiter'
    BY <1>0, <1>9
    DEF TypeOK, TokenInUse, HoldsOrLoose, NoGhostWaiter, Queueing, Reaped, StepAside, OtherSessionWaiting
  <2> QED
    BY <2>1, <2>2 DEF IInv
<1>10. CASE Retake(c)
  <2>1. TypeOK'
    BY <1>0, <1>10, BumpedRank
    DEF TypeOK, States, Retake
  <2>2. TokenInUse' /\ HoldsOrLoose' /\ NoGhostWaiter'
    BY <1>0, <1>10
    DEF TypeOK, TokenInUse, HoldsOrLoose, NoGhostWaiter, Queueing, Retake
  <2> QED
    BY <2>1, <2>2 DEF IInv
<1> QED
  BY <1>1, <1>2, <1>3, <1>4, <1>5, <1>6, <1>7, <1>8, <1>9, <1>10 DEF Speak

\* The listener, the clock and failures.
LEMMA EnvironmentStep == IInv /\ Environment => IInv'
<1> SUFFICES ASSUME IInv, Environment PROVE IInv'
  OBVIOUS
<1> USE ClipsAssumption, ClipDataAssumption DEF Goto, Register, Drop, clipVars, worldVars
<1>0. TypeOK /\ TokenInUse /\ HoldsOrLoose /\ NoGhostWaiter
  BY DEF IInv
<1>1. CASE ToggleHold \/ Flush \/ Age
  <2>1. hold' \in BOOLEAN
    BY <1>0, <1>1 DEF TypeOK, ToggleHold, Flush, Age
  <2>2. clock' \in Nat /\ floor' \in Nat /\ flushed' \in Nat
    BY <1>0, <1>1 DEF TypeOK, ToggleHold, Flush, Age
  <2>3. TypeOK'
    BY <1>0, <1>1, <2>1, <2>2 DEF TypeOK, ToggleHold, Flush, Age
  <2>4. TokenInUse' /\ HoldsOrLoose' /\ NoGhostWaiter'
    BY <1>0, <1>1 DEF TokenInUse, HoldsOrLoose, NoGhostWaiter, Queueing, ToggleHold, Flush, Age
  <2> QED
    BY <2>3, <2>4 DEF IInv
<1>2. ASSUME NEW c \in Clips, Submit(c) \/ AskReplay(c)
      PROVE  IInv'
  <2>1. TypeOK'
    BY <1>0, <1>2 DEF TypeOK, States, Submit, AskReplay
  <2>2. TokenInUse' /\ HoldsOrLoose' /\ NoGhostWaiter'
    BY <1>0, <1>2
    DEF TypeOK, TokenInUse, HoldsOrLoose, NoGhostWaiter, Queueing, Submit, AskReplay
  <2> QED
    BY <2>1, <2>2 DEF IInv
<1>3. ASSUME NEW c \in Clips, Pause(c) \/ Resume(c) \/ Wedge(c)
      PROVE  IInv'
  <2>1. TypeOK'
    BY <1>0, <1>3 DEF TypeOK, Pause, Resume, Wedge
  <2>2. TokenInUse' /\ HoldsOrLoose' /\ NoGhostWaiter'
    BY <1>0, <1>3 DEF TokenInUse, HoldsOrLoose, NoGhostWaiter, Queueing, Pause, Resume, Wedge
  <2> QED
    BY <2>1, <2>2 DEF IInv
<1>4. ASSUME NEW c \in Clips, Crash(c)
      PROVE  IInv'
  <2>1. TypeOK'
    BY <1>0, <1>4 DEF TypeOK, States, Crash
  <2>2. TokenInUse' /\ HoldsOrLoose' /\ NoGhostWaiter'
    BY <1>0, <1>4 DEF TypeOK, TokenInUse, HoldsOrLoose, NoGhostWaiter, Queueing, Crash
  <2> QED
    BY <2>1, <2>2 DEF IInv
<1> QED
  BY <1>1, <1>2, <1>3, <1>4 DEF Environment

LEMMA NextIInv == IInv /\ [Next]_vars => IInv'
<1> SUFFICES ASSUME IInv, [Next]_vars PROVE IInv'
  OBVIOUS
<1>1. CASE Environment
  BY <1>1, EnvironmentStep
<1>2. ASSUME NEW c \in Clips, Step(c) PROVE IInv'
  BY <1>2, SubmissionStep, TakeStep, CheckpointStep, SpeakStep DEF Step
<1>3. CASE UNCHANGED vars
  BY <1>3 DEF IInv, TypeOK, TokenInUse, HoldsOrLoose, NoGhostWaiter, Queueing, vars
<1> QED
  BY <1>1, <1>2, <1>3 DEF Next

THEOREM Invariance == Spec => []IInv
BY InitIInv, NextIInv, PTL DEF Spec

-----------------------------------------------------------------------------
(* The theorems *)

\* Type correctness of the specification.
THEOREM TypeCorrect == Spec => []TypeOK
<1>1. IInv => TypeOK
  BY DEF IInv
<1> QED
  BY <1>1, Invariance, PTL

\* A reply that has ended, on whichever of the ways out of _submit_event,
\* never keeps the token: whoever owns it is speaking or about to.
THEOREM TokenReleased == Spec => []TokenInUse
<1>1. IInv => TokenInUse
  BY DEF IInv
<1> QED
  BY <1>1, Invariance, PTL

\* A live waiter entry is never left behind by a reply that is through.
THEOREM NoEntryLeftBehind == Spec => []NoGhostWaiter
<1>1. IInv => NoGhostWaiter
  BY DEF IInv
<1> QED
  BY <1>1, Invariance, PTL

\* Two clips are heard at once only if one went on without the token.
THEOREM VoiceIsOne == Spec => []OneVoice
<1>1. IInv => OneVoice
  BY DEF IInv, HoldsOrLoose, OneVoice, Speaking
<1> QED
  BY <1>1, Invariance, PTL

-----------------------------------------------------------------------------
(* Canonical order, for any number of clips and conversations: the waiter  *)
(* registry, its pending entries and the last read of the scan together    *)
(* keep a conversation's replies in the order they were submitted.         *)

\* Stamps grow, and are given once.
Stamped ==
  /\ \A c \in Clips : seq[c] <= clock
  /\ \A b \in Clips : pc[b] = "idle" => ahead[b] = {}
  /\ \A b \in Clips : \A a \in ahead[b] :
       pc[a] \notin {"idle", "stamped"} /\ Same(b, a) /\ seq[a] < seq[b]

\* A clip that renders or queues has the entry that says so.
EntryKept ==
  \A c \in Clips :
    /\ pc[c] = "render" => reg[c] = "pending"
    /\ pc[c] \in Queueing => reg[c] = "waiting"

\* Only what was submitted URGENT is ever URGENT: the bump stops short.
UrgentFromTheStart ==
  \A c \in Clips : rank[c] >= HIGH => BaseRank[c] = rank[c]

\* A clip in its sentence loop, or between two takes, has begun.
Begun ==
  \A c \in Clips :
    pc[c] \in {"head", "mind", "play", "gap", "aside"} => pos[c] > 0

\* What a step preserves, and the order of a conversation follows from: the
\* last read of a take misses no sibling that is still to be heard.
OrderInv == IInv /\ Stamped /\ EntryKept /\ UrgentFromTheStart /\ Begun

LEMMA InitOrder == Init => OrderInv
<1> SUFFICES ASSUME Init PROVE OrderInv
  OBVIOUS
<1>1. Stamped /\ EntryKept /\ UrgentFromTheStart /\ Begun
  BY BaseRankType
  DEF Init, Stamped, EntryKept, UrgentFromTheStart, Begun, Queueing
<1> QED
  BY <1>1, InitIInv DEF OrderInv

\* A step of a clip's own process moves that process from one place in the
\* code to another, and stamps nothing.
LEMMA StepMoves ==
  ASSUME TypeOK, NEW c \in Clips, Step(c)
  PROVE  /\ UNCHANGED <<seq, clock, ahead>>
         /\ pc[c] # "idle"
         /\ \E label \in States \ {"idle", "stamped"} :
              pc' = [pc EXCEPT ![c] = label]
<1> USE DEF Goto, worldVars, States
<1>1. CASE Submission(c)
  <2>1. KeepPlace(c) => pc' = [pc EXCEPT ![c] = "gate"]
    BY DEF KeepPlace, TypeOK
  <2> QED
    BY <1>1, <2>1
    DEF Submission, Announce, Rendered, Silenced, Leave, KeepPlace, Acquire,
        AcquireSuperseding, MarkSupersede
<1>2. CASE Take(c)
  <2>1. CASE Lock(c) \/ ReadContenders(c)
    BY <2>1 DEF Lock, ReadContenders
  <2>2. CASE SkipBusy(c) \/ GiveUpBusy(c) \/ GiveUpReplay(c)
    BY <2>2 DEF SkipBusy, GiveUpBusy, GiveUpReplay, ReturnLoose, Return
  <2>3. CASE ReadClaim(c) \/ ReadSiblings(c)
    BY <2>3 DEF ReadClaim, ReadSiblings, Defer, ReturnLoose, Return
  <2> QED
    BY <1>2, <2>1, <2>2, <2>3 DEF Take
<1>3. CASE Checkpoint(c)
  BY <1>3
  DEF Checkpoint, Abandon, Leave, HoldLanded, Cleared, DropQueued, Start,
      HandOff, PushFailed
<1>4. CASE Speak(c)
  BY <1>4
  DEF Speak, DropSpeaking, Leave, Continue, YieldToHigher, EndInstead,
      PlaySentence, SentenceEnds, Finish, Tick, StepAside, Retake
<1> QED
  BY <1>1, <1>2, <1>3, <1>4 DEF Step

\* Stamps change only when a clip is submitted.
LEMMA StampedStep == OrderInv /\ [Next]_vars => Stamped'
<1> SUFFICES ASSUME OrderInv, [Next]_vars PROVE Stamped'
  OBVIOUS
<1>0. TypeOK /\ Stamped /\ NoGhostWaiter
  BY DEF OrderInv, IInv
<1>1. ASSUME UNCHANGED <<seq, clock, ahead>>,
             \A c \in Clips : pc'[c] = "idle" <=> pc[c] = "idle",
             \A c \in Clips : pc'[c] = "stamped" => pc[c] = "stamped"
      PROVE  Stamped'
  BY <1>0, <1>1 DEF TypeOK, Stamped, Same
<1>2. ASSUME NEW c \in Clips, Submit(c) PROVE Stamped'
  <2>1. \A d \in Clips : reg[d] # "none" => pc[d] \notin {"idle", "stamped"}
    BY <1>0 DEF TypeOK, NoGhostWaiter, Queueing
  <2>2. /\ pc' = [pc EXCEPT ![c] = "stamped"] /\ pc[c] = "idle"
        /\ seq' = [seq EXCEPT ![c] = clock + 1] /\ clock' = clock + 1
        /\ \A d \in ahead'[c] : d \in Clips /\ Same(c, d) /\ reg[d] # "none"
        /\ \A b \in Clips \ {c} : ahead'[b] = ahead[b]
    BY <1>0, <1>2 DEF TypeOK, Submit, Goto
  <2>3. \A d \in Clips : seq'[d] <= clock'
    BY <1>0, <2>2 DEF TypeOK, Stamped
  <2>4. \A b \in Clips : pc'[b] = "idle" => ahead'[b] = {}
    BY <1>0, <2>2 DEF TypeOK, Stamped
  <2>5. ASSUME NEW b \in Clips, NEW a \in ahead'[b]
        PROVE  /\ pc'[a] \notin {"idle", "stamped"}
               /\ Same(b, a) /\ seq'[a] < seq'[b]
    <3>1. CASE b = c
      BY <1>0, <2>1, <2>2, <3>1 DEF TypeOK, Stamped
    <3>2. CASE b # c
      BY <1>0, <2>2, <3>2 DEF TypeOK, Stamped
    <3> QED
      BY <3>1, <3>2
  <2> QED
    BY <2>3, <2>4, <2>5 DEF Stamped, Same
<1>3. ASSUME NEW c \in Clips, AskReplay(c) PROVE Stamped'
  <2>1. /\ pc' = [pc EXCEPT ![c] = "try"] /\ pc[c] = "idle"
        /\ seq' = [seq EXCEPT ![c] = clock + 1] /\ clock' = clock + 1
        /\ ahead' = ahead
    BY <1>3 DEF AskReplay, Goto
  <2> QED
    BY <1>0, <2>1 DEF TypeOK, Stamped, Same
<1>4. ASSUME NEW c \in Clips, Step(c) PROVE Stamped'
  BY <1>0, <1>1, <1>4, StepMoves DEF TypeOK
<1>5. CASE Environment
  <2>1. CASE ToggleHold \/ Flush \/ Age
    BY <1>1, <2>1 DEF ToggleHold, Flush, Age, clipVars
  <2>2. ASSUME NEW c \in Clips, Pause(c) \/ Resume(c) \/ Wedge(c)
        PROVE  Stamped'
    BY <1>1, <2>2 DEF Pause, Resume, Wedge, clipVars
  <2>3. ASSUME NEW c \in Clips, Crash(c) PROVE Stamped'
    BY <1>0, <1>1, <2>3 DEF TypeOK, Crash, Goto
  <2> QED
    BY <1>2, <1>3, <1>5, <2>1, <2>2, <2>3 DEF Environment
<1>6. CASE UNCHANGED vars
  BY <1>1, <1>6 DEF vars
<1> QED
  BY <1>4, <1>5, <1>6 DEF Next

\* Entries follow the place in the code.
LEMMA EntryStep == OrderInv /\ [Next]_vars => EntryKept'
<1> SUFFICES ASSUME OrderInv, [Next]_vars PROVE EntryKept'
  OBVIOUS
<1> USE DEF Goto, Register, Unregister, worldVars, clipVars
<1>0. TypeOK /\ EntryKept
  BY DEF OrderInv, IInv
<1>1. ASSUME NEW c \in Clips, Submission(c) PROVE EntryKept'
  <2>1. CASE Announce(c) \/ Rendered(c) \/ Silenced(c) \/ KeepPlace(c)
    BY <1>0, <2>1
    DEF TypeOK, EntryKept, Queueing, Announce, Rendered, Silenced, Leave,
        KeepPlace
  <2>2. CASE Acquire(c) \/ AcquireSuperseding(c) \/ MarkSupersede(c)
    BY <1>0, <2>2
    DEF TypeOK, EntryKept, Queueing, Acquire, AcquireSuperseding,
        MarkSupersede
  <2> QED
    BY <1>1, <2>1, <2>2 DEF Submission
<1>2. ASSUME NEW c \in Clips, Take(c) PROVE EntryKept'
  <2>1. CASE Lock(c)
    BY <1>0, <2>1 DEF TypeOK, EntryKept, Queueing, Lock
  <2>2. CASE SkipBusy(c) \/ GiveUpBusy(c) \/ GiveUpReplay(c)
    BY <1>0, <2>2
    DEF TypeOK, EntryKept, Queueing, SkipBusy, GiveUpBusy, GiveUpReplay,
        ReturnLoose, Return
  <2>3. CASE ReadContenders(c)
    BY <1>0, <2>3 DEF TypeOK, EntryKept, Queueing, Reaped, ReadContenders
  <2>4. CASE ReadClaim(c) \/ ReadSiblings(c)
    <3>1. /\ pc[c] \in {"claim", "sibs"}
          /\ \/ /\ pc' \in {[pc EXCEPT ![c] = "try"], [pc EXCEPT ![c] = "sibs"]}
                /\ reg' = Reaped(reg)
             \/ /\ \E label \in {"taken", "play"} :
                     pc' = [pc EXCEPT ![c] = label]
                /\ reg' = [Reaped(reg) EXCEPT ![c] = "none"]
      BY <2>4 DEF ReadClaim, ReadSiblings, Defer, ReturnLoose, Return
    <3>2. /\ reg'[c] = IF pc'[c] \in {"try", "sibs"} THEN reg[c] ELSE "none"
          /\ pc'[c] \in {"try", "sibs", "taken", "play"}
          /\ reg[c] = "waiting"
      BY <1>0, <3>1 DEF TypeOK, EntryKept, Queueing, Reaped
    <3>3. \A x \in Clips \ {c} : pc'[x] = pc[x] /\ (reg'[x] = reg[x] \/ pc[x] = "crashed")
      BY <1>0, <3>1 DEF TypeOK, Reaped
    <3> QED
      BY <1>0, <3>2, <3>3 DEF EntryKept, Queueing
  <2> QED
    BY <1>2, <2>1, <2>2, <2>3, <2>4 DEF Take
<1>3. ASSUME NEW c \in Clips, Checkpoint(c) PROVE EntryKept'
  BY <1>0, <1>3
  DEF TypeOK, EntryKept, Queueing, Checkpoint, Abandon, Leave, HoldLanded,
      Cleared, DropQueued, Start, HandOff, PushFailed
<1>4. ASSUME NEW c \in Clips, Speak(c) PROVE EntryKept'
  <2>1. CASE \/ DropSpeaking(c) \/ Continue(c) \/ EndInstead(c)
             \/ SentenceEnds(c) \/ Finish(c) \/ Tick(c) \/ Retake(c)
    BY <1>0, <2>1
    DEF TypeOK, EntryKept, Queueing, DropSpeaking, Leave, Continue,
        EndInstead, SentenceEnds, Finish, Tick, Retake
  <2>2. CASE YieldToHigher(c) \/ PlaySentence(c) \/ StepAside(c)
    BY <1>0, <2>2
    DEF TypeOK, EntryKept, Queueing, Reaped, YieldToHigher, PlaySentence,
        StepAside
  <2> QED
    BY <1>4, <2>1, <2>2 DEF Speak
<1>5. CASE Environment
  <2>1. CASE ToggleHold \/ Flush \/ Age
    BY <1>0, <2>1 DEF EntryKept, ToggleHold, Flush, Age
  <2>2. ASSUME NEW c \in Clips,
               Submit(c) \/ AskReplay(c) \/ Pause(c) \/ Resume(c)
                 \/ Wedge(c) \/ Crash(c)
        PROVE  EntryKept'
    BY <1>0, <2>2
    DEF TypeOK, EntryKept, Queueing, Submit, AskReplay, Pause, Resume,
        Wedge, Crash
  <2> QED
    BY <1>5, <2>1, <2>2 DEF Environment
<1>6. CASE UNCHANGED vars
  BY <1>0, <1>6 DEF EntryKept, vars
<1> QED
  BY <1>1, <1>2, <1>3, <1>4, <1>5, <1>6 DEF Next, Step

\* Ranks change at announce(), acquire() and the bump, which stops below
\* HIGH.
LEMMA UrgentStep == OrderInv /\ [Next]_vars => UrgentFromTheStart'
<1> SUFFICES ASSUME OrderInv, [Next]_vars PROVE UrgentFromTheStart'
  OBVIOUS
<1> USE DEF worldVars, clipVars
<1>0. TypeOK /\ UrgentFromTheStart
  BY DEF OrderInv, IInv
<1>1. CASE UNCHANGED rank
  BY <1>0, <1>1 DEF UrgentFromTheStart
<1>2. ASSUME NEW c \in Clips, rank' = [rank EXCEPT ![c] = BaseRank[c]]
      PROVE  UrgentFromTheStart'
  BY <1>0, <1>2 DEF TypeOK, UrgentFromTheStart
<1>3. ASSUME NEW c \in Clips, Retake(c) PROVE UrgentFromTheStart'
  <2>1. rank[c] \in Ranks
    BY <1>0 DEF TypeOK
  <2>2. Bumped(rank[c]) >= HIGH => Bumped(rank[c]) = rank[c]
    BY <2>1 DEF Bumped, Ranks, HIGH, URGENT
  <2> QED
    BY <1>0, <1>3, <2>1, <2>2 DEF TypeOK, UrgentFromTheStart, Retake
<1>4. ASSUME NEW c \in Clips, Step(c) PROVE UrgentFromTheStart'
  <2>1. CASE Submission(c)
    BY <1>1, <1>2, <2>1
    DEF Submission, Announce, Rendered, Silenced, Leave, KeepPlace, Acquire,
        AcquireSuperseding, MarkSupersede
  <2>2. CASE Take(c)
    BY <1>1, <2>2
    DEF Take, Lock, SkipBusy, GiveUpBusy, GiveUpReplay, ReadContenders,
        ReadClaim, ReadSiblings
  <2>3. CASE Checkpoint(c)
    BY <1>1, <2>3
    DEF Checkpoint, Abandon, Leave, HoldLanded, Cleared, DropQueued, Start,
        HandOff, PushFailed
  <2>4. CASE Speak(c)
    BY <1>1, <1>3, <2>4
    DEF Speak, DropSpeaking, Leave, Continue, YieldToHigher, EndInstead,
        PlaySentence, SentenceEnds, Finish, Tick, StepAside
  <2> QED
    BY <1>4, <2>1, <2>2, <2>3, <2>4 DEF Step
<1>5. CASE Environment
  BY <1>1, <1>5
  DEF Environment, ToggleHold, Flush, Age, Submit, AskReplay, Pause, Resume,
      Wedge, Crash
<1>6. CASE UNCHANGED vars
  BY <1>1, <1>6 DEF vars
<1> QED
  BY <1>4, <1>5, <1>6 DEF Next

\* The first sentence is begun before anything of the loop, and a re-take
\* comes back to the sentence it left.
LEMMA BegunStep == OrderInv /\ [Next]_vars => Begun'
<1> SUFFICES ASSUME OrderInv, [Next]_vars PROVE Begun'
  OBVIOUS
<1> USE DEF Goto, worldVars, clipVars
<1>0. TypeOK /\ Begun
  BY DEF OrderInv, IInv
<1>1. ASSUME NEW c \in Clips, Submission(c) PROVE Begun'
  BY <1>0, <1>1
  DEF TypeOK, Begun, Submission, Announce, Rendered, Silenced, Leave,
      KeepPlace, Acquire, AcquireSuperseding, MarkSupersede
<1>2. ASSUME NEW c \in Clips, Take(c) PROVE Begun'
  <2>1. CASE Lock(c) \/ ReadContenders(c)
    BY <1>0, <2>1 DEF TypeOK, Begun, Lock, ReadContenders
  <2>2. CASE SkipBusy(c) \/ GiveUpBusy(c) \/ GiveUpReplay(c)
    BY <1>0, <2>2
    DEF TypeOK, Begun, SkipBusy, GiveUpBusy, GiveUpReplay, ReturnLoose,
        Return
  <2>3. CASE ReadClaim(c) \/ ReadSiblings(c)
    BY <1>0, <2>3
    DEF TypeOK, Begun, ReadClaim, ReadSiblings, Defer, ReturnLoose, Return
  <2> QED
    BY <1>2, <2>1, <2>2, <2>3 DEF Take
<1>3. ASSUME NEW c \in Clips, Checkpoint(c) PROVE Begun'
  BY <1>0, <1>3
  DEF TypeOK, Begun, Checkpoint, Abandon, Leave, HoldLanded, Cleared,
      DropQueued, Start, HandOff, PushFailed
<1>4. ASSUME NEW c \in Clips, Speak(c) PROVE Begun'
  BY <1>0, <1>4
  DEF TypeOK, Begun, Speak, DropSpeaking, Leave, Continue, YieldToHigher,
      EndInstead, PlaySentence, SentenceEnds, Finish, Tick, StepAside, Retake
<1>5. CASE Environment
  <2>1. CASE ToggleHold \/ Flush \/ Age
    BY <1>0, <2>1 DEF Begun, ToggleHold, Flush, Age
  <2>2. ASSUME NEW c \in Clips,
               Submit(c) \/ AskReplay(c) \/ Pause(c) \/ Resume(c)
                 \/ Wedge(c) \/ Crash(c)
        PROVE  Begun'
    BY <1>0, <2>2
    DEF TypeOK, Begun, Submit, AskReplay, Pause, Resume, Wedge, Crash
  <2> QED
    BY <1>5, <2>1, <2>2 DEF Environment
<1>6. CASE UNCHANGED vars
  BY <1>0, <1>6 DEF Begun, vars
<1> QED
  BY <1>1, <1>2, <1>3, <1>4, <1>5, <1>6 DEF Next, Step

LEMMA NextOrder == OrderInv /\ [Next]_vars => OrderInv'
BY NextIInv, StampedStep, EntryStep, UrgentStep, BegunStep DEF OrderInv

THEOREM OrderInvariance == Spec => []OrderInv
BY InitOrder, NextOrder, PTL DEF Spec

-----------------------------------------------------------------------------

\* Only a take lets a clip through.
LEMMA TakeLetsThrough ==
  ASSUME TypeOK, [Next]_vars, NEW b \in Clips,
         pc[b] # "taken", pc'[b] = "taken"
  PROVE  Take(b)
<1> USE DEF Goto, worldVars, clipVars
<1>1. ASSUME NEW c \in Clips, Step(c) PROVE Take(b)
  <2>1. c = b
    BY <1>1, StepMoves DEF TypeOK
  <2>2. ~Submission(b)
    BY DEF TypeOK, Submission, Announce, Rendered, Silenced, Leave, KeepPlace,
           Acquire, AcquireSuperseding, MarkSupersede
  <2>3. ~Checkpoint(b)
    BY DEF TypeOK, Checkpoint, Abandon, Leave, HoldLanded, Cleared,
           DropQueued, Start, HandOff, PushFailed
  <2>4. ~Speak(b)
    BY DEF TypeOK, Speak, DropSpeaking, Leave, Continue, YieldToHigher,
           EndInstead, PlaySentence, SentenceEnds, Finish, Tick, StepAside,
           Retake
  <2> QED
    BY <1>1, <2>1, <2>2, <2>3, <2>4 DEF Step
<1>2. ~Environment
  BY DEF TypeOK, Environment, ToggleHold, Flush, Age, Submit, AskReplay,
         Pause, Resume, Wedge, Crash
<1>3. ~UNCHANGED vars
  BY DEF vars
<1> QED
  BY <1>1, <1>2, <1>3 DEF Next

\* A replay belongs to no conversation: nobody is ahead of it in one.
LEMMA ReplayAlone ==
  ASSUME OrderInv, NEW b \in Clips, Kind[b] = "replay"
  PROVE  ahead[b] = {}
<1>1. TypeOK /\ Stamped
  BY DEF OrderInv, IInv
<1>2. SessionOf[b] = NoSession
  BY ClipDataAssumption
<1> QED
  BY <1>1, <1>2 DEF Stamped, Same

\* A clip that is let through with the token, and is not URGENT, has nobody
\* ahead of it, or its last read saw no earlier sibling in the registry, or
\* it stood aside for a wedged one.
LEMMA LetThrough ==
  ASSUME OrderInv, [Next]_vars, NEW b \in Clips,
         pc[b] # "taken", pc'[b] = "taken",
         BaseRank[b] < URGENT, b \notin loose',
         ~(\E d \in wedged : reg[d] # "none")
  PROVE  \/ ahead[b] = {}
         \/ pc[b] = "sibs" /\ ~EarlierSiblingWaiting(b)
<1>1. TypeOK /\ UrgentFromTheStart
  BY DEF OrderInv, IInv
<1>2. ~IsUrgent(b)
  BY <1>1 DEF TypeOK, UrgentFromTheStart, IsUrgent, Ranks, URGENT, HIGH
<1>3. Take(b)
  BY <1>1, TakeLetsThrough
<1>4. ~(\E entries : ReturnLoose(b, entries))
  BY <1>1 DEF TypeOK, ReturnLoose
<1>5. ~Defer(b)
  <2>1. ~(\E d \in Waiters(b) : d \in wedged)
    BY DEF Waiters
  <2>2. pc' # [pc EXCEPT ![b] = "try"]
    BY <1>1 DEF TypeOK
  <2> QED
    BY <1>4, <2>1, <2>2 DEF Defer, Goto
<1>6. CASE Lock(b) \/ ReadContenders(b)
  BY <1>1, <1>6 DEF TypeOK, Lock, ReadContenders, Goto
<1>7. CASE SkipBusy(b) \/ GiveUpBusy(b) \/ GiveUpReplay(b)
  BY <1>4, <1>7 DEF SkipBusy, GiveUpBusy, GiveUpReplay
<1>8. CASE ReadClaim(b)
  <2>1. pc' # [pc EXCEPT ![b] = "sibs"]
    BY <1>1 DEF TypeOK
  <2>2. Kind[b] = "replay"
    BY <1>2, <1>5, <1>8, <2>1 DEF ReadClaim, Goto
  <2> QED
    BY <2>2, ReplayAlone
<1>9. CASE ReadSiblings(b)
  BY <1>5, <1>9 DEF ReadSiblings, SiblingFirst
<1> QED
  BY <1>3, <1>6, <1>7, <1>8, <1>9 DEF Take

\* Where an earlier sibling that the last read did not see can be.
LEMMA NotSeen ==
  ASSUME OrderInv, NEW b \in Clips, pc[b] = "sibs",
         ~EarlierSiblingWaiting(b), NEW a \in ahead[b]
  PROVE  \/ pos[a] > 0 \/ pc[a] \in {"done", "crashed"} \/ a \in loose
         \/ pc[a] \in {"gate", "mark"} /\ reg[a] = "none"
         \/ Aged(a)
<1>1. TypeOK /\ Stamped /\ EntryKept /\ Begun /\ HoldsOrLoose
  BY DEF OrderInv, IInv
<1>2. /\ a \in Clips /\ pc[a] \in States \ {"idle", "stamped"}
      /\ Same(b, a) /\ seq[a] < seq[b] /\ a # b
  BY <1>1 DEF TypeOK, Stamped
<1>3. a \notin Waiters(b)
  BY <1>2 DEF EarlierSiblingWaiting
<1>4. reg[a] = "none" \/ pc[a] = "crashed" \/ Aged(a)
  BY <1>2, <1>3 DEF Waiters
<1>5. ASSUME reg[a] = "none", a \notin loose, pos[a] <= 0
      PROVE  pc[a] \in {"done", "crashed", "gate", "mark"}
  <2>1. pc[a] # "render" /\ pc[a] \notin Queueing
    BY <1>1, <1>2, <1>5 DEF EntryKept
  <2>2. pc[a] \notin {"taken", "cleared"}
    BY <1>1, <1>2, <1>5 DEF HoldsOrLoose
  <2>3. pc[a] \notin {"head", "mind", "play", "gap", "aside"}
    BY <1>1, <1>2, <1>5 DEF Begun, TypeOK
  <2> QED
    BY <1>2, <2>1, <2>2, <2>3 DEF States, Queueing
<1>6. pos[a] \in Nat
  BY <1>1, <1>2 DEF TypeOK
<1> QED
  BY <1>4, <1>5, <1>6

\* Replies of a conversation are let through in the order they were
\* submitted: no interleaving of scans, renders, yields and give-ups puts one
\* before a sibling that was already queued and still keeps its place.
THEOREM CanonicalOrder == Spec => HeardInOrder
<1>1. OrderInv /\ [Next]_vars =>
        [\A b \in Clips :
           pc[b] # "taken" /\ pc'[b] = "taken" /\ BaseRank[b] < URGENT
             /\ b \notin loose' /\ ~(\E d \in wedged : reg[d] # "none") =>
           \A a \in ahead[b] :
             \/ pos[a] > 0 \/ pc[a] \in {"done", "crashed"} \/ a \in loose
             \/ pc[a] \in {"gate", "mark"} /\ reg[a] = "none"
             \/ Aged(a)]_vars
  BY LetThrough, NotSeen
<1> QED
  BY <1>1, OrderInvariance, PTL DEF HeardInOrder, Spec

-----------------------------------------------------------------------------
(* Superseding: what a later message drops is not played after it.         *)

\* The marker is compared with the one its writer read before, so two
\* superseders of one conversation may leave the earlier stamp in it.
OneSuperseder ==
  \A d, e \in Clips : Supersedes(d) /\ Supersedes(e) /\ Same(d, e) => d = e

BeforeTake == {"idle", "stamped", "render", "gate", "mark"}

\* A clip that has not been let through has begun nothing; it is paused only
\* in a sentence, wedged only while it renders or speaks, and at the marker
\* only if it supersedes.
NotBegun ==
  \A c \in Clips :
    /\ pc[c] \in BeforeTake \cup {"taken", "cleared"} => pos[c] = 0
    /\ pc[c] \in BeforeTake => c \notin loose
    /\ c \in paused => pos[c] > 0
    /\ c \in wedged => pc[c] \in {"render", "play"}
    /\ pc[c] = "mark" => Supersedes(c)

\* Only ambient and thinking speech skips the queue.
SkipIsLow == \A c \in Clips : skip[c] => BaseRank[c] <= LOW

\* A superseder that queues or was let through has left its stamp.
HasMarked(d) ==
  pos[d] > 0 \/ d \in loose \/ pc[d] \in Queueing \cup {"taken", "cleared"}
Marked == \A d \in Clips : Supersedes(d) /\ HasMarked(d) => marker[SessionOf[d]] >= seq[d]

\* While a clip with the token is about to begin, what supersedes it has not.
DropsFirst ==
  \A c, d \in Clips :
    pc[c] = "cleared" /\ c \notin loose /\ Supersedes(d) /\ Same(c, d) /\ seq[d] > seq[c] =>
      pos[d] = 0 /\ d \notin loose

PlaceInv == OrderInv /\ NotBegun /\ SkipIsLow

SupersedeInv == PlaceInv /\ Marked /\ DropsFirst

LEMMA InitSupersede == Init => SupersedeInv
<1> SUFFICES ASSUME Init PROVE SupersedeInv
  OBVIOUS
<1>1. NotBegun /\ SkipIsLow
  BY DEF Init, NotBegun, SkipIsLow
<1>2. Marked /\ DropsFirst
  BY DEF Init, Marked, HasMarked, DropsFirst, Queueing
<1> QED
  BY <1>1, <1>2, InitOrder DEF SupersedeInv, PlaceInv

\* A superseder is a reply, urgent, and never skips the queue.
LEMMA SupersederIsUrgent ==
  ASSUME NEW d \in Clips, Supersedes(d)
  PROVE  /\ Kind[d] = "reply" /\ BaseRank[d] = URGENT /\ SessionOf[d] \in Sessions
         /\ SkipIsLow => ~skip[d]
BY ClipDataAssumption DEF Supersedes, SkipIsLow, URGENT, LOW, REPLAY, UNREAD, HIGH

\* A step of one clip's process changes nothing of another clip but entries.
LEMMA StepIsItsOwn ==
  ASSUME TypeOK, NEW e \in Clips, Step(e)
  PROVE  /\ UNCHANGED <<seq, wedged>>
         /\ \A x \in Clips \ {e} : /\ pc'[x] = pc[x] /\ pos'[x] = pos[x]
                                   /\ skip'[x] = skip[x] /\ rank'[x] = rank[x]
                                   /\ x \in loose' <=> x \in loose
                                   /\ x \in paused' <=> x \in paused
<1> USE DEF TypeOK, Goto, worldVars
<1>1. CASE Submission(e)
  BY <1>1
  DEF Submission, Announce, Rendered, Silenced, Leave, KeepPlace, Acquire,
      AcquireSuperseding, MarkSupersede
<1>2. CASE Take(e)
  <2>1. CASE Lock(e) \/ ReadContenders(e)
    BY <2>1 DEF Lock, ReadContenders
  <2>2. CASE SkipBusy(e) \/ GiveUpBusy(e) \/ GiveUpReplay(e)
    BY <2>2 DEF SkipBusy, GiveUpBusy, GiveUpReplay, ReturnLoose, Return
  <2>3. CASE ReadClaim(e) \/ ReadSiblings(e)
    BY <2>3 DEF ReadClaim, ReadSiblings, Defer, ReturnLoose, Return
  <2> QED
    BY <1>2, <2>1, <2>2, <2>3 DEF Take
<1>3. CASE Checkpoint(e)
  BY <1>3
  DEF Checkpoint, Abandon, Leave, HoldLanded, Cleared, DropQueued, Start,
      HandOff, PushFailed
<1>4. CASE Speak(e)
  BY <1>4
  DEF Speak, DropSpeaking, Leave, Continue, YieldToHigher, EndInstead,
      PlaySentence, SentenceEnds, Finish, Tick, StepAside, Retake
<1> QED
  BY <1>1, <1>2, <1>3, <1>4 DEF Step

\* What has begun stays begun, and stays out of the states before the take.
LEMMA NotBegunStep == PlaceInv /\ [Next]_vars => NotBegun'
<1> SUFFICES ASSUME PlaceInv, [Next]_vars PROVE NotBegun'
  OBVIOUS
<1> USE DEF Goto, worldVars, clipVars, BeforeTake
<1>0. TypeOK /\ NotBegun /\ Begun
  BY DEF PlaceInv, OrderInv, IInv
<1>1. ASSUME NEW e \in Clips, Step(e) PROVE NotBegun'
  <2> DEFINE Holds(c) ==
        /\ pc'[c] \in BeforeTake \cup {"taken", "cleared"} => pos'[c] = 0
        /\ pc'[c] \in BeforeTake => c \notin loose'
        /\ c \in paused' => pos'[c] > 0
        /\ c \in wedged' => pc'[c] \in {"render", "play"}
        /\ pc'[c] = "mark" => Supersedes(c)
  <2>1. ASSUME NEW c \in Clips \ {e} PROVE Holds(c)
    BY <1>0, <1>1, StepIsItsOwn DEF NotBegun
  <2>2. e \notin wedged' /\ pos[e] \in Nat
    BY <1>0, <1>1, StepIsItsOwn DEF Step, TypeOK
  <2>3. CASE Submission(e)
    BY <1>0, <2>2, <2>3
    DEF TypeOK, NotBegun, Submission, Announce, Rendered, Silenced, Leave, KeepPlace, Acquire,
        AcquireSuperseding, MarkSupersede
  <2>4. CASE Take(e)
    <3>1. CASE Lock(e) \/ ReadContenders(e)
      BY <1>0, <2>2, <3>1 DEF TypeOK, NotBegun, Lock, ReadContenders
    <3>2. CASE SkipBusy(e) \/ GiveUpBusy(e) \/ GiveUpReplay(e)
      BY <1>0, <2>2, <3>2
      DEF TypeOK, NotBegun, SkipBusy, GiveUpBusy, GiveUpReplay, ReturnLoose, Return
    <3>3. CASE ReadClaim(e) \/ ReadSiblings(e)
      BY <1>0, <2>2, <3>3
      DEF TypeOK, NotBegun, ReadClaim, ReadSiblings, Defer, ReturnLoose, Return
    <3> QED
      BY <2>4, <3>1, <3>2, <3>3 DEF Take
  <2>5. CASE Checkpoint(e)
    <3>1. Holds(e)
      BY <1>0, <2>2, <2>5
      DEF TypeOK, NotBegun, Checkpoint, Abandon, Leave, HoldLanded, Cleared, DropQueued, Start,
          HandOff, PushFailed
    <3> QED
      BY <2>1, <3>1 DEF NotBegun
  <2>6. CASE Speak(e)
    <3>1. Holds(e)
      BY <1>0, <2>2, <2>6
      DEF TypeOK, NotBegun, Begun, Speak, DropSpeaking, Leave, Continue, YieldToHigher, EndInstead,
          PlaySentence, SentenceEnds, Finish, Tick, StepAside, Retake
    <3> QED
      BY <2>1, <3>1 DEF NotBegun
  <2> QED
    BY <1>1, <2>3, <2>4, <2>5, <2>6 DEF Step
<1>2. CASE Environment
  <2>1. CASE ToggleHold \/ Flush \/ Age
    BY <1>0, <2>1 DEF NotBegun, ToggleHold, Flush, Age
  <2>2. ASSUME NEW c \in Clips, Submit(c) \/ AskReplay(c) PROVE NotBegun'
    BY <1>0, <2>2 DEF TypeOK, NotBegun, Submit, AskReplay
  <2>3. ASSUME NEW c \in Clips, Pause(c) \/ Resume(c) \/ Wedge(c) PROVE NotBegun'
    BY <1>0, <2>3 DEF TypeOK, NotBegun, Begun, Pause, Resume, Wedge
  <2>4. ASSUME NEW c \in Clips, Crash(c) PROVE NotBegun'
    BY <1>0, <2>4 DEF TypeOK, NotBegun, Crash
  <2> QED
    BY <1>2, <2>1, <2>2, <2>3, <2>4 DEF Environment
<1>3. CASE UNCHANGED vars
  BY <1>0, <1>3 DEF NotBegun, vars
<1> QED
  BY <1>1, <1>2, <1>3 DEF Next

\* acquire() alone asks for skip_if_busy, for what is LOW.
LEMMA SkipStep == PlaceInv /\ [Next]_vars => SkipIsLow'
<1> SUFFICES ASSUME PlaceInv, [Next]_vars PROVE SkipIsLow'
  OBVIOUS
<1> USE DEF worldVars, clipVars
<1>0. TypeOK /\ SkipIsLow
  BY DEF PlaceInv, OrderInv, IInv
<1>1. CASE UNCHANGED skip
  BY <1>0, <1>1 DEF SkipIsLow
<1>2. ASSUME NEW c \in Clips, Acquire(c) PROVE SkipIsLow'
  BY <1>0, <1>2 DEF TypeOK, SkipIsLow, Acquire
<1>3. ASSUME NEW c \in Clips, Retake(c) PROVE SkipIsLow'
  BY <1>0, <1>3 DEF TypeOK, SkipIsLow, Retake
<1>4. ASSUME NEW c \in Clips, Step(c) PROVE SkipIsLow'
  <2>1. CASE Submission(c)
    BY <1>1, <1>2, <2>1
    DEF Submission, Announce, Rendered, Silenced, Leave, KeepPlace, AcquireSuperseding, MarkSupersede
  <2>2. CASE Take(c)
    BY <1>1, <2>2
    DEF Take, Lock, SkipBusy, GiveUpBusy, GiveUpReplay, ReadContenders, ReadClaim, ReadSiblings
  <2>3. CASE Checkpoint(c)
    BY <1>1, <2>3
    DEF Checkpoint, Abandon, Leave, HoldLanded, Cleared, DropQueued, Start, HandOff, PushFailed
  <2>4. CASE Speak(c)
    BY <1>1, <1>3, <2>4
    DEF Speak, DropSpeaking, Leave, Continue, YieldToHigher, EndInstead, PlaySentence, SentenceEnds,
        Finish, Tick, StepAside
  <2> QED
    BY <1>4, <2>1, <2>2, <2>3, <2>4 DEF Step
<1>5. CASE Environment
  BY <1>1, <1>5
  DEF Environment, ToggleHold, Flush, Age, Submit, AskReplay, Pause, Resume, Wedge, Crash
<1>6. CASE UNCHANGED vars
  BY <1>1, <1>6 DEF vars
<1> QED
  BY <1>4, <1>5, <1>6 DEF Next

\* _mark_supersede alone writes a marker.
LEMMA MarkerWritten ==
  ASSUME NEW e \in Clips, Step(e)
  PROVE  marker' = marker \/ MarkSupersede(e)
<1> USE DEF worldVars
<1>1. CASE Submission(e)
  BY <1>1
  DEF Submission, Announce, Rendered, Silenced, Leave, KeepPlace, Acquire, AcquireSuperseding
<1>2. CASE Take(e)
  BY <1>2
  DEF Take, Lock, SkipBusy, GiveUpBusy, GiveUpReplay, ReadContenders, ReadClaim, ReadSiblings
<1>3. CASE Checkpoint(e)
  BY <1>3
  DEF Checkpoint, Abandon, Leave, HoldLanded, Cleared, DropQueued, Start, HandOff, PushFailed
<1>4. CASE Speak(e)
  BY <1>4
  DEF Speak, DropSpeaking, Leave, Continue, YieldToHigher, EndInstead, PlaySentence, SentenceEnds,
      Finish, Tick, StepAside, Retake
<1> QED
  BY <1>1, <1>2, <1>3, <1>4 DEF Step

\* A superseder writes the marker before it queues, with its own stamp or a
\* later one, and no other writes it.
LEMMA MarkedStep == OneSuperseder /\ SupersedeInv /\ [Next]_vars => Marked'
<1> SUFFICES ASSUME OneSuperseder, SupersedeInv, [Next]_vars, NEW d \in Clips,
                    Supersedes(d), HasMarked(d)'
             PROVE  marker'[SessionOf[d]] >= seq'[d]
  BY DEF Marked, Supersedes
<1> USE DEF Goto
<1>0. /\ TypeOK /\ NotBegun /\ Begun /\ Marked
      /\ SessionOf[d] \in Sessions /\ marker[SessionOf[d]] \in Nat /\ seq[d] \in Nat
      /\ prev[d] \in Nat /\ Kind[d] = "reply" /\ pos[d] \in Nat /\ pc[d] \in States
  BY SupersederIsUrgent, ClipDataAssumption DEF SupersedeInv, PlaceInv, OrderInv, IInv, TypeOK
<1>1. ASSUME HasMarked(d), marker' = marker, seq'[d] = seq[d]
      PROVE  marker'[SessionOf[d]] >= seq'[d]
  BY <1>0, <1>1 DEF Marked
<1>2. ASSUME NEW e \in Clips, Step(e) PROVE marker'[SessionOf[d]] >= seq'[d]
  <2>0. seq' = seq
    BY <1>0, <1>2, StepIsItsOwn
  <2>1. CASE e # d /\ marker' = marker
    BY <1>0, <1>1, <1>2, <2>0, <2>1, StepIsItsOwn DEF HasMarked
  <2>2. CASE e # d /\ MarkSupersede(e)
    <3>1. HasMarked(d)
      BY <1>0, <1>2, <2>2, StepIsItsOwn DEF HasMarked
    <3>2. Supersedes(e)
      BY <1>0, <2>2 DEF NotBegun, MarkSupersede
    <3>3. SessionOf[e] # SessionOf[d]
      BY <2>2, <3>2 DEF OneSuperseder, Same, Supersedes
    <3>4. marker'[SessionOf[d]] = marker[SessionOf[d]]
      BY <1>0, <2>2, <3>3 DEF MarkSupersede, TypeOK
    <3> QED
      BY <1>0, <2>0, <3>1, <3>4 DEF Marked
  <2>3. CASE MarkSupersede(d)
    <3>1. marker'[SessionOf[d]] = IF prev[d] > seq[d] THEN prev[d] ELSE seq[d]
      BY <1>0, <2>3 DEF MarkSupersede, TypeOK
    <3> QED
      BY <1>0, <2>0, <3>1
  <2>4. CASE e = d /\ marker' = marker /\ ~MarkSupersede(d)
    <3>1. SUFFICES ASSUME ~HasMarked(d) PROVE FALSE
      BY <1>1, <2>0, <2>4
    <3>2. pc[d] \in BeforeTake \cup {"done", "crashed"} /\ pos[d] = 0 /\ d \notin loose
      BY <1>0, <3>1 DEF HasMarked, Begun, BeforeTake, States, Queueing
    <3>3. ~Take(d)
      BY <3>2 DEF Take, Lock, SkipBusy, GiveUpBusy, GiveUpReplay, ReadContenders, ReadClaim,
                  ReadSiblings, BeforeTake
    <3>4. ~Speak(d)
      BY <3>2 DEF Speak, DropSpeaking, Continue, YieldToHigher, EndInstead, PlaySentence,
                  SentenceEnds, Finish, Tick, StepAside, Retake, BeforeTake
    <3>5. ~Checkpoint(d)
      BY <1>0, <3>2 DEF Checkpoint, Abandon, HoldLanded, Cleared, DropQueued, Start, HandOff,
                        PushFailed, ThinkingDone, BeforeTake
    <3>6. Submission(d)
      BY <1>2, <2>4, <3>3, <3>4, <3>5 DEF Step
    <3>7. /\ pc'[d] \in {"render", "gate", "done", "mark"} /\ pos' = pos
          /\ loose' \subseteq loose
      <4>1. ~MarkSupersede(d) /\ ~Acquire(d)
        BY <2>4 DEF Acquire
      <4> QED
        BY <1>0, <3>6, <4>1
        DEF TypeOK, Submission, Announce, Rendered, Silenced, Leave, KeepPlace, AcquireSuperseding,
            worldVars
    <3> QED
      BY <3>2, <3>7 DEF HasMarked, Queueing
  <2> QED
    BY <1>2, <2>1, <2>2, <2>3, <2>4, MarkerWritten
<1>3. CASE Environment
  <2>1. CASE ToggleHold \/ Flush \/ Age
    BY <1>1, <2>1 DEF HasMarked, ToggleHold, Flush, Age, clipVars
  <2>2. ASSUME NEW c \in Clips, Submit(c) PROVE marker'[SessionOf[d]] >= seq'[d]
    <3>1. c # d
      BY <1>0, <2>2 DEF TypeOK, NotBegun, BeforeTake, Submit, HasMarked, Queueing
    <3> QED
      BY <1>0, <1>1, <2>2, <3>1 DEF TypeOK, Submit, HasMarked
  <2>3. ASSUME NEW c \in Clips, AskReplay(c) PROVE marker'[SessionOf[d]] >= seq'[d]
    BY <1>0, <1>1, <2>3 DEF TypeOK, AskReplay, HasMarked
  <2>4. ASSUME NEW c \in Clips, Pause(c) \/ Resume(c) \/ Wedge(c)
        PROVE  marker'[SessionOf[d]] >= seq'[d]
    BY <1>1, <2>4 DEF HasMarked, Pause, Resume, Wedge, clipVars
  <2>5. ASSUME NEW c \in Clips, Crash(c) PROVE marker'[SessionOf[d]] >= seq'[d]
    BY <1>0, <1>1, <2>5 DEF TypeOK, HasMarked, Queueing, Crash
  <2> QED
    BY <1>3, <2>1, <2>2, <2>3, <2>4, <2>5 DEF Environment
<1>4. CASE UNCHANGED vars
  BY <1>1, <1>4 DEF HasMarked, vars
<1> QED
  BY <1>2, <1>3, <1>4 DEF Next

\* Who is about to begin with the token keeps it until it does, and nobody
\* gives up on it meanwhile.
LEMMA DropsFirstStep == SupersedeInv /\ [Next]_vars => DropsFirst'
<1> SUFFICES ASSUME SupersedeInv, [Next]_vars, NEW c \in Clips, NEW d \in Clips,
                    pc'[c] = "cleared", c \notin loose', Supersedes(d), Same(c, d),
                    seq'[d] > seq'[c]
             PROVE  pos'[d] = 0 /\ d \notin loose'
  BY DEF DropsFirst, Supersedes, Same
<1> USE DEF Goto
<1>0. /\ TypeOK /\ NotBegun /\ Begun /\ Marked /\ DropsFirst /\ HoldsOrLoose /\ Stamped
      /\ Kind[d] = "reply" /\ SessionOf[d] \in Sessions /\ ~skip[d] /\ SessionOf[c] = SessionOf[d]
      /\ seq \in [Clips -> Nat] /\ pos[d] \in Nat /\ marker[SessionOf[d]] \in Nat /\ clock \in Nat
      /\ seq[c] \in Nat /\ seq[d] \in Nat
  BY SupersederIsUrgent DEF SupersedeInv, PlaceInv, OrderInv, IInv, TypeOK, Same
<1>1. ASSUME pc[c] = "cleared", c \notin loose, seq[d] > seq[c],
             pos'[d] = pos[d], d \in loose' => d \in loose
      PROVE  pos'[d] = 0 /\ d \notin loose'
  BY <1>0, <1>1 DEF DropsFirst
<1>2. ASSUME NEW e \in Clips, Step(e) PROVE pos'[d] = 0 /\ d \notin loose'
  <2>0. seq' = seq /\ seq[d] > seq[c] /\ c # d
    BY <1>0, <1>2, StepIsItsOwn
  <2>1. CASE e \notin {c, d}
    BY <1>0, <1>1, <1>2, <2>0, <2>1, StepIsItsOwn
  <2>2. CASE e = c
    <3>1. Cleared(c)
      <4>1. ~Submission(c)
        BY <1>0 DEF TypeOK, Submission, Announce, Rendered, Silenced, Leave, KeepPlace, Acquire,
                    AcquireSuperseding, MarkSupersede
      <4>2. ~Take(c)
        BY <1>0 DEF TypeOK, Take, Lock, SkipBusy, GiveUpBusy, GiveUpReplay, ReadContenders,
                    ReadClaim, ReadSiblings, Defer, ReturnLoose, Return
      <4>3. ~Speak(c)
        BY <1>0 DEF TypeOK, Speak, DropSpeaking, Leave, Continue, YieldToHigher, EndInstead,
                    PlaySentence, SentenceEnds, Finish, Tick, StepAside, Retake
      <4>4. Checkpoint(c)
        BY <1>2, <2>2, <4>1, <4>2, <4>3 DEF Step
      <4> QED
        BY <1>0, <4>4 DEF TypeOK, Checkpoint, Abandon, Leave, HoldLanded, DropQueued, Start,
                          HandOff, PushFailed
    <3>2. ~HasMarked(d)
      BY <1>0, <2>0, <3>1 DEF Cleared, ShouldAbort, Same, Marked
    <3> QED
      BY <1>0, <2>0, <3>1, <3>2 DEF HasMarked, Cleared
  <2>3. CASE e = d
    <3>1. pc[c] = "cleared" /\ c \notin loose /\ token = c
      BY <1>0, <1>2, <2>0, <2>3, StepIsItsOwn DEF HoldsOrLoose
    <3>2. pos[d] = 0 /\ d \notin loose
      BY <1>0, <2>0, <3>1 DEF DropsFirst
    <3>3. pc[d] \notin {"scan", "claim", "sibs", "taken", "cleared", "head", "mind", "play", "gap", "aside"}
      BY <1>0, <2>0, <3>1, <3>2 DEF HoldsOrLoose, Begun
    <3>4. ~Stalled(token) /\ token # NoClip
      BY <1>0, <3>1, ClipsAssumption DEF NotBegun, Stalled
    <3>5. ~SkipBusy(d) /\ ~GiveUpBusy(d) /\ ~GiveUpReplay(d)
      BY <1>0, <3>4 DEF SkipBusy, GiveUpBusy, GiveUpReplay
    <3>6. pos' = pos /\ loose' \subseteq loose
      <4>1. CASE Submission(d)
        BY <4>1
        DEF Submission, Announce, Rendered, Silenced, Leave, KeepPlace, Acquire,
            AcquireSuperseding, MarkSupersede
      <4>2. CASE Take(d)
        BY <3>3, <3>5, <4>2 DEF Take, Lock, ReadContenders, ReadClaim, ReadSiblings
      <4>3. CASE Checkpoint(d)
        BY <3>3, <4>3
        DEF Checkpoint, Abandon, Leave, HoldLanded, Cleared, DropQueued, Start, HandOff, PushFailed
      <4>4. CASE Speak(d)
        BY <3>3, <4>4
        DEF Speak, DropSpeaking, Leave, Continue, YieldToHigher, EndInstead, PlaySentence,
            SentenceEnds, Finish, Tick, StepAside, Retake
      <4> QED
        BY <1>2, <2>3, <4>1, <4>2, <4>3, <4>4 DEF Step
    <3> QED
      BY <3>2, <3>6
  <2> QED
    BY <2>1, <2>2, <2>3
<1>3. CASE Environment
  <2>1. CASE ToggleHold \/ Flush \/ Age
    BY <1>1, <2>1 DEF ToggleHold, Flush, Age, clipVars
  <2>2. ASSUME NEW e \in Clips, Submit(e) \/ AskReplay(e) PROVE pos'[d] = 0 /\ d \notin loose'
    <3>1. CASE e = d
      <4>1. Submit(d) /\ pc[d] = "idle"
        BY <1>0, <2>2, <3>1 DEF Submit, AskReplay
      <4> QED
        BY <1>0, <4>1 DEF Submit, NotBegun, BeforeTake
    <3>2. CASE e # d
      <4>1. c # e
        BY <1>0, <2>2 DEF Submit, AskReplay, TypeOK
      <4> QED
        BY <1>0, <1>1, <2>2, <3>2, <4>1 DEF Submit, AskReplay, TypeOK
    <3> QED
      BY <3>1, <3>2
  <2>3. ASSUME NEW e \in Clips, Pause(e) \/ Resume(e) \/ Wedge(e)
        PROVE  pos'[d] = 0 /\ d \notin loose'
    BY <1>1, <2>3 DEF Pause, Resume, Wedge, clipVars
  <2>4. ASSUME NEW e \in Clips, Crash(e) PROVE pos'[d] = 0 /\ d \notin loose'
    <3>1. e # c /\ pc[c] = "cleared" /\ loose' = loose \ {e} /\ pos' = pos /\ seq' = seq
      BY <1>0, <2>4 DEF Crash, TypeOK
    <3> QED
      BY <1>1, <3>1
  <2> QED
    BY <1>3, <2>1, <2>2, <2>3, <2>4 DEF Environment
<1>4. CASE UNCHANGED vars
  BY <1>1, <1>4 DEF vars
<1> QED
  BY <1>2, <1>3, <1>4 DEF Next

\* A reply that a supersede precedes never begins after it, unless one of the
\* two went on without the token: it is dropped by the marker, which the
\* superseder leaves before it queues, whoever dies, pauses or gives up. For
\* conversations with one superseder: two of them race on the marker.
THEOREM SupersededIsDropped == ASSUME OneSuperseder PROVE Spec => DroppedNeverStarts
<1> DEFINE Dropped == \A c, d \in Clips :
             pos[c] = 0 /\ pos'[c] = 1 /\ Supersedes(d) /\ Same(c, d)
               /\ seq[d] > seq[c] /\ c \notin loose =>
             pos[d] = 0 \/ d \in loose
<1>1. SupersedeInv /\ [Next]_vars => SupersedeInv'
  BY NextOrder, NotBegunStep, SkipStep, MarkedStep, DropsFirstStep DEF SupersedeInv, PlaceInv
<1>2. Spec => []SupersedeInv
  BY <1>1, InitSupersede, PTL DEF Spec
<1>3. SupersedeInv /\ [Next]_vars => Dropped
  <2> SUFFICES ASSUME SupersedeInv, [Next]_vars, NEW c \in Clips, NEW d \in Clips,
                      pos[c] = 0, pos'[c] = 1, Supersedes(d), Same(c, d), seq[d] > seq[c],
                      c \notin loose
               PROVE  pos[d] = 0 \/ d \in loose
    OBVIOUS
  <2>0. TypeOK /\ Begun /\ DropsFirst /\ Kind[c] # "replay"
    BY ClipDataAssumption DEF SupersedeInv, PlaceInv, OrderInv, IInv, Same
  <2>1. Step(c)
    <3>1. ~Environment /\ ~UNCHANGED vars
      BY DEF Environment, ToggleHold, Flush, Age, Submit, AskReplay, Pause, Resume, Wedge, Crash,
             clipVars, vars
    <3>2. \A e \in Clips \ {c} : ~Step(e)
      BY <2>0, StepIsItsOwn
    <3> QED
      BY <3>1, <3>2 DEF Next
  <2>2. ~Submission(c) /\ ~Take(c)
    BY DEF Submission, Announce, Rendered, Silenced, Leave, KeepPlace, Acquire, AcquireSuperseding,
           MarkSupersede, Take, Lock, SkipBusy, GiveUpBusy, GiveUpReplay, ReadContenders,
           ReadClaim, ReadSiblings
  <2>3. pc[c] # "play"
    BY <2>0 DEF Begun
  <2>4. ~Speak(c)
    BY <2>3 DEF Speak, DropSpeaking, Leave, Continue, YieldToHigher, EndInstead, PlaySentence,
                SentenceEnds, Finish, Tick, StepAside, Retake
  <2>5. Start(c)
    BY <2>0, <2>1, <2>2, <2>4
    DEF Step, Checkpoint, Abandon, Leave, HoldLanded, Cleared, DropQueued, HandOff, PushFailed
  <2> QED
    BY <2>0, <2>5 DEF Start, DropsFirst
<1>4. SupersedeInv /\ [Next]_vars => [Dropped]_vars
  BY <1>3
<1>5. Spec => [][Dropped]_vars
  <2> HIDE DEF Dropped
  <2> QED
    BY <1>2, <1>4, PTL DEF Spec
<1> QED
  BY <1>5 DEF DroppedNeverStarts

-----------------------------------------------------------------------------
(* The promise: with nobody who stalls, holds or ages, and no speech that  *)
(* skips the queue, the files and the polling are VoiceQueue.              *)

\* Nobody pauses or wedges, holds speech or outlives a TTL, and all clips are
\* replies that queue. Clips may crash, supersede and be flushed.
Calm ==
  /\ MayPause = {} /\ MayWedge = {} /\ ~MayHold /\ MayAge = "never"
  /\ \A c \in Clips : Kind[c] = "reply" /\ BaseRank[c] > LOW

NothingStalls == paused = {} /\ wedged = {} /\ ~hold /\ floor = 0

\* A clip has a stamp once it is submitted and an entry until it is let
\* through; an URGENT one stays so.
PlaceKept ==
  \A c \in Clips :
    /\ pc[c] = "idle" <=> seq[c] = 0
    /\ pc[c] \in {"render", "gate", "mark"} => reg[c] = "pending"
    /\ BaseRank[c] = URGENT => rank[c] = URGENT

CalmInv == PlaceInv /\ NothingStalls /\ PlaceKept

LEMMA InitCalm == Calm /\ Init => CalmInv
<1> SUFFICES ASSUME Calm, Init PROVE CalmInv
  OBVIOUS
<1>1. PlaceInv
  BY InitSupersede DEF SupersedeInv
<1>2. NothingStalls
  BY DEF Init, NothingStalls
<1>3. PlaceKept
  BY DEF Init, PlaceKept
<1> QED
  BY <1>1, <1>2, <1>3 DEF CalmInv

\* What cannot happen when nothing stalls.
LEMMA CalmSteps ==
  ASSUME Calm, CalmInv, NEW c \in Clips
  PROVE  /\ ~KeepPlace(c) /\ ~SkipBusy(c) /\ ~GiveUpBusy(c) /\ ~GiveUpReplay(c)
         /\ ~HoldLanded(c) /\ ~HandOff(c) /\ ~PushFailed(c) /\ ~StepAside(c)
         /\ ~AskReplay(c) /\ ~Pause(c) /\ ~Resume(c) /\ ~Wedge(c) /\ ~ToggleHold /\ ~Age
         /\ Defer(c) => /\ token' = NoClip /\ reg' = Reaped(reg)
                        /\ Goto(c, "try") /\ UNCHANGED loose
<1>1. NothingStalls /\ ~skip[c] /\ Kind[c] = "reply"
  BY ClipDataAssumption
  DEF Calm, CalmInv, PlaceInv, SkipIsLow, OrderInv, IInv, TypeOK, LOW, NORMAL, REPLAY, HIGH, UNREAD, URGENT
<1>2. /\ ~KeepPlace(c) /\ ~SkipBusy(c) /\ ~GiveUpBusy(c) /\ ~GiveUpReplay(c)
      /\ ~HoldLanded(c) /\ ~HandOff(c) /\ ~PushFailed(c) /\ ~StepAside(c)
  BY <1>1
  DEF NothingStalls, KeepPlace, SkipBusy, GiveUpBusy, GiveUpReplay, Stalled, HoldLanded, HandOff,
      PushFailed, StepAside
<1>3. ~AskReplay(c) /\ ~Pause(c) /\ ~Resume(c) /\ ~Wedge(c) /\ ~ToggleHold /\ ~Age
  BY <1>1 DEF Calm, NothingStalls, AskReplay, Pause, Resume, Wedge, ToggleHold, Age
<1>4. Defer(c) => /\ token' = NoClip /\ reg' = Reaped(reg)
                  /\ Goto(c, "try") /\ UNCHANGED loose
  BY <1>1 DEF Defer, NothingStalls
<1> QED
  BY <1>2, <1>3, <1>4

\* A step takes no entry of another live clip away, and the token from none.
LEMMA OthersKeep ==
  ASSUME IInv, NEW c \in Clips, Step(c)
  PROVE  \A x \in Clips \ {c} : /\ reg'[x] = reg[x] \/ pc[x] = "crashed"
                                /\ token' = x <=> token = x
<1> USE DEF TypeOK, Goto, Register, Unregister, Drop, worldVars
<1>0. TypeOK /\ HoldsOrLoose /\ NoClip \notin Clips
  BY ClipsAssumption DEF IInv
<1>1. CASE Submission(c)
  BY <1>0, <1>1
  DEF Submission, Announce, Rendered, Silenced, Leave, KeepPlace, Acquire,
      AcquireSuperseding, MarkSupersede
<1>2. CASE Take(c)
  <2>1. CASE Lock(c) \/ ReadContenders(c)
    BY <1>0, <2>1 DEF Lock, ReadContenders, Reaped
  <2>2. CASE SkipBusy(c) \/ GiveUpBusy(c) \/ GiveUpReplay(c)
    BY <1>0, <2>2 DEF SkipBusy, GiveUpBusy, GiveUpReplay, ReturnLoose, Return
  <2>3. CASE ReadClaim(c) \/ ReadSiblings(c)
    <3>1. /\ token = c
          /\ token' \in {token, NoClip}
          /\ reg' = Reaped(reg) \/ reg' = [Reaped(reg) EXCEPT ![c] = "none"]
      BY <1>0, <2>3 DEF HoldsOrLoose, ReadClaim, ReadSiblings, Defer, ReturnLoose, Return
    <3> QED
      BY <1>0, <3>1 DEF Reaped
  <2> QED
    BY <1>2, <2>1, <2>2, <2>3 DEF Take
<1>3. CASE Checkpoint(c)
  BY <1>0, <1>3
  DEF Checkpoint, Abandon, Leave, HoldLanded, Cleared, DropQueued, Start, HandOff, PushFailed
<1>4. CASE Speak(c)
  <2>1. CASE \/ DropSpeaking(c) \/ Continue(c) \/ EndInstead(c)
             \/ SentenceEnds(c) \/ Finish(c) \/ Tick(c) \/ Retake(c)
    BY <1>0, <2>1 DEF DropSpeaking, Leave, Continue, EndInstead, SentenceEnds, Finish, Tick, Retake
  <2>2. CASE YieldToHigher(c) \/ PlaySentence(c) \/ StepAside(c)
    BY <1>0, <2>2
    DEF Reaped, YieldToHigher, PlaySentence, StepAside, ShouldYield, OtherSessionWaiting
  <2> QED
    BY <1>4, <2>1, <2>2 DEF Speak
<1> QED
  BY <1>1, <1>2, <1>3, <1>4 DEF Step

LEMMA CalmStep == Calm /\ CalmInv /\ [Next]_vars => CalmInv'
<1> SUFFICES ASSUME Calm, CalmInv, [Next]_vars PROVE CalmInv'
  OBVIOUS
<1> USE DEF Goto, Register, Unregister, worldVars, clipVars
<1>0. /\ TypeOK /\ PlaceInv /\ NothingStalls /\ PlaceKept /\ IInv /\ NoGhostWaiter
      /\ UrgentFromTheStart
  BY DEF CalmInv, PlaceInv, OrderInv, IInv
<1>1. PlaceInv'
  BY <1>0, NextOrder, NotBegunStep, SkipStep DEF PlaceInv
<1>2. ASSUME NEW c \in Clips, Step(c) PROVE NothingStalls' /\ PlaceKept'
  <2>1. UNCHANGED <<seq, wedged>> /\ pc[c] # "idle" /\ pc'[c] # "idle"
    BY <1>0, <1>2, StepIsItsOwn, StepMoves DEF TypeOK, States
  <2>2. \A x \in Clips \ {c} : /\ pc'[x] = pc[x] /\ rank'[x] = rank[x]
                               /\ reg'[x] = reg[x] \/ pc[x] = "crashed"
    BY <1>0, <1>2, StepIsItsOwn, OthersKeep
  <2>3. /\ paused' \subseteq paused /\ hold' = hold /\ floor' = floor
        /\ pc'[c] \in {"render", "gate", "mark"} => reg'[c] = "pending"
        /\ rank'[c] \in {rank[c], BaseRank[c], Bumped(rank[c])}
    <3>1. CASE Submission(c)
      BY <1>0, <3>1, CalmSteps
      DEF TypeOK, CalmInv, PlaceKept, Submission, Announce, Rendered, Silenced, Leave, Acquire,
          AcquireSuperseding, MarkSupersede
    <3>2. CASE Take(c)
      <4>1. CASE Lock(c) \/ ReadContenders(c)
        BY <1>0, <4>1 DEF TypeOK, Lock, ReadContenders
      <4>2. CASE ReadClaim(c) \/ ReadSiblings(c)
        BY <1>0, <4>2 DEF TypeOK, ReadClaim, ReadSiblings, Defer, ReturnLoose, Return
      <4> QED
        BY <1>0, <3>2, <4>1, <4>2, CalmSteps DEF Take
    <3>3. CASE Checkpoint(c)
      BY <1>0, <3>3, CalmSteps
      DEF TypeOK, Checkpoint, Abandon, Leave, Cleared, DropQueued, Start
    <3>4. CASE Speak(c)
      BY <1>0, <3>4, CalmSteps
      DEF TypeOK, Speak, DropSpeaking, Leave, Continue, YieldToHigher, EndInstead, PlaySentence,
          SentenceEnds, Finish, Tick, Retake
    <3> QED
      BY <1>2, <3>1, <3>2, <3>3, <3>4 DEF Step
  <2>4. BaseRank[c] = URGENT => rank'[c] = URGENT
    BY <1>0, <2>3 DEF PlaceKept, Bumped, URGENT, HIGH
  <2>5. NothingStalls'
    BY <1>0, <2>1, <2>3 DEF NothingStalls
  <2>6. PlaceKept'
    BY <1>0, <2>1, <2>2, <2>3, <2>4 DEF PlaceKept
  <2> QED
    BY <2>5, <2>6
<1>3. ASSUME NEW c \in Clips, Submit(c) PROVE NothingStalls' /\ PlaceKept'
  <2>1. PlaceKept'
    BY <1>0, <1>3 DEF TypeOK, PlaceKept, Submit
  <2> QED
    BY <1>0, <1>3, <2>1 DEF NothingStalls, Submit
<1>4. ASSUME NEW c \in Clips, Crash(c) PROVE NothingStalls' /\ PlaceKept'
  <2>1. PlaceKept'
    BY <1>0, <1>4 DEF TypeOK, PlaceKept, Crash
  <2> QED
    BY <1>0, <1>4, <2>1 DEF NothingStalls, Crash
<1>5. ASSUME Flush PROVE NothingStalls' /\ PlaceKept'
  BY <1>0, <1>5 DEF Flush, NothingStalls, PlaceKept
<1>6. ASSUME UNCHANGED vars PROVE NothingStalls' /\ PlaceKept'
  BY <1>0, <1>6 DEF vars, NothingStalls, PlaceKept
<1>7. ASSUME Environment PROVE NothingStalls' /\ PlaceKept'
  <2>1. ~ToggleHold /\ ~Age
    BY DEF Calm, ToggleHold, Age
  <2> QED
    BY <1>3, <1>4, <1>5, <1>7, <2>1, CalmSteps DEF Environment
<1> QED
  BY <1>1, <1>2, <1>6, <1>7 DEF Next, CalmInv

\* What a clip's stage is, from where its process is and from its entry.
LEMMA StageOfEntry ==
  ASSUME NEW r \in {"none", "pending", "waiting"}
  PROVE  [none |-> "away", pending |-> "rendering", waiting |-> "asking"][r] =
           IF r = "none" THEN "away" ELSE IF r = "pending" THEN "rendering" ELSE "asking"
<1>1. CASE r = "none"
  BY <1>1
<1>2. CASE r = "pending"
  BY <1>2
<1>3. CASE r = "waiting"
  BY <1>3
<1> QED
  BY <1>1, <1>2, <1>3

Over == {"done", "crashed"}
LetThroughTo == {"taken", "cleared", "head", "mind", "play"}

LEMMA StageIs ==
  ASSUME TypeOK, NEW c \in Clips
  PROVE  /\ pc[c] \in Over => Stage(c) = "over"
         /\ pc[c] \notin Over /\ token = c /\ pc[c] \in LetThroughTo => Stage(c) = "voice"
         /\ pc[c] \notin Over /\ (token # c \/ pc[c] \notin LetThroughTo) =>
              /\ reg[c] = "none" => Stage(c) = "away"
              /\ reg[c] = "pending" => Stage(c) = "rendering"
              /\ reg[c] = "waiting" => Stage(c) = "asking"
<1>1. reg[c] \in {"none", "pending", "waiting"}
  BY DEF TypeOK
<1> QED
  BY <1>1, StageOfEntry DEF Stage, Over, LetThroughTo

\* The same after a step.
LEMMA StageWillBe ==
  ASSUME TypeOK', NEW c \in Clips
  PROVE  /\ pc'[c] \in Over => Stage(c)' = "over"
         /\ pc'[c] \notin Over /\ token' = c /\ pc'[c] \in LetThroughTo => Stage(c)' = "voice"
         /\ pc'[c] \notin Over /\ (token' # c \/ pc'[c] \notin LetThroughTo) =>
              /\ reg'[c] = "none" => Stage(c)' = "away"
              /\ reg'[c] = "pending" => Stage(c)' = "rendering"
              /\ reg'[c] = "waiting" => Stage(c)' = "asking"
<1>1. reg'[c] \in {"none", "pending", "waiting"}
  BY DEF TypeOK
<1> QED
  BY <1>1, StageOfEntry DEF Stage, Over, LetThroughTo

\* A step of one clip's process leaves the other clips at their stages.
LEMMA OthersStay ==
  ASSUME IInv, NEW c \in Clips, Step(c) \/ Crash(c), NEW x \in Clips \ {c}
  PROVE  Stage(x)' = Stage(x)
<1>1. TypeOK /\ NoClip \notin Clips
  BY ClipsAssumption DEF IInv
<1>2. /\ pc'[x] = pc[x] /\ (token' = x <=> token = x)
      /\ reg'[x] = reg[x] \/ pc[x] = "crashed"
  <2>1. CASE Step(c)
    BY <1>1, <2>1, StepIsItsOwn, OthersKeep
  <2>2. CASE Crash(c)
    BY <1>1, <2>2 DEF TypeOK, Crash, Goto, Drop
  <2> QED
    BY <2>1, <2>2
<1>3. CASE pc[x] = "crashed"
  BY <1>2, <1>3 DEF Stage
<1>4. CASE reg'[x] = reg[x]
  BY <1>2, <1>4 DEF Stage
<1> QED
  BY <1>2, <1>3, <1>4

\* What a step does to its clip's stage.
StageMoves(c) ==
  \/ Stage(c)' = Stage(c)
  \/ Stage(c) = "away" /\ Stage(c)' \in {"rendering", "asking"}
  \/ Stage(c) = "rendering" /\ Stage(c)' = "asking"
  \/ /\ Stage(c) = "asking" /\ Stage(c)' = "voice" /\ token = c
     /\ pc[c] \in {"claim", "sibs"}
     /\ BaseRank[c] = URGENT \/ ~SiblingFirst(c)
  \/ Stage(c) = "voice" /\ Stage(c)' = "away" /\ ShouldYield(c)
  \/ Stage(c) # "over" /\ Stage(c)' = "over"

LEMMA StepOfStage ==
  ASSUME Calm, CalmInv, NEW c \in Clips, Step(c)
  PROVE  StageMoves(c)
<1> USE DEF Goto, Register, Unregister, worldVars, Over, LetThroughTo
<1>0. /\ TypeOK /\ NoGhostWaiter /\ HoldsOrLoose /\ EntryKept /\ PlaceKept /\ UrgentFromTheStart
      /\ TypeOK' /\ Kind[c] = "reply" /\ NoClip \notin Clips
      /\ reg[c] \in {"none", "pending", "waiting"}
  <2>1. CalmInv'
    BY CalmStep DEF Next
  <2>2. TypeOK'
    BY <2>1 DEF CalmInv, PlaceInv, OrderInv, IInv
  <2>3. /\ TypeOK /\ NoGhostWaiter /\ HoldsOrLoose /\ EntryKept /\ PlaceKept
        /\ UrgentFromTheStart
    BY DEF CalmInv, PlaceInv, OrderInv, IInv
  <2>4. reg[c] \in {"none", "pending", "waiting"}
    BY <2>3 DEF TypeOK
  <2> QED
    BY <2>2, <2>3, <2>4, ClipsAssumption DEF Calm
<1>1. \A d \in Clips : pc[d] \in LetThroughTo \cup {"stamped", "gap", "aside"} => reg[d] = "none"
  BY <1>0 DEF NoGhostWaiter, Queueing, TypeOK
<1>2. ASSUME Leave(c), pc[c] \notin Over PROVE StageMoves(c)
  <2>1. pc'[c] = "done"
    BY <1>0, <1>2 DEF Leave, TypeOK
  <2>2. Stage(c)' = "over" /\ Stage(c) # "over"
    BY <1>0, <1>2, <2>1, StageIs, StageWillBe
  <2> QED
    BY <2>2 DEF StageMoves
<1>3. CASE Submission(c)
  <2>1. CASE Announce(c)
    <3>1. pc[c] = "stamped" /\ reg[c] = "none" /\ pc'[c] = "render" /\ reg'[c] = "pending"
      BY <1>0, <1>1, <2>1 DEF Announce, TypeOK
    <3> QED
      BY <1>0, <3>1, StageIs, StageWillBe DEF StageMoves
  <2>2. CASE Rendered(c)
    <3>1. pc[c] = "render" /\ reg[c] = "pending" /\ pc'[c] = "gate" /\ reg'[c] = "pending"
      BY <1>0, <2>2 DEF Rendered, PlaceKept, TypeOK
    <3> QED
      BY <1>0, <3>1, StageIs, StageWillBe DEF StageMoves
  <2>3. CASE Silenced(c)
    BY <1>2, <2>3 DEF Silenced
  <2>4. CASE Acquire(c) \/ MarkSupersede(c)
    <3>1. pc[c] \in {"gate", "mark"} /\ reg[c] = "pending" /\ pc'[c] = "try" /\ reg'[c] = "waiting"
      BY <1>0, <2>4 DEF Acquire, MarkSupersede, PlaceKept, TypeOK
    <3> QED
      BY <1>0, <3>1, StageIs, StageWillBe DEF StageMoves
  <2>5. CASE AcquireSuperseding(c)
    <3>1. pc[c] = "gate" /\ reg[c] = "pending" /\ pc'[c] = "mark" /\ reg'[c] = "pending"
      BY <1>0, <2>5 DEF AcquireSuperseding, PlaceKept, TypeOK
    <3> QED
      BY <1>0, <3>1, StageIs, StageWillBe DEF StageMoves
  <2> QED
    BY <1>3, <2>1, <2>2, <2>3, <2>4, <2>5, CalmSteps DEF Submission
<1>4. CASE Take(c)
  <2>0. pc[c] \in Queueing /\ reg[c] = "waiting" /\ Stage(c) = "asking"
    <3>1. pc[c] \in Queueing
      BY <1>4 DEF Take, Lock, SkipBusy, GiveUpBusy, GiveUpReplay, ReadContenders, ReadClaim,
                  ReadSiblings, Queueing
    <3>2. reg[c] = "waiting"
      BY <1>0, <3>1 DEF EntryKept
    <3> QED
      BY <1>0, <3>1, <3>2, StageIs DEF Queueing
  <2>1. ASSUME pc'[c] \in Queueing, reg'[c] = "waiting" PROVE StageMoves(c)
    BY <1>0, <2>0, <2>1, StageWillBe DEF StageMoves, Queueing
  <2>2. Reaped(reg)[c] = reg[c]
    BY <2>0 DEF Reaped, Queueing
  <2>3. ASSUME Defer(c) PROVE StageMoves(c)
    <3>1. pc'[c] = "try" /\ reg'[c] = "waiting"
      BY <1>0, <2>0, <2>2, <2>3, CalmSteps DEF TypeOK
    <3> QED
      BY <2>1, <3>1 DEF Queueing
  <2>4. ASSUME Return(c, Reaped(reg)), UNCHANGED token, pc[c] \in {"claim", "sibs"},
               BaseRank[c] = URGENT \/ ~SiblingFirst(c)
        PROVE  StageMoves(c)
    <3>1. token = c /\ token' = c
      BY <1>0, <2>4 DEF HoldsOrLoose
    <3>2. pc'[c] \in {"taken", "play"}
      BY <1>0, <2>4 DEF Return, TypeOK
    <3> QED
      BY <1>0, <2>0, <2>4, <3>1, <3>2, StageWillBe DEF StageMoves
  <2>5. CASE Lock(c)
    BY <1>0, <2>0, <2>1, <2>5 DEF Lock, TypeOK, Queueing
  <2>6. CASE ReadContenders(c)
    BY <1>0, <2>0, <2>1, <2>2, <2>6 DEF ReadContenders, TypeOK, Queueing
  <2>7. CASE ReadClaim(c)
    <3>1. IsUrgent(c) => BaseRank[c] = URGENT
      <4>1. rank[c] \in Ranks
        BY <1>0 DEF TypeOK
      <4>2. rank[c] >= HIGH => BaseRank[c] = rank[c]
        BY <1>0 DEF UrgentFromTheStart
      <4> QED
        BY <4>1, <4>2 DEF IsUrgent, Ranks, URGENT, HIGH
    <3>2. CASE Goto(c, "sibs") /\ reg' = Reaped(reg)
      BY <1>0, <2>0, <2>1, <2>2, <3>2 DEF TypeOK, Queueing
    <3> QED
      BY <1>0, <2>3, <2>4, <2>7, <3>1, <3>2 DEF ReadClaim
  <2>8. CASE ReadSiblings(c)
    BY <2>3, <2>4, <2>8 DEF ReadSiblings
  <2> QED
    BY <1>4, <2>5, <2>6, <2>7, <2>8, CalmSteps DEF Take
<1>5. ASSUME pc[c] \in LetThroughTo, pc'[c] \in LetThroughTo, token' = token, reg'[c] = reg[c]
      PROVE  StageMoves(c)
  BY <1>0, <1>1, <1>5, StageIs, StageWillBe DEF StageMoves
<1>6. CASE Checkpoint(c)
  <2>1. CASE Abandon(c) \/ DropQueued(c)
    BY <1>2, <2>1 DEF Abandon, DropQueued
  <2>2. CASE Cleared(c) \/ Start(c)
    BY <1>0, <1>5, <2>2 DEF Cleared, Start, TypeOK
  <2> QED
    BY <1>6, <2>1, <2>2, CalmSteps DEF Checkpoint
<1>7. CASE Speak(c)
  <2>1. CASE DropSpeaking(c) \/ EndInstead(c) \/ Finish(c)
    BY <1>2, <2>1 DEF DropSpeaking, EndInstead, Finish
  <2>2. CASE Continue(c) \/ SentenceEnds(c) \/ Tick(c)
    BY <1>0, <1>5, <2>2 DEF Continue, SentenceEnds, Tick, TypeOK
  <2>3. CASE PlaySentence(c)
    BY <1>0, <1>5, <2>3 DEF PlaySentence, Reaped, TypeOK
  <2>4. CASE YieldToHigher(c)
    <3>1. /\ pc[c] = "mind" /\ token = c /\ reg[c] = "none" /\ ShouldYield(c)
          /\ pc'[c] = "gap" /\ reg'[c] = "none" /\ token' # c
      BY <1>0, <1>1, <2>4 DEF YieldToHigher, ShouldYield, Reaped, TypeOK
    <3> QED
      BY <1>0, <3>1, StageIs, StageWillBe DEF StageMoves
  <2>5. CASE Retake(c)
    <3>1. pc[c] \in {"gap", "aside"} /\ reg[c] = "none" /\ pc'[c] = "try" /\ reg'[c] = "waiting"
      BY <1>0, <1>1, <2>5 DEF Retake, TypeOK
    <3> QED
      BY <1>0, <3>1, StageIs, StageWillBe DEF StageMoves
  <2> QED
    BY <1>7, <2>1, <2>2, <2>3, <2>4, <2>5, CalmSteps DEF Speak
<1> QED
  BY <1>3, <1>4, <1>6, <1>7 DEF Step

\* Whoever waits, as the registry shows it, asks in the queue.
LEMMA AskersWait ==
  ASSUME CalmInv, NEW c \in Clips, NEW d \in Clips \ {c}
  PROVE  /\ d \in Waiters(c) /\ reg[d] = "waiting" => Stage(d) = "asking"
         /\ Stage(d) \in {"rendering", "asking"} => d \in Waiters(c)
         /\ Stage(d) = "asking" => reg[d] = "waiting"
         /\ Stage(d) = "voice" <=> token = d /\ pc[d] \in LetThroughTo
<1>0. TypeOK /\ NoGhostWaiter /\ floor = 0
  BY DEF CalmInv, PlaceInv, OrderInv, IInv, NothingStalls
<1>1. reg[d] \in {"none", "pending", "waiting"} /\ ~Aged(d)
  BY <1>0 DEF TypeOK, Aged
<1>2. reg[d] = "waiting" => pc[d] \in Queueing \cup {"crashed"}
  BY <1>0 DEF NoGhostWaiter
<1>3. d \in Waiters(c) <=> reg[d] # "none" /\ pc[d] # "crashed"
  BY <1>1 DEF Waiters
<1> QED
  BY <1>0, <1>1, <1>2, <1>3, StageIs DEF Over, LetThroughTo, Queueing

\* Every step of a clip's process is a step of the queue it promises, or none.
LEMMA VoiceStep ==
  ASSUME Calm, CalmInv, NEW c \in Clips, Step(c) \/ Crash(c)
  PROVE  [Voice!Next]_(Voice!vars)
<1> DEFINE S == [x \in Clips |-> Stage(x)]
<1>0. /\ TypeOK /\ PlaceKept /\ UrgentFromTheStart /\ NoGhostWaiter
      /\ IInv
  BY DEF CalmInv, PlaceInv, OrderInv, IInv
<1>1. seq' = seq /\ pc[c] # "idle"
  <2>1. CASE Step(c)
    BY <1>0, <2>1, StepIsItsOwn, StepMoves
  <2>2. CASE Crash(c)
    BY <2>2 DEF Crash
  <2> QED
    BY <2>1, <2>2
<1>2. S' = [S EXCEPT ![c] = Stage(c)']
  BY <1>0, OthersStay
<1>3. StageMoves(c)
  <2>1. CASE Step(c)
    BY <2>1, StepOfStage
  <2>2. CASE Crash(c)
    <3>1. pc'[c] = "crashed" /\ pc[c] \notin Over
      BY <1>0, <2>2 DEF Crash, Goto, TypeOK, Over
    <3>2. Stage(c)' = "over"
      BY <3>1 DEF Stage
    <3>3. Stage(c) # "over"
      BY <1>0, <3>1, StageIs, StageOfEntry DEF TypeOK
    <3> QED
      BY <3>2, <3>3 DEF StageMoves
  <2> QED
    BY <2>1, <2>2
<1>4. S[c] = Stage(c) /\ \A x \in Clips : S[x] = Stage(x)
  OBVIOUS
<1>5. Voice!vars = <<S, seq>> /\ Voice!vars' = <<S', seq'>>
  BY DEF Voice!vars
<1>6. \A to : Stage(c)' = to => S' = [S EXCEPT ![c] = to]
  BY <1>2
<1> USE DEF Voice!Move
<1>7. CASE Stage(c)' = Stage(c)
  <2>1. S' = S
    BY <1>2, <1>7
  <2> QED
    BY <1>1, <1>5, <2>1
<1>8. CASE Stage(c) = "away" /\ Stage(c)' \in {"rendering", "asking"}
  <2>1. seq[c] # 0
    BY <1>0, <1>1 DEF PlaceKept
  <2>2. Voice!Announce(c)
    BY <1>1, <1>4, <1>6, <1>8, <2>1 DEF Voice!Announce
  <2> QED
    BY <2>2 DEF Voice!Next
<1>9. CASE Stage(c) = "rendering" /\ Stage(c)' = "asking"
  <2>1. Voice!Ask(c)
    BY <1>1, <1>4, <1>6, <1>9 DEF Voice!Ask
  <2> QED
    BY <2>1 DEF Voice!Next
<1>10. CASE /\ Stage(c) = "asking" /\ Stage(c)' = "voice" /\ token = c
            /\ pc[c] \in {"claim", "sibs"}
            /\ BaseRank[c] = URGENT \/ ~SiblingFirst(c)
  <2>1. \A d \in Clips : S[d] # "voice"
    BY <1>4, <1>10, AskersWait
  <2>2. ASSUME ~SiblingFirst(c), NEW d \in Clips \ {c}, Same(c, d)
        PROVE  /\ Stage(d) = "asking" => BaseRank[d] # URGENT
               /\ Stage(d) \in {"rendering", "asking"} => seq[d] >= seq[c]
    <3>1. BaseRank[d] = URGENT => IsUrgent(d)
      BY <1>0 DEF PlaceKept, IsUrgent, URGENT
    <3>2. seq[d] \in Nat /\ seq[c] \in Nat
      BY <1>0 DEF TypeOK
    <3>3. Stage(d) = "asking" => BaseRank[d] # URGENT
      BY <2>2, <3>1, AskersWait DEF SiblingFirst, UrgentSiblingWaiting
    <3>4. Stage(d) \in {"rendering", "asking"} => seq[d] >= seq[c]
      BY <2>2, <3>2, AskersWait DEF SiblingFirst, EarlierSiblingWaiting
    <3> QED
      BY <3>3, <3>4
  <2>3. BaseRank[c] = URGENT \/ Voice!FirstOfItsSession(c)
    BY <1>4, <1>10, <2>2 DEF Voice!FirstOfItsSession, Voice!Same, Same
  <2>4. Voice!TakeVoice(c)
    BY <1>1, <1>4, <1>6, <1>10, <2>1, <2>3 DEF Voice!TakeVoice
  <2> QED
    BY <2>4 DEF Voice!Next
<1>11. CASE Stage(c) = "voice" /\ Stage(c)' = "away" /\ ShouldYield(c)
  <2>1. PICK d \in Waiters(c) : reg[d] = "waiting"
    BY <1>11 DEF ShouldYield, Outranked, Contenders, UrgentSiblingWaiting
  <2>2. d \in Clips \ {c} /\ S[d] = "asking"
    BY <1>4, <2>1, AskersWait DEF Waiters
  <2>3. Voice!GiveWay(c)
    BY <1>1, <1>4, <1>6, <1>11, <2>2 DEF Voice!GiveWay
  <2> QED
    BY <2>3 DEF Voice!Next
<1>12. CASE Stage(c) # "over" /\ Stage(c)' = "over"
  <2>1. Voice!End(c)
    BY <1>1, <1>4, <1>6, <1>12 DEF Voice!End
  <2> QED
    BY <2>1 DEF Voice!Next
<1> QED
  BY <1>3, <1>7, <1>8, <1>9, <1>10, <1>11, <1>12 DEF StageMoves

\* The submission of a reply is the queue's, and the rest of the world is not
\* seen in it.
LEMMA VoiceNext == Calm /\ CalmInv /\ [Next]_vars => [Voice!Next]_(Voice!vars)
<1> SUFFICES ASSUME Calm, CalmInv, [Next]_vars PROVE [Voice!Next]_(Voice!vars)
  OBVIOUS
<1> DEFINE S == [x \in Clips |-> Stage(x)]
<1>0. TypeOK /\ PlaceKept /\ NoGhostWaiter /\ Stamped
  BY DEF CalmInv, PlaceInv, OrderInv, IInv
<1>1. Voice!vars = <<S, seq>> /\ Voice!vars' = <<S', seq'>>
  BY DEF Voice!vars
<1>2. ASSUME UNCHANGED <<pc, reg, token, seq>> PROVE [Voice!Next]_(Voice!vars)
  <2>1. S' = S
    BY <1>2 DEF Stage
  <2> QED
    BY <1>1, <1>2, <2>1
<1>3. ASSUME NEW c \in Clips, Submit(c) PROVE [Voice!Next]_(Voice!vars)
  <2>1. /\ pc[c] = "idle" /\ pc' = [pc EXCEPT ![c] = "stamped"] /\ reg' = reg /\ token' = token
        /\ seq' = [seq EXCEPT ![c] = clock + 1]
    BY <1>3 DEF Submit, Goto
  <2>2. \A x \in Clips : Stage(x)' = Stage(x)
    BY <1>0, <2>1 DEF Stage, TypeOK
  <2>3. S' = S
    BY <2>2
  <2>4. reg[c] = "none"
    BY <1>0, <2>1 DEF NoGhostWaiter, TypeOK, Queueing
  <2>5. Stage(c) = "away" /\ seq[c] = 0
    BY <1>0, <2>1, <2>4, StageIs DEF PlaceKept, Over, LetThroughTo
  <2>6. seq' \in [Clips -> Nat]
    BY <1>0, <2>1 DEF TypeOK
  <2>7. \A d \in Clips \ {c} : seq'[d] = seq[d] /\ seq[d] < seq'[c]
    BY <1>0, <2>1 DEF TypeOK, Stamped
  <2>8. Voice!Submit(c)
    BY <2>3, <2>5, <2>6, <2>7 DEF Voice!Submit
  <2> QED
    BY <2>8 DEF Voice!Next
<1>4. CASE Environment
  <2>1. CASE Flush
    BY <1>2, <2>1 DEF Flush, clipVars
  <2>2. ~ToggleHold /\ ~Age
    BY DEF Calm, ToggleHold, Age
  <2> QED
    BY <1>3, <1>4, <2>1, <2>2, CalmSteps, VoiceStep DEF Environment
<1>5. CASE UNCHANGED vars
  BY <1>2, <1>5 DEF vars
<1> QED
  BY <1>4, <1>5, VoiceStep DEF Next

\* With nobody who stalls and no speech that skips the queue, the flock, the
\* registry and the polling are one voice, given to one clip at a time, in
\* each conversation in the order of submission, urgent ones first, whatever
\* clips yield, supersede, are flushed or crash.
THEOREM LockImplementsQueue == ASSUME Calm PROVE Spec => ImplementsVoiceQueue
<1>1. CalmInv /\ [Next]_vars => CalmInv'
  BY CalmStep
<1>2. CalmInv /\ [Next]_vars => [Voice!Next]_(Voice!vars)
  BY VoiceNext
<1>3. Init => CalmInv
  BY InitCalm
<1>4. Init => Voice!Init
  <2> SUFFICES ASSUME Init PROVE Voice!Init
    OBVIOUS
  <2>1. \A c \in Clips : pc[c] = "idle" /\ reg[c] = "none"
    BY DEF Init
  <2>2. \A c \in Clips : Stage(c) = "away"
    BY <2>1, StageOfEntry DEF Stage
  <2> QED
    BY <2>2 DEF Voice!Init, Init
<1> QED
  BY <1>1, <1>2, <1>3, <1>4, PTL DEF Spec, ImplementsVoiceQueue, Voice!Spec
=============================================================================
