-------------------------- MODULE PhoneJobsProofs --------------------------
(***************************************************************************)
(* Theorems about PhoneJobs for any number of jobs, devices, streams and   *)
(* attempts: what the relay promises its callers, and that it implements   *)
(* RemoteCall.                                                             *)
(***************************************************************************)
EXTENDS PhoneJobs, TLAPS

\* A frame that has been dequeued has not been run, and its caller was not
\* told that nobody took it; it is in one stream's hands only.
FrameOnce ==
  /\ \A s \in Streams : \A j \in out[s] :
       j \in taken /\ runs[j] = 0 /\ caller[j] \in {"waiting", "unknown"}
  /\ \A r, s \in Streams : r # s => out[r] \cap out[s] = {}

\* What was never dequeued never runs.
TakenFirst ==
  \A j \in Jobs :
    /\ j \notin taken => runs[j] = 0
    /\ caller[j] \in {"new", "refused"} => j \notin taken

\* Whatever the worker says of a job comes from its one run.
FromTheRun ==
  \A j \in Jobs :
    /\ runs[j] \in 0 .. 1
    /\ run[j] # "none" \/ j \in done => runs[j] = 1
    /\ \A n \in 1 .. Tries : <<j, n>> \in posts => runs[j] = 1

\* The inductive invariant: a job moves from the queue to one stream, from
\* there to the worker, and never back.
JobsInv ==
  TypeOK /\ NothingOutlivesItsWait /\ FrameOnce /\ TakenFirst /\ FromTheRun

LEMMA InitJobs == Init => JobsInv
BY JobsAssumption
DEF Init, JobsInv, TypeOK, NothingOutlivesItsWait, FrameOnce, TakenFirst,
    FromTheRun

-----------------------------------------------------------------------------
(* One lemma per process *)

\* A caller takes its job out of table and queue together.
LEMMA CallerStep ==
  ASSUME JobsInv, NEW j \in Jobs, Caller(j)
  PROVE  JobsInv'
<1> USE DEF Tell, streamVars, deviceVars
<1>0. /\ TypeOK /\ NothingOutlivesItsWait /\ FrameOnce /\ TakenFirst
      /\ FromTheRun
  BY DEF JobsInv
<1>1. CASE Ask(j) \/ Offline(j)
  <2>1. TypeOK'
    BY <1>0, <1>1 DEF TypeOK, Ask, Offline
  <2>2. NothingOutlivesItsWait'
    BY <1>0, <1>1
    DEF TypeOK, NothingOutlivesItsWait, TakenFirst, Ask, Offline
  <2>3. FrameOnce' /\ TakenFirst' /\ FromTheRun'
    BY <1>0, <1>1
    DEF TypeOK, FrameOnce, TakenFirst, FromTheRun, Ask, Offline
  <2> QED
    BY <2>1, <2>2, <2>3 DEF JobsInv
<1>2. CASE Answered(j)
  <2>1. TypeOK' /\ NothingOutlivesItsWait'
    BY <1>0, <1>2 DEF TypeOK, NothingOutlivesItsWait, Answered, Leave
  <2>2. FrameOnce' /\ TakenFirst' /\ FromTheRun'
    BY <1>0, <1>2
    DEF TypeOK, FrameOnce, TakenFirst, FromTheRun, Answered, Leave
  <2> QED
    BY <2>1, <2>2 DEF JobsInv
<1>3. CASE GiveUp(j)
  <2>1. TypeOK' /\ NothingOutlivesItsWait'
    BY <1>0, <1>3 DEF TypeOK, NothingOutlivesItsWait, GiveUp, Leave, Why
  <2>2. FrameOnce' /\ TakenFirst' /\ FromTheRun'
    BY <1>0, <1>3
    DEF TypeOK, FrameOnce, TakenFirst, FromTheRun, GiveUp, Leave, Why
  <2> QED
    BY <2>1, <2>2 DEF JobsInv
<1> QED
  BY <1>1, <1>2, <1>3 DEF Caller

\* A stream takes from the queue what nobody took before, writes each frame
\* once, and what it has not written when it ends is never written.
LEMMA ServeStep ==
  ASSUME JobsInv, NEW s \in Streams, Serve(s)
  PROVE  JobsInv'
<1> USE DEF callVars, deviceVars
<1>0. /\ TypeOK /\ NothingOutlivesItsWait /\ FrameOnce /\ TakenFirst
      /\ FromTheRun
  BY DEF JobsInv
<1>1. CASE Take(s)
  <2> DEFINE mine == {j \in queue \cap table : Mine(j, s)}
  <2>1. /\ queue' = (queue \cap table) \ mine /\ taken' = taken \cup mine
        /\ out[s] = {} /\ out' = [out EXCEPT ![s] = mine]
        /\ UNCHANGED <<caller, table, done, workers, link, paired, posts,
                       restarts, run, runs, tries>>
    BY <1>1 DEF Take
  <2>2. \A j \in mine :
          /\ j \in Jobs /\ j \notin taken /\ runs[j] = 0
          /\ caller[j] = "waiting"
    BY <1>0 DEF TypeOK, NothingOutlivesItsWait
  <2> HIDE DEF mine
  <2>3. mine \subseteq Jobs
    BY <2>2
  <2>4. TypeOK'
    BY <1>0, <2>1, <2>3 DEF TypeOK
  <2>5. NothingOutlivesItsWait'
    BY <1>0, <2>1, <2>2 DEF TypeOK, NothingOutlivesItsWait
  <2>6. FrameOnce'
    <3>1. \A r \in Streams \ {s} : out'[r] = out[r] /\ out[r] \cap mine = {}
      BY <1>0, <2>1, <2>2 DEF TypeOK, FrameOnce
    <3>2. out'[s] = mine
      BY <1>0, <2>1 DEF TypeOK
    <3>3. ASSUME NEW r \in Streams, NEW j \in out'[r]
          PROVE  j \in taken' /\ runs'[j] = 0
                   /\ caller'[j] \in {"waiting", "unknown"}
      BY <1>0, <2>1, <2>2, <3>1, <3>2, <3>3 DEF FrameOnce
    <3>4. ASSUME NEW q \in Streams, NEW r \in Streams, q # r
          PROVE  out'[q] \cap out'[r] = {}
      BY <1>0, <3>1, <3>2, <3>4 DEF FrameOnce
    <3> QED
      BY <3>3, <3>4 DEF FrameOnce
  <2>7. TakenFirst' /\ FromTheRun'
    BY <1>0, <2>1, <2>2 DEF TakenFirst, FromTheRun
  <2> QED
    BY <2>4, <2>5, <2>6, <2>7 DEF JobsInv
<1>2. ASSUME NEW j \in Jobs, Write(s, j) PROVE JobsInv'
  <2>1. j \in taken /\ runs[j] = 0
    BY <1>0, <1>2 DEF FrameOnce, Write
  <2>2. TypeOK'
    BY <1>0, <1>2, <2>1 DEF TypeOK, Write
  <2>3. NothingOutlivesItsWait'
    BY <1>0, <1>2, <2>1 DEF TypeOK, NothingOutlivesItsWait, Write
  <2>4. FrameOnce'
    BY <1>0, <1>2, <2>1 DEF TypeOK, FrameOnce, Write
  <2>5. TakenFirst' /\ FromTheRun'
    BY <1>0, <1>2, <2>1 DEF TypeOK, TakenFirst, FromTheRun, Write
  <2> QED
    BY <2>2, <2>3, <2>4, <2>5 DEF JobsInv
<1>3. ASSUME NEW j \in Jobs, WriteToNobody(s, j) PROVE JobsInv'
  <2>1. TypeOK' /\ NothingOutlivesItsWait'
    BY <1>0, <1>3 DEF TypeOK, NothingOutlivesItsWait, WriteToNobody
  <2>2. FrameOnce' /\ TakenFirst' /\ FromTheRun'
    BY <1>0, <1>3
    DEF TypeOK, FrameOnce, TakenFirst, FromTheRun, WriteToNobody
  <2> QED
    BY <2>1, <2>2 DEF JobsInv
<1>4. CASE Break(s) \/ LetGo(s)
  <2>1. Unregister(s)
    BY <1>4 DEF Break, LetGo
  <2>2. TypeOK' /\ NothingOutlivesItsWait'
    BY <1>0, <2>1 DEF TypeOK, NothingOutlivesItsWait, Unregister
  <2>3. FrameOnce' /\ TakenFirst' /\ FromTheRun'
    BY <1>0, <2>1 DEF TypeOK, FrameOnce, TakenFirst, FromTheRun, Unregister
  <2> QED
    BY <2>2, <2>3 DEF JobsInv
<1> QED
  BY <1>1, <1>2, <1>3, <1>4 DEF Serve

\* The worker answers for what it ran; the server believes it while the job
\* is still there.
LEMMA WorkerStep ==
  ASSUME JobsInv, NEW j \in Jobs, Worker(j)
  PROVE  JobsInv'
<1> USE DEF callVars, streamVars
<1>0. /\ TypeOK /\ NothingOutlivesItsWait /\ FrameOnce /\ TakenFirst
      /\ FromTheRun
  BY DEF JobsInv
<1>1. CASE Finish(j) \/ DropAnswer(j)
  <2>1. TypeOK' /\ NothingOutlivesItsWait'
    BY <1>0, <1>1 DEF TypeOK, NothingOutlivesItsWait, Finish, DropAnswer
  <2>2. FrameOnce' /\ TakenFirst' /\ FromTheRun'
    BY <1>0, <1>1
    DEF TypeOK, FrameOnce, TakenFirst, FromTheRun, Finish, DropAnswer
  <2> QED
    BY <2>1, <2>2 DEF JobsInv
<1>2. CASE Post(j)
  <2>1. runs[j] = 1
    BY <1>0, <1>2 DEF FromTheRun, Post
  <2>2. tries[j] + 1 \in 1 .. Tries
    BY <1>0, <1>2, JobsAssumption DEF TypeOK, Post, TryLeft
  <2>3. TypeOK'
    BY <1>0, <1>2, <2>2, JobsAssumption DEF TypeOK, Post
  <2>4. NothingOutlivesItsWait' /\ FrameOnce' /\ TakenFirst'
    BY <1>0, <1>2 DEF NothingOutlivesItsWait, FrameOnce, TakenFirst, Post
  <2>5. FromTheRun'
    BY <1>0, <1>2, <2>1 DEF FromTheRun, Post
  <2> QED
    BY <2>3, <2>4, <2>5 DEF JobsInv
<1>3. ASSUME NEW n \in 1 .. Tries, Result(j, n) PROVE JobsInv'
  <2>1. runs[j] = 1
    BY <1>0, <1>3 DEF FromTheRun, Result
  <2>2. /\ run' \in {run, [run EXCEPT ![j] = "over"]}
        /\ done' \in {done, done \cup {j}}
        /\ posts' = posts \ {<<j, n>>}
        /\ UNCHANGED <<caller, table, queue, taken, workers, out, link,
                       paired, runs, tries, restarts>>
    BY <1>3 DEF Result
  <2>3. TypeOK' /\ NothingOutlivesItsWait'
    BY <1>0, <2>2 DEF TypeOK, NothingOutlivesItsWait
  <2>4. FrameOnce' /\ TakenFirst'
    BY <1>0, <2>2 DEF FrameOnce, TakenFirst
  <2>5. FromTheRun'
    BY <1>0, <2>1, <2>2 DEF TypeOK, FromTheRun
  <2> QED
    BY <2>3, <2>4, <2>5 DEF JobsInv
<1> QED
  BY <1>1, <1>2, <1>3 DEF Worker

\* Streams come and go, workers die, pairings are taken back, and a restart
\* of the server empties its memory without undoing what was run.
LEMMA FailureStep ==
  ASSUME JobsInv, Failure
  PROVE  JobsInv'
<1> USE DEF callVars, streamVars, deviceVars
<1>0. /\ TypeOK /\ NothingOutlivesItsWait /\ FrameOnce /\ TakenFirst
      /\ FromTheRun
  BY DEF JobsInv
<1>1. CASE Restart
  <2>1. TypeOK'
    BY <1>0, <1>1 DEF TypeOK, Restart
  <2>2. NothingOutlivesItsWait' /\ FrameOnce' /\ TakenFirst' /\ FromTheRun'
    BY <1>0, <1>1
    DEF TypeOK, NothingOutlivesItsWait, FrameOnce, TakenFirst, FromTheRun,
        Restart
  <2> QED
    BY <2>1, <2>2 DEF JobsInv
<1>2. ASSUME NEW s \in Streams, Connect(s) \/ Drop(s) PROVE JobsInv'
  <2>1. TypeOK'
    BY <1>0, <1>2 DEF TypeOK, Connect, Drop
  <2>2. NothingOutlivesItsWait' /\ FrameOnce' /\ TakenFirst' /\ FromTheRun'
    BY <1>0, <1>2
    DEF NothingOutlivesItsWait, FrameOnce, TakenFirst, FromTheRun, Connect,
        Drop
  <2> QED
    BY <2>1, <2>2 DEF JobsInv
<1>3. ASSUME NEW d \in Devices, WorkerDies(d) \/ Revoke(d) PROVE JobsInv'
  <2>1. TypeOK'
    BY <1>0, <1>3 DEF TypeOK, WorkerDies, Revoke
  <2>2. NothingOutlivesItsWait' /\ FrameOnce' /\ TakenFirst'
    BY <1>0, <1>3
    DEF NothingOutlivesItsWait, FrameOnce, TakenFirst, WorkerDies, Revoke
  <2>3. FromTheRun'
    BY <1>0, <1>3 DEF FromTheRun, WorkerDies, Revoke
  <2> QED
    BY <2>1, <2>2, <2>3 DEF JobsInv
<1> QED
  BY <1>1, <1>2, <1>3 DEF Failure

LEMMA NextJobs == JobsInv /\ [Next]_vars => JobsInv'
<1> SUFFICES ASSUME JobsInv, [Next]_vars PROVE JobsInv'
  OBVIOUS
<1>1. CASE Next
  BY <1>1, CallerStep, ServeStep, WorkerStep, FailureStep DEF Next
<1>2. CASE UNCHANGED vars
  BY <1>2
  DEF JobsInv, TypeOK, NothingOutlivesItsWait, FrameOnce, TakenFirst,
      FromTheRun, vars
<1> QED
  BY <1>1, <1>2

THEOREM JobsInvariance == Spec => []JobsInv
BY InitJobs, NextJobs, PTL DEF Spec

-----------------------------------------------------------------------------
(* The theorems *)

\* Type correctness of the relay.
THEOREM JobsTypeCorrect == Spec => []TypeOK
<1>1. JobsInv => TypeOK
  BY DEF JobsInv
<1> QED
  BY <1>1, JobsInvariance, PTL

\* The table and the queue hold exactly what somebody waits for.
THEOREM NothingLeftQueued == Spec => []NothingOutlivesItsWait
<1>1. JobsInv => NothingOutlivesItsWait
  BY DEF JobsInv
<1> QED
  BY <1>1, JobsInvariance, PTL

\* Every step of the relay is a step of the call it promises, or none.
LEMMA CallStep == JobsInv /\ [Next]_vars => [Calls!Next]_(Calls!vars)
<1> SUFFICES ASSUME JobsInv, [Next]_vars
             PROVE  Calls!Next \/ UNCHANGED <<caller, runs>>
  BY DEF Calls!vars
<1> USE DEF callVars, streamVars, deviceVars, Calls!Tell, Tell
<1>0. TypeOK /\ FrameOnce /\ TakenFirst /\ FromTheRun
  BY DEF JobsInv
<1>1. ASSUME NEW j \in Jobs, Caller(j)
      PROVE  Calls!Next
  <2>1. CASE Ask(j)
    BY <2>1 DEF Ask, Calls!Next, Calls!Ask
  <2>2. CASE Offline(j)
    BY <1>0, <2>2 DEF Offline, TakenFirst, Calls!Next, Calls!Refuse
  <2>3. CASE Answered(j)
    BY <1>0, <2>3 DEF Answered, Leave, FromTheRun, Calls!Next, Calls!Answer
  <2>4. CASE GiveUp(j) /\ j \in taken
    BY <2>4 DEF GiveUp, Leave, Why, Calls!Next, Calls!GiveUp
  <2>5. CASE GiveUp(j) /\ j \notin taken
    BY <1>0, <2>5
    DEF GiveUp, Leave, Why, TakenFirst, Calls!Next, Calls!Refuse
  <2> QED
    BY <1>1, <2>1, <2>2, <2>3, <2>4, <2>5 DEF Caller
<1>2. ASSUME NEW s \in Streams, NEW j \in Jobs, Write(s, j)
      PROVE  Calls!Next
  <2>1. runs[j] = 0 /\ caller[j] \in {"waiting", "unknown"}
    BY <1>0, <1>2 DEF FrameOnce, Write
  <2>2. runs' = [runs EXCEPT ![j] = 1]
    BY <1>2, <2>1 DEF Write
  <2> QED
    BY <1>2, <2>1, <2>2 DEF Write, Calls!Next, Calls!Run
<1>3. ASSUME NEW s \in Streams, Serve(s), ~(\E j \in Jobs : Write(s, j))
      PROVE  UNCHANGED <<caller, runs>>
  BY <1>3 DEF Serve, Take, Break, LetGo, Unregister, WriteToNobody
<1>4. ASSUME NEW j \in Jobs, Worker(j) PROVE UNCHANGED <<caller, runs>>
  BY <1>4 DEF Worker, Finish, Post, DropAnswer, Result
<1>5. CASE Failure
  <2>1. CASE Restart
    BY <2>1 DEF Restart, Calls!Next, Calls!CutOff
  <2>2. CASE ~Restart
    BY <1>5, <2>2 DEF Failure, Connect, Drop, WorkerDies, Revoke
  <2> QED
    BY <2>1, <2>2
<1>6. CASE UNCHANGED vars
  BY <1>6 DEF vars
<1> QED
  BY <1>1, <1>2, <1>3, <1>4, <1>5, <1>6 DEF Next

\* A job runs at most once, an exit code comes from its run, and a caller
\* that is told that nobody took it never sees it run: whatever streams,
\* workers, answers and the server do.
THEOREM RelayImplementsCall == Spec => ImplementsRemoteCall
<1>1. Init => Calls!Init
  BY DEF Init, Calls!Init
<1> QED
  BY <1>1, CallStep, JobsInvariance, PTL
  DEF Spec, ImplementsRemoteCall, Calls!Spec
=============================================================================
