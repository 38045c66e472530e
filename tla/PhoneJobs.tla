----------------------------- MODULE PhoneJobs -----------------------------
(***************************************************************************)
(* Commands, restarts and updates carried to another host down a stream    *)
(* its worker dials out: packages/server/src/agent_media_server/           *)
(* phone_jobs.py on the server, packages/core/services/jobs-worker/        *)
(* jobs-worker.py on the device.                                           *)
(*                                                                         *)
(* On the server a caller's thread and one thread per stream share _JOBS,  *)
(* _QUEUE and _WORKERS under one condition variable; a step below is what  *)
(* one of them does while it holds it, or one write to a socket.  The      *)
(* network may drop a stream without telling the server, lose or delay an  *)
(* answer, and the worker, the server and the pairing may go away.         *)
(***************************************************************************)
EXTENDS Naturals

CONSTANTS
  Jobs,          \* the calls that will ever be made
  Devices,       \* hosts with a worker
  Phone,         \* MEDIA_PHONE_JOBS_DEVICE
  Streams,       \* the connections the workers will ever open
  DeviceOf,      \* the device a job names
  KindOf,        \* "cmd", "restart" or "update"
  StreamDevice,  \* whose worker opens the stream
  StreamKinds,   \* the kinds its request names (?kinds=)
  Tries,         \* how often an answer is posted
  MayRevoke,     \* devices whose pairing may be taken back
  MayRestart     \* whether the server may restart (once)

Kinds == {"restart", "update"}

ASSUME JobsAssumption ==
  /\ Phone \in Devices
  /\ DeviceOf \in [Jobs -> Devices]
  /\ KindOf \in [Jobs -> {"cmd"} \cup Kinds]
  /\ \A j \in Jobs : KindOf[j] = "cmd" => DeviceOf[j] = Phone
  /\ StreamDevice \in [Streams -> Devices]
  /\ StreamKinds \in [Streams -> SUBSET Kinds]
  /\ Tries \in Nat \ {0}
  /\ MayRevoke \subseteq Devices
  /\ MayRestart \in BOOLEAN

VARIABLES
  caller,   \* what the caller of each job has been told
  table,    \* _JOBS
  queue,    \* _QUEUE
  taken,    \* jobs whose "taken" time is set
  done,     \* jobs whose "done" is set
  workers,  \* _WORKERS: the streams the server believes are up
  out,      \* frames a stream's thread has dequeued and not yet written
  link,     \* each stream's connection: "none", "up" or "dead"
  paired,   \* devices whose token is known
  run,      \* the worker's thread: "none", "running", "answering", "over"
  runs,     \* history: how often each job has been run
  tries,    \* posts of a job's answer so far
  posts,    \* answers on their way to the server: <<job, attempt>>
  restarts  \* how often the server has restarted

callVars == <<caller, table, queue, taken, done>>
streamVars == <<workers, out, link>>
deviceVars == <<run, runs, tries>>
vars == <<caller, table, queue, taken, done, workers, out, link, paired,
          run, runs, tries, posts, restarts>>

-----------------------------------------------------------------------------
(* What the decisions read *)

\* Mutant: the device list as it was when the server started.
StaleDevices == Devices

\* jobs_devices(): the phone by its setting, the others while paired.
JobsDevices == {Phone} \cup paired

\* The kinds of job the server gives a stream: what it asked for, and a
\* command for the phone alone.
Takes(s) ==
  StreamKinds[s] \cup IF StreamDevice[s] = Phone THEN {"cmd"} ELSE {}

\* _mine: a job names its device, and goes down that device's streams.
Mine(j, s) == DeviceOf[j] = StreamDevice[s] /\ KindOf[j] \in Takes(s)

\* Somebody to give it to, as the caller sees it before queueing: device_for
\* finds a restart's or update's device among the paired ones.
Connected(j) ==
  /\ KindOf[j] # "cmd" => DeviceOf[j] \in paired
  /\ \E s \in workers : Mine(j, s)

\* Whether result() takes an answer of this device.
Welcome(d) == d \in paired /\ d \in JobsDevices

Tell(j, what) == caller' = [caller EXCEPT ![j] = what]

-----------------------------------------------------------------------------
(* The caller: run(), restart(), update(), _submit *)

Init ==
  /\ caller = [j \in Jobs |-> "new"]
  /\ table = {} /\ queue = {} /\ taken = {} /\ done = {}
  /\ workers = {}
  /\ out = [s \in Streams |-> {}]
  /\ link = [s \in Streams |-> "none"]
  /\ paired = Devices
  /\ run = [j \in Jobs |-> "none"]
  /\ runs = [j \in Jobs |-> 0]
  /\ tries = [j \in Jobs |-> 0]
  /\ posts = {}
  /\ restarts = 0

\* Queued, and the streams are woken.
Ask(j) ==
  /\ caller[j] = "new"
  /\ Connected(j)
  /\ Tell(j, "waiting")
  /\ table' = table \cup {j}
  /\ queue' = queue \cup {j}
  /\ UNCHANGED <<taken, done, paired, posts, restarts>>
  /\ UNCHANGED streamVars /\ UNCHANGED deviceVars

\* 255, 404 or 503 at once: no worker, or one too old for the kind.
Offline(j) ==
  /\ caller[j] = "new"
  /\ ~Connected(j)
  /\ Tell(j, "refused")
  /\ UNCHANGED <<table, queue, taken, done, paired, posts, restarts>>
  /\ UNCHANGED streamVars /\ UNCHANGED deviceVars

\* Mutant: the job leaves the table only.
LeaveQueued(j, what) ==
  /\ Tell(j, what)
  /\ table' = table \ {j}
  /\ UNCHANGED <<queue, taken, done, paired, posts, restarts>>
  /\ UNCHANGED streamVars /\ UNCHANGED deviceVars

\* The wait is over, one way or the other: the job leaves table and queue.
Leave(j, what) ==
  /\ Tell(j, what)
  /\ table' = table \ {j}
  /\ queue' = queue \ {j}
  /\ UNCHANGED <<taken, done, paired, posts, restarts>>
  /\ UNCHANGED streamVars /\ UNCHANGED deviceVars

Answered(j) ==
  caller[j] = "waiting" /\ j \in done /\ Leave(j, "answered")

\* Mutants: a wait that nothing ends once the job is taken; a caller told
\* that nobody took the job when somebody did.
GivesUpPickup(j) == j \notin done /\ j \notin taken
NobodyTook(j) == "refused"

\* The pickup time is up and nobody took it, or the whole wait is.
GivesUp(j) == j \notin done

\* "no phone worker took it", or "timed out on the phone".
Why(j) == IF j \in taken THEN "unknown" ELSE "refused"

GiveUp(j) == caller[j] = "waiting" /\ GivesUp(j) /\ Leave(j, Why(j))

-----------------------------------------------------------------------------
(* The stream: serve() *)

\* A worker has one connection; the server may still count an old one.
Connect(s) ==
  /\ link[s] = "none"
  /\ Welcome(StreamDevice[s])
  /\ \A r \in Streams : StreamDevice[r] = StreamDevice[s] => link[r] # "up"
  /\ link' = [link EXCEPT ![s] = "up"]
  /\ workers' = workers \cup {s}
  /\ UNCHANGED <<out, paired, posts, restarts>>
  /\ UNCHANGED callVars /\ UNCHANGED deviceVars

\* Woken with something of its own in the queue: take all of it.  An id
\* whose job is gone is dropped from the queue on the way.
Take(s) ==
  LET mine == {j \in queue \cap table : Mine(j, s)} IN
  /\ s \in workers /\ out[s] = {}
  /\ StreamDevice[s] \in JobsDevices
  /\ mine # {}
  /\ queue' = (queue \cap table) \ mine
  /\ taken' = taken \cup mine
  /\ out' = [out EXCEPT ![s] = mine]
  /\ UNCHANGED <<caller, table, done, workers, link, paired, posts, restarts>>
  /\ UNCHANGED deviceVars

\* The frame reaches the worker, which runs the job in a thread of its own.
Write(s, j) ==
  /\ j \in out[s] /\ link[s] = "up"
  /\ out' = [out EXCEPT ![s] = @ \ {j}]
  /\ run' = [run EXCEPT ![j] = "running"]
  /\ runs' = [runs EXCEPT ![j] = @ + 1]
  /\ UNCHANGED <<workers, link, paired, tries, posts, restarts>>
  /\ UNCHANGED callVars

\* A write to a connection nobody reads any more succeeds all the same.
WriteToNobody(s, j) ==
  /\ j \in out[s] /\ link[s] = "dead"
  /\ out' = [out EXCEPT ![s] = @ \ {j}]
  /\ UNCHANGED <<workers, link, paired, posts, restarts>>
  /\ UNCHANGED callVars /\ UNCHANGED deviceVars

\* The thread ends (finally): what it had dequeued goes with it.
Unregister(s) ==
  /\ workers' = workers \ {s}
  /\ out' = [out EXCEPT ![s] = {}]
  /\ link' = [link EXCEPT ![s] = "dead"]
  /\ UNCHANGED <<paired, posts, restarts>>
  /\ UNCHANGED callVars /\ UNCHANGED deviceVars

\* A frame or a ping at last fails on the dead connection.
Break(s) == s \in workers /\ link[s] = "dead" /\ Unregister(s)

\* Woken, and no longer a jobs worker.
LetGo(s) ==
  /\ s \in workers /\ out[s] = {}
  /\ StreamDevice[s] \notin JobsDevices
  /\ Unregister(s)

-----------------------------------------------------------------------------
(* The worker: _handle, _answer; and result() on the server *)

Finish(j) ==
  /\ run[j] = "running"
  /\ run' = [run EXCEPT ![j] = "answering"]
  /\ UNCHANGED <<runs, tries, paired, posts, restarts>>
  /\ UNCHANGED callVars /\ UNCHANGED streamVars

\* Mutant: one attempt too many.
OneTryMore(j) == tries[j] <= Tries

\* for attempt in range(3)
TryLeft(j) == tries[j] < Tries

\* The first post, or another when the last one was refused, was lost, or
\* was not acknowledged in time.
Post(j) ==
  /\ run[j] = "answering"
  /\ TryLeft(j)
  /\ tries' = [tries EXCEPT ![j] = @ + 1]
  /\ posts' = posts \cup {<<j, tries[j] + 1>>}
  /\ UNCHANGED <<run, runs, paired, restarts>>
  /\ UNCHANGED callVars /\ UNCHANGED streamVars

\* result(): 403 for a device that is no worker, "late" for a job that is
\* gone; the worker stops once it hears back about its latest post.
Result(j, n) ==
  /\ <<j, n>> \in posts
  /\ posts' = posts \ {<<j, n>>}
  /\ done' = IF Welcome(DeviceOf[j]) /\ j \in table THEN done \cup {j}
             ELSE done
  /\ \/ /\ Welcome(DeviceOf[j]) /\ run[j] = "answering" /\ n = tries[j]
        /\ run' = [run EXCEPT ![j] = "over"]
     \/ UNCHANGED run
  /\ UNCHANGED <<caller, table, queue, taken, runs, tries, paired, restarts>>
  /\ UNCHANGED streamVars

\* The last post was not acknowledged: the answer is given up.
DropAnswer(j) ==
  /\ run[j] = "answering"
  /\ ~TryLeft(j)
  /\ run' = [run EXCEPT ![j] = "over"]
  /\ UNCHANGED <<runs, tries, paired, posts, restarts>>
  /\ UNCHANGED callVars /\ UNCHANGED streamVars

-----------------------------------------------------------------------------
(* Failures *)

\* The network drops the stream, or the worker gives up on its silence.
Drop(s) ==
  /\ link[s] = "up"
  /\ link' = [link EXCEPT ![s] = "dead"]
  /\ UNCHANGED <<workers, out, paired, posts, restarts>>
  /\ UNCHANGED callVars /\ UNCHANGED deviceVars

\* The worker's process ends, its job threads with it (a restart or update
\* job may be what ends it); the service manager starts another.
WorkerDies(d) ==
  /\ \/ \E s \in Streams : StreamDevice[s] = d /\ link[s] = "up"
     \/ \E j \in Jobs :
          DeviceOf[j] = d /\ run[j] \in {"running", "answering"}
  /\ link' = [s \in Streams |->
       IF StreamDevice[s] = d /\ link[s] = "up" THEN "dead" ELSE link[s]]
  /\ run' = [j \in Jobs |->
       IF DeviceOf[j] = d /\ run[j] # "none" THEN "over" ELSE run[j]]
  /\ UNCHANGED <<workers, out, paired, runs, tries, posts, restarts>>
  /\ UNCHANGED callVars

\* devices.revoke: the row is gone from the store.
Revoke(d) ==
  /\ d \in MayRevoke \cap paired
  /\ paired' = paired \ {d}
  /\ UNCHANGED <<posts, restarts>>
  /\ UNCHANGED callVars /\ UNCHANGED streamVars /\ UNCHANGED deviceVars

\* The server restarts: its tables were memory, its callers are cut off.
Restart ==
  /\ MayRestart /\ restarts = 0
  /\ restarts' = 1
  /\ caller' = [j \in Jobs |-> IF caller[j] = "waiting" THEN "unknown"
                               ELSE caller[j]]
  /\ table' = {} /\ queue' = {}
  /\ workers' = {}
  /\ out' = [s \in Streams |-> {}]
  /\ link' = [s \in Streams |-> IF link[s] = "up" THEN "dead" ELSE link[s]]
  /\ UNCHANGED <<taken, done, paired, posts>>
  /\ UNCHANGED deviceVars

-----------------------------------------------------------------------------

Caller(j) ==
  Ask(j) \/ Offline(j) \/ Answered(j) \/ GiveUp(j)

Serve(s) ==
  \/ Take(s) \/ Break(s) \/ LetGo(s)
  \/ \E j \in Jobs : Write(s, j) \/ WriteToNobody(s, j)

Worker(j) ==
  \/ Finish(j) \/ Post(j) \/ DropAnswer(j)
  \/ \E n \in 1 .. Tries : Result(j, n)

Failure ==
  \/ Restart
  \/ \E s \in Streams : Connect(s) \/ Drop(s)
  \/ \E d \in Devices : WorkerDies(d) \/ Revoke(d)

Next ==
  \/ Failure
  \/ \E j \in Jobs : Caller(j) \/ Worker(j)
  \/ \E s \in Streams : Serve(s)

Spec == Init /\ [][Next]_vars

\* A caller's wait is bounded by the clock; a stream's thread wakes at least
\* every PING_S, and its writes to a dead connection fail sooner or later.
FairSpec ==
  /\ Spec
  /\ \A j \in Jobs : WF_vars(Answered(j) \/ GiveUp(j))
  /\ \A s \in Streams : WF_vars(Serve(s))

-----------------------------------------------------------------------------

TypeOK ==
  /\ caller \in [Jobs -> {"new", "waiting", "answered", "refused", "unknown"}]
  /\ table \subseteq Jobs /\ queue \subseteq Jobs
  /\ taken \subseteq Jobs /\ done \subseteq Jobs
  /\ workers \subseteq Streams
  /\ out \in [Streams -> SUBSET Jobs]
  /\ link \in [Streams -> {"none", "up", "dead"}]
  /\ paired \subseteq Devices
  /\ run \in [Jobs -> {"none", "running", "answering", "over"}]
  /\ runs \in [Jobs -> Nat]
  /\ tries \in [Jobs -> 0 .. Tries]
  /\ posts \subseteq Jobs \X (1 .. Tries)
  /\ restarts \in 0 .. 1

\* The command runs at most once, whatever becomes of streams and answers;
\* a caller gets an exit code only from that run, and one that is told that
\* nobody took the job (and so tries another way) never sees it run.
Calls == INSTANCE RemoteCall WITH call <- caller
ImplementsRemoteCall == Calls!Spec

\* "nothing outlives its wait" (_submit): what the table and the queue hold
\* is exactly what somebody waits for, so no worker is ever handed a job
\* that has been given up on, and a queued job has not been handed to anyone.
NothingOutlivesItsWait ==
  /\ \A j \in Jobs : j \in table <=> caller[j] = "waiting"
  /\ queue \subseteq table
  /\ \A j \in queue : j \notin taken /\ runs[j] = 0

\* Every call comes back, whatever dies in between.
EveryCallEnds == \A j \in Jobs : caller[j] = "waiting" ~> caller[j] # "waiting"

\* A device that is no longer a worker loses its stream, so that callers
\* hear at once that it is offline.
StreamLetGo ==
  \A s \in Streams :
    s \in workers /\ StreamDevice[s] \notin paired \cup {Phone} ~>
      s \notin workers
=============================================================================
