---------------------------- MODULE SessionHost ----------------------------
(***************************************************************************)
(* The host of the agent sessions: class Supervisor of                     *)
(* packages/server/src/agent_media_server/sessiond.py.  It owns one agent  *)
(* process per live session, sends it messages, parks it when idle, holds  *)
(* messages while a restart is pending, and after the restart resumes what *)
(* that cut off and delivers what was held.                                *)
(*                                                                         *)
(* A socket thread per request, the idle tick and the release tick share   *)
(* the sessions under one lock; a step is what one of them does between    *)
(* taking the lock and giving it up (cond.wait_for gives it up), or one    *)
(* event of an agent process.  Only what a session's record holds outlives *)
(* the host.  Claude sessions only: opencode's have no process each.       *)
(***************************************************************************)
EXTENDS Naturals, Sequences, FiniteSets, SequencesExt

CONSTANTS
  Sessions,   \* sessions the host has a record of
  Msgs,       \* messages that will ever be sent
  To,         \* the session each is for
  Mail,       \* those that must not answer a card (keep_pending)
  Note,       \* the resume note
  Release,    \* the release thread
  NoSession,
  MaxLive,    \* MEDIA_SESSIOND_MAX
  MaxDeaths,  \* bound on processes that end by themselves
  MaxStops,   \* bound on stops and crashes of the host
  MaxDrains,  \* bound on the restarts that wait for the sessions
  MayCrash,   \* whether the host may die without a stop
  Linger,     \* whether an agent process may outlive a host that died
  MayPark,    \* sessions somebody parks or closes by hand
  MayTask     \* sessions whose agent runs tasks in the background

ASSUME HostAssumption ==
  /\ To \in [Msgs -> Sessions] /\ Mail \subseteq Msgs
  /\ Note \notin Msgs /\ Release \notin Msgs /\ NoSession \notin Sessions
  /\ MaxLive \in Nat \ {0} /\ MaxDeaths \in Nat /\ MaxStops \in Nat /\ MaxDrains \in Nat
  /\ MayCrash \in BOOLEAN /\ Linger \in BOOLEAN /\ MayPark \subseteq Sessions
  /\ MayTask \subseteq Sessions

VARIABLES
  state,    \* Session.state
  proc,     \* Session.proc: the number of its process, 0 for none
  alive,    \* the processes the system runs, as <<session, number>>
  procs,    \* processes started so far
  leaving,  \* Session.parking and .closing: "no", "parking", "closing"
  card,     \* Session.pending: the process that asked, 0 for no card
  inbox,    \* messages written to the process that it has not begun
  queued,   \* how many of them it has reported as queued (Session.queued)
  tasks,    \* sessions with a background task in flight
  held,     \* Session.held
  cut,      \* Session.cut_off's why, "none" without one
  due,      \* sessions whose cut_off is due
  drain,    \* whether a restart is pending, as the host last read it
  host,     \* "up", "stopping", "parking" or "down"
  at,       \* where each thread is
  todo,     \* sessions left in the release thread's round
  rel,      \* its session, what it sends there, and the cut-off it took
  log,      \* history: what has been written to each session
  cuts,     \* history: how often it has been marked due
  deaths, stops, drains

procVars == <<state, proc, alive, procs, leaving, card, inbox, queued, tasks>>
dueVars == <<held, cut, due>>
relVars == <<todo, rel>>
budgets == <<deaths, stops, drains>>
vars == <<procVars, dueVars, drain, host, at, relVars, log, cuts, budgets>>

-----------------------------------------------------------------------------
Busy == {"starting", "working", "approval"}
LiveStates == Busy \cup {"waiting"}
Up == host # "down"

Live(s) == <<s, proc[s]>> \in alive
Running(s) == Live(s) /\ leaving[s] = "no"

\* work(): what a restart would cut off.
Work(s) == state[s] \in Busy \/ card[s] # 0 \/ s \in tasks \/ queued[s] > 0

Idle(s) == state[s] = "waiting" /\ card[s] = 0 /\ queued[s] = 0 /\ s \notin tasks

\* Mutant: a process on its way out is not waited for.
NeverAwaited(s) == FALSE

\* _await_exit: the process is on its way out.
Awaited(s) == proc[s] # 0 /\ leaving[s] # "no"

Init ==
  /\ state = [s \in Sessions |-> "parked"]
  /\ proc = [s \in Sessions |-> 0]
  /\ alive = {} /\ procs = 0
  /\ leaving = [s \in Sessions |-> "no"]
  /\ card = [s \in Sessions |-> 0]
  /\ inbox = [s \in Sessions |-> <<>>]
  /\ queued = [s \in Sessions |-> 0]
  /\ tasks = {}
  /\ held = [s \in Sessions |-> <<>>]
  /\ cut = [s \in Sessions |-> "none"] /\ due = {}
  /\ drain = FALSE /\ host = "up"
  /\ at = [t \in Msgs \cup {Release} |-> IF t = Release THEN "idle" ELSE "new"]
  /\ todo = {} /\ rel = <<NoSession, Note, "none">>
  /\ log = [s \in Sessions |-> <<>>]
  /\ cuts = [s \in Sessions |-> 0]
  /\ deaths = 0 /\ stops = 0 /\ drains = 0

Goto(t, where) == at' = [at EXCEPT ![t] = where]
Target(t) == IF t = Release THEN rel[1] ELSE To[t]
What(t) == IF t = Release THEN rel[2] ELSE t

-----------------------------------------------------------------------------
(* send *)

\* A card up refuses what must not answer it.
Kept(t) == What(t) \in Mail /\ (card[Target(t)] # 0 \/ state[Target(t)] = "approval")

\* While a restart is pending: kept on the session and its record.
Hold(m) ==
  /\ Up /\ at[m] = "new" /\ drain
  /\ IF Kept(m)
     THEN Goto(m, "refused") /\ UNCHANGED held
     ELSE Goto(m, "held") /\ held' = [held EXCEPT ![To[m]] = Append(@, m)]
  /\ UNCHANGED <<procVars, cut, due, drain, host, relVars, log, cuts, budgets>>

NotDraining(m) ==
  /\ Up /\ at[m] = "new" /\ ~drain
  /\ Goto(m, "sending")
  /\ UNCHANGED <<procVars, dueVars, drain, host, relVars, log, cuts, budgets>>

\* What a refusal means to the thread: the caller is told; the release thread
\* keeps the cut-off, or the message, for its next round.
Refused(t) ==
  /\ IF t = Release
     THEN /\ Goto(t, "idle")
          /\ IF rel[2] = Note
             THEN cut' = [cut EXCEPT ![rel[1]] = rel[3]] /\ due' = due \cup {rel[1]}
             ELSE UNCHANGED <<cut, due>>
     ELSE Goto(t, "refused") /\ UNCHANGED <<cut, due>>
  /\ UNCHANGED <<procVars, held, drain, host, relVars, log, cuts, budgets>>

\* Mutant: a card whose process is no longer there stays up.
StaleKept(s) == IF Live(s) THEN 0 ELSE card[s]

\* Typed under a card, the message answers it: declined, and the card gone.
Declined(s) == 0

Written(t, s) ==
  /\ log' = [log EXCEPT ![s] = Append(@, What(t))]
  /\ card' = [card EXCEPT ![s] = Declined(s)]
  /\ Goto(t, "sent")

\* The write, to the process that is there.
Write(t, s) ==
  /\ Live(s)
  /\ Written(t, s)
  /\ inbox' = [inbox EXCEPT ![s] = Append(@, What(t))]
  /\ state' = [state EXCEPT ![s] = IF @ = "approval" THEN "working" ELSE @]
  /\ UNCHANGED <<proc, alive, procs, leaving, queued, tasks, dueVars, deaths>>

\* The process ends between the look at it and the write: "not_live".  The
\* caller is told; the release thread goes on without the note, or drops
\* the message.
Breaks(t, s) ==
  /\ Live(s) /\ deaths < MaxDeaths
  /\ deaths' = deaths + 1
  /\ alive' = alive \ {<<s, proc[s]>>}
  /\ IF t = Release /\ rel[2] # Note
     THEN /\ at' = [at EXCEPT ![t] = "peeking", ![rel[2]] = "dropped"]
          /\ held' = [held EXCEPT ![s] = Tail(@)]
     ELSE Goto(t, IF t = Release THEN "peeking" ELSE "refused") /\ UNCHANGED held
  /\ UNCHANGED <<state, proc, procs, leaving, card, inbox, queued, tasks, cut, due, log>>

Others(s) == {x \in Sessions \ {s} : Running(x)}

\* _spawn, and the write to the new process; victim is the session _ensure_room
\* parks for it, or NoSession.
SpawnFor(t, s, victim) ==
  /\ procs' = procs + 1
  /\ proc' = [proc EXCEPT ![s] = procs + 1]
  /\ alive' = alive \cup {<<s, procs + 1>>}
  /\ leaving' = [x \in Sessions |->
       IF x = s THEN "no" ELSE IF x = victim THEN "parking" ELSE leaving[x]]
  /\ state' = [state EXCEPT ![s] = "starting"]
  /\ tasks' = tasks \ {s}
  /\ cut' = [cut EXCEPT ![s] = IF @ = "drain" THEN @ ELSE "none"]
  /\ due' = IF cut[s] = "drain" THEN due ELSE due \ {s}
  /\ Written(t, s)
  /\ inbox' = [inbox EXCEPT ![s] = <<What(t)>>]
  /\ queued' = [queued EXCEPT ![s] = 0]
  /\ UNCHANGED <<held, deaths>>

\* Room under the cap, or the idle session that is parked for it.
Spawn(t, s) ==
  /\ ~Live(s)
  /\ \/ Cardinality(Others(s)) < MaxLive /\ SpawnFor(t, s, NoSession)
     \/ /\ Cardinality(Others(s)) >= MaxLive
        /\ \E x \in Others(s) : Idle(x) /\ SpawnFor(t, s, x)

NoRoom(s) ==
  /\ ~Live(s)
  /\ Cardinality(Others(s)) >= MaxLive
  /\ \A x \in Others(s) : ~Idle(x)

\* From the lock to the write, with no process on its way out.
Post(t, s) ==
  \/ /\ Write(t, s) \/ Breaks(t, s) \/ Spawn(t, s)
     /\ UNCHANGED <<drain, host, relVars, cuts, stops, drains>>
  \/ NoRoom(s) /\ Refused(t)

Send(t) ==
  /\ Up /\ at[t] = "sending"
  /\ IF Kept(t) THEN Refused(t)
     ELSE IF Awaited(Target(t))
     THEN /\ Goto(t, "awaiting")
          /\ UNCHANGED <<procVars, dueVars, drain, host, relVars, log, cuts, budgets>>
     ELSE Post(t, Target(t))

\* The wait looks at s.proc alone, whoever is there by now.
Gone(t) ==
  /\ Up /\ at[t] = "awaiting" /\ proc[Target(t)] = 0
  /\ Post(t, Target(t))

StillThere(t) ==
  /\ Up /\ at[t] = "awaiting" /\ proc[Target(t)] # 0
  /\ Refused(t)

-----------------------------------------------------------------------------
(* deliver_due and _deliver, on the release thread *)

Releases(from, to) == Up /\ at[Release] = from /\ Goto(Release, to)

\* Mutant: what is held waits for a cut-off.
DueOnly == due

DueOrHeld == due \cup {s \in Sessions : held[s] # <<>>}

\* A round of the tick, unless a restart is pending.
Round ==
  /\ host = "up" /\ ~drain /\ at[Release] = "idle" /\ todo = {}
  /\ todo' = DueOrHeld
  /\ todo' # {}
  /\ UNCHANGED <<procVars, dueVars, drain, host, at, rel, log, cuts, budgets>>

\* Mutant: the cut-off is cleared only once the note is out.
ClearedAfter(s) == cut[s]

\* The cut-off is cleared and saved before its note goes out.
Cleared(s) == "none"

Take(s) ==
  /\ s \in todo
  /\ todo' = todo \ {s}
  /\ rel' = <<s, Note, cut[s]>>
  /\ Releases("idle", IF s \in due THEN "sending" ELSE "peeking")
  /\ cut' = [cut EXCEPT ![s] = IF s \in due THEN Cleared(s) ELSE @]
  /\ due' = {x \in due : cut'[x] # "none"}
  /\ UNCHANGED <<procVars, held, drain, host, log, cuts, budgets>>

\* The note is out: on to what is held.
NoteSent ==
  /\ rel[2] = Note
  /\ Releases("sent", "peeking")
  /\ UNCHANGED <<procVars, dueVars, drain, host, relVars, log, cuts, budgets>>

Peek ==
  /\ at[Release] = "peeking"
  /\ IF held[rel[1]] = <<>>
     THEN Releases("peeking", "idle") /\ UNCHANGED rel
     ELSE Releases("peeking", "sending") /\ rel' = <<rel[1], Head(held[rel[1]]), "none">>
  /\ UNCHANGED <<procVars, dueVars, drain, host, todo, log, cuts, budgets>>

\* Mutant: what was held last goes first.
PopLast(q) == Front(q)

Popped(q) == Tail(q)

Pop ==
  /\ Releases("sent", "peeking")
  /\ rel[2] # Note
  /\ held' = [held EXCEPT ![rel[1]] = Popped(@)]
  /\ UNCHANGED <<procVars, cut, due, drain, host, relVars, log, cuts, budgets>>

-----------------------------------------------------------------------------
(* The agent process *)

Process(s) ==
  /\ Up /\ Live(s)
  /\ UNCHANGED <<proc, alive, procs, leaving, held, drain, host, at, relVars, log, budgets>>

\* command_lifecycle `queued`.
Queues(s) ==
  /\ Process(s)
  /\ queued[s] < Len(inbox[s])
  /\ queued' = [queued EXCEPT ![s] = @ + 1]
  /\ UNCHANGED <<state, card, inbox, tasks, cut, due, cuts>>

\* Mutant: a message is taken off the reported ones unasked.
Uncounted(q) == q - 1

\* The one begun was reported first, if any was.
Begun(q) == IF q = 0 THEN 0 ELSE q - 1

\* init, or a message's `started`.
Turn(s) ==
  /\ Process(s)
  /\ state[s] \in {"starting", "waiting"} /\ inbox[s] # <<>>
  /\ state' = [state EXCEPT ![s] = "working"]
  /\ inbox' = [inbox EXCEPT ![s] = Tail(@)]
  /\ queued' = [queued EXCEPT ![s] = Begun(@)]
  /\ UNCHANGED <<card, tasks, cut, due, cuts>>

\* can_use_tool: a question or a permission card.
Ask(s) ==
  /\ Process(s)
  /\ state[s] = "working" /\ card[s] = 0
  /\ card' = [card EXCEPT ![s] = proc[s]]
  /\ state' = [state EXCEPT ![s] = "approval"]
  /\ UNCHANGED <<inbox, queued, tasks, cut, due, cuts>>

TaskStarts(s) ==
  /\ Process(s)
  /\ s \in MayTask /\ state[s] = "working" /\ s \notin tasks
  /\ tasks' = tasks \cup {s}
  /\ UNCHANGED <<state, card, inbox, queued, cut, due, cuts>>

\* A task's end may begin a turn of its own.
TaskEnds(s) ==
  /\ Process(s)
  /\ s \in tasks
  /\ tasks' = tasks \ {s}
  /\ \/ UNCHANGED state
     \/ state[s] = "waiting" /\ state' = [state EXCEPT ![s] = "working"]
  /\ UNCHANGED <<card, inbox, queued, cut, due, cuts>>

\* A turn ends.  One that the pending restart told to end (a marker of the
\* context hook says so) is due to be picked up afterwards (_drain_cut).
Result(s) ==
  /\ Process(s)
  /\ state[s] = "working"
  /\ state' = [state EXCEPT ![s] = "waiting"]
  /\ \/ UNCHANGED <<cut, due, cuts>>
     \/ /\ drain /\ cut[s] # "drain"
        /\ cut' = [cut EXCEPT ![s] = "drain"]
        /\ due' = due \cup {s}
        /\ cuts' = [cuts EXCEPT ![s] = @ + 1]
  /\ UNCHANGED <<card, inbox, queued, tasks>>

\* The process ends: its stdin was closed, or by itself.
Exit(s) ==
  /\ Up /\ Live(s)
  /\ \/ leaving[s] # "no" /\ UNCHANGED deaths
     \/ leaving[s] = "no" /\ deaths < MaxDeaths /\ deaths' = deaths + 1
  /\ alive' = alive \ {<<s, proc[s]>>}
  /\ UNCHANGED <<state, proc, procs, leaving, card, inbox, queued, tasks, dueVars, drain,
                 host, at, relVars, log, cuts, stops, drains>>

\* One that its host did not outlive.
OrphanEnds(s) ==
  /\ \E n \in 1..procs : n # proc[s] /\ <<s, n>> \in alive /\ alive' = alive \ {<<s, n>>}
  /\ UNCHANGED <<state, proc, procs, leaving, card, inbox, queued, tasks, dueVars, drain,
                 host, at, relVars, log, cuts, budgets>>

\* _on_exit, on the reader's thread; nothing once another process is there.
OnExit(s) ==
  /\ Up /\ proc[s] # 0 /\ ~Live(s)
  /\ proc' = [proc EXCEPT ![s] = 0]
  /\ cut' = [cut EXCEPT ![s] =
       IF @ = "none" /\ leaving[s] = "no" /\ Work(s) THEN "exit" ELSE @]
  /\ card' = [card EXCEPT ![s] = 0]
  /\ inbox' = [inbox EXCEPT ![s] = <<>>]
  /\ queued' = [queued EXCEPT ![s] = 0]
  /\ tasks' = tasks \ {s}
  /\ state' = [state EXCEPT ![s] = IF leaving[s] = "closing" THEN "closed"
                                   ELSE IF leaving[s] = "parking" THEN "parked" ELSE "ended"]
  /\ UNCHANGED <<alive, procs, leaving, held, due, drain, host, at, relVars, log, cuts, budgets>>

-----------------------------------------------------------------------------
(* answer, close, park, and the idle tick *)

Operation ==
  /\ Up
  /\ UNCHANGED <<proc, alive, procs, inbox, queued, tasks, dueVars, drain, host, at, relVars,
                 log, cuts, budgets>>

\* Written to the session's process, which must still take input.
Answer(s) ==
  /\ Operation
  /\ card[s] # 0 /\ Running(s)
  /\ card' = [card EXCEPT ![s] = 0]
  /\ state' = [state EXCEPT ![s] = IF @ = "approval" THEN "working" ELSE @]
  /\ UNCHANGED leaving

\* By hand: only a card protects a live session.
Park(s) ==
  /\ Operation
  /\ s \in MayPark /\ Live(s) /\ card[s] = 0
  /\ leaving' = [leaving EXCEPT ![s] = IF @ = "closing" THEN @ ELSE "parking"]
  /\ UNCHANGED <<state, card>>

Close(s) ==
  /\ Operation
  /\ s \in MayPark
  /\ IF Live(s)
     THEN leaving' = [leaving EXCEPT ![s] = "closing"] /\ UNCHANGED state
     ELSE state' = [state EXCEPT ![s] = "closed"] /\ UNCHANGED leaving
  /\ UNCHANGED card

\* park_idle: idle past MEDIA_SESSIOND_IDLE, which time is not in the model.
ParkIdle(s) ==
  /\ Operation
  /\ Running(s) /\ Idle(s)
  /\ leaving' = [leaving EXCEPT ![s] = "parking"]
  /\ UNCHANGED <<state, card>>

-----------------------------------------------------------------------------
(* The pending restart, the stop, a crash and the next start *)

\* The record of a pending restart comes and goes on disk.
DrainChanges ==
  /\ Up
  /\ drain' = ~drain
  /\ drains' = IF drain THEN drains ELSE drains + 1
  /\ drains' <= MaxDrains
  /\ UNCHANGED <<procVars, dueVars, host, at, relVars, log, cuts, deaths, stops>>

\* What the stop cuts off is noted first (begin_stop).
Noted ==
  /\ cut' = [s \in Sessions |->
       IF Live(s) /\ cut[s] \in {"none", "drain"} /\ Work(s) THEN "restart" ELSE cut[s]]
  /\ due' = {s \in due : cut'[s] = cut[s]}
  /\ UNCHANGED <<state, proc, alive, procs, card, inbox, queued, tasks, held, drain, at,
                 relVars, log, cuts, deaths, drains>>

BeginStop ==
  /\ host = "up" /\ stops < MaxStops
  /\ stops' = stops + 1
  /\ host' = "stopping"
  /\ Noted
  /\ UNCHANGED leaving

\* shutdown: noted again, and every live session parked.
Shutdown ==
  /\ host = "stopping"
  /\ host' = "parking"
  /\ Noted
  /\ leaving' = [s \in Sessions |->
       IF Live(s) /\ leaving[s] = "no" THEN "parking" ELSE leaving[s]]
  /\ UNCHANGED stops

\* load: the sessions a record left live says were at work.  It is saved with
\* a change of state, so the tasks of a waiting one may be stale.
LeftAtWork(stale) ==
  {s \in Sessions : /\ state[s] \in LiveStates /\ cut[s] = "none"
                    /\ IF state[s] = "waiting" THEN s \in stale ELSE TRUE}

\* Only the records are left of a host that is gone.
Halt ==
  /\ host' = "down"
  /\ proc' = [s \in Sessions |-> 0]
  /\ leaving' = [s \in Sessions |-> "no"]
  /\ card' = [s \in Sessions |-> 0]
  /\ inbox' = [s \in Sessions |-> <<>>]
  /\ queued' = [s \in Sessions |-> 0]
  /\ tasks' = {}
  /\ state' = [s \in Sessions |-> IF state[s] \in LiveStates THEN "ended" ELSE state[s]]
  /\ \E stale \in SUBSET Sessions :
       cut' = [s \in Sessions |-> IF s \in LeftAtWork(stale) THEN "crash" ELSE cut[s]]
  /\ at' = [t \in DOMAIN at |-> IF t = Release THEN "idle"
                                ELSE IF at[t] \in {"sending", "awaiting"} THEN "refused" ELSE at[t]]
  /\ todo' = {} /\ rel' = <<NoSession, Note, "none">>
  /\ UNCHANGED <<procs, held, due, drain, log, cuts, deaths, drains>>

\* The parked processes are gone; one started meanwhile goes with the host.
Stopped ==
  /\ host = "parking"
  /\ \A s \in Sessions : Live(s) => leaving[s] = "no"
  /\ Halt
  /\ alive' = {}
  /\ UNCHANGED stops

\* The host dies; its children are told to end by the next start (_kill_orphans).
Crash ==
  /\ MayCrash /\ Up /\ stops < MaxStops
  /\ stops' = stops + 1
  /\ Halt
  /\ alive' = IF Linger THEN alive ELSE {}

\* load and _judge_cut_off: what the stop or the crash cut off is due, and so
\* is what ended by itself within a minute of the stop.
Load ==
  /\ host = "down"
  /\ host' = "up"
  /\ \E raced \in SUBSET {s \in Sessions : cut[s] = "exit"} :
       /\ due' = due \cup raced \cup {s \in Sessions : cut[s] \in {"restart", "crash"}}
       /\ cut' = [s \in Sessions |-> IF s \in due' THEN cut[s] ELSE "none"]
       /\ cuts' = [s \in Sessions |-> IF s \in due' \ due THEN cuts[s] + 1 ELSE cuts[s]]
  /\ drain' \in {drain, FALSE}
  /\ UNCHANGED <<procVars, held, at, relVars, log, budgets>>

-----------------------------------------------------------------------------
Thread(t) == Send(t) \/ Gone(t) \/ StillThere(t)
Delivery == Round \/ (\E s \in Sessions : Take(s)) \/ NoteSent \/ Peek \/ Pop
Agent(s) ==
  \/ Queues(s) \/ Turn(s) \/ Ask(s) \/ TaskStarts(s) \/ TaskEnds(s) \/ Result(s)
  \/ Exit(s) \/ OrphanEnds(s) \/ OnExit(s)

Next ==
  \/ \E m \in Msgs : Hold(m) \/ NotDraining(m)
  \/ \E t \in Msgs \cup {Release} : Thread(t)
  \/ Delivery
  \/ \E s \in Sessions : Agent(s) \/ Answer(s) \/ Park(s) \/ Close(s) \/ ParkIdle(s)
  \/ DrainChanges \/ BeginStop \/ Shutdown \/ Stopped \/ Crash \/ Load

Spec == Init /\ [][Next]_vars

\* The threads, the processes and the start each go on; nobody need answer a
\* card, and a stopping process does end (the grace period, then signals).
Fairness ==
  /\ \A m \in Msgs : WF_vars(Hold(m)) /\ WF_vars(NotDraining(m))
  /\ \A t \in Msgs \cup {Release} : WF_vars(Thread(t))
  /\ WF_vars(Delivery)
  /\ \A s \in Sessions :
       WF_vars(Turn(s)) /\ WF_vars(Exit(s) /\ leaving[s] # "no") /\ WF_vars(OnExit(s))
  /\ WF_vars(Shutdown) /\ WF_vars(Stopped) /\ WF_vars(Load)

FairSpec == Spec /\ Fairness

-----------------------------------------------------------------------------
(* Properties *)

ProcTypes ==
  /\ state \in [Sessions -> LiveStates \cup {"parked", "closed", "ended"}]
  /\ proc \in [Sessions -> 0..procs] /\ procs \in Nat
  /\ alive \subseteq Sessions \X (1..procs)
  /\ leaving \in [Sessions -> {"no", "parking", "closing"}]
  /\ card \in [Sessions -> 0..procs]
  /\ inbox \in [Sessions -> Seq(Msgs \cup {Note})]
  /\ queued \in [Sessions -> Nat]
  /\ tasks \subseteq Sessions

Cuts == {"none", "drain", "exit", "restart", "crash"}

DueTypes ==
  /\ held \in [Sessions -> Seq(Msgs)]
  /\ cut \in [Sessions -> Cuts]
  /\ due \subseteq {s \in Sessions : cut[s] # "none"}

ThreadTypes ==
  /\ at \in [Msgs \cup {Release} -> {"new", "held", "sending", "awaiting", "sent", "refused",
                                    "idle", "peeking", "dropped"}]
  /\ todo \subseteq Sessions
  /\ rel \in (Sessions \cup {NoSession}) \X (Msgs \cup {Note}) \X Cuts

HistoryTypes ==
  /\ log \in [Sessions -> Seq(Msgs \cup {Note})]
  /\ cuts \in [Sessions -> Nat]

HostTypes ==
  /\ drain \in BOOLEAN /\ host \in {"up", "stopping", "parking", "down"}
  /\ deaths \in 0..MaxDeaths /\ stops \in 0..MaxStops /\ drains \in 0..MaxDrains

TypeOK == ProcTypes /\ DueTypes /\ ThreadTypes /\ HistoryTypes /\ HostTypes

\* What is written to a session goes to a process that is to stay and that is
\* the only one it has, whoever parks, closes, wakes or stops it meanwhile
\* (_await_exit: "two writers on one session").
SoleReader ==
  [][\A s \in Sessions : log'[s] # log[s] =>
       Running(s)' /\ \A n \in 1..procs' : <<s, n>> \in alive' => n = proc'[s]]_vars

\* A message held for a restart is kept until it is written, and the ones
\* behind it are not written first, through stops, crashes and refusals; it is
\* lost only to a process that ends as it is written.
HeldKept ==
  /\ \A m \in Msgs : at[m] = "held" => m \in ToSet(held[To[m]]) \cup ToSet(log[To[m]])
  /\ \A s \in Sessions : \A i \in 2..Len(held[s]) : held[s][i] \notin ToSet(log[s])

\* A session is told to pick up what a restart cut off at most once for each
\* time it was cut off ("never resumed twice").
ResumedOnce ==
  \A s \in Sessions : Cardinality({i \in DOMAIN log[s] : log[s][i] = Note}) <= cuts[s]

\* A card is one its session's present process put up: what somebody answers
\* is asked by the process that gets the answer.
CardOfItsProcess == \A s \in Sessions : card[s] \in {0, proc[s]}

Blocked(s) == host # "up" \/ drain \/ card[s] # 0 \/ NoRoom(s)

\* A held message goes out once no restart is pending and the session can take
\* it: no card up, and room for its process.
HeldGoesOut ==
  \A m \in Msgs : <>[]~Blocked(To[m]) =>
    (at[m] = "held" ~> (m \in ToSet(log[To[m]]) \/ at[m] = "dropped"))
=============================================================================
