---------------------------- MODULE SpeechFrames ----------------------------
(***************************************************************************)
(* The phone's player as frames:                                           *)
(* packages/server/src/agent_media_server/speech_frames.py, and the part   *)
(* of session_events.py that sends the frames down the phone's stream.     *)
(*                                                                         *)
(* What a caller does to the player is applied to a model of it here and   *)
(* sent to the phone as a numbered frame; what a caller reads is the       *)
(* model's.  The phone reports what its player does and the last frame it  *)
(* has applied.  A step is what a thread does under the hub's lock, or one *)
(* thing that happens on the phone.                                        *)
(*                                                                         *)
(* One device, one channel.  A list of clips is how many there are.  How   *)
(* the phone applies a frame is not in this repository: it is taken to do  *)
(* what Model.apply does.                                                  *)
(***************************************************************************)
EXTENDS Integers, FiniteSets, Sequences

CONSTANTS
  Clips,       \* clips a reply starts with
  Jumps,       \* clips a caller jumps to
  MaxFrames,   \* bound on the frames of one run of the server
  MaxClips,    \* bound on the clips of a reply
  MaxReports,  \* bound on the reports under way
  MaxStreams,  \* bound on the streams opened
  MaxBreaks,   \* bound on streams broken and apps ended
  MaxRuns      \* bound on the server's runs

ASSUME FramesAssumption ==
  /\ Clips \in Nat \ {0} /\ Jumps \subseteq Nat
  /\ {MaxFrames, MaxClips, MaxReports, MaxStreams, MaxBreaks, MaxRuns} \subseteq Nat

VARIABLES
  model,    \* Hub.model: clips, clips cut from them, index, idle
  seq,      \* Hub.seq
  moved,    \* Hub.seq_moved
  frames,   \* Hub.frames
  late,     \* frames up to this number were sent LOST_S ago
  stale,    \* and up to this one REPLAY_S ago
  opening,  \* the cursor of a stream not yet registered, or -1
  streams,  \* Hub.listeners: token and cursor of each
  own,      \* the stream the phone listens to, or 0
  wire,     \* frames on their way to it
  player,   \* the phone's player
  applied,  \* the last frame it applied, 0 for none
  reports,  \* reports under way
  knows,    \* history: the frames applied by the app that runs
  since,    \* history: where its first stream began
  run, opens, breaks

hubVars == <<model, seq, moved, frames, late, stale>>
streamVars == <<opening, streams, own, wire>>
phoneVars == <<player, applied, knows, since>>
budgets == <<run, opens, breaks>>
vars == <<hubVars, streamVars, phoneVars, reports, budgets>>

-----------------------------------------------------------------------------
Silent == [n |-> 0, cut |-> 0, pos |-> -1, idle |-> TRUE]

\* Mutant: every run numbers its frames alike.
SameBase(r) == MaxFrames + 1

\* A run numbers its frames from the clock: past every earlier run's.
Base(r) == r * (MaxFrames + 1)

Init ==
  /\ model = Silent
  /\ seq = Base(1) /\ moved = Base(1) /\ frames = {} /\ late = Base(1) /\ stale = Base(1)
  /\ opening = -1 /\ streams = {} /\ own = 0 /\ wire = <<>>
  /\ player = Silent /\ applied = 0
  /\ reports = {} /\ knows = {} /\ since = 0
  /\ run = 1 /\ opens = 0 /\ breaks = 0

-----------------------------------------------------------------------------
(* Callers: _Client.handle, Model.apply, _send *)

Play == [do |-> "play", at |-> 0]       \* a reply's claim, with its first clips
Add == [do |-> "add", at |-> 0]         \* loadfile, append
Jump(i) == [do |-> "jump", at |-> i]    \* playlist-pos
Stop == [do |-> "stop", at |-> 0]

Ops == {Play, Add, Stop} \cup {Jump(i) : i \in Jumps}

\* Mutant: what is appended is not added to the clips kept aside.
CutForgets(m, op) ==
  CASE op.do = "play" -> [n |-> Clips, cut |-> 0, pos |-> 0, idle |-> FALSE]
    [] op.do = "add"  -> [m EXCEPT !.n = @ + 1]
    [] op.do = "jump" -> IF op.at < m.n THEN [m EXCEPT !.pos = op.at, !.idle = FALSE] ELSE m
    [] op.do = "stop" -> Silent

Apply(m, op) ==
  CASE op.do = "play" -> [n |-> Clips, cut |-> 0, pos |-> 0, idle |-> FALSE]
    [] op.do = "add"  -> [m EXCEPT !.n = @ + 1, !.cut = IF @ = 0 THEN 0 ELSE @ + 1]
    [] op.do = "jump" -> IF op.at < m.n THEN [m EXCEPT !.pos = op.at, !.idle = FALSE] ELSE m
    [] op.do = "stop" -> Silent

\* inert: neither where the player is nor whether it plays.
Inert(op) == op.do = "add"

Send(op) ==
  /\ seq < Base(run) + MaxFrames
  /\ op.do = "add" => model.n < MaxClips
  /\ model' = Apply(model, op)
  /\ seq' = seq + 1
  /\ moved' = IF Inert(op) THEN moved ELSE seq + 1
  /\ frames' = frames \cup {[seq |-> seq + 1, op |-> op]}
  /\ UNCHANGED <<late, stale, streamVars, phoneVars, reports, budgets>>

-----------------------------------------------------------------------------
(* session_events.serve: the phone's streams *)

\* Mutant: a stream starts at now, whatever the phone has applied.
FromNow == seq

\* It starts at now, or after the last frame the phone says it applied.
Cursor == IF 0 < applied /\ applied < seq THEN applied ELSE seq

\* The cursor is read before the stream is registered.  (The phone does not
\* give a stream up before it has its answer.)
Open ==
  /\ own = 0 /\ opening = -1
  /\ opens < MaxStreams /\ opens' = opens + 1
  /\ opening' = Cursor
  /\ since' = IF applied = 0 THEN seq ELSE since
  /\ UNCHANGED <<hubVars, streams, own, wire, player, applied, knows, reports, run, breaks>>

\* listening: tokens only go up.
Register ==
  /\ opening # -1
  /\ streams' = streams \cup {[tok |-> opens, cur |-> opening]}
  /\ own' = opens
  /\ opening' = -1
  /\ UNCHANGED <<hubVars, wire, phoneVars, reports, budgets>>

\* frames_after: not those too old to mean anything.
After(s) == {f \in frames : f.seq > s.cur /\ f.seq > stale}

\* playing_stream: the one opened last.
Playing(s) == \A o \in streams : o.tok <= s.tok

\* The stream's thread sends the next frame, or passes it by if it does not
\* play; a stream nobody reads takes it all the same.
Write(s) ==
  /\ After(s) # {}
  /\ LET f == CHOOSE g \in After(s) : \A h \in After(s) : g.seq <= h.seq
     IN /\ streams' = (streams \ {s}) \cup {[s EXCEPT !.cur = f.seq]}
        /\ wire' = IF Playing(s) /\ own = s.tok THEN Append(wire, f) ELSE wire
  /\ UNCHANGED <<hubVars, opening, own, phoneVars, reports, budgets>>

\* A write to a stream that is gone fails at last.
Unregister(s) ==
  /\ own # s.tok
  /\ streams' = streams \ {s}
  /\ UNCHANGED <<hubVars, opening, own, wire, phoneVars, reports, budgets>>

\* A stream breaks, which its thread need not notice.
Break ==
  /\ own # 0
  /\ breaks < MaxBreaks /\ breaks' = breaks + 1
  /\ own' = 0 /\ wire' = <<>>
  /\ UNCHANGED <<hubVars, opening, streams, phoneVars, reports, run, opens>>

-----------------------------------------------------------------------------
(* The phone *)

Receive ==
  /\ wire # <<>>
  /\ player' = Apply(player, Head(wire).op)
  /\ applied' = Head(wire).seq
  /\ knows' = knows \cup {<<run, applied'>>}
  /\ wire' = Tail(wire)
  /\ UNCHANGED <<hubVars, opening, streams, own, since, reports, budgets>>

\* A clip ends: the next one, or the end.
PlaysOn ==
  /\ ~player.idle
  /\ player' = IF player.pos + 1 < player.n THEN [player EXCEPT !.pos = @ + 1]
               ELSE [player EXCEPT !.idle = TRUE]
  /\ UNCHANGED <<hubVars, streamVars, applied, knows, since, reports, budgets>>

\* The app ends and is started again: silent, no frame applied.
AppEnds ==
  /\ opening = -1
  /\ breaks < MaxBreaks /\ breaks' = breaks + 1
  /\ player' = Silent /\ applied' = 0 /\ knows' = {}
  /\ own' = 0 /\ wire' = <<>>
  /\ UNCHANGED <<hubVars, opening, streams, since, reports, run, opens>>

\* A report sets out; it may overtake an earlier one.
Tell ==
  /\ Cardinality(reports) < MaxReports
  /\ reports' = reports \cup
       {[seq |-> applied, n |-> player.n, pos |-> player.pos, idle |-> player.idle, knew |-> knows]}
  /\ reports' # reports
  /\ UNCHANGED <<hubVars, streamVars, phoneVars, budgets>>

-----------------------------------------------------------------------------
(* report *)

\* Mutant: a frame is never given up for lost.
NeverLost(got) == FALSE

\* _lost: the first frame it is behind was sent LOST_S ago, or is not kept.
Lost(got) ==
  LET behind == {f \in frames : f.seq > got}
  IN behind = {} \/ \E f \in behind : f.seq <= late

\* The clips a shorter count cuts off are kept aside, and put back when the
\* phone counts them after all.
Counted(m, count) ==
  IF count < m.n THEN [m EXCEPT !.n = count, !.cut = IF m.n > @ THEN m.n ELSE @]
  ELSE IF count > m.n /\ m.cut > 0
  THEN [m EXCEPT !.n = IF count < m.cut THEN count ELSE m.cut,
                 !.cut = IF count >= @ THEN 0 ELSE @]
  ELSE m

\* The word of a phone that has applied every frame.
Word(m, r) ==
  [Counted(m, IF r.pos + 1 > r.n THEN r.pos + 1 ELSE r.n) EXCEPT !.pos = r.pos, !.idle = r.idle]

\* And of one that has applied every one but appends: where it plays.
Where(m, r) == IF r.pos \in 0..(m.n - 1) THEN [m EXCEPT !.pos = r.pos] ELSE m

Said(r) ==
  IF r.seq >= seq \/ Lost(r.seq) THEN Word(model, r)
  ELSE IF r.seq >= moved THEN Where(model, r)
  ELSE model

\* Refused while the phone has no stream.
Report(r) ==
  /\ reports' = reports \ {r}
  /\ model' = IF streams = {} THEN model ELSE Said(r)
  /\ UNCHANGED <<seq, moved, frames, late, stale, streamVars, phoneVars, budgets>>

-----------------------------------------------------------------------------
(* Time, and the server's restart *)

GrowsLate ==
  /\ late < seq /\ late' = late + 1
  /\ UNCHANGED <<model, seq, moved, frames, stale, streamVars, phoneVars, reports, budgets>>

GrowsStale ==
  /\ stale < late /\ stale' = stale + 1
  /\ UNCHANGED <<model, seq, moved, frames, late, streamVars, phoneVars, reports, budgets>>

Restart ==
  /\ run < MaxRuns /\ run' = run + 1
  /\ model' = Silent /\ frames' = {}
  /\ seq' = Base(run + 1) /\ moved' = seq' /\ late' = seq' /\ stale' = seq'
  /\ opening' = -1 /\ streams' = {} /\ own' = 0 /\ wire' = <<>>
  /\ reports' = {}
  /\ UNCHANGED <<phoneVars, opens, breaks>>

-----------------------------------------------------------------------------
Next ==
  \/ \E op \in Ops : Send(op)
  \/ Open \/ Register \/ Break
  \/ \E s \in streams : Write(s) \/ Unregister(s)
  \/ Receive \/ PlaysOn \/ AppEnds \/ Tell
  \/ \E r \in reports : Report(r)
  \/ GrowsLate \/ GrowsStale \/ Restart

Spec == Init /\ [][Next]_vars

\* The phone applies what reaches it and reports every couple of seconds, a
\* report is handled, and time passes.  Nothing is assumed of the streams.
FairSpec ==
  /\ Spec
  /\ WF_vars(Receive) /\ WF_vars(Tell) /\ WF_vars(\E r \in reports : Report(r))
  /\ WF_vars(GrowsLate)

-----------------------------------------------------------------------------
(* Properties *)

Players == [n : Nat, cut : Nat, pos : Nat \cup {-1}, idle : BOOLEAN]

TypeOK ==
  /\ model \in Players /\ player \in Players
  /\ model.cut = 0 \/ model.n < model.cut
  /\ stale \in Nat /\ late \in Nat /\ seq \in Nat /\ stale <= late /\ late <= seq
  /\ moved \in Base(run)..seq
  /\ {f.seq : f \in frames} = (Base(run) + 1)..seq
  /\ opening \in Nat \cup {-1} /\ own \in Nat
  /\ \A s, t \in streams : s.tok = t.tok => s = t
  /\ wire \in Seq(frames)
  /\ applied \in Nat /\ since \in Nat

\* What moved the player since the app that runs first connected.
Moves == {f \in frames : f.seq > since /\ f.op.do # "add"}

\* Known to whoever made the report, or sent LOST_S ago.
Settled(f, r) == <<run, f.seq>> \in r.knew \/ f.seq <= late

\* A jump just made is not undone by old news: a report changes what the model
\* plays only if the phone had applied every frame that moves the player, or
\* one it is behind was sent LOST_S ago.
OldNewsStays ==
  [][(model' # model /\ seq' = seq) =>
       \A r \in reports \ reports' :
         \/ \A f \in Moves : Settled(f, r)
         \/ \E f \in frames : r.seq < f.seq /\ f.seq <= late]_vars

\* The phone applies every frame, once and in order, through broken streams,
\* streams opened again and restarts, but for those that waited REPLAY_S.
EveryFrameOnce ==
  [][applied' \notin {applied, 0} =>
       /\ applied' > applied
       /\ \A f \in frames : since < f.seq /\ f.seq < applied' =>
            <<run, f.seq>> \in knows \/ f.seq <= stale]_vars

\* Once callers and the app rest, the model comes to say what the phone's
\* player does, whatever was lost on the way.
ComesToAgree ==
  <>[](streams # {}) => <>[](model.pos = player.pos /\ model.idle = player.idle)

\* The module's promise as its documentation has it ("so a jump just made is
\* not undone by old news"): no move just sent is undone by a report that does
\* not know of it.  Not so when the phone is also behind an older frame.
JumpNotUndone ==
  [][(model' # model /\ seq' = seq) =>
       \A r \in reports \ reports' : \A f \in Moves : Settled(f, r)]_vars
=============================================================================
