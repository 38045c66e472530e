----------------------------- MODULE SpeechLock -----------------------------
(***************************************************************************)
(* The playback token of agent-media: class _SpeechPlaybackLock of         *)
(* packages/core/src/agent_media_core/intake/submit.py, with the part of   *)
(* _submit_event that takes, keeps and gives back the token, and the       *)
(* replay command that takes it too.                                       *)
(*                                                                         *)
(* Every reply ("clip") is spoken by a process of its own.  The processes  *)
(* share an exclusive flock (token), a directory with one file per waiter  *)
(* (reg, rank, seq), one supersede marker per session, a hold marker and   *)
(* a flush marker.  Nothing else is shared: every decision is taken from   *)
(* reads of these files that other processes may change in between.        *)
(***************************************************************************)
EXTENDS Naturals, FiniteSets

CONSTANTS
  Clips,        \* the replies and replays that will ever be submitted
  NoClip,       \* the token is free
  Sessions,     \* conversations (panes)
  NoSession,    \* a clip with neither pane nor session id
  SessionOf,    \* the ordering identity of each clip
  BaseRank,     \* the rank its priority gives each clip
  Kind,         \* "reply", "thinking" or "replay"
  Superseders,  \* the clips submitted with supersede=True
  Sentences,    \* sentences of a reply: boundaries at which it may yield
  Playlist,     \* clips on the phone's playlist lane (polled, not per sentence)
  MayPause, MayWedge, MayCrash,  \* the clips these may happen to
  MayHold, MayFlush,             \* whether the listener does this
  MayAge        \* when entries outlive their TTL: "never", "always", or only
                \* in a "hold", with every render quicker than the TTL

LOW == 0
NORMAL == 10
HIGH == 20
URGENT == 30
REPLAY == HIGH - 1
UNREAD == HIGH + 1

ASSUME ClipsAssumption ==
  /\ IsFiniteSet(Clips)
  /\ NoClip \notin Clips
  /\ NoSession \notin Sessions

ASSUME ClipDataAssumption ==
  /\ SessionOf \in [Clips -> Sessions \cup {NoSession}]
  /\ BaseRank \in [Clips -> {LOW, NORMAL, REPLAY, HIGH, UNREAD, URGENT}]
  /\ Kind \in [Clips -> {"reply", "thinking", "replay"}]
  /\ Sentences \in Nat \ {0}
  /\ \A c \in Clips : Kind[c] = "thinking" => BaseRank[c] = LOW
  /\ \A c \in Clips : Kind[c] = "replay" =>
        SessionOf[c] = NoSession /\ BaseRank[c] \in {REPLAY, UNREAD}

ASSUME ChoiceAssumption ==
  /\ Superseders \subseteq Clips /\ Playlist \subseteq Clips
  /\ MayPause \subseteq Clips /\ MayWedge \subseteq Clips
  /\ MayCrash \subseteq Clips
  /\ MayHold \in BOOLEAN /\ MayFlush \in BOOLEAN
  /\ MayAge \in {"never", "always", "hold"}

VARIABLES
  pc,      \* where each clip's process is
  seq,     \* submission stamp of each clip, 0 before it is submitted
  rank,    \* self._rank, published in the waiter entry
  reg,     \* the waiter entry: "none", "pending" (rendering) or "waiting"
  skip,    \* skip_if_busy, the argument of the _take under way
  pos,     \* the sentence the clip is at, 0 before it has been let through
  token,   \* the clip whose open file description holds the flock
  loose,   \* clips that came back from the take without the token
  seen,    \* ranks the scan of _preempting_rank found
  marker,  \* speech-supersede/<session>: drop everything older than this
  prev,    \* the marker as a superseder read it
  clock,   \* the last stamp given out
  floor,   \* pending entries stamped before this have outlived their TTL
  flushed, \* the speech-flush marker
  hold,    \* whether any speech hold is live
  paused,  \* clips whose player the listener has paused
  wedged,  \* clips whose process makes no progress any more
  ahead    \* history: siblings already queued when the clip was submitted

clipVars == <<pc, seq, rank, reg, skip, pos, seen, prev>>
worldVars == <<clock, floor, flushed, hold, paused, wedged>>
vars == <<pc, seq, rank, reg, skip, pos, token, loose, seen, marker, prev,
          clock, floor, flushed, hold, paused, wedged, ahead>>

States == {"idle", "stamped", "render", "gate", "mark", "try", "scan",
           "claim", "sibs", "taken", "cleared", "head", "mind", "play",
           "gap", "aside", "done", "crashed"}

Ranks == 0 .. URGENT

-----------------------------------------------------------------------------
(* The waiter registry *)

\* _same_session: unknown sessions are distinct from every other.
Same(c, d) == SessionOf[c] # NoSession /\ SessionOf[c] = SessionOf[d]

\* A pending entry whose render has outlived MEDIA_SPEECH_PENDING_TTL_S.
Aged(d) == reg[d] = "pending" /\ seq[d] < floor

\* _other_waiters: live entries of others; dead pids and aged ones are out.
Waiters(c) ==
  {d \in Clips \ {c} : reg[d] # "none" /\ pc[d] # "crashed" /\ ~Aged(d)}

\* What the scan leaves in the directory: it unlinks dead pids' entries.
Reaped(r) == [d \in Clips |-> IF pc[d] = "crashed" THEN "none" ELSE r[d]]

\* The ranks _preempting_rank takes the maximum of.
Contenders(c) ==
  {rank[d] : d \in {e \in Waiters(c) : reg[e] = "waiting" /\ ~Same(c, e)}}

\* Mutant: no priority inheritance from the clips queued behind this one.
OwnClaimOnly(c) == {rank[c]}

\* The ranks _claim_rank takes the maximum of: priority inheritance.
Claims(c) ==
  {rank[c]} \cup
  {rank[d] : d \in {e \in Waiters(c) : reg[e] = "waiting" /\ Same(c, e)}}

\* max(contenders) > max(claims), with -1 for no contender.
Outranked(contenders, c) ==
  \E r \in contenders : \A q \in Claims(c) : r > q

\* Mutant: a sibling that still renders keeps no place.
EarlierSiblingRegistered(c) ==
  \E d \in Waiters(c) : reg[d] = "waiting" /\ Same(c, d) /\ seq[d] < seq[c]

EarlierSiblingWaiting(c) ==
  \E d \in Waiters(c) : Same(c, d) /\ seq[d] < seq[c]

IsUrgent(c) == rank[c] >= URGENT

UrgentSiblingWaiting(c) ==
  \E d \in Waiters(c) : reg[d] = "waiting" /\ Same(c, d) /\ IsUrgent(d)

\* should_yield: only a clip that holds the token has one to give.
ShouldYield(c) ==
  /\ token = c
  /\ Outranked(Contenders(c), c) \/ UrgentSiblingWaiting(c)

OtherSessionWaiting(c) ==
  /\ token = c
  /\ \E d \in Waiters(c) : reg[d] = "waiting" /\ ~Same(c, d)

\* Mutant: the marker is looked at by clips that are speaking only.
AbortSpeakingOnly(c) ==
  pos[c] > 0 /\ SessionOf[c] # NoSession /\ marker[SessionOf[c]] > seq[c]

\* should_abort: a later supersede of this session has dropped the clip.
ShouldAbort(c) ==
  SessionOf[c] # NoSession /\ marker[SessionOf[c]] > seq[c]

\* A supersede needs a session and the URGENT rank, else it is ignored.
Supersedes(c) ==
  c \in Superseders /\ SessionOf[c] # NoSession /\ BaseRank[c] = URGENT

\* _thinking_done: disposable speech ends for a hold or any real speech.
ThinkingDone(c) ==
  Kind[c] = "thinking" /\ (hold \/ \E d \in Waiters(c) : rank[d] > LOW)

Queueing == {"try", "scan", "claim", "sibs"}
Speaking(c) == pc[c] \in {"head", "mind", "play"}

\* A holder a waiter gives up on: paused past its grace, or wedged.
Stalled(c) == c \in paused \cup wedged

Goto(c, label) == pc' = [pc EXCEPT ![c] = label]
Register(c, as) == reg' = [reg EXCEPT ![c] = as]

\* Mutant: an entry that nobody takes away.
ForgetEntry(c) == UNCHANGED reg

Unregister(c) == Register(c, "none")

\* Mutants: a way out without its release(), and a release() that frees the
\* lock whoever owns it.
ForgetRelease(c) == UNCHANGED token
FreeForAll(c) == token' = NoClip

\* release(): the flock goes with the open file description, if it has one.
Drop(c) == token' = IF token = c THEN NoClip ELSE token

\* Mutant: one sentence too many.
SentencesLeftAndOne(c) == pos[c] <= Sentences

SentencesLeft(c) == pos[c] < Sentences

-----------------------------------------------------------------------------
(* Submission: _submit_event up to the take *)

Init ==
  /\ pc = [c \in Clips |-> "idle"]
  /\ seq = [c \in Clips |-> 0]
  /\ rank = BaseRank
  /\ reg = [c \in Clips |-> "none"]
  /\ skip = [c \in Clips |-> FALSE]
  /\ pos = [c \in Clips |-> 0]
  /\ token = NoClip
  /\ loose = {}
  /\ seen = [c \in Clips |-> {}]
  /\ marker = [s \in Sessions |-> 0]
  /\ prev = [c \in Clips |-> 0]
  /\ clock = 0 /\ floor = 0 /\ flushed = 0
  /\ hold = FALSE
  /\ paused = {} /\ wedged = {}
  /\ ahead = [c \in Clips |-> {}]

\* started_at = time.time(): the order stamp, taken before the entry exists.
Submit(c) ==
  /\ pc[c] = "idle"
  /\ Kind[c] # "replay"
  /\ clock' = clock + 1
  /\ seq' = [seq EXCEPT ![c] = clock + 1]
  /\ ahead' = [ahead EXCEPT ![c] =
       {d \in Clips : Same(c, d) /\ reg[d] # "none" /\ pos[d] = 0}]
  /\ Goto(c, "stamped")
  /\ UNCHANGED <<rank, reg, skip, pos, token, loose, seen, marker, prev,
                 floor, flushed, hold, paused, wedged>>

\* announce(): a pending entry keeps the place while the clip renders.
Announce(c) ==
  /\ pc[c] = "stamped"
  /\ rank' = [rank EXCEPT ![c] = BaseRank[c]]
  /\ Register(c, "pending")
  /\ Goto(c, "render")
  /\ UNCHANGED <<seq, skip, pos, token, loose, seen, marker, prev, ahead>>
  /\ UNCHANGED worldVars

\* Rendered, and to be played.
Rendered(c) ==
  /\ pc[c] = "render"
  /\ Goto(c, "gate")
  /\ UNCHANGED <<seq, rank, reg, skip, pos, token, loose, seen, marker,
                 prev, ahead>>
  /\ UNCHANGED worldVars

\* release() on a way out: unlock what is held, and take the entry away.
Leave(c) ==
  /\ Drop(c)
  /\ Unregister(c)
  /\ loose' = loose \ {c}
  /\ paused' = paused \ {c}
  /\ Goto(c, "done")
  /\ UNCHANGED <<seq, rank, skip, pos, seen, marker, prev, ahead>>
  /\ UNCHANGED <<clock, floor, flushed, hold, wedged>>

\* Muted, held for the desk, nothing to say, or the render failed.
Silenced(c) == pc[c] = "render" /\ Leave(c)

\* _wait_speech_hold(refresh=_keep_our_place): announced again on entry and
\* every 30 s, with the stamp the clip was submitted with.
KeepPlace(c) ==
  /\ pc[c] = "gate"
  /\ Kind[c] = "reply" /\ hold
  /\ reg[c] = "none"
  /\ rank' = [rank EXCEPT ![c] = BaseRank[c]]
  /\ Register(c, "pending")
  /\ UNCHANGED <<pc, seq, skip, pos, token, loose, seen, marker, prev, ahead>>
  /\ UNCHANGED worldVars

\* acquire() of a clip that supersedes nothing, up to the loop of _take.
Acquire(c) ==
  /\ pc[c] = "gate"
  /\ Kind[c] = "reply" => ~hold
  /\ ~ThinkingDone(c)
  /\ ~Supersedes(c)
  /\ rank' = [rank EXCEPT ![c] = BaseRank[c]]
  /\ skip' = [skip EXCEPT ![c] = BaseRank[c] <= LOW]
  /\ Register(c, "waiting")
  /\ Goto(c, "try")
  /\ UNCHANGED <<seq, pos, token, loose, seen, marker, prev, ahead>>
  /\ UNCHANGED worldVars

\* acquire() of a supersede: _mark_supersede reads the marker ...
AcquireSuperseding(c) ==
  /\ pc[c] = "gate"
  /\ ~hold
  /\ Supersedes(c)
  /\ rank' = [rank EXCEPT ![c] = BaseRank[c]]
  /\ prev' = [prev EXCEPT ![c] = marker[SessionOf[c]]]
  /\ Goto(c, "mark")
  /\ UNCHANGED <<seq, reg, skip, pos, token, loose, seen, marker, ahead>>
  /\ UNCHANGED worldVars

\* ... and writes the later of it and its own stamp; _take registers.
MarkSupersede(c) ==
  /\ pc[c] = "mark"
  /\ marker' = [marker EXCEPT ![SessionOf[c]] =
       IF prev[c] > seq[c] THEN prev[c] ELSE seq[c]]
  /\ Register(c, "waiting")
  /\ Goto(c, "try")
  /\ UNCHANGED <<seq, rank, skip, pos, token, loose, seen, prev, ahead>>
  /\ UNCHANGED worldVars

\* take_within: a replay stamps itself and asks for the token at once.
AskReplay(c) ==
  /\ pc[c] = "idle"
  /\ Kind[c] = "replay"
  /\ clock' = clock + 1
  /\ seq' = [seq EXCEPT ![c] = clock + 1]
  /\ Register(c, "waiting")
  /\ Goto(c, "try")
  /\ UNCHANGED <<rank, skip, pos, token, loose, seen, marker, prev, ahead,
                 floor, flushed, hold, paused, wedged>>

-----------------------------------------------------------------------------
(* The loop of _take and of take_within *)

\* acquire(), take_within() or a re-take returns: the entry is gone.  A
\* first take goes on to the checkpoints, a re-take straight to its sentence.
Return(c, entries) ==
  /\ reg' = [entries EXCEPT ![c] = "none"]
  /\ seen' = [seen EXCEPT ![c] = {}]
  /\ Goto(c, IF pos[c] = 0 THEN "taken" ELSE "play")

\* The take returned with self._fd None: the clip goes on unserialized.
ReturnLoose(c, entries) ==
  /\ Return(c, entries)
  /\ loose' = loose \cup {c}
  /\ Drop(c)

\* LOCK_EX | LOCK_NB on a free token.
Lock(c) ==
  /\ pc[c] = "try"
  /\ token = NoClip
  /\ token' = c
  /\ Goto(c, "scan")
  /\ UNCHANGED <<seq, rank, reg, skip, pos, loose, seen, marker, prev, ahead>>
  /\ UNCHANGED worldVars

\* Busy, and a LOW clip does not queue.
SkipBusy(c) ==
  /\ pc[c] = "try"
  /\ token # NoClip
  /\ skip[c]
  /\ ReturnLoose(c, reg)
  /\ UNCHANGED <<seq, rank, skip, pos, marker, prev, ahead>>
  /\ UNCHANGED worldVars

\* Busy, and the holder has not moved on to another sentence for the whole
\* timeout (and, paused, for the one extra window): go on without the token.
GiveUpBusy(c) ==
  /\ pc[c] = "try"
  /\ Kind[c] # "replay"
  /\ token \in Clips
  /\ ~skip[c]
  /\ Stalled(token)
  /\ ReturnLoose(c, reg)
  /\ UNCHANGED <<seq, rank, skip, pos, marker, prev, ahead>>
  /\ UNCHANGED worldVars

\* take_within's deadline, looked at when an attempt has failed.
GiveUpReplay(c) ==
  /\ pc[c] = "try"
  /\ Kind[c] = "replay"
  /\ token # NoClip \/ Outranked(Contenders(c), c)
  /\ ReturnLoose(c, reg)
  /\ UNCHANGED <<seq, rank, skip, pos, marker, prev, ahead>>
  /\ UNCHANGED worldVars

\* _preempting_rank: the first read of the registry with the token in hand.
ReadContenders(c) ==
  /\ pc[c] = "scan"
  /\ seen' = [seen EXCEPT ![c] = Contenders(c)]
  /\ reg' = Reaped(reg)
  /\ Goto(c, "claim")
  /\ UNCHANGED <<seq, rank, skip, pos, token, loose, marker, prev, ahead>>
  /\ UNCHANGED worldVars

\* Someone goes first: hand the token back and try again.  A LOW clip leaves
\* instead.  When whoever it stands aside for has not moved for the whole
\* timeout, it keeps the token it holds.
Defer(c) ==
  \/ /\ ~skip[c]
     /\ token' = NoClip
     /\ reg' = Reaped(reg)
     /\ seen' = [seen EXCEPT ![c] = {}]
     /\ Goto(c, "try")
     /\ UNCHANGED loose
  \/ /\ skip[c]
     /\ ReturnLoose(c, Reaped(reg))
  \/ /\ ~skip[c] /\ Kind[c] # "replay"
     /\ \E d \in Waiters(c) : d \in wedged
     /\ Return(c, Reaped(reg))
     /\ UNCHANGED <<token, loose>>

\* _claim_rank, the second read.  A replay stops at this comparison.
ReadClaim(c) ==
  /\ pc[c] = "claim"
  /\ \/ Outranked(seen[c], c) /\ Defer(c)
     \/ /\ ~Outranked(seen[c], c)
        /\ IsUrgent(c) \/ Kind[c] = "replay"
        /\ Return(c, Reaped(reg))
        /\ UNCHANGED <<token, loose>>
     \/ /\ ~Outranked(seen[c], c)
        /\ ~IsUrgent(c) /\ Kind[c] # "replay"
        /\ reg' = Reaped(reg)
        /\ seen' = [seen EXCEPT ![c] = {}]
        /\ Goto(c, "sibs")
        /\ UNCHANGED <<token, loose>>
  /\ UNCHANGED <<seq, rank, skip, pos, marker, prev, ahead>>
  /\ UNCHANGED worldVars

\* Mutant: only an urgent sibling goes first.
UrgentSiblingFirst(c) == UrgentSiblingWaiting(c)

\* _urgent_sibling_waiting or _earlier_sibling_waiting, the last reads.
SiblingFirst(c) == UrgentSiblingWaiting(c) \/ EarlierSiblingWaiting(c)

ReadSiblings(c) ==
  /\ pc[c] = "sibs"
  /\ \/ SiblingFirst(c) /\ Defer(c)
     \/ /\ ~SiblingFirst(c)
        /\ Return(c, Reaped(reg))
        /\ UNCHANGED <<token, loose>>
  /\ UNCHANGED <<seq, rank, skip, pos, marker, prev, ahead>>
  /\ UNCHANGED worldVars

-----------------------------------------------------------------------------
(* From the take to the first sentence *)

\* Dropped before it was heard: superseded, or thinking no longer wanted.
Abandon(c) ==
  /\ \/ /\ pc[c] = "taken" /\ Kind[c] # "replay"
        /\ \/ ShouldAbort(c)
           \/ ThinkingDone(c)
           \/ Kind[c] = "thinking" /\ c \in loose
     \/ pc[c] = "gate" /\ ThinkingDone(c)
  /\ Leave(c)

\* A hold landed between the wait and the take: give the token back and wait.
HoldLanded(c) ==
  /\ pc[c] = "taken"
  /\ Kind[c] = "reply"
  /\ ~ShouldAbort(c)
  /\ hold
  /\ Drop(c)
  /\ Unregister(c)
  /\ loose' = loose \ {c}
  /\ Goto(c, "gate")
  /\ UNCHANGED <<seq, rank, skip, pos, seen, marker, prev, ahead>>
  /\ UNCHANGED worldVars

Cleared(c) ==
  /\ pc[c] = "taken"
  /\ Kind[c] # "replay"
  /\ ~ShouldAbort(c) /\ ~ThinkingDone(c) /\ ~hold
  /\ ~(Kind[c] = "thinking" /\ c \in loose)
  /\ Goto(c, "cleared")
  /\ UNCHANGED <<seq, rank, reg, skip, pos, token, loose, seen, marker,
                 prev, ahead>>
  /\ UNCHANGED worldVars

\* Flushed, cut, or nobody is looking at the thread any more.
DropQueued(c) ==
  /\ pc[c] = "cleared"
  /\ flushed > seq[c] \/ Kind[c] = "reply"
  /\ Leave(c)

\* The reply claims the player and goes to the head of its sentence loop.
Start(c) ==
  /\ pc[c] = "cleared"
  /\ flushed <= seq[c]
  /\ pos' = [pos EXCEPT ![c] = 1]
  /\ Goto(c, "head")
  /\ UNCHANGED <<seq, rank, reg, skip, token, loose, seen, marker, prev,
                 ahead>>
  /\ UNCHANGED worldVars

\* The replay pushes its clips and hands the descriptor to its follower:
\* handed_off closes this copy WITHOUT unlocking, adopt takes the other.
HandOff(c) ==
  /\ pc[c] = "taken"
  /\ Kind[c] = "replay"
  /\ pos' = [pos EXCEPT ![c] = 1]
  /\ Goto(c, "play")
  /\ UNCHANGED <<seq, rank, reg, skip, token, loose, seen, marker, prev,
                 ahead>>
  /\ UNCHANGED worldVars

\* The push failed: the command releases the token itself.
PushFailed(c) == pc[c] = "taken" /\ Kind[c] = "replay" /\ Leave(c)

-----------------------------------------------------------------------------
(* Speaking *)

\* Head of the sentence loop: superseded, cut by the listener, or thinking
\* that should end.
DropSpeaking(c) ==
  /\ pc[c] = "head"
  /\ Kind[c] # "thinking" \/ ThinkingDone(c)
  /\ Leave(c)

Continue(c) ==
  /\ pc[c] = "head"
  /\ ~ShouldAbort(c) /\ ~ThinkingDone(c)
  /\ Goto(c, "mind")
  /\ UNCHANGED <<seq, rank, reg, skip, pos, token, loose, seen, marker,
                 prev, ahead>>
  /\ UNCHANGED worldVars

\* yield_to_higher: unlock and close; not a waiter until the grace is over.
YieldToHigher(c) ==
  /\ pc[c] = "mind"
  /\ Kind[c] = "reply"
  /\ ShouldYield(c)
  /\ token' = NoClip
  /\ reg' = Reaped(reg)
  /\ Goto(c, "gap")
  /\ UNCHANGED <<seq, rank, skip, pos, loose, seen, marker, prev, ahead>>
  /\ UNCHANGED worldVars

\* A thinking read-out and a replay are not resumed: they end.
EndInstead(c) ==
  /\ pc[c] = "mind"
  /\ Kind[c] # "reply"
  /\ ShouldYield(c)
  /\ Leave(c)

PlaySentence(c) ==
  /\ pc[c] = "mind"
  /\ ~ShouldYield(c)
  /\ reg' = Reaped(reg)
  /\ Goto(c, "play")
  /\ UNCHANGED <<seq, rank, skip, pos, token, loose, seen, marker, prev,
                 ahead>>
  /\ UNCHANGED worldVars

\* The sentence has been heard out; the last one ends the reply.
SentenceEnds(c) ==
  /\ pc[c] = "play"
  /\ c \notin paused
  /\ SentencesLeft(c)
  /\ pos' = [pos EXCEPT ![c] = @ + 1]
  /\ Goto(c, "head")
  /\ UNCHANGED <<seq, rank, reg, skip, token, loose, seen, marker, prev,
                 ahead>>
  /\ UNCHANGED worldVars

Finish(c) ==
  /\ pc[c] = "play"
  /\ c \notin paused
  /\ ~SentencesLeft(c)
  /\ Leave(c)

\* On the playlist lane the follow loop also looks in the middle of a
\* sentence, and when it has yielded it comes back to the same one.
Tick(c) ==
  /\ pc[c] = "play"
  /\ c \in Playlist
  /\ Goto(c, "head")
  /\ UNCHANGED <<seq, rank, reg, skip, pos, token, loose, seen, marker,
                 prev, ahead>>
  /\ UNCHANGED worldVars

\* step_aside: paused past MEDIA_SPEECH_PAUSED_HOLD_S with another session
\* waiting.  Unlocks, and watches the lock without being a waiter.
StepAside(c) ==
  /\ pc[c] = "mind"
  /\ c \in Playlist \cap paused
  /\ Kind[c] = "reply"
  /\ OtherSessionWaiting(c)
  /\ token' = NoClip
  /\ reg' = Reaped(reg)
  /\ Goto(c, "aside")
  /\ UNCHANGED <<seq, rank, skip, pos, loose, seen, marker, prev, ahead>>
  /\ UNCHANGED worldVars

\* The re-take after a yield comes back one notch higher, never into HIGH.
Bumped(r) ==
  IF r >= HIGH THEN r ELSE IF r + 1 < HIGH - 1 THEN r + 1 ELSE HIGH - 1

\* The grace is over, or the probe saw the token taken (or gave up waiting
\* for that): register and queue again, this time never skipping.
Retake(c) ==
  /\ pc[c] \in {"gap", "aside"}
  /\ rank' = [rank EXCEPT ![c] = IF pc[c] = "gap" THEN Bumped(@) ELSE @]
  /\ skip' = [skip EXCEPT ![c] = FALSE]
  /\ Register(c, "waiting")
  /\ Goto(c, "try")
  /\ UNCHANGED <<seq, pos, token, loose, seen, marker, prev, ahead>>
  /\ UNCHANGED worldVars

-----------------------------------------------------------------------------
(* The listener, the clock and failures *)

Pause(c) ==
  /\ c \in MayPause \ paused
  /\ pc[c] = "play" /\ c \notin wedged
  /\ paused' = paused \cup {c}
  /\ UNCHANGED clipVars
  /\ UNCHANGED <<token, loose, marker, clock, floor, flushed, hold, wedged,
                 ahead>>

Resume(c) ==
  /\ c \in paused
  /\ paused' = paused \ {c}
  /\ UNCHANGED clipVars
  /\ UNCHANGED <<token, loose, marker, clock, floor, flushed, hold, wedged,
                 ahead>>

\* A render or a player that never comes back: its process stays alive.
Wedge(c) ==
  /\ c \in MayWedge \ wedged
  /\ pc[c] \in {"render", "play"}
  /\ wedged' = wedged \cup {c}
  /\ UNCHANGED clipVars
  /\ UNCHANGED <<token, loose, marker, clock, floor, flushed, hold, paused,
                 ahead>>

\* The process dies: the kernel drops its flock, its waiter entry stays.
Crash(c) ==
  /\ c \in MayCrash
  /\ pc[c] \notin {"idle", "done", "crashed"}
  /\ Drop(c)
  /\ loose' = loose \ {c}
  /\ paused' = paused \ {c}
  /\ wedged' = wedged \ {c}
  /\ Goto(c, "crashed")
  /\ UNCHANGED <<seq, rank, reg, skip, pos, seen, marker, prev, ahead>>
  /\ UNCHANGED <<clock, floor, flushed, hold>>

\* set_speech_hold / release_speech_hold (or the marker's own expiry).
ToggleHold ==
  /\ MayHold
  /\ hold' = ~hold
  /\ UNCHANGED clipVars
  /\ UNCHANGED <<token, loose, marker, clock, floor, flushed, paused, wedged,
                 ahead>>

\* request_speech_flush: everything submitted up to now.
Flush ==
  /\ MayFlush
  /\ flushed' = clock + 1
  /\ flushed' # flushed
  /\ UNCHANGED clipVars
  /\ UNCHANGED <<token, loose, marker, clock, floor, hold, paused, wedged,
                 ahead>>

\* Time passes: the oldest stamp still within the TTL ages out of it.  Two
\* minutes pass while clips render, speak or wait, not between two lines.
Age ==
  /\ MayAge # "never"
  /\ floor <= clock
  /\ \A c \in Clips :
       /\ pc[c] # "stamped"
       /\ pc[c] = "gate" => hold
       /\ MayAge = "hold" => hold /\ pc[c] # "render"
  /\ floor' = floor + 1
  /\ UNCHANGED clipVars
  /\ UNCHANGED <<token, loose, marker, clock, flushed, hold, paused, wedged,
                 ahead>>

-----------------------------------------------------------------------------

Submission(c) ==
  \/ Announce(c) \/ Rendered(c) \/ Silenced(c) \/ KeepPlace(c)
  \/ Acquire(c) \/ AcquireSuperseding(c) \/ MarkSupersede(c)

Take(c) ==
  \/ Lock(c) \/ SkipBusy(c) \/ GiveUpBusy(c) \/ GiveUpReplay(c)
  \/ ReadContenders(c) \/ ReadClaim(c) \/ ReadSiblings(c)

Checkpoint(c) ==
  \/ Abandon(c) \/ HoldLanded(c) \/ Cleared(c) \/ DropQueued(c) \/ Start(c)
  \/ HandOff(c) \/ PushFailed(c)

Speak(c) ==
  \/ DropSpeaking(c) \/ Continue(c) \/ YieldToHigher(c) \/ EndInstead(c)
  \/ PlaySentence(c) \/ SentenceEnds(c) \/ Finish(c) \/ Tick(c)
  \/ StepAside(c) \/ Retake(c)

\* What a clip's own process does; a wedged one does nothing more.
Step(c) ==
  /\ c \notin wedged
  /\ Submission(c) \/ Take(c) \/ Checkpoint(c) \/ Speak(c)

Environment ==
  \/ ToggleHold \/ Flush \/ Age
  \/ \E c \in Clips : \/ Submit(c) \/ AskReplay(c)
                      \/ Pause(c) \/ Resume(c) \/ Wedge(c) \/ Crash(c)

Next == Environment \/ \E c \in Clips : Step(c)

Spec == Init /\ [][Next]_vars

\* Each clip's process keeps running.  A waiter polls the flock every 0.2 s
\* and a deferring one holds it only while it reads a few small files, so a
\* lock that keeps coming free is eventually found free by every waiter.
Fairness == \A c \in Clips : WF_vars(Step(c)) /\ SF_vars(Lock(c))

FairSpec == Spec /\ Fairness

-----------------------------------------------------------------------------

TypeOK ==
  /\ pc \in [Clips -> States]
  /\ seq \in [Clips -> Nat] /\ prev \in [Clips -> Nat]
  /\ rank \in [Clips -> Ranks]
  /\ reg \in [Clips -> {"none", "pending", "waiting"}]
  /\ skip \in [Clips -> BOOLEAN]
  /\ pos \in [Clips -> 0 .. Sentences]
  /\ token \in Clips \cup {NoClip}
  /\ loose \subseteq Clips
  /\ seen \in [Clips -> SUBSET Ranks]
  /\ marker \in [Sessions -> Nat]
  /\ clock \in Nat /\ floor \in Nat /\ flushed \in Nat
  /\ hold \in BOOLEAN
  /\ paused \subseteq Clips /\ wedged \subseteq Clips
  /\ ahead \in [Clips -> SUBSET Clips]

\* Every way out of a reply gives the token back (the many release() paths
\* of _submit_event): whoever holds it is still on its way to speaking or
\* is speaking, so a free voice is never locked by a reply that has ended.
TokenInUse ==
  token # NoClip =>
    pc[token] \in {"scan", "claim", "sibs", "taken", "cleared", "head",
                   "mind", "play"}

\* A waiter entry belongs to a reply that is still going to speak: an entry
\* left behind by a live process that is through would block its session's
\* later replies and make every speaker yield to nobody.
NoGhostWaiter ==
  \A c \in Clips :
    /\ reg[c] = "pending" => pc[c] \in {"render", "gate", "mark", "crashed"}
    /\ reg[c] = "waiting" => pc[c] \in Queueing \cup {"crashed"}

\* The voice is one: two clips are heard at once only when one of them went
\* on without the token (a LOW clip or a replay that found it busy, or a
\* waiter that gave up on a stalled holder).
OneVoice ==
  \A c, d \in Clips :
    Speaking(c) /\ Speaking(d) /\ c # d => c \in loose \/ d \in loose

\* Canonical order: a reply below URGENT is not let through before a reply
\* of its session that was already queued when it was submitted, unless that
\* one has given its place up: dropped, dead, gone on without the token, in
\* the gap where it hands the token back to a hold, or past its TTL.
HeardInOrder ==
  [][\A b \in Clips :
       pc[b] # "taken" /\ pc'[b] = "taken" /\ BaseRank[b] < URGENT
         /\ b \notin loose' /\ ~(\E d \in wedged : reg[d] # "none") =>
       \A a \in ahead[b] :
         \/ pos[a] > 0 \/ pc[a] \in {"done", "crashed"} \/ a \in loose
         \/ pc[a] \in {"gate", "mark"} /\ reg[a] = "none"
         \/ Aged(a)]_vars

\* A reply that a supersede precedes never begins once the superseding clip
\* has been let through: it is dropped, not played late.
DroppedNeverStarts ==
  [][\A c, d \in Clips :
       pos[c] = 0 /\ pos'[c] = 1 /\ Supersedes(d) /\ Same(c, d)
         /\ seq[d] > seq[c] /\ c \notin loose =>
       pos[d] = 0 \/ d \in loose]_vars

\* Every reply that is submitted is heard to its end, or ends for a reason
\* of its own: no set of waiters stands aside for one another for ever.
EveryReplyEnds ==
  \A c \in Clips : pc[c] = "stamped" ~> pc[c] \in {"done", "crashed"}

-----------------------------------------------------------------------------
(* The promise this implements *)

\* Where the queue's users see a clip: its waiter entry until it is let
\* through, then the voice until it yields, ends or dies.
Stage(c) ==
  IF pc[c] \in {"done", "crashed"} THEN "over"
  ELSE IF token = c /\ pc[c] \in {"taken", "cleared", "head", "mind", "play"}
    THEN "voice"
  ELSE [none |-> "away", pending |-> "rendering", waiting |-> "asking"][reg[c]]

Voice == INSTANCE VoiceQueue
  WITH stage <- [c \in Clips |-> Stage(c)],
       Urgent <- {c \in Clips : BaseRank[c] = URGENT}

\* As long as nobody stalls or goes on without the token and no hold or TTL
\* intervenes, the files and the polling implement the one voice in canonical
\* order.
ImplementsVoiceQueue == Voice!Spec
=============================================================================
