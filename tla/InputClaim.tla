----------------------------- MODULE InputClaim -----------------------------
(***************************************************************************)
(* Who owns the next utterance when its owner is not on this host: the     *)
(* phone's heartbeat (class ClaimHeartbeat of call_guard.py), the handlers *)
(* of entrypoints/speech_state.py and the claim file of                    *)
(* capture/input_claim.py, all under packages/core/src/agent_media_core.   *)
(*                                                                         *)
(* A phone whose microphone goes hot posts a claim at once and at every    *)
(* beat, each of which also holds speech; one that goes cold deletes it.   *)
(* Requests are handled by a thread each and may be answered too late for  *)
(* the one that sent them; the holds are set and lifted by processes that  *)
(* the handlers start and do not wait for.  A hold is a marker with its    *)
(* expiry, a file per owner (set_speech_hold and its siblings in           *)
(* intake/submit.py), which whoever waits for it to lift reads, and        *)
(* removes once it has lapsed.                                             *)
(***************************************************************************)
EXTENDS Naturals, FiniteSets

CONSTANTS
  Phones,      \* phones with a heartbeat, each the owner it claims for
  Nobody,
  MaxStarts,   \* [Phones -> Nat]: bound on how often its microphone goes hot
  MaxTroubles  \* bound on requests lost or answered too late

ASSUME ClaimAssumption ==
  Nobody \notin Phones /\ MaxStarts \in [Phones -> Nat] /\ MaxTroubles \in Nat

VARIABLES
  active,  \* phones whose heartbeat runs
  gen,     \* ClaimHeartbeat._gen
  worker,  \* per phone and generation: "none", "posting", "resting", "over"
  rel,     \* its release: "none", "asked", "sent", "stale", "again", "over"
  req,     \* their requests: "none", "sent", "found", "working", "done"
  left,    \* those whose thread no longer waits for the answer
  claim,   \* the fresh claim on file
  marker,  \* its hold marker: "none", "empty" as it is written, "held", "lapsed"
  reader,  \* phones whose lapsed marker a waiting reply has read and not yet removed
  jobs,    \* the speech-hold processes started and not yet run
  before,  \* per DELETE: whether it found a claim
  troubles

phone == <<active, gen, worker, rel>>
server == <<claim, marker, reader, jobs, before>>
vars == <<phone, req, left, server, troubles>>

Threads == UNION {{p} \X (1..MaxStarts[p]) : p \in Phones}
\* A beat, a release, and the beat that puts back what the release took.
Requests == {<<t[1], t[2], k>> : t \in Threads, k \in {"beat", "release", "again"}}

Init ==
  /\ active = {} /\ gen = [p \in Phones |-> 0]
  /\ worker = [t \in Threads |-> "none"]
  /\ rel = [t \in Threads |-> "none"]
  /\ req = [r \in Requests |-> "none"] /\ left = {}
  /\ claim = Nobody /\ jobs = {}
  /\ marker = [p \in Phones |-> "none"] /\ reader = {}
  /\ before = [t \in Threads |-> FALSE]
  /\ troubles = 0

Trouble == troubles < MaxTroubles /\ troubles' = troubles + 1
Sent(r) == req[r] = "none" /\ req' = [req EXCEPT ![r] = "sent"]
Answered(r) ==
  /\ req[r] = "done" /\ r \notin left
  /\ req' = [req EXCEPT ![r] = "none"]
  /\ UNCHANGED <<left, troubles>>

\* The thread goes on with no answer: what it sent is lost, or is handled later.
Unanswered(r) ==
  /\ r \notin left
  /\ Trouble
  /\ \/ req[r] = "sent" /\ req' = [req EXCEPT ![r] = "none"] /\ UNCHANGED left
     \/ req[r] \in {"sent", "found", "working"} /\ left' = left \cup {r} /\ UNCHANGED req

-----------------------------------------------------------------------------
(* ClaimHeartbeat *)

Start(p) ==
  /\ p \notin active /\ gen[p] < MaxStarts[p]
  /\ active' = active \cup {p}
  /\ gen' = [gen EXCEPT ![p] = @ + 1]
  /\ worker' = [worker EXCEPT ![<<p, gen'[p]>>] = "posting"]
  /\ Sent(<<p, gen'[p], "beat">>)
  /\ UNCHANGED <<rel, left, server, troubles>>

\* The worker is waited for, but not for longer than two seconds.
Stop(p) ==
  /\ p \in active
  /\ active' = active \ {p}
  /\ LET t == <<p, gen[p]>> IN
       /\ IF worker[t] = "resting"
          THEN worker' = [worker EXCEPT ![t] = "over"] /\ UNCHANGED troubles
          ELSE UNCHANGED worker /\ Trouble
       /\ rel' = [rel EXCEPT ![t] = "asked"]
  /\ UNCHANGED <<gen, req, left, server>>

\* Mutant: the worker ends with its first answer.
PostsOnce(t) == "over"

\* The worker looks at the stop event between two beats.
Rests(t) == IF t[1] \in active /\ gen[t[1]] = t[2] THEN "resting" ELSE "over"

Posted(t) ==
  /\ worker[t] = "posting"
  /\ Answered(<<t[1], t[2], "beat">>) \/ Unanswered(<<t[1], t[2], "beat">>)
  /\ worker' = [worker EXCEPT ![t] = Rests(t)]
  /\ UNCHANGED <<active, gen, rel, server>>

\* Mutant: a claim is posted as the microphone goes hot, and only then.
NoBeat(t) == FALSE

Beats(t) == worker[t] = "resting"

Beat(t) ==
  /\ Beats(t)
  /\ worker' = [worker EXCEPT ![t] = "posting"]
  /\ Sent(<<t[1], t[2], "beat">>)
  /\ UNCHANGED <<active, gen, rel, left, server, troubles>>

\* Mutant: what the release took from the next conversation stays taken.
NeverStale(t) == FALSE

\* Hot again since the release was asked for.
Stale(t) == gen[t[1]] # t[2]

Release(t) ==
  /\ rel[t] = "asked"
  /\ IF gen[t[1]] # t[2]
     THEN rel' = [rel EXCEPT ![t] = "over"] /\ UNCHANGED req
     ELSE rel' = [rel EXCEPT ![t] = "sent"] /\ Sent(<<t[1], t[2], "release">>)
  /\ UNCHANGED <<active, gen, worker, left, server, troubles>>

Released(t) ==
  /\ rel[t] = "sent"
  /\ LET r == <<t[1], t[2], "release">> IN
       \/ /\ Answered(r)
          /\ rel' = [rel EXCEPT ![t] = IF Stale(t) THEN "stale" ELSE "over"]
       \/ /\ Unanswered(r)
          /\ rel' = [rel EXCEPT ![t] = "over"]
  /\ UNCHANGED <<active, gen, worker, server>>

\* The claim that the next conversation made is put back.
Reassert(t) ==
  /\ rel[t] = "stale"
  /\ rel' = [rel EXCEPT ![t] = "again"]
  /\ Sent(<<t[1], t[2], "again">>)
  /\ UNCHANGED <<active, gen, worker, left, server, troubles>>

PutBack(t) ==
  /\ rel[t] = "again"
  /\ Answered(<<t[1], t[2], "again">>) \/ Unanswered(<<t[1], t[2], "again">>)
  /\ rel' = [rel EXCEPT ![t] = "over"]
  /\ UNCHANGED <<active, gen, worker, server>>

-----------------------------------------------------------------------------
(* The server *)

Handles(r, from, to) ==
  /\ req[r] = from /\ req' = [req EXCEPT ![r] = to]
  /\ UNCHANGED <<phone, left, troubles>>

\* An answer nobody waits for.
Unheard(r) ==
  /\ r \in left /\ req[r] = "done"
  /\ req' = [req EXCEPT ![r] = "none"] /\ left' = left \ {r}
  /\ UNCHANGED <<phone, server, troubles>>

\* do_POST: the claim, then the hold.
Write(r) ==
  /\ r[3] # "release"
  /\ Handles(r, "sent", "working")
  /\ claim' = r[1]
  /\ UNCHANGED <<marker, reader, jobs, before>>

StartHold(r) ==
  /\ r[3] # "release"
  /\ Handles(r, "working", "done")
  /\ jobs' = jobs \cup {<<r[1], "hold">>}
  /\ UNCHANGED <<claim, marker, reader, before>>

\* do_DELETE and release(): whose claim it is, the unlink, and whether that
\* left none.
Look(r) ==
  /\ r[3] = "release"
  /\ Handles(r, "sent", IF claim \in {r[1], Nobody} THEN "found" ELSE "done")
  /\ before' = [before EXCEPT ![<<r[1], r[2]>>] = claim # Nobody]
  /\ UNCHANGED <<claim, marker, reader, jobs>>

Unlink(r) ==
  /\ r[3] = "release"
  /\ Handles(r, "found", "working")
  /\ claim' = Nobody
  /\ UNCHANGED <<marker, reader, jobs, before>>

StartLift(r) ==
  /\ r[3] = "release"
  /\ Handles(r, "working", "done")
  /\ jobs' = IF before[<<r[1], r[2]>>] /\ claim = Nobody
             THEN jobs \cup {<<r[1], "lift">>} ELSE jobs
  /\ before' = [before EXCEPT ![<<r[1], r[2]>>] = FALSE]
  /\ UNCHANGED <<claim, marker, reader>>

-----------------------------------------------------------------------------
(* The hold markers: set_speech_hold, release_speech_hold, _read_marker *)

Marks(p, from, to) ==
  /\ marker[p] \in from /\ marker' = [marker EXCEPT ![p] = to]
  /\ UNCHANGED <<phone, req, left, claim, before, troubles>>

AnyMarker == {"none", "empty", "held", "lapsed"}

\* write_text empties the file before it writes the expiry.
Empty(p) ==
  /\ <<p, "hold">> \in jobs
  /\ jobs' = (jobs \ {<<p, "hold">>}) \cup {<<p, "write">>}
  /\ Marks(p, AnyMarker, "empty") /\ UNCHANGED reader

\* Into a file that may have lost its name meanwhile.
WriteHold(p) ==
  /\ <<p, "write">> \in jobs
  /\ jobs' = jobs \ {<<p, "write">>}
  /\ Marks(p, AnyMarker, IF marker[p] = "none" THEN "none" ELSE "held") /\ UNCHANGED reader

Lift(p) ==
  /\ <<p, "lift">> \in jobs
  /\ jobs' = jobs \ {<<p, "lift">>}
  /\ Marks(p, AnyMarker, "none") /\ UNCHANGED reader

ReadLapsed(p) ==
  /\ p \notin reader /\ reader' = reader \cup {p}
  /\ Marks(p, {"lapsed"}, "lapsed") /\ UNCHANGED jobs

\* By its name, whatever the file says by now.
Reap(p) ==
  /\ p \in reader /\ reader' = reader \ {p}
  /\ Marks(p, AnyMarker, "none") /\ UNCHANGED jobs

(* Time *)

\* Mutant: a claim or a hold lasts until it is released.
Lasts(p) == FALSE

\* The window passes: the beats come well within it, so only a phone that has
\* gone silent lets it.
Silent(p) == p \notin active

Expire ==
  /\ \/ claim # Nobody /\ Silent(claim) /\ claim' = Nobody /\ UNCHANGED marker
     \/ /\ \E p \in Phones : /\ marker[p] = "held" /\ Silent(p)
                             /\ marker' = [marker EXCEPT ![p] = "lapsed"]
        /\ UNCHANGED claim
  /\ UNCHANGED <<phone, req, left, reader, jobs, before, troubles>>

-----------------------------------------------------------------------------
Heartbeat(t) == Posted(t) \/ Beat(t) \/ Release(t) \/ Released(t) \/ Reassert(t) \/ PutBack(t)
Handler(r) ==
  Write(r) \/ StartHold(r) \/ Look(r) \/ Unlink(r) \/ StartLift(r) \/ Unheard(r)

Hold(p) == Empty(p) \/ WriteHold(p) \/ Lift(p)

Next ==
  \/ \E p \in Phones : Start(p) \/ Stop(p) \/ Hold(p) \/ ReadLapsed(p) \/ Reap(p)
  \/ \E t \in Threads : Heartbeat(t)
  \/ \E r \in Requests : Handler(r)
  \/ Expire

Spec == Init /\ [][Next]_vars

\* Threads and processes go on; nothing makes a microphone hot or cold.
Fairness ==
  /\ \A t \in Threads :
       /\ WF_vars(Posted(t)) /\ WF_vars(Beat(t))
       /\ WF_vars(Release(t)) /\ WF_vars(Released(t))
       /\ WF_vars(Reassert(t)) /\ WF_vars(PutBack(t))
  /\ \A r \in Requests : WF_vars(Handler(r))
  /\ \A p \in Phones : WF_vars(Empty(p)) /\ WF_vars(WriteHold(p)) /\ WF_vars(Lift(p))
  /\ WF_vars(Expire)

FairSpec == Spec /\ Fairness

-----------------------------------------------------------------------------
(* Properties *)

PhoneTypes ==
  /\ active \subseteq Phones /\ gen \in [Phones -> Nat]
  /\ \A p \in Phones : gen[p] <= MaxStarts[p]
  /\ \A p \in active : gen[p] > 0 /\ worker[<<p, gen[p]>>] \in {"posting", "resting"}
  /\ worker \in [Threads -> {"none", "posting", "resting", "over"}]
  /\ rel \in [Threads -> {"none", "asked", "sent", "stale", "again", "over"}]

RequestTypes ==
  /\ req \in [Requests -> {"none", "sent", "found", "working", "done"}]
  /\ left \subseteq {r \in Requests : req[r] # "none"}
  /\ troubles \in 0..MaxTroubles

ServerTypes ==
  /\ claim \in Phones \cup {Nobody}
  /\ marker \in [Phones -> AnyMarker] /\ reader \subseteq Phones
  /\ jobs \subseteq Phones \X {"hold", "write", "lift"}
  /\ before \in [Threads -> BOOLEAN]

TypeOK == PhoneTypes /\ RequestTypes /\ ServerTypes

\* A release in flight while the microphone goes hot again costs the new
\* conversation nothing that lasts: once its own post and that release are
\* answered, the claim is on file (_release_once: "we put the claim back rather
\* than wait out the next beat").
HotIsClaimed ==
  \A p \in active :
    /\ troubles = 0 /\ \A q \in Phones \ {p} : gen[q] = 0
    /\ worker[<<p, gen[p]>>] = "resting"
    /\ \A t \in Threads : t[1] = p => rel[t] \in {"none", "over"}
    => claim = p

\* While one phone alone stays hot the floor comes to be its own and to stay
\* so, whatever requests were lost or came late, and although a reply that read
\* its lapsed marker may remove the one written since: the next beat puts it
\* back.
HotIsHeld ==
  \A p \in Phones :
    <>[](active = {p}) => <>[](claim = p /\ marker[p] \in {"held", "empty"})

\* "Nothing here can hold the floor by being silent": once every microphone is
\* cold, the floor comes to be free, whatever releases were lost.
SilenceReleases == <>[](active = {}) => <>[](claim = Nobody /\ \A p \in Phones : marker[p] # "held")
=============================================================================
