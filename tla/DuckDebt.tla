----------------------------- MODULE DuckDebt -----------------------------
(***************************************************************************)
(* What a spoken reply does to everything else that sounds, and how it is  *)
(* put back: Coordinator of route/coordinator.py (pre_pause_remote,        *)
(* cancel_pre_pause, before_speech, duck_music_now, after_speech and the   *)
(* two mute edges), driven by _submit_event and _submit_remote_say, and    *)
(* set_room of music_rooms.py, by which the listener moves a room's dial   *)
(* under a duck.                                                           *)
(*                                                                         *)
(* Each reply has a Coordinator of its own, in a process of its own; they  *)
(* share the two markers and the now-playing row in SQLite, the rooms'     *)
(* Snapcast volumes, the music player and the phone.  The playback token   *)
(* lets one reply at a time between "reading" and its end, except for one  *)
(* that stepped aside.  A step is one round trip to one of those.          *)
(***************************************************************************)
EXTENDS Naturals, FiniteSets

CONSTANTS
  Replies,     \* the replies that will ever be spoken
  NoReply,     \* nobody holds the token
  OnPhone,     \* replies of the lane that defers the music duck
  Rooms,       \* Snapcast clients on the music stream
  Volumes,     \* where a dial can stand
  Level,       \* the duck level
  Nominal,     \* _fallback_baseline()
  Strategies,  \* what the music may be: subset of {"duck", "pause"}
  MayCrash,    \* replies whose process may die
  MayGo,       \* rooms that may be deleted from the server
  MaxFails,    \* bound on volume changes the server refuses
  MaxDials,    \* bound on the listener's changes to a room
  Races        \* overlaps the instance admits: a reply steps aside while its
               \* before_speech still runs ("aside"), the dial moves in the
               \* midst of a duck or a restore ("dial"), a deferred duck is
               \* still under way when the reply ends ("duck")

ASSUME DuckAssumption ==
  /\ NoReply \notin Replies
  /\ OnPhone \subseteq Replies /\ MayCrash \subseteq Replies
  /\ MayGo \subseteq Rooms
  /\ Volumes \subseteq Nat /\ Level \in Nat
  /\ Nominal \in Volumes /\ Level < Nominal
  /\ Strategies \subseteq {"duck", "pause"}
  /\ MaxFails \in Nat /\ MaxDials \in Nat
  /\ Races \subseteq {"aside", "dial", "duck"}

VARIABLES
  pc,        \* where each reply is
  token,     \* who holds the playback token
  aside,     \* replies that stepped aside for another
  muted,     \* replies muted while they speak (_MuteDuckWatcher._muted)
  own,       \* history: the volume the listener gave each room
  volume,    \* each room's volume on the server
  rooms,     \* the clients that still exist
  owed,      \* the rooms_duck marker: the volumes to go back to; <<>> is none
  plan,      \* a coordinator's copy of those volumes
  todo,      \* clients its loop has not come to
  failed,    \* clients its restore could not set
  loud,      \* the music's volume
  playing,   \* whether the music plays
  strategy,  \* what its content type calls for
  debt,      \* the music_duck marker: {} or {baseline}
  row,       \* the music's now-playing row: {} or {<<strategy, baseline>>}
  base,      \* _interrupt_music's baseline
  ducker,    \* where _interrupt_music is: "off" when nobody runs it
  deferred,  \* replies with a duck decided and not done (_deferred_music)
  ducked,    \* after_speech's copy of the music marker
  phone,     \* whether the phone's media play
  pauser,    \* the pre-pause thread: "none", "running" or "done"
  paused,    \* replies with _android_paused set
  fails, dials

roomVars == <<volume, rooms, owed, plan, todo, failed>>
musicVars == <<loud, playing, strategy, debt, row, base, ducker, deferred, ducked>>
phoneVars == <<phone, pauser, paused>>
vars == <<pc, token, aside, muted, own, roomVars, musicVars, phoneVars, fails, dials>>

-----------------------------------------------------------------------------
Quiet == {"new", "rendering", "done", "cancelled", "dead"}
Beginning == {"reading", "marking", "lowering", "waiting", "ducking"}
Settled == Quiet \cup {"speaking"}

Over(r) == pc[r] \in {"done", "cancelled", "dead"}
Goto(r, where) == pc' = [pc EXCEPT ![r] = where]

\* Mutant: a room at the duck level is read as what the listener had.
CapturedAnew == [c \in rooms |-> volume[c]]

\* The marker's volumes, or the ones the server has.
Captured == IF owed # <<>> THEN owed ELSE [c \in rooms |-> volume[c]]

\* Mutant: the same for the music.
BaselineAnew == loud

\* What _interrupt_music will go back to.
Baseline == IF debt # {} THEN CHOOSE b \in debt : TRUE
            ELSE IF loud > Level THEN loud ELSE Nominal

Lowered(vols) == [c \in Rooms |-> IF c \in DOMAIN vols \cap rooms /\ vols[c] > Level
                                  THEN Level ELSE volume[c]]
Raised(vols) == [c \in Rooms |-> IF c \in DOMAIN vols \cap rooms
                                 THEN vols[c] ELSE volume[c]]

Init ==
  /\ pc = [r \in Replies |-> "new"]
  /\ token = NoReply /\ aside = {} /\ muted = {}
  /\ own = [c \in Rooms |-> Nominal] /\ volume = own
  /\ rooms = Rooms
  /\ owed = <<>>
  /\ plan = [r \in Replies |-> <<>>]
  /\ todo = [r \in Replies |-> {}] /\ failed = [r \in Replies |-> {}]
  /\ loud = Nominal /\ playing = TRUE
  /\ strategy \in Strategies
  /\ debt = {} /\ row = {}
  /\ base = [r \in Replies |-> Nominal]
  /\ ducker = [r \in Replies |-> "off"]
  /\ deferred = {}
  /\ ducked = [r \in Replies |-> {}]
  /\ phone = TRUE
  /\ pauser = [r \in Replies |-> "none"]
  /\ paused = {}
  /\ fails = 0 /\ dials = 0

-----------------------------------------------------------------------------
(* pre_pause_remote, cancel_pre_pause *)

\* Before the render on the local lane, with the token on the phone's.
PrePause(r) ==
  /\ pc[r] = "new"
  /\ IF r \in OnPhone THEN token = NoReply /\ token' = r ELSE UNCHANGED token
  /\ Goto(r, "rendering")
  /\ pauser' = [pauser EXCEPT ![r] = "running"]
  /\ UNCHANGED <<aside, muted, own, phone, paused, fails, dials>>
  /\ UNCHANGED roomVars /\ UNCHANGED musicVars

\* _work: pause_for_speech looks and pauses in one round trip.
PausePhone(r) ==
  /\ pauser[r] = "running"
  /\ pauser' = [pauser EXCEPT ![r] = "done"]
  /\ phone' = FALSE
  /\ paused' = IF phone THEN paused \cup {r} ELSE paused
  /\ UNCHANGED <<pc, token, aside, muted, own, fails, dials>>
  /\ UNCHANGED roomVars /\ UNCHANGED musicVars

ResumePhone(r) ==
  /\ phone' = (phone \/ r \in paused)
  /\ paused' = paused \ {r}

\* Held, flushed, cut, superseded or nothing rendered.
CancelPrePause(r) ==
  /\ pc[r] = "rendering" /\ r \notin OnPhone
  /\ pauser[r] = "done"
  /\ ResumePhone(r)
  /\ Goto(r, "cancelled")
  /\ UNCHANGED <<token, aside, muted, own, pauser, fails, dials>>
  /\ UNCHANGED roomVars /\ UNCHANGED musicVars

-----------------------------------------------------------------------------
(* before_speech *)

\* The token is taken, and _before_speech begins.
TakeToken(r) ==
  /\ pc[r] = "rendering"
  /\ token = IF r \in OnPhone THEN r ELSE NoReply
  /\ token' = r
  /\ Goto(r, "reading")
  /\ UNCHANGED <<aside, muted, own, fails, dials>>
  /\ UNCHANGED roomVars /\ UNCHANGED musicVars /\ UNCHANGED phoneVars

RoomsRead(r) ==
  /\ pc[r] = "reading"
  /\ plan' = [plan EXCEPT ![r] = Captured]
  /\ Goto(r, IF DOMAIN Captured = {} THEN "waiting" ELSE "marking")
  /\ UNCHANGED <<token, aside, muted, own, volume, rooms, owed, todo, failed, fails, dials>>
  /\ UNCHANGED musicVars /\ UNCHANGED phoneVars

RoomsMark(r) ==
  /\ pc[r] = "marking"
  /\ owed' = plan[r]
  /\ LET above == {c \in DOMAIN plan[r] : plan[r][c] > Level}
     IN /\ todo' = [todo EXCEPT ![r] = above]
        /\ Goto(r, IF above = {} THEN "waiting" ELSE "lowering")
  /\ UNCHANGED <<token, aside, muted, own, volume, rooms, plan, failed, fails, dials>>
  /\ UNCHANGED musicVars /\ UNCHANGED phoneVars

\* The first failure (a client that is gone is one) ends the loop.
RoomsLower(r) ==
  /\ pc[r] = "lowering"
  /\ \E c \in todo[r] :
       \/ /\ c \in rooms
          /\ volume' = [volume EXCEPT ![c] = Level]
          /\ todo' = [todo EXCEPT ![r] = @ \ {c}]
          /\ UNCHANGED fails
       \/ /\ c \in rooms => fails < MaxFails
          /\ fails' = IF c \in rooms THEN fails + 1 ELSE fails
          /\ todo' = [todo EXCEPT ![r] = {}]
          /\ UNCHANGED volume
  /\ Goto(r, IF todo'[r] = {} THEN "waiting" ELSE "lowering")
  /\ UNCHANGED <<token, aside, muted, own, rooms, owed, plan, failed, dials>>
  /\ UNCHANGED musicVars /\ UNCHANGED phoneVars

\* The pre-pause is joined, and the music is looked at: a duck is decided,
\* and done at once or left for duck_music_now.
Decide(r) ==
  /\ pc[r] = "waiting"
  /\ pauser[r] = "done"
  /\ IF ~playing
     THEN /\ Goto(r, "speaking") /\ UNCHANGED <<ducker, deferred>>
     ELSE IF r \in OnPhone
     THEN /\ Goto(r, "speaking")
          /\ deferred' = deferred \cup {r}
          /\ UNCHANGED ducker
     ELSE /\ Goto(r, "ducking")
          /\ ducker' = [ducker EXCEPT ![r] = "begin"]
          /\ UNCHANGED deferred
  /\ UNCHANGED <<token, aside, muted, own, fails, dials>>
  /\ UNCHANGED <<loud, playing, strategy, debt, row, base, ducked>>
  /\ UNCHANGED roomVars /\ UNCHANGED phoneVars

Begun(r) ==
  /\ pc[r] = "ducking"
  /\ ducker[r] = "off"
  /\ Goto(r, "speaking")
  /\ UNCHANGED <<token, aside, muted, own, fails, dials>>
  /\ UNCHANGED roomVars /\ UNCHANGED musicVars /\ UNCHANGED phoneVars

-----------------------------------------------------------------------------
(* _interrupt_music, on before_speech's thread or on duck_music_now's *)

\* The renderer's announcement or the grace timer: whichever pops it.
DuckMusicNow(r) ==
  /\ r \in deferred
  /\ deferred' = deferred \ {r}
  /\ ducker' = [ducker EXCEPT ![r] = "begin"]
  /\ UNCHANGED <<pc, token, aside, muted, own, fails, dials>>
  /\ UNCHANGED <<loud, playing, strategy, debt, row, base, ducked>>
  /\ UNCHANGED roomVars /\ UNCHANGED phoneVars

Ducks(r, at, next) ==
  /\ ducker[r] = at
  /\ ducker' = [ducker EXCEPT ![r] = next]
  /\ UNCHANGED <<pc, token, aside, muted, own, deferred, strategy, ducked, dials>>
  /\ UNCHANGED roomVars /\ UNCHANGED phoneVars

PauseMusic(r) ==
  /\ strategy = "pause"
  /\ Ducks(r, "begin", "row")
  /\ playing' = FALSE
  /\ UNCHANGED <<loud, debt, row, base, fails>>

ReadVolume(r) ==
  /\ strategy = "duck"
  /\ Ducks(r, "begin", "mark")
  /\ base' = [base EXCEPT ![r] = Baseline]
  /\ UNCHANGED <<loud, playing, debt, row, fails>>

\* Recorded before the duck, so that a killed process leaves the debt.
MusicMarker(r) == {base[r]}

MarkMusic(r) ==
  /\ Ducks(r, "mark", "duck")
  /\ debt' = MusicMarker(r)
  /\ UNCHANGED <<loud, playing, row, base, fails>>

Duck(r) ==
  /\ Ducks(r, "duck", "row")
  /\ loud' = Level
  /\ UNCHANGED <<playing, debt, row, base, fails>>

DuckFails(r) ==
  /\ fails < MaxFails
  /\ Ducks(r, "duck", "off")
  /\ fails' = fails + 1
  /\ UNCHANGED <<loud, playing, debt, row, base>>

SetRow(r) ==
  /\ Ducks(r, "row", "off")
  /\ row' = {<<strategy, base[r]>>}
  /\ UNCHANGED <<loud, playing, debt, base, fails>>

InterruptMusic(r) ==
  PauseMusic(r) \/ ReadVolume(r) \/ MarkMusic(r) \/ Duck(r) \/ DuckFails(r) \/ SetRow(r)

-----------------------------------------------------------------------------
(* While it speaks *)

Waits(r) == pc[r] = IF r \in OnPhone THEN "new" ELSE "rendering"

\* For somebody who waits for the token; not once handed over to the phone.
StepAside(r) ==
  /\ token = r /\ r \notin OnPhone
  /\ aside # {} \/ \E s \in Replies : Waits(s)
  /\ pc[r] \in {"speaking"} \cup IF "aside" \in Races THEN Beginning ELSE {}
  /\ token' = NoReply
  /\ aside' = aside \cup {r}
  /\ UNCHANGED <<pc, muted, own, fails, dials>>
  /\ UNCHANGED roomVars /\ UNCHANGED musicVars /\ UNCHANGED phoneVars

Retake(r) ==
  /\ r \in aside
  /\ token = NoReply
  /\ token' = r
  /\ aside' = aside \ {r}
  /\ UNCHANGED <<pc, muted, own, fails, dials>>
  /\ UNCHANGED roomVars /\ UNCHANGED musicVars /\ UNCHANGED phoneVars

\* The row's own account of a duck, if there is one (_duck_interruption).
RowBaseline == {x[2] : x \in {y \in row : y[1] = "duck"}}

\* release_music_duck and reapply_music_duck, on the local lane.
ToggleMute(r) ==
  /\ pc[r] = "speaking" /\ token = r /\ r \notin OnPhone
  /\ IF r \in muted
     THEN /\ volume' = Lowered(owed)
          /\ loud' = IF RowBaseline # {} THEN Level ELSE loud
          /\ muted' = muted \ {r}
     ELSE /\ volume' = Raised(owed)
          /\ loud' = IF RowBaseline # {} THEN CHOOSE b \in RowBaseline : TRUE ELSE loud
          /\ muted' = muted \cup {r}
  /\ UNCHANGED <<pc, token, aside, own, rooms, owed, plan, todo, failed, fails, dials>>
  /\ UNCHANGED <<playing, strategy, debt, row, base, ducker, deferred, ducked>>
  /\ UNCHANGED phoneVars

-----------------------------------------------------------------------------
(* after_speech *)

\* Mutant: a duck nobody applied stays decided.
StillDeferred(r) == deferred

\* A duck decided and never done is dropped.
Dropped(r) == deferred \ {r}

\* One that is being done is not waited for.
AfterSpeech(r) ==
  /\ pc[r] = "speaking" /\ token = r
  /\ "duck" \notin Races => ducker[r] = "off"
  /\ deferred' = Dropped(r)
  /\ muted' = muted \ {r}
  /\ Goto(r, "unducking")
  /\ UNCHANGED <<token, aside, own, fails, dials>>
  /\ UNCHANGED <<loud, playing, strategy, debt, row, base, ducker, ducked>>
  /\ UNCHANGED roomVars /\ UNCHANGED phoneVars

RoomsOwed(r) ==
  /\ pc[r] = "unducking"
  /\ plan' = [plan EXCEPT ![r] = owed]
  /\ todo' = [todo EXCEPT ![r] = DOMAIN owed]
  /\ failed' = [failed EXCEPT ![r] = {}]
  /\ Goto(r, IF owed = <<>> THEN "resuming" ELSE "raising")
  /\ UNCHANGED <<token, aside, muted, own, volume, rooms, owed, fails, dials>>
  /\ UNCHANGED musicVars /\ UNCHANGED phoneVars

\* Client by client; one that fails and still exists stays owed.
RoomsRaise(r) ==
  /\ pc[r] = "raising"
  /\ \E c \in todo[r] :
       /\ todo' = [todo EXCEPT ![r] = @ \ {c}]
       /\ \/ /\ c \in rooms
             /\ volume' = [volume EXCEPT ![c] = plan[r][c]]
             /\ UNCHANGED <<failed, fails>>
          \/ /\ c \notin rooms
             /\ UNCHANGED <<volume, failed, fails>>
          \/ /\ c \in rooms /\ fails < MaxFails
             /\ failed' = [failed EXCEPT ![r] = @ \cup {c}]
             /\ fails' = fails + 1
             /\ UNCHANGED volume
  /\ Goto(r, IF todo'[r] = {} THEN "clearing" ELSE "raising")
  /\ UNCHANGED <<token, aside, muted, own, rooms, owed, plan, dials>>
  /\ UNCHANGED musicVars /\ UNCHANGED phoneVars

\* What the marker says once the rooms have been tried.
StillOwed(r) == [c \in failed[r] |-> plan[r][c]]

RoomsClear(r) ==
  /\ pc[r] = "clearing"
  /\ owed' = StillOwed(r)
  /\ Goto(r, "resuming")
  /\ UNCHANGED <<token, aside, muted, own, volume, rooms, plan, todo, failed, fails, dials>>
  /\ UNCHANGED musicVars /\ UNCHANGED phoneVars

\* The phone's media, then a look at the music's marker.
Resume(r) ==
  /\ pc[r] = "resuming"
  /\ ResumePhone(r)
  /\ Goto(r, "owing")
  /\ UNCHANGED <<token, aside, muted, own, pauser, fails, dials>>
  /\ UNCHANGED roomVars /\ UNCHANGED musicVars

\* Mutant: the row is asked instead, as it was before the marker.
DebtInRow == RowBaseline

\* The duck in force, from its own marker and not from the shared row.
DebtInForce == debt

ReadDebt(r) ==
  /\ pc[r] = "owing"
  /\ ducked' = [ducked EXCEPT ![r] = DebtInForce]
  /\ Goto(r, IF DebtInForce = {} THEN "rowing" ELSE "paying")
  /\ UNCHANGED <<token, aside, muted, own, fails, dials>>
  /\ UNCHANGED <<loud, playing, strategy, debt, row, base, ducker, deferred>>
  /\ UNCHANGED roomVars /\ UNCHANGED phoneVars

\* _music_unduck.
PayDebt(r) ==
  /\ pc[r] = "paying"
  /\ loud' = CHOOSE b \in ducked[r] : TRUE
  /\ Goto(r, "paid")
  /\ UNCHANGED <<token, aside, muted, own, fails, dials>>
  /\ UNCHANGED <<playing, strategy, debt, row, base, ducker, deferred, ducked>>
  /\ UNCHANGED roomVars /\ UNCHANGED phoneVars

ClearDebt(r) ==
  /\ pc[r] = "paid"
  /\ debt' = {}
  /\ Goto(r, "rowing")
  /\ UNCHANGED <<token, aside, muted, own, fails, dials>>
  /\ UNCHANGED <<loud, playing, strategy, row, base, ducker, deferred, ducked>>
  /\ UNCHANGED roomVars /\ UNCHANGED phoneVars

\* The shared row: a pause is resumed, a duck the marker did not cover is
\* undone from the row, and the row goes.
RestoreRow(r) ==
  /\ pc[r] = "rowing"
  /\ playing' = (playing \/ \E x \in row : x[1] = "pause")
  /\ loud' = IF RowBaseline # {} /\ ducked[r] = {}
             THEN CHOOSE b \in RowBaseline : TRUE ELSE loud
  /\ row' = {}
  /\ Goto(r, "release")
  /\ UNCHANGED <<token, aside, muted, own, fails, dials>>
  /\ UNCHANGED <<strategy, debt, base, ducker, deferred, ducked>>
  /\ UNCHANGED roomVars /\ UNCHANGED phoneVars

Release(r) ==
  /\ pc[r] = "release"
  /\ token' = NoReply
  /\ Goto(r, "done")
  /\ UNCHANGED <<aside, muted, own, fails, dials>>
  /\ UNCHANGED roomVars /\ UNCHANGED musicVars /\ UNCHANGED phoneVars

-----------------------------------------------------------------------------
(* Around them *)

\* The process dies with its threads; what it keeps in memory is gone.
Crash(r) ==
  /\ r \in MayCrash
  /\ pc[r] \notin {"new"} /\ ~Over(r)
  /\ Goto(r, "dead")
  /\ token' = IF token = r THEN NoReply ELSE token
  /\ aside' = aside \ {r} /\ muted' = muted \ {r}
  /\ ducker' = [ducker EXCEPT ![r] = "off"]
  /\ deferred' = deferred \ {r}
  /\ pauser' = [pauser EXCEPT ![r] = "none"]
  /\ paused' = paused \ {r}
  /\ UNCHANGED <<own, phone, fails, dials>>
  /\ UNCHANGED <<loud, playing, strategy, debt, row, base, ducked>>
  /\ UNCHANGED roomVars

\* A client is deleted from the server.
RoomGoes(c) ==
  /\ c \in MayGo \cap rooms
  /\ rooms' = rooms \ {c}
  /\ UNCHANGED <<pc, token, aside, muted, own, volume, owed, plan, todo, failed, fails, dials>>
  /\ UNCHANGED musicVars /\ UNCHANGED phoneVars

\* set_room(cid, volume=want): under a duck the change goes into the marker.
SetRoom(c, want) ==
  /\ dials < MaxDials
  /\ c \in rooms /\ want \in Volumes
  /\ "dial" \notin Races => \A r \in Replies : pc[r] \in Settled
  /\ own' = [own EXCEPT ![c] = want]
  /\ owed' = IF owed = <<>> THEN owed
             ELSE [x \in DOMAIN owed \cup {c} |-> IF x = c THEN want ELSE owed[x]]
  /\ volume' = [volume EXCEPT ![c] =
       IF owed # <<>> /\ want > Level THEN Level ELSE want]
  /\ dials' = dials + 1
  /\ UNCHANGED <<pc, token, aside, muted, rooms, plan, todo, failed, fails>>
  /\ UNCHANGED musicVars /\ UNCHANGED phoneVars

Before(r) ==
  TakeToken(r) \/ RoomsRead(r) \/ RoomsMark(r) \/ RoomsLower(r) \/ Decide(r) \/ Begun(r)

After(r) ==
  \/ AfterSpeech(r) \/ RoomsOwed(r) \/ RoomsRaise(r) \/ RoomsClear(r) \/ Resume(r)
  \/ ReadDebt(r) \/ PayDebt(r) \/ ClearDebt(r) \/ RestoreRow(r) \/ Release(r)

Next ==
  \/ \E r \in Replies :
       \/ PrePause(r) \/ PausePhone(r) \/ CancelPrePause(r)
       \/ Before(r) \/ DuckMusicNow(r) \/ InterruptMusic(r)
       \/ StepAside(r) \/ Retake(r) \/ ToggleMute(r) \/ After(r) \/ Crash(r)
  \/ \E c \in Rooms : RoomGoes(c) \/ \E want \in Volumes : SetRoom(c, want)

Spec == Init /\ [][Next]_vars

-----------------------------------------------------------------------------
(* Types *)

Partial(S, T) == UNION {[X -> T] : X \in SUBSET S}

PcTypes ==
  /\ pc \in [Replies -> Quiet \cup Beginning \cup
       {"speaking", "unducking", "raising", "clearing", "resuming", "owing",
        "paying", "paid", "rowing", "release"}]
  /\ token \in Replies \cup {NoReply}
  /\ aside \subseteq Replies /\ muted \subseteq Replies

RoomTypes ==
  /\ own \in [Rooms -> Volumes] /\ volume \in [Rooms -> Volumes \cup {Level}]
  /\ rooms \subseteq Rooms
  /\ owed \in Partial(Rooms, Volumes \cup {Level})
  /\ plan \in [Replies -> Partial(Rooms, Volumes \cup {Level})]
  /\ todo \in [Replies -> SUBSET Rooms] /\ failed \in [Replies -> SUBSET Rooms]

MusicTypes ==
  /\ loud \in {Level, Nominal} /\ playing \in BOOLEAN
  /\ strategy \in {"duck", "pause"}
  /\ debt \in SUBSET {Nominal}
  /\ row \in SUBSET ({"duck", "pause"} \X {Nominal})
  /\ base \in [Replies -> {Nominal}]
  /\ ducker \in [Replies -> {"off", "begin", "mark", "duck", "row"}]
  /\ deferred \subseteq Replies
  /\ ducked \in [Replies -> SUBSET {Nominal}]

PhoneTypes ==
  /\ phone \in BOOLEAN
  /\ pauser \in [Replies -> {"none", "running", "done"}]
  /\ paused \subseteq Replies

CountTypes == fails \in 0..MaxFails /\ dials \in 0..MaxDials

\* Type invariant: every variable ranges over what the code keeps in it, and
\* the marker never names a volume the dial cannot have.
TypeOK == PcTypes /\ RoomTypes /\ MusicTypes /\ PhoneTypes /\ CountTypes

-----------------------------------------------------------------------------
(* The debt *)

\* A room that is lower than the listener put it is owed exactly what the
\* listener had, in the marker that outlives the process ("Persisted so a
\* process killed mid-duck self-heals"; "the debt outlives a failure").
RoomsAreOwed == \A c \in rooms : volume[c] # own[c] => c \in DOMAIN owed /\ owed[c] = own[c]

\* The same for the music's volume ("A dedicated key makes the debt outlive
\* whatever else happens to that row"): lowered music is in the marker, with
\* the volume from before the first duck and not from within it; or, ducked
\* again at the end of a mute, in a row that a dead reply left behind.
MusicIsOwed == loud # Nominal => debt = {Nominal} \/ RowBaseline = {Nominal}

\* What is lowered is owed, at every step of a duck or a restore, whoever dies,
\* whatever the server refuses, and although several replies read and write
\* the one marker.
LoweredIsOwed == RoomsAreOwed /\ MusicIsOwed

AllQuiet == \A r \in Replies : pc[r] \in Quiet
NobodyDied == \A r \in Replies : pc[r] # "dead"

\* after_speech: "Restore from whatever before_speech did".  Once nobody
\* speaks, what is still changed is owed; with no crash and no refused change
\* nothing is: every room, the music and the phone are as they were, however
\* the replies stepped aside for one another, were muted or cancelled.
RestoresAll ==
  AllQuiet /\ NobodyDied /\ fails = 0 =>
    /\ \A c \in rooms : volume[c] = own[c]
    /\ owed = <<>> /\ debt = {} /\ row = {}
    /\ loud = Nominal /\ playing
    /\ (\A r \in Replies : pc[r] # "rendering") => phone

\* What a killed speaker leaves lowered, the next reply that ends normally
\* puts back, whatever became of the now-playing row.
NextPays ==
  [][\A r \in Replies :
       pc[r] = "release" /\ pc'[r] = "done" /\ (\A s \in Replies \ {r} : pc[s] \in Quiet)
         => /\ loud' = Nominal
            /\ fails' = 0 => \A c \in rooms' : volume'[c] = own'[c]]_vars
=============================================================================
