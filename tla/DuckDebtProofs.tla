--------------------------- MODULE DuckDebtProofs ---------------------------
(***************************************************************************)
(* Theorems about DuckDebt for any replies, rooms and volumes: its types,  *)
(* and, where the overlaps of Races do not happen, that what is lowered is *)
(* owed and that everything is put back.                                   *)
(***************************************************************************)
EXTENDS DuckDebt, TLAPS

Loops == {"raising", "clearing"}
Restored == {"resuming", "owing", "paying", "paid", "rowing", "release"}
Ending == {"unducking"} \cup Loops \cup Restored

\* What a restore goes through is in its copy of the marker, and so is the
\* music's debt that it pays.
LoopInv ==
  \A r \in Replies :
    /\ pc[r] \in Loops => todo[r] \cup failed[r] \subseteq DOMAIN plan[r]
    /\ pc[r] = "paying" => ducked[r] # {}

BaseInv ==
  PcTypes /\ RoomTypes /\ MusicTypes /\ PhoneTypes /\ CountTypes /\ LoopInv

\* One reply at a time is between the token and its end, but for those that
\* stepped aside as they spoke; a duck is done or decided for one that has it.
TokenInv ==
  /\ \A r \in Replies : pc[r] \in Beginning \cup Ending => token = r
  /\ \A r \in Replies : pc[r] = "speaking" => token = r \/ r \in aside
  /\ \A r \in aside : pc[r] = "speaking" /\ r \notin OnPhone /\ token # r
  /\ \A r \in OnPhone : pc[r] = "rendering" => token = r
  /\ \A r \in deferred : r \in OnPhone /\ pc[r] = "speaking" /\ ducker[r] = "off"
  /\ \A r \in Replies :
       ducker[r] # "off" => pc[r] = IF r \in OnPhone THEN "speaking" ELSE "ducking"

\* The volumes are those the listener gave the rooms.
OwnIn(vols) == \A c \in DOMAIN vols \cap rooms : vols[c] = own[c]

\* How far a reply is in writing the marker, lowering the rooms and raising them.
RoomOf(r) ==
  /\ pc[r] = "marking" => OwnIn(plan[r]) /\ owed \in {<<>>, plan[r]}
  /\ pc[r] = "lowering" => todo[r] \subseteq DOMAIN owed
  /\ pc[r] \in Loops =>
       /\ owed = plan[r]
       /\ \A c \in DOMAIN owed \cap rooms :
            c \in todo[r] \cup failed[r] \/ volume[c] = own[c]
  /\ pc[r] = "clearing" => todo[r] = {}
  /\ fails = 0 => failed[r] = {} /\ (pc[r] \in Restored => owed = <<>>)

RoomInv == OwnIn(owed) /\ RoomsAreOwed /\ \A r \in Replies : RoomOf(r)

\* How far a reply is in ducking the music and in undoing that.
MusicOf(r) ==
  /\ ducker[r] \in {"mark", "duck"} => strategy = "duck"
  /\ ducker[r] = "duck" => debt = {Nominal}
  /\ pc[r] = "paid" => loud = Nominal
  /\ pc[r] = "rowing" => debt = {} /\ (ducked[r] = {} \/ loud = Nominal)
  /\ pc[r] = "release" => debt = {} /\ row = {} /\ loud = Nominal

\* The music's marker and row; only what calls for a pause is paused.
MusicInv ==
  /\ MusicIsOwed
  /\ strategy = "pause" => loud = Nominal
  /\ ~playing => strategy = "pause"
  /\ \A x \in row : x[1] = strategy
  /\ \A r \in Replies : MusicOf(r)

\* The phone's media: who looks at them, and who stopped them.
PauseInv ==
  /\ \A r \in Replies : pauser[r] = "running" =>
       pc[r] \in {"rendering", "reading", "marking", "lowering", "waiting"}
  /\ \A r \in paused : pc[r] \in {"rendering", "speaking", "unducking", "resuming"}
                                 \cup Beginning \cup Loops

\* With no crash and no refusal: what is stopped is to be started by somebody,
\* and nothing is owed that nobody is there to pay.
Untroubled == NobodyDied /\ fails = 0

WillPlay == ~playing => (\E x \in row : x[1] = "pause") \/ \E r \in Replies : ducker[r] = "row"
WillResume == ~phone => paused # {}
NothingOwed == AllQuiet => owed = <<>> /\ debt = {} /\ row = {}

RestInv == Untroubled => WillPlay /\ WillResume /\ NothingOwed

DebtInv == TokenInv /\ RoomInv /\ MusicInv /\ PauseInv /\ RestInv

-----------------------------------------------------------------------------
(* The base: types, and what a restore has in hand *)

LEMMA PartialOf ==
  ASSUME NEW S, NEW T, NEW X \in SUBSET S, NEW f \in [X -> T]
  PROVE  f \in Partial(S, T)
BY DEF Partial

LEMMA OfPartial ==
  ASSUME NEW S, NEW T, NEW f \in Partial(S, T)
  PROVE  /\ DOMAIN f \in SUBSET S /\ \A x \in DOMAIN f : f[x] \in T
         /\ f \in [DOMAIN f -> T]
BY DEF Partial

LEMMA Nothing ==
  ASSUME NEW S, NEW T
  PROVE  <<>> \in Partial(S, T) /\ DOMAIN <<>> = {}
<1>1. <<>> \in [{} -> T] /\ {} \in SUBSET S /\ DOMAIN <<>> = {}
  OBVIOUS
<1> QED
  BY <1>1, PartialOf

LEMMA InitBase == Init => BaseInv
<1> SUFFICES ASSUME Init PROVE BaseInv
  OBVIOUS
<1>1. PcTypes
  BY DEF Init, PcTypes, Quiet
<1>2. RoomTypes
  <2>1. Nominal \in Volumes /\ <<>> \in Partial(Rooms, Volumes \cup {Level})
    BY Nothing, DuckAssumption DEF DuckAssumption
  <2> QED
    BY <2>1 DEF Init, RoomTypes
<1>3. MusicTypes
  BY DuckAssumption DEF Init, MusicTypes, DuckAssumption
<1>4. PhoneTypes
  BY DEF Init, PhoneTypes
<1>5. CountTypes
  BY DuckAssumption DEF Init, CountTypes, DuckAssumption
<1>6. LoopInv
  BY DEF Init, LoopInv, Loops
<1> QED
  BY <1>1, <1>2, <1>3, <1>4, <1>5, <1>6 DEF BaseInv

\* Where the others are as one reply goes on.
LEMMA Goes ==
  ASSUME PcTypes, NEW r \in Replies, NEW where, Goto(r, where)
  PROVE  /\ pc'[r] = where /\ \A s \in Replies : s # r => pc'[s] = pc[s]
         /\ pc' \in [Replies -> Quiet \cup Beginning \cup Ending \cup {"speaking", where}]
BY DEF PcTypes, Goto, Ending, Loops, Restored

LEMMA GoesOn ==
  ASSUME PcTypes, NEW r \in Replies, NEW where \in Quiet \cup Beginning \cup Ending \cup {"speaking"},
         Goto(r, where), token' \in Replies \cup {NoReply}, aside' \subseteq Replies,
         muted' \subseteq Replies
  PROVE  PcTypes'
BY DEF PcTypes, Goto, Ending, Loops, Restored

\* The counters.
LEMMA FailCounted ==
  ASSUME CountTypes, fails' = fails \/ (fails < MaxFails /\ fails' = fails + 1),
         dials' = dials \/ (dials < MaxDials /\ dials' = dials + 1)
  PROVE  CountTypes' /\ (fails' = 0 => fails = 0)
<1>1. fails \in 0 .. MaxFails /\ dials \in 0 .. MaxDials /\ MaxFails \in Nat /\ MaxDials \in Nat
  BY DuckAssumption DEF CountTypes, DuckAssumption
<1>2. fails' \in 0 .. MaxFails /\ dials' \in 0 .. MaxDials /\ (fails' = 0 => fails = 0)
  BY <1>1
<1> QED
  BY <1>2 DEF CountTypes

\* A step that changes no room, and nothing that a restore has in hand.
LEMMA RoomsRest ==
  ASSUME BaseInv, UNCHANGED <<own, volume, rooms, owed, plan, todo, failed>>,
         \A s \in Replies : /\ pc'[s] \in Loops => pc[s] \in Loops
                            /\ pc'[s] = "paying" => ducked'[s] # {}
  PROVE  RoomTypes' /\ LoopInv'
<1>1. RoomTypes'
  BY DEF BaseInv, RoomTypes
<1>2. LoopInv'
  BY DEF BaseInv, LoopInv
<1> QED
  BY <1>1, <1>2

\* The steps before a reply sounds that change no room.
LEMMA OpeningBase ==
  ASSUME BaseInv, NEW r \in Replies,
         PrePause(r) \/ TakeToken(r) \/ Decide(r) \/ Begun(r) \/ CancelPrePause(r)
  PROVE  BaseInv'
<1>1. UNCHANGED <<own, volume, rooms, owed, plan, todo, failed, muted, aside, fails, dials,
                  loud, playing, strategy, debt, row, base, ducked>>
  BY DEF PrePause, TakeToken, Decide, Begun, CancelPrePause, roomVars, musicVars
<1>2. PICK where \in {"rendering", "reading", "speaking", "ducking", "cancelled"} : Goto(r, where)
  BY DEF PrePause, TakeToken, Decide, Begun, CancelPrePause
<1>3. token' \in {token, r}
  BY DEF PrePause, TakeToken, Decide, Begun, CancelPrePause
<1>4. PcTypes'
  <2>1. where \in Quiet \cup Beginning \cup Ending \cup {"speaking"}
    BY DEF Quiet, Beginning
  <2>2. /\ token' \in Replies \cup {NoReply} /\ aside' \subseteq Replies
        /\ muted' \subseteq Replies
    BY <1>1, <1>3 DEF BaseInv, PcTypes
  <2> QED
    BY <1>2, <2>1, <2>2, GoesOn DEF BaseInv
<1>5. \A s \in Replies : pc'[s] \in Loops \cup {"paying"} => pc'[s] = pc[s]
  BY <1>2, Goes DEF BaseInv, Loops
<1>6. RoomTypes' /\ LoopInv'
  <2>1. \A s \in Replies : /\ pc'[s] \in Loops => pc[s] \in Loops
                           /\ pc'[s] = "paying" => ducked'[s] # {}
    BY <1>1, <1>5 DEF BaseInv, LoopInv
  <2> QED
    BY <1>1, <2>1, RoomsRest
<1>7. MusicTypes'
  <2>1. ducker' \in [Replies -> {"off", "begin", "mark", "duck", "row"}] /\ deferred' \subseteq Replies
    BY DEF PrePause, TakeToken, Decide, Begun, CancelPrePause, musicVars, BaseInv, MusicTypes
  <2> QED
    BY <1>1, <2>1 DEF BaseInv, MusicTypes
<1>8. PhoneTypes'
  <2>1. CASE PrePause(r)
    BY <2>1 DEF PrePause, BaseInv, PhoneTypes
  <2>2. CASE CancelPrePause(r)
    BY <2>2 DEF CancelPrePause, ResumePhone, BaseInv, PhoneTypes
  <2>3. CASE TakeToken(r) \/ Decide(r) \/ Begun(r)
    BY <2>3 DEF TakeToken, Decide, Begun, phoneVars, BaseInv, PhoneTypes
  <2> QED
    BY <2>1, <2>2, <2>3
<1>9. CountTypes'
  BY <1>1 DEF BaseInv, CountTypes
<1> QED
  BY <1>4, <1>6, <1>7, <1>8, <1>9 DEF BaseInv

\* The steps that duck and restore the rooms.
LEMMA RoomsBase ==
  ASSUME BaseInv, NEW r \in Replies,
         RoomsRead(r) \/ RoomsMark(r) \/ RoomsLower(r) \/ RoomsOwed(r) \/ RoomsRaise(r) \/ RoomsClear(r)
  PROVE  BaseInv'
<1> DEFINE V == Volumes \cup {Level}
<1>1. /\ UNCHANGED <<token, aside, muted, own, rooms, dials>>
      /\ UNCHANGED musicVars /\ UNCHANGED phoneVars
  BY DEF RoomsRead, RoomsMark, RoomsLower, RoomsOwed, RoomsRaise, RoomsClear
<1>2. PICK where \in {"waiting", "marking", "lowering", "resuming", "raising", "clearing"} :
        Goto(r, where)
  BY DEF RoomsRead, RoomsMark, RoomsLower, RoomsOwed, RoomsRaise, RoomsClear
<1>3. PcTypes'
  <2>1. where \in Quiet \cup Beginning \cup Ending \cup {"speaking"}
    BY DEF Quiet, Beginning, Ending, Loops, Restored
  <2>2. /\ token' \in Replies \cup {NoReply} /\ aside' \subseteq Replies
        /\ muted' \subseteq Replies
    BY <1>1 DEF BaseInv, PcTypes
  <2> QED
    BY <1>2, <2>1, <2>2, GoesOn DEF BaseInv
<1>4. MusicTypes' /\ PhoneTypes'
  BY <1>1 DEF musicVars, phoneVars, BaseInv, MusicTypes, PhoneTypes
<1>5. CountTypes'
  <2>1. fails' = fails \/ (fails < MaxFails /\ fails' = fails + 1)
    <3>1. CASE RoomsLower(r)
      BY <3>1 DEF RoomsLower
    <3>2. CASE ~RoomsLower(r)
      BY <3>2 DEF RoomsRead, RoomsMark, RoomsOwed, RoomsRaise, RoomsClear
    <3> QED
      BY <3>1, <3>2
  <2> QED
    BY <1>1, <2>1, FailCounted DEF BaseInv
<1>6. \A s \in Replies : s # r => pc'[s] = pc[s]
  BY <1>2, Goes DEF BaseInv
<1>7. pc'[r] = where /\ where # "paying"
  BY <1>2, Goes DEF BaseInv
<1>8. /\ own \in [Rooms -> Volumes] /\ volume \in [Rooms -> V] /\ rooms \subseteq Rooms
      /\ owed \in Partial(Rooms, V) /\ plan \in [Replies -> Partial(Rooms, V)]
      /\ todo \in [Replies -> SUBSET Rooms] /\ failed \in [Replies -> SUBSET Rooms]
  BY DEF BaseInv, RoomTypes
<1>9. plan[r] \in Partial(Rooms, V) /\ DOMAIN plan[r] \subseteq Rooms /\ DOMAIN owed \subseteq Rooms
      /\ \A c \in DOMAIN plan[r] : plan[r][c] \in V
  <2>1. plan[r] \in Partial(Rooms, V)
    BY <1>8
  <2> HIDE DEF V
  <2>2. DOMAIN plan[r] \subseteq Rooms /\ \A c \in DOMAIN plan[r] : plan[r][c] \in V
    BY <2>1, OfPartial
  <2>3. DOMAIN owed \subseteq Rooms
    BY <1>8, OfPartial
  <2> QED
    BY <2>1, <2>2, <2>3
<1> HIDE DEF V
<1>10. CASE RoomsRead(r)
  <2>1. Captured \in Partial(Rooms, V)
    <3>1. [c \in rooms |-> volume[c]] \in [rooms -> V] /\ rooms \in SUBSET Rooms
      BY <1>8
    <3>2. [c \in rooms |-> volume[c]] \in Partial(Rooms, V)
      BY <3>1, PartialOf
    <3> QED
      BY <1>8, <3>2 DEF Captured
  <2>2. plan' = [plan EXCEPT ![r] = Captured] /\ UNCHANGED <<volume, owed, todo, failed>>
    BY <1>10 DEF RoomsRead
  <2>3. plan' \in [Replies -> Partial(Rooms, V)]
    BY <1>8, <2>1, <2>2
  <2>4. RoomTypes'
    BY <1>1, <1>8, <2>2, <2>3 DEF RoomTypes, V
  <2>5. pc'[r] \notin Loops
    BY <1>10, Goes DEF RoomsRead, BaseInv, Loops
  <2>6. \A s \in Replies : s # r => plan'[s] = plan[s]
    BY <2>2
  <2>7. LoopInv'
    BY <1>1, <1>6, <1>7, <2>2, <2>5, <2>6 DEF BaseInv, LoopInv, musicVars
  <2> QED
    BY <1>3, <1>4, <1>5, <2>4, <2>7 DEF BaseInv
<1>11. CASE RoomsMark(r) \/ RoomsLower(r)
  <2>1. UNCHANGED <<plan, failed>> /\ (owed' = owed \/ owed' = plan[r])
    BY <1>11 DEF RoomsMark, RoomsLower
  <2>2. volume' \in [Rooms -> V]
    <3>1. volume' = volume \/ \E c \in todo[r] : volume' = [volume EXCEPT ![c] = Level]
      BY <1>11 DEF RoomsMark, RoomsLower
    <3>2. Level \in V
      BY DEF V
    <3> QED
      BY <1>8, <3>1, <3>2
  <2>3. todo' \in [Replies -> SUBSET Rooms] /\ \A s \in Replies : s # r => todo'[s] = todo[s]
    <3>1. CASE RoomsMark(r)
      <4>1. todo' = [todo EXCEPT ![r] = {c \in DOMAIN plan[r] : plan[r][c] > Level}]
        BY <3>1 DEF RoomsMark
      <4> QED
        BY <1>8, <1>9, <4>1
    <3>2. CASE RoomsLower(r)
      <4>1. PICK X \in SUBSET todo[r] : todo' = [todo EXCEPT ![r] = X]
        BY <3>2 DEF RoomsLower
      <4> QED
        BY <1>8, <4>1
    <3> QED
      BY <1>11, <3>1, <3>2
  <2>4. owed' \in Partial(Rooms, V)
    BY <1>8, <1>9, <2>1
  <2>5. RoomTypes'
    BY <1>1, <1>8, <2>1, <2>2, <2>3, <2>4 DEF RoomTypes, V
  <2>6. pc'[r] \notin Loops
    BY <1>11, Goes DEF RoomsMark, RoomsLower, BaseInv, Loops
  <2>7. LoopInv'
    BY <1>1, <1>6, <1>7, <2>1, <2>3, <2>6 DEF BaseInv, LoopInv, musicVars
  <2> QED
    BY <1>3, <1>4, <1>5, <2>5, <2>7 DEF BaseInv
<1>12. CASE RoomsOwed(r)
  <2>1. /\ plan' = [plan EXCEPT ![r] = owed] /\ todo' = [todo EXCEPT ![r] = DOMAIN owed]
        /\ failed' = [failed EXCEPT ![r] = {}] /\ UNCHANGED <<volume, owed>>
    BY <1>12 DEF RoomsOwed
  <2>2. /\ plan' \in [Replies -> Partial(Rooms, V)] /\ todo' \in [Replies -> SUBSET Rooms]
        /\ failed' \in [Replies -> SUBSET Rooms]
    BY <1>8, <1>9, <2>1
  <2>3. RoomTypes'
    BY <1>1, <1>8, <2>1, <2>2 DEF RoomTypes, V
  <2>4. /\ \A s \in Replies : s # r =>
             plan'[s] = plan[s] /\ todo'[s] = todo[s] /\ failed'[s] = failed[s]
        /\ todo'[r] \cup failed'[r] \subseteq DOMAIN plan'[r]
    BY <1>8, <2>1
  <2>5. LoopInv'
    BY <1>1, <1>6, <1>7, <2>4 DEF BaseInv, LoopInv, musicVars
  <2> QED
    BY <1>3, <1>4, <1>5, <2>3, <2>5 DEF BaseInv
<1>13. CASE RoomsRaise(r)
  <2>1. PICK c \in todo[r] :
          /\ todo' = [todo EXCEPT ![r] = @ \ {c}]
          /\ volume' = volume \/ volume' = [volume EXCEPT ![c] = plan[r][c]]
          /\ failed' = failed \/ failed' = [failed EXCEPT ![r] = @ \cup {c}]
    BY <1>13 DEF RoomsRaise
  <2>2. UNCHANGED <<plan, owed>> /\ pc[r] \in Loops
    BY <1>13 DEF RoomsRaise, Loops
  <2>3. todo[r] \cup failed[r] \subseteq DOMAIN plan[r]
    BY <2>2 DEF BaseInv, LoopInv
  <2>4. plan[r][c] \in V /\ c \in Rooms
    BY <1>9, <2>3
  <2>5. /\ volume' \in [Rooms -> V] /\ todo' \in [Replies -> SUBSET Rooms]
        /\ failed' \in [Replies -> SUBSET Rooms]
    BY <1>8, <2>1, <2>4
  <2>6. RoomTypes'
    BY <1>1, <1>8, <2>2, <2>5 DEF RoomTypes, V
  <2>7. /\ \A s \in Replies : s # r => todo'[s] = todo[s] /\ failed'[s] = failed[s]
        /\ todo'[r] \cup failed'[r] \subseteq todo[r] \cup failed[r]
    BY <1>8, <2>1
  <2>8. LoopInv'
    BY <1>1, <1>6, <1>7, <2>2, <2>3, <2>7 DEF BaseInv, LoopInv, musicVars
  <2> QED
    BY <1>3, <1>4, <1>5, <2>6, <2>8 DEF BaseInv
<1>14. CASE RoomsClear(r)
  <2>1. /\ owed' = StillOwed(r) /\ UNCHANGED <<volume, plan, todo, failed>>
        /\ pc[r] \in Loops
    BY <1>14 DEF RoomsClear, Loops
  <2>2. failed[r] \subseteq DOMAIN plan[r]
    BY <2>1 DEF BaseInv, LoopInv
  <2>3. failed[r] \in SUBSET Rooms /\ \A c \in failed[r] : plan[r][c] \in V
    BY <1>9, <2>2
  <2>4. StillOwed(r) \in [failed[r] -> V]
    BY <2>3 DEF StillOwed
  <2>5. owed' \in Partial(Rooms, V)
    BY <2>1, <2>3, <2>4, PartialOf
  <2>6. RoomTypes'
    BY <1>1, <1>8, <2>1, <2>5 DEF RoomTypes, V
  <2>7. pc'[r] \notin Loops
    BY <1>14, Goes DEF RoomsClear, BaseInv, Loops
  <2>8. LoopInv'
    BY <1>1, <1>6, <1>7, <2>1, <2>7 DEF BaseInv, LoopInv, musicVars
  <2> QED
    BY <1>3, <1>4, <1>5, <2>6, <2>8 DEF BaseInv
<1> QED
  BY <1>10, <1>11, <1>12, <1>13, <1>14

\* _interrupt_music and what starts it.
LEMMA MusicBase ==
  ASSUME BaseInv, NEW r \in Replies, DuckMusicNow(r) \/ InterruptMusic(r)
  PROVE  BaseInv'
<1>1. /\ UNCHANGED <<pc, token, aside, muted, own, strategy, ducked, dials>>
      /\ UNCHANGED roomVars /\ UNCHANGED phoneVars
  BY DEF DuckMusicNow, InterruptMusic, PauseMusic, ReadVolume, MarkMusic, Duck, DuckFails, SetRow,
         Ducks
<1>2. PcTypes' /\ PhoneTypes'
  BY <1>1 DEF BaseInv, PcTypes, PhoneTypes, phoneVars
<1>3. RoomTypes' /\ LoopInv'
  <2>1. \A s \in Replies : /\ pc'[s] \in Loops => pc[s] \in Loops
                           /\ pc'[s] = "paying" => ducked'[s] # {}
    BY <1>1 DEF BaseInv, LoopInv
  <2> QED
    BY <1>1, <2>1, RoomsRest DEF roomVars
<1>4. CountTypes'
  <2>1. fails' = fails \/ (fails < MaxFails /\ fails' = fails + 1)
    BY DEF DuckMusicNow, InterruptMusic, PauseMusic, ReadVolume, MarkMusic, Duck, DuckFails, SetRow
  <2> QED
    BY <1>1, <2>1, FailCounted DEF BaseInv
<1>5. MusicTypes'
  <2>1. Baseline = Nominal
    <3>1. debt # {} => (CHOOSE b \in debt : TRUE) = Nominal
      BY DEF BaseInv, MusicTypes
    <3>2. ~(Level > Level)
      BY DuckAssumption DEF DuckAssumption
    <3>3. loud > Level => loud = Nominal
      BY <3>2 DEF BaseInv, MusicTypes
    <3> QED
      BY <3>1, <3>3 DEF Baseline
  <2>2. \E at \in {"off", "begin", "mark", "duck", "row"} : ducker' = [ducker EXCEPT ![r] = at]
    BY DEF DuckMusicNow, InterruptMusic, PauseMusic, ReadVolume, MarkMusic, Duck, DuckFails,
           SetRow, Ducks
  <2>3. ducker' \in [Replies -> {"off", "begin", "mark", "duck", "row"}]
    BY <2>2 DEF BaseInv, MusicTypes
  <2>4. /\ base' = base \/ base' = [base EXCEPT ![r] = Nominal]
        /\ deferred' \subseteq deferred
    BY <2>1 DEF DuckMusicNow, InterruptMusic, PauseMusic, ReadVolume, MarkMusic, Duck, DuckFails,
                SetRow, Ducks
  <2>5. base' \in [Replies -> {Nominal}] /\ base[r] = Nominal
    BY <2>4 DEF BaseInv, MusicTypes
  <2>6. /\ loud' \in {loud, Level} /\ playing' \in {playing, FALSE}
        /\ debt' \in {debt, {Nominal}} /\ row' \in {row, {<<strategy, Nominal>>}}
    BY <2>5 DEF DuckMusicNow, InterruptMusic, PauseMusic, ReadVolume, MarkMusic, MusicMarker, Duck,
                DuckFails, SetRow
  <2>7. loud' \in {Level, Nominal} /\ playing' \in BOOLEAN
    BY <2>6 DEF BaseInv, MusicTypes
  <2>8. debt' \in SUBSET {Nominal} /\ strategy \in {"duck", "pause"}
    BY <2>6 DEF BaseInv, MusicTypes
  <2>9. row' \in SUBSET ({"duck", "pause"} \X {Nominal})
    BY <2>6, <2>8 DEF BaseInv, MusicTypes
  <2>10. deferred' \subseteq Replies
    BY <2>4 DEF BaseInv, MusicTypes
  <2>11. strategy' \in {"duck", "pause"} /\ ducked' \in [Replies -> SUBSET {Nominal}]
    BY <1>1 DEF BaseInv, MusicTypes
  <2> QED
    BY <2>3, <2>5, <2>7, <2>8, <2>9, <2>10, <2>11 DEF MusicTypes
<1> QED
  BY <1>2, <1>3, <1>4, <1>5 DEF BaseInv

\* The baseline the row tells of, if it tells of any.
LEMMA RowOfDuck ==
  ASSUME MusicTypes
  PROVE  /\ RowBaseline \subseteq {Nominal}
         /\ RowBaseline # {} => (CHOOSE b \in RowBaseline : TRUE) = Nominal
<1>1. \A x \in row : x[2] = Nominal
  BY DEF MusicTypes
<1>2. RowBaseline \subseteq {Nominal}
  BY <1>1 DEF RowBaseline
<1> QED
  BY <1>2

LEMMA AsideBase ==
  ASSUME BaseInv, NEW r \in Replies, StepAside(r) \/ Retake(r)
  PROVE  BaseInv'
<1>1. /\ UNCHANGED <<pc, muted, own, fails, dials>>
      /\ UNCHANGED roomVars /\ UNCHANGED musicVars /\ UNCHANGED phoneVars
  BY DEF StepAside, Retake
<1>2. token' \in {r, NoReply} /\ aside' \subseteq aside \cup {r}
  BY DEF StepAside, Retake
<1>3. PcTypes'
  BY <1>1, <1>2 DEF BaseInv, PcTypes
<1>4. RoomTypes' /\ LoopInv'
  BY <1>1 DEF BaseInv, RoomTypes, LoopInv, roomVars, musicVars
<1>5. MusicTypes' /\ PhoneTypes' /\ CountTypes'
  BY <1>1 DEF BaseInv, MusicTypes, PhoneTypes, CountTypes, musicVars, phoneVars
<1> QED
  BY <1>3, <1>4, <1>5 DEF BaseInv

LEMMA MuteBase ==
  ASSUME BaseInv, NEW r \in Replies, ToggleMute(r)
  PROVE  BaseInv'
<1> DEFINE V == Volumes \cup {Level}
<1>1. /\ UNCHANGED <<pc, token, aside, own, rooms, owed, plan, todo, failed, fails, dials>>
      /\ UNCHANGED <<playing, strategy, debt, row, base, ducker, deferred, ducked>>
      /\ UNCHANGED phoneVars
  BY DEF ToggleMute
<1>2. PcTypes'
  <2>1. muted' \subseteq muted \cup {r}
    BY DEF ToggleMute
  <2> QED
    BY <1>1, <2>1 DEF BaseInv, PcTypes
<1>3. volume' \in [Rooms -> V]
  <2>1. volume \in [Rooms -> V] /\ owed \in Partial(Rooms, V)
    BY DEF BaseInv, RoomTypes
  <2>2. Level \in V
    OBVIOUS
  <2> HIDE DEF V
  <2>3. \A c \in DOMAIN owed : owed[c] \in V
    BY <2>1, OfPartial
  <2>4. Lowered(owed) \in [Rooms -> V]
    BY <2>1, <2>2 DEF Lowered
  <2>5. Raised(owed) \in [Rooms -> V]
    BY <2>1, <2>3 DEF Raised
  <2> QED
    BY <2>4, <2>5 DEF ToggleMute
<1>4. RoomTypes' /\ LoopInv'
  BY <1>1, <1>3 DEF BaseInv, RoomTypes, LoopInv
<1>5. MusicTypes'
  <2>1. loud' \in {Level, loud, Nominal}
    BY RowOfDuck DEF ToggleMute, BaseInv
  <2> QED
    BY <1>1, <2>1 DEF BaseInv, MusicTypes
<1>6. PhoneTypes' /\ CountTypes'
  BY <1>1 DEF BaseInv, PhoneTypes, CountTypes, phoneVars
<1> QED
  BY <1>2, <1>4, <1>5, <1>6 DEF BaseInv

\* The steps after a reply that change no room.
LEMMA EndingBase ==
  ASSUME BaseInv, NEW r \in Replies,
         \/ AfterSpeech(r) \/ Resume(r) \/ ReadDebt(r) \/ PayDebt(r)
         \/ ClearDebt(r) \/ RestoreRow(r) \/ Release(r)
  PROVE  BaseInv'
<1>1. UNCHANGED <<aside, own, fails, dials, volume, rooms, owed, plan, todo, failed, strategy, base,
                  ducker, pauser>>
  BY DEF AfterSpeech, Resume, ReadDebt, PayDebt, ClearDebt, RestoreRow, Release, roomVars,
         musicVars, phoneVars
<1>2. PICK where \in {"unducking", "owing", "rowing", "paying", "paid", "release", "done"} :
        Goto(r, where)
  BY DEF AfterSpeech, Resume, ReadDebt, PayDebt, ClearDebt, RestoreRow, Release
<1>3. token' \in {token, NoReply} /\ muted' \subseteq muted
  BY DEF AfterSpeech, Resume, ReadDebt, PayDebt, ClearDebt, RestoreRow, Release
<1>4. PcTypes'
  <2>1. where \in Quiet \cup Beginning \cup Ending \cup {"speaking"}
    BY DEF Quiet, Beginning, Ending, Loops, Restored
  <2>2. /\ token' \in Replies \cup {NoReply} /\ aside' \subseteq Replies
        /\ muted' \subseteq Replies
    BY <1>1, <1>3 DEF BaseInv, PcTypes
  <2> QED
    BY <1>2, <2>1, <2>2, GoesOn DEF BaseInv
<1>5. \A s \in Replies : s # r => pc'[s] = pc[s]
  BY <1>2, Goes DEF BaseInv
<1>6. pc'[r] = where
  BY <1>2, Goes DEF BaseInv
<1>7. ducked' \in [Replies -> SUBSET {Nominal}] /\ \A s \in Replies : s # r => ducked'[s] = ducked[s]
  <2>1. ducked' = ducked \/ ducked' = [ducked EXCEPT ![r] = debt]
    BY DEF AfterSpeech, Resume, ReadDebt, PayDebt, ClearDebt, RestoreRow, Release, musicVars,
           DebtInForce
  <2> QED
    BY <2>1 DEF BaseInv, MusicTypes
<1>8. pc'[r] = "paying" => ducked'[r] # {}
  <2>1. CASE ReadDebt(r)
    <3>1. ducked' = [ducked EXCEPT ![r] = debt] /\ (where = "paying" => debt # {})
      BY <2>1, <1>6, Goes DEF ReadDebt, DebtInForce, BaseInv
    <3> QED
      BY <1>6, <3>1 DEF BaseInv, MusicTypes
  <2>2. CASE ~ReadDebt(r)
    BY <2>2, Goes DEF AfterSpeech, Resume, PayDebt, ClearDebt, RestoreRow, Release, BaseInv
  <2> QED
    BY <2>1, <2>2
<1>9. RoomTypes' /\ LoopInv'
  <2>1. \A s \in Replies : /\ pc'[s] \in Loops => pc[s] \in Loops
                           /\ pc'[s] = "paying" => ducked'[s] # {}
    BY <1>5, <1>6, <1>7, <1>8 DEF BaseInv, LoopInv, Loops
  <2> QED
    BY <1>1, <2>1, RoomsRest
<1>10. MusicTypes'
  <2>1. loud' \in {Level, Nominal}
    <3>1. CASE PayDebt(r)
      <4>1. ducked[r] = {Nominal} /\ loud' = CHOOSE b \in ducked[r] : TRUE
        BY <3>1 DEF PayDebt, BaseInv, LoopInv, MusicTypes
      <4> QED
        BY <4>1
    <3>2. CASE RestoreRow(r)
      <4>1. loud' \in {loud, Nominal}
        BY <3>2, RowOfDuck DEF RestoreRow, BaseInv
      <4> QED
        BY <4>1 DEF BaseInv, MusicTypes
    <3>3. CASE ~PayDebt(r) /\ ~RestoreRow(r)
      <4>1. loud' = loud
        BY <3>3 DEF AfterSpeech, Resume, ReadDebt, ClearDebt, Release, musicVars
      <4> QED
        BY <4>1 DEF BaseInv, MusicTypes
    <3> QED
      BY <3>1, <3>2, <3>3
  <2>2. playing' \in BOOLEAN
    <3>1. CASE RestoreRow(r)
      BY <3>1 DEF RestoreRow
    <3>2. CASE ~RestoreRow(r)
      BY <3>2 DEF AfterSpeech, Resume, ReadDebt, PayDebt, ClearDebt, Release, musicVars, BaseInv,
                  MusicTypes
    <3> QED
      BY <3>1, <3>2
  <2>3. /\ debt' \in {debt, {}} /\ row' \in {row, {}} /\ deferred' \subseteq deferred
    BY DEF AfterSpeech, Resume, ReadDebt, PayDebt, ClearDebt, RestoreRow, Release, musicVars, Dropped
  <2>4. debt' \in SUBSET {Nominal} /\ row' \in SUBSET ({"duck", "pause"} \X {Nominal})
        /\ deferred' \subseteq Replies
    BY <2>3 DEF BaseInv, MusicTypes
  <2>5. /\ strategy' \in {"duck", "pause"} /\ base' \in [Replies -> {Nominal}]
        /\ ducker' \in [Replies -> {"off", "begin", "mark", "duck", "row"}]
    BY <1>1 DEF BaseInv, MusicTypes
  <2> QED
    BY <1>7, <2>1, <2>2, <2>4, <2>5 DEF MusicTypes
<1>11. PhoneTypes'
  <2>1. phone' \in BOOLEAN /\ paused' \subseteq paused
    BY DEF AfterSpeech, Resume, ReadDebt, PayDebt, ClearDebt, RestoreRow, Release, phoneVars,
           ResumePhone, BaseInv, PhoneTypes
  <2> QED
    BY <1>1, <2>1 DEF BaseInv, PhoneTypes
<1>12. CountTypes'
  BY <1>1 DEF BaseInv, CountTypes
<1> QED
  BY <1>4, <1>9, <1>10, <1>11, <1>12 DEF BaseInv

LEMMA PhoneBase ==
  ASSUME BaseInv, NEW r \in Replies, PausePhone(r)
  PROVE  BaseInv'
<1>1. /\ UNCHANGED <<pc, token, aside, muted, own, fails, dials>>
      /\ UNCHANGED roomVars /\ UNCHANGED musicVars
  BY DEF PausePhone
<1>2. PcTypes' /\ CountTypes' /\ MusicTypes'
  BY <1>1 DEF BaseInv, PcTypes, CountTypes, MusicTypes, musicVars
<1>3. RoomTypes' /\ LoopInv'
  BY <1>1 DEF BaseInv, RoomTypes, LoopInv, roomVars, musicVars
<1>4. PhoneTypes'
  BY DEF PausePhone, BaseInv, PhoneTypes
<1> QED
  BY <1>2, <1>3, <1>4 DEF BaseInv

LEMMA CrashBase ==
  ASSUME BaseInv, NEW r \in Replies, Crash(r)
  PROVE  BaseInv'
<1>1. /\ UNCHANGED <<own, phone, fails, dials>>
      /\ UNCHANGED <<loud, playing, strategy, debt, row, base, ducked>>
      /\ UNCHANGED roomVars
  BY DEF Crash
<1>2. Goto(r, "dead") /\ token' \in {token, NoReply} /\ aside' \subseteq aside /\ muted' \subseteq muted
  BY DEF Crash
<1>3. PcTypes'
  <2>1. "dead" \in Quiet \cup Beginning \cup Ending \cup {"speaking"}
    BY DEF Quiet
  <2>2. /\ token' \in Replies \cup {NoReply} /\ aside' \subseteq Replies
        /\ muted' \subseteq Replies
    BY <1>2 DEF BaseInv, PcTypes
  <2> QED
    BY <1>2, <2>1, <2>2, GoesOn DEF BaseInv
<1>4. \A s \in Replies : pc'[s] \in Loops \cup {"paying"} => pc'[s] = pc[s]
  BY <1>2, Goes DEF BaseInv, Loops
<1>5. RoomTypes' /\ LoopInv'
  <2>1. \A s \in Replies : /\ pc'[s] \in Loops => pc[s] \in Loops
                           /\ pc'[s] = "paying" => ducked'[s] # {}
    BY <1>1, <1>4 DEF BaseInv, LoopInv
  <2> QED
    BY <1>1, <2>1, RoomsRest DEF roomVars
<1>6. MusicTypes'
  <2>1. /\ ducker' \in [Replies -> {"off", "begin", "mark", "duck", "row"}]
        /\ deferred' \subseteq Replies
    BY DEF Crash, BaseInv, MusicTypes
  <2> QED
    BY <1>1, <2>1 DEF BaseInv, MusicTypes
<1>7. PhoneTypes'
  BY DEF Crash, BaseInv, PhoneTypes
<1>8. CountTypes'
  BY <1>1 DEF BaseInv, CountTypes
<1> QED
  BY <1>3, <1>5, <1>6, <1>7, <1>8 DEF BaseInv

LEMMA RoomGoesBase ==
  ASSUME BaseInv, NEW c \in Rooms, RoomGoes(c)
  PROVE  BaseInv'
<1>1. /\ UNCHANGED <<pc, token, aside, muted, own, volume, owed, plan, todo, failed, fails, dials>>
      /\ UNCHANGED musicVars /\ UNCHANGED phoneVars /\ rooms' = rooms \ {c}
  BY DEF RoomGoes
<1>2. PcTypes' /\ CountTypes' /\ MusicTypes' /\ PhoneTypes'
  BY <1>1 DEF BaseInv, PcTypes, CountTypes, MusicTypes, PhoneTypes, musicVars, phoneVars
<1>3. RoomTypes' /\ LoopInv'
  BY <1>1 DEF BaseInv, RoomTypes, LoopInv, musicVars
<1> QED
  BY <1>2, <1>3 DEF BaseInv

\* The listener's change, as it meets the marker.
LEMMA Dialled ==
  ASSUME RoomTypes, NEW c \in Rooms, NEW want \in Volumes, SetRoom(c, want)
  PROVE  /\ owed = <<>> => owed' = <<>>
         /\ owed # <<>> => /\ DOMAIN owed' = DOMAIN owed \cup {c}
                           /\ owed'[c] = want
                           /\ \A x \in DOMAIN owed \ {c} : owed'[x] = owed[x]
         /\ owed' \in Partial(Rooms, Volumes \cup {Level})
<1> DEFINE V == Volumes \cup {Level}
           New == [x \in DOMAIN owed \cup {c} |-> IF x = c THEN want ELSE owed[x]]
<1>1. owed' = IF owed = <<>> THEN owed ELSE New
  BY DEF SetRoom
<1>2. owed \in Partial(Rooms, V) /\ want \in V
  BY DEF RoomTypes
<1> HIDE DEF V
<1>3. DOMAIN owed \subseteq Rooms /\ \A x \in DOMAIN owed : owed[x] \in V
  BY <1>2, OfPartial
<1>4. New \in [DOMAIN owed \cup {c} -> V] /\ DOMAIN owed \cup {c} \in SUBSET Rooms
  BY <1>2, <1>3
<1>5. New \in Partial(Rooms, V)
  <2> HIDE DEF New
  <2> QED
    BY <1>4, PartialOf
<1>6. DOMAIN New = DOMAIN owed \cup {c} /\ New[c] = want /\ \A x \in DOMAIN owed \ {c} : New[x] = owed[x]
  OBVIOUS
<1> HIDE DEF New
<1>7. owed' \in Partial(Rooms, V)
  BY <1>1, <1>2, <1>5
<1>8. owed' \in Partial(Rooms, Volumes \cup {Level})
  BY <1>7 DEF V
<1>9. (owed = <<>> => owed' = <<>>) /\ (owed # <<>> => owed' = New)
  BY <1>1
<1>10. owed # <<>> => DOMAIN owed' = DOMAIN owed \cup {c} /\ owed'[c] = want
                      /\ \A x \in DOMAIN owed \ {c} : owed'[x] = owed[x]
  BY <1>6, <1>9
<1> QED
  BY <1>8, <1>9, <1>10

LEMMA DialBase ==
  ASSUME BaseInv, NEW c \in Rooms, NEW want \in Volumes, SetRoom(c, want)
  PROVE  BaseInv'
<1>1. /\ UNCHANGED <<pc, token, aside, muted, rooms, plan, todo, failed, fails>>
      /\ UNCHANGED musicVars /\ UNCHANGED phoneVars
  BY DEF SetRoom
<1>2. PcTypes' /\ MusicTypes' /\ PhoneTypes' /\ LoopInv'
  BY <1>1 DEF BaseInv, PcTypes, MusicTypes, PhoneTypes, LoopInv, musicVars, phoneVars
<1>3. own' \in [Rooms -> Volumes] /\ volume' \in [Rooms -> Volumes \cup {Level}]
  <2>1. own' = [own EXCEPT ![c] = want] /\ \E v \in {Level, want} : volume' = [volume EXCEPT ![c] = v]
    BY DEF SetRoom
  <2> QED
    BY <2>1 DEF BaseInv, RoomTypes
<1>4. RoomTypes'
  BY <1>1, <1>3, Dialled DEF BaseInv, RoomTypes
<1>5. CountTypes'
  <2>1. fails' = fails /\ dials < MaxDials /\ dials' = dials + 1
    BY DEF SetRoom
  <2> QED
    BY <2>1, FailCounted DEF BaseInv
<1> QED
  BY <1>2, <1>4, <1>5 DEF BaseInv

LEMMA BaseStep == BaseInv /\ [Next]_vars => BaseInv'
<1> SUFFICES ASSUME BaseInv, [Next]_vars PROVE BaseInv'
  OBVIOUS
<1>1. CASE UNCHANGED vars
  <2>1. /\ UNCHANGED <<pc, token, aside, muted, own, fails, dials>>
        /\ UNCHANGED roomVars /\ UNCHANGED musicVars /\ UNCHANGED phoneVars
    BY <1>1 DEF vars
  <2>2. PcTypes' /\ CountTypes' /\ MusicTypes' /\ PhoneTypes'
    BY <2>1 DEF BaseInv, PcTypes, CountTypes, MusicTypes, PhoneTypes, musicVars, phoneVars
  <2>3. RoomTypes' /\ LoopInv'
    BY <2>1 DEF BaseInv, RoomTypes, LoopInv, roomVars, musicVars
  <2> QED
    BY <2>2, <2>3 DEF BaseInv
<1>2. ASSUME NEW r \in Replies,
             \/ PrePause(r) \/ PausePhone(r) \/ CancelPrePause(r)
             \/ Before(r) \/ DuckMusicNow(r) \/ InterruptMusic(r)
             \/ StepAside(r) \/ Retake(r) \/ ToggleMute(r) \/ After(r) \/ Crash(r)
      PROVE  BaseInv'
  BY <1>2, OpeningBase, PhoneBase, RoomsBase, MusicBase, AsideBase, MuteBase, EndingBase, CrashBase
     DEF Before, After
<1>3. ASSUME NEW c \in Rooms, RoomGoes(c) PROVE BaseInv'
  BY <1>3, RoomGoesBase
<1>4. ASSUME NEW c \in Rooms, NEW want \in Volumes, SetRoom(c, want) PROVE BaseInv'
  BY <1>4, DialBase
<1> QED
  BY <1>1, <1>2, <1>3, <1>4 DEF Next

LEMMA BaseAlways == Spec => []BaseInv
<1> QED
  BY InitBase, BaseStep, PTL DEF Spec

\* The types hold whatever replies there are, however they overlap (Races),
\* die or are refused a volume change.
THEOREM DebtIsTyped == Spec => []TypeOK
<1>1. BaseInv => TypeOK
  BY DEF BaseInv, TypeOK
<1> QED
  BY <1>1, BaseAlways, PTL

-----------------------------------------------------------------------------
(* Whose turn it is *)

LEMMA InitDebt == Init => DebtInv
<1> SUFFICES ASSUME Init PROVE DebtInv
  OBVIOUS
<1>1. TokenInv
  BY DuckAssumption DEF DuckAssumption, Init, TokenInv, Beginning, Ending, Loops, Restored
<1>2. RoomInv
  <2>1. owed = <<>> /\ DOMAIN owed = {}
    BY Nothing DEF Init
  <2> QED
    BY <2>1 DEF Init, RoomInv, RoomOf, RoomsAreOwed, OwnIn, Loops, Restored
<1>3. MusicInv
  BY DEF Init, MusicInv, MusicOf, MusicIsOwed
<1>4. PauseInv
  BY DEF Init, PauseInv
<1>5. RestInv
  BY DEF Init, RestInv, WillPlay, WillResume, NothingOwed
<1> QED
  BY <1>1, <1>2, <1>3, <1>4, <1>5 DEF DebtInv

\* What the token says of the others.
LEMMA Alone ==
  ASSUME TokenInv, NEW r \in Replies, token = r
  PROVE  \A s \in Replies : s # r =>
           pc[s] \notin Beginning \cup Ending /\ ducker[s] = "off" /\ s \notin deferred
<1> SUFFICES ASSUME NEW s \in Replies, s # r
             PROVE  pc[s] \notin Beginning \cup Ending /\ ducker[s] = "off" /\ s \notin deferred
  OBVIOUS
<1>1. pc[s] \notin Beginning \cup Ending
  BY DEF TokenInv
<1>2. s \in OnPhone => pc[s] # "speaking"
  BY DEF TokenInv
<1>3. pc[s] # "ducking"
  BY <1>1 DEF Beginning
<1> QED
  BY <1>1, <1>2, <1>3 DEF TokenInv

\* Who ducks the music has it, and nobody does as a reply ends.
LEMMA DuckerHasIt ==
  ASSUME TokenInv, NEW r \in Replies, ducker[r] # "off"
  PROVE  token = r /\ pc[r] \in {"speaking", "ducking"}
<1>1. pc[r] = IF r \in OnPhone THEN "speaking" ELSE "ducking"
  BY DEF TokenInv
<1>2. r \in OnPhone => token = r
  BY <1>1 DEF TokenInv
<1>3. r \notin OnPhone => token = r
  BY <1>1 DEF TokenInv, Beginning
<1> QED
  BY <1>1, <1>2, <1>3

LEMMA EndsUnducked ==
  ASSUME TokenInv, NEW r \in Replies, pc[r] \in Ending
  PROVE  token = r /\ \A s \in Replies : ducker[s] = "off"
<1>1. token = r
  BY DEF TokenInv
<1>2. pc[r] \notin {"speaking", "ducking"}
  BY DEF Ending, Loops, Restored
<1> QED
  BY <1>1, <1>2, DuckerHasIt

\* Within what only the reply that has the token does.
LEMMA PhasesRest ==
  ASSUME BaseInv, TokenInv, UNCHANGED <<token, aside, deferred>>,
         \A s \in Replies :
           \/ pc'[s] = pc[s]
           \/ /\ pc[s] \in (Beginning \cup Ending) \ {"ducking"}
              /\ pc'[s] \in Beginning \cup Ending,
         \A s \in Replies : ducker'[s] # "off" => ducker[s] # "off"
  PROVE  TokenInv'
<1>1. "speaking" \notin Beginning \cup Ending /\ "rendering" \notin Beginning \cup Ending
      /\ "ducking" \notin Ending
  BY DEF Beginning, Ending, Loops, Restored
<1>2. \A s \in Replies : pc'[s] \in Beginning \cup Ending => token' = s
  BY DEF TokenInv
<1>3. \A s \in Replies : pc'[s] = "speaking" => pc[s] = "speaking"
  BY <1>1
<1>4. \A s \in aside : s \in Replies /\ pc[s] = "speaking"
  BY DEF TokenInv, BaseInv, PcTypes
<1>5. \A s \in Replies : pc[s] = "speaking" => pc'[s] = "speaking"
  BY <1>1
<1>6. \A s \in Replies : pc'[s] = "rendering" => pc[s] = "rendering"
  BY <1>1
<1>7. \A s \in deferred : s \in Replies
  BY DEF BaseInv, MusicTypes
<1>8. \A s \in Replies : pc[s] = "ducking" => pc'[s] = "ducking"
  OBVIOUS
<1>9. \A s \in Replies :
        ducker'[s] # "off" => pc'[s] = IF s \in OnPhone THEN "speaking" ELSE "ducking"
  BY <1>5, <1>8 DEF TokenInv
<1>10. \A s \in OnPhone : pc'[s] = "rendering" => token' = s
  BY <1>6, DuckAssumption DEF DuckAssumption, TokenInv
<1>11. \A s \in aside' : pc'[s] = "speaking" /\ s \notin OnPhone /\ token' # s
  BY <1>4, <1>5 DEF TokenInv
<1>12. \A s \in deferred' : s \in OnPhone /\ pc'[s] = "speaking" /\ ducker'[s] = "off"
  BY <1>5, <1>7 DEF TokenInv
<1>13. \A s \in Replies : pc'[s] = "speaking" => token' = s \/ s \in aside'
  BY <1>3 DEF TokenInv
<1> QED
  BY <1>2, <1>9, <1>10, <1>11, <1>12, <1>13 DEF TokenInv

\* The steps that change who has the token, or who ducks.
LEMMA TurnsStep ==
  ASSUME Races = {}, BaseInv, TokenInv, NEW r \in Replies,
         \/ PrePause(r) \/ CancelPrePause(r) \/ TakeToken(r) \/ Decide(r) \/ Begun(r)
         \/ DuckMusicNow(r) \/ StepAside(r) \/ Retake(r) \/ AfterSpeech(r) \/ Release(r) \/ Crash(r)
  PROVE  TokenInv'
<1>0. /\ "rendering" \notin Beginning \cup Ending /\ "new" \notin Beginning \cup Ending
      /\ "speaking" \notin Beginning \cup Ending /\ "dead" \notin Beginning \cup Ending
      /\ "cancelled" \notin Beginning \cup Ending /\ "done" \notin Beginning \cup Ending
      /\ {"waiting", "reading", "ducking"} \subseteq Beginning
      /\ {"unducking", "release"} \subseteq Ending /\ "ducking" \notin Ending
  BY DEF Beginning, Ending, Loops, Restored
<1>1. \A s \in aside \cup deferred : s \in Replies /\ pc[s] = "speaking"
  BY DEF TokenInv, BaseInv, PcTypes, MusicTypes
<1>2. ducker \in [Replies -> {"off", "begin", "mark", "duck", "row"}] /\ NoReply \notin Replies
      /\ OnPhone \subseteq Replies
  BY DuckAssumption DEF BaseInv, MusicTypes, DuckAssumption
<1>3. CASE PrePause(r)
  <2>1. /\ UNCHANGED <<aside, deferred, ducker>> /\ pc[r] = "new" /\ Goto(r, "rendering")
        /\ r \in OnPhone => token = NoReply /\ token' = r
        /\ r \notin OnPhone => token' = token
    BY <1>3 DEF PrePause, musicVars
  <2>2. pc'[r] = "rendering" /\ \A s \in Replies : s # r => pc'[s] = pc[s]
    BY <2>1, Goes DEF BaseInv
  <2>3. r \notin aside \cup deferred
    BY <1>1, <2>1
  <2>4. r \in OnPhone => \A s \in Replies : pc[s] \notin Beginning \cup Ending
    BY <1>2, <2>1 DEF TokenInv
  <2>5. ducker[r] = "off"
    BY <2>1 DEF TokenInv
  <2>6. \A s \in Replies : pc'[s] \in Beginning \cup Ending => token' = s
    BY <1>0, <2>1, <2>2, <2>4 DEF TokenInv
  <2>7. \A s \in Replies : pc'[s] = "speaking" => token' = s \/ s \in aside'
    BY <1>2, <2>1, <2>2 DEF TokenInv
  <2>8. \A s \in aside' : pc'[s] = "speaking" /\ s \notin OnPhone /\ token' # s
    BY <1>1, <2>1, <2>2, <2>3 DEF TokenInv
  <2>9. \A s \in OnPhone : pc'[s] = "rendering" => token' = s
    BY <1>2, <2>1, <2>2 DEF TokenInv
  <2> QED
    BY <1>1, <2>1, <2>2, <2>3, <2>5, <2>6, <2>7, <2>8, <2>9 DEF TokenInv
<1>4. CASE CancelPrePause(r)
  <2>1. /\ UNCHANGED <<token, aside, deferred, ducker>> /\ pc[r] = "rendering"
        /\ Goto(r, "cancelled")
    BY <1>4 DEF CancelPrePause, musicVars
  <2>2. pc'[r] = "cancelled" /\ \A s \in Replies : s # r => pc'[s] = pc[s]
    BY <2>1, Goes DEF BaseInv
  <2>3. r \notin aside \cup deferred
    BY <1>1, <2>1
  <2>4. ducker[r] = "off"
    BY <2>1 DEF TokenInv
  <2> QED
    BY <1>0, <1>1, <1>2, <2>1, <2>2, <2>3, <2>4 DEF TokenInv
<1>5. CASE TakeToken(r)
  <2>1. /\ UNCHANGED <<aside, deferred, ducker>> /\ pc[r] = "rendering" /\ Goto(r, "reading")
        /\ token' = r /\ token \in {r, NoReply}
    BY <1>5 DEF TakeToken, musicVars
  <2>2. pc'[r] = "reading" /\ \A s \in Replies : s # r => pc'[s] = pc[s]
    BY <2>1, Goes DEF BaseInv
  <2>3. r \notin aside \cup deferred
    BY <1>1, <2>1
  <2>4. ducker[r] = "off"
    BY <2>1 DEF TokenInv
  <2>5. \A s \in Replies : s # r => token # s
    BY <1>2, <2>1
  <2>6. \A s \in Replies : pc'[s] \in Beginning \cup Ending => token' = s
    BY <2>1, <2>2, <2>5 DEF TokenInv
  <2>7. \A s \in OnPhone : pc'[s] = "rendering" => token' = s
    BY <1>2, <2>2, <2>5 DEF TokenInv
  <2>8. \A s \in Replies : pc'[s] = "speaking" => token' = s \/ s \in aside'
    BY <2>1, <2>2, <2>5 DEF TokenInv
  <2> QED
    BY <1>1, <2>1, <2>2, <2>3, <2>4, <2>6, <2>7, <2>8 DEF TokenInv
<1>6. CASE Decide(r)
  <2>1. /\ UNCHANGED <<token, aside>> /\ pc[r] = "waiting"
        /\ \/ Goto(r, "speaking") /\ UNCHANGED <<ducker, deferred>>
           \/ Goto(r, "speaking") /\ r \in OnPhone /\ deferred' = deferred \cup {r} /\ UNCHANGED ducker
           \/ /\ r \notin OnPhone /\ Goto(r, "ducking") /\ UNCHANGED deferred
              /\ ducker' = [ducker EXCEPT ![r] = "begin"]
    BY <1>6 DEF Decide
  <2>2. pc'[r] \in {"speaking", "ducking"} /\ \A s \in Replies : s # r => pc'[s] = pc[s]
    BY <2>1, Goes DEF BaseInv
  <2>3. r \notin aside \cup deferred /\ token = r
    BY <1>0, <1>1, <2>1 DEF TokenInv
  <2>4. ducker[r] = "off"
    BY <2>1 DEF TokenInv
  <2>5. \A s \in deferred' : s \in OnPhone /\ pc'[s] = "speaking" /\ ducker[s] = "off"
    <3>1. \A s \in deferred : s \in OnPhone /\ pc'[s] = "speaking" /\ ducker[s] = "off"
      BY <1>1, <2>2, <2>3 DEF TokenInv
    <3> QED
      BY <2>1, <2>4, <3>1, Goes DEF BaseInv
  <2>6. \A s \in Replies : s # r => ducker'[s] = ducker[s]
    BY <1>2, <2>1
  <2>7. ducker'[r] # "off" => r \notin OnPhone /\ pc'[r] = "ducking"
    BY <1>2, <2>1, <2>4, Goes DEF BaseInv
  <2>8. \A s \in Replies :
          ducker'[s] # "off" => pc'[s] = IF s \in OnPhone THEN "speaking" ELSE "ducking"
    BY <2>2, <2>6, <2>7 DEF TokenInv
  <2>9. \A s \in aside' : pc'[s] = "speaking" /\ s \notin OnPhone /\ token' # s
    BY <1>1, <2>1, <2>2, <2>3 DEF TokenInv
  <2>10. \A s \in deferred' : ducker'[s] = "off"
    BY <1>1, <2>1, <2>3, <2>4, <2>5, <2>6
  <2> QED
    BY <1>2, <2>1, <2>2, <2>3, <2>5, <2>8, <2>9, <2>10 DEF TokenInv
<1>7. CASE Begun(r)
  <2>1. /\ UNCHANGED <<token, aside, deferred, ducker>> /\ pc[r] = "ducking" /\ Goto(r, "speaking")
        /\ ducker[r] = "off"
    BY <1>7 DEF Begun, musicVars
  <2>2. pc'[r] = "speaking" /\ \A s \in Replies : s # r => pc'[s] = pc[s]
    BY <2>1, Goes DEF BaseInv
  <2>3. r \notin aside \cup deferred /\ token = r
    BY <1>0, <1>1, <2>1 DEF TokenInv
  <2> QED
    BY <1>1, <1>2, <2>1, <2>2, <2>3 DEF TokenInv
<1>8. CASE DuckMusicNow(r)
  <2>1. /\ UNCHANGED <<pc, token, aside>> /\ r \in deferred /\ deferred' = deferred \ {r}
        /\ ducker' = [ducker EXCEPT ![r] = "begin"]
    BY <1>8 DEF DuckMusicNow
  <2>2. pc[r] = "speaking" /\ r \in OnPhone
    BY <2>1 DEF TokenInv
  <2>3. \A s \in Replies : s # r => ducker'[s] = ducker[s]
    BY <1>2, <2>1
  <2>4. \A s \in Replies :
          ducker'[s] # "off" => pc'[s] = IF s \in OnPhone THEN "speaking" ELSE "ducking"
    BY <2>1, <2>2, <2>3 DEF TokenInv
  <2> QED
    BY <2>1, <2>4 DEF TokenInv
<1>9. CASE StepAside(r)
  <2>1. /\ UNCHANGED <<pc, deferred, ducker>> /\ pc[r] = "speaking" /\ token = r /\ r \notin OnPhone
        /\ token' = NoReply /\ aside' = aside \cup {r}
    BY <1>9 DEF StepAside, musicVars
  <2>2. \A s \in Replies : pc[s] \notin Beginning \cup Ending
    BY <1>0, <2>1 DEF TokenInv
  <2>3. \A s \in OnPhone : pc[s] # "rendering"
    BY <1>2, <2>1 DEF TokenInv
  <2>4. \A s \in aside' : pc'[s] = "speaking" /\ s \notin OnPhone /\ token' # s
    BY <1>1, <1>2, <2>1 DEF TokenInv
  <2> QED
    BY <2>1, <2>2, <2>3, <2>4 DEF TokenInv
<1>10. CASE Retake(r)
  <2>1. /\ UNCHANGED <<pc, deferred, ducker>> /\ r \in aside /\ token = NoReply
        /\ token' = r /\ aside' = aside \ {r}
    BY <1>10 DEF Retake, musicVars
  <2>2. \A s \in Replies : token # s
    BY <1>2, <2>1
  <2>3. \A s \in Replies : pc[s] \notin Beginning \cup Ending
    BY <2>2 DEF TokenInv
  <2>4. \A s \in OnPhone : pc[s] # "rendering"
    BY <1>2, <2>2 DEF TokenInv
  <2>5. \A s \in Replies : pc'[s] = "speaking" => token' = s \/ s \in aside'
    BY <2>1, <2>2 DEF TokenInv
  <2> QED
    BY <2>1, <2>3, <2>4, <2>5 DEF TokenInv
<1>11. CASE AfterSpeech(r)
  <2>1. /\ UNCHANGED <<token, aside, ducker>> /\ pc[r] = "speaking" /\ token = r /\ ducker[r] = "off"
        /\ deferred' = deferred \ {r} /\ Goto(r, "unducking")
    BY <1>11 DEF AfterSpeech, Dropped
  <2>2. pc'[r] = "unducking" /\ \A s \in Replies : s # r => pc'[s] = pc[s]
    BY <2>1, Goes DEF BaseInv
  <2>3. r \notin aside
    BY <2>1 DEF TokenInv
  <2> QED
    BY <1>0, <1>1, <1>2, <2>1, <2>2, <2>3 DEF TokenInv
<1>12. CASE Release(r)
  <2>1. /\ UNCHANGED <<aside, deferred, ducker>> /\ pc[r] = "release" /\ token' = NoReply
        /\ Goto(r, "done")
    BY <1>12 DEF Release, musicVars
  <2>2. pc'[r] = "done" /\ \A s \in Replies : s # r => pc'[s] = pc[s]
    BY <2>1, Goes DEF BaseInv
  <2>3. token = r /\ ducker[r] = "off" /\ r \notin aside \cup deferred
    BY <1>0, <1>1, <2>1, EndsUnducked
  <2>4. \A s \in Replies : pc'[s] \notin Beginning \cup Ending
    BY <1>0, <2>2, <2>3 DEF TokenInv
  <2>5. \A s \in OnPhone : pc'[s] # "rendering"
    BY <1>2, <2>2, <2>3 DEF TokenInv
  <2>6. \A s \in Replies : pc'[s] = "speaking" => s \in aside'
    BY <2>1, <2>2, <2>3 DEF TokenInv
  <2>7. \A s \in aside' : pc'[s] = "speaking" /\ s \notin OnPhone /\ token' # s
    BY <1>1, <1>2, <2>1, <2>2, <2>3 DEF TokenInv
  <2> QED
    BY <1>1, <2>1, <2>2, <2>3, <2>4, <2>5, <2>6, <2>7 DEF TokenInv
<1>13. CASE Crash(r)
  <2>1. /\ Goto(r, "dead") /\ aside' = aside \ {r} /\ deferred' = deferred \ {r}
        /\ ducker' = [ducker EXCEPT ![r] = "off"]
        /\ token' = IF token = r THEN NoReply ELSE token
    BY <1>13 DEF Crash
  <2>2. pc'[r] = "dead" /\ \A s \in Replies : s # r => pc'[s] = pc[s]
    BY <2>1, Goes DEF BaseInv
  <2>3. \A s \in Replies : s # r => ducker'[s] = ducker[s]
    BY <1>2, <2>1
  <2>4. ducker'[r] = "off"
    BY <1>2, <2>1
  <2>5. \A s \in Replies : s # r => (token' = s <=> token = s)
    BY <1>2, <2>1
  <2>6. \A s \in Replies : pc'[s] \in Beginning \cup Ending => token' = s
    BY <1>0, <2>2, <2>5 DEF TokenInv
  <2>7. \A s \in Replies : pc'[s] = "speaking" => token' = s \/ s \in aside'
    BY <2>1, <2>2, <2>5 DEF TokenInv
  <2>8. \A s \in aside' : pc'[s] = "speaking" /\ s \notin OnPhone /\ token' # s
    BY <1>1, <2>1, <2>2, <2>5 DEF TokenInv
  <2>9. \A s \in OnPhone : pc'[s] = "rendering" => token' = s
    BY <1>2, <2>2, <2>5 DEF TokenInv
  <2> QED
    BY <1>1, <2>1, <2>2, <2>3, <2>4, <2>6, <2>7, <2>8, <2>9 DEF TokenInv
<1> QED
  BY <1>3, <1>4, <1>5, <1>6, <1>7, <1>8, <1>9, <1>10, <1>11, <1>12, <1>13

LEMMA TokenStep ==
  ASSUME Races = {}, BaseInv, TokenInv, [Next]_vars
  PROVE  TokenInv'
<1>1. CASE UNCHANGED vars
  <2>1. UNCHANGED <<pc, token, aside, deferred, ducker>>
    BY <1>1 DEF vars, musicVars
  <2> QED
    BY <2>1, PhasesRest
<1>2. ASSUME NEW r \in Replies,
             \/ RoomsRead(r) \/ RoomsMark(r) \/ RoomsLower(r) \/ RoomsOwed(r) \/ RoomsRaise(r)
             \/ RoomsClear(r) \/ Resume(r) \/ ReadDebt(r) \/ PayDebt(r) \/ ClearDebt(r) \/ RestoreRow(r)
      PROVE  TokenInv'
  <2>1. UNCHANGED <<token, aside, deferred, ducker>>
    BY <1>2 DEF RoomsRead, RoomsMark, RoomsLower, RoomsOwed, RoomsRaise, RoomsClear, Resume, ReadDebt,
                PayDebt, ClearDebt, RestoreRow, musicVars
  <2>2. /\ pc[r] \in {"reading", "marking", "lowering", "unducking", "raising", "clearing",
                      "resuming", "owing", "paying", "paid", "rowing"}
        /\ \E where \in {"waiting", "marking", "lowering", "resuming", "raising", "clearing",
                         "owing", "rowing", "paying", "paid", "release"} : Goto(r, where)
    BY <1>2 DEF RoomsRead, RoomsMark, RoomsLower, RoomsOwed, RoomsRaise, RoomsClear, Resume, ReadDebt,
                PayDebt, ClearDebt, RestoreRow
  <2>3. \A s \in Replies : s # r => pc'[s] = pc[s]
    BY <2>2, Goes DEF BaseInv
  <2>4. pc'[r] \in Beginning \cup Ending
    BY <2>2, Goes DEF BaseInv, Beginning, Ending, Loops, Restored
  <2>5. pc[r] \in (Beginning \cup Ending) \ {"ducking"}
    BY <2>2 DEF Beginning, Ending, Loops, Restored
  <2> QED
    BY <2>1, <2>3, <2>4, <2>5, PhasesRest
<1>3. ASSUME NEW r \in Replies, PausePhone(r) \/ InterruptMusic(r) \/ ToggleMute(r)
      PROVE  TokenInv'
  <2>1. UNCHANGED <<pc, token, aside, deferred>>
    BY <1>3 DEF PausePhone, ToggleMute, InterruptMusic, PauseMusic, ReadVolume, MarkMusic, Duck,
                DuckFails, SetRow, Ducks, musicVars
  <2>2. ducker' = ducker \/ (ducker[r] # "off" /\ \E at : ducker' = [ducker EXCEPT ![r] = at])
    BY <1>3 DEF PausePhone, ToggleMute, InterruptMusic, PauseMusic, ReadVolume, MarkMusic, Duck,
                DuckFails, SetRow, Ducks, musicVars
  <2>3. \A s \in Replies : ducker'[s] # "off" => ducker[s] # "off"
    BY <2>2 DEF BaseInv, MusicTypes
  <2> QED
    BY <2>1, <2>3, PhasesRest
<1>4. ASSUME NEW c \in Rooms, RoomGoes(c) \/ \E want \in Volumes : SetRoom(c, want)
      PROVE  TokenInv'
  <2>1. UNCHANGED <<pc, token, aside, deferred, ducker>>
    BY <1>4 DEF RoomGoes, SetRoom, musicVars
  <2> QED
    BY <2>1, PhasesRest
<1> QED
  BY <1>1, <1>2, <1>3, <1>4, TurnsStep DEF Next, Before, After

-----------------------------------------------------------------------------
(* The rooms *)

\* Where a reply is in none of that, only its failures count.
LEMMA IdleRoom ==
  ASSUME NEW r, pc[r] \notin Beginning \cup Ending, fails = 0 => failed[r] = {}
  PROVE  RoomOf(r)
BY DEF RoomOf, Beginning, Ending, Loops, Restored

LEMMA OthersIdle ==
  ASSUME TokenInv, RoomInv, NEW r \in Replies, token = r, fails' = 0 => fails = 0,
         \A s \in Replies : s # r => pc'[s] = pc[s] /\ failed'[s] = failed[s]
  PROVE  \A s \in Replies : s # r => RoomOf(s)'
<1> SUFFICES ASSUME NEW s \in Replies, s # r PROVE RoomOf(s)'
  OBVIOUS
<1>1. pc[s] \notin Beginning \cup Ending
  BY Alone
<1>2. pc'[s] \notin Beginning \cup Ending
  BY <1>1
<1>3. fails' = 0 => failed'[s] = {}
  BY DEF RoomInv, RoomOf
<1> QED
  BY <1>2, <1>3 DEF RoomOf, Beginning, Ending, Loops, Restored

\* A step that changes no room and no marker.
LEMMA RoomsHold ==
  ASSUME RoomInv, UNCHANGED <<own, volume, rooms, owed, plan, todo, failed>>, fails' = 0 => fails = 0,
         \A s \in Replies :
           /\ pc'[s] \in {"marking", "lowering"} \cup Loops => pc'[s] = pc[s]
           /\ pc'[s] \in Restored => pc[s] \in Restored
  PROVE  RoomInv'
<1>1. OwnIn(owed)' /\ RoomsAreOwed'
  BY DEF RoomInv, OwnIn, RoomsAreOwed
<1>2. ASSUME NEW s \in Replies PROVE RoomOf(s)'
  <2>1. RoomOf(s)
    BY DEF RoomInv
  <2>2. pc'[s] = "marking" => OwnIn(plan[s])' /\ owed' \in {<<>>, plan'[s]}
    BY <2>1 DEF RoomOf, OwnIn
  <2>3. pc'[s] = "lowering" => todo'[s] \subseteq DOMAIN owed'
    BY <2>1 DEF RoomOf
  <2>4. pc'[s] \in Loops => pc'[s] = pc[s]
    OBVIOUS
  <2>5. pc'[s] \in Loops =>
          /\ owed' = plan'[s]
          /\ \A c \in DOMAIN owed' \cap rooms' :
               c \in todo'[s] \cup failed'[s] \/ volume'[c] = own'[c]
    BY <2>1, <2>4 DEF RoomOf
  <2>6. pc'[s] = "clearing" => todo'[s] = {}
    BY <2>1, <2>4 DEF RoomOf, Loops
  <2>7. fails' = 0 => failed'[s] = {} /\ (pc'[s] \in Restored => owed' = <<>>)
    BY <2>1 DEF RoomOf
  <2> QED
    BY <2>2, <2>3, <2>5, <2>6, <2>7 DEF RoomOf
<1> QED
  BY <1>1, <1>2 DEF RoomInv

LEMMA ReadRooms ==
  ASSUME BaseInv, TokenInv, RoomInv, NEW r \in Replies, RoomsRead(r)
  PROVE  RoomInv'
<1>1. /\ pc[r] = "reading" /\ plan' = [plan EXCEPT ![r] = Captured]
      /\ UNCHANGED <<own, volume, rooms, owed, todo, failed, fails>>
  BY DEF RoomsRead
<1>2. pc'[r] \in {"waiting", "marking"} /\ \A s \in Replies : s # r => pc'[s] = pc[s]
  BY Goes DEF RoomsRead, BaseInv
<1>3. token = r
  BY <1>1 DEF TokenInv, Beginning
<1>4. plan'[r] = Captured
  BY <1>1 DEF BaseInv, RoomTypes
<1>5. OwnIn(Captured) /\ owed \in {<<>>, Captured}
  <2>1. CASE owed # <<>>
    BY <2>1 DEF RoomInv, Captured
  <2>2. CASE owed = <<>>
    <3>1. DOMAIN owed = {}
      BY <2>2, Nothing
    <3>2. \A c \in rooms : volume[c] = own[c]
      BY <3>1 DEF RoomInv, RoomsAreOwed
    <3>3. Captured = [c \in rooms |-> volume[c]]
      BY <2>2 DEF Captured
    <3> QED
      BY <2>2, <3>2, <3>3 DEF OwnIn
  <2> QED
    BY <2>1, <2>2
<1>6. OwnIn(owed)' /\ RoomsAreOwed'
  BY <1>1 DEF RoomInv, OwnIn, RoomsAreOwed
<1>7. RoomOf(r)'
  <2>1. OwnIn(plan[r])' /\ owed' \in {<<>>, plan'[r]}
    BY <1>1, <1>4, <1>5 DEF OwnIn
  <2>2. fails' = 0 => failed'[r] = {}
    BY <1>1 DEF RoomInv, RoomOf
  <2> QED
    BY <1>2, <2>1, <2>2 DEF RoomOf, Loops, Restored
<1> QED
  BY <1>1, <1>2, <1>3, <1>6, <1>7, OthersIdle DEF RoomInv

LEMMA MarkRooms ==
  ASSUME BaseInv, TokenInv, RoomInv, NEW r \in Replies, RoomsMark(r)
  PROVE  RoomInv'
<1> DEFINE Above == {c \in DOMAIN plan[r] : plan[r][c] > Level}
<1>1. /\ pc[r] = "marking" /\ owed' = plan[r] /\ todo' = [todo EXCEPT ![r] = Above]
      /\ UNCHANGED <<own, volume, rooms, plan, failed, fails>>
  BY DEF RoomsMark
<1>2. pc'[r] \in {"waiting", "lowering"} /\ \A s \in Replies : s # r => pc'[s] = pc[s]
  BY Goes DEF RoomsMark, BaseInv
<1>3. token = r
  BY <1>1 DEF TokenInv, Beginning
<1>4. todo'[r] = Above
  BY <1>1 DEF BaseInv, RoomTypes
<1>5. OwnIn(plan[r]) /\ owed \in {<<>>, plan[r]}
  BY <1>1 DEF RoomInv, RoomOf
<1>6. OwnIn(owed)'
  BY <1>1, <1>5 DEF OwnIn
<1>7. RoomsAreOwed'
  <2>1. CASE owed = <<>>
    <3>1. \A c \in rooms : volume[c] = own[c]
      BY <2>1, Nothing DEF RoomInv, RoomsAreOwed
    <3> QED
      BY <1>1, <3>1 DEF RoomsAreOwed
  <2>2. CASE owed = plan[r]
    BY <1>1, <2>2 DEF RoomInv, RoomsAreOwed
  <2> QED
    BY <1>5, <2>1, <2>2
<1>8. RoomOf(r)'
  <2>1. todo'[r] \subseteq DOMAIN owed'
    BY <1>1, <1>4
  <2>2. fails' = 0 => failed'[r] = {}
    BY <1>1 DEF RoomInv, RoomOf
  <2> QED
    BY <1>2, <2>1, <2>2 DEF RoomOf, Loops, Restored
<1> QED
  BY <1>1, <1>2, <1>3, <1>6, <1>7, <1>8, OthersIdle DEF RoomInv

LEMMA LowerRooms ==
  ASSUME BaseInv, TokenInv, RoomInv, NEW r \in Replies, RoomsLower(r)
  PROVE  RoomInv'
<1>1. /\ pc[r] = "lowering"
      /\ UNCHANGED <<own, rooms, owed, plan, failed>>
  BY DEF RoomsLower
<1>2. pc'[r] \in {"waiting", "lowering"} /\ \A s \in Replies : s # r => pc'[s] = pc[s]
  BY Goes DEF RoomsLower, BaseInv
<1>3. token = r
  BY <1>1 DEF TokenInv, Beginning
<1>4. fails' = 0 => fails = 0
  <2>1. fails' = fails \/ fails' = fails + 1
    BY DEF RoomsLower
  <2> QED
    BY <2>1 DEF BaseInv, CountTypes
<1>5. todo[r] \subseteq DOMAIN owed
  BY <1>1 DEF RoomInv, RoomOf
<1>6. PICK c \in todo[r] :
        /\ volume' = volume \/ volume' = [volume EXCEPT ![c] = Level]
        /\ todo' = [todo EXCEPT ![r] = @ \ {c}] \/ todo' = [todo EXCEPT ![r] = {}]
  BY DEF RoomsLower
<1>7. todo'[r] \subseteq todo[r]
  BY <1>6 DEF BaseInv, RoomTypes
<1>8. OwnIn(owed)'
  BY <1>1 DEF OwnIn, RoomInv
<1>9. RoomsAreOwed'
  <2>1. \A d \in Rooms : d # c => volume'[d] = volume[d]
    BY <1>6 DEF BaseInv, RoomTypes
  <2>2. c \in rooms => owed[c] = own[c] /\ c \in DOMAIN owed
    BY <1>5 DEF RoomInv, OwnIn
  <2>3. rooms \subseteq Rooms
    BY DEF BaseInv, RoomTypes
  <2> QED
    BY <1>1, <2>1, <2>2, <2>3 DEF RoomInv, RoomsAreOwed
<1>10. RoomOf(r)'
  <2>1. todo'[r] \subseteq DOMAIN owed'
    BY <1>1, <1>5, <1>7
  <2>2. fails' = 0 => failed'[r] = {}
    BY <1>1, <1>4 DEF RoomInv, RoomOf
  <2> QED
    BY <1>2, <2>1, <2>2 DEF RoomOf, Loops, Restored
<1> QED
  BY <1>1, <1>2, <1>3, <1>4, <1>8, <1>9, <1>10, OthersIdle DEF RoomInv

LEMMA OweRooms ==
  ASSUME BaseInv, TokenInv, RoomInv, NEW r \in Replies, RoomsOwed(r)
  PROVE  RoomInv'
<1>1. /\ pc[r] = "unducking"
      /\ plan' = [plan EXCEPT ![r] = owed] /\ todo' = [todo EXCEPT ![r] = DOMAIN owed]
      /\ failed' = [failed EXCEPT ![r] = {}] /\ UNCHANGED <<own, volume, rooms, owed, fails>>
  BY DEF RoomsOwed
<1>2. /\ pc'[r] \in {"resuming", "raising"} /\ \A s \in Replies : s # r => pc'[s] = pc[s]
      /\ pc'[r] = "resuming" => owed = <<>>
  BY Goes DEF RoomsOwed, BaseInv
<1>3. token = r
  BY <1>1 DEF TokenInv, Ending
<1>4. /\ plan'[r] = owed /\ todo'[r] = DOMAIN owed /\ failed'[r] = {}
      /\ \A s \in Replies : s # r => failed'[s] = failed[s]
  BY <1>1 DEF BaseInv, RoomTypes
<1>5. OwnIn(owed)' /\ RoomsAreOwed'
  BY <1>1 DEF RoomInv, OwnIn, RoomsAreOwed
<1>6. RoomOf(r)'
  BY <1>1, <1>2, <1>4 DEF RoomOf, Loops, Restored
<1> QED
  BY <1>1, <1>2, <1>3, <1>4, <1>5, <1>6, OthersIdle DEF RoomInv

LEMMA RaiseRooms ==
  ASSUME BaseInv, TokenInv, RoomInv, NEW r \in Replies, RoomsRaise(r)
  PROVE  RoomInv'
<1>1. /\ pc[r] = "raising" /\ UNCHANGED <<own, rooms, owed, plan>>
  BY DEF RoomsRaise
<1>2. /\ pc'[r] \in {"clearing", "raising"} /\ \A s \in Replies : s # r => pc'[s] = pc[s]
      /\ pc'[r] = "clearing" => todo'[r] = {}
  BY Goes DEF RoomsRaise, BaseInv
<1>3. token = r
  BY <1>1 DEF TokenInv, Ending, Loops
<1>4. PICK c \in todo[r] :
        /\ todo' = [todo EXCEPT ![r] = @ \ {c}]
        /\ \/ /\ c \in rooms /\ volume' = [volume EXCEPT ![c] = plan[r][c]]
              /\ failed' = failed /\ fails' = fails
           \/ /\ c \notin rooms /\ volume' = volume /\ failed' = failed /\ fails' = fails
           \/ /\ c \in rooms /\ volume' = volume
              /\ failed' = [failed EXCEPT ![r] = @ \cup {c}] /\ fails' = fails + 1
  BY DEF RoomsRaise
<1>5. fails \in Nat /\ rooms \subseteq Rooms
  BY DEF BaseInv, CountTypes, RoomTypes
<1>6. fails' = 0 => fails = 0 /\ failed' = failed
  BY <1>4, <1>5
<1>7. /\ owed = plan[r] /\ c \in DOMAIN owed
      /\ \A d \in DOMAIN owed \cap rooms : d \in todo[r] \cup failed[r] \/ volume[d] = own[d]
  BY <1>1, <1>4 DEF RoomInv, RoomOf, BaseInv, LoopInv, Loops
<1>8. c \in rooms => plan[r][c] = own[c]
  BY <1>7 DEF RoomInv, OwnIn
<1>9. /\ \A d \in Rooms : volume'[d] = volume[d] \/ (d = c /\ volume'[d] = own[d])
      /\ c \in rooms => volume'[c] = own[c] \/ c \in failed'[r]
  BY <1>4, <1>5, <1>8 DEF BaseInv, RoomTypes
<1>10. todo'[r] = todo[r] \ {c} /\ failed[r] \subseteq failed'[r]
       /\ \A s \in Replies : s # r => failed'[s] = failed[s]
  BY <1>4 DEF BaseInv, RoomTypes
<1>11. OwnIn(owed)'
  BY <1>1 DEF RoomInv, OwnIn
<1>12. RoomsAreOwed'
  BY <1>1, <1>5, <1>9 DEF RoomInv, RoomsAreOwed
<1>13. RoomOf(r)'
  <2>1. \A d \in DOMAIN owed' \cap rooms' : d \in todo'[r] \cup failed'[r] \/ volume'[d] = own'[d]
    <3> SUFFICES ASSUME NEW d \in DOMAIN owed \cap rooms
                 PROVE  d \in todo'[r] \cup failed'[r] \/ volume'[d] = own[d]
      BY <1>1
    <3>1. CASE d = c
      BY <1>9, <3>1
    <3>2. CASE d # c
      BY <1>5, <1>7, <1>9, <1>10, <3>2
    <3> QED
      BY <3>1, <3>2
  <2>2. fails' = 0 => failed'[r] = {}
    BY <1>6 DEF RoomInv, RoomOf
  <2> QED
    BY <1>1, <1>2, <1>7, <2>1, <2>2 DEF RoomOf, Restored
<1> QED
  BY <1>1, <1>2, <1>3, <1>6, <1>10, <1>11, <1>12, <1>13, OthersIdle DEF RoomInv

\* A function of nothing.
LEMMA NothingLeft ==
  ASSUME NEW r, failed[r] = {}
  PROVE  StillOwed(r) = <<>>
BY DEF StillOwed

LEMMA ClearRooms ==
  ASSUME BaseInv, TokenInv, RoomInv, NEW r \in Replies, RoomsClear(r)
  PROVE  RoomInv'
<1>1. /\ pc[r] = "clearing" /\ owed' = StillOwed(r)
      /\ UNCHANGED <<own, volume, rooms, plan, todo, failed, fails>>
  BY DEF RoomsClear
<1>2. pc'[r] = "resuming" /\ \A s \in Replies : s # r => pc'[s] = pc[s]
  BY Goes DEF RoomsClear, BaseInv
<1>3. token = r
  BY <1>1 DEF TokenInv, Ending, Loops
<1>4. /\ owed = plan[r] /\ failed[r] \subseteq DOMAIN owed
      /\ \A c \in DOMAIN owed \cap rooms : c \in failed[r] \/ volume[c] = own[c]
  BY <1>1 DEF RoomInv, RoomOf, BaseInv, LoopInv, Loops
<1>5. DOMAIN owed' = failed[r] /\ \A c \in failed[r] : owed'[c] = owed[c]
  BY <1>1, <1>4 DEF StillOwed
<1>6. OwnIn(owed)'
  BY <1>1, <1>4, <1>5 DEF RoomInv, OwnIn
<1>7. RoomsAreOwed'
  BY <1>1, <1>4, <1>5 DEF RoomInv, RoomsAreOwed
<1>8. RoomOf(r)'
  <2>1. fails = 0 => failed[r] = {}
    BY DEF RoomInv, RoomOf
  <2>2. fails = 0 => owed' = <<>>
    BY <1>1, <2>1, NothingLeft
  <2> QED
    BY <1>1, <1>2, <2>1, <2>2 DEF RoomOf, Loops
<1> QED
  BY <1>1, <1>2, <1>3, <1>6, <1>7, <1>8, OthersIdle DEF RoomInv

\* Nobody is within it: the rooms may be set by others.
LEMMA AllIdle ==
  ASSUME RoomInv, UNCHANGED <<pc, failed, fails>>,
         \A s \in Replies : pc[s] \notin Beginning \cup Ending
  PROVE  \A s \in Replies : RoomOf(s)'
BY DEF RoomInv, RoomOf, Beginning, Ending, Loops, Restored

LEMMA MuteRooms ==
  ASSUME BaseInv, TokenInv, RoomInv, NEW r \in Replies, ToggleMute(r)
  PROVE  RoomInv'
<1>1. /\ pc[r] = "speaking" /\ token = r /\ volume' \in {Lowered(owed), Raised(owed)}
      /\ UNCHANGED <<pc, own, rooms, owed, failed, fails>>
  BY DEF ToggleMute
<1>2. \A s \in Replies : pc[s] \notin Beginning \cup Ending
  <2>1. pc[r] \notin Beginning \cup Ending
    BY <1>1 DEF Beginning, Ending, Loops, Restored
  <2> QED
    BY <1>1, <2>1, Alone
<1>3. rooms \subseteq Rooms
  BY DEF BaseInv, RoomTypes
<1>4. OwnIn(owed)'
  BY <1>1 DEF RoomInv, OwnIn
<1>5. \A c \in rooms \ DOMAIN owed : volume'[c] = volume[c]
  BY <1>1, <1>3 DEF Lowered, Raised
<1>6. RoomsAreOwed'
  BY <1>1, <1>5 DEF RoomInv, OwnIn, RoomsAreOwed
<1> QED
  BY <1>1, <1>2, <1>4, <1>6, AllIdle DEF RoomInv

LEMMA GoneRooms ==
  ASSUME RoomInv, NEW c \in Rooms, RoomGoes(c)
  PROVE  RoomInv'
<1>1. /\ rooms' \subseteq rooms
      /\ UNCHANGED <<pc, own, volume, owed, plan, todo, failed, fails>>
  BY DEF RoomGoes
<1>2. OwnIn(owed)' /\ RoomsAreOwed'
  BY <1>1 DEF RoomInv, OwnIn, RoomsAreOwed
<1>3. ASSUME NEW s \in Replies PROVE RoomOf(s)'
  <2>1. RoomOf(s)
    BY DEF RoomInv
  <2>2. OwnIn(plan[s]) => OwnIn(plan[s])'
    BY <1>1 DEF OwnIn
  <2> QED
    BY <1>1, <2>1, <2>2 DEF RoomOf
<1> QED
  BY <1>2, <1>3 DEF RoomInv

LEMMA DialRooms ==
  ASSUME Races = {}, BaseInv, RoomInv, NEW c \in Rooms, NEW want \in Volumes, SetRoom(c, want)
  PROVE  RoomInv'
<1>1. /\ own' = [own EXCEPT ![c] = want] /\ UNCHANGED <<pc, rooms, failed, fails>>
      /\ volume' = [volume EXCEPT ![c] = IF owed # <<>> /\ want > Level THEN Level ELSE want]
      /\ \A s \in Replies : pc[s] \in Settled
  BY DEF SetRoom
<1>2. \A s \in Replies : pc[s] \notin Beginning \cup Ending
  BY <1>1 DEF Settled, Quiet, Beginning, Ending, Loops, Restored
<1>3. /\ own \in [Rooms -> Volumes] /\ volume \in [Rooms -> Volumes \cup {Level}]
      /\ rooms \subseteq Rooms
  BY DEF BaseInv, RoomTypes
<1>4. /\ own'[c] = want /\ owed = <<>> => volume'[c] = want
      /\ \A x \in Rooms \ {c} : own'[x] = own[x] /\ volume'[x] = volume[x]
  BY <1>1, <1>3
<1>5. CASE owed = <<>>
  <2>1. owed' = <<>> /\ DOMAIN owed = {}
    BY <1>5, Dialled, Nothing DEF BaseInv
  <2>2. OwnIn(owed)'
    BY <1>5, <2>1 DEF OwnIn
  <2>3. RoomsAreOwed'
    BY <1>1, <1>3, <1>4, <1>5, <2>1 DEF RoomInv, RoomsAreOwed
  <2> QED
    BY <1>1, <1>2, <2>2, <2>3, AllIdle DEF RoomInv
<1>6. CASE owed # <<>>
  <2>1. /\ DOMAIN owed' = DOMAIN owed \cup {c} /\ owed'[c] = want
        /\ \A x \in DOMAIN owed \ {c} : owed'[x] = owed[x]
    BY <1>6, Dialled DEF BaseInv
  <2>2. OwnIn(owed)'
    BY <1>1, <1>3, <1>4, <2>1 DEF RoomInv, OwnIn
  <2>3. RoomsAreOwed'
    BY <1>1, <1>3, <1>4, <2>1 DEF RoomInv, RoomsAreOwed
  <2> QED
    BY <1>1, <1>2, <2>2, <2>3, AllIdle DEF RoomInv
<1> QED
  BY <1>5, <1>6

LEMMA RoomStep ==
  ASSUME Races = {}, BaseInv, TokenInv, RoomInv, [Next]_vars
  PROVE  RoomInv'
<1>1. CASE UNCHANGED vars
  <2>1. UNCHANGED <<pc, own, volume, rooms, owed, plan, todo, failed, fails>>
    BY <1>1 DEF vars, roomVars
  <2> QED
    BY <2>1, RoomsHold
<1>2. ASSUME NEW r \in Replies,
             \/ PrePause(r) \/ PausePhone(r) \/ CancelPrePause(r) \/ TakeToken(r) \/ Decide(r) \/ Begun(r)
             \/ DuckMusicNow(r) \/ StepAside(r) \/ Retake(r) \/ AfterSpeech(r)
             \/ Release(r) \/ Crash(r)
      PROVE  RoomInv'
  <2>1. UNCHANGED <<own, volume, rooms, owed, plan, todo, failed, fails>>
    BY <1>2 DEF PrePause, PausePhone, CancelPrePause, TakeToken, Decide, Begun, DuckMusicNow,
                StepAside, Retake, AfterSpeech, Release, Crash, roomVars
  <2>2. pc' = pc \/ \E where \in {"rendering", "cancelled", "reading", "speaking", "ducking",
                                  "unducking", "done", "dead"} : Goto(r, where)
    BY <1>2 DEF PrePause, PausePhone, CancelPrePause, TakeToken, Decide, Begun, DuckMusicNow,
                StepAside, Retake, AfterSpeech, Release, Crash
  <2>3. \A s \in Replies :
          /\ pc'[s] \in {"marking", "lowering"} \cup Loops => pc'[s] = pc[s]
          /\ pc'[s] \in Restored => pc[s] \in Restored
    BY <2>2, Goes DEF BaseInv, Loops, Restored
  <2> QED
    BY <2>1, <2>3, RoomsHold
<1>3. ASSUME NEW r \in Replies, InterruptMusic(r)
      PROVE  RoomInv'
  <2>1. UNCHANGED <<pc, own, volume, rooms, owed, plan, todo, failed>>
    BY <1>3 DEF InterruptMusic, PauseMusic, ReadVolume, MarkMusic, Duck, DuckFails, SetRow, Ducks, roomVars
  <2>2. fails' = fails \/ fails' = fails + 1
    BY <1>3 DEF InterruptMusic, PauseMusic, ReadVolume, MarkMusic, Duck, DuckFails, SetRow, Ducks
  <2>3. fails' = 0 => fails = 0
    BY <2>2 DEF BaseInv, CountTypes
  <2> QED
    BY <2>1, <2>3, RoomsHold
<1>4. ASSUME NEW r \in Replies,
             Resume(r) \/ ReadDebt(r) \/ PayDebt(r) \/ ClearDebt(r) \/ RestoreRow(r)
      PROVE  RoomInv'
  <2>1. UNCHANGED <<own, volume, rooms, owed, plan, todo, failed, fails>>
    BY <1>4 DEF Resume, ReadDebt, PayDebt, ClearDebt, RestoreRow, roomVars
  <2>2. /\ pc[r] \in {"resuming", "owing", "paying", "paid", "rowing"}
        /\ \E where \in {"owing", "rowing", "paying", "paid", "release"} : Goto(r, where)
    BY <1>4 DEF Resume, ReadDebt, PayDebt, ClearDebt, RestoreRow
  <2>3. \A s \in Replies :
          /\ pc'[s] \in {"marking", "lowering"} \cup Loops => pc'[s] = pc[s]
          /\ pc'[s] \in Restored => pc[s] \in Restored
    BY <2>2, Goes DEF BaseInv, Loops, Restored
  <2> QED
    BY <2>1, <2>3, RoomsHold
<1>5. ASSUME NEW r \in Replies,
             \/ RoomsRead(r) \/ RoomsMark(r) \/ RoomsLower(r) \/ RoomsOwed(r) \/ RoomsRaise(r)
             \/ RoomsClear(r) \/ ToggleMute(r)
      PROVE  RoomInv'
  BY <1>5, ReadRooms, MarkRooms, LowerRooms, OweRooms, RaiseRooms, ClearRooms, MuteRooms
<1>6. ASSUME NEW c \in Rooms, RoomGoes(c) PROVE RoomInv'
  BY <1>6, GoneRooms
<1>7. ASSUME NEW c \in Rooms, NEW want \in Volumes, SetRoom(c, want) PROVE RoomInv'
  BY <1>7, DialRooms
<1> QED
  BY <1>1, <1>2, <1>3, <1>4, <1>5, <1>6, <1>7 DEF Next, Before, After

-----------------------------------------------------------------------------
(* The music *)

\* A step that changes neither the music's volume nor what is said of it.
LEMMA MusicHolds ==
  ASSUME MusicInv, UNCHANGED <<loud, strategy, debt, row, ducked>>,
         ~playing' => ~playing \/ strategy = "pause",
         \A s \in Replies :
           /\ ducker'[s] \in {"mark", "duck"} => ducker'[s] = ducker[s]
           /\ pc'[s] \in {"paid", "rowing", "release"} => pc'[s] = pc[s]
  PROVE  MusicInv'
<1>1. \A s \in Replies : MusicOf(s)'
  BY DEF MusicInv, MusicOf
<1>2. MusicIsOwed'
  BY DEF MusicInv, MusicIsOwed, RowBaseline
<1> QED
  BY <1>1, <1>2 DEF MusicInv

\* Of those that do not have the token the music knows nothing.
LEMMA OthersSilent ==
  ASSUME TokenInv, NEW r \in Replies, token = r,
         \A s \in Replies : s # r => pc'[s] = pc[s] /\ ducker'[s] = ducker[s]
  PROVE  \A s \in Replies : s # r => MusicOf(s)'
<1> SUFFICES ASSUME NEW s \in Replies, s # r PROVE MusicOf(s)'
  OBVIOUS
<1>1. pc'[s] \notin Beginning \cup Ending /\ ducker'[s] = "off"
  BY Alone
<1> QED
  BY <1>1 DEF MusicOf, Ending, Restored

\* A row of a duck is there only where the music is one to duck.
LEMMA RowSays ==
  ASSUME MusicInv, RowBaseline # {}
  PROVE  strategy = "duck"
<1>1. PICK x \in row : x[1] = "duck"
  BY DEF RowBaseline
<1> QED
  BY <1>1 DEF MusicInv

LEMMA DuckSteps ==
  ASSUME BaseInv, TokenInv, MusicInv, NEW r \in Replies, InterruptMusic(r)
  PROVE  MusicInv'
<1>0. UNCHANGED <<pc, strategy, ducked>>
  BY DEF InterruptMusic, PauseMusic, ReadVolume, MarkMusic, Duck, DuckFails, SetRow, Ducks
<1>1. ducker[r] # "off"
  BY DEF InterruptMusic, PauseMusic, ReadVolume, MarkMusic, Duck, DuckFails, SetRow, Ducks
<1>2. token = r /\ pc[r] \in {"speaking", "ducking"}
  BY <1>1, DuckerHasIt
<1>3. \A s \in Replies : s # r => ducker'[s] = ducker[s]
  BY DEF InterruptMusic, PauseMusic, ReadVolume, MarkMusic, Duck, DuckFails, SetRow, Ducks, BaseInv,
         MusicTypes
<1>4. \A s \in Replies : s # r => MusicOf(s)'
  BY <1>0, <1>2, <1>3, OthersSilent
<1>5. MusicOf(r) /\ base[r] = Nominal /\ ducker \in [Replies -> {"off", "begin", "mark", "duck", "row"}]
  BY DEF MusicInv, BaseInv, MusicTypes
<1>6. CASE PauseMusic(r) \/ DuckFails(r)
  <2>1. UNCHANGED <<loud, debt, row>> /\ (playing' = playing \/ strategy = "pause")
        /\ \E at \in {"row", "off"} : ducker' = [ducker EXCEPT ![r] = at]
    BY <1>6 DEF PauseMusic, DuckFails, Ducks
  <2>2. ducker'[r] \notin {"mark", "duck"}
    BY <1>5, <2>1
  <2> QED
    BY <1>0, <1>3, <2>1, <2>2, MusicHolds
<1>7. CASE ReadVolume(r)
  <2>1. UNCHANGED <<loud, debt, row, playing>> /\ strategy = "duck" /\ ducker' = [ducker EXCEPT ![r] = "mark"]
    BY <1>7 DEF ReadVolume, Ducks
  <2>2. MusicOf(r)'
    <3>1. ducker'[r] = "mark"
      BY <1>5, <2>1
    <3> QED
      BY <1>0, <1>2, <2>1, <3>1 DEF MusicOf
  <2>3. MusicIsOwed'
    BY <2>1 DEF MusicInv, MusicIsOwed, RowBaseline
  <2> QED
    BY <1>0, <1>4, <2>1, <2>2, <2>3 DEF MusicInv
<1>8. CASE MarkMusic(r)
  <2>1. /\ UNCHANGED <<loud, row, playing>> /\ ducker[r] = "mark"
        /\ ducker' = [ducker EXCEPT ![r] = "duck"] /\ debt' = {Nominal}
    BY <1>5, <1>8 DEF MarkMusic, Ducks, MusicMarker
  <2>2. MusicOf(r)'
    <3>1. ducker'[r] = "duck" /\ strategy = "duck"
      BY <1>5, <2>1 DEF MusicOf
    <3> QED
      BY <1>0, <1>2, <2>1, <3>1 DEF MusicOf
  <2>3. MusicIsOwed'
    BY <2>1 DEF MusicIsOwed
  <2> QED
    BY <1>0, <1>4, <2>1, <2>2, <2>3 DEF MusicInv
<1>9. CASE Duck(r)
  <2>1. /\ UNCHANGED <<debt, row, playing>> /\ ducker[r] = "duck"
        /\ ducker' = [ducker EXCEPT ![r] = "row"]
    BY <1>9 DEF Duck, Ducks
  <2>2. debt = {Nominal} /\ strategy = "duck"
    BY <1>5, <2>1 DEF MusicOf
  <2>3. MusicOf(r)'
    <3>1. ducker'[r] = "row"
      BY <1>5, <2>1
    <3> QED
      BY <1>0, <1>2, <3>1 DEF MusicOf
  <2>4. MusicIsOwed'
    BY <2>1, <2>2 DEF MusicIsOwed
  <2> QED
    BY <1>0, <1>4, <2>1, <2>2, <2>3, <2>4 DEF MusicInv
<1>10. CASE SetRow(r)
  <2>1. /\ UNCHANGED <<loud, debt, playing>> /\ row' = {<<strategy, Nominal>>}
        /\ ducker' = [ducker EXCEPT ![r] = "off"]
    BY <1>5, <1>10 DEF SetRow, Ducks
  <2>2. MusicOf(r)'
    <3>1. ducker'[r] = "off"
      BY <1>5, <2>1
    <3> QED
      BY <1>0, <1>2, <3>1 DEF MusicOf
  <2>3. \A x \in row' : x[1] = strategy
    BY <2>1
  <2>4. MusicIsOwed'
    <3> SUFFICES ASSUME loud # Nominal PROVE RowBaseline' = {Nominal}
      BY <2>1 DEF MusicIsOwed
    <3>1. strategy = "duck"
      BY DEF MusicInv, BaseInv, MusicTypes
    <3>2. \A x \in row' : x = <<"duck", Nominal>>
      BY <2>1, <3>1
    <3>3. <<"duck", Nominal>> \in row'
      BY <2>1, <3>1
    <3> QED
      BY <3>2, <3>3 DEF RowBaseline
  <2> QED
    BY <1>0, <1>4, <2>1, <2>2, <2>3, <2>4 DEF MusicInv
<1> QED
  BY <1>6, <1>7, <1>8, <1>9, <1>10 DEF InterruptMusic

LEMMA MuteMusic ==
  ASSUME BaseInv, TokenInv, MusicInv, NEW r \in Replies, ToggleMute(r)
  PROVE  MusicInv'
<1>1. /\ pc[r] = "speaking" /\ token = r
      /\ UNCHANGED <<pc, playing, strategy, debt, row, ducker, ducked>>
      /\ \/ loud' = loud
         \/ RowBaseline # {} /\ loud' = Level
         \/ RowBaseline # {} /\ loud' = CHOOSE b \in RowBaseline : TRUE
  BY DEF ToggleMute
<1>2. \A s \in Replies : pc[s] \notin {"paid", "rowing", "release"}
  BY <1>1, Alone DEF Ending, Restored
<1>3. \A s \in Replies : MusicOf(s)'
  BY <1>1, <1>2 DEF MusicInv, MusicOf
<1>4. RowBaseline' = RowBaseline
  BY <1>1 DEF RowBaseline
<1>5. CASE RowBaseline = {}
  <2>1. loud' = loud
    BY <1>1, <1>5
  <2> QED
    BY <1>1, <1>3, <1>4, <2>1 DEF MusicInv, MusicIsOwed
<1>6. CASE RowBaseline # {}
  <2>1. RowBaseline = {Nominal} /\ strategy = "duck"
    BY <1>6, RowOfDuck, RowSays DEF BaseInv
  <2> QED
    BY <1>1, <1>3, <1>4, <2>1 DEF MusicInv, MusicIsOwed
<1> QED
  BY <1>5, <1>6

LEMMA PaySteps ==
  ASSUME BaseInv, TokenInv, MusicInv, NEW r \in Replies,
         ReadDebt(r) \/ PayDebt(r) \/ ClearDebt(r) \/ RestoreRow(r)
  PROVE  MusicInv'
<1>1. /\ pc[r] \in {"owing", "paying", "paid", "rowing"} /\ UNCHANGED <<token, strategy, ducker>>
      /\ \E where \in {"rowing", "paying", "paid", "release"} : Goto(r, where)
  BY DEF ReadDebt, PayDebt, ClearDebt, RestoreRow
<1>2. token = r /\ \A s \in Replies : ducker[s] = "off"
  BY <1>1, EndsUnducked DEF Ending, Restored
<1>3. \A s \in Replies : s # r => pc'[s] = pc[s]
  BY <1>1, Goes DEF BaseInv
<1>4. \A s \in Replies : s # r => MusicOf(s)'
  BY <1>1, <1>2, <1>3, OthersSilent
<1>5. MusicOf(r)
  BY DEF MusicInv
<1>6. CASE ReadDebt(r)
  <2>1. /\ UNCHANGED <<loud, playing, debt, row>> /\ ducked' = [ducked EXCEPT ![r] = debt]
        /\ pc'[r] = IF debt = {} THEN "rowing" ELSE "paying"
    BY <1>6, Goes DEF ReadDebt, DebtInForce, BaseInv
  <2>2. ducked'[r] = debt
    BY <2>1 DEF BaseInv, MusicTypes
  <2>3. MusicOf(r)'
    BY <1>1, <1>2, <2>1, <2>2 DEF MusicOf
  <2>4. MusicIsOwed'
    BY <2>1 DEF MusicInv, MusicIsOwed, RowBaseline
  <2> QED
    BY <1>1, <1>4, <2>1, <2>3, <2>4 DEF MusicInv
<1>7. CASE PayDebt(r)
  <2>1. /\ UNCHANGED <<playing, debt, row>> /\ pc'[r] = "paid"
        /\ loud' = CHOOSE b \in ducked[r] : TRUE
    BY <1>7, Goes DEF PayDebt, BaseInv
  <2>2. ducked[r] = {Nominal}
    BY <1>7 DEF PayDebt, BaseInv, LoopInv, MusicTypes
  <2>3. loud' = Nominal
    BY <2>1, <2>2
  <2>4. MusicOf(r)'
    BY <1>1, <1>2, <2>1, <2>3 DEF MusicOf
  <2> QED
    BY <1>1, <1>4, <2>1, <2>3, <2>4 DEF MusicInv, MusicIsOwed
<1>8. CASE ClearDebt(r)
  <2>1. /\ UNCHANGED <<loud, playing, row, ducked>> /\ pc'[r] = "rowing" /\ debt' = {} /\ pc[r] = "paid"
    BY <1>8, Goes DEF ClearDebt, BaseInv
  <2>2. loud = Nominal
    BY <1>5, <2>1 DEF MusicOf
  <2>3. MusicOf(r)'
    BY <1>1, <1>2, <2>1, <2>2 DEF MusicOf
  <2> QED
    BY <1>1, <1>4, <2>1, <2>2, <2>3 DEF MusicInv, MusicIsOwed
<1>9. CASE RestoreRow(r)
  <2>1. /\ UNCHANGED <<debt, ducked>> /\ row' = {} /\ pc[r] = "rowing" /\ pc'[r] = "release"
        /\ ~playing' => ~playing
        /\ loud' = IF RowBaseline # {} /\ ducked[r] = {}
                   THEN CHOOSE b \in RowBaseline : TRUE ELSE loud
    BY <1>9, Goes DEF RestoreRow, BaseInv
  <2>2. debt = {} /\ (ducked[r] = {} \/ loud = Nominal)
    BY <1>5, <2>1 DEF MusicOf
  <2>3. RowBaseline = {} => loud = Nominal
    BY <2>2 DEF MusicInv, MusicIsOwed
  <2>4. loud' = Nominal
    BY <2>1, <2>2, <2>3, RowOfDuck DEF BaseInv
  <2>5. MusicOf(r)'
    BY <1>1, <1>2, <2>1, <2>2, <2>4 DEF MusicOf
  <2> QED
    BY <1>1, <1>4, <2>1, <2>4, <2>5 DEF MusicInv, MusicIsOwed
<1> QED
  BY <1>6, <1>7, <1>8, <1>9

LEMMA MusicStep ==
  ASSUME BaseInv, TokenInv, MusicInv, [Next]_vars
  PROVE  MusicInv'
<1>1. CASE UNCHANGED vars
  <2>1. UNCHANGED <<pc, loud, playing, strategy, debt, row, ducker, ducked>>
    BY <1>1 DEF vars, musicVars
  <2> QED
    BY <2>1, MusicHolds
<1>2. ASSUME NEW r \in Replies,
             \/ PrePause(r) \/ PausePhone(r) \/ CancelPrePause(r) \/ TakeToken(r) \/ RoomsRead(r)
             \/ RoomsMark(r) \/ RoomsLower(r) \/ Decide(r) \/ Begun(r) \/ DuckMusicNow(r)
             \/ StepAside(r) \/ Retake(r) \/ AfterSpeech(r) \/ RoomsOwed(r) \/ RoomsRaise(r)
             \/ RoomsClear(r) \/ Resume(r) \/ Release(r) \/ Crash(r)
      PROVE  MusicInv'
  <2>1. UNCHANGED <<loud, playing, strategy, debt, row, ducked>>
    BY <1>2 DEF PrePause, PausePhone, CancelPrePause, TakeToken, RoomsRead, RoomsMark, RoomsLower,
                Decide, Begun, DuckMusicNow, StepAside, Retake, AfterSpeech, RoomsOwed, RoomsRaise,
                RoomsClear, Resume, Release, Crash, musicVars
  <2>2. ducker' = ducker \/ \E at \in {"off", "begin"} : ducker' = [ducker EXCEPT ![r] = at]
    BY <1>2 DEF PrePause, PausePhone, CancelPrePause, TakeToken, RoomsRead, RoomsMark, RoomsLower,
                Decide, Begun, DuckMusicNow, StepAside, Retake, AfterSpeech, RoomsOwed, RoomsRaise,
                RoomsClear, Resume, Release, Crash, musicVars
  <2>3. \A s \in Replies : ducker'[s] \in {"mark", "duck"} => ducker'[s] = ducker[s]
    BY <2>2 DEF BaseInv, MusicTypes
  <2>4. pc' = pc \/ \E where \in {"rendering", "cancelled", "reading", "waiting", "marking", "lowering",
                                  "speaking", "ducking", "unducking", "resuming", "raising",
                                  "clearing", "owing", "done", "dead"} : Goto(r, where)
    BY <1>2 DEF PrePause, PausePhone, CancelPrePause, TakeToken, RoomsRead, RoomsMark, RoomsLower,
                Decide, Begun, DuckMusicNow, StepAside, Retake, AfterSpeech, RoomsOwed, RoomsRaise,
                RoomsClear, Resume, Release, Crash
  <2>5. \A s \in Replies : pc'[s] \in {"paid", "rowing", "release"} => pc'[s] = pc[s]
    BY <2>4, Goes DEF BaseInv
  <2> QED
    BY <2>1, <2>3, <2>5, MusicHolds
<1>3. ASSUME NEW r \in Replies,
             \/ InterruptMusic(r) \/ ToggleMute(r) \/ ReadDebt(r) \/ PayDebt(r)
             \/ ClearDebt(r) \/ RestoreRow(r)
      PROVE  MusicInv'
  BY <1>3, DuckSteps, MuteMusic, PaySteps
<1>4. ASSUME NEW c \in Rooms, RoomGoes(c) \/ \E want \in Volumes : SetRoom(c, want)
      PROVE  MusicInv'
  <2>1. UNCHANGED <<pc, loud, playing, strategy, debt, row, ducker, ducked>>
    BY <1>4 DEF RoomGoes, SetRoom, musicVars
  <2> QED
    BY <2>1, MusicHolds
<1> QED
  BY <1>1, <1>2, <1>3, <1>4 DEF Next, Before, After

-----------------------------------------------------------------------------
(* The phone, and rest *)

\* The places from which there is a way to Resume or CancelPrePause.
Pausable == {"rendering", "speaking", "unducking", "resuming"} \cup Beginning \cup Loops

\* A step that keeps the pre-pauses and stays where they are undone.
LEMMA PausesHold ==
  ASSUME PauseInv, PhoneTypes,
         \A s \in Replies : pauser'[s] = "running" =>
           pauser[s] = "running"
           /\ (pc'[s] = pc[s] \/ pc'[s] \in {"rendering", "reading", "marking", "lowering", "waiting"}),
         paused' \subseteq paused,
         \A s \in paused' : pc'[s] = pc[s] \/ pc'[s] \in Pausable
  PROVE  PauseInv'
<1>1. \A s \in paused' : pc'[s] \in Pausable
  BY DEF PauseInv, Pausable
<1> QED
  BY <1>1 DEF PauseInv, Pausable

LEMMA PauseStep ==
  ASSUME BaseInv, PauseInv, [Next]_vars
  PROVE  PauseInv'
<1>0. /\ pauser \in [Replies -> {"none", "running", "done"}] /\ paused \subseteq Replies
      /\ PhoneTypes /\ pc \in [Replies -> Quiet \cup Beginning \cup Ending \cup {"speaking"}]
  BY DEF BaseInv, PhoneTypes, PcTypes, Ending, Loops, Restored
<1>1. CASE UNCHANGED vars
  <2>1. UNCHANGED <<pc, pauser, paused>>
    BY <1>1 DEF vars, phoneVars
  <2> QED
    BY <1>0, <2>1, PausesHold
<1>2. ASSUME NEW r \in Replies, PrePause(r) PROVE PauseInv'
  <2>1. pc[r] = "new" /\ pauser' = [pauser EXCEPT ![r] = "running"] /\ UNCHANGED paused
    BY <1>2 DEF PrePause
  <2>2. pc'[r] = "rendering" /\ \A s \in Replies : s # r => pc'[s] = pc[s]
    BY <1>2, Goes DEF PrePause, BaseInv
  <2>3. \A s \in Replies : s # r => pauser'[s] = pauser[s]
    BY <1>0, <2>1
  <2> QED
    BY <1>0, <2>1, <2>2, <2>3 DEF PauseInv
<1>3. ASSUME NEW r \in Replies, PausePhone(r) PROVE PauseInv'
  <2>1. /\ UNCHANGED pc /\ pauser[r] = "running" /\ pauser' = [pauser EXCEPT ![r] = "done"]
        /\ paused' \subseteq paused \cup {r}
    BY <1>3 DEF PausePhone
  <2>2. \A s \in Replies : pauser'[s] = "running" => pauser[s] = "running"
    BY <1>0, <2>1
  <2>3. pc[r] \in {"rendering"} \cup Beginning
    BY <2>1 DEF PauseInv, Beginning
  <2> QED
    BY <1>0, <2>1, <2>2, <2>3 DEF PauseInv
<1>4. ASSUME NEW r \in Replies, CancelPrePause(r) \/ Resume(r) \/ Crash(r) PROVE PauseInv'
  <2>1. paused' = paused \ {r} /\ \E where \in {"cancelled", "owing", "dead"} : Goto(r, where)
    BY <1>4 DEF CancelPrePause, Resume, Crash, ResumePhone
  <2>2. \A s \in Replies : s # r => pc'[s] = pc[s]
    BY <2>1, Goes DEF BaseInv
  <2>3. pauser'[r] # "running" /\ \A s \in Replies : s # r => pauser'[s] = pauser[s]
    <3>1. CASE CancelPrePause(r)
      BY <3>1 DEF CancelPrePause
    <3>2. CASE Resume(r)
      BY <3>2 DEF Resume, PauseInv
    <3>3. CASE Crash(r)
      BY <1>0, <3>3 DEF Crash
    <3> QED
      BY <1>4, <3>1, <3>2, <3>3
  <2> QED
    BY <1>0, <2>1, <2>2, <2>3, PausesHold
<1>5. ASSUME NEW r \in Replies, TakeToken(r) \/ RoomsRead(r) \/ RoomsMark(r) \/ RoomsLower(r)
      PROVE  PauseInv'
  <2>1. /\ UNCHANGED <<pauser, paused>>
        /\ \E where \in {"reading", "marking", "lowering", "waiting"} : Goto(r, where)
    BY <1>5 DEF TakeToken, RoomsRead, RoomsMark, RoomsLower, phoneVars
  <2>2. \A s \in Replies :
          pc'[s] = pc[s] \/ pc'[s] \in {"reading", "marking", "lowering", "waiting"}
    BY <2>1, Goes DEF BaseInv
  <2> QED
    BY <1>0, <2>1, <2>2, PausesHold DEF Pausable, Beginning
<1>6. ASSUME NEW r \in Replies,
             \/ Decide(r) \/ Begun(r) \/ AfterSpeech(r) \/ RoomsOwed(r) \/ RoomsRaise(r) \/ RoomsClear(r)
      PROVE  PauseInv'
  <2>1. /\ UNCHANGED <<pauser, paused>>
        /\ \E where \in {"speaking", "ducking", "unducking", "resuming", "raising", "clearing"} :
             Goto(r, where)
        /\ pc[r] = "waiting" => pauser[r] = "done"
        /\ pc[r] \in {"waiting", "ducking", "speaking", "unducking", "raising", "clearing"}
    BY <1>6 DEF Decide, Begun, AfterSpeech, RoomsOwed, RoomsRaise, RoomsClear, phoneVars
  <2>2. \A s \in Replies : pc'[s] = pc[s]
          \/ (s = r /\ pc'[s] \in {"speaking", "ducking", "unducking", "resuming", "raising", "clearing"})
    BY <2>1, Goes DEF BaseInv
  <2>3. \A s \in Replies : pauser[s] = "running" => s # r
    BY <2>1 DEF PauseInv
  <2> QED
    BY <1>0, <2>1, <2>2, <2>3, PausesHold DEF Pausable, Beginning, Loops
<1>7. ASSUME NEW r \in Replies,
             ReadDebt(r) \/ PayDebt(r) \/ ClearDebt(r) \/ RestoreRow(r) \/ Release(r)
      PROVE  PauseInv'
  <2>1. /\ UNCHANGED <<pauser, paused>> /\ \E where : Goto(r, where)
        /\ pc[r] \in {"owing", "paying", "paid", "rowing", "release"}
    BY <1>7 DEF ReadDebt, PayDebt, ClearDebt, RestoreRow, Release, phoneVars
  <2>2. \A s \in Replies : s # r => pc'[s] = pc[s]
    BY <2>1, Goes DEF BaseInv
  <2>3. pauser[r] # "running" /\ r \notin paused
    BY <2>1 DEF PauseInv, Beginning, Loops
  <2> QED
    BY <1>0, <2>1, <2>2, <2>3, PausesHold
<1>8. ASSUME NEW r \in Replies,
             DuckMusicNow(r) \/ InterruptMusic(r) \/ StepAside(r) \/ Retake(r) \/ ToggleMute(r)
      PROVE  PauseInv'
  <2>1. UNCHANGED <<pc, pauser, paused>>
    BY <1>8 DEF DuckMusicNow, InterruptMusic, PauseMusic, ReadVolume, MarkMusic, Duck, DuckFails,
                SetRow, Ducks, StepAside, Retake, ToggleMute, phoneVars
  <2> QED
    BY <1>0, <2>1, PausesHold
<1>9. ASSUME NEW c \in Rooms, RoomGoes(c) \/ \E want \in Volumes : SetRoom(c, want)
      PROVE  PauseInv'
  <2>1. UNCHANGED <<pc, pauser, paused>>
    BY <1>9 DEF RoomGoes, SetRoom, phoneVars
  <2> QED
    BY <1>0, <2>1, PausesHold
<1> QED
  BY <1>1, <1>2, <1>3, <1>4, <1>5, <1>6, <1>7, <1>8, <1>9 DEF Next, Before, After

\* A death and a refusal are not forgotten.
LEMMA TroubleStays ==
  ASSUME BaseInv, [Next]_vars, Untroubled'
  PROVE  Untroubled
<1>0. fails \in Nat /\ fails' = 0 /\ \A s \in Replies : pc'[s] # "dead"
  BY DEF BaseInv, CountTypes, Untroubled, NobodyDied
<1>1. fails = 0
  <2>1. CASE UNCHANGED vars
    BY <1>0, <2>1 DEF vars
  <2>2. ASSUME NEW r \in Replies, RoomsLower(r) \/ RoomsRaise(r) \/ InterruptMusic(r)
        PROVE  fails = 0
    <3>1. fails' = fails \/ fails' = fails + 1
      BY <2>2 DEF RoomsLower, RoomsRaise, InterruptMusic, PauseMusic, ReadVolume, MarkMusic, Duck,
                  DuckFails, SetRow
    <3> QED
      BY <1>0, <3>1
  <2>3. ASSUME NEW r \in Replies,
               \/ PrePause(r) \/ PausePhone(r) \/ CancelPrePause(r) \/ TakeToken(r) \/ RoomsRead(r)
               \/ RoomsMark(r) \/ Decide(r) \/ Begun(r) \/ DuckMusicNow(r)
               \/ StepAside(r) \/ Retake(r) \/ ToggleMute(r) \/ Crash(r)
        PROVE  fails = 0
    BY <1>0, <2>3 DEF PrePause, PausePhone, CancelPrePause, TakeToken, RoomsRead, RoomsMark, Decide,
                      Begun, DuckMusicNow, StepAside, Retake, ToggleMute, Crash
  <2>4. ASSUME NEW r \in Replies,
               \/ AfterSpeech(r) \/ RoomsOwed(r) \/ RoomsClear(r) \/ Resume(r) \/ ReadDebt(r)
               \/ PayDebt(r) \/ ClearDebt(r) \/ RestoreRow(r) \/ Release(r)
        PROVE  fails = 0
    BY <1>0, <2>4 DEF AfterSpeech, RoomsOwed, RoomsClear, Resume, ReadDebt, PayDebt, ClearDebt,
                      RestoreRow, Release
  <2>5. ASSUME NEW c \in Rooms, RoomGoes(c) \/ \E want \in Volumes : SetRoom(c, want)
        PROVE  fails = 0
    BY <1>0, <2>5 DEF RoomGoes, SetRoom
  <2> QED
    BY <2>1, <2>2, <2>3, <2>4, <2>5 DEF Next, Before, After
<1>2. \A s \in Replies : pc[s] # "dead"
  <2>1. CASE UNCHANGED pc
    BY <1>0, <2>1
  <2>2. ASSUME NEW r \in Replies, pc[r] # "dead", \E where : Goto(r, where)
        PROVE  \A s \in Replies : pc[s] # "dead"
    <3>1. \A s \in Replies : s # r => pc'[s] = pc[s]
      BY <2>2, Goes DEF BaseInv
    <3> QED
      BY <1>0, <2>2, <3>1
  <2>3. ASSUME NEW r \in Replies,
               \/ PrePause(r) \/ CancelPrePause(r) \/ TakeToken(r) \/ RoomsRead(r) \/ RoomsMark(r)
               \/ RoomsLower(r) \/ Decide(r) \/ Begun(r) \/ AfterSpeech(r) \/ RoomsOwed(r) \/ RoomsRaise(r)
               \/ RoomsClear(r) \/ Resume(r) \/ ReadDebt(r) \/ PayDebt(r) \/ ClearDebt(r)
               \/ RestoreRow(r) \/ Release(r) \/ Crash(r)
        PROVE  \A s \in Replies : pc[s] # "dead"
    <3>1. pc[r] # "dead" /\ \E where : Goto(r, where)
      BY <2>3 DEF PrePause, CancelPrePause, TakeToken, RoomsRead, RoomsMark, RoomsLower, Decide, Begun,
                  AfterSpeech, RoomsOwed, RoomsRaise, RoomsClear, Resume, ReadDebt, PayDebt,
                  ClearDebt, RestoreRow, Release, Crash, Over
    <3> QED
      BY <2>2, <3>1
  <2>4. ASSUME NEW r \in Replies,
               \/ PausePhone(r) \/ DuckMusicNow(r) \/ InterruptMusic(r) \/ StepAside(r)
               \/ Retake(r) \/ ToggleMute(r)
        PROVE  \A s \in Replies : pc[s] # "dead"
    <3>1. UNCHANGED pc
      BY <2>4 DEF PausePhone, DuckMusicNow, InterruptMusic, PauseMusic, ReadVolume, MarkMusic, Duck,
                  DuckFails, SetRow, Ducks, StepAside, Retake, ToggleMute
    <3> QED
      BY <2>1, <3>1
  <2>5. ASSUME NEW c \in Rooms, RoomGoes(c) \/ \E want \in Volumes : SetRoom(c, want)
        PROVE  \A s \in Replies : pc[s] # "dead"
    BY <2>1, <2>5 DEF RoomGoes, SetRoom
  <2>6. CASE UNCHANGED vars
    BY <2>1, <2>6 DEF vars
  <2> QED
    BY <2>3, <2>4, <2>5, <2>6 DEF Next, Before, After
<1> QED
  BY <1>1, <1>2 DEF Untroubled, NobodyDied

\* No reply dies in a step that leaves nobody dead.
LEMMA NobodyDies ==
  ASSUME BaseInv, Untroubled', NEW r \in Replies
  PROVE  ~Crash(r)
<1> SUFFICES ASSUME Crash(r) PROVE FALSE
  OBVIOUS
<1>1. pc'[r] = "dead"
  BY Goes DEF Crash, BaseInv
<1> QED
  BY <1>1 DEF Untroubled, NobodyDied

LEMMA PlayStep ==
  ASSUME BaseInv, TokenInv, MusicInv, WillPlay, [Next]_vars, Untroubled'
  PROVE  WillPlay'
<1>0. ducker \in [Replies -> {"off", "begin", "mark", "duck", "row"}]
  BY DEF BaseInv, MusicTypes
<1>1. ASSUME UNCHANGED <<playing, row>>, \A s \in Replies : ducker[s] = "row" => ducker'[s] = "row"
      PROVE  WillPlay'
  BY <1>1 DEF WillPlay
<1>2. CASE UNCHANGED vars
  BY <1>1, <1>2 DEF vars, musicVars
<1>3. ASSUME NEW r \in Replies,
             \/ PrePause(r) \/ PausePhone(r) \/ CancelPrePause(r) \/ TakeToken(r) \/ RoomsRead(r)
             \/ RoomsMark(r) \/ RoomsLower(r) \/ Begun(r) \/ StepAside(r)
             \/ Retake(r) \/ ToggleMute(r) \/ AfterSpeech(r) \/ RoomsOwed(r) \/ RoomsRaise(r)
             \/ RoomsClear(r) \/ Resume(r) \/ ReadDebt(r) \/ PayDebt(r) \/ ClearDebt(r) \/ Release(r)
      PROVE  WillPlay'
  <2>1. UNCHANGED <<playing, row, ducker>>
    BY <1>3 DEF PrePause, PausePhone, CancelPrePause, TakeToken, RoomsRead, RoomsMark, RoomsLower, Begun,
                StepAside, Retake, ToggleMute, AfterSpeech, RoomsOwed, RoomsRaise,
                RoomsClear, Resume, ReadDebt, PayDebt, ClearDebt, Release, musicVars
  <2> QED
    BY <1>1, <2>1
<1>4. ASSUME NEW r \in Replies,
             Decide(r) \/ DuckMusicNow(r) \/ ReadVolume(r) \/ MarkMusic(r) \/ Duck(r) \/ DuckFails(r)
      PROVE  WillPlay'
  <2>1. /\ UNCHANGED <<playing, row>>
        /\ ducker' = ducker \/ (ducker[r] # "row" /\ \E at : ducker' = [ducker EXCEPT ![r] = at])
    <3>1. CASE Decide(r)
      <4>1. pc[r] = "waiting"
        BY <3>1 DEF Decide
      <4>2. ducker[r] # "row"
        BY <4>1 DEF TokenInv
      <4> QED
        BY <3>1, <4>2 DEF Decide
    <3>2. CASE DuckMusicNow(r)
      <4>1. UNCHANGED <<playing, row>> /\ \E at : ducker' = [ducker EXCEPT ![r] = at]
        BY <3>2 DEF DuckMusicNow
      <4>2. ducker[r] = "off"
        BY <3>2 DEF DuckMusicNow, TokenInv
      <4> QED
        BY <4>1, <4>2
    <3>3. CASE ReadVolume(r) \/ MarkMusic(r) \/ Duck(r) \/ DuckFails(r)
      BY <3>3 DEF ReadVolume, MarkMusic, Duck, DuckFails, Ducks
    <3> QED
      BY <1>4, <3>1, <3>2, <3>3
  <2>2. \A s \in Replies : ducker[s] = "row" => ducker'[s] = "row"
    BY <1>0, <2>1
  <2> QED
    BY <1>1, <2>1, <2>2
<1>5. ASSUME NEW r \in Replies, PauseMusic(r) PROVE WillPlay'
  <2>1. ducker'[r] = "row"
    BY <1>0, <1>5 DEF PauseMusic, Ducks
  <2> QED
    BY <2>1 DEF WillPlay
<1>6. ASSUME NEW r \in Replies, SetRow(r) PROVE WillPlay'
  <2>1. UNCHANGED playing /\ row' = {<<strategy, base[r]>>}
    BY <1>6 DEF SetRow
  <2>2. ~playing => strategy = "pause"
    BY DEF MusicInv
  <2> QED
    BY <2>1, <2>2 DEF WillPlay
<1>7. ASSUME NEW r \in Replies, RestoreRow(r) PROVE WillPlay'
  <2>1. pc[r] = "rowing" /\ playing' = (playing \/ \E x \in row : x[1] = "pause")
    BY <1>7 DEF RestoreRow
  <2>2. \A s \in Replies : ducker[s] = "off"
    BY <2>1, EndsUnducked DEF Ending, Restored
  <2>3. playing'
    BY <2>1, <2>2 DEF WillPlay
  <2> QED
    BY <2>3 DEF WillPlay
<1>8. ASSUME NEW c \in Rooms, RoomGoes(c) \/ \E want \in Volumes : SetRoom(c, want)
      PROVE  WillPlay'
  BY <1>1, <1>8 DEF RoomGoes, SetRoom, musicVars
<1> QED
  BY <1>2, <1>3, <1>4, <1>5, <1>6, <1>7, <1>8, NobodyDies DEF Next, Before, After, InterruptMusic

LEMMA ResumeStep ==
  ASSUME BaseInv, WillResume, [Next]_vars, Untroubled'
  PROVE  WillResume'
<1>1. ASSUME UNCHANGED <<phone, paused>> PROVE WillResume'
  BY <1>1 DEF WillResume
<1>2. CASE UNCHANGED vars
  BY <1>1, <1>2 DEF vars, phoneVars
<1>3. ASSUME NEW r \in Replies, PausePhone(r) PROVE WillResume'
  <2>1. paused' = IF phone THEN paused \cup {r} ELSE paused
    BY <1>3 DEF PausePhone
  <2> QED
    BY <2>1 DEF WillResume
<1>4. ASSUME NEW r \in Replies, CancelPrePause(r) \/ Resume(r) PROVE WillResume'
  <2>1. phone' = (phone \/ r \in paused) /\ paused' = paused \ {r}
    BY <1>4 DEF CancelPrePause, Resume, ResumePhone
  <2> QED
    BY <2>1 DEF WillResume
<1>5. ASSUME NEW r \in Replies,
             \/ PrePause(r) \/ TakeToken(r) \/ RoomsRead(r) \/ RoomsMark(r) \/ RoomsLower(r) \/ Decide(r)
             \/ Begun(r) \/ DuckMusicNow(r) \/ InterruptMusic(r) \/ StepAside(r) \/ Retake(r)
             \/ ToggleMute(r)
      PROVE  WillResume'
  <2>1. UNCHANGED <<phone, paused>>
    BY <1>5 DEF PrePause, TakeToken, RoomsRead, RoomsMark, RoomsLower, Decide, Begun, DuckMusicNow,
                InterruptMusic, PauseMusic, ReadVolume, MarkMusic, Duck, DuckFails, SetRow, Ducks,
                StepAside, Retake, ToggleMute, phoneVars
  <2> QED
    BY <1>1, <2>1
<1>6. ASSUME NEW r \in Replies,
             \/ AfterSpeech(r) \/ RoomsOwed(r) \/ RoomsRaise(r) \/ RoomsClear(r) \/ ReadDebt(r)
             \/ PayDebt(r) \/ ClearDebt(r) \/ RestoreRow(r) \/ Release(r)
      PROVE  WillResume'
  <2>1. UNCHANGED <<phone, paused>>
    BY <1>6 DEF AfterSpeech, RoomsOwed, RoomsRaise, RoomsClear, ReadDebt, PayDebt, ClearDebt,
                RestoreRow, Release, phoneVars
  <2> QED
    BY <1>1, <2>1
<1>7. ASSUME NEW c \in Rooms, RoomGoes(c) \/ \E want \in Volumes : SetRoom(c, want)
      PROVE  WillResume'
  BY <1>1, <1>7 DEF RoomGoes, SetRoom, phoneVars
<1> QED
  BY <1>2, <1>3, <1>4, <1>5, <1>6, <1>7, NobodyDies DEF Next, Before, After

LEMMA OweStep ==
  ASSUME BaseInv, TokenInv, RoomInv, MusicInv, NothingOwed, [Next]_vars, Untroubled, Untroubled'
  PROVE  NothingOwed'
<1> SUFFICES ASSUME AllQuiet' PROVE (owed = <<>> /\ debt = {} /\ row = {})'
  BY DEF NothingOwed
<1>0. \A s \in Replies : pc'[s] \in Quiet
  BY DEF AllQuiet
<1>1. ASSUME UNCHANGED <<owed, debt, row>>, AllQuiet
      PROVE  (owed = <<>> /\ debt = {} /\ row = {})'
  BY <1>1 DEF NothingOwed
<1>2. CASE UNCHANGED vars
  <2>1. UNCHANGED <<pc, owed, debt, row>>
    BY <1>2 DEF vars, roomVars, musicVars
  <2> QED
    BY <1>1, <2>1 DEF AllQuiet
<1>3. ASSUME NEW r \in Replies, PrePause(r) \/ CancelPrePause(r) \/ PausePhone(r)
      PROVE  (owed = <<>> /\ debt = {} /\ row = {})'
  <2>1. /\ UNCHANGED <<owed, debt, row>>
        /\ UNCHANGED pc \/ (pc[r] \in Quiet /\ \E where : Goto(r, where))
    BY <1>3 DEF PrePause, CancelPrePause, PausePhone, Quiet, roomVars, musicVars
  <2>2. \A s \in Replies : pc[s] \in Quiet
    BY <1>0, <2>1, Goes DEF BaseInv
  <2> QED
    BY <1>1, <2>1, <2>2 DEF AllQuiet
<1>4. ASSUME NEW r \in Replies, Release(r)
      PROVE  (owed = <<>> /\ debt = {} /\ row = {})'
  <2>1. UNCHANGED <<owed, debt, row>> /\ pc[r] = "release" /\ fails = 0
    BY <1>4 DEF Release, roomVars, musicVars, Untroubled
  <2>2. owed = <<>>
    BY <2>1 DEF RoomInv, RoomOf, Restored
  <2>3. debt = {} /\ row = {}
    BY <2>1 DEF MusicInv, MusicOf
  <2> QED
    BY <2>1, <2>2, <2>3
<1>5. ASSUME NEW r \in Replies, StepAside(r) \/ Retake(r) \/ DuckMusicNow(r) \/ ToggleMute(r)
      PROVE  (owed = <<>> /\ debt = {} /\ row = {})'
  <2>1. UNCHANGED <<pc, owed, debt, row>>
    BY <1>5 DEF StepAside, Retake, DuckMusicNow, ToggleMute, roomVars, musicVars
  <2> QED
    BY <1>0, <1>1, <2>1 DEF AllQuiet
<1>6. ASSUME NEW r \in Replies, InterruptMusic(r) PROVE FALSE
  <2>1. UNCHANGED pc /\ ducker[r] # "off"
    BY <1>6 DEF InterruptMusic, PauseMusic, ReadVolume, MarkMusic, Duck, DuckFails, SetRow, Ducks
  <2>2. pc'[r] \in {"speaking", "ducking"}
    BY <2>1, DuckerHasIt
  <2> QED
    BY <1>0, <2>2 DEF Quiet
<1>7. ASSUME NEW r \in Replies,
             \/ TakeToken(r) \/ RoomsRead(r) \/ RoomsMark(r) \/ RoomsLower(r) \/ Decide(r) \/ Begun(r)
             \/ AfterSpeech(r) \/ RoomsOwed(r) \/ RoomsRaise(r) \/ RoomsClear(r) \/ Resume(r)
             \/ ReadDebt(r) \/ PayDebt(r) \/ ClearDebt(r) \/ RestoreRow(r)
      PROVE  FALSE
  <2>1. PICK where \in {"reading", "waiting", "marking", "lowering", "speaking", "ducking", "unducking",
                        "resuming", "raising", "clearing", "owing", "rowing", "paying", "paid",
                        "release"} : Goto(r, where)
    BY <1>7 DEF TakeToken, RoomsRead, RoomsMark, RoomsLower, Decide, Begun, AfterSpeech, RoomsOwed,
                RoomsRaise, RoomsClear, Resume, ReadDebt, PayDebt, ClearDebt, RestoreRow
  <2>2. pc'[r] = where
    BY <2>1, Goes DEF BaseInv
  <2> QED
    BY <1>0, <2>2 DEF Quiet
<1>8. ASSUME NEW c \in Rooms, RoomGoes(c)
      PROVE  (owed = <<>> /\ debt = {} /\ row = {})'
  <2>1. UNCHANGED <<pc, owed, debt, row>>
    BY <1>8 DEF RoomGoes, musicVars
  <2> QED
    BY <1>0, <1>1, <2>1 DEF AllQuiet
<1>9. ASSUME NEW c \in Rooms, NEW want \in Volumes, SetRoom(c, want)
      PROVE  (owed = <<>> /\ debt = {} /\ row = {})'
  <2>1. UNCHANGED <<pc, debt, row>>
    BY <1>9 DEF SetRoom, musicVars
  <2>2. owed = <<>> /\ debt = {} /\ row = {}
    BY <1>0, <2>1 DEF NothingOwed, AllQuiet
  <2> QED
    BY <1>9, <2>1, <2>2, Dialled DEF BaseInv
<1> QED
  BY <1>2, <1>3, <1>4, <1>5, <1>6, <1>7, <1>8, <1>9, NobodyDies DEF Next, Before, After

LEMMA RestStep ==
  ASSUME BaseInv, TokenInv, RoomInv, MusicInv, RestInv, [Next]_vars
  PROVE  RestInv'
<1> SUFFICES ASSUME Untroubled' PROVE (WillPlay /\ WillResume /\ NothingOwed)'
  BY DEF RestInv
<1>1. Untroubled
  BY TroubleStays
<1>2. WillPlay /\ WillResume /\ NothingOwed
  BY <1>1 DEF RestInv
<1> QED
  BY <1>1, <1>2, PlayStep, ResumeStep, OweStep

-----------------------------------------------------------------------------
(* What the invariant gives *)

LEMMA DebtAlways == ASSUME Races = {} PROVE Spec => [](BaseInv /\ DebtInv)
<1>1. Init => BaseInv /\ DebtInv
  BY InitBase, InitDebt
<1>2. BaseInv /\ DebtInv /\ [Next]_vars => (BaseInv /\ DebtInv)'
  <2> SUFFICES ASSUME BaseInv, DebtInv, [Next]_vars PROVE (BaseInv /\ DebtInv)'
    OBVIOUS
  <2>1. TokenInv /\ RoomInv /\ MusicInv /\ PauseInv /\ RestInv
    BY DEF DebtInv
  <2>2. BaseInv' /\ TokenInv' /\ RoomInv'
    BY <2>1, BaseStep, TokenStep, RoomStep
  <2>3. MusicInv' /\ PauseInv' /\ RestInv'
    BY <2>1, MusicStep, PauseStep, RestStep
  <2> QED
    BY <2>2, <2>3 DEF DebtInv
<1> QED
  BY <1>1, <1>2, PTL DEF Spec

\* What is lowered is owed, at every step, for any replies and rooms, whoever
\* dies and whatever is refused, as long as no two overlap as Races says.
THEOREM LoweredStaysOwed == ASSUME Races = {} PROVE Spec => []LoweredIsOwed
<1>1. DebtInv => LoweredIsOwed
  BY DEF DebtInv, RoomInv, MusicInv, LoweredIsOwed
<1> QED
  BY <1>1, DebtAlways, PTL

\* With no crash and no refusal nothing stays changed once nobody speaks.
LEMMA RestIsRestored == BaseInv /\ DebtInv => RestoresAll
<1> SUFFICES ASSUME BaseInv, DebtInv, AllQuiet, NobodyDied, fails = 0
             PROVE  /\ \A c \in rooms : volume[c] = own[c]
                    /\ owed = <<>> /\ debt = {} /\ row = {}
                    /\ loud = Nominal /\ playing
                    /\ (\A r \in Replies : pc[r] # "rendering") => phone
  BY DEF RestoresAll
<1>1. WillPlay /\ WillResume /\ NothingOwed
  BY DEF DebtInv, RestInv, Untroubled
<1>2. owed = <<>> /\ debt = {} /\ row = {}
  BY <1>1 DEF NothingOwed
<1>3. \A c \in rooms : volume[c] = own[c]
  <2>1. DOMAIN owed = {}
    BY <1>2, Nothing
  <2> QED
    BY <2>1 DEF DebtInv, RoomInv, RoomsAreOwed
<1>4. loud = Nominal
  <2>1. RowBaseline = {}
    BY <1>2 DEF RowBaseline
  <2> QED
    BY <1>2, <2>1 DEF DebtInv, MusicInv, MusicIsOwed
<1>5. playing
  <2>1. \A r \in Replies : ducker[r] = "off"
    BY DuckerHasIt DEF DebtInv, AllQuiet, Quiet
  <2> QED
    BY <1>1, <1>2, <2>1 DEF WillPlay
<1>6. (\A r \in Replies : pc[r] # "rendering") => phone
  <2> SUFFICES ASSUME ~phone PROVE \E r \in Replies : pc[r] = "rendering"
    OBVIOUS
  <2>1. PICK r \in paused : r \in Replies
    BY <1>1 DEF WillResume, BaseInv, PhoneTypes
  <2>2. pc[r] = "rendering"
    BY <2>1 DEF DebtInv, PauseInv, AllQuiet, Quiet, Beginning, Loops
  <2> QED
    BY <2>1, <2>2
<1> QED
  BY <1>2, <1>3, <1>4, <1>5, <1>6

THEOREM AllIsRestored == ASSUME Races = {} PROVE Spec => []RestoresAll
BY RestIsRestored, DebtAlways, PTL

\* Only its own release ends a reply, and changes nothing else.
LEMMA OnlyRelease ==
  ASSUME BaseInv, Next, NEW r \in Replies, pc[r] = "release", pc'[r] = "done"
  PROVE  UNCHANGED <<loud, fails, own, volume, rooms>>
<1>1. CASE Release(r)
  BY <1>1 DEF Release, roomVars, musicVars
<1>2. ASSUME NEW s \in Replies, \E where \in {"rendering", "cancelled", "reading", "waiting", "marking",
             "lowering", "speaking", "ducking", "unducking", "resuming", "raising", "clearing", "owing",
             "rowing", "paying", "paid", "release", "dead"} : Goto(s, where)
      PROVE  FALSE
  BY <1>2, Goes DEF BaseInv
<1>3. ASSUME NEW s \in Replies,
             \/ PrePause(s) \/ CancelPrePause(s) \/ TakeToken(s) \/ RoomsRead(s) \/ RoomsMark(s)
             \/ RoomsLower(s) \/ Decide(s) \/ Begun(s) \/ AfterSpeech(s) \/ RoomsOwed(s)
             \/ RoomsRaise(s) \/ RoomsClear(s) \/ Resume(s) \/ ReadDebt(s) \/ PayDebt(s)
             \/ ClearDebt(s) \/ RestoreRow(s) \/ Crash(s)
      PROVE  FALSE
  <2>1. \E where \in {"rendering", "cancelled", "reading", "waiting", "marking",
             "lowering", "speaking", "ducking", "unducking", "resuming", "raising", "clearing", "owing",
             "rowing", "paying", "paid", "release", "dead"} : Goto(s, where)
    BY <1>3 DEF PrePause, CancelPrePause, TakeToken, RoomsRead, RoomsMark, RoomsLower, Decide, Begun,
                AfterSpeech, RoomsOwed, RoomsRaise, RoomsClear, Resume, ReadDebt, PayDebt, ClearDebt,
                RestoreRow, Crash
  <2> QED
    BY <1>2, <2>1
<1>4. ASSUME NEW s \in Replies,
             \/ PausePhone(s) \/ DuckMusicNow(s) \/ InterruptMusic(s) \/ StepAside(s) \/ Retake(s)
             \/ ToggleMute(s)
      PROVE  FALSE
  <2>1. UNCHANGED pc
    BY <1>4 DEF PausePhone, DuckMusicNow, InterruptMusic, PauseMusic, ReadVolume, MarkMusic, Duck,
                DuckFails, SetRow, Ducks, StepAside, Retake, ToggleMute
  <2> QED
    BY <2>1
<1>5. ASSUME NEW s \in Replies, s # r, Release(s) PROVE FALSE
  BY <1>5, Goes DEF Release, BaseInv
<1>6. ASSUME NEW c \in Rooms, RoomGoes(c) \/ \E want \in Volumes : SetRoom(c, want)
      PROVE  FALSE
  BY <1>6 DEF RoomGoes, SetRoom
<1> QED
  BY <1>1, <1>3, <1>4, <1>5, <1>6 DEF Next, Before, After

\* Whatever died before it, a reply that ends has put the music back, and the
\* rooms unless the server refused.
THEOREM NextOnePays == ASSUME Races = {} PROVE Spec => NextPays
<1> DEFINE Paid ==
      \A r \in Replies :
        pc[r] = "release" /\ pc'[r] = "done" /\ (\A s \in Replies \ {r} : pc[s] \in Quiet)
          => /\ loud' = Nominal
             /\ fails' = 0 => \A c \in rooms' : volume'[c] = own'[c]
<1>1. BaseInv /\ DebtInv /\ [Next]_vars => Paid \/ UNCHANGED vars
  <2> SUFFICES ASSUME BaseInv, DebtInv, Next, NEW r \in Replies, pc[r] = "release", pc'[r] = "done"
               PROVE  /\ loud' = Nominal
                      /\ fails' = 0 => \A c \in rooms' : volume'[c] = own'[c]
    OBVIOUS
  <2>1. UNCHANGED <<loud, fails, own, volume, rooms>>
    BY OnlyRelease
  <2>2. loud = Nominal
    BY DEF DebtInv, MusicInv, MusicOf
  <2>3. fails = 0 => \A c \in rooms : volume[c] = own[c]
    <3> SUFFICES ASSUME fails = 0 PROVE \A c \in rooms : volume[c] = own[c]
      OBVIOUS
    <3>1. owed = <<>>
      BY DEF DebtInv, RoomInv, RoomOf, Restored
    <3>2. DOMAIN owed = {}
      BY <3>1, Nothing
    <3> QED
      BY <3>2 DEF DebtInv, RoomInv, RoomsAreOwed
  <2> QED
    BY <2>1, <2>2, <2>3
<1>2. BaseInv /\ DebtInv /\ [Next]_vars => [Paid]_vars
  BY <1>1
<1>3. Spec => [][Paid]_vars
  <2> HIDE DEF Paid
  <2> QED
    BY <1>2, DebtAlways, PTL DEF Spec
<1> QED
  BY <1>3 DEF NextPays
=============================================================================
