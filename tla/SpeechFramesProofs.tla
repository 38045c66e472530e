------------------------- MODULE SpeechFramesProofs -------------------------
(***************************************************************************)
(* Theorems about SpeechFrames for any clips, jumps and bounds: its types, *)
(* that the phone applies every frame once and in order, and that old news *)
(* does not undo a move.                                                   *)
(***************************************************************************)
EXTENDS SpeechFrames, WellFoundedInduction, TLAPS

Frames == [seq : Nat, op : Ops]
Reports ==
  [seq : Nat, n : Nat, pos : Nat \cup {-1}, idle : BOOLEAN, knew : SUBSET (Nat \X Nat)]

\* The model and the player are players; clips are cut only from a reply that
\* had more.
CutIsMore(m) == m.cut = 0 \/ m.n < m.cut
PlayerInv == model \in Players /\ player \in Players /\ CutIsMore(model)

\* The frames of a run are numbered without a hole, and a run's numbers are
\* past those of every run before; what moves the player counts as moved.
HubInv ==
  /\ run \in Nat /\ frames \subseteq Frames
  /\ stale \in Nat /\ late \in Nat /\ seq \in Nat /\ stale <= late /\ late <= seq
  /\ moved \in Base(run)..seq /\ seq <= Base(run) + MaxFrames
  /\ {f.seq : f \in frames} = (Base(run) + 1)..seq
  /\ \A f \in frames : f.op.do # "add" => f.seq <= moved

\* The phone's stream is the one opened last, and there is no other while one
\* is being opened.
StreamInv ==
  /\ opens \in Nat /\ own \in Nat /\ opening \in Nat \cup {-1}
  /\ streams \subseteq [tok : Nat, cur : Nat]
  /\ \A s \in streams : 0 < s.tok /\ s.tok <= opens /\ s.cur <= seq
  /\ \A s, t \in streams : s.tok = t.tok => s = t
  /\ opening # -1 => /\ own = 0 /\ 0 < opens /\ opening <= seq
                     /\ \A s \in streams : s.tok < opens
  /\ own # 0 => own = opens /\ \E s \in streams : s.tok = own
  /\ own = 0 => wire = <<>>

\* What the phone has applied, and what is on its way to it, in order and
\* before the cursor of its stream.
WireInv ==
  /\ applied \in Nat /\ since \in Nat /\ applied <= seq /\ since <= seq
  /\ wire \in Seq(frames)
  /\ \A i, j \in DOMAIN wire : i < j => wire[i].seq < wire[j].seq
  /\ \A i \in DOMAIN wire : applied < wire[i].seq
  /\ opening # -1 => applied <= opening
  /\ \A s \in streams : s.tok = own =>
       applied <= s.cur /\ \A i \in DOMAIN wire : wire[i].seq <= s.cur

\* A frame that was applied, or was sent REPLAY_S ago.
Applied(n, known) == <<run, n>> \in known \/ n <= stale

\* Up to where the phone has come, and up to where its stream has, nothing
\* that was sent since it connected is missing but what is on its way.
KnownInv ==
  /\ knows \subseteq Nat \X Nat
  /\ \A f \in frames : since < f.seq /\ f.seq <= applied => Applied(f.seq, knows)
  /\ opening # -1 =>
       \A f \in frames : since < f.seq /\ f.seq <= opening => Applied(f.seq, knows)
  /\ \A s \in streams : s.tok = own =>
       \A f \in frames : since < f.seq /\ f.seq <= s.cur =>
         Applied(f.seq, knows) \/ \E i \in DOMAIN wire : wire[i].seq = f.seq

\* The same of what a report says.
ReportInv ==
  /\ reports \subseteq Reports
  /\ \A r \in reports :
       /\ r.seq <= seq
       /\ \A f \in frames : since < f.seq /\ f.seq <= r.seq => Applied(f.seq, r.knew)

FramesInv == PlayerInv /\ HubInv /\ StreamInv /\ WireInv /\ KnownInv /\ ReportInv

-----------------------------------------------------------------------------
(* Lemmas about numbers and about the operators of the module *)

LEMMA LeastNat ==
  ASSUME NEW T \in SUBSET Nat, T # {}
  PROVE  \E x \in T : \A y \in T : x <= y
<1> DEFINE R == OpToRel(<, Nat)
<1>1. IsWellFoundedOn(R, Nat)
  BY NatLessThanWellFounded
<1>2. \A x, y \in Nat : x < y <=> <<x, y>> \in R
  BY DEF OpToRel
<1> HIDE DEF R
<1>3. PICK x \in T : \A y \in T : ~ (<<y, x>> \in R)
  BY <1>1, WFMin
<1>4. \A y \in T : ~(y < x)
  BY <1>2, <1>3
<1>5. \A y \in T : x <= y
  BY <1>4
<1> QED
  BY <1>5

\* A run's numbers come after those of the run before.
LEMMA RunsApart ==
  ASSUME NEW r \in Nat
  PROVE  Base(r) \in Nat /\ Base(r + 1) = Base(r) + MaxFrames + 1
<1>1. MaxFrames \in Nat
  BY FramesAssumption DEF FramesAssumption
<1> QED
  BY <1>1 DEF Base

LEMMA OpKinds ==
  ASSUME NEW op \in Ops
  PROVE  op.do \in {"play", "add", "jump", "stop"} /\ op.at \in Nat
BY FramesAssumption DEF FramesAssumption, Ops, Play, Add, Jump, Stop

LEMMA SilentPlayer == Silent \in Players /\ CutIsMore(Silent)
BY DEF Silent, Players, CutIsMore

LEMMA Applies ==
  ASSUME NEW m \in Players, NEW op \in Ops
  PROVE  Apply(m, op) \in Players /\ (CutIsMore(m) => CutIsMore(Apply(m, op)))
<1>1. op.do \in {"play", "add", "jump", "stop"} /\ op.at \in Nat
  BY OpKinds
<1>2. m.n \in Nat /\ m.cut \in Nat /\ m.pos \in Nat \cup {-1} /\ m.idle \in BOOLEAN
  BY DEF Players
<1>3. CASE op.do = "play"
  <2>1. Apply(m, op) = [n |-> Clips, cut |-> 0, pos |-> 0, idle |-> FALSE] /\ Clips \in Nat
    BY <1>3, FramesAssumption DEF Apply, FramesAssumption
  <2> QED
    BY <2>1 DEF Players, CutIsMore
<1>4. CASE op.do = "add"
  <2>1. Apply(m, op) = [m EXCEPT !.n = @ + 1, !.cut = IF @ = 0 THEN 0 ELSE @ + 1]
    BY <1>4 DEF Apply
  <2>2. Apply(m, op) \in Players
    <3>1. m.n + 1 \in Nat /\ (IF m.cut = 0 THEN 0 ELSE m.cut + 1) \in Nat
      BY <1>2
    <3>2. \A x, y \in Nat : [m EXCEPT !.n = x, !.cut = y] \in Players
      BY DEF Players
    <3>3. Apply(m, op) = [m EXCEPT !.n = m.n + 1, !.cut = IF m.cut = 0 THEN 0 ELSE m.cut + 1]
      BY <2>1 DEF Players
    <3> QED
      BY <3>1, <3>2, <3>3
  <2>3. Apply(m, op).n = m.n + 1 /\ Apply(m, op).cut = IF m.cut = 0 THEN 0 ELSE m.cut + 1
    BY <2>1 DEF Players
  <2> QED
    BY <1>2, <2>2, <2>3 DEF CutIsMore
<1>5. CASE op.do = "jump"
  <2>1. Apply(m, op) = m \/ Apply(m, op) = [m EXCEPT !.pos = op.at, !.idle = FALSE]
    BY <1>5 DEF Apply
  <2> QED
    BY <1>1, <2>1 DEF Players, CutIsMore
<1>6. CASE op.do = "stop"
  BY <1>6, SilentPlayer DEF Apply
<1> QED
  BY <1>1, <1>3, <1>4, <1>5, <1>6

LEMMA Counts ==
  ASSUME NEW m \in Players, CutIsMore(m), NEW count \in Nat
  PROVE  Counted(m, count) \in Players /\ CutIsMore(Counted(m, count))
<1>1. m.n \in Nat /\ m.cut \in Nat
  BY DEF Players
<1>2. CASE count < m.n
  <2>1. Counted(m, count) = [m EXCEPT !.n = count, !.cut = IF m.n > @ THEN m.n ELSE @]
    BY <1>2 DEF Counted
  <2>2. Counted(m, count) \in Players
    <3>1. (IF m.n > m.cut THEN m.n ELSE m.cut) \in Nat
      BY <1>1
    <3>2. \A x, y \in Nat : [m EXCEPT !.n = x, !.cut = y] \in Players
      BY DEF Players
    <3>3. Counted(m, count) = [m EXCEPT !.n = count, !.cut = IF m.n > m.cut THEN m.n ELSE m.cut]
      BY <2>1 DEF Players
    <3> QED
      BY <3>1, <3>2, <3>3
  <2>3. Counted(m, count).n = count /\ Counted(m, count).cut = IF m.n > m.cut THEN m.n ELSE m.cut
    BY <2>1 DEF Players
  <2> QED
    BY <1>1, <1>2, <2>2, <2>3 DEF CutIsMore
<1>3. CASE ~(count < m.n) /\ count > m.n /\ m.cut > 0
  <2>1. Counted(m, count) = [m EXCEPT !.n = IF count < m.cut THEN count ELSE m.cut,
                                      !.cut = IF count >= @ THEN 0 ELSE @]
    BY <1>3 DEF Counted
  <2>2. Counted(m, count) \in Players
    <3>1. PICK x \in Nat : x = IF count < m.cut THEN count ELSE m.cut
      BY <1>1
    <3>2. PICK y \in Nat : y = IF count >= m.cut THEN 0 ELSE m.cut
      BY <1>1
    <3>3. [m EXCEPT !.n = x, !.cut = y] \in Players
      BY DEF Players
    <3>4. Counted(m, count) = [m EXCEPT !.n = x, !.cut = y]
      BY <2>1, <3>1, <3>2 DEF Players
    <3> QED
      BY <3>3, <3>4
  <2>3. /\ Counted(m, count).n = IF count < m.cut THEN count ELSE m.cut
        /\ Counted(m, count).cut = IF count >= m.cut THEN 0 ELSE m.cut
    BY <2>1 DEF Players
  <2> QED
    BY <1>1, <2>2, <2>3 DEF CutIsMore
<1>4. CASE ~(count < m.n) /\ ~(count > m.n /\ m.cut > 0)
  BY <1>4 DEF Counted
<1> QED
  BY <1>2, <1>3, <1>4

\* What a report makes of the model.
LEMMA Says ==
  ASSUME PlayerInv, NEW r \in Reports
  PROVE  Said(r) \in Players /\ CutIsMore(Said(r))
<1> DEFINE count == IF r.pos + 1 > r.n THEN r.pos + 1 ELSE r.n
<1>1. r.n \in Nat /\ r.pos \in Nat \cup {-1} /\ r.idle \in BOOLEAN
  BY DEF Reports
<1>2. count \in Nat
  BY <1>1
<1>3. Counted(model, count) \in Players /\ CutIsMore(Counted(model, count))
  BY <1>2, Counts DEF PlayerInv
<1>4. Word(model, r) = [Counted(model, count) EXCEPT !.pos = r.pos, !.idle = r.idle]
  BY DEF Word
<1> HIDE DEF count
<1>5. Word(model, r) \in Players /\ CutIsMore(Word(model, r))
  BY <1>1, <1>3, <1>4 DEF Players, CutIsMore
<1>6. Where(model, r) \in Players /\ CutIsMore(Where(model, r))
  <2>1. Where(model, r) = model \/ Where(model, r) = [model EXCEPT !.pos = r.pos]
    BY DEF Where
  <2> QED
    BY <1>1, <2>1 DEF PlayerInv, Players, CutIsMore
<1> QED
  BY <1>5, <1>6 DEF Said, PlayerInv

-----------------------------------------------------------------------------
(* Sequences of frames *)

LEMMA SeqGrows ==
  ASSUME NEW S, NEW T, S \subseteq T, NEW w \in Seq(S)
  PROVE  w \in Seq(T)
OBVIOUS

\* In what is on its way: the first, what follows it, and one more.
LEMMA SeqMembers ==
  ASSUME NEW S, NEW w \in Seq(S)
  PROVE  /\ Len(w) \in Nat /\ DOMAIN w = 1..Len(w) /\ \A i \in DOMAIN w : w[i] \in S
         /\ w # <<>> => 1 \in DOMAIN w /\ Head(w) = w[1] /\ Head(w) \in S
OBVIOUS

LEMMA SeqTail ==
  ASSUME NEW S, NEW w \in Seq(S), w # <<>>
  PROVE  /\ Tail(w) \in Seq(S) /\ Len(w) \in Nat /\ Len(w) > 0
         /\ DOMAIN Tail(w) = 1..(Len(w) - 1) /\ DOMAIN w = 1..Len(w)
         /\ \A i \in 1..(Len(w) - 1) : Tail(w)[i] = w[i + 1]
OBVIOUS

LEMMA SeqMore ==
  ASSUME NEW S, NEW w \in Seq(S), NEW x \in S
  PROVE  /\ Append(w, x) \in Seq(S) /\ Len(w) \in Nat
         /\ DOMAIN w = 1..Len(w) /\ DOMAIN Append(w, x) = 1..(Len(w) + 1)
         /\ Append(w, x)[Len(w) + 1] = x /\ \A i \in 1..Len(w) : Append(w, x)[i] = w[i]
OBVIOUS

\* The next frame a stream is to send is the least of those after its cursor.
LEMMA NextFrame ==
  ASSUME HubInv, NEW s, Write(s)
  PROVE  \E f \in After(s) :
           /\ \A h \in After(s) : f.seq <= h.seq
           /\ streams' = (streams \ {s}) \cup {[s EXCEPT !.cur = f.seq]}
           /\ wire' = IF Playing(s) /\ own = s.tok THEN Append(wire, f) ELSE wire
<1>1. After(s) # {}
  BY DEF Write
<1>2. \A f \in After(s) : f.seq \in Nat
  BY DEF HubInv, Frames, After
<1>3. \E f \in After(s) : \A h \in After(s) : f.seq <= h.seq
  <2> DEFINE T == {f.seq : f \in After(s)}
  <2>1. T \in SUBSET Nat /\ T # {}
    BY <1>1, <1>2
  <2> HIDE DEF T
  <2>2. PICK x \in T : \A y \in T : x <= y
    BY <2>1, LeastNat
  <2> QED
    BY <2>2 DEF T
<1> DEFINE least == CHOOSE g \in After(s) : \A h \in After(s) : g.seq <= h.seq
<1>4. least \in After(s) /\ \A h \in After(s) : least.seq <= h.seq
  BY <1>3
<1>5. /\ streams' = (streams \ {s}) \cup {[s EXCEPT !.cur = least.seq]}
      /\ wire' = IF Playing(s) /\ own = s.tok THEN Append(wire, least) ELSE wire
  BY DEF Write
<1> HIDE DEF least
<1> QED
  BY <1>4, <1>5

-----------------------------------------------------------------------------
(* The steps *)

LEMMA InitFrames == Init => FramesInv
<1> SUFFICES ASSUME Init PROVE FramesInv
  OBVIOUS
<1>1. Base(1) \in Nat /\ MaxFrames \in Nat
  BY RunsApart, FramesAssumption DEF FramesAssumption
<1>2. PlayerInv
  BY SilentPlayer DEF Init, PlayerInv
<1>3. HubInv
  BY <1>1 DEF Init, HubInv
<1>4. StreamInv
  BY <1>1 DEF Init, StreamInv
<1>5. WireInv
  BY <1>1 DEF Init, WireInv
<1>6. KnownInv /\ ReportInv
  BY DEF Init, KnownInv, ReportInv
<1> QED
  BY <1>2, <1>3, <1>4, <1>5, <1>6 DEF FramesInv

LEMMA PlayerStep ==
  ASSUME FramesInv, [Next]_vars
  PROVE  PlayerInv'
<1> USE DEF hubVars, streamVars, phoneVars, budgets
<1>0. PlayerInv /\ reports \subseteq Reports /\ frames \subseteq Frames /\ wire \in Seq(frames)
  BY DEF FramesInv, ReportInv, HubInv, WireInv
<1>1. ASSUME NEW op \in Ops, Send(op) PROVE PlayerInv'
  BY <1>0, <1>1, Applies DEF Send, PlayerInv
<1>2. CASE Receive
  <2>1. Head(wire).op \in Ops
    BY <1>0, <1>2, SeqMembers DEF Receive, Frames
  <2> QED
    BY <1>0, <1>2, <2>1, Applies DEF Receive, PlayerInv
<1>3. CASE PlaysOn
  <2>1. player.pos + 1 \in Nat /\ player \in Players
    BY <1>0 DEF PlayerInv, Players
  <2>2. player' \in Players
    BY <1>3, <2>1 DEF PlaysOn, Players
  <2> QED
    BY <1>0, <1>3, <2>2 DEF PlaysOn, PlayerInv
<1>4. CASE AppEnds
  BY <1>0, <1>4, SilentPlayer DEF AppEnds, PlayerInv
<1>5. ASSUME NEW r \in reports, Report(r) PROVE PlayerInv'
  BY <1>0, <1>5, Says DEF Report, PlayerInv
<1>6. CASE Restart
  BY <1>0, <1>6, SilentPlayer DEF Restart, PlayerInv
<1>7. CASE \/ Open \/ Register \/ Break \/ (\E s \in streams : Write(s) \/ Unregister(s))
           \/ Tell \/ GrowsLate \/ GrowsStale \/ UNCHANGED vars
  <2>1. UNCHANGED <<model, player>>
    BY <1>7 DEF Open, Register, Break, Write, Unregister, Tell, GrowsLate, GrowsStale, vars
  <2> QED
    BY <1>0, <2>1 DEF PlayerInv
<1> QED
  BY <1>1, <1>2, <1>3, <1>4, <1>5, <1>6, <1>7 DEF Next

LEMMA HubStep ==
  ASSUME FramesInv, [Next]_vars
  PROVE  HubInv'
<1> USE DEF hubVars, streamVars, phoneVars, budgets
<1>0. HubInv /\ Base(run) \in Nat
  BY RunsApart DEF FramesInv, HubInv
<1>1. ASSUME NEW op \in Ops, Send(op) PROVE HubInv'
  <2>1. /\ seq < Base(run) + MaxFrames /\ seq' = seq + 1 /\ UNCHANGED <<late, stale, run>>
        /\ moved' = IF op.do = "add" THEN moved ELSE seq + 1
        /\ frames' = frames \cup {[seq |-> seq + 1, op |-> op]}
    BY <1>1 DEF Send, Inert
  <2>2. MaxFrames \in Nat
    BY FramesAssumption DEF FramesAssumption
  <2>3. [seq |-> seq + 1, op |-> op] \in Frames
    BY <1>0 DEF HubInv, Frames
  <2>4. {f.seq : f \in frames'} = (Base(run) + 1)..(seq + 1)
    <3> DEFINE new == [seq |-> seq + 1, op |-> op]
               Seqs(F) == {f.seq : f \in F}
    <3>1. new.seq = seq + 1 /\ frames' = frames \cup {new}
      BY <2>1
    <3> HIDE DEF new
    <3>2. \A x : x \in Seqs(frames') <=> x \in Seqs(frames) \/ x = new.seq
      BY <3>1
    <3>3. Seqs(frames) = (Base(run) + 1)..seq
      BY <1>0 DEF HubInv
    <3> HIDE DEF Seqs
    <3>4. Seqs(frames') = (Base(run) + 1)..seq \cup {seq + 1}
      BY <3>1, <3>2, <3>3
    <3>5. seq \in Nat /\ Base(run) <= seq
      BY <1>0 DEF HubInv
    <3>6. (Base(run) + 1)..seq \cup {seq + 1} = (Base(run) + 1)..(seq + 1)
      BY <1>0, <3>5
    <3> QED
      BY <3>4, <3>6 DEF Seqs
  <2>5. moved' \in Base(run)..(seq + 1) /\ moved <= moved'
    BY <1>0, <2>1 DEF HubInv
  <2>6. \A f \in frames' : f.op.do # "add" => f.seq <= moved'
    <3>1. \A f \in frames : f.op.do # "add" => f.seq <= moved'
      BY <1>0, <2>5 DEF HubInv, Frames
    <3>2. op.do # "add" => seq + 1 <= moved'
      BY <1>0, <2>1 DEF HubInv
    <3> QED
      BY <2>1, <3>1, <3>2
  <2>7. /\ stale' \in Nat /\ late' \in Nat /\ seq' \in Nat /\ stale' <= late' /\ late' <= seq'
        /\ seq' <= Base(run) + MaxFrames
    BY <1>0, <2>1, <2>2 DEF HubInv
  <2> QED
    BY <1>0, <2>1, <2>3, <2>4, <2>5, <2>6, <2>7 DEF HubInv
<1>2. CASE GrowsLate
  BY <1>0, <1>2 DEF GrowsLate, HubInv
<1>3. CASE GrowsStale
  BY <1>0, <1>3 DEF GrowsStale, HubInv
<1>4. CASE Restart
  <2>1. /\ run' = run + 1 /\ frames' = {} /\ seq' = Base(run + 1) /\ moved' = seq' /\ late' = seq'
        /\ stale' = seq'
    BY <1>4 DEF Restart
  <2>2. Base(run + 1) \in Nat /\ run + 1 \in Nat /\ MaxFrames \in Nat
    BY <1>0, RunsApart, FramesAssumption DEF FramesAssumption, HubInv
  <2> HIDE DEF hubVars
  <2> QED
    BY <2>1, <2>2 DEF HubInv
<1>5. CASE \/ Open \/ Register \/ Break \/ (\E s \in streams : Write(s) \/ Unregister(s))
           \/ Receive \/ PlaysOn \/ AppEnds \/ Tell \/ (\E r \in reports : Report(r))
           \/ UNCHANGED vars
  <2>1. UNCHANGED <<seq, moved, frames, late, stale, run>>
    BY <1>5 DEF Open, Register, Break, Write, Unregister, Receive, PlaysOn, AppEnds, Tell, Report, vars
  <2> QED
    BY <1>0, <2>1 DEF HubInv
<1> QED
  BY <1>1, <1>2, <1>3, <1>4, <1>5 DEF Next

\* A frame's number.
LEMMA Numbered ==
  ASSUME HubInv
  PROVE  \A f \in frames : f.seq \in Nat /\ 0 < f.seq /\ f.seq <= seq
<1>1. Base(run) \in Nat
  BY RunsApart DEF HubInv
<1>2. \A f \in frames : f.seq \in (Base(run) + 1)..seq
  BY DEF HubInv
<1> QED
  BY <1>1, <1>2 DEF HubInv

\* Where the streams are as one of them sends or ends.
LEMMA StreamsOn ==
  ASSUME HubInv, StreamInv, NEW s \in streams, NEW f \in frames,
         streams' = (streams \ {s}) \cup {[s EXCEPT !.cur = f.seq]}
  PROVE  /\ streams' \subseteq [tok : Nat, cur : Nat]
         /\ \A t \in streams' : (t \in streams /\ t.tok # s.tok) \/ (t.tok = s.tok /\ t.cur = f.seq)
         /\ \E t \in streams' : t.tok = s.tok
         /\ \A t \in streams : t.tok # s.tok => t \in streams'
<1>1. s \in [tok : Nat, cur : Nat] /\ f.seq \in Nat
  BY Numbered DEF StreamInv
<1> DEFINE new == [s EXCEPT !.cur = f.seq]
<1>3. new \in [tok : Nat, cur : Nat] /\ new.tok = s.tok /\ new.cur = f.seq
  BY <1>1
<1> HIDE DEF new
<1>4. streams' = (streams \ {s}) \cup {new}
  BY DEF new
<1>5. \A t \in streams \ {s} : t.tok # s.tok
  BY DEF StreamInv
<1> QED
  BY <1>3, <1>4, <1>5 DEF StreamInv

LEMMA StreamStep ==
  ASSUME FramesInv, [Next]_vars
  PROVE  StreamInv'
<1> USE DEF hubVars, streamVars, phoneVars, budgets
<1>0. /\ HubInv /\ StreamInv /\ WireInv /\ seq \in Nat
      /\ \A f \in frames : f.seq \in Nat /\ f.seq <= seq
  BY Numbered DEF FramesInv, HubInv
<1>1. ASSUME NEW op \in Ops, Send(op) PROVE StreamInv'
  <2>1. seq' = seq + 1 /\ UNCHANGED <<opens, own, opening, streams, wire>>
    BY <1>1 DEF Send
  <2>2. \A s \in streams : s.cur <= seq'
    BY <1>0, <2>1 DEF StreamInv
  <2>3. opening # -1 => opening <= seq'
    BY <1>0, <2>1 DEF StreamInv
  <2> QED
    BY <1>0, <2>1, <2>2, <2>3 DEF StreamInv
<1>2. CASE Open
  <2>1. /\ own = 0 /\ opens' = opens + 1 /\ opening' = Cursor /\ UNCHANGED <<seq, own, streams, wire>>
    BY <1>2 DEF Open
  <2>2. Cursor \in Nat /\ Cursor <= seq
    BY <1>0 DEF Cursor, WireInv
  <2> QED
    BY <1>0, <2>1, <2>2 DEF StreamInv
<1>3. CASE Register
  <2> DEFINE new == [tok |-> opens, cur |-> opening]
  <2>1. /\ opening # -1 /\ streams' = streams \cup {new} /\ own' = opens /\ opening' = -1
        /\ UNCHANGED <<seq, opens, wire>>
    BY <1>3 DEF Register
  <2>2. new \in [tok : Nat, cur : Nat] /\ new.tok = opens /\ new.cur = opening
    BY <1>0, <2>1 DEF StreamInv
  <2> HIDE DEF new
  <2>3. 0 < opens /\ opening <= seq /\ \A s \in streams : s.tok < opens
    BY <1>0, <2>1 DEF StreamInv
  <2>4. streams' \subseteq [tok : Nat, cur : Nat]
    BY <1>0, <2>1, <2>2 DEF StreamInv
  <2>5. \A s \in streams' : 0 < s.tok /\ s.tok <= opens' /\ s.cur <= seq'
    BY <1>0, <2>1, <2>2, <2>3 DEF StreamInv
  <2>6. \A s \in streams : s.tok # opens
    BY <1>0, <2>3 DEF StreamInv
  <2>7. \A s, t \in streams' : s.tok = t.tok => s = t
    BY <1>0, <2>1, <2>2, <2>6 DEF StreamInv
  <2>8. own' # 0 /\ \E s \in streams' : s.tok = own'
    BY <1>0, <2>1, <2>2, <2>3 DEF StreamInv
  <2> QED
    BY <1>0, <2>1, <2>4, <2>5, <2>7, <2>8 DEF StreamInv
<1>4. CASE Break \/ AppEnds
  <2>1. /\ own' = 0 /\ wire' = <<>> /\ UNCHANGED <<seq, opens, opening, streams>>
        /\ opening = -1
    BY <1>0, <1>4 DEF Break, AppEnds, StreamInv
  <2> QED
    BY <1>0, <2>1 DEF StreamInv
<1>5. CASE Restart
  BY <1>0, <1>5 DEF Restart, StreamInv
<1>6. ASSUME NEW s \in streams, Write(s) PROVE StreamInv'
  <2>1. PICK f \in After(s) :
          /\ streams' = (streams \ {s}) \cup {[s EXCEPT !.cur = f.seq]}
          /\ wire' = IF Playing(s) /\ own = s.tok THEN Append(wire, f) ELSE wire
    BY <1>0, <1>6, NextFrame
  <2>2. f \in frames /\ UNCHANGED <<seq, opens, own, opening>>
    BY <1>6 DEF After, Write
  <2>3. /\ streams' \subseteq [tok : Nat, cur : Nat]
        /\ \A t \in streams' : (t \in streams /\ t.tok # s.tok) \/ (t.tok = s.tok /\ t.cur = f.seq)
        /\ \E t \in streams' : t.tok = s.tok
        /\ \A t \in streams : t.tok # s.tok => t \in streams'
    BY <1>0, <2>1, <2>2, StreamsOn
  <2>4. \A t \in streams' : 0 < t.tok /\ t.tok <= opens' /\ t.cur <= seq'
    BY <1>0, <2>2, <2>3 DEF StreamInv
  <2>5. \A t, u \in streams' : t.tok = u.tok => t = u
    <3> SUFFICES ASSUME NEW t \in streams', NEW u \in streams', t.tok = u.tok PROVE t = u
      OBVIOUS
    <3>1. CASE t.tok # s.tok
      BY <1>0, <2>3, <3>1 DEF StreamInv
    <3>2. CASE t.tok = s.tok
      <4>1. t.cur = u.cur
        BY <2>3, <3>2
      <4> QED
        BY <2>3, <4>1
    <3> QED
      BY <3>1, <3>2
  <2>6. opening' # -1 => /\ own' = 0 /\ 0 < opens' /\ opening' <= seq'
                         /\ \A t \in streams' : t.tok < opens'
    BY <1>0, <2>2, <2>3 DEF StreamInv
  <2>7. own' # 0 => own' = opens' /\ \E t \in streams' : t.tok = own'
    BY <1>0, <2>2, <2>3 DEF StreamInv
  <2>8. own' = 0 => wire' = <<>>
    BY <1>0, <2>1, <2>2 DEF StreamInv
  <2> QED
    BY <1>0, <2>2, <2>3, <2>4, <2>5, <2>6, <2>7, <2>8 DEF StreamInv
<1>7. ASSUME NEW s \in streams, Unregister(s) PROVE StreamInv'
  <2>1. /\ own # s.tok /\ streams' = streams \ {s} /\ UNCHANGED <<seq, opens, own, opening, wire>>
    BY <1>7 DEF Unregister
  <2> QED
    BY <1>0, <2>1 DEF StreamInv
<1>8. CASE Receive
  <2>1. wire # <<>> /\ UNCHANGED <<seq, opens, own, opening, streams>>
    BY <1>8 DEF Receive
  <2> QED
    BY <1>0, <2>1 DEF StreamInv
<1>9. CASE \/ PlaysOn \/ Tell \/ (\E r \in reports : Report(r)) \/ GrowsLate \/ GrowsStale
           \/ UNCHANGED vars
  <2>1. UNCHANGED <<seq, opens, own, opening, streams, wire>>
    BY <1>9 DEF PlaysOn, Tell, Report, GrowsLate, GrowsStale, vars
  <2> QED
    BY <1>0, <2>1 DEF StreamInv
<1> QED
  BY <1>1, <1>2, <1>3, <1>4, <1>5, <1>6, <1>7, <1>8, <1>9 DEF Next

LEMMA WireStep ==
  ASSUME FramesInv, [Next]_vars
  PROVE  WireInv'
<1> USE DEF hubVars, streamVars, phoneVars, budgets
<1>0. /\ HubInv /\ StreamInv /\ WireInv /\ seq \in Nat
      /\ \A f \in frames : f.seq \in Nat /\ 0 < f.seq /\ f.seq <= seq
      /\ applied \in Nat /\ since \in Nat /\ wire \in Seq(frames)
  BY Numbered DEF FramesInv, HubInv, WireInv
<1>1. ASSUME NEW op \in Ops, Send(op) PROVE WireInv'
  <2>1. /\ seq' = seq + 1 /\ frames \subseteq frames'
        /\ UNCHANGED <<own, opening, streams, wire, applied, since>>
    BY <1>1 DEF Send
  <2>2. wire' \in Seq(frames')
    BY <1>0, <2>1, SeqGrows
  <2>3. applied <= seq' /\ since <= seq'
    BY <1>0, <2>1 DEF WireInv
  <2> QED
    BY <1>0, <2>1, <2>2, <2>3 DEF WireInv
<1>2. CASE Open
  <2>1. /\ own = 0 /\ opening' = Cursor /\ since' \in {since, seq}
        /\ UNCHANGED <<seq, frames, own, streams, wire, applied>>
    BY <1>2 DEF Open
  <2>2. applied <= Cursor
    BY <1>0 DEF Cursor, WireInv
  <2> QED
    BY <1>0, <2>1, <2>2 DEF WireInv
<1>3. CASE Register
  <2> DEFINE new == [tok |-> opens, cur |-> opening]
  <2>1. /\ opening # -1 /\ streams' = streams \cup {new} /\ own' = opens /\ opening' = -1
        /\ UNCHANGED <<seq, frames, wire, applied, since>>
    BY <1>3 DEF Register
  <2>2. new.tok = opens /\ new.cur = opening
    OBVIOUS
  <2> HIDE DEF new
  <2>3. wire = <<>> /\ \A s \in streams : s.tok # opens
    BY <1>0, <2>1 DEF StreamInv
  <2>4. DOMAIN wire = {}
    BY <2>3
  <2>5. \A s \in streams' : s.tok = own' => applied <= s.cur
    BY <1>0, <2>1, <2>2, <2>3 DEF WireInv
  <2> QED
    BY <1>0, <2>1, <2>4, <2>5 DEF WireInv
<1>4. CASE Break \/ AppEnds
  <2>1. /\ own' = 0 /\ wire' = <<>> /\ UNCHANGED <<seq, frames, opening, streams, since>>
        /\ opening = -1 /\ applied' \in {applied, 0}
    BY <1>0, <1>4 DEF Break, AppEnds, StreamInv
  <2>2. \A s \in streams' : s.tok # own'
    BY <1>0, <2>1 DEF StreamInv
  <2>3. wire' \in Seq(frames') /\ DOMAIN wire' = {}
    BY <2>1
  <2> QED
    BY <1>0, <2>1, <2>2, <2>3 DEF WireInv
<1>5. CASE Restart
  <2>1. /\ run' = run + 1 /\ seq' = Base(run + 1) /\ wire' = <<>> /\ streams' = {} /\ opening' = -1
        /\ UNCHANGED <<applied, since>>
    BY <1>5 DEF Restart
  <2>2. seq' \in Nat /\ seq <= seq'
    <3>1. /\ Base(run) \in Nat /\ Base(run + 1) = Base(run) + MaxFrames + 1
          /\ seq <= Base(run) + MaxFrames /\ MaxFrames \in Nat
      BY <1>0, RunsApart, FramesAssumption DEF HubInv, FramesAssumption
    <3> QED
      BY <1>0, <2>1, <3>1
  <2>3. wire' \in Seq(frames') /\ DOMAIN wire' = {}
    BY <2>1
  <2>4. applied' <= seq' /\ since' <= seq'
    BY <1>0, <2>1, <2>2 DEF WireInv
  <2> QED
    BY <1>0, <2>1, <2>3, <2>4 DEF WireInv
<1>6. ASSUME NEW s \in streams, Write(s) PROVE WireInv'
  <2>1. PICK f \in After(s) :
          /\ streams' = (streams \ {s}) \cup {[s EXCEPT !.cur = f.seq]}
          /\ wire' = IF Playing(s) /\ own = s.tok THEN Append(wire, f) ELSE wire
    BY <1>0, <1>6, NextFrame
  <2>2. /\ f \in frames /\ s.cur < f.seq
        /\ UNCHANGED <<seq, frames, own, opening, applied, since>>
    BY <1>6 DEF After, Write
  <2>3. \A t \in streams' : (t \in streams /\ t.tok # s.tok) \/ (t.tok = s.tok /\ t.cur = f.seq)
    BY <1>0, <2>1, <2>2, StreamsOn
  <2>4. s.cur \in Nat
    BY <1>0 DEF StreamInv
  <2>5. CASE Playing(s) /\ own = s.tok
    <3>1. wire' = Append(wire, f)
      BY <2>1, <2>5
    <3>2. /\ wire' \in Seq(frames) /\ Len(wire) \in Nat /\ DOMAIN wire = 1..Len(wire)
          /\ DOMAIN wire' = 1..(Len(wire) + 1) /\ wire'[Len(wire) + 1] = f
          /\ \A i \in 1..Len(wire) : wire'[i] = wire[i]
      BY <1>0, <2>2, <3>1, SeqMore
    <3>3. /\ applied <= s.cur /\ \A i \in DOMAIN wire : wire[i].seq <= s.cur
          /\ \A i \in DOMAIN wire : wire[i] \in frames /\ wire[i].seq \in Nat
      BY <1>0, <2>5, SeqMembers DEF WireInv
    <3>4. \A i \in DOMAIN wire : wire[i].seq < f.seq
      BY <1>0, <2>2, <2>4, <3>3
    <3>5. \A i, j \in DOMAIN wire' : i < j => wire'[i].seq < wire'[j].seq
      <4> SUFFICES ASSUME NEW i \in DOMAIN wire', NEW j \in DOMAIN wire', i < j
                   PROVE  wire'[i].seq < wire'[j].seq
        OBVIOUS
      <4>1. i \in DOMAIN wire /\ wire'[i] = wire[i]
        BY <3>2
      <4>2. CASE j \in DOMAIN wire
        BY <1>0, <3>2, <4>1, <4>2 DEF WireInv
      <4>3. CASE j = Len(wire) + 1
        BY <3>2, <3>4, <4>1, <4>3
      <4> QED
        BY <3>2, <4>2, <4>3
    <3>6. applied < f.seq
      BY <1>0, <2>2, <2>4, <3>3
    <3>7. \A i \in DOMAIN wire' : applied < wire'[i].seq
      BY <1>0, <3>2, <3>6 DEF WireInv
    <3>8. \A i \in DOMAIN wire' : wire'[i].seq <= f.seq
      <4> SUFFICES ASSUME NEW i \in DOMAIN wire' PROVE wire'[i].seq <= f.seq
        OBVIOUS
      <4>1. CASE i \in DOMAIN wire
        BY <1>0, <2>2, <3>2, <3>3, <3>4, <4>1
      <4>2. CASE i = Len(wire) + 1
        BY <1>0, <2>2, <3>2, <4>2
      <4> QED
        BY <3>2, <4>1, <4>2
    <3>9. \A t \in streams' : t.tok = own' =>
            applied <= t.cur /\ \A i \in DOMAIN wire' : wire'[i].seq <= t.cur
      BY <1>0, <2>2, <2>3, <2>5, <3>6, <3>8
    <3>10. opening # -1 => FALSE
      BY <1>0, <2>5 DEF StreamInv
    <3> QED
      BY <1>0, <2>2, <3>2, <3>5, <3>7, <3>9, <3>10 DEF WireInv
  <2>6. CASE ~(Playing(s) /\ own = s.tok)
    <3>1. wire' = wire
      BY <2>1, <2>6
    <3>2. own # s.tok
      <4>1. own = s.tok => own = opens
        BY <1>0 DEF StreamInv
      <4>2. own = s.tok => Playing(s)
        BY <1>0, <4>1 DEF StreamInv, Playing
      <4> QED
        BY <2>6, <4>2
    <3>3. \A t \in streams' : t.tok = own' => t \in streams
      BY <2>2, <2>3, <3>2
    <3> QED
      BY <1>0, <2>2, <3>1, <3>3 DEF WireInv
  <2> QED
    BY <2>5, <2>6
<1>7. ASSUME NEW s \in streams, Unregister(s) PROVE WireInv'
  <2>1. streams' \subseteq streams /\ UNCHANGED <<seq, frames, own, opening, wire, applied, since>>
    BY <1>7 DEF Unregister
  <2> QED
    BY <1>0, <2>1 DEF WireInv
<1>8. CASE Receive
  <2>1. /\ wire # <<>> /\ applied' = Head(wire).seq /\ wire' = Tail(wire)
        /\ UNCHANGED <<seq, frames, own, opening, streams, since>>
    BY <1>8 DEF Receive
  <2>2. 1 \in DOMAIN wire /\ Head(wire) = wire[1] /\ wire[1] \in frames
        /\ \A i \in DOMAIN wire : wire[i] \in frames
    BY <1>0, <2>1, SeqMembers
  <2>3. /\ Tail(wire) \in Seq(frames) /\ Len(wire) \in Nat /\ Len(wire) > 0
        /\ DOMAIN Tail(wire) = 1..(Len(wire) - 1) /\ DOMAIN wire = 1..Len(wire)
        /\ \A i \in 1..(Len(wire) - 1) : Tail(wire)[i] = wire[i + 1]
    BY <1>0, <2>1, SeqTail
  <2>4. applied' \in Nat /\ applied' <= seq
    BY <1>0, <2>1, <2>2
  <2>5. \A i \in DOMAIN wire' : i + 1 \in DOMAIN wire /\ wire'[i] = wire[i + 1] /\ i \in Nat /\ 1 < i + 1
    BY <2>1, <2>3
  <2>6. \A i, j \in DOMAIN wire' : i < j => wire'[i].seq < wire'[j].seq
    <3> SUFFICES ASSUME NEW i \in DOMAIN wire', NEW j \in DOMAIN wire', i < j
                 PROVE  wire'[i].seq < wire'[j].seq
      OBVIOUS
    <3>1. i + 1 < j + 1
      BY <2>5
    <3> QED
      BY <1>0, <2>5, <3>1 DEF WireInv
  <2>7. \A i \in DOMAIN wire' : applied' < wire'[i].seq
    BY <1>0, <2>1, <2>2, <2>5 DEF WireInv
  <2>8. opening = -1
    BY <1>0, <2>1 DEF StreamInv
  <2>9. \A s \in streams' : s.tok = own' =>
          applied' <= s.cur /\ \A i \in DOMAIN wire' : wire'[i].seq <= s.cur
    BY <1>0, <2>1, <2>2, <2>5 DEF WireInv
  <2> QED
    BY <1>0, <2>1, <2>3, <2>4, <2>6, <2>7, <2>8, <2>9 DEF WireInv
<1>9. CASE \/ PlaysOn \/ Tell \/ (\E r \in reports : Report(r)) \/ GrowsLate \/ GrowsStale
           \/ UNCHANGED vars
  <2>1. UNCHANGED <<seq, frames, own, opening, streams, wire, applied, since>>
    BY <1>9 DEF PlaysOn, Tell, Report, GrowsLate, GrowsStale, vars
  <2> QED
    BY <1>0, <2>1 DEF WireInv
<1> QED
  BY <1>1, <1>2, <1>3, <1>4, <1>5, <1>6, <1>7, <1>8, <1>9 DEF Next

LEMMA KnownStep ==
  ASSUME FramesInv, [Next]_vars
  PROVE  KnownInv'
<1> USE DEF hubVars, streamVars, phoneVars, budgets
<1>0. /\ HubInv /\ StreamInv /\ WireInv /\ KnownInv /\ seq \in Nat /\ run \in Nat
      /\ \A f \in frames : f.seq \in Nat /\ 0 < f.seq /\ f.seq <= seq
      /\ applied \in Nat /\ since \in Nat /\ applied <= seq /\ since <= seq /\ wire \in Seq(frames)
      /\ stale \in Nat
  BY Numbered DEF FramesInv, HubInv, WireInv
<1>1. ASSUME NEW op \in Ops, Send(op) PROVE KnownInv'
  <2> DEFINE new == [seq |-> seq + 1, op |-> op]
  <2>1. /\ frames' = frames \cup {new} /\ new.seq = seq + 1
        /\ UNCHANGED <<own, opening, streams, wire, applied, since, knows, run, stale>>
    BY <1>1 DEF Send
  <2> HIDE DEF new
  <2>2. /\ ~(new.seq <= applied) /\ (opening # -1 => ~(new.seq <= opening))
        /\ \A s \in streams : ~(new.seq <= s.cur)
    BY <1>0, <2>1 DEF StreamInv
  <2> QED
    BY <1>0, <2>1, <2>2 DEF KnownInv, Applied
<1>2. CASE Open
  <2>1. /\ own = 0 /\ opening' = Cursor /\ since' = IF applied = 0 THEN seq ELSE since
        /\ UNCHANGED <<frames, own, streams, wire, applied, knows, run, stale>>
    BY <1>2 DEF Open
  <2>2. \A f \in frames : since' < f.seq /\ f.seq <= applied => Applied(f.seq, knows)
    BY <1>0, <2>1 DEF KnownInv
  <2>3. \A f \in frames : since' < f.seq /\ f.seq <= Cursor => Applied(f.seq, knows)
    <3>1. CASE applied = 0
      BY <1>0, <2>1, <3>1
    <3>2. CASE applied # 0
      <4>1. Cursor = applied
        BY <1>0, <3>2 DEF Cursor
      <4> QED
        BY <2>2, <4>1
    <3> QED
      BY <3>1, <3>2
  <2>4. \A s \in streams : s.tok # own
    BY <1>0, <2>1 DEF StreamInv
  <2> QED
    BY <1>0, <2>1, <2>2, <2>3, <2>4 DEF KnownInv, Applied
<1>3. CASE Register
  <2> DEFINE new == [tok |-> opens, cur |-> opening]
  <2>1. /\ opening # -1 /\ streams' = streams \cup {new} /\ own' = opens /\ opening' = -1
        /\ UNCHANGED <<frames, wire, applied, since, knows, run, stale>>
    BY <1>3 DEF Register
  <2>2. new.tok = opens /\ new.cur = opening
    OBVIOUS
  <2> HIDE DEF new
  <2>3. \A s \in streams : s.tok # opens
    BY <1>0, <2>1 DEF StreamInv
  <2>4. \A s \in streams' : s.tok = own' => s.cur = opening
    BY <2>1, <2>2, <2>3
  <2> QED
    BY <1>0, <2>1, <2>4 DEF KnownInv, Applied
<1>4. CASE Break
  <2>1. /\ own' = 0 /\ UNCHANGED <<frames, opening, streams, applied, since, knows, run, stale>>
    BY <1>4 DEF Break
  <2>2. \A s \in streams' : s.tok # own'
    BY <1>0, <2>1 DEF StreamInv
  <2> QED
    BY <1>0, <2>1, <2>2 DEF KnownInv, Applied
<1>5. CASE AppEnds
  <2>1. /\ own' = 0 /\ applied' = 0 /\ knows' = {} /\ opening = -1
        /\ UNCHANGED <<frames, opening, streams, since, run, stale>>
    BY <1>5 DEF AppEnds
  <2>2. \A s \in streams' : s.tok # own'
    BY <1>0, <2>1 DEF StreamInv
  <2>3. \A f \in frames' : ~(f.seq <= applied')
    BY <1>0, <2>1
  <2> QED
    BY <2>1, <2>2, <2>3 DEF KnownInv
<1>6. CASE Restart
  <2>1. frames' = {} /\ streams' = {} /\ knows' = knows
    BY <1>6 DEF Restart
  <2> QED
    BY <1>0, <2>1 DEF KnownInv
<1>7. ASSUME NEW s \in streams, Write(s) PROVE KnownInv'
  <2>1. PICK f \in After(s) :
          /\ \A h \in After(s) : f.seq <= h.seq
          /\ streams' = (streams \ {s}) \cup {[s EXCEPT !.cur = f.seq]}
          /\ wire' = IF Playing(s) /\ own = s.tok THEN Append(wire, f) ELSE wire
    BY <1>0, <1>7, NextFrame
  <2>2. /\ f \in frames
        /\ UNCHANGED <<frames, own, opening, applied, since, knows, run, stale>>
    BY <1>7 DEF After, Write
  <2>3. \A t \in streams' : (t \in streams /\ t.tok # s.tok) \/ (t.tok = s.tok /\ t.cur = f.seq)
    BY <1>0, <2>1, <2>2, StreamsOn
  <2>4. CASE own = s.tok
    <3>1. Playing(s)
      BY <1>0, <2>4 DEF StreamInv, Playing
    <3>2. /\ Len(wire) \in Nat /\ DOMAIN wire = 1..Len(wire) /\ DOMAIN wire' = 1..(Len(wire) + 1)
          /\ wire'[Len(wire) + 1] = f /\ \A i \in 1..Len(wire) : wire'[i] = wire[i]
      BY <1>0, <2>1, <2>2, <2>4, <3>1, SeqMore
    <3>3. ASSUME NEW g \in frames, since < g.seq, g.seq <= f.seq
          PROVE  Applied(g.seq, knows) \/ \E i \in DOMAIN wire' : wire'[i].seq = g.seq
      <4>1. CASE g.seq <= s.cur
        <5>1. Applied(g.seq, knows) \/ \E i \in DOMAIN wire : wire[i].seq = g.seq
          BY <1>0, <2>4, <3>3, <4>1 DEF KnownInv
        <5>2. DOMAIN wire \subseteq DOMAIN wire'
          BY <3>2
        <5> QED
          BY <3>2, <5>1, <5>2
      <4>2. CASE g.seq <= stale
        BY <4>2 DEF Applied
      <4>3. CASE g.seq > s.cur /\ g.seq > stale
        <5>1. g \in After(s)
          BY <4>3 DEF After
        <5>2. g.seq = f.seq
          BY <1>0, <2>1, <2>2, <3>3, <5>1
        <5>3. Len(wire) + 1 \in DOMAIN wire'
          BY <3>2
        <5> QED
          BY <3>2, <5>2, <5>3
      <4>4. s.cur \in Nat
        BY <1>0 DEF StreamInv
      <4> QED
        BY <1>0, <4>1, <4>2, <4>3, <4>4
    <3>4. \A t \in streams' : t.tok = own' => t.cur = f.seq
      BY <2>2, <2>3, <2>4
    <3>5. opening = -1
      BY <1>0, <2>4 DEF StreamInv
    <3> QED
      BY <1>0, <2>2, <3>3, <3>4, <3>5 DEF KnownInv, Applied
  <2>5. CASE own # s.tok
    <3>1. wire' = wire /\ \A t \in streams' : t.tok = own' => t \in streams
      BY <2>1, <2>2, <2>3, <2>5
    <3> QED
      BY <1>0, <2>2, <3>1 DEF KnownInv, Applied
  <2> QED
    BY <2>4, <2>5
<1>8. ASSUME NEW s \in streams, Unregister(s) PROVE KnownInv'
  <2>1. /\ streams' \subseteq streams
        /\ UNCHANGED <<frames, own, opening, wire, applied, since, knows, run, stale>>
    BY <1>8 DEF Unregister
  <2> QED
    BY <1>0, <2>1 DEF KnownInv, Applied
<1>9. CASE Receive
  <2>1. /\ wire # <<>> /\ applied' = Head(wire).seq /\ wire' = Tail(wire)
        /\ knows' = knows \cup {<<run, applied'>>}
        /\ UNCHANGED <<frames, own, opening, streams, since, run, stale>>
    BY <1>9 DEF Receive
  <2>2. 1 \in DOMAIN wire /\ Head(wire) = wire[1] /\ wire[1] \in frames
        /\ \A i \in DOMAIN wire : wire[i] \in frames
    BY <1>0, <2>1, SeqMembers
  <2>3. /\ Len(wire) \in Nat /\ Len(wire) > 0
        /\ DOMAIN wire' = 1..(Len(wire) - 1) /\ DOMAIN wire = 1..Len(wire)
        /\ \A i \in 1..(Len(wire) - 1) : wire'[i] = wire[i + 1]
    BY <1>0, <2>1, SeqTail
  <2>4. applied' \in Nat /\ knows' \subseteq Nat \X Nat
    BY <1>0, <2>1, <2>2 DEF KnownInv
  <2>5. PICK s \in streams : s.tok = own
    BY <1>0, <2>1 DEF StreamInv
  <2>6. \A f \in frames : since < f.seq /\ f.seq <= s.cur =>
          Applied(f.seq, knows) \/ \E i \in DOMAIN wire : wire[i].seq = f.seq
    BY <1>0, <2>5 DEF KnownInv
  <2>7. applied' <= s.cur /\ s.cur \in Nat
    BY <1>0, <2>1, <2>2, <2>5 DEF WireInv, StreamInv
  <2>8. \A i \in DOMAIN wire : wire[i].seq = applied' \/ applied' < wire[i].seq
    BY <1>0, <2>1, <2>2, <2>3 DEF WireInv
  <2>9. \A n \in Nat : Applied(n, knows) \/ n = applied' => Applied(n, knows')
    BY <2>1 DEF Applied
  <2>10. \A f \in frames : since < f.seq /\ f.seq <= applied' => Applied(f.seq, knows')
    BY <1>0, <2>2, <2>4, <2>6, <2>7, <2>8, <2>9
  <2>11. \A i \in DOMAIN wire : i = 1 \/ (i - 1 \in DOMAIN wire' /\ wire'[i - 1] = wire[i])
    BY <2>3
  <2>12. \A t \in streams : t.tok = own => t = s
    BY <1>0, <2>5 DEF StreamInv
  <2>13. \A f \in frames : since < f.seq /\ f.seq <= s.cur =>
           Applied(f.seq, knows') \/ \E i \in DOMAIN wire' : wire'[i].seq = f.seq
    <3> SUFFICES ASSUME NEW f \in frames, since < f.seq, f.seq <= s.cur,
                        ~Applied(f.seq, knows')
                 PROVE  \E i \in DOMAIN wire' : wire'[i].seq = f.seq
      OBVIOUS
    <3>1. f.seq \in Nat
      BY <1>0
    <3>2. ~Applied(f.seq, knows) /\ f.seq # applied'
      BY <3>1, <2>9
    <3>3. PICK i \in DOMAIN wire : wire[i].seq = f.seq
      BY <2>6, <3>2
    <3>4. i # 1
      BY <2>1, <2>2, <3>2, <3>3
    <3> QED
      BY <2>11, <3>3, <3>4
  <2>14. opening = -1
    BY <1>0, <2>1 DEF StreamInv
  <2> QED
    BY <2>1, <2>4, <2>10, <2>12, <2>13, <2>14 DEF KnownInv, Applied
<1>10. CASE GrowsStale
  <2>1. /\ stale' = stale + 1
        /\ UNCHANGED <<frames, own, opening, streams, wire, applied, since, knows, run>>
    BY <1>10 DEF GrowsStale
  <2>2. \A f \in frames : Applied(f.seq, knows) => Applied(f.seq, knows)'
    BY <1>0, <2>1 DEF Applied
  <2> QED
    BY <1>0, <2>1, <2>2 DEF KnownInv
<1>11. CASE PlaysOn \/ Tell \/ (\E r \in reports : Report(r)) \/ GrowsLate \/ UNCHANGED vars
  <2>1. UNCHANGED <<frames, own, opening, streams, wire, applied, since, knows, run, stale>>
    BY <1>11 DEF PlaysOn, Tell, Report, GrowsLate, vars
  <2> QED
    BY <1>0, <2>1 DEF KnownInv, Applied
<1> QED
  BY <1>1, <1>2, <1>3, <1>4, <1>5, <1>6, <1>7, <1>8, <1>9, <1>10, <1>11 DEF Next

LEMMA ReportStep ==
  ASSUME FramesInv, [Next]_vars
  PROVE  ReportInv'
<1> USE DEF hubVars, streamVars, phoneVars, budgets
<1>0. /\ HubInv /\ KnownInv /\ PlayerInv /\ ReportInv /\ seq \in Nat /\ stale \in Nat
      /\ \A f \in frames : f.seq \in Nat /\ 0 < f.seq /\ f.seq <= seq
      /\ applied \in Nat /\ since \in Nat /\ applied <= seq /\ since <= seq
      /\ reports \subseteq Reports /\ \A r \in reports : r.seq \in Nat
  BY Numbered DEF FramesInv, HubInv, WireInv, ReportInv, Reports
<1>1. ASSUME NEW op \in Ops, Send(op) PROVE ReportInv'
  <2> DEFINE new == [seq |-> seq + 1, op |-> op]
  <2>1. /\ frames' = frames \cup {new} /\ new.seq = seq + 1 /\ seq' = seq + 1
        /\ UNCHANGED <<reports, since, run, stale>>
    BY <1>1 DEF Send
  <2> HIDE DEF new
  <2>2. \A r \in reports : r.seq <= seq' /\ ~(new.seq <= r.seq)
    BY <1>0, <2>1 DEF ReportInv
  <2> QED
    BY <1>0, <2>1, <2>2 DEF ReportInv, Applied
<1>2. CASE Open
  <2>1. since' \in {since, seq} /\ UNCHANGED <<seq, frames, reports, run, stale>>
    BY <1>2 DEF Open
  <2>2. \A f \in frames : since' < f.seq => since < f.seq
    BY <1>0, <2>1
  <2> QED
    BY <1>0, <2>1, <2>2 DEF ReportInv, Applied
<1>3. CASE Tell
  <2> DEFINE new == [seq |-> applied, n |-> player.n, pos |-> player.pos, idle |-> player.idle,
                     knew |-> knows]
  <2>1. reports' = reports \cup {new} /\ UNCHANGED <<seq, frames, since, run, stale>>
    BY <1>3 DEF Tell
  <2>2. new \in Reports
    BY <1>0 DEF Reports, PlayerInv, Players, KnownInv
  <2>3. new.seq = applied /\ new.knew = knows
    OBVIOUS
  <2> HIDE DEF new
  <2>4. \A f \in frames : since < f.seq /\ f.seq <= new.seq => Applied(f.seq, new.knew)
    BY <1>0, <2>3 DEF KnownInv
  <2> QED
    BY <1>0, <2>1, <2>2, <2>3, <2>4 DEF ReportInv, Applied
<1>4. ASSUME NEW r \in reports, Report(r) PROVE ReportInv'
  <2>1. reports' \subseteq reports /\ UNCHANGED <<seq, frames, since, run, stale>>
    BY <1>4 DEF Report
  <2> QED
    BY <1>0, <2>1 DEF ReportInv, Applied
<1>5. CASE Restart
  BY <1>5 DEF Restart, ReportInv
<1>6. CASE GrowsStale
  <2>1. stale' = stale + 1 /\ UNCHANGED <<seq, frames, reports, since, run>>
    BY <1>6 DEF GrowsStale
  <2>2. \A f \in frames, k \in SUBSET (Nat \X Nat) : Applied(f.seq, k) => Applied(f.seq, k)'
    BY <1>0, <2>1 DEF Applied
  <2>3. \A r \in reports : r.knew \in SUBSET (Nat \X Nat)
    BY <1>0 DEF Reports
  <2> QED
    BY <1>0, <2>1, <2>2, <2>3 DEF ReportInv
<1>7. CASE \/ Register \/ Break \/ (\E s \in streams : Write(s) \/ Unregister(s))
           \/ Receive \/ PlaysOn \/ AppEnds \/ GrowsLate \/ UNCHANGED vars
  <2>1. UNCHANGED <<seq, frames, reports, since, run, stale>>
    BY <1>7 DEF Register, Break, Write, Unregister, Receive, PlaysOn, AppEnds, GrowsLate, vars
  <2> QED
    BY <1>0, <2>1 DEF ReportInv, Applied
<1> QED
  BY <1>1, <1>2, <1>3, <1>4, <1>5, <1>6, <1>7 DEF Next

-----------------------------------------------------------------------------
(* What the invariant gives *)

\* What holds of the frames in every reachable state: their numbers, the
\* streams' cursors, what the phone has and what a report says of it.
THEOREM FramesAlways == Spec => []FramesInv
<1>1. FramesInv /\ [Next]_vars => FramesInv'
  BY PlayerStep, HubStep, StreamStep, WireStep, KnownStep, ReportStep DEF FramesInv
<1> QED
  BY <1>1, InitFrames, PTL DEF Spec

\* The types of the module, the frames numbered without a hole among them.
THEOREM FramesAreTyped == Spec => []TypeOK
<1>1. FramesInv => TypeOK
  BY DEF FramesInv, PlayerInv, HubInv, StreamInv, WireInv, CutIsMore, TypeOK
<1> QED
  BY <1>1, FramesAlways, PTL

\* The phone applies no frame twice, none out of order, and passes over none
\* but what had waited too long, through any broken streams and restarts.
THEOREM FramesOnceEach == Spec => EveryFrameOnce
<1> DEFINE Once == applied' \notin {applied, 0} =>
             /\ applied' > applied
             /\ \A f \in frames : since < f.seq /\ f.seq < applied' =>
                  <<run, f.seq>> \in knows \/ f.seq <= stale
<1>1. FramesInv /\ [Next]_vars => Once
  <2> SUFFICES ASSUME FramesInv, [Next]_vars, applied' \notin {applied, 0}
               PROVE  /\ applied' > applied
                      /\ \A f \in frames : since < f.seq /\ f.seq < applied' =>
                           <<run, f.seq>> \in knows \/ f.seq <= stale
    OBVIOUS
  <2>0. /\ HubInv /\ StreamInv /\ WireInv /\ KnownInv /\ wire \in Seq(frames) /\ applied \in Nat
        /\ \A f \in frames : f.seq \in Nat
    BY Numbered DEF FramesInv, WireInv
  <2>1. Receive
    BY DEF Next, vars, hubVars, streamVars, phoneVars, budgets, Send, Open, Register, Break, Write,
           Unregister, PlaysOn, AppEnds, Tell, Report, GrowsLate, GrowsStale, Restart
  <2>2. wire # <<>> /\ applied' = Head(wire).seq
    BY <2>1 DEF Receive
  <2>3. /\ 1 \in DOMAIN wire /\ Head(wire) = wire[1] /\ wire[1] \in frames
        /\ Len(wire) \in Nat /\ DOMAIN wire = 1..Len(wire)
        /\ \A i \in DOMAIN wire : wire[i] \in frames
    BY <2>0, <2>2, SeqMembers
  <2>4. applied' > applied /\ applied' \in Nat
    BY <2>0, <2>2, <2>3 DEF WireInv
  <2>5. PICK s \in streams : s.tok = own
    BY <2>0, <2>2 DEF StreamInv
  <2>6. applied' <= s.cur /\ s.cur \in Nat
    BY <2>0, <2>2, <2>3, <2>5 DEF WireInv, StreamInv
  <2>7. \A f \in frames : since < f.seq /\ f.seq <= s.cur =>
          Applied(f.seq, knows) \/ \E i \in DOMAIN wire : wire[i].seq = f.seq
    BY <2>0, <2>5 DEF KnownInv
  <2>8. \A i \in DOMAIN wire : ~(wire[i].seq < applied')
    BY <2>0, <2>2, <2>3 DEF WireInv
  <2>9. \A f \in frames : since < f.seq /\ f.seq < applied' => Applied(f.seq, knows)
    BY <2>0, <2>4, <2>6, <2>7, <2>8
  <2> QED
    BY <2>4, <2>9 DEF Applied
<1>2. FramesInv /\ [Next]_vars => [Once]_vars
  BY <1>1
<1>3. Spec => [][Once]_vars
  <2> HIDE DEF Once
  <2> QED
    BY <1>2, FramesAlways, PTL DEF Spec
<1> QED
  BY <1>3 DEF EveryFrameOnce

\* A report that changes the model's mind is from a phone that knew of every
\* move, or is behind a frame that was sent long enough ago to be lost.
THEOREM NewsInTime == Spec => OldNewsStays
<1> DEFINE InTime == (model' # model /\ seq' = seq) =>
             \A r \in reports \ reports' :
               \/ \A f \in Moves : Settled(f, r)
               \/ \E f \in frames : r.seq < f.seq /\ f.seq <= late
<1>1. FramesInv /\ [Next]_vars => InTime
  <2> SUFFICES ASSUME FramesInv, [Next]_vars, model' # model, seq' = seq,
                      NEW r \in reports, r \notin reports',
                      ~ \E f \in frames : r.seq < f.seq /\ f.seq <= late,
                      NEW f \in Moves
               PROVE  Settled(f, r)
    OBVIOUS
  <2>0. /\ HubInv /\ ReportInv /\ seq \in Nat /\ f \in frames /\ since < f.seq /\ f.op.do # "add"
        /\ \A g \in frames : g.seq \in Nat /\ 0 < g.seq /\ g.seq <= seq
        /\ r.seq \in Nat /\ stale \in Nat /\ late \in Nat /\ stale <= late /\ moved \in Int
    BY Numbered, RunsApart DEF FramesInv, HubInv, ReportInv, Reports, Moves
  <2>1. \E q \in reports : Report(q)
    <3>1. seq \in Nat /\ Base(run + 1) > seq
      <4>1. /\ Base(run) \in Nat /\ Base(run + 1) = Base(run) + MaxFrames + 1
            /\ seq <= Base(run) + MaxFrames /\ MaxFrames \in Nat
        BY <2>0, RunsApart, FramesAssumption DEF HubInv, FramesAssumption
      <4> QED
        BY <2>0, <4>1
    <3>2. ~Restart
      BY <3>1 DEF Restart
    <3>3. \A op \in Ops : ~Send(op)
      BY <2>0 DEF Send
    <3> QED
      BY <3>2, <3>3 DEF Next, vars, hubVars, streamVars, phoneVars, budgets, Open, Register, Break, Write,
           Unregister, Receive, PlaysOn, AppEnds, Tell, GrowsLate, GrowsStale
  <2>2. Report(r)
    BY <2>1 DEF Report
  <2>3. Said(r) # model
    BY <2>2 DEF Report
  <2>4. r.seq >= seq \/ Lost(r.seq) \/ r.seq >= moved
    BY <2>3 DEF Said
  <2>5. f.seq <= r.seq
    <3>1. CASE r.seq >= seq
      BY <2>0, <3>1
    <3>2. CASE Lost(r.seq)
      <4>1. {g \in frames : g.seq > r.seq} = {}
        BY <2>0, <3>2 DEF Lost
      <4> QED
        BY <2>0, <4>1
    <3>3. CASE r.seq >= moved
      <4>1. f.seq <= moved
        BY <2>0 DEF HubInv
      <4> QED
        BY <2>0, <3>3, <4>1
    <3> QED
      BY <2>4, <3>1, <3>2, <3>3
  <2>6. Applied(f.seq, r.knew)
    BY <2>0, <2>5 DEF ReportInv
  <2> QED
    BY <2>0, <2>6 DEF Applied, Settled
<1>2. FramesInv /\ [Next]_vars => [InTime]_vars
  BY <1>1
<1>3. Spec => [][InTime]_vars
  <2> HIDE DEF InTime
  <2> QED
    BY <1>2, FramesAlways, PTL DEF Spec
<1> QED
  BY <1>3 DEF OldNewsStays
=============================================================================
