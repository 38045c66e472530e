------------------------- MODULE ThreadEventsProofs -------------------------
(***************************************************************************)
(* Theorems about ThreadEvents for any connections, messages, versions,    *)
(* queue length and cap: who serves a connection, that nothing falls       *)
(* between its snapshot and its events, and that it never shows an event   *)
(* put after one it lost.                                                  *)
(***************************************************************************)
EXTENDS ThreadEvents, FiniteSetTheorems, TLAPS

\* A watcher that was ever in the table is that of a connection that has come;
\* it serves only the connected, and the one that takes its baseline is its own.
TableInv ==
  /\ \A w \in Conns : w \in stopped \/ w = table => at[w] # "new"
  /\ \A w \in Conns : IsFiniteSet(subs[w])
  /\ \A w \in Conns : \A s \in subs[w] : at[s] \in Attached
  /\ \A s \in Conns : at[s] = "priming" => table = s

\* Whoever is not through with that has nothing on its queue.
FreshInv == \A s \in Conns : at[s] \in {"new", "priming"} => queue[s] = <<>>

\* A put fails only for a connection that is then told so, and events put
\* after that are behind those it is yet to get.
LossInv ==
  \A s \in Conns :
    /\ s \in lost => s \in dropped
    /\ s \notin lost => \A i \in DOMAIN queue[s] : ~queue[s][i][3]
    /\ at[s] = "getting" /\ s \in lost => queue[s] # <<>> /\ ~queue[s][1][3]

\* What a watcher has noted is no newer than the thread; while it takes its
\* baseline nothing has been put, and whoever has its snapshot by then has an
\* early one; afterwards it knows the field, unless it is blind.
NotedInv ==
  /\ now[Field] # 0
  /\ \A w \in Conns :
    /\ \A x \in Things : sent[w][x] <= now[x] /\ got[w][x] <= now[x]
    /\ wat[w] = "priming" =>
         \A s \in subs[w] \ early : at[s] \in {"priming", "joined"} /\ queue[s] = <<>>
    /\ wat[w] \in {"running", "comparing"} /\ w \notin blind => sent[w][Field] # 0
    /\ at[w] = "priming" <=> wat[w] = "priming"
    /\ wat[w] = "none" => w \notin stopped /\ w # table /\ sent[w] = Nothing

EventsInv ==
  TypeOK /\ TableInv /\ ServedByOne /\ FreshInv /\ LossInv /\ NotedInv /\ InStep

LEMMA InitEvents == Init => EventsInv
<1> SUFFICES ASSUME Init PROVE EventsInv
  OBVIOUS
<1> USE ThreadAssumption DEF Init, Nothing, Things
<1>1. TypeOK
  BY FS_EmptySet DEF TypeOK, Attached
<1>2. TableInv /\ ServedByOne
  BY FS_EmptySet DEF TableInv, ServedByOne, Attached
<1>3. FreshInv /\ LossInv /\ NotedInv /\ InStep
  BY DEF FreshInv, LossInv, NotedInv, InStep
<1> QED
  BY <1>1, <1>2, <1>3 DEF EventsInv

-----------------------------------------------------------------------------
(* What a queue comes to *)

LEMMA ReachesNewer ==
  ASSUME NEW q, NEW x, NEW v \in Nat, NEW a \in Nat, NEW b \in Nat, a <= b,
         Reaches(q, x, a, v)
  PROVE  Reaches(q, x, b, v)
BY DEF Reaches

LEMMA ReachesNow ==
  ASSUME NEW x, NEW a \in Nat, NEW v \in Nat, v <= a
  PROVE  Reaches(<<>>, x, a, v)
BY DEF Reaches, Events

LEMMA AppendReaches ==
  ASSUME NEW E, NEW q \in Seq(E), NEW e \in E, NEW a,
         e[2] \in Nat
  PROVE  Reaches(Append(q, e), e[1], a, e[2])
<1>1. /\ Len(q) + 1 \in DOMAIN Append(q, e) /\ Append(q, e)[Len(q) + 1] = e
      /\ DOMAIN Append(q, e) = 1 .. Len(q) + 1 /\ Len(q) \in Nat
  OBVIOUS
<1> QED
  BY <1>1 DEF Reaches, Events

LEMMA AppendKeeps ==
  ASSUME NEW E, NEW q \in Seq(E), NEW e \in E, NEW x, e[1] # x, NEW a, NEW v,
         Reaches(q, x, a, v)
  PROVE  Reaches(Append(q, e), x, a, v)
<1>1. /\ \A i \in DOMAIN q : Append(q, e)[i] = q[i]
      /\ Append(q, e)[Len(q) + 1] = e
      /\ DOMAIN Append(q, e) = (DOMAIN q) \cup {Len(q) + 1}
  OBVIOUS
<1>2. Events(Append(q, e), x) = Events(q, x)
  BY <1>1 DEF Events
<1>3. Events(q, x) \subseteq DOMAIN q
  BY DEF Events
<1> QED
  BY <1>1, <1>2, <1>3 DEF Reaches

LEMMA TailReaches ==
  ASSUME NEW E, NEW q \in Seq(E), q # <<>>, NEW x, NEW a, NEW v \in Nat,
         Reaches(q, x, a, v)
  PROVE  Reaches(Tail(q), x, IF Head(q)[1] = x THEN Head(q)[2] ELSE a, v)
<1>1. /\ Len(q) \in Nat /\ Len(q) > 0 /\ DOMAIN q = 1 .. Len(q) /\ Head(q) = q[1]
      /\ DOMAIN Tail(q) = 1 .. Len(q) - 1
      /\ \A i \in 1 .. Len(q) - 1 : Tail(q)[i] = q[i + 1]
  OBVIOUS
<1>2. \A i \in 1 .. Len(q) - 1 : i \in Events(Tail(q), x) <=> i + 1 \in Events(q, x)
  BY <1>1 DEF Events
<1>3. Events(Tail(q), x) \subseteq 1 .. Len(q) - 1 /\ Events(q, x) \subseteq 1 .. Len(q)
  BY <1>1 DEF Events
<1>4. CASE \E i \in Events(q, x) :
             (\A j \in Events(q, x) : j <= i) /\ q[i][2] >= v
  <2>1. PICK i \in Events(q, x) : (\A j \in Events(q, x) : j <= i) /\ q[i][2] >= v
    BY <1>4
  <2>2. CASE i = 1
    <3>1. Events(Tail(q), x) = {}
      BY <1>1, <1>2, <1>3, <2>1, <2>2
    <3>2. Head(q)[1] = x
      BY <1>1, <2>1, <2>2 DEF Events
    <3> QED
      BY <1>1, <2>1, <2>2, <3>1, <3>2 DEF Reaches
  <2>3. CASE i # 1
    <3>1. i - 1 \in 1 .. Len(q) - 1 /\ i \in 1 .. Len(q)
      BY <1>1, <1>3, <2>1, <2>3
    <3>2. i - 1 \in Events(Tail(q), x) /\ Tail(q)[i - 1] = q[i]
      BY <1>1, <1>2, <2>1, <3>1
    <3>3. \A j \in Events(Tail(q), x) : j <= i - 1
      BY <1>1, <1>2, <1>3, <2>1, <3>1
    <3> QED
      BY <2>1, <3>2, <3>3 DEF Reaches
  <2> QED
    BY <2>2, <2>3
<1>5. CASE Events(q, x) = {} /\ a >= v
  <2>1. Events(Tail(q), x) = {}
    BY <1>2, <1>3, <1>5
  <2>2. Head(q)[1] # x
    BY <1>1, <1>5 DEF Events
  <2> QED
    BY <1>5, <2>1, <2>2 DEF Reaches
<1> QED
  BY <1>4, <1>5 DEF Reaches

-----------------------------------------------------------------------------
(* One lemma per group of steps *)

LEMMA ThingsThere == Field \in Things /\ \A x \in Ids : x # Field
BY ThreadAssumption DEF Things

LEMMA ShownType ==
  ASSUME TypeOK, NEW s \in Conns, NEW x \in Things
  PROVE  Shown(s, x) \in Nat
BY ThreadAssumption DEF TypeOK, Shown

LEMMA SentType ==
  ASSUME TypeOK, NEW w \in Conns, NEW x \in Things
  PROVE  sent[w][x] \in Nat /\ got[w][x] \in Nat /\ now[x] \in Nat
BY ThreadAssumption DEF TypeOK

\* A step that touches no queue, and of which no client shows less.
LEMMA KeepsInStep ==
  ASSUME TypeOK, TypeOK', InStep, UNCHANGED <<queue, sent>>,
         \A w \in Conns : subs'[w] \ early' \subseteq subs[w] \ early,
         dropped \subseteq dropped', blind \subseteq blind',
         \A s \in Conns : \A x \in Things : Shown(s, x) <= Shown(s, x)'
  PROVE  InStep'
<1> SUFFICES ASSUME NEW w \in Conns, NEW s \in subs'[w] \ early', NEW x \in Things,
                    x = Field => w \notin blind', s \notin dropped'
             PROVE  Reaches(queue'[s], x, Shown(s, x)', sent'[w][x])
  BY DEF InStep, Has
<1>1. s \in subs[w] \ early /\ s \notin dropped /\ s \in Conns
  BY DEF TypeOK
<1>2. Reaches(queue[s], x, Shown(s, x), sent[w][x])
  BY <1>1 DEF InStep, Has
<1>3. Shown(s, x) \in Nat /\ Shown(s, x)' \in Nat /\ sent[w][x] \in Nat
  <2>1. Shown(s, x) \in Nat /\ sent[w][x] \in Nat
    BY <1>1, ShownType, SentType
  <2>2. Shown(s, x)' \in Nat
    BY <1>1, ThreadAssumption DEF TypeOK, Shown
  <2> QED
    BY <2>1, <2>2
<1> QED
  BY <1>1, <1>2, <1>3, ReachesNewer

\* The thread moves on.
LEMMA ChangeStep ==
  ASSUME EventsInv, NEW x \in Things, Change(x)
  PROVE  EventsInv'
<1> USE DEF lifecycle, watcher, client, history
<1>0. TypeOK /\ TableInv /\ ServedByOne /\ FreshInv /\ LossInv /\ NotedInv /\ InStep
  BY DEF EventsInv
<1>1. /\ now' \in [Things -> 0..MaxVersion]
      /\ \A y \in Things : now[y] \in Nat /\ now'[y] \in Nat /\ now[y] <= now'[y]
      /\ UNCHANGED <<table, subs, stopped, wat, sent, got, at, queue, dropped, view,
                     early, blind, lost, fails>>
  BY <1>0, ThreadAssumption, SMTT(40) DEF Change, TypeOK
<1>2. TypeOK'
  BY <1>0, <1>1 DEF TypeOK
<1>3. TableInv' /\ ServedByOne' /\ FreshInv' /\ LossInv'
  BY <1>0, <1>1 DEF TableInv, ServedByOne, FreshInv, LossInv
<1>4. NotedInv'
  <2>1. \A w \in Conns : \A y \in Things : sent[w][y] <= now'[y] /\ got[w][y] <= now'[y]
    BY <1>0, <1>1, SentType DEF NotedInv
  <2>2. now'[Field] # 0
    BY <1>0, <1>1, ThingsThere DEF NotedInv
  <2>3. ASSUME NEW w \in Conns
        PROVE  /\ wat[w] = "priming" =>
                    \A s \in subs[w] \ early : at[s] \in {"priming", "joined"} /\ queue[s] = <<>>
               /\ wat[w] \in {"running", "comparing"} /\ w \notin blind => sent[w][Field] # 0
               /\ at[w] = "priming" <=> wat[w] = "priming"
               /\ wat[w] = "none" => w \notin stopped /\ w # table /\ sent[w] = Nothing
    BY <1>0 DEF NotedInv
  <2> QED
    BY <1>1, <2>1, <2>2, <2>3 DEF NotedInv, Nothing
<1>5. InStep'
  <2>1. \A s \in Conns : \A y \in Things : Shown(s, y) <= Shown(s, y)'
    BY <1>0, <1>1, ShownType DEF Shown
  <2> QED
    BY <1>0, <1>1, <1>2, <2>1, KeepsInStep
<1> QED
  BY <1>2, <1>3, <1>4, <1>5 DEF EventsInv

\* Coming: refused, joining, or making the watcher.
LEMMA RefuseStep ==
  ASSUME EventsInv, NEW s \in Conns, Refuse(s)
  PROVE  EventsInv'
<1> USE DEF lifecycle, watcher, client, history
<1>0. TypeOK /\ TableInv /\ ServedByOne /\ FreshInv /\ LossInv /\ NotedInv /\ InStep
  BY DEF EventsInv
<1>1. /\ at[s] = "new" /\ at' = [at EXCEPT ![s] = "refused"]
      /\ UNCHANGED <<now, table, subs, stopped, wat, sent, got, queue, dropped, view,
                     early, blind, lost, fails>>
  BY DEF Refuse, Goto
<1>2. TypeOK'
  BY <1>0, <1>1 DEF TypeOK
<1>3. TableInv' /\ ServedByOne'
  BY <1>0, <1>1 DEF TypeOK, TableInv, ServedByOne, Attached
<1>4. FreshInv' /\ LossInv' /\ NotedInv'
  BY <1>0, <1>1 DEF TypeOK, TableInv, FreshInv, LossInv, NotedInv, Attached
<1>5. InStep'
  <2>1. \A w \in Conns : s \notin subs[w]
    BY <1>0, <1>1 DEF TableInv, Attached
  <2> SUFFICES ASSUME NEW w \in Conns, NEW r \in subs'[w] \ early', NEW x \in Things,
                      x = Field => w \notin blind'
               PROVE  Has(r, w, x)'
    BY DEF InStep
  <2>2. r # s /\ r \in Conns /\ Has(r, w, x)
    BY <1>0, <1>1, <2>1 DEF InStep, TypeOK
  <2> QED
    BY <1>0, <1>1, <2>2 DEF Has, Shown, TypeOK
<1> QED
  BY <1>2, <1>3, <1>4, <1>5 DEF EventsInv

LEMMA JoinStep ==
  ASSUME EventsInv, NEW s \in Conns, Join(s)
  PROVE  EventsInv'
<1> USE DEF lifecycle, watcher, client, history
<1>0. TypeOK /\ TableInv /\ ServedByOne /\ FreshInv /\ LossInv /\ NotedInv /\ InStep
  BY DEF EventsInv
<1>1. /\ at[s] = "new" /\ at' = [at EXCEPT ![s] = "joined"]
      /\ table \in Conns /\ subs' = [subs EXCEPT ![table] = @ \cup {s}]
      /\ ~(Cardinality(subs[table]) >= MaxPerSession)
      /\ UNCHANGED <<now, table, stopped, wat, sent, got, queue, dropped, view,
                     early, blind, lost, fails>>
  BY <1>0 DEF Join, Goto, Full, TypeOK
<1>2. /\ IsFiniteSet(subs[table] \cup {s})
      /\ Cardinality(subs[table] \cup {s}) <= MaxPerSession
  <2>1. IsFiniteSet(subs[table]) /\ Cardinality(subs[table]) \in Nat
    BY <1>0, <1>1, FS_CardinalityType DEF TableInv
  <2> QED
    BY <1>1, <2>1, FS_AddElement, ThreadAssumption, SMTT(40)
<1>3. TypeOK'
  <2>1. subs' \in [Conns -> SUBSET Conns] /\ at' \in [Conns -> Attached \cup {"new", "refused", "left"}]
    BY <1>0, <1>1 DEF TypeOK, Attached
  <2>2. \A w \in Conns : Cardinality(subs'[w]) <= MaxPerSession
    BY <1>0, <1>1, <1>2 DEF TypeOK
  <2> QED
    BY <1>0, <1>1, <2>1, <2>2 DEF TypeOK
<1>4. TableInv' /\ ServedByOne'
  <2>1. \A w \in Conns : IsFiniteSet(subs'[w])
    BY <1>0, <1>1, <1>2 DEF TypeOK, TableInv
  <2>2. table \notin stopped /\ table # None
    BY <1>0, <1>1, ThreadAssumption DEF TypeOK, TableInv, ServedByOne, Attached
  <2>3. ServedByOne'
    BY <1>0, <1>1, <2>2 DEF TypeOK, ServedByOne, Attached
  <2>4. \A w \in Conns : \A r \in subs'[w] : at'[r] \in Attached
    BY <1>0, <1>1 DEF TypeOK, TableInv, Attached
  <2>5. \A r \in Conns : /\ at'[r] = "priming" => table = r
                         /\ r \in stopped \/ r = table => at'[r] # "new"
    BY <1>0, <1>1 DEF TypeOK, TableInv
  <2> QED
    BY <1>1, <2>1, <2>3, <2>4, <2>5 DEF TableInv, Attached
<1>5. FreshInv' /\ LossInv' /\ NotedInv'
  BY <1>0, <1>1 DEF TypeOK, TableInv, FreshInv, LossInv, NotedInv, Attached
<1>6. InStep'
  <2> SUFFICES ASSUME NEW w \in Conns, NEW r \in subs'[w] \ early', NEW x \in Things,
                      x = Field => w \notin blind'
               PROVE  Has(r, w, x)'
    BY DEF InStep
  <2>1. CASE r = s
    <3>1. queue'[s] = <<>> /\ Shown(s, x)' = now[x] /\ sent'[w][x] <= now[x]
      BY <1>0, <1>1 DEF FreshInv, NotedInv, Shown, TypeOK
    <3> QED
      BY <1>0, <1>1, <2>1, <3>1, SentType, ReachesNow DEF Has
  <2>2. CASE r # s
    <3>1. r \in Conns /\ Has(r, w, x)
      BY <1>0, <1>1, <2>2 DEF InStep, TypeOK
    <3> QED
      BY <1>0, <1>1, <2>2, <3>1 DEF Has, Shown, TypeOK
  <2> QED
    BY <2>1, <2>2
<1> QED
  BY <1>3, <1>4, <1>5, <1>6 DEF EventsInv

LEMMA FirstStep ==
  ASSUME EventsInv, NEW s \in Conns, First(s)
  PROVE  EventsInv'
<1> USE DEF lifecycle, watcher, client, history
<1>0. TypeOK /\ TableInv /\ ServedByOne /\ FreshInv /\ LossInv /\ NotedInv /\ InStep
  BY DEF EventsInv
<1>1. /\ at[s] = "new" /\ at' = [at EXCEPT ![s] = "priming"]
      /\ wat[s] = "none" /\ wat' = [wat EXCEPT ![s] = "priming"]
      /\ table = None /\ table' = s /\ subs' = [subs EXCEPT ![s] = {s}]
      /\ UNCHANGED <<now, stopped, sent, got, queue, dropped, view,
                     early, blind, lost, fails>>
  BY DEF First, Goto, Turns
<1>2. /\ \A w \in Conns : subs[w] = {} /\ subs'[w] = IF w = s THEN {s} ELSE {}
      /\ \A r \in Conns : at[r] \notin Attached
  BY <1>0, <1>1, ThreadAssumption DEF ServedByOne, TypeOK
<1>3. TypeOK'
  <2>1. \A w \in Conns : Cardinality(subs'[w]) <= MaxPerSession
    <3>1. Cardinality({s}) = 1 /\ Cardinality({}) = 0
      BY FS_Singleton, FS_EmptySet
    <3>2. 1 <= MaxPerSession /\ 0 <= MaxPerSession
      BY ThreadAssumption
    <3> QED
      BY <1>2, <3>1, <3>2
  <2>2. subs' \in [Conns -> SUBSET Conns] /\ table' \in Conns \cup {None}
    BY <1>0, <1>1 DEF TypeOK
  <2>3. /\ at' \in [Conns -> Attached \cup {"new", "refused", "left"}]
        /\ wat' \in [Conns -> {"none", "priming", "running", "comparing", "ended"}]
    BY <1>0, <1>1 DEF TypeOK, Attached
  <2> QED
    BY <1>0, <1>1, <2>1, <2>2, <2>3 DEF TypeOK
<1>4. TableInv' /\ ServedByOne'
  <2>1. \A w \in Conns : IsFiniteSet(subs'[w])
    <3>1. IsFiniteSet({s}) /\ IsFiniteSet({})
      BY FS_Singleton, FS_EmptySet
    <3> QED
      BY <1>2, <3>1
  <2>2. /\ \A r \in Conns : at'[r] \in Attached <=> r = s
        /\ s \notin stopped /\ s # None
    BY <1>0, <1>1, <1>2, ThreadAssumption DEF TypeOK, TableInv, Attached
  <2>3. ServedByOne'
    BY <1>1, <1>2, <2>2 DEF ServedByOne, Attached
  <2>4. \A w \in Conns : \A r \in subs'[w] : at'[r] \in Attached
    BY <1>2, <2>2
  <2>5. \A r \in Conns : /\ at'[r] = "priming" => r = s
                         /\ r \in stopped \/ r = s => at'[r] # "new"
    BY <1>0, <1>1, <1>2, <2>2 DEF TypeOK, TableInv, Attached
  <2>6. TableInv'
    BY <1>1, <2>1, <2>4, <2>5 DEF TableInv, Attached
  <2> QED
    BY <2>3, <2>6
<1>5. FreshInv' /\ LossInv'
  BY <1>0, <1>1 DEF TypeOK, FreshInv, LossInv
<1>6. NotedInv'
  BY <1>0, <1>1, <1>2 DEF TypeOK, FreshInv, NotedInv, Attached
<1>7. InStep'
  <2> SUFFICES ASSUME NEW x \in Things PROVE Has(s, s, x)'
    BY <1>2 DEF InStep
  <2>1. queue'[s] = <<>> /\ Shown(s, x)' = now[x] /\ sent'[s][x] <= now[x]
    BY <1>0, <1>1 DEF FreshInv, NotedInv, Shown, TypeOK
  <2> QED
    BY <1>0, <1>1, <2>1, SentType, ReachesNow DEF Has
<1> QED
  BY <1>3, <1>4, <1>5, <1>6, <1>7 DEF EventsInv

\* Everybody the watcher may put to hangs on the watcher in the table.
LEMMA OneWatcher ==
  ASSUME ServedByOne, NEW w \in Conns, NEW s \in subs[w]
  PROVE  w = table
BY DEF ServedByOne

\* The baseline: whoever has no snapshot yet gets a newer one.
LEMMA PrimeStep ==
  ASSUME EventsInv, NEW w \in Conns, Prime(w)
  PROVE  EventsInv'
<1> USE DEF lifecycle, watcher, client, history
<1>0. TypeOK /\ TableInv /\ ServedByOne /\ FreshInv /\ LossInv /\ NotedInv /\ InStep
  BY DEF EventsInv
<1>1. /\ at[w] = "priming" /\ at' = [at EXCEPT ![w] = "joined"]
      /\ wat[w] = "priming" /\ wat' = [wat EXCEPT ![w] = "running"]
      /\ sent' = [sent EXCEPT ![w] = now]
      /\ UNCHANGED <<now, table, subs, stopped, got, queue, dropped, view,
                     early, blind, lost, fails>>
  BY DEF Prime, Goto, Turns
<1>2. TypeOK'
  BY <1>0, <1>1 DEF TypeOK, Attached
<1>3. TableInv' /\ ServedByOne'
  BY <1>0, <1>1 DEF TypeOK, TableInv, ServedByOne, Attached
<1>4. FreshInv' /\ LossInv'
  BY <1>0, <1>1 DEF TypeOK, FreshInv, LossInv
<1>5. NotedInv'
  <2>1. \A v \in Conns : \A x \in Things : sent'[v][x] <= now[x] /\ got[v][x] <= now[x]
    BY <1>0, <1>1, SentType DEF NotedInv, TypeOK
  <2>2. ASSUME NEW v \in Conns, wat'[v] = "priming", NEW s \in subs[v] \ early
        PROVE  at'[s] \in {"priming", "joined"} /\ queue[s] = <<>>
    BY <1>0, <1>1, <2>2 DEF NotedInv, TypeOK
  <2> QED
    BY <1>0, <1>1, <2>1, <2>2, ThingsThere DEF NotedInv, TypeOK
<1>6. InStep'
  <2> SUFFICES ASSUME NEW v \in Conns, NEW s \in subs[v] \ early, NEW x \in Things,
                      x = Field => v \notin blind, s \notin dropped
               PROVE  Reaches(queue[s], x, Shown(s, x)', sent'[v][x])
    BY <1>1 DEF InStep, Has
  <2>1. s \in Conns /\ Shown(s, x)' = Shown(s, x)
    BY <1>0, <1>1 DEF Shown, TypeOK
  <2>2. CASE v = w
    <3>1. queue[s] = <<>> /\ Shown(s, x) = now[x] /\ sent'[v][x] = now[x]
      BY <1>0, <1>1, <2>1, <2>2 DEF NotedInv, Shown, TypeOK
    <3> QED
      BY <1>0, <2>1, <2>2, <3>1, SentType, ReachesNow
  <2>3. CASE v # w
    <3>1. sent'[v][x] = sent[v][x]
      BY <1>0, <1>1, <2>3 DEF TypeOK
    <3>2. Has(s, v, x)
      BY <1>0 DEF InStep
    <3> QED
      BY <2>1, <3>1, <3>2 DEF Has
  <2> QED
    BY <2>2, <2>3
<1> QED
  BY <1>2, <1>3, <1>4, <1>5, <1>6 DEF EventsInv

LEMMA PrimeFailsStep ==
  ASSUME EventsInv, NEW w \in Conns, PrimeFails(w)
  PROVE  EventsInv'
<1> USE DEF lifecycle, watcher, client, history
<1>0. TypeOK /\ TableInv /\ ServedByOne /\ FreshInv /\ LossInv /\ NotedInv /\ InStep
  BY DEF EventsInv
<1>1. /\ at[w] = "priming" /\ at' = [at EXCEPT ![w] = "joined"]
      /\ wat[w] = "priming" /\ wat' = [wat EXCEPT ![w] = "running"]
      /\ blind' = blind \cup {w} /\ fails < MaxFails /\ fails' = fails + 1
      /\ UNCHANGED <<now, table, subs, stopped, sent, got, queue, dropped, view,
                     early, lost>>
  BY DEF PrimeFails, Goto, Turns
<1>2. TypeOK'
  BY <1>0, <1>1, ThreadAssumption, SMTT(40) DEF TypeOK, Attached
<1>3. TableInv' /\ ServedByOne'
  BY <1>0, <1>1 DEF TypeOK, TableInv, ServedByOne, Attached
<1>4. FreshInv' /\ LossInv'
  BY <1>0, <1>1 DEF TypeOK, FreshInv, LossInv
<1>5. NotedInv'
  BY <1>0, <1>1 DEF NotedInv, TypeOK, Nothing
<1>6. InStep'
  <2>1. \A s \in Conns : \A x \in Things : Shown(s, x) <= Shown(s, x)'
    BY <1>0, <1>1, ShownType DEF Shown, TypeOK
  <2> QED
    BY <1>0, <1>1, <1>2, <2>1, KeepsInStep
<1> QED
  BY <1>2, <1>3, <1>4, <1>5, <1>6 DEF EventsInv

LEMMA ReadsStep ==
  ASSUME EventsInv, NEW w \in Conns, NEW things \in SUBSET Things, Reads(w, things)
  PROVE  EventsInv'
<1> USE DEF lifecycle, watcher, client, history
<1>0. TypeOK /\ TableInv /\ ServedByOne /\ FreshInv /\ LossInv /\ NotedInv /\ InStep
  BY DEF EventsInv
<1>1. /\ wat[w] = "running" /\ wat' = [wat EXCEPT ![w] = "comparing"]
      /\ UNCHANGED <<now, table, subs, stopped, sent, at, queue, dropped, view,
                     early, blind, lost, fails>>
  BY DEF Reads, Turns
<1>2. /\ got' \in [Conns -> [Things -> 0..MaxVersion]]
      /\ \A v \in Conns : \A x \in Things : got'[v][x] <= now[x]
  <2> DEFINE news == {x \in things : now[x] # sent[w][x]}
             read == [x \in Things |-> IF x \in news THEN now[x] ELSE 0]
  <2>1. got' = [got EXCEPT ![w] = read]
    BY DEF Reads
  <2>2. read \in [Things -> 0..MaxVersion] /\ \A x \in Things : read[x] <= now[x]
    BY <1>0, ThreadAssumption DEF TypeOK
  <2> HIDE DEF read
  <2> QED
    BY <1>0, <2>1, <2>2 DEF TypeOK, NotedInv
<1>3. TypeOK'
  BY <1>0, <1>1, <1>2 DEF TypeOK
<1>4. TableInv' /\ ServedByOne'
  BY <1>0, <1>1 DEF TypeOK, TableInv, ServedByOne, Attached
<1>5. FreshInv' /\ LossInv' /\ NotedInv'
  BY <1>0, <1>1, <1>2 DEF TypeOK, FreshInv, LossInv, NotedInv, Nothing
<1>6. InStep'
  <2>1. \A s \in Conns : \A x \in Things : Shown(s, x) <= Shown(s, x)'
    BY <1>0, <1>1, ShownType DEF Shown
  <2> QED
    BY <1>0, <1>1, <1>3, <2>1, KeepsInStep
<1> QED
  BY <1>3, <1>4, <1>5, <1>6 DEF EventsInv

\* A change is noted, and put for everybody on the watcher's list.
LEMMA TellStep ==
  ASSUME EventsInv, NEW w \in Conns, NEW x \in Things, Tell(w, x)
  PROVE  EventsInv'
<1> USE DEF lifecycle, watcher, client, history
<1> DEFINE some == IF Told(w, x) THEN subs[w] ELSE {}
           full == {s \in some : Len(queue[s]) >= QueueMax}
           e(s) == <<x, got[w][x], s \in lost>>
<1>0. TypeOK /\ TableInv /\ ServedByOne /\ FreshInv /\ LossInv /\ NotedInv /\ InStep
  BY DEF EventsInv
<1>1. /\ wat[w] = "comparing" /\ got[w][x] # 0
      /\ sent' = [sent EXCEPT ![w][x] = got[w][x]]
      /\ got' = [got EXCEPT ![w][x] = 0]
      /\ dropped' = dropped \cup full /\ lost' = lost \cup full
      /\ UNCHANGED <<now, table, subs, stopped, wat, at, view, early, blind, fails>>
  BY DEF Tell, Put, Behind, News
<1>2. queue' = [s \in Conns |-> IF s \in some \ full THEN Append(queue[s], e(s)) ELSE queue[s]]
  BY DEF Tell, Put
<1>3. /\ full \subseteq some /\ some \subseteq subs[w] /\ subs[w] \subseteq Conns
      /\ \A s \in some : s \in full <=> Len(queue[s]) >= QueueMax
      /\ \A s \in Conns : e(s) \in Things \X (1..MaxVersion) \X BOOLEAN
  <2>1. full \subseteq some /\ \A s \in some : s \in full <=> Len(queue[s]) >= QueueMax
    OBVIOUS
  <2>2. some \subseteq subs[w] /\ subs[w] \subseteq Conns
    BY <1>0 DEF TypeOK
  <2>3. got[w][x] \in 1..MaxVersion
    BY <1>0, <1>1, ThreadAssumption DEF TypeOK
  <2>4. \A s \in Conns : (s \in lost) \in BOOLEAN
    OBVIOUS
  <2>5. \A b \in BOOLEAN : <<x, got[w][x], b>> \in Things \X (1..MaxVersion) \X BOOLEAN
    BY <2>3
  <2> QED
    BY <2>1, <2>2, <2>4, <2>5
<1>4. \A s \in some : w = table /\ at[s] \notin {"new", "priming"}
  BY <1>0, <1>1, <1>3, OneWatcher DEF TableInv, NotedInv, Attached, TypeOK
<1> HIDE DEF full
<1> HIDE DEF some
<1>5. \A s \in Conns :
        \/ s \in some \ full /\ queue'[s] = Append(queue[s], e(s)) /\ Len(queue[s]) < QueueMax
        \/ s \notin some \ full /\ queue'[s] = queue[s]
  <2>1. \A s \in Conns : Len(queue[s]) \in Nat
    BY <1>0 DEF TypeOK
  <2>2. \A s \in some \ full : Len(queue[s]) < QueueMax
    BY <1>3, <2>1, ThreadAssumption
  <2> QED
    BY <1>2, <2>2
<1>6. TypeOK'
  <2>1. queue' \in [Conns -> Seq(Things \X (1..MaxVersion) \X BOOLEAN)]
    BY <1>0, <1>2, <1>3, SMTT(40) DEF TypeOK
  <2>2. ASSUME NEW s \in Conns PROVE Len(queue'[s]) <= QueueMax
    <3>1. queue[s] \in Seq(Things \X (1..MaxVersion) \X BOOLEAN) /\ Len(queue[s]) <= QueueMax
      BY <1>0 DEF TypeOK
    <3>2. Len(queue[s]) \in Nat /\ Len(Append(queue[s], e(s))) = Len(queue[s]) + 1
      BY <1>3, <3>1
    <3> QED
      BY <1>5, <3>1, <3>2, ThreadAssumption
  <2>3. /\ sent' \in [Conns -> [Things -> 0..MaxVersion]]
        /\ got' \in [Conns -> [Things -> 0..MaxVersion]]
    BY <1>0, <1>1, ThreadAssumption DEF TypeOK
  <2>4. dropped' \subseteq Conns /\ lost' \subseteq Conns
    BY <1>0, <1>1, <1>3 DEF TypeOK
  <2> QED
    BY <1>0, <1>1, <2>1, <2>2, <2>3, <2>4 DEF TypeOK
<1>7. TableInv' /\ ServedByOne'
  BY <1>0, <1>1 DEF TableInv, ServedByOne, Attached
<1>8. FreshInv'
  BY <1>0, <1>1, <1>4, <1>5 DEF FreshInv
<1>9. LossInv'
  <2> SUFFICES ASSUME NEW s \in Conns
               PROVE  /\ s \in lost' => s \in dropped'
                      /\ s \notin lost' => \A i \in DOMAIN queue'[s] : ~queue'[s][i][3]
                      /\ at[s] = "getting" /\ s \in lost' =>
                           queue'[s] # <<>> /\ ~queue'[s][1][3]
    BY <1>1 DEF LossInv
  <2>1. queue[s] \in Seq(Things \X (1..MaxVersion) \X BOOLEAN)
    BY <1>0 DEF TypeOK
  <2>2. CASE s \in some \ full
    <3>1. /\ Len(queue[s]) \in Nat
          /\ DOMAIN queue'[s] = 1 .. Len(queue[s]) + 1
          /\ \A i \in 1 .. Len(queue[s]) : queue'[s][i] = queue[s][i]
          /\ queue'[s][Len(queue[s]) + 1][3] = (s \in lost)
          /\ DOMAIN queue[s] = 1 .. Len(queue[s])
          /\ queue'[s] # <<>>
      BY <1>3, <1>5, <2>1, <2>2
    <3>2. (s \in lost' <=> s \in lost) /\ (s \in dropped' <=> s \in dropped)
      BY <1>1, <2>2
    <3>3. CASE s \in lost
      <4>1. s \in dropped' /\ (at[s] = "getting" => queue[s] # <<>> /\ ~queue[s][1][3])
        BY <1>0, <3>2, <3>3 DEF LossInv
      <4>2. queue[s] # <<>> => 1 \in 1 .. Len(queue[s])
        BY <2>1
      <4> QED
        BY <3>1, <3>2, <3>3, <4>1, <4>2
    <3>4. CASE s \notin lost
      <4>1. \A i \in 1 .. Len(queue[s]) : ~queue'[s][i][3]
        BY <1>0, <3>1, <3>4 DEF LossInv
      <4>2. ~queue'[s][Len(queue[s]) + 1][3]
        BY <3>1, <3>4, Zenon
      <4>3. DOMAIN queue'[s] = (1 .. Len(queue[s])) \cup {Len(queue[s]) + 1}
        BY <3>1
      <4>4. \A i \in DOMAIN queue'[s] : ~queue'[s][i][3]
        BY <4>1, <4>2, <4>3, Zenon
      <4> QED
        BY <3>2, <3>4, <4>4, Zenon
    <3> QED
      BY <3>3, <3>4
  <2>3. CASE s \notin some \ full
    <3>1. queue'[s] = queue[s]
      BY <1>5, <2>3
    <3>2. CASE s \in full
      <4>1. Len(queue[s]) \in Nat /\ Len(queue[s]) > 0 /\ DOMAIN queue[s] = 1 .. Len(queue[s])
        <5>1. Len(queue[s]) \in Nat /\ DOMAIN queue[s] = 1 .. Len(queue[s])
          BY <2>1
        <5>2. Len(queue[s]) >= QueueMax
          BY <1>3, <3>2
        <5> QED
          BY <5>1, <5>2, ThreadAssumption
      <4>2. queue[s] # <<>> /\ 1 \in DOMAIN queue[s]
        BY <2>1, <4>1
      <4> QED
        BY <1>0, <1>1, <3>1, <3>2, <4>2 DEF LossInv
    <3>3. CASE s \notin full
      BY <1>0, <1>1, <3>1, <3>3 DEF LossInv
    <3> QED
      BY <3>2, <3>3
  <2> QED
    BY <2>2, <2>3
<1>10. NotedInv'
  <2>1. ASSUME NEW v \in Conns, NEW y \in Things
        PROVE  sent'[v][y] <= now[y] /\ got'[v][y] <= now[y]
    <3>1. /\ sent'[v][y] = IF v = w /\ y = x THEN got[w][x] ELSE sent[v][y]
          /\ got'[v][y] = IF v = w /\ y = x THEN 0 ELSE got[v][y]
      BY <1>0, <1>1 DEF TypeOK
    <3> QED
      BY <1>0, <3>1, SentType DEF NotedInv
  <2>2. ASSUME NEW v \in Conns, wat[v] = "priming", NEW s \in subs[v] \ early
        PROVE  at[s] \in {"priming", "joined"} /\ queue'[s] = <<>>
    <3>1. s \in Conns /\ v = table /\ v # w
      BY <1>0, <1>1, <2>2, OneWatcher DEF TypeOK
    <3> QED
      BY <1>0, <1>4, <1>5, <2>2, <3>1 DEF NotedInv
  <2>3. ASSUME NEW v \in Conns, wat[v] \in {"running", "comparing"}, v \notin blind
        PROVE  sent'[v][Field] # 0
    <3>1. sent[v][Field] # 0
      BY <1>0, <2>3 DEF NotedInv
    <3>2. sent'[v][Field] \in {sent[v][Field], got[w][x]}
      BY <1>0, <1>1, ThingsThere DEF TypeOK
    <3> QED
      BY <1>1, <2>3, <3>1, <3>2, ThingsThere DEF TypeOK
  <2>4. \A v \in Conns : wat[v] = "none" => sent'[v] = Nothing
    BY <1>0, <1>1 DEF NotedInv, TypeOK
  <2> QED
    BY <1>0, <1>1, <2>1, <2>2, <2>3, <2>4 DEF NotedInv, Nothing
<1>11. InStep'
  <2> SUFFICES ASSUME NEW v \in Conns, NEW s \in subs[v] \ early, NEW y \in Things,
                      y = Field => v \notin blind, s \notin dropped'
               PROVE  Reaches(queue'[s], y, Shown(s, y)', sent'[v][y])
    BY <1>1 DEF InStep, Has
  <2>1. /\ s \in Conns /\ Shown(s, y)' = Shown(s, y)
        /\ s \notin dropped /\ s \notin full /\ v = table
        /\ Reaches(queue[s], y, Shown(s, y), sent[v][y])
        /\ queue[s] \in Seq(Things \X (1..MaxVersion) \X BOOLEAN)
    BY <1>0, <1>1, OneWatcher DEF Shown, TypeOK, InStep, Has
  <2>2. CASE v = w /\ y = x
    <3>1. Told(w, x)
      BY <1>0, <1>1, <2>2 DEF Told, NotedInv
    <3>2. s \in some \ full
      BY <2>1, <2>2, <3>1 DEF some
    <3>3. queue'[s] = Append(queue[s], e(s)) /\ sent'[v][y] = got[w][x]
      BY <1>0, <1>1, <1>5, <2>1, <2>2, <3>2 DEF TypeOK
    <3>4. Reaches(Append(queue[s], e(s)), e(s)[1], Shown(s, y), e(s)[2])
      <4>1. e(s) \in Things \X (1..MaxVersion) \X BOOLEAN /\ e(s)[2] \in Nat
        BY <1>0, <1>3, <2>1, SentType
      <4> QED
        BY <2>1, <4>1, AppendReaches
    <3> QED
      BY <2>1, <2>2, <3>3, <3>4
  <2>3. CASE v # w \/ y # x
    <3>1. sent'[v][y] = sent[v][y]
      BY <1>0, <1>1, <2>3 DEF TypeOK
    <3>2. CASE s \in some \ full
      <4>1. queue'[s] = Append(queue[s], e(s)) /\ y # x
        BY <1>4, <1>5, <2>1, <2>3, <3>2
      <4>2. e(s) \in Things \X (1..MaxVersion) \X BOOLEAN /\ e(s)[1] # y
        BY <1>3, <2>1, <4>1
      <4> QED
        BY <2>1, <3>1, <4>1, <4>2, AppendKeeps
    <3>3. CASE s \notin some \ full
      BY <1>5, <2>1, <3>1, <3>3
    <3> QED
      BY <3>2, <3>3
  <2> QED
    BY <2>2, <2>3
<1> QED
  BY <1>6, <1>7, <1>8, <1>9, <1>10, <1>11 DEF EventsInv

LEMMA RoundOverStep ==
  ASSUME EventsInv, NEW w \in Conns, RoundOver(w)
  PROVE  EventsInv'
<1> USE DEF lifecycle, watcher, client, history
<1>0. TypeOK /\ TableInv /\ ServedByOne /\ FreshInv /\ LossInv /\ NotedInv /\ InStep
  BY DEF EventsInv
<1>1. /\ wat[w] = "comparing"
      /\ UNCHANGED <<now, table, subs, stopped, got, at, queue, dropped, view,
                     early, lost, fails>>
      /\ \/ /\ w \in stopped /\ wat' = [wat EXCEPT ![w] = "ended"]
            /\ sent' = [sent EXCEPT ![w] = Nothing] /\ blind' = blind \ {w}
         \/ wat' = [wat EXCEPT ![w] = "running"] /\ UNCHANGED <<sent, blind>>
  BY DEF RoundOver, Turns, Ends
<1>2. TypeOK'
  <2>1. Nothing \in [Things -> 0..MaxVersion]
    BY ThreadAssumption DEF Nothing
  <2>2. sent' \in [Conns -> [Things -> 0..MaxVersion]]
    <3>1. sent \in [Conns -> [Things -> 0..MaxVersion]]
      BY <1>0 DEF TypeOK
    <3>2. sent' = sent \/ sent' = [sent EXCEPT ![w] = Nothing]
      BY <1>1
    <3> QED
      BY <2>1, <3>1, <3>2
  <2> QED
    BY <1>0, <1>1, <2>2 DEF TypeOK
<1>3. TableInv' /\ ServedByOne' /\ FreshInv' /\ LossInv'
  BY <1>0, <1>1 DEF TableInv, ServedByOne, FreshInv, LossInv, Attached
<1>4. NotedInv'
  <2>1. ASSUME NEW v \in Conns, NEW x \in Things PROVE sent'[v][x] <= now[x]
    <3>1. sent'[v] = sent[v] \/ sent'[v] = Nothing
      BY <1>0, <1>1 DEF TypeOK
    <3>2. Nothing[x] = 0
      BY DEF Nothing
    <3> QED
      BY <1>0, <3>1, <3>2, SentType DEF NotedInv
  <2> QED
    BY <1>0, <1>1, <2>1, SMTT(40) DEF NotedInv, TypeOK, Nothing
<1>5. InStep'
  <2>1. CASE w \in stopped
    <3>1. subs[w] = {}
      BY <1>0, <2>1 DEF ServedByOne, TableInv, TypeOK
    <3> SUFFICES ASSUME NEW v \in Conns, NEW s \in subs[v] \ early, NEW x \in Things,
                        x = Field => v \notin blind'
                 PROVE  Has(s, v, x)'
      BY <1>1 DEF InStep
    <3>2. v # w /\ sent'[v] = sent[v] /\ Has(s, v, x)
      BY <1>0, <1>1, <3>1 DEF TypeOK, InStep
    <3> QED
      BY <1>1, <3>2 DEF Has, Shown
  <2>2. CASE w \notin stopped
    <3>1. \A s \in Conns : \A x \in Things : Shown(s, x) <= Shown(s, x)'
      BY <1>0, <1>1, ShownType DEF Shown
    <3> QED
      BY <1>0, <1>1, <1>2, <2>2, <3>1, KeepsInStep
  <2> QED
    BY <2>1, <2>2
<1> QED
  BY <1>2, <1>3, <1>4, <1>5 DEF EventsInv

LEMMA SnapshotStep ==
  ASSUME EventsInv, NEW s \in Conns, Snapshot(s)
  PROVE  EventsInv'
<1> USE DEF lifecycle, watcher, client, history
<1>0. TypeOK /\ TableInv /\ ServedByOne /\ FreshInv /\ LossInv /\ NotedInv /\ InStep
  BY DEF EventsInv
<1>1. /\ at[s] = "joined" /\ at' = [at EXCEPT ![s] = "open"]
      /\ view' = [view EXCEPT ![s] = now]
      /\ early \subseteq early' /\ early' \subseteq early \cup {s}
      /\ (\E w \in Conns : s \in subs[w] /\ wat[w] = "priming") => s \in early'
      /\ UNCHANGED <<now, table, subs, stopped, wat, sent, got, queue, dropped,
                     blind, lost, fails>>
  BY DEF Snapshot, Goto
<1>2. TypeOK'
  BY <1>0, <1>1 DEF TypeOK, Attached
<1>3. TableInv' /\ ServedByOne'
  BY <1>0, <1>1 DEF TypeOK, TableInv, ServedByOne, Attached
<1>4. FreshInv' /\ LossInv'
  BY <1>0, <1>1 DEF TypeOK, FreshInv, LossInv
<1>5. NotedInv'
  <2>1. ASSUME NEW w \in Conns, wat[w] = "priming", NEW r \in subs[w] \ early'
        PROVE  at'[r] \in {"priming", "joined"} /\ queue[r] = <<>>
    BY <1>0, <1>1, <2>1 DEF NotedInv, TypeOK
  <2> QED
    BY <1>0, <1>1, <2>1 DEF NotedInv, TypeOK, Nothing
<1>6. InStep'
  <2>1. ASSUME NEW r \in Conns, NEW x \in Things
        PROVE  Shown(r, x) <= Shown(r, x)'
    <3>1. Shown(r, x)' = Shown(r, x)
      BY <1>0, <1>1 DEF Shown, TypeOK
    <3> QED
      BY <1>0, <3>1, ShownType
  <2> QED
    BY <1>0, <1>1, <1>2, <2>1, KeepsInStep
<1> QED
  BY <1>2, <1>3, <1>4, <1>5, <1>6 DEF EventsInv

LEMMA LookStep ==
  ASSUME EventsInv, NEW s \in Conns, Look(s)
  PROVE  EventsInv'
<1> USE DEF lifecycle, watcher, client, history
<1>0. TypeOK /\ TableInv /\ ServedByOne /\ FreshInv /\ LossInv /\ NotedInv /\ InStep
  BY DEF EventsInv
<1>1. /\ s \notin dropped /\ at[s] = "open" /\ at' = [at EXCEPT ![s] = "getting"]
      /\ UNCHANGED <<now, table, subs, stopped, wat, sent, got, queue, dropped, view,
                     early, blind, lost, fails>>
  BY DEF Look, Goto
<1>2. TypeOK'
  BY <1>0, <1>1 DEF TypeOK, Attached
<1>3. TableInv' /\ ServedByOne'
  BY <1>0, <1>1 DEF TypeOK, TableInv, ServedByOne, Attached
<1>4. FreshInv' /\ LossInv'
  BY <1>0, <1>1 DEF TypeOK, FreshInv, LossInv
<1>5. NotedInv'
  BY <1>0, <1>1 DEF NotedInv, TypeOK, Nothing
<1>6. InStep'
  <2>1. ASSUME NEW r \in Conns, NEW x \in Things
        PROVE  Shown(r, x) <= Shown(r, x)'
    <3>1. Shown(r, x)' = Shown(r, x)
      BY <1>0, <1>1 DEF Shown, TypeOK
    <3> QED
      BY <1>0, <3>1, ShownType
  <2> QED
    BY <1>0, <1>1, <1>2, <2>1, KeepsInStep
<1> QED
  BY <1>2, <1>3, <1>4, <1>5, <1>6 DEF EventsInv

LEMMA GetStep ==
  ASSUME EventsInv, NEW s \in Conns, Get(s)
  PROVE  EventsInv'
<1> USE DEF lifecycle, watcher, client, history
<1>0. TypeOK /\ TableInv /\ ServedByOne /\ FreshInv /\ LossInv /\ NotedInv /\ InStep
  BY DEF EventsInv
<1> DEFINE e == Head(queue[s])
<1>1. /\ at[s] = "getting" /\ at' = [at EXCEPT ![s] = "open"] /\ queue[s] # <<>>
      /\ view' = [view EXCEPT ![s][e[1]] = e[2]]
      /\ queue' = [queue EXCEPT ![s] = Tail(@)]
      /\ UNCHANGED <<now, table, subs, stopped, wat, sent, got, dropped,
                     early, blind, lost, fails>>
  BY DEF Get, Goto
<1>2. /\ queue[s] \in Seq(Things \X (1..MaxVersion) \X BOOLEAN)
      /\ e \in Things \X (1..MaxVersion) \X BOOLEAN
      /\ Tail(queue[s]) \in Seq(Things \X (1..MaxVersion) \X BOOLEAN)
      /\ Len(queue[s]) \in Nat /\ Len(Tail(queue[s])) = Len(queue[s]) - 1
      /\ Len(queue[s]) <= QueueMax
      /\ \A i \in DOMAIN Tail(queue[s]) :
           i + 1 \in DOMAIN queue[s] /\ Tail(queue[s])[i] = queue[s][i + 1]
  <2> DEFINE q == queue[s]
             E == Things \X (1..MaxVersion) \X BOOLEAN
  <2>1. q \in Seq(E) /\ q # <<>> /\ Len(q) <= QueueMax
    BY <1>0, <1>1 DEF TypeOK
  <2> HIDE DEF q, E
  <2>2. Head(q) \in E /\ Tail(q) \in Seq(E)
    BY <2>1
  <2>3. Len(q) \in Nat /\ Len(Tail(q)) = Len(q) - 1 /\ DOMAIN q = 1 .. Len(q)
    BY <2>1
  <2>4. DOMAIN Tail(q) = 1 .. Len(q) - 1
    BY <2>1, <2>3
  <2>5. \A i \in 1 .. Len(q) - 1 : i + 1 \in 1 .. Len(q) /\ Tail(q)[i] = q[i + 1]
    BY <2>1, <2>3
  <2> QED
    BY <2>1, <2>2, <2>3, <2>4, <2>5 DEF q, E
<1>3. e[1] \in Things /\ e[2] \in 0..MaxVersion
  BY <1>2, ThreadAssumption
<1> HIDE DEF e
<1>4. TypeOK'
  <2>1. queue' \in [Conns -> Seq(Things \X (1..MaxVersion) \X BOOLEAN)]
    BY <1>0, <1>1, <1>2 DEF TypeOK
  <2>2. ASSUME NEW r \in Conns PROVE Len(queue'[r]) <= QueueMax
    <3>1. queue'[r] = IF r = s THEN Tail(queue[s]) ELSE queue[r]
      BY <1>0, <1>1 DEF TypeOK
    <3> QED
      BY <1>0, <1>2, <3>1, ThreadAssumption DEF TypeOK
  <2>3. view' \in [Conns -> [Things -> 0..MaxVersion]]
    BY <1>0, <1>1, <1>3 DEF TypeOK
  <2>4. at' \in [Conns -> Attached \cup {"new", "refused", "left"}]
    BY <1>0, <1>1 DEF TypeOK, Attached
  <2> QED
    BY <1>0, <1>1, <2>1, <2>2, <2>3, <2>4 DEF TypeOK
<1>5. TableInv' /\ ServedByOne'
  BY <1>0, <1>1 DEF TypeOK, TableInv, ServedByOne, Attached
<1>6. FreshInv' /\ LossInv'
  <2>1. ASSUME NEW r \in Conns, r # s
        PROVE  queue'[r] = queue[r] /\ at'[r] = at[r]
    BY <1>0, <1>1, <2>1 DEF TypeOK
  <2>2. queue'[s] = Tail(queue[s]) /\ at'[s] = "open"
    BY <1>0, <1>1 DEF TypeOK
  <2>3. s \notin lost => \A i \in DOMAIN queue'[s] : ~queue'[s][i][3]
    BY <1>0, <1>2, <2>2 DEF LossInv
  <2>4. FreshInv'
    BY <1>0, <2>1, <2>2 DEF FreshInv
  <2> QED
    BY <1>0, <1>1, <2>1, <2>2, <2>3, <2>4 DEF LossInv
<1>7. NotedInv'
  <2>1. ASSUME NEW v \in Conns, wat[v] = "priming", NEW r \in subs[v] \ early
        PROVE  at'[r] \in {"priming", "joined"} /\ queue'[r] = <<>>
    <3>1. at[r] \in {"priming", "joined"} /\ queue[r] = <<>> /\ r \in Conns
      BY <1>0, <2>1 DEF NotedInv, TypeOK
    <3>2. r # s
      BY <1>1, <3>1
    <3> QED
      BY <1>0, <1>1, <3>1, <3>2 DEF TypeOK
  <2>2. \A v \in Conns : at'[v] = "priming" <=> at[v] = "priming"
    BY <1>0, <1>1 DEF TypeOK
  <2> QED
    BY <1>0, <1>1, <2>1, <2>2 DEF NotedInv, Nothing
<1>8. InStep'
  <2> SUFFICES ASSUME NEW w \in Conns, NEW r \in subs[w] \ early, NEW x \in Things,
                      x = Field => w \notin blind, r \notin dropped
               PROVE  Reaches(queue'[r], x, Shown(r, x)', sent[w][x])
    BY <1>1 DEF InStep, Has
  <2>1. r \in Conns /\ sent[w][x] \in Nat /\ Reaches(queue[r], x, Shown(r, x), sent[w][x])
    BY <1>0, SentType DEF TypeOK, InStep, Has
  <2>2. CASE r = s
    <3>1. Shown(s, x) = view[s][x] /\ Shown(s, x)' = view'[s][x] /\ queue'[s] = Tail(queue[s])
      BY <1>0, <1>1 DEF Shown, TypeOK
    <3>2. view'[s][x] = IF e[1] = x THEN e[2] ELSE view[s][x]
      BY <1>0, <1>1, <1>3 DEF TypeOK
    <3> QED
      BY <1>1, <1>2, <2>1, <2>2, <3>1, <3>2, TailReaches DEF e
  <2>3. CASE r # s
    <3>1. Shown(r, x)' = Shown(r, x) /\ queue'[r] = queue[r]
      BY <1>0, <1>1, <2>1, <2>3 DEF Shown, TypeOK
    <3> QED
      BY <2>1, <3>1
  <2> QED
    BY <2>2, <2>3
<1> QED
  BY <1>4, <1>5, <1>6, <1>7, <1>8 DEF EventsInv

\* Leaving takes the connection off the table's watcher, with all it had.
LEMMA UnsubscribeStep ==
  ASSUME EventsInv, NEW s \in Conns, Unsubscribe(s),
         at[s] \in {"joined", "open", "getting"}
  PROVE  EventsInv'
<1> USE DEF lifecycle, watcher, client, history
<1>0. TypeOK /\ TableInv /\ ServedByOne /\ FreshInv /\ LossInv /\ NotedInv /\ InStep
  BY DEF EventsInv
<1>1. /\ at' = [at EXCEPT ![s] = "left"] /\ queue' = [queue EXCEPT ![s] = <<>>]
      /\ view' = [view EXCEPT ![s] = Nothing]
      /\ dropped' = dropped \ {s} /\ early' = early \ {s} /\ lost' = lost \ {s}
      /\ UNCHANGED <<now, got, fails>>
  BY DEF Unsubscribe
<1>2. PICK w \in Conns :
        /\ s \in subs[w] /\ subs' = [subs EXCEPT ![w] = @ \ {s}]
        /\ IF Vacant(subs[w] \ {s})
           THEN stopped' = stopped \cup {w} /\ table' = Unlisted(w) /\ Wakes(w)
           ELSE UNCHANGED <<stopped, table, wat, sent, blind>>
  BY DEF Unsubscribe
<1>3. /\ w = table /\ w # None /\ table \notin stopped
      /\ \A v \in Conns : v # w => subs[v] = {} /\ subs'[v] = {}
      /\ subs'[w] = subs[w] \ {s} /\ subs[w] \subseteq Conns
      /\ \A r \in Conns : at[r] \in Attached => r \in subs[w]
  BY <1>0, <1>2, ThreadAssumption DEF ServedByOne, TypeOK, Attached
<1>4. \/ /\ subs'[w] = {} /\ stopped' = stopped \cup {w} /\ table' = None
         /\ \/ /\ wat[w] = "running" /\ wat' = [wat EXCEPT ![w] = "ended"]
               /\ sent' = [sent EXCEPT ![w] = Nothing] /\ blind' = blind \ {w}
            \/ UNCHANGED <<wat, sent, blind>>
      \/ subs'[w] # {} /\ UNCHANGED <<stopped, table, wat, sent, blind>>
  BY <1>2, <1>3 DEF Vacant, Unlisted, Wakes, Ends
<1>5. /\ \A r \in Conns : r # s => at'[r] = at[r] /\ queue'[r] = queue[r] /\ view'[r] = view[r]
      /\ at'[s] = "left" /\ queue'[s] = <<>>
  BY <1>0, <1>1 DEF TypeOK
<1>6. IsFiniteSet(subs'[w]) /\ Cardinality(subs'[w]) <= MaxPerSession
  <2>1. IsFiniteSet(subs[w]) /\ Cardinality(subs[w]) <= MaxPerSession
    BY <1>0 DEF TableInv, TypeOK
  <2>2. /\ IsFiniteSet(subs'[w]) /\ Cardinality(subs'[w]) <= Cardinality(subs[w])
    BY <1>3, <2>1, FS_Subset
  <2>3. Cardinality(subs'[w]) \in Nat /\ Cardinality(subs[w]) \in Nat
    BY <2>1, <2>2, FS_CardinalityType
  <2> QED
    BY <2>1, <2>2, <2>3, ThreadAssumption
<1>7. TypeOK'
  <2>1. Nothing \in [Things -> 0..MaxVersion]
    BY ThreadAssumption DEF Nothing
  <2>2. sent' \in [Conns -> [Things -> 0..MaxVersion]] /\ view' \in [Conns -> [Things -> 0..MaxVersion]]
    <3>1. /\ view' \in [Conns -> [Things -> 0..MaxVersion]]
          /\ sent' = sent \/ sent' = [sent EXCEPT ![w] = Nothing]
      BY <1>0, <1>1, <1>4, <2>1 DEF TypeOK
    <3>2. sent \in [Conns -> [Things -> 0..MaxVersion]]
      BY <1>0 DEF TypeOK
    <3> QED
      BY <2>1, <3>1, <3>2
  <2>3. /\ wat' \in [Conns -> {"none", "priming", "running", "comparing", "ended"}]
        /\ at' \in [Conns -> Attached \cup {"new", "refused", "left"}]
    BY <1>0, <1>1, <1>4 DEF TypeOK, Attached
  <2>4. subs' \in [Conns -> SUBSET Conns]
    BY <1>0, <1>2 DEF TypeOK
  <2>5. ASSUME NEW v \in Conns PROVE Cardinality(subs'[v]) <= MaxPerSession
    <3>1. CASE v # w
      BY <1>3, <3>1, FS_EmptySet, ThreadAssumption
    <3> QED
      BY <1>6, <3>1
  <2>6. /\ queue' \in [Conns -> Seq(Things \X (1..MaxVersion) \X BOOLEAN)]
        /\ \A r \in Conns : Len(queue'[r]) <= QueueMax
    <3>1. <<>> \in Seq(Things \X (1..MaxVersion) \X BOOLEAN) /\ Len(<<>>) = 0
      OBVIOUS
    <3>2. queue' \in [Conns -> Seq(Things \X (1..MaxVersion) \X BOOLEAN)]
      BY <1>0, <1>1, <3>1 DEF TypeOK
    <3>3. ASSUME NEW r \in Conns PROVE Len(queue'[r]) <= QueueMax
      <4>1. Len(queue[r]) <= QueueMax
        BY <1>0 DEF TypeOK
      <4>2. queue'[r] = <<>> \/ queue'[r] = queue[r]
        BY <1>5
      <4> QED
        BY <3>1, <4>1, <4>2, ThreadAssumption
    <3> QED
      BY <3>2, <3>3
  <2>7. /\ table' \in Conns \cup {None} /\ stopped' \subseteq Conns
        /\ dropped' \subseteq Conns /\ early' \subseteq Conns
        /\ blind' \subseteq Conns /\ lost' \subseteq Conns
    BY <1>0, <1>1, <1>4 DEF TypeOK
  <2> QED
    BY <1>0, <1>1, <2>2, <2>3, <2>4, <2>5, <2>6, <2>7 DEF TypeOK
<1>8. ServedByOne'
  <2>1. CASE subs'[w] = {}
    BY <1>3, <1>4, <1>5, <2>1, ThreadAssumption DEF ServedByOne, Attached
  <2>2. CASE subs'[w] # {}
    BY <1>0, <1>3, <1>4, <1>5, <2>2 DEF ServedByOne, Attached
  <2> QED
    BY <2>1, <2>2
<1>9. TableInv'
  <2>1. \A v \in Conns : IsFiniteSet(subs'[v])
    <3>1. IsFiniteSet({})
      BY FS_EmptySet
    <3> QED
      BY <1>3, <1>6, <3>1
  <2>2. \A v \in Conns : \A r \in subs'[v] : at'[r] \in Attached
    BY <1>0, <1>3, <1>5 DEF TableInv
  <2>3. ASSUME NEW r \in Conns PROVE r \in stopped' \/ r = table' => at'[r] # "new"
    BY <1>0, <1>3, <1>4, <1>5, ThreadAssumption DEF TableInv
  <2>4. ASSUME NEW r \in Conns, at'[r] = "priming" PROVE table' = r
    <3>1. r # s /\ at[r] = "priming" /\ r \in subs'[w]
      BY <1>3, <1>5, <2>4 DEF Attached
    <3> QED
      BY <1>0, <1>4, <3>1 DEF TableInv
  <2> QED
    BY <2>1, <2>2, <2>3, <2>4 DEF TableInv, Attached
<1>10. FreshInv' /\ LossInv'
  <2>1. \A i \in DOMAIN <<>> : FALSE
    OBVIOUS
  <2>2. FreshInv'
    BY <1>0, <1>5 DEF FreshInv
  <2>3. ASSUME NEW r \in Conns
        PROVE  /\ r \in lost' => r \in dropped'
               /\ r \notin lost' => \A i \in DOMAIN queue'[r] : ~queue'[r][i][3]
               /\ at'[r] = "getting" /\ r \in lost' => queue'[r] # <<>> /\ ~queue'[r][1][3]
    <3>1. CASE r = s
      BY <1>1, <1>5, <2>1, <3>1
    <3>2. CASE r # s
      BY <1>0, <1>1, <1>5, <3>2 DEF LossInv
    <3> QED
      BY <3>1, <3>2
  <2> QED
    BY <2>2, <2>3 DEF LossInv
<1>11. NotedInv'
  <2>1. ASSUME NEW v \in Conns, NEW x \in Things PROVE sent'[v][x] <= now[x]
    <3>1. sent'[v] = sent[v] \/ sent'[v] = Nothing
      BY <1>0, <1>4 DEF TypeOK
    <3>2. Nothing[x] = 0
      BY DEF Nothing
    <3> QED
      BY <1>0, <3>1, <3>2, SentType DEF NotedInv
  <2>2. ASSUME NEW v \in Conns
        PROVE  \/ wat'[v] = wat[v] /\ sent'[v] = sent[v] /\ (v \in blind' <=> v \in blind)
               \/ v = w /\ wat[v] = "running" /\ wat'[v] = "ended"
    BY <1>0, <1>4 DEF TypeOK
  <2>3. ASSUME NEW v \in Conns, wat'[v] = "priming", NEW r \in subs'[v] \ early'
        PROVE  at'[r] \in {"priming", "joined"} /\ queue'[r] = <<>>
    BY <1>0, <1>1, <1>3, <1>5, <2>2, <2>3 DEF NotedInv
  <2>4. ASSUME NEW v \in Conns, wat'[v] \in {"running", "comparing"}, v \notin blind'
        PROVE  sent'[v][Field] # 0
    BY <1>0, <2>2, <2>4 DEF NotedInv
  <2>5. ASSUME NEW v \in Conns
        PROVE  at'[v] = "priming" <=> wat'[v] = "priming"
    BY <1>0, <1>5, <2>2 DEF NotedInv
  <2>6. ASSUME NEW v \in Conns, wat'[v] = "none"
        PROVE  v \notin stopped' /\ v # table' /\ sent'[v] = Nothing
    BY <1>0, <1>3, <1>4, <2>2, <2>6, ThreadAssumption DEF NotedInv
  <2>7. \A v \in Conns : \A x \in Things : got'[v][x] <= now'[x] /\ now'[Field] # 0
    BY <1>0, <1>1 DEF NotedInv
  <2>8. now'[Field] # 0 /\ now' = now
    BY <1>0, <1>1 DEF NotedInv
  <2> QED
    BY <2>1, <2>3, <2>4, <2>5, <2>6, <2>7, <2>8 DEF NotedInv, Nothing
<1>12. InStep'
  <2> SUFFICES ASSUME NEW v \in Conns, NEW r \in subs'[v] \ early', NEW x \in Things,
                      x = Field => v \notin blind'
               PROVE  Has(r, v, x)'
    BY DEF InStep
  <2>1. v = w /\ r # s /\ r \in Conns /\ r \in subs[w] \ early /\ subs'[w] # {}
    BY <1>1, <1>3
  <2>2. UNCHANGED <<sent, blind>>
    BY <1>4, <2>1
  <2>3. Has(r, v, x)
    BY <1>0, <2>1, <2>2 DEF InStep
  <2>4. Shown(r, x)' = Shown(r, x)
    BY <1>1, <1>5, <2>1 DEF Shown
  <2> QED
    BY <1>1, <1>5, <2>1, <2>2, <2>3, <2>4 DEF Has
<1> QED
  BY <1>7, <1>8, <1>9, <1>10, <1>11, <1>12 DEF EventsInv

-----------------------------------------------------------------------------
(* The theorems *)

\* The inductive invariant of the stream: who serves whom, and what every
\* connection has got, or has coming, of what the watcher has noted.
THEOREM EventsInvariance == Spec => []EventsInv
<1>1. EventsInv /\ [Next]_vars => EventsInv'
  <2> SUFFICES ASSUME EventsInv, [Next]_vars PROVE EventsInv'
    OBVIOUS
  <2>1. CASE UNCHANGED vars
    BY <2>1
    DEF EventsInv, TypeOK, TableInv, ServedByOne, FreshInv, LossInv, NotedInv, InStep, Has,
        Shown, Attached, Nothing, vars, lifecycle, watcher, client, history
  <2>2. ASSUME NEW x \in Things, Change(x) PROVE EventsInv'
    BY <2>2, ChangeStep
  <2>3. ASSUME NEW s \in Conns, Refuse(s) \/ Join(s) \/ First(s) PROVE EventsInv'
    BY <2>3, RefuseStep, JoinStep, FirstStep
  <2>4. ASSUME NEW s \in Conns, Connection(s) \/ Disconnect(s) PROVE EventsInv'
    BY <2>4, SnapshotStep, LookStep, GetStep, UnsubscribeStep
    DEF Connection, FellBehind, Disconnect
  <2>5. ASSUME NEW w \in Conns, PrimeFails(w) \/ ReadMessages(w) \/ Watcher(w)
        PROVE  EventsInv'
    <3>1. Ids \in SUBSET Things /\ Things \in SUBSET Things
      BY DEF Things
    <3>2. ASSUME NEW x \in Things, Tell(w, x) PROVE EventsInv'
      BY <3>2, TellStep
    <3> QED
      BY <2>5, <3>1, <3>2, PrimeStep, PrimeFailsStep, ReadsStep, RoundOverStep
      DEF ReadMessages, ReadAll, Watcher
  <2> QED
    BY <2>1, <2>2, <2>3, <2>4, <2>5 DEF Next
<1> QED
  BY <1>1, InitEvents, PTL DEF Spec

\* Every reachable state of the stream is well typed: no more connections than
\* the cap, no queue longer than it may be.
THEOREM EventsTypeCorrect == Spec => []TypeOK
<1>1. EventsInv => TypeOK
  BY DEF EventsInv
<1> QED
  BY <1>1, EventsInvariance, PTL

\* However connections come and go, each hangs on the one watcher in the
\* table, which has not been stopped (subscribe, unsubscribe).
THEOREM EveryoneServed == Spec => []ServedByOne
<1>1. EventsInv => ServedByOne
  BY DEF EventsInv
<1> QED
  BY <1>1, EventsInvariance, PTL

\* Of what the watcher has noted nothing is missing from what a connection
\* shows in the end, if its snapshot is newer than the baseline (serve).
THEOREM NothingFallsBetween == Spec => []InStep
<1>1. EventsInv => InStep
  BY DEF EventsInv
<1> QED
  BY <1>1, EventsInvariance, PTL

\* No event is shown that was put after one the connection lost
\* (Subscriber.put, serve).
THEOREM NoGapShown == Spec => NoGap
<1>1. ASSUME EventsInv, [Next]_vars, NEW s \in Conns, at[s] = "getting", at'[s] = "open"
      PROVE  ~Head(queue[s])[3]
  <2>1. queue[s] # <<>>
    <3>1. at \in [Conns -> Attached \cup {"new", "refused", "left"}]
      BY <1>1 DEF EventsInv, TypeOK
    <3> QED
      BY <1>1, <3>1
      DEF Next, Change, Refuse, Join, First, Connection, Disconnect, Snapshot, Look, Get,
          FellBehind, Unsubscribe, PrimeFails, ReadMessages, ReadAll, Reads, Watcher, Prime,
          Tell, RoundOver, Goto, vars
  <2>2. queue[s] \in Seq(Things \X (1..MaxVersion) \X BOOLEAN)
    BY <1>1 DEF EventsInv, TypeOK
  <2>3. Head(queue[s]) = queue[s][1] /\ 1 \in DOMAIN queue[s]
    BY <2>1, <2>2
  <2> QED
    BY <1>1, <2>3 DEF EventsInv, LossInv
<1>2. EventsInv /\ [Next]_vars =>
        [\A s \in Conns : at[s] = "getting" /\ at'[s] = "open" => ~Head(queue[s])[3]]_vars
  BY <1>1
<1> QED
  BY <1>2, EventsInvariance, PTL DEF Spec, NoGap
=============================================================================
