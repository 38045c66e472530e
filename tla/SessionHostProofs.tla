------------------------- MODULE SessionHostProofs -------------------------
(***************************************************************************)
(* Theorems about SessionHost for any sessions, messages and bounds: which *)
(* process is written to, that what a restart holds is kept in order, and  *)
(* that a session is resumed once for each time it was cut off.            *)
(***************************************************************************)
EXTENDS SessionHost, FiniteSetTheorems, TLAPS

\* The release thread has a session to send to, a cut-off that it may have to
\* put back, or the first message held there.
RelInv ==
  /\ at[Release] \in {"idle", "sending", "awaiting", "sent", "peeking"}
  /\ at[Release] # "idle" => rel[1] \in Sessions
  /\ at[Release] \in {"sending", "awaiting"} /\ rel[2] = Note => rel[3] # "none"
  /\ at[Release] \in {"sending", "awaiting", "sent"} /\ rel[2] # Note =>
       held[rel[1]] # <<>> /\ rel[2] = held[rel[1]][1]

\* When an agent does not outlive its host: the process that runs for a session
\* is the one that is written to.
OneProcess ==
  ~Linger => \A s \in Sessions, n \in 1..procs : <<s, n>> \in alive => n = proc[s]

\* What is held is held once, for its own session; what its sender has not yet
\* begun to send was not written; and what the release thread has sent, it sent.
HeldInv ==
  /\ \A s \in Sessions : \A i \in DOMAIN held[s] :
       /\ at[held[s][i]] = "held" /\ To[held[s][i]] = s
       /\ \A j \in DOMAIN held[s] : held[s][j] = held[s][i] => j = i
  /\ \A m \in Msgs : at[m] = "new" => m \notin ToSet(log[To[m]])
  /\ at[Release] = "sent" /\ rel[2] # Note => rel[2] \in ToSet(log[rel[1]])

NotesOf(q) == {i \in DOMAIN q : q[i] = Note}
Notes(s) == NotesOf(log[s])

\* Whether the release thread has taken the session's cut-off and not yet sent
\* its note.
Taken(s) == at[Release] \in {"sending", "awaiting"} /\ rel[1] = s /\ rel[2] = Note

Owed(s) == (IF s \in due THEN 1 ELSE 0) + (IF Taken(s) THEN 1 ELSE 0)

\* The notes written to a session, the one that is due and the one under way
\* are no more than the times it was cut off.
ResumeInv == \A s \in Sessions : Cardinality(Notes(s)) + Owed(s) <= cuts[s]

HostInv ==
  /\ TypeOK /\ RelInv /\ OneProcess /\ CardOfItsProcess
  /\ HeldInv /\ HeldKept /\ ResumeInv

\* The part of it that the rest is built on.
BaseInv ==
  /\ ProcTypes /\ DueTypes /\ ThreadTypes /\ HistoryTypes /\ HostTypes
  /\ RelInv /\ OneProcess /\ CardOfItsProcess

-----------------------------------------------------------------------------
(* The base: types, the release thread's session, the process of a session *)

LEMMA InitBase == Init => BaseInv
<1> SUFFICES ASSUME Init PROVE BaseInv
  OBVIOUS
<1>1. /\ <<>> \in Seq(Msgs \cup {Note}) /\ <<>> \in Seq(Msgs)
      /\ 0 \in 0 .. MaxDeaths /\ 0 \in 0 .. MaxStops /\ 0 \in 0 .. MaxDrains /\ 0 \in 0 .. 0
  BY HostAssumption DEF HostAssumption
<1>2. ProcTypes
  BY <1>1 DEF Init, ProcTypes, LiveStates, Busy
<1>3. DueTypes /\ HistoryTypes /\ HostTypes
  BY <1>1 DEF Init, DueTypes, HistoryTypes, HostTypes, Cuts
<1>4. ThreadTypes
  BY DEF Init, ThreadTypes, Cuts
<1>5. RelInv
  BY DEF Init, RelInv
<1>6. OneProcess /\ CardOfItsProcess
  BY DEF Init, OneProcess, CardOfItsProcess
<1> QED
  BY <1>1, <1>2, <1>3, <1>4, <1>5, <1>6 DEF BaseInv

\* What a thread sends, and where.
LEMMA Targets ==
  ASSUME BaseInv, NEW t \in Msgs \cup {Release}, at[t] \in {"sending", "awaiting"}
  PROVE  /\ Target(t) \in Sessions /\ What(t) \in Msgs \cup {Note}
         /\ t # Release => What(t) = t /\ t \in Msgs /\ Target(t) = To[t]
         /\ t = Release => Target(t) = rel[1] /\ What(t) = rel[2]
<1>1. CASE t = Release
  BY <1>1 DEF BaseInv, ThreadTypes, RelInv, Target, What
<1>2. CASE t # Release
  BY <1>2, HostAssumption DEF Target, What, HostAssumption
<1> QED
  BY <1>1, <1>2

LEMMA HoldBase ==
  ASSUME BaseInv, NEW m \in Msgs, Hold(m)
  PROVE  BaseInv'
<1>1. m # Release /\ To[m] \in Sessions
  BY HostAssumption DEF HostAssumption
<1>2. UNCHANGED <<state, proc, alive, procs, leaving, card, inbox, queued, tasks, cut, due,
                  drain, host, todo, rel, log, cuts, deaths, stops, drains>>
  BY DEF Hold, Goto, procVars, relVars, budgets
<1>3. \/ at' = [at EXCEPT ![m] = "refused"] /\ held' = held
      \/ at' = [at EXCEPT ![m] = "held"] /\ held' = [held EXCEPT ![To[m]] = Append(@, m)]
  BY DEF Hold, Goto
<1>4. ThreadTypes' /\ at'[Release] = at[Release]
  BY <1>1, <1>2, <1>3 DEF BaseInv, ThreadTypes
<1>5. ASSUME NEW s \in Sessions
      PROVE  /\ held'[s] \in Seq(Msgs)
             /\ held[s] # <<>> => held'[s] # <<>> /\ held'[s][1] = held[s][1]
  <2>1. held[s] \in Seq(Msgs)
    BY DEF BaseInv, DueTypes
  <2>2. /\ Append(held[s], m) \in Seq(Msgs) /\ Append(held[s], m) # <<>>
        /\ held[s] # <<>> => Append(held[s], m)[1] = held[s][1]
    <3>1. /\ Len(held[s]) \in Nat /\ Append(held[s], m) \in Seq(Msgs)
          /\ Len(Append(held[s], m)) = Len(held[s]) + 1
          /\ \A i \in 1 .. Len(held[s]) : Append(held[s], m)[i] = held[s][i]
      BY <2>1
    <3>2. held[s] # <<>> => 1 \in 1 .. Len(held[s])
      BY <2>1
    <3>3. Append(held[s], m) # <<>>
      BY <3>1
    <3> QED
      BY <3>1, <3>2, <3>3
  <2>3. held'[s] = held[s] \/ held'[s] = Append(held[s], m)
    BY <1>3 DEF BaseInv, DueTypes
  <2> QED
    BY <2>1, <2>2, <2>3
<1>6. DOMAIN held' = Sessions /\ held' = [s \in Sessions |-> held'[s]]
  BY <1>3 DEF BaseInv, DueTypes
<1>7. DueTypes'
  BY <1>2, <1>5, <1>6 DEF BaseInv, DueTypes
<1>8. ProcTypes' /\ HistoryTypes' /\ HostTypes'
  BY <1>2 DEF BaseInv, ProcTypes, HistoryTypes, HostTypes
<1>9. RelInv'
  BY <1>2, <1>4, <1>5 DEF BaseInv, RelInv
<1>10. OneProcess' /\ CardOfItsProcess'
  BY <1>2 DEF BaseInv, OneProcess, CardOfItsProcess
<1> QED
  BY <1>4, <1>7, <1>8, <1>9, <1>10 DEF BaseInv

LEMMA NotDrainingBase ==
  ASSUME BaseInv, NEW m \in Msgs, NotDraining(m)
  PROVE  BaseInv'
<1>1. m # Release
  BY HostAssumption DEF HostAssumption
<1>2. UNCHANGED <<state, proc, alive, procs, leaving, card, inbox, queued, tasks, held, cut,
                  due, drain, host, todo, rel, log, cuts, deaths, stops, drains>>
  BY DEF NotDraining, procVars, dueVars, relVars, budgets
<1>3. at' = [at EXCEPT ![m] = "sending"]
  BY DEF NotDraining, Goto
<1>4. ThreadTypes' /\ at'[Release] = at[Release]
  BY <1>1, <1>2, <1>3 DEF BaseInv, ThreadTypes
<1>5. ProcTypes' /\ DueTypes' /\ HistoryTypes' /\ HostTypes'
  BY <1>2 DEF BaseInv, ProcTypes, DueTypes, HistoryTypes, HostTypes
<1>6. RelInv' /\ OneProcess' /\ CardOfItsProcess'
  BY <1>2, <1>4 DEF BaseInv, RelInv, OneProcess, CardOfItsProcess
<1> QED
  BY <1>4, <1>5, <1>6 DEF BaseInv

LEMMA RefusedBase ==
  ASSUME BaseInv, NEW t \in Msgs \cup {Release}, at[t] \in {"sending", "awaiting"}, Refused(t)
  PROVE  BaseInv'
<1>1. UNCHANGED <<state, proc, alive, procs, leaving, card, inbox, queued, tasks, held,
                  drain, host, todo, rel, log, cuts, deaths, stops, drains>>
  BY DEF Refused, procVars, relVars, budgets
<1>2. ProcTypes' /\ HistoryTypes' /\ HostTypes' /\ OneProcess' /\ CardOfItsProcess'
  BY <1>1 DEF BaseInv, ProcTypes, HistoryTypes, HostTypes, OneProcess, CardOfItsProcess
<1>3. at' = [at EXCEPT ![t] = IF t = Release THEN "idle" ELSE "refused"]
  BY DEF Refused, Goto
<1>4. ThreadTypes' /\ RelInv'
  BY <1>1, <1>3 DEF BaseInv, ThreadTypes, RelInv
<1>5. DueTypes'
  <2>1. CASE t = Release /\ rel[2] = Note
    <3>1. cut' = [cut EXCEPT ![rel[1]] = rel[3]] /\ due' = due \cup {rel[1]}
      BY <2>1 DEF Refused
    <3>2. rel[1] \in Sessions /\ rel[3] # "none" /\ rel[3] \in Cuts
      BY <2>1 DEF BaseInv, RelInv, ThreadTypes
    <3> QED
      BY <1>1, <3>1, <3>2 DEF BaseInv, DueTypes
  <2>2. CASE ~(t = Release /\ rel[2] = Note)
    <3>1. UNCHANGED <<cut, due>>
      BY <2>2 DEF Refused
    <3> QED
      BY <1>1, <3>1 DEF BaseInv, DueTypes
  <2> QED
    BY <2>1, <2>2
<1> QED
  BY <1>2, <1>4, <1>5 DEF BaseInv

LEMMA WriteBase ==
  ASSUME BaseInv, NEW t \in Msgs \cup {Release}, at[t] \in {"sending", "awaiting"},
         NEW s \in Sessions, s = Target(t), Write(t, s),
         UNCHANGED <<drain, host, relVars, cuts, stops, drains>>
  PROVE  BaseInv'
<1>1. What(t) \in Msgs \cup {Note}
  BY Targets
<1>2. UNCHANGED <<proc, alive, procs, leaving, queued, tasks, held, cut, due, drain, host,
                  todo, rel, cuts, deaths, stops, drains>>
  BY DEF Write, dueVars, relVars
<1>3. /\ log' = [log EXCEPT ![s] = Append(@, What(t))]
      /\ card' = [card EXCEPT ![s] = 0]
      /\ at' = [at EXCEPT ![t] = "sent"]
      /\ inbox' = [inbox EXCEPT ![s] = Append(@, What(t))]
      /\ state' = [state EXCEPT ![s] = IF @ = "approval" THEN "working" ELSE @]
  BY DEF Write, Written, Declined, Goto
<1>4. ProcTypes'
  <2>1. state' \in [Sessions -> LiveStates \cup {"parked", "closed", "ended"}]
    BY <1>3 DEF BaseInv, ProcTypes, LiveStates, Busy
  <2>2. inbox' \in [Sessions -> Seq(Msgs \cup {Note})]
    <3>1. inbox[s] \in Seq(Msgs \cup {Note}) /\ inbox \in [Sessions -> Seq(Msgs \cup {Note})]
      BY DEF BaseInv, ProcTypes
    <3>2. Append(inbox[s], What(t)) \in Seq(Msgs \cup {Note})
      BY <1>1, <3>1
    <3> QED
      BY <1>3, <3>1, <3>2
  <2>3. card' \in [Sessions -> 0 .. procs]
    BY <1>3 DEF BaseInv, ProcTypes
  <2> QED
    BY <1>2, <2>1, <2>2, <2>3 DEF BaseInv, ProcTypes
<1>5. HistoryTypes'
  <2>1. log[s] \in Seq(Msgs \cup {Note}) /\ log \in [Sessions -> Seq(Msgs \cup {Note})]
    BY DEF BaseInv, HistoryTypes
  <2>2. Append(log[s], What(t)) \in Seq(Msgs \cup {Note})
    BY <1>1, <2>1
  <2>3. log' \in [Sessions -> Seq(Msgs \cup {Note})]
    BY <1>3, <2>1, <2>2
  <2> QED
    BY <1>2, <2>3 DEF BaseInv, HistoryTypes
<1>6. ThreadTypes' /\ RelInv'
  BY <1>2, <1>3 DEF BaseInv, ThreadTypes, RelInv
<1>7. DueTypes' /\ HostTypes' /\ OneProcess'
  BY <1>2 DEF BaseInv, DueTypes, HostTypes, OneProcess
<1>8. CardOfItsProcess'
  BY <1>2, <1>3 DEF BaseInv, ProcTypes, CardOfItsProcess
<1> QED
  BY <1>4, <1>5, <1>6, <1>7, <1>8 DEF BaseInv

LEMMA TailOf ==
  ASSUME NEW E, NEW q \in Seq(E), q # <<>>
  PROVE  /\ Tail(q) \in Seq(E) /\ 1 \in DOMAIN q /\ Head(q) = q[1] /\ q[1] \in E
         /\ \A i \in DOMAIN Tail(q) :
              i + 1 \in DOMAIN q /\ i + 1 \in 2 .. Len(q) /\ Tail(q)[i] = q[i + 1]
<1>1. Len(q) \in Nat /\ Len(q) > 0 /\ DOMAIN q = 1 .. Len(q) /\ Head(q) = q[1] /\ q[1] \in E
  OBVIOUS
<1>2. /\ Tail(q) \in Seq(E) /\ DOMAIN Tail(q) = 1 .. Len(q) - 1
      /\ \A i \in 1 .. Len(q) - 1 : Tail(q)[i] = q[i + 1]
  BY <1>1
<1>3. \A i \in DOMAIN Tail(q) :
        i + 1 \in DOMAIN q /\ i + 1 \in 2 .. Len(q) /\ Tail(q)[i] = q[i + 1]
  BY <1>1, <1>2
<1> QED
  BY <1>1, <1>2, <1>3

\* The others are those of the tail, and are as different there.
LEMMA InTail ==
  ASSUME NEW E, NEW q \in Seq(E), q # <<>>
  PROVE  /\ \A i \in DOMAIN q : i # 1 => i - 1 \in DOMAIN Tail(q) /\ Tail(q)[i - 1] = q[i]
         /\ \A i, j \in DOMAIN Tail(q) : i + 1 = j + 1 => i = j
<1>1. /\ Len(q) \in Nat /\ Len(q) > 0 /\ DOMAIN q = 1 .. Len(q)
      /\ DOMAIN Tail(q) = 1 .. Len(q) - 1 /\ \A i \in 1 .. Len(q) - 1 : Tail(q)[i] = q[i + 1]
  OBVIOUS
<1>2. ASSUME NEW i \in DOMAIN q, i # 1
      PROVE  i - 1 \in DOMAIN Tail(q) /\ Tail(q)[i - 1] = q[i]
  <2>1. i \in Nat /\ i - 1 \in 1 .. Len(q) - 1 /\ (i - 1) + 1 = i
    BY <1>1, <1>2
  <2> QED
    BY <1>1, <2>1
<1>3. \A i, j \in DOMAIN Tail(q) : i + 1 = j + 1 => i = j
  BY <1>1
<1> QED
  BY <1>2, <1>3

LEMMA BreaksBase ==
  ASSUME BaseInv, NEW t \in Msgs \cup {Release}, at[t] \in {"sending", "awaiting"},
         NEW s \in Sessions, s = Target(t), Breaks(t, s),
         UNCHANGED <<drain, host, relVars, cuts, stops, drains>>
  PROVE  BaseInv'
<1>1. UNCHANGED <<state, proc, procs, leaving, card, inbox, queued, tasks, cut, due, log, drain,
                  host, todo, rel, cuts, stops, drains>>
  BY DEF Breaks, relVars
<1>2. /\ deaths < MaxDeaths /\ deaths' = deaths + 1
      /\ alive' = alive \ {<<s, proc[s]>>}
  BY DEF Breaks
<1>3. ProcTypes' /\ OneProcess' /\ CardOfItsProcess'
  BY <1>1, <1>2 DEF BaseInv, ProcTypes, OneProcess, CardOfItsProcess
<1>4. HostTypes'
  <2>1. deaths \in 0 .. MaxDeaths /\ MaxDeaths \in Nat
    BY HostAssumption DEF BaseInv, HostTypes, HostAssumption
  <2>2. deaths' \in 0 .. MaxDeaths
    BY <1>2, <2>1
  <2> QED
    BY <1>1, <2>2 DEF BaseInv, HostTypes
<1>5. HistoryTypes'
  BY <1>1 DEF BaseInv, HistoryTypes
<1>6. CASE t = Release /\ rel[2] # Note
  <2>1. /\ at' = [at EXCEPT ![Release] = "peeking", ![rel[2]] = "dropped"]
        /\ held' = [held EXCEPT ![s] = Tail(@)]
    BY <1>6 DEF Breaks
  <2>2. rel[2] \in Msgs /\ rel[2] # Release
    BY <1>6, HostAssumption DEF BaseInv, ThreadTypes, HostAssumption
  <2>3. ThreadTypes' /\ at'[Release] = "peeking"
    BY <1>1, <2>1, <2>2 DEF BaseInv, ThreadTypes
  <2>4. held[s] \in Seq(Msgs) /\ held[s] # <<>>
    BY <1>6, Targets DEF BaseInv, RelInv, DueTypes
  <2>5. Tail(held[s]) \in Seq(Msgs)
    BY <2>4, TailOf
  <2>6. DueTypes'
    BY <1>1, <2>1, <2>5 DEF BaseInv, DueTypes
  <2>7. RelInv'
    BY <1>1, <1>6, <2>3, Targets DEF RelInv
  <2> QED
    BY <1>3, <1>4, <1>5, <2>3, <2>6, <2>7 DEF BaseInv
<1>7. CASE ~(t = Release /\ rel[2] # Note)
  <2>1. /\ at' = [at EXCEPT ![t] = IF t = Release THEN "peeking" ELSE "refused"]
        /\ held' = held
    BY <1>7 DEF Breaks, Goto
  <2>2. ThreadTypes' /\ RelInv'
    BY <1>1, <2>1 DEF BaseInv, ThreadTypes, RelInv
  <2>3. DueTypes'
    BY <1>1, <2>1 DEF BaseInv, DueTypes
  <2> QED
    BY <1>3, <1>4, <1>5, <2>2, <2>3 DEF BaseInv
<1> QED
  BY <1>6, <1>7

LEMMA SpawnBase ==
  ASSUME BaseInv, NEW t \in Msgs \cup {Release}, at[t] \in {"sending", "awaiting"},
         NEW s \in Sessions, s = Target(t), ~Live(s), NEW victim, SpawnFor(t, s, victim),
         UNCHANGED <<drain, host, relVars, cuts, stops, drains>>
  PROVE  BaseInv'
<1>1. What(t) \in Msgs \cup {Note}
  BY Targets
<1>2. UNCHANGED <<held, drain, host, todo, rel, cuts, deaths, stops, drains>>
  BY DEF SpawnFor, relVars
<1>3. /\ procs' = procs + 1
      /\ proc' = [proc EXCEPT ![s] = procs + 1]
      /\ alive' = alive \cup {<<s, procs + 1>>}
      /\ card' = [card EXCEPT ![s] = 0]
  BY DEF SpawnFor, Written, Declined
<1>4. /\ leaving' = [x \in Sessions |->
           IF x = s THEN "no" ELSE IF x = victim THEN "parking" ELSE leaving[x]]
      /\ state' = [state EXCEPT ![s] = "starting"]
      /\ tasks' = tasks \ {s}
      /\ inbox' = [inbox EXCEPT ![s] = <<What(t)>>]
      /\ queued' = [queued EXCEPT ![s] = 0]
  BY DEF SpawnFor
<1>5. /\ log' = [log EXCEPT ![s] = Append(@, What(t))]
      /\ at' = [at EXCEPT ![t] = "sent"]
  BY DEF SpawnFor, Written, Goto
<1>6. /\ cut' = [cut EXCEPT ![s] = IF @ = "drain" THEN @ ELSE "none"]
      /\ due' = IF cut[s] = "drain" THEN due ELSE due \ {s}
  BY DEF SpawnFor
<1>7. ProcTypes'
  <2>1. /\ procs \in Nat /\ procs' \in Nat /\ proc' \in [Sessions -> 0 .. procs']
    BY <1>3 DEF BaseInv, ProcTypes
  <2>2. card' \in [Sessions -> 0 .. procs']
    <3>1. card \in [Sessions -> 0 .. procs] /\ procs \in Nat
      BY DEF BaseInv, ProcTypes
    <3> QED
      BY <1>3, <3>1
  <2>3. alive' \subseteq Sessions \X (1 .. procs')
    <3>1. alive \subseteq Sessions \X (1 .. procs) /\ procs \in Nat
      BY DEF BaseInv, ProcTypes
    <3>2. 1 .. procs \subseteq 1 .. procs' /\ procs + 1 \in 1 .. procs'
      BY <1>3, <3>1
    <3> QED
      BY <1>3, <3>1, <3>2
  <2>4. state' \in [Sessions -> LiveStates \cup {"parked", "closed", "ended"}]
    BY <1>4 DEF BaseInv, ProcTypes, LiveStates, Busy
  <2>5. leaving' \in [Sessions -> {"no", "parking", "closing"}]
    BY <1>4 DEF BaseInv, ProcTypes
  <2>6. inbox' \in [Sessions -> Seq(Msgs \cup {Note})]
    <3>1. <<What(t)>> \in Seq(Msgs \cup {Note})
      BY <1>1
    <3> QED
      BY <1>4, <3>1 DEF BaseInv, ProcTypes
  <2>7. queued' \in [Sessions -> Nat] /\ tasks' \subseteq Sessions
    BY <1>4 DEF BaseInv, ProcTypes
  <2> QED
    BY <2>1, <2>2, <2>3, <2>4, <2>5, <2>6, <2>7 DEF ProcTypes
<1>8. HistoryTypes'
  <2>1. log[s] \in Seq(Msgs \cup {Note}) /\ log \in [Sessions -> Seq(Msgs \cup {Note})]
    BY DEF BaseInv, HistoryTypes
  <2>2. Append(log[s], What(t)) \in Seq(Msgs \cup {Note})
    BY <1>1, <2>1
  <2>3. log' \in [Sessions -> Seq(Msgs \cup {Note})]
    BY <1>5, <2>1, <2>2
  <2> QED
    BY <1>2, <2>3 DEF BaseInv, HistoryTypes
<1>9. ThreadTypes' /\ RelInv'
  BY <1>2, <1>5 DEF BaseInv, ThreadTypes, RelInv
<1>10. DueTypes'
  BY <1>2, <1>6 DEF BaseInv, DueTypes, Cuts
<1>11. HostTypes'
  BY <1>2 DEF BaseInv, HostTypes
<1>12. OneProcess'
  <2> SUFFICES ASSUME ~Linger, NEW x \in Sessions, NEW n \in 1 .. procs', <<x, n>> \in alive'
               PROVE  n = proc'[x]
    BY DEF OneProcess
  <2>1. proc'[x] = IF x = s THEN procs + 1 ELSE proc[x]
    BY <1>3 DEF BaseInv, ProcTypes
  <2>2. CASE <<x, n>> \in alive
    <3>1. n \in 1 .. procs
      BY <2>2 DEF BaseInv, ProcTypes
    <3>2. n = proc[x]
      BY <2>2, <3>1 DEF BaseInv, OneProcess
    <3> QED
      BY <2>1, <2>2, <3>2 DEF Live
  <2>3. CASE <<x, n>> \notin alive
    BY <1>3, <2>1, <2>3
  <2> QED
    BY <2>2, <2>3
<1>13. CardOfItsProcess'
  BY <1>3 DEF BaseInv, ProcTypes, CardOfItsProcess
<1> QED
  BY <1>7, <1>8, <1>9, <1>10, <1>11, <1>12, <1>13 DEF BaseInv

\* What a thread does is refuse, wait, or write: to the process that is there,
\* which may end first, or to a new one.
LEMMA ThreadDoes ==
  ASSUME BaseInv, NEW t \in Msgs \cup {Release}, Thread(t)
  PROVE  /\ at[t] \in {"sending", "awaiting"} /\ Up /\ Target(t) \in Sessions
         /\ \/ Refused(t)
            \/ /\ at' = [at EXCEPT ![t] = "awaiting"]
               /\ UNCHANGED <<procVars, dueVars, drain, host, relVars, log, cuts, budgets>>
            \/ /\ proc[Target(t)] = 0 \/ leaving[Target(t)] = "no"
               /\ UNCHANGED <<drain, host, relVars, cuts, stops, drains>>
               /\ \/ Write(t, Target(t))
                  \/ Breaks(t, Target(t))
                  \/ ~Live(Target(t)) /\ \E x \in Sessions \cup {NoSession} :
                       x # Target(t) /\ SpawnFor(t, Target(t), x)
<1>1. at[t] \in {"sending", "awaiting"} /\ Up
  BY DEF Thread, Send, Gone, StillThere
<1>2. Target(t) \in Sessions
  BY <1>1, Targets
<1>3. ASSUME Post(t, Target(t)), proc[Target(t)] = 0 \/ leaving[Target(t)] = "no"
      PROVE  \/ Refused(t)
             \/ /\ proc[Target(t)] = 0 \/ leaving[Target(t)] = "no"
                /\ UNCHANGED <<drain, host, relVars, cuts, stops, drains>>
                /\ \/ Write(t, Target(t))
                   \/ Breaks(t, Target(t))
                   \/ ~Live(Target(t)) /\ \E x \in Sessions \cup {NoSession} :
                        x # Target(t) /\ SpawnFor(t, Target(t), x)
  <2>1. Target(t) # NoSession
    BY <1>2, HostAssumption DEF HostAssumption
  <2>2. Spawn(t, Target(t)) => ~Live(Target(t)) /\ \E x \in Sessions \cup {NoSession} :
                                 x # Target(t) /\ SpawnFor(t, Target(t), x)
    BY <2>1 DEF Spawn, Others
  <2> QED
    BY <1>3, <2>2 DEF Post
<1>4. CASE Send(t)
  <2>1. CASE Kept(t)
    BY <1>1, <1>2, <1>4, <2>1 DEF Send
  <2>2. CASE ~Kept(t) /\ Awaited(Target(t))
    BY <1>1, <1>2, <1>4, <2>2 DEF Send, Goto
  <2>3. CASE ~Kept(t) /\ ~Awaited(Target(t))
    <3>1. Post(t, Target(t))
      BY <1>4, <2>3 DEF Send
    <3>2. proc[Target(t)] = 0 \/ leaving[Target(t)] = "no"
      BY <2>3 DEF Awaited
    <3> QED
      BY <1>1, <1>2, <1>3, <3>1, <3>2
  <2> QED
    BY <2>1, <2>2, <2>3
<1>5. CASE Gone(t)
  BY <1>1, <1>2, <1>3, <1>5 DEF Gone
<1>6. CASE StillThere(t)
  BY <1>1, <1>2, <1>6 DEF StillThere
<1> QED
  BY <1>4, <1>5, <1>6 DEF Thread

LEMMA ThreadBase ==
  ASSUME BaseInv, NEW t \in Msgs \cup {Release}, Thread(t)
  PROVE  BaseInv'
<1> DEFINE s == Target(t)
<1>1. at[t] \in {"sending", "awaiting"} /\ s \in Sessions
  BY ThreadDoes
<1>2. CASE Refused(t)
  BY <1>1, <1>2, RefusedBase
<1>3. CASE /\ at' = [at EXCEPT ![t] = "awaiting"]
           /\ UNCHANGED <<procVars, dueVars, drain, host, relVars, log, cuts, budgets>>
  <2>1. UNCHANGED <<state, proc, alive, procs, leaving, card, inbox, queued, tasks, held, cut,
                    due, drain, host, todo, rel, log, cuts, deaths, stops, drains>>
    BY <1>3 DEF procVars, dueVars, relVars, budgets
  <2>2. ThreadTypes' /\ RelInv'
    BY <1>1, <1>3, <2>1 DEF BaseInv, ThreadTypes, RelInv
  <2>3. ProcTypes' /\ DueTypes' /\ HistoryTypes' /\ HostTypes'
    BY <2>1 DEF BaseInv, ProcTypes, DueTypes, HistoryTypes, HostTypes
  <2>4. OneProcess' /\ CardOfItsProcess'
    BY <2>1 DEF BaseInv, OneProcess, CardOfItsProcess
  <2> QED
    BY <2>2, <2>3, <2>4 DEF BaseInv
<1>4. CASE /\ UNCHANGED <<drain, host, relVars, cuts, stops, drains>>
           /\ Write(t, s)
  BY <1>1, <1>4, WriteBase
<1>5. CASE /\ UNCHANGED <<drain, host, relVars, cuts, stops, drains>>
           /\ Breaks(t, s)
  BY <1>1, <1>5, BreaksBase
<1>6. CASE /\ UNCHANGED <<drain, host, relVars, cuts, stops, drains>>
           /\ ~Live(s) /\ \E x \in Sessions \cup {NoSession} : SpawnFor(t, s, x)
  BY <1>1, <1>6, SpawnBase
<1> HIDE DEF s
<1>7. \/ Refused(t)
      \/ /\ at' = [at EXCEPT ![t] = "awaiting"]
         /\ UNCHANGED <<procVars, dueVars, drain, host, relVars, log, cuts, budgets>>
      \/ /\ UNCHANGED <<drain, host, relVars, cuts, stops, drains>>
         /\ \/ Write(t, s)
            \/ Breaks(t, s)
            \/ ~Live(s) /\ \E x \in Sessions \cup {NoSession} : SpawnFor(t, s, x)
  BY ThreadDoes DEF s
<1> QED
  BY <1>2, <1>3, <1>4, <1>5, <1>6, <1>7

LEMMA RoundBase == ASSUME BaseInv, Round PROVE BaseInv'
<1>1. /\ UNCHANGED <<state, proc, alive, procs, leaving, card, inbox, queued, tasks, held, cut,
                     due, drain, host, at, rel, log, cuts, deaths, stops, drains>>
      /\ todo' = due \cup {s \in Sessions : held[s] # <<>>}
  BY DEF Round, DueOrHeld, procVars, dueVars, budgets
<1>2. ThreadTypes'
  BY <1>1 DEF BaseInv, ThreadTypes, DueTypes
<1>3. ProcTypes' /\ DueTypes' /\ HistoryTypes' /\ HostTypes'
  BY <1>1 DEF BaseInv, ProcTypes, DueTypes, HistoryTypes, HostTypes
<1>4. RelInv' /\ OneProcess' /\ CardOfItsProcess'
  BY <1>1 DEF BaseInv, RelInv, OneProcess, CardOfItsProcess
<1> QED
  BY <1>2, <1>3, <1>4 DEF BaseInv

LEMMA TakeBase ==
  ASSUME BaseInv, NEW s \in Sessions, Take(s)
  PROVE  BaseInv'
<1>1. UNCHANGED <<state, proc, alive, procs, leaving, card, inbox, queued, tasks, held,
                  drain, host, log, cuts, deaths, stops, drains>>
  BY DEF Take, procVars, budgets
<1>2. /\ todo' = todo \ {s} /\ rel' = <<s, Note, cut[s]>>
      /\ at' = [at EXCEPT ![Release] = IF s \in due THEN "sending" ELSE "peeking"]
      /\ cut' = [cut EXCEPT ![s] = IF s \in due THEN "none" ELSE @]
      /\ due' = {x \in due : cut'[x] # "none"}
  BY DEF Take, Releases, Goto, Cleared
<1>3. cut[s] \in Cuts /\ (s \in due => cut[s] # "none")
  BY DEF BaseInv, DueTypes
<1>4. ThreadTypes'
  <2>1. rel' \in (Sessions \cup {NoSession}) \X (Msgs \cup {Note}) \X Cuts
    BY <1>2, <1>3
  <2> QED
    BY <1>2, <2>1 DEF BaseInv, ThreadTypes
<1>5. DueTypes'
  BY <1>1, <1>2 DEF BaseInv, DueTypes, Cuts
<1>6. RelInv'
  BY <1>1, <1>2, <1>3 DEF BaseInv, ThreadTypes, RelInv
<1>7. ProcTypes' /\ HistoryTypes' /\ HostTypes' /\ OneProcess' /\ CardOfItsProcess'
  BY <1>1 DEF BaseInv, ProcTypes, HistoryTypes, HostTypes, OneProcess, CardOfItsProcess
<1> QED
  BY <1>4, <1>5, <1>6, <1>7 DEF BaseInv

LEMMA PeekBase ==
  ASSUME BaseInv, NoteSent \/ Peek
  PROVE  BaseInv'
<1>1. UNCHANGED <<state, proc, alive, procs, leaving, card, inbox, queued, tasks, held, cut,
                  due, drain, host, todo, log, cuts, deaths, stops, drains>>
  BY DEF NoteSent, Peek, procVars, dueVars, relVars, budgets
<1>2. ProcTypes' /\ DueTypes' /\ HistoryTypes' /\ HostTypes' /\ OneProcess' /\ CardOfItsProcess'
  BY <1>1 DEF BaseInv, ProcTypes, DueTypes, HistoryTypes, HostTypes, OneProcess, CardOfItsProcess
<1>3. CASE NoteSent \/ held[rel[1]] = <<>>
  <2>1. /\ rel' = rel /\ at[Release] \in {"sent", "peeking"}
        /\ at' = [at EXCEPT ![Release] = "peeking"] \/ at' = [at EXCEPT ![Release] = "idle"]
    BY <1>3 DEF NoteSent, Peek, Releases, Goto, relVars
  <2>2. ThreadTypes' /\ RelInv'
    BY <1>1, <2>1 DEF BaseInv, ThreadTypes, RelInv
  <2> QED
    BY <1>2, <2>2 DEF BaseInv
<1>4. CASE Peek /\ held[rel[1]] # <<>>
  <2>1. /\ at[Release] = "peeking" /\ at' = [at EXCEPT ![Release] = "sending"]
        /\ rel' = <<rel[1], Head(held[rel[1]]), "none">>
    BY <1>4 DEF Peek, Releases, Goto
  <2>2. rel[1] \in Sessions /\ held[rel[1]] \in Seq(Msgs)
    BY <2>1 DEF BaseInv, RelInv, DueTypes
  <2>3. Head(held[rel[1]]) = held[rel[1]][1] /\ held[rel[1]][1] \in Msgs
    BY <1>4, <2>2, TailOf
  <2>4. rel'[1] = rel[1] /\ rel'[2] = held[rel[1]][1] /\ rel'[2] # Note
    BY <2>1, <2>3, HostAssumption DEF HostAssumption
  <2>5. ThreadTypes'
    BY <1>1, <2>1, <2>2, <2>3 DEF BaseInv, ThreadTypes, Cuts
  <2>6. at'[Release] = "sending"
    BY <2>1 DEF BaseInv, ThreadTypes
  <2>7. RelInv'
    BY <1>1, <1>4, <2>2, <2>4, <2>6 DEF RelInv
  <2> QED
    BY <1>2, <2>5, <2>7 DEF BaseInv
<1> QED
  BY <1>3, <1>4

LEMMA PopBase ==
  ASSUME BaseInv, Pop
  PROVE  BaseInv'
<1>1. UNCHANGED <<state, proc, alive, procs, leaving, card, inbox, queued, tasks, cut, due, drain,
                  host, todo, rel, log, cuts, deaths, stops, drains>>
  BY DEF Pop, procVars, relVars, budgets
<1>2. /\ at[Release] = "sent" /\ at' = [at EXCEPT ![Release] = "peeking"] /\ rel[2] # Note
      /\ held' = [held EXCEPT ![rel[1]] = Tail(@)]
  BY DEF Pop, Releases, Goto, Popped
<1>3. rel[1] \in Sessions /\ held[rel[1]] \in Seq(Msgs) /\ held[rel[1]] # <<>>
  BY <1>2 DEF BaseInv, RelInv, DueTypes
<1>4. Tail(held[rel[1]]) \in Seq(Msgs)
  BY <1>3, TailOf
<1>5. DueTypes'
  BY <1>1, <1>2, <1>4 DEF BaseInv, DueTypes
<1>6. ThreadTypes' /\ RelInv'
  BY <1>1, <1>2, <1>3 DEF BaseInv, ThreadTypes, RelInv
<1>7. ProcTypes' /\ HistoryTypes' /\ HostTypes' /\ OneProcess' /\ CardOfItsProcess'
  BY <1>1 DEF BaseInv, ProcTypes, HistoryTypes, HostTypes, OneProcess, CardOfItsProcess
<1> QED
  BY <1>5, <1>6, <1>7 DEF BaseInv

\* What an agent, or somebody at its session, does leaves the threads, what is
\* held and what was written alone.
LEMMA AgentLeaves ==
  ASSUME NEW s \in Sessions,
         Agent(s) \/ Answer(s) \/ Park(s) \/ Close(s) \/ ParkIdle(s)
  PROVE  UNCHANGED <<procs, held, drain, host, at, todo, rel, log, stops, drains>>
<1>1. CASE Queues(s) \/ Turn(s) \/ Ask(s) \/ TaskStarts(s) \/ TaskEnds(s) \/ Result(s)
  BY <1>1 DEF Queues, Turn, Ask, TaskStarts, TaskEnds, Result, Process, relVars, budgets
<1>2. CASE Exit(s) \/ OrphanEnds(s) \/ OnExit(s)
  BY <1>2 DEF Exit, OrphanEnds, OnExit, dueVars, relVars, budgets
<1>3. CASE Answer(s) \/ Park(s) \/ Close(s) \/ ParkIdle(s)
  BY <1>3 DEF Answer, Park, Close, ParkIdle, Operation, dueVars, relVars, budgets
<1> QED
  BY <1>1, <1>2, <1>3 DEF Agent

LEMMA AgentBase ==
  ASSUME BaseInv, NEW s \in Sessions,
         Agent(s) \/ Answer(s) \/ Park(s) \/ Close(s) \/ ParkIdle(s)
  PROVE  BaseInv'
<1>1. UNCHANGED <<procs, held, drain, host, at, todo, rel, log, stops, drains>>
  BY AgentLeaves
<1>2. ThreadTypes' /\ RelInv'
  BY <1>1 DEF BaseInv, ThreadTypes, RelInv
<1>3. CASE Queues(s)
  <2>1. /\ UNCHANGED <<state, proc, alive, leaving, card, inbox, tasks, cut, due, cuts, deaths>>
        /\ queued' = [queued EXCEPT ![s] = @ + 1]
    BY <1>3 DEF Queues, Process, budgets
  <2>2. ProcTypes'
    <3>1. queued \in [Sessions -> Nat]
      BY DEF BaseInv, ProcTypes
    <3>2. queued' \in [Sessions -> Nat]
      BY <2>1, <3>1
    <3> QED
      BY <1>1, <2>1, <3>2 DEF BaseInv, ProcTypes
  <2>3. DueTypes' /\ HistoryTypes' /\ HostTypes' /\ OneProcess' /\ CardOfItsProcess'
    BY <1>1, <2>1 DEF BaseInv, DueTypes, HistoryTypes, HostTypes, OneProcess, CardOfItsProcess
  <2> QED
    BY <1>2, <2>2, <2>3 DEF BaseInv
<1>4. CASE Turn(s)
  <2>1. UNCHANGED <<proc, alive, leaving, card, tasks, cut, due, cuts, deaths>>
    BY <1>4 DEF Turn, Process, budgets
  <2>2. /\ inbox[s] # <<>> /\ state' = [state EXCEPT ![s] = "working"]
        /\ inbox' = [inbox EXCEPT ![s] = Tail(@)]
        /\ queued' = [queued EXCEPT ![s] = IF @ = 0 THEN 0 ELSE @ - 1]
    BY <1>4 DEF Turn, Begun
  <2>3. inbox' \in [Sessions -> Seq(Msgs \cup {Note})]
    <3>1. inbox[s] \in Seq(Msgs \cup {Note}) /\ inbox \in [Sessions -> Seq(Msgs \cup {Note})]
      BY DEF BaseInv, ProcTypes
    <3>2. Tail(inbox[s]) \in Seq(Msgs \cup {Note})
      BY <2>2, <3>1, TailOf
    <3> QED
      BY <2>2, <3>1, <3>2
  <2>4. state' \in [Sessions -> LiveStates \cup {"parked", "closed", "ended"}]
    BY <2>2 DEF BaseInv, ProcTypes, LiveStates, Busy
  <2>5. queued' \in [Sessions -> Nat]
    BY <2>2 DEF BaseInv, ProcTypes
  <2>6. ProcTypes'
    BY <1>1, <2>1, <2>3, <2>4, <2>5 DEF BaseInv, ProcTypes
  <2>7. DueTypes' /\ HistoryTypes' /\ HostTypes' /\ OneProcess' /\ CardOfItsProcess'
    BY <1>1, <2>1 DEF BaseInv, DueTypes, HistoryTypes, HostTypes, OneProcess, CardOfItsProcess
  <2> QED
    BY <1>2, <2>6, <2>7 DEF BaseInv
<1>5. CASE Ask(s)
  <2>1. UNCHANGED <<proc, alive, leaving, inbox, queued, tasks, cut, due, cuts, deaths>>
    BY <1>5 DEF Ask, Process, budgets
  <2>2. /\ card' = [card EXCEPT ![s] = proc[s]]
        /\ state' = [state EXCEPT ![s] = "approval"]
    BY <1>5 DEF Ask
  <2>3. ProcTypes'
    BY <1>1, <2>1, <2>2 DEF BaseInv, ProcTypes, LiveStates, Busy
  <2>4. CardOfItsProcess'
    BY <2>1, <2>2 DEF BaseInv, ProcTypes, CardOfItsProcess
  <2>5. DueTypes' /\ HistoryTypes' /\ HostTypes' /\ OneProcess'
    BY <1>1, <2>1 DEF BaseInv, DueTypes, HistoryTypes, HostTypes, OneProcess
  <2> QED
    BY <1>2, <2>3, <2>4, <2>5 DEF BaseInv
<1>6. CASE TaskStarts(s) \/ TaskEnds(s)
  <2>1. /\ UNCHANGED <<proc, alive, leaving, card, inbox, queued, cut, due, cuts, deaths>>
        /\ state' = state \/ state' = [state EXCEPT ![s] = "working"]
        /\ tasks' \subseteq tasks \cup {s}
    BY <1>6 DEF TaskStarts, TaskEnds, Process, budgets
  <2>2. ProcTypes'
    BY <1>1, <2>1 DEF BaseInv, ProcTypes, LiveStates, Busy
  <2>3. DueTypes' /\ HistoryTypes' /\ HostTypes' /\ OneProcess' /\ CardOfItsProcess'
    BY <1>1, <2>1 DEF BaseInv, DueTypes, HistoryTypes, HostTypes, OneProcess, CardOfItsProcess
  <2> QED
    BY <1>2, <2>2, <2>3 DEF BaseInv
<1>7. CASE Result(s)
  <2>1. UNCHANGED <<proc, alive, leaving, card, inbox, queued, tasks, deaths>>
    BY <1>7 DEF Result, Process, budgets
  <2>2. state' = [state EXCEPT ![s] = "waiting"]
    BY <1>7 DEF Result
  <2>3. \/ UNCHANGED <<cut, due, cuts>>
        \/ /\ cut' = [cut EXCEPT ![s] = "drain"] /\ due' = due \cup {s}
           /\ cuts' = [cuts EXCEPT ![s] = @ + 1]
    BY <1>7 DEF Result
  <2>4. ProcTypes'
    BY <1>1, <2>1, <2>2 DEF BaseInv, ProcTypes, LiveStates, Busy
  <2>5. DueTypes'
    BY <1>1, <2>3 DEF BaseInv, DueTypes, Cuts
  <2>6. HistoryTypes'
    <3>1. cuts \in [Sessions -> Nat] /\ cuts[s] + 1 \in Nat
      BY DEF BaseInv, HistoryTypes
    <3>2. cuts' \in [Sessions -> Nat]
      BY <2>3, <3>1
    <3> QED
      BY <1>1, <3>2 DEF BaseInv, HistoryTypes
  <2>7. HostTypes' /\ OneProcess' /\ CardOfItsProcess'
    BY <1>1, <2>1 DEF BaseInv, HostTypes, OneProcess, CardOfItsProcess
  <2> QED
    BY <1>2, <2>4, <2>5, <2>6, <2>7 DEF BaseInv
<1>8. CASE Exit(s) \/ OrphanEnds(s)
  <2>1. UNCHANGED <<state, proc, leaving, card, inbox, queued, tasks, cut, due, cuts>>
    BY <1>8 DEF Exit, OrphanEnds, dueVars
  <2>2. alive' \subseteq alive
    <3>1. Exit(s) => alive' = alive \ {<<s, proc[s]>>}
      BY DEF Exit
    <3>2. OrphanEnds(s) => \E n \in 1 .. procs : alive' = alive \ {<<s, n>>}
      BY DEF OrphanEnds
    <3> QED
      BY <1>8, <3>1, <3>2
  <2>3. deaths' = deaths \/ (deaths < MaxDeaths /\ deaths' = deaths + 1)
    <3>1. Exit(s) => UNCHANGED deaths \/ (deaths < MaxDeaths /\ deaths' = deaths + 1)
      BY DEF Exit
    <3>2. OrphanEnds(s) => UNCHANGED deaths
      BY DEF OrphanEnds, budgets
    <3> QED
      BY <1>8, <3>1, <3>2
  <2>4. ProcTypes'
    BY <1>1, <2>1, <2>2 DEF BaseInv, ProcTypes
  <2>5. HostTypes'
    <3>1. deaths \in 0 .. MaxDeaths /\ MaxDeaths \in Nat
      BY HostAssumption DEF BaseInv, HostTypes, HostAssumption
    <3>2. deaths' \in 0 .. MaxDeaths
      BY <2>3, <3>1
    <3> QED
      BY <1>1, <3>2 DEF BaseInv, HostTypes
  <2>6. DueTypes' /\ HistoryTypes' /\ OneProcess' /\ CardOfItsProcess'
    BY <1>1, <2>1, <2>2 DEF BaseInv, DueTypes, HistoryTypes, OneProcess, CardOfItsProcess
  <2> QED
    BY <1>2, <2>4, <2>5, <2>6 DEF BaseInv
<1>9. CASE OnExit(s)
  <2>1. /\ UNCHANGED <<alive, leaving, due, cuts, deaths>>
        /\ ~Live(s)
    BY <1>9 DEF OnExit, budgets
  <2>2. /\ proc' = [proc EXCEPT ![s] = 0] /\ card' = [card EXCEPT ![s] = 0]
        /\ inbox' = [inbox EXCEPT ![s] = <<>>] /\ queued' = [queued EXCEPT ![s] = 0]
        /\ tasks' = tasks \ {s}
    BY <1>9 DEF OnExit
  <2>3. state' = [state EXCEPT ![s] = IF leaving[s] = "closing" THEN "closed"
                                      ELSE IF leaving[s] = "parking" THEN "parked" ELSE "ended"]
    BY <1>9 DEF OnExit
  <2>4. \/ cut' = cut
        \/ cut' = [cut EXCEPT ![s] = "exit"]
    BY <1>9 DEF OnExit, BaseInv, DueTypes
  <2>5. ProcTypes'
    <3>1. state' \in [Sessions -> LiveStates \cup {"parked", "closed", "ended"}]
      BY <2>3 DEF BaseInv, ProcTypes
    <3>2. <<>> \in Seq(Msgs \cup {Note})
      OBVIOUS
    <3>3. inbox' \in [Sessions -> Seq(Msgs \cup {Note})] /\ queued' \in [Sessions -> Nat]
      BY <2>2, <3>2 DEF BaseInv, ProcTypes
    <3>4. proc' \in [Sessions -> 0 .. procs] /\ card' \in [Sessions -> 0 .. procs]
      BY <2>2 DEF BaseInv, ProcTypes
    <3> QED
      BY <1>1, <2>1, <2>2, <3>1, <3>3, <3>4 DEF BaseInv, ProcTypes
  <2>6. DueTypes'
    BY <1>1, <2>1, <2>4 DEF BaseInv, DueTypes, Cuts
  <2>7. OneProcess' /\ CardOfItsProcess'
    BY <1>1, <2>1, <2>2 DEF BaseInv, ProcTypes, OneProcess, CardOfItsProcess, Live
  <2>8. HistoryTypes' /\ HostTypes'
    BY <1>1, <2>1 DEF BaseInv, HistoryTypes, HostTypes
  <2> QED
    BY <1>2, <2>5, <2>6, <2>7, <2>8 DEF BaseInv
<1>10. CASE Answer(s) \/ Park(s) \/ Close(s) \/ ParkIdle(s)
  <2>1. UNCHANGED <<proc, alive, inbox, queued, tasks, cut, due, cuts, deaths>>
    BY <1>10 DEF Answer, Park, Close, ParkIdle, Operation, dueVars, budgets
  <2>2. card' = card \/ card' = [card EXCEPT ![s] = 0]
    BY <1>10 DEF Answer, Park, Close, ParkIdle
  <2>3. /\ \/ state' = state \/ state' = [state EXCEPT ![s] = "closed"]
           \/ state' = [state EXCEPT ![s] = IF @ = "approval" THEN "working" ELSE @]
        /\ \/ leaving' = leaving \/ leaving' = [leaving EXCEPT ![s] = "closing"]
           \/ leaving' = [leaving EXCEPT ![s] = IF @ = "closing" THEN @ ELSE "parking"]
           \/ leaving' = [leaving EXCEPT ![s] = "parking"]
    BY <1>10 DEF Answer, Park, Close, ParkIdle
  <2>4. ProcTypes'
    <3>1. state' \in [Sessions -> LiveStates \cup {"parked", "closed", "ended"}]
      <4>1. /\ state \in [Sessions -> LiveStates \cup {"parked", "closed", "ended"}]
            /\ "working" \in LiveStates
        BY DEF BaseInv, ProcTypes, LiveStates, Busy
      <4> QED
        BY <2>3, <4>1
    <3>2. leaving' \in [Sessions -> {"no", "parking", "closing"}]
      <4>1. leaving \in [Sessions -> {"no", "parking", "closing"}]
        BY DEF BaseInv, ProcTypes
      <4> QED
        BY <2>3, <4>1
    <3>3. card' \in [Sessions -> 0 .. procs]
      <4>1. card \in [Sessions -> 0 .. procs] /\ 0 \in 0 .. procs
        BY DEF BaseInv, ProcTypes
      <4> QED
        BY <2>2, <4>1
    <3> QED
      BY <1>1, <2>1, <3>1, <3>2, <3>3 DEF BaseInv, ProcTypes
  <2>5. CardOfItsProcess'
    BY <2>1, <2>2 DEF BaseInv, ProcTypes, CardOfItsProcess
  <2>6. DueTypes' /\ HistoryTypes' /\ HostTypes' /\ OneProcess'
    BY <1>1, <2>1 DEF BaseInv, DueTypes, HistoryTypes, HostTypes, OneProcess
  <2> QED
    BY <1>2, <2>4, <2>5, <2>6 DEF BaseInv
<1> QED
  BY <1>3, <1>4, <1>5, <1>6, <1>7, <1>8, <1>9, <1>10 DEF Agent

LEMMA DrainBase == ASSUME BaseInv, DrainChanges PROVE BaseInv'
<1>1. UNCHANGED <<state, proc, alive, procs, leaving, card, inbox, queued, tasks, held, cut,
                  due, host, at, todo, rel, log, cuts, deaths, stops>>
  BY DEF DrainChanges, procVars, dueVars, relVars
<1>2. drain' = ~drain /\ drains' \in {drains, drains + 1} /\ drains' <= MaxDrains
  BY DEF DrainChanges
<1>3. HostTypes'
  <2>1. drains' \in 0 .. MaxDrains
    <3>1. drains \in 0 .. MaxDrains /\ MaxDrains \in Nat
      BY HostAssumption DEF BaseInv, HostTypes, HostAssumption
    <3> QED
      BY <1>2, <3>1
  <2> QED
    BY <1>1, <1>2, <2>1 DEF BaseInv, HostTypes
<1>4. ProcTypes' /\ DueTypes' /\ HistoryTypes' /\ ThreadTypes'
  BY <1>1 DEF BaseInv, ProcTypes, DueTypes, HistoryTypes, ThreadTypes
<1>5. RelInv' /\ OneProcess' /\ CardOfItsProcess'
  BY <1>1 DEF BaseInv, RelInv, OneProcess, CardOfItsProcess
<1> QED
  BY <1>3, <1>4, <1>5 DEF BaseInv

LEMMA StopBase == ASSUME BaseInv, BeginStop \/ Shutdown PROVE BaseInv'
<1>1. UNCHANGED <<state, proc, alive, procs, card, inbox, queued, tasks, held, drain, at,
                  todo, rel, log, cuts, deaths, drains>>
  BY DEF BeginStop, Shutdown, Noted, relVars
<1>2. /\ cut' = [s \in Sessions |->
           IF Live(s) /\ cut[s] \in {"none", "drain"} /\ Work(s) THEN "restart" ELSE cut[s]]
      /\ due' = {s \in due : cut'[s] = cut[s]}
  BY DEF BeginStop, Shutdown, Noted
<1>3. DueTypes'
  BY <1>1, <1>2 DEF BaseInv, DueTypes, Cuts
<1>4. HostTypes'
  <2>1. stops \in 0 .. MaxStops /\ MaxStops \in Nat
    BY HostAssumption DEF BaseInv, HostTypes, HostAssumption
  <2>2. BeginStop => host' = "stopping" /\ stops < MaxStops /\ stops' = stops + 1
    BY DEF BeginStop
  <2>3. Shutdown => host' = "parking" /\ stops' = stops
    BY DEF Shutdown
  <2>4. host' \in {"stopping", "parking"} /\ stops' \in 0 .. MaxStops
    BY <2>1, <2>2, <2>3
  <2> QED
    BY <1>1, <2>4 DEF BaseInv, HostTypes
<1>5. ProcTypes'
  <2>1. leaving \in [Sessions -> {"no", "parking", "closing"}]
    BY DEF BaseInv, ProcTypes
  <2>2. \/ leaving' = leaving
        \/ leaving' = [s \in Sessions |->
             IF Live(s) /\ leaving[s] = "no" THEN "parking" ELSE leaving[s]]
    BY DEF BeginStop, Shutdown
  <2>3. leaving' \in [Sessions -> {"no", "parking", "closing"}]
    BY <2>1, <2>2
  <2> QED
    BY <1>1, <2>3 DEF BaseInv, ProcTypes
<1>6. HistoryTypes' /\ ThreadTypes' /\ RelInv' /\ OneProcess' /\ CardOfItsProcess'
  BY <1>1 DEF BaseInv, HistoryTypes, ThreadTypes, RelInv, OneProcess, CardOfItsProcess
<1> QED
  BY <1>3, <1>4, <1>5, <1>6 DEF BaseInv

LEMMA HaltBase == ASSUME BaseInv, Stopped \/ Crash PROVE BaseInv'
<1>1. /\ UNCHANGED <<procs, held, due, drain, log, cuts, deaths, drains>>
      /\ alive' \subseteq alive /\ (~Linger => alive' = {})
  BY DEF Stopped, Crash, Halt
<1>2. /\ proc' = [s \in Sessions |-> 0] /\ leaving' = [s \in Sessions |-> "no"]
      /\ card' = [s \in Sessions |-> 0] /\ inbox' = [s \in Sessions |-> <<>>]
      /\ queued' = [s \in Sessions |-> 0] /\ tasks' = {}
      /\ state' = [s \in Sessions |-> IF state[s] \in LiveStates THEN "ended" ELSE state[s]]
  BY DEF Stopped, Crash, Halt
<1>3. /\ at' = [t \in DOMAIN at |->
           IF t = Release THEN "idle"
           ELSE IF at[t] \in {"sending", "awaiting"} THEN "refused" ELSE at[t]]
      /\ todo' = {} /\ rel' = <<NoSession, Note, "none">>
  BY DEF Stopped, Crash, Halt
<1>4. PICK stale \in SUBSET Sessions :
        cut' = [s \in Sessions |-> IF s \in LeftAtWork(stale) THEN "crash" ELSE cut[s]]
  BY DEF Stopped, Crash, Halt
<1>5. DueTypes'
  BY <1>1, <1>4 DEF BaseInv, DueTypes, Cuts
<1>6. ProcTypes'
  <2>1. <<>> \in Seq(Msgs \cup {Note}) /\ procs \in Nat
    BY DEF BaseInv, ProcTypes
  <2>2. inbox' \in [Sessions -> Seq(Msgs \cup {Note})]
    BY <1>2, <2>1
  <2>3. /\ proc' \in [Sessions -> 0 .. procs] /\ card' \in [Sessions -> 0 .. procs]
        /\ queued' \in [Sessions -> Nat]
    BY <1>2, <2>1
  <2>4. state' \in [Sessions -> LiveStates \cup {"parked", "closed", "ended"}]
    BY <1>2 DEF BaseInv, ProcTypes
  <2>5. leaving' \in [Sessions -> {"no", "parking", "closing"}]
    BY <1>2
  <2> QED
    BY <1>1, <1>2, <2>2, <2>3, <2>4, <2>5 DEF BaseInv, ProcTypes
<1>7. ThreadTypes'
  <2>1. rel' \in (Sessions \cup {NoSession}) \X (Msgs \cup {Note}) \X Cuts
    BY <1>3 DEF Cuts
  <2> QED
    BY <1>3, <2>1 DEF BaseInv, ThreadTypes
<1>8. RelInv'
  BY <1>3 DEF BaseInv, ThreadTypes, RelInv
<1>9. HostTypes'
  <2>1. stops \in 0 .. MaxStops /\ MaxStops \in Nat
    BY HostAssumption DEF BaseInv, HostTypes, HostAssumption
  <2>2. Stopped => host' = "down" /\ stops' = stops
    BY DEF Stopped, Halt
  <2>3. Crash => host' = "down" /\ stops < MaxStops /\ stops' = stops + 1
    BY DEF Crash, Halt
  <2>4. host' = "down" /\ stops' \in 0 .. MaxStops
    BY <2>1, <2>2, <2>3
  <2> QED
    BY <1>1, <2>4 DEF BaseInv, HostTypes
<1>10. OneProcess' /\ CardOfItsProcess'
  BY <1>1, <1>2 DEF OneProcess, CardOfItsProcess
<1>11. HistoryTypes'
  BY <1>1 DEF BaseInv, HistoryTypes
<1> QED
  BY <1>5, <1>6, <1>7, <1>8, <1>9, <1>10, <1>11 DEF BaseInv

LEMMA LoadBase == ASSUME BaseInv, Load PROVE BaseInv'
<1>1. /\ UNCHANGED <<state, proc, alive, procs, leaving, card, inbox, queued, tasks, held, at,
                     todo, rel, log, deaths, stops, drains>>
      /\ host' = "up" /\ drain' \in {drain, FALSE}
  BY DEF Load, procVars, relVars, budgets
<1>2. PICK raced \in SUBSET {s \in Sessions : cut[s] = "exit"} :
        /\ due' = due \cup raced \cup {s \in Sessions : cut[s] \in {"restart", "crash"}}
        /\ cut' = [s \in Sessions |-> IF s \in due' THEN cut[s] ELSE "none"]
        /\ cuts' = [s \in Sessions |-> IF s \in due' \ due THEN cuts[s] + 1 ELSE cuts[s]]
  BY DEF Load
<1>3. DueTypes'
  <2>1. cut' \in [Sessions -> Cuts]
    BY <1>2 DEF BaseInv, DueTypes, Cuts
  <2>2. \A s \in due' : s \in Sessions /\ cut[s] # "none"
    BY <1>2 DEF BaseInv, DueTypes
  <2>3. \A s \in due' : s \in Sessions /\ cut'[s] # "none"
    BY <1>2, <2>2
  <2> QED
    BY <1>1, <2>1, <2>3 DEF BaseInv, DueTypes
<1>4. HistoryTypes'
  BY <1>1, <1>2 DEF BaseInv, HistoryTypes
<1>5. HostTypes'
  BY <1>1 DEF BaseInv, HostTypes
<1>6. ProcTypes' /\ ThreadTypes' /\ RelInv' /\ OneProcess' /\ CardOfItsProcess'
  BY <1>1 DEF BaseInv, ProcTypes, ThreadTypes, RelInv, OneProcess, CardOfItsProcess
<1> QED
  BY <1>3, <1>4, <1>5, <1>6 DEF BaseInv

LEMMA StutterBase == ASSUME BaseInv, UNCHANGED vars PROVE BaseInv'
<1>1. UNCHANGED <<state, proc, alive, procs, leaving, card, inbox, queued, tasks, held, cut, due,
                  drain, host, at, todo, rel, log, cuts, deaths, stops, drains>>
  BY DEF vars, procVars, dueVars, relVars, budgets
<1>2. ProcTypes' /\ DueTypes'
  BY <1>1 DEF BaseInv, ProcTypes, DueTypes
<1>3. ThreadTypes' /\ HistoryTypes' /\ HostTypes'
  BY <1>1 DEF BaseInv, ThreadTypes, HistoryTypes, HostTypes
<1>4. RelInv' /\ OneProcess' /\ CardOfItsProcess'
  BY <1>1 DEF BaseInv, RelInv, OneProcess, CardOfItsProcess
<1> QED
  BY <1>2, <1>3, <1>4 DEF BaseInv

LEMMA BaseStep == BaseInv /\ [Next]_vars => BaseInv'
<1> SUFFICES ASSUME BaseInv, [Next]_vars PROVE BaseInv'
  OBVIOUS
<1>1. ASSUME NEW m \in Msgs, Hold(m) \/ NotDraining(m) PROVE BaseInv'
  BY <1>1, HoldBase, NotDrainingBase
<1>2. ASSUME NEW t \in Msgs \cup {Release}, Thread(t) PROVE BaseInv'
  BY <1>2, ThreadBase
<1>3. CASE Delivery
  BY <1>3, RoundBase, TakeBase, PeekBase, PopBase DEF Delivery
<1>4. ASSUME NEW s \in Sessions, Agent(s) \/ Answer(s) \/ Park(s) \/ Close(s) \/ ParkIdle(s)
      PROVE  BaseInv'
  BY <1>4, AgentBase
<1>5. CASE DrainChanges \/ BeginStop \/ Shutdown \/ Stopped \/ Crash \/ Load
  BY <1>5, DrainBase, StopBase, HaltBase, LoadBase
<1>6. CASE UNCHANGED vars
  BY <1>6, StutterBase
<1> QED
  BY <1>1, <1>2, <1>3, <1>4, <1>5, <1>6 DEF Next

-----------------------------------------------------------------------------
(* What holds of the base *)

\* The types, the release thread's session and the processes stay as BaseInv
\* says.
THEOREM HostBase == Spec => []BaseInv
BY InitBase, BaseStep, PTL DEF Spec

\* Every variable keeps its type; whatever is due to be resumed was cut off.
THEOREM HostIsTyped == Spec => []TypeOK
<1>1. BaseInv => TypeOK
  BY DEF BaseInv, TypeOK
<1> QED
  BY <1>1, HostBase, PTL

\* A card is one the session's present process put up, however often that died
\* and was started again.
THEOREM CardIsItsOwn == Spec => []CardOfItsProcess
<1>1. BaseInv => CardOfItsProcess
  BY DEF BaseInv
<1> QED
  BY <1>1, HostBase, PTL

\* When no agent outlives its host, what is written to a session goes to a
\* process that is to stay and is the only one it has: _await_exit and the lock
\* leave no second writer.
THEOREM OneReader == ASSUME ~Linger PROVE Spec => SoleReader
<1> DEFINE Sole == \A s \in Sessions : log'[s] # log[s] =>
                     Running(s)' /\ \A n \in 1 .. procs' : <<s, n>> \in alive' => n = proc'[s]
<1>1. BaseInv /\ [Next]_vars => [Sole]_vars
  <2> SUFFICES ASSUME BaseInv, Next, NEW s \in Sessions, log'[s] # log[s]
               PROVE  Running(s)' /\ \A n \in 1 .. procs' : <<s, n>> \in alive' => n = proc'[s]
    OBVIOUS
  <2>1. BaseInv'
    BY BaseStep
  <2>2. \A n \in 1 .. procs' : <<s, n>> \in alive' => n = proc'[s]
    BY <2>1 DEF BaseInv, OneProcess
  <2>3. ASSUME NEW t \in Msgs \cup {Release}, Thread(t)
        PROVE  Running(s)'
    <3> DEFINE u == Target(t)
    <3>1. ~Refused(t) /\ log' # log
      BY DEF Refused
    <3>2. /\ u \in Sessions /\ (proc[u] = 0 \/ leaving[u] = "no")
          /\ \/ Write(t, u) \/ Breaks(t, u)
             \/ ~Live(u) /\ \E x \in Sessions \cup {NoSession} : x # u /\ SpawnFor(t, u, x)
      BY <2>3, <3>1, ThreadDoes
    <3> HIDE DEF u
    <3>3. CASE Write(t, u)
      <4>1. /\ log' = [log EXCEPT ![u] = Append(@, What(t))] /\ Live(u)
            /\ UNCHANGED <<proc, alive, leaving>>
        BY <3>3 DEF Write, Written
      <4>2. s = u
        BY <4>1 DEF BaseInv, HistoryTypes
      <4>3. proc[u] # 0
        BY <3>2, <4>1 DEF Live, BaseInv, ProcTypes
      <4> QED
        BY <3>2, <4>1, <4>2, <4>3 DEF Running, Live
    <3>4. CASE Breaks(t, u)
      BY <3>1, <3>4 DEF Breaks
    <3>5. ASSUME NEW x \in Sessions \cup {NoSession}, x # u, SpawnFor(t, u, x)
          PROVE  Running(s)'
      <4>1. /\ log' = [log EXCEPT ![u] = Append(@, What(t))]
            /\ proc' = [proc EXCEPT ![u] = procs + 1]
            /\ alive' = alive \cup {<<u, procs + 1>>}
            /\ leaving' = [y \in Sessions |->
                 IF y = u THEN "no" ELSE IF y = x THEN "parking" ELSE leaving[y]]
        BY <3>5 DEF SpawnFor, Written
      <4>2. s = u
        BY <4>1 DEF BaseInv, HistoryTypes
      <4>3. proc'[s] = procs + 1 /\ leaving'[s] = "no"
        BY <3>2, <4>1, <4>2 DEF BaseInv, ProcTypes
      <4> QED
        BY <4>1, <4>2, <4>3 DEF Running, Live
    <3> QED
      BY <3>2, <3>3, <3>4, <3>5
  <2>4. ASSUME NEW m \in Msgs, Hold(m) \/ NotDraining(m) PROVE log' = log
    BY <2>4 DEF Hold, NotDraining
  <2>5. CASE Delivery
    BY <2>5 DEF Delivery, Round, Take, NoteSent, Peek, Pop
  <2>6. ASSUME NEW x \in Sessions, Agent(x) \/ Answer(x) \/ Park(x) \/ Close(x) \/ ParkIdle(x)
        PROVE  log' = log
    BY <2>6, AgentLeaves
  <2>7. CASE DrainChanges \/ BeginStop \/ Shutdown \/ Stopped \/ Crash \/ Load
    BY <2>7 DEF DrainChanges, BeginStop, Shutdown, Stopped, Crash, Load, Noted, Halt
  <2> QED
    BY <2>2, <2>3, <2>4, <2>5, <2>6, <2>7 DEF Next
<1> QED
  BY <1>1, HostBase, PTL DEF Spec, SoleReader

-----------------------------------------------------------------------------
(* What is held *)

\* What a write appends to the session's history.
LEMMA Logged ==
  ASSUME NEW E, NEW q \in Seq(E), NEW e \in E
  PROVE  ToSet(Append(q, e)) = ToSet(q) \cup {e}
<1>1. /\ Len(q) \in Nat /\ DOMAIN q = 1 .. Len(q) /\ DOMAIN Append(q, e) = 1 .. Len(q) + 1
      /\ \A i \in 1 .. Len(q) : Append(q, e)[i] = q[i]
      /\ Append(q, e)[Len(q) + 1] = e
  OBVIOUS
<1> QED
  BY <1>1 DEF ToSet

\* The same, and by whom: what HeldInv and HeldKept say of what is held.
QueueInv == HeldInv /\ HeldKept

LEMMA InitQueue == Init => QueueInv
<1> SUFFICES ASSUME Init PROVE QueueInv
  OBVIOUS
<1>1. \A s \in Sessions : /\ held[s] = <<>> /\ log[s] = <<>> /\ ToSet(log[s]) = {}
  BY DEF Init, ToSet
<1>2. \A m \in Msgs : at[m] = "new" \/ at[m] = "idle"
  BY DEF Init
<1>3. \A m \in Msgs : To[m] \in Sessions
  BY HostAssumption DEF HostAssumption
<1>4. at[Release] = "idle"
  BY DEF Init
<1>5. HeldInv
  BY <1>1, <1>3, <1>4 DEF HeldInv
<1>6. HeldKept
  BY <1>1, <1>2 DEF HeldKept
<1> QED
  BY <1>5, <1>6 DEF QueueInv

\* What is held, as one formula: the message, where it is and what is behind it.
LEMMA HeldFacts ==
  ASSUME BaseInv, QueueInv, NEW s \in Sessions
  PROVE  /\ held[s] \in Seq(Msgs) /\ log[s] \in Seq(Msgs \cup {Note})
         /\ DOMAIN held[s] = 1 .. Len(held[s]) /\ Len(held[s]) \in Nat
         /\ \A i \in DOMAIN held[s] :
              /\ held[s][i] \in Msgs /\ at[held[s][i]] = "held" /\ To[held[s][i]] = s
              /\ i # 1 => held[s][i] \notin ToSet(log[s])
         /\ \A i, j \in DOMAIN held[s] : held[s][j] = held[s][i] => j = i
<1>1. /\ held[s] \in Seq(Msgs) /\ log[s] \in Seq(Msgs \cup {Note})
  BY DEF BaseInv, DueTypes, HistoryTypes
<1>2. DOMAIN held[s] = 1 .. Len(held[s]) /\ Len(held[s]) \in Nat
  BY <1>1
<1>3. /\ \A i \in DOMAIN held[s] :
           held[s][i] \in Msgs /\ at[held[s][i]] = "held" /\ To[held[s][i]] = s
      /\ \A i, j \in DOMAIN held[s] : held[s][j] = held[s][i] => j = i
  BY <1>1, <1>2 DEF QueueInv, HeldInv
<1>4. \A i \in DOMAIN held[s] : i # 1 => held[s][i] \notin ToSet(log[s])
  BY <1>2 DEF QueueInv, HeldKept
<1> QED
  BY <1>1, <1>2, <1>3, <1>4

\* Nothing of it changes while what is held, what was written and where the
\* senders of what is held are do not, and no sender is new that was not.
LEMMA QueueStays ==
  ASSUME BaseInv, QueueInv, UNCHANGED <<held, log>>,
         \A m \in Msgs : at[m] = "held" <=> at'[m] = "held",
         \A m \in Msgs : at'[m] = "new" => at[m] = "new",
         at'[Release] = "sent" => at[Release] = "sent" /\ rel' = rel
  PROVE  QueueInv'
<1>1. \A s \in Sessions : \A i \in DOMAIN held[s] : at'[held[s][i]] = "held"
  BY HeldFacts
<1>2. HeldInv'
  BY <1>1 DEF QueueInv, HeldInv
<1>3. HeldKept'
  BY DEF QueueInv, HeldKept
<1> QED
  BY <1>2, <1>3 DEF QueueInv

LEMMA HoldQueue ==
  ASSUME BaseInv, QueueInv, NEW m \in Msgs, Hold(m)
  PROVE  QueueInv'
<1> DEFINE u == To[m]
<1>1. /\ at[m] = "new" /\ m # Release /\ u \in Sessions /\ UNCHANGED <<log, rel>>
  BY HostAssumption DEF Hold, relVars, HostAssumption
<1>2. CASE at' = [at EXCEPT ![m] = "refused"] /\ held' = held
  <2>1. \A x \in Msgs \cup {Release} : at'[x] = IF x = m THEN "refused" ELSE at[x]
    BY <1>2 DEF BaseInv, ThreadTypes
  <2> QED
    BY <1>1, <1>2, <2>1, QueueStays
<1>3. CASE at' = [at EXCEPT ![m] = "held"] /\ held' = [held EXCEPT ![u] = Append(@, m)]
  <2> DEFINE q == held[u]
  <2>1. /\ \A x \in Msgs \cup {Release} : at'[x] = IF x = m THEN "held" ELSE at[x]
        /\ \A s \in Sessions : held'[s] = IF s = u THEN Append(q, m) ELSE held[s]
    BY <1>1, <1>3 DEF BaseInv, ThreadTypes, DueTypes
  <2>2. /\ q \in Seq(Msgs) /\ DOMAIN q = 1 .. Len(q) /\ Len(q) \in Nat
        /\ \A i \in DOMAIN q : q[i] \in Msgs /\ q[i] # m
    BY <1>1, HeldFacts
  <2>3. /\ DOMAIN Append(q, m) = 1 .. Len(q) + 1 /\ Len(Append(q, m)) = Len(q) + 1
        /\ \A i \in 1 .. Len(q) : Append(q, m)[i] = q[i]
        /\ Append(q, m)[Len(q) + 1] = m
    BY <2>2
  <2>4. m \notin ToSet(log[u]) /\ ToSet(Append(q, m)) = ToSet(q) \cup {m}
    BY <1>1, <2>2, Logged DEF QueueInv, HeldInv
  <2>5. \A i \in DOMAIN Append(q, m) : i \in DOMAIN q \/ (i = Len(q) + 1 /\ i \notin DOMAIN q)
    BY <2>2, <2>3
  <2> HIDE DEF q
  <2>6. ASSUME NEW s \in Sessions, NEW i \in DOMAIN held'[s]
        PROVE  /\ at'[held'[s][i]] = "held" /\ To[held'[s][i]] = s
               /\ \A j \in DOMAIN held'[s] : held'[s][j] = held'[s][i] => j = i
               /\ i # 1 => held'[s][i] \notin ToSet(log[s])
    <3>1. CASE s # u
      <4>1. \A j \in DOMAIN held[s] : held[s][j] \in Msgs /\ held[s][j] # m
        BY <1>1, HeldFacts
      <4> QED
        BY <2>1, <3>1, <4>1, HeldFacts
    <3>2. CASE s = u
      <4>1. /\ held'[s] = Append(q, m)
            /\ \A j \in DOMAIN q : /\ at[q[j]] = "held" /\ To[q[j]] = s
                                   /\ j # 1 => q[j] \notin ToSet(log[s])
            /\ \A j, k \in DOMAIN q : q[j] = q[k] => j = k
        <5>1. held'[s] = Append(q, m) /\ q = held[s]
          BY <2>1, <3>2 DEF q
        <5> QED
          BY <5>1, HeldFacts
      <4>2. CASE i \in DOMAIN q
        <5>1. /\ held'[s][i] = q[i] /\ q[i] \in Msgs /\ q[i] # m
          BY <2>2, <2>3, <4>1, <4>2
        <5>2. \A j \in DOMAIN held'[s] : held'[s][j] = held'[s][i] => j = i
          BY <2>2, <2>3, <2>5, <4>1, <4>2, <5>1
        <5> QED
          BY <2>1, <4>1, <4>2, <5>1, <5>2
      <4>3. CASE i = Len(q) + 1
        <5>1. held'[s][i] = m
          BY <2>3, <4>1, <4>3
        <5>2. \A j \in DOMAIN held'[s] : held'[s][j] = held'[s][i] => j = i
          BY <2>2, <2>3, <2>5, <4>1, <4>3, <5>1
        <5> QED
          BY <2>1, <2>4, <3>2, <5>1, <5>2
      <4> QED
        BY <2>5, <4>1, <4>2, <4>3
    <3> QED
      BY <3>1, <3>2
  <2>7. HeldInv'
    <3>1. \A x \in Msgs : at'[x] = "new" => x \notin ToSet(log'[To[x]])
      BY <1>1, <2>1 DEF QueueInv, HeldInv
    <3>2. at'[Release] = "sent" /\ rel'[2] # Note => rel'[2] \in ToSet(log'[rel'[1]])
      BY <1>1, <2>1 DEF QueueInv, HeldInv
    <3> QED
      BY <2>6, <3>1, <3>2 DEF HeldInv
  <2>8. HeldKept'
    <3>1. ASSUME NEW x \in Msgs, at'[x] = "held"
          PROVE  x \in ToSet(held'[To[x]]) \cup ToSet(log'[To[x]])
      <4>1. To[x] \in Sessions
        BY HostAssumption DEF HostAssumption
      <4>2. CASE x = m
        <5>1. held'[To[x]] = Append(q, m)
          BY <1>1, <2>1, <4>2
        <5> QED
          BY <2>4, <4>2, <5>1
      <4>3. CASE x # m
        <5>1. x \in ToSet(held[To[x]]) \cup ToSet(log[To[x]])
          BY <2>1, <3>1, <4>3 DEF QueueInv, HeldKept
        <5>2. ToSet(held[To[x]]) \subseteq ToSet(held'[To[x]])
          <6>1. CASE To[x] = u
            <7>1. held'[To[x]] = Append(q, m) /\ held[To[x]] = q
              BY <2>1, <4>1, <6>1 DEF q
            <7> QED
              BY <2>4, <7>1
          <6>2. CASE To[x] # u
            BY <2>1, <4>1, <6>2
          <6> QED
            BY <6>1, <6>2
        <5> QED
          BY <1>1, <5>1, <5>2
      <4> QED
        BY <4>2, <4>3
    <3>2. ASSUME NEW s \in Sessions, NEW i \in 2 .. Len(held'[s])
          PROVE  held'[s][i] \notin ToSet(log'[s])
      <4>1. i \in DOMAIN held'[s] /\ i # 1
        <5>1. held'[s] \in Seq(Msgs)
          BY HoldBase DEF BaseInv, DueTypes
        <5> QED
          BY <3>2, <5>1
      <4> QED
        BY <1>1, <2>6, <4>1
    <3> QED
      BY <3>1, <3>2 DEF HeldKept
  <2> QED
    BY <2>7, <2>8 DEF QueueInv
<1>4. \/ at' = [at EXCEPT ![m] = "refused"] /\ held' = held
      \/ at' = [at EXCEPT ![m] = "held"] /\ held' = [held EXCEPT ![u] = Append(@, m)]
  BY DEF Hold, Goto
<1> QED
  BY <1>2, <1>3, <1>4

\* The first message goes: it was written, or the process it was written to
\* ended under it.
LEMMA FirstGoes ==
  ASSUME BaseInv, QueueInv, BaseInv', NEW s \in Sessions, held[s] # <<>>,
         held' = [held EXCEPT ![s] = Tail(@)], log' = log, at'[Release] = "peeking",
         \A m \in Msgs : m # held[s][1] => at'[m] = at[m],
         \/ at'[held[s][1]] = "dropped"
         \/ at'[held[s][1]] = at[held[s][1]] /\ held[s][1] \in ToSet(log[s])
  PROVE  QueueInv'
<1> DEFINE q == held[s]
<1>1. /\ q \in Seq(Msgs) /\ q # <<>>
      /\ \A i \in DOMAIN q : /\ q[i] \in Msgs /\ at[q[i]] = "held" /\ To[q[i]] = s
                             /\ i # 1 => q[i] \notin ToSet(log[s])
      /\ \A i, j \in DOMAIN q : q[j] = q[i] => j = i
  BY HeldFacts
<1>2. \A x \in Sessions : held'[x] = IF x = s THEN Tail(q) ELSE held[x]
  BY DEF BaseInv, DueTypes
<1>3. /\ 1 \in DOMAIN q
      /\ \A i \in DOMAIN Tail(q) : i + 1 \in DOMAIN q /\ i + 1 # 1 /\ Tail(q)[i] = q[i + 1]
      /\ \A i \in DOMAIN q : i # 1 => i - 1 \in DOMAIN Tail(q) /\ Tail(q)[i - 1] = q[i]
      /\ \A i, j \in DOMAIN Tail(q) : i + 1 = j + 1 => i = j
  <2>1. \A i \in DOMAIN Tail(q) : i + 1 \in 2 .. Len(q) => i + 1 # 1
    BY <1>1
  <2> QED
    BY <1>1, <2>1, TailOf, InTail
<1>4. at[q[1]] = "held" /\ q[1] \in Msgs /\ To[q[1]] = s
  BY <1>1, <1>3
<1> HIDE DEF q
<1>5. ASSUME NEW x \in Sessions, NEW i \in DOMAIN held'[x]
      PROVE  /\ at'[held'[x][i]] = "held" /\ To[held'[x][i]] = x
             /\ \A j \in DOMAIN held'[x] : held'[x][j] = held'[x][i] => j = i
             /\ held'[x][i] \in ToSet(held[x])
             /\ x = s \/ i # 1 => held'[x][i] \notin ToSet(log'[x])
  <2>1. CASE x = s
    <3>1. /\ i \in DOMAIN Tail(q) /\ i + 1 \in DOMAIN q /\ i + 1 # 1
          /\ held'[x][i] = q[i + 1] /\ held'[x] = Tail(q)
      BY <1>2, <1>3, <1>5, <2>1
    <3>2. /\ at[q[i + 1]] = "held" /\ To[q[i + 1]] = s /\ q[i + 1] \notin ToSet(log[s])
          /\ q[i + 1] # q[1] /\ q[i + 1] \in Msgs
      BY <1>1, <1>3, <3>1
    <3>3. ASSUME NEW j \in DOMAIN held'[x], held'[x][j] = held'[x][i] PROVE j = i
      <4>1. j \in DOMAIN Tail(q) /\ j + 1 \in DOMAIN q /\ q[j + 1] = q[i + 1]
        BY <1>3, <3>1, <3>3
      <4>2. j + 1 = i + 1
        BY <1>1, <3>1, <4>1
      <4> QED
        BY <1>3, <3>1, <4>1, <4>2
    <3>4. at'[q[i + 1]] = "held"
      BY <3>2 DEF q
    <3>5. q[i + 1] \in ToSet(held[x])
      BY <2>1, <3>1 DEF ToSet, q
    <3> QED
      BY <2>1, <3>1, <3>2, <3>3, <3>4, <3>5
  <2>2. CASE x # s
    <3>1. /\ held'[x] = held[x] /\ at[held[x][i]] = "held" /\ To[held[x][i]] = x
          /\ held[x][i] \in Msgs
          /\ i # 1 => held[x][i] \notin ToSet(log[x])
          /\ \A j \in DOMAIN held[x] : held[x][j] = held[x][i] => j = i
      BY <1>2, <2>2, HeldFacts
    <3>2. held[x][i] # q[1]
      BY <1>4, <2>2, <3>1
    <3>3. at'[held[x][i]] = "held"
      BY <3>1, <3>2 DEF q
    <3>4. held[x][i] \in ToSet(held[x])
      BY <3>1 DEF ToSet
    <3> QED
      BY <2>2, <3>1, <3>3, <3>4
  <2> QED
    BY <2>1, <2>2
<1>6. HeldInv'
  <2>1. \A m \in Msgs : at'[m] = "new" => at[m] = "new"
    BY <1>4 DEF q
  <2>2. \A m \in Msgs : at'[m] = "new" => m \notin ToSet(log'[To[m]])
    BY <2>1 DEF QueueInv, HeldInv
  <2> QED
    BY <1>5, <2>2 DEF HeldInv
<1>7. HeldKept'
  <2>1. ASSUME NEW m \in Msgs, at'[m] = "held"
        PROVE  m \in ToSet(held'[To[m]]) \cup ToSet(log'[To[m]])
    <3>1. To[m] \in Sessions /\ at[m] = "held"
      BY <1>4, <2>1, HostAssumption DEF HostAssumption, q
    <3>2. m \in ToSet(held[To[m]]) \cup ToSet(log[To[m]])
      BY <3>1 DEF QueueInv, HeldKept
    <3>3. CASE m = q[1]
      BY <1>4, <2>1, <3>3 DEF q
    <3>4. CASE m \in ToSet(q) /\ m # q[1] /\ To[m] = s
      <4>1. PICK i \in DOMAIN q : q[i] = m
        BY <3>4 DEF ToSet
      <4>2. i # 1
        BY <3>4, <4>1
      <4>3. i - 1 \in DOMAIN Tail(q) /\ Tail(q)[i - 1] = m
        BY <1>3, <4>1, <4>2
      <4>4. m \in ToSet(Tail(q))
        BY <4>3 DEF ToSet
      <4> QED
        BY <1>2, <3>1, <3>4, <4>4
    <3>5. CASE To[m] # s
      BY <1>2, <3>1, <3>2, <3>5
    <3> QED
      BY <3>2, <3>3, <3>4, <3>5 DEF q
  <2>2. ASSUME NEW x \in Sessions, NEW i \in 2 .. Len(held'[x])
        PROVE  held'[x][i] \notin ToSet(log'[x])
    <3>1. i \in DOMAIN held'[x] /\ i # 1
      <4>1. held'[x] \in Seq(Msgs)
        BY DEF BaseInv, DueTypes
      <4> QED
        BY <2>2, <4>1
    <3> QED
      BY <1>5, <3>1
  <2> QED
    BY <2>1, <2>2 DEF HeldKept
<1> QED
  BY <1>6, <1>7 DEF QueueInv

\* A write is of a message that its own thread sends, which is not held, or of
\* the first one held.
LEMMA WriteQueue ==
  ASSUME BaseInv, QueueInv, NEW t \in Msgs \cup {Release}, at[t] \in {"sending", "awaiting"},
         log' = [log EXCEPT ![Target(t)] = Append(@, What(t))],
         at' = [at EXCEPT ![t] = "sent"], UNCHANGED <<held, rel>>
  PROVE  QueueInv'
<1> DEFINE s == Target(t)
           w == What(t)
<1>1. /\ s \in Sessions /\ w \in Msgs \cup {Note}
      /\ t # Release => w = t /\ t \in Msgs /\ s = To[t]
      /\ t = Release => s = rel[1] /\ w = rel[2]
  BY Targets
<1>2. /\ w \in Msgs => at[w] # "new"
      /\ t = Release /\ w # Note => held[s] # <<>> /\ w = held[s][1]
  <2>1. CASE t = Release /\ w # Note
    <3>1. held[s] # <<>> /\ w = held[s][1]
      BY <1>1, <2>1 DEF BaseInv, RelInv
    <3>2. held[s] \in Seq(Msgs)
      BY <1>1 DEF BaseInv, DueTypes
    <3>3. 1 \in DOMAIN held[s]
      BY <3>1, <3>2
    <3>4. at[w] = "held"
      BY <1>1, <3>1, <3>3, HeldFacts
    <3> QED
      BY <3>1, <3>4
  <2>2. CASE t # Release
    BY <1>1, <2>2
  <2>3. CASE w = Note
    BY <2>3, HostAssumption DEF HostAssumption
  <2> QED
    BY <2>1, <2>2, <2>3
<1>3. /\ \A x \in Sessions : ToSet(log'[x]) = ToSet(log[x]) \cup (IF x = s THEN {w} ELSE {})
  <2>1. \A x \in Sessions : log'[x] = IF x = s THEN Append(log[x], w) ELSE log[x]
    BY DEF BaseInv, HistoryTypes
  <2>2. log[s] \in Seq(Msgs \cup {Note})
    BY <1>1 DEF BaseInv, HistoryTypes
  <2>3. ToSet(Append(log[s], w)) = ToSet(log[s]) \cup {w}
    BY <1>1, <2>2, Logged
  <2> QED
    BY <2>1, <2>3
<1>4. /\ \A x \in Msgs \cup {Release} : at'[x] = IF x = t THEN "sent" ELSE at[x]
      /\ \A x \in Msgs : To[x] \in Sessions
  BY HostAssumption DEF BaseInv, ThreadTypes, HostAssumption
<1> HIDE DEF s, w
<1>5. \A x \in Sessions : \A i \in DOMAIN held[x] :
        /\ held[x][i] \in Msgs /\ at[held[x][i]] = "held" /\ held[x][i] # t
        /\ i # 1 => held[x][i] \notin ToSet(log[x])
        /\ To[held[x][i]] = x
        /\ \A j \in DOMAIN held[x] : held[x][j] = held[x][i] => j = i
  BY HeldFacts
<1>6. HeldInv'
  <2>1. \A x \in Sessions : \A i \in DOMAIN held'[x] :
          /\ at'[held'[x][i]] = "held" /\ To[held'[x][i]] = x
          /\ \A j \in DOMAIN held'[x] : held'[x][j] = held'[x][i] => j = i
    BY <1>4, <1>5
  <2>2. ASSUME NEW m \in Msgs, at'[m] = "new" PROVE m \notin ToSet(log'[To[m]])
    <3>1. at[m] = "new"
      BY <1>4, <2>2
    <3>2. m \notin ToSet(log[To[m]]) /\ m # w
      BY <1>2, <3>1 DEF QueueInv, HeldInv
    <3> QED
      BY <1>3, <1>4, <3>2
  <2>3. ASSUME at'[Release] = "sent", rel[2] # Note PROVE rel[2] \in ToSet(log'[rel[1]])
    <3>1. CASE t = Release
      BY <1>1, <1>3, <3>1
    <3>2. CASE t # Release
      <4>1. at[Release] = "sent" /\ rel[1] \in Sessions
        BY <1>4, <2>3, <3>2 DEF BaseInv, RelInv
      <4>2. rel[2] \in ToSet(log[rel[1]])
        BY <2>3, <4>1 DEF QueueInv, HeldInv
      <4> QED
        BY <1>3, <4>1, <4>2
    <3> QED
      BY <3>1, <3>2
  <2> QED
    BY <2>1, <2>2, <2>3 DEF HeldInv
<1>7. HeldKept'
  <2>1. ASSUME NEW m \in Msgs, at'[m] = "held"
        PROVE  m \in ToSet(held'[To[m]]) \cup ToSet(log'[To[m]])
    <3>1. m \in ToSet(held[To[m]]) \cup ToSet(log[To[m]])
      BY <1>4, <2>1 DEF QueueInv, HeldKept
    <3> QED
      BY <1>3, <1>4, <3>1
  <2>2. ASSUME NEW x \in Sessions, NEW i \in 2 .. Len(held[x])
        PROVE  held[x][i] \notin ToSet(log'[x])
    <3>1. i \in DOMAIN held[x] /\ i # 1 /\ (held[x] # <<>> => 1 \in DOMAIN held[x])
      <4>1. held[x] \in Seq(Msgs)
        BY DEF BaseInv, DueTypes
      <4> QED
        BY <2>2, <4>1
    <3>2. held[x][i] \in Msgs /\ held[x][i] \notin ToSet(log[x]) /\ held[x][i] # t
      BY <1>5, <3>1
    <3>3. ToSet(log'[x]) = ToSet(log[x]) \cup (IF x = s THEN {w} ELSE {})
      BY <1>3
    <3>4. CASE x # s
      BY <3>2, <3>4, <3>3
    <3>5. CASE x = s /\ t # Release
      BY <1>1, <3>2, <3>5, <3>3
    <3>6. CASE x = s /\ t = Release /\ w = Note
      BY <3>2, <3>6, <3>3, HostAssumption DEF HostAssumption
    <3>7. CASE x = s /\ t = Release /\ w # Note
      <4>1. held[x] # <<>> /\ w = held[x][1]
        BY <1>2, <3>7
      <4>2. held[x][i] # w
        BY <1>5, <3>1, <4>1
      <4> QED
        BY <3>2, <3>3, <4>2
    <3> QED
      BY <3>4, <3>5, <3>6, <3>7
  <2> QED
    BY <2>1, <2>2 DEF HeldKept
<1> QED
  BY <1>6, <1>7 DEF QueueInv

LEMMA ThreadQueue ==
  ASSUME BaseInv, QueueInv, BaseInv', NEW t \in Msgs \cup {Release}, Thread(t)
  PROVE  QueueInv'
<1> DEFINE u == Target(t)
<1>1. at[t] \in {"sending", "awaiting"} /\ u \in Sessions
  BY ThreadDoes
<1>2. CASE Refused(t)
  <2>1. /\ UNCHANGED <<held, log>>
        /\ at' = [at EXCEPT ![t] = IF t = Release THEN "idle" ELSE "refused"]
    BY <1>2 DEF Refused, Goto
  <2>2. \A x \in Msgs \cup {Release} :
          at'[x] = IF x = t THEN (IF t = Release THEN "idle" ELSE "refused") ELSE at[x]
    BY <2>1 DEF BaseInv, ThreadTypes
  <2>3. rel' = rel
    BY <1>2 DEF Refused, relVars
  <2> QED
    BY <1>1, <2>1, <2>2, <2>3, QueueStays
<1>3. CASE /\ at' = [at EXCEPT ![t] = "awaiting"]
           /\ UNCHANGED <<procVars, dueVars, drain, host, relVars, log, cuts, budgets>>
  <2>1. UNCHANGED <<held, log, rel>>
    BY <1>3 DEF dueVars, relVars
  <2>2. \A x \in Msgs \cup {Release} : at'[x] = IF x = t THEN "awaiting" ELSE at[x]
    BY <1>3 DEF BaseInv, ThreadTypes
  <2> QED
    BY <1>1, <2>1, <2>2, QueueStays
<1>4. CASE UNCHANGED relVars /\ Write(t, u)
  BY <1>1, <1>4, WriteQueue DEF Write, Written, Goto, dueVars, relVars
<1>5. ASSUME NEW x, SpawnFor(t, u, x), UNCHANGED relVars PROVE QueueInv'
  BY <1>1, <1>5, WriteQueue DEF SpawnFor, Written, Goto, relVars
<1>6. CASE UNCHANGED relVars /\ Breaks(t, u)
  <2>1. log' = log /\ rel' = rel
    BY <1>6 DEF Breaks, relVars
  <2>2. CASE t = Release /\ rel[2] # Note
    <3>1. /\ at' = [at EXCEPT ![Release] = "peeking", ![rel[2]] = "dropped"]
          /\ held' = [held EXCEPT ![u] = Tail(@)]
      BY <1>6, <2>2 DEF Breaks
    <3>2. u = rel[1] /\ held[u] # <<>> /\ rel[2] = held[u][1] /\ rel[2] \in Msgs
      BY <1>1, <2>2, Targets DEF BaseInv, RelInv, ThreadTypes
    <3>3. Release \notin Msgs
      BY HostAssumption DEF HostAssumption
    <3>4. /\ at'[Release] = "peeking" /\ at'[rel[2]] = "dropped"
          /\ \A m \in Msgs : m # rel[2] => at'[m] = at[m]
      BY <3>1, <3>2, <3>3 DEF BaseInv, ThreadTypes
    <3> QED
      BY <1>1, <2>1, <3>1, <3>2, <3>4, FirstGoes
  <2>3. CASE ~(t = Release /\ rel[2] # Note)
    <3>1. /\ at' = [at EXCEPT ![t] = IF t = Release THEN "peeking" ELSE "refused"]
          /\ held' = held
      BY <1>6, <2>3 DEF Breaks, Goto
    <3>2. \A x \in Msgs \cup {Release} :
            at'[x] = IF x = t THEN (IF t = Release THEN "peeking" ELSE "refused") ELSE at[x]
      BY <3>1 DEF BaseInv, ThreadTypes
    <3> QED
      BY <1>1, <2>1, <3>1, <3>2, QueueStays
  <2> QED
    BY <2>2, <2>3
<1> HIDE DEF u
<1>7. \/ Refused(t)
      \/ /\ at' = [at EXCEPT ![t] = "awaiting"]
         /\ UNCHANGED <<procVars, dueVars, drain, host, relVars, log, cuts, budgets>>
      \/ /\ UNCHANGED relVars
         /\ \/ Write(t, u)
            \/ Breaks(t, u)
            \/ \E x \in Sessions \cup {NoSession} : SpawnFor(t, u, x)
  BY ThreadDoes DEF u
<1> QED
  BY <1>2, <1>3, <1>4, <1>5, <1>6, <1>7

LEMMA DeliveryQueue ==
  ASSUME BaseInv, QueueInv, BaseInv', Delivery
  PROVE  QueueInv'
<1>1. Release \notin Msgs
  BY HostAssumption DEF HostAssumption
<1>2. CASE Round
  BY <1>2, QueueStays DEF Round, dueVars
<1>3. ASSUME NEW s \in Sessions, Take(s) PROVE QueueInv'
  <2>1. /\ UNCHANGED <<held, log>>
        /\ at' = [at EXCEPT ![Release] = IF s \in due THEN "sending" ELSE "peeking"]
    BY <1>3 DEF Take, Releases, Goto
  <2>2. \A x \in Msgs \cup {Release} :
          at'[x] = IF x = Release THEN (IF s \in due THEN "sending" ELSE "peeking") ELSE at[x]
    BY <2>1 DEF BaseInv, ThreadTypes
  <2> QED
    BY <1>1, <2>1, <2>2, QueueStays
<1>4. CASE NoteSent \/ Peek
  <2>1. /\ UNCHANGED <<held, log>>
        /\ \E where \in {"peeking", "idle", "sending"} : at' = [at EXCEPT ![Release] = where]
    BY <1>4 DEF NoteSent, Peek, Releases, Goto, dueVars
  <2>2. /\ \A x \in Msgs : at'[x] = at[x]
        /\ at'[Release] # "sent"
    BY <1>1, <2>1 DEF BaseInv, ThreadTypes
  <2> QED
    BY <2>1, <2>2, QueueStays
<1>5. CASE Pop
  <2>1. /\ log' = log /\ at[Release] = "sent" /\ rel[2] # Note
        /\ held' = [held EXCEPT ![rel[1]] = Tail(@)]
        /\ at' = [at EXCEPT ![Release] = "peeking"]
    BY <1>5 DEF Pop, Releases, Goto, Popped
  <2>2. /\ rel[1] \in Sessions /\ held[rel[1]] # <<>> /\ rel[2] = held[rel[1]][1]
        /\ rel[2] \in ToSet(log[rel[1]]) /\ rel[2] \in Msgs
    BY <2>1 DEF BaseInv, RelInv, ThreadTypes, QueueInv, HeldInv
  <2>3. at'[Release] = "peeking" /\ \A m \in Msgs : at'[m] = at[m]
    BY <1>1, <2>1 DEF BaseInv, ThreadTypes
  <2> QED
    BY <2>1, <2>2, <2>3, FirstGoes
<1> QED
  BY <1>2, <1>3, <1>4, <1>5 DEF Delivery

LEMMA QueueStep ==
  ASSUME BaseInv, QueueInv, BaseInv', [Next]_vars
  PROVE  QueueInv'
<1>1. ASSUME NEW m \in Msgs, Hold(m) PROVE QueueInv'
  BY <1>1, HoldQueue
<1>2. ASSUME NEW m \in Msgs, NotDraining(m) PROVE QueueInv'
  <2>1. /\ UNCHANGED <<held, log, rel>> /\ at[m] = "new"
        /\ at' = [at EXCEPT ![m] = "sending"] /\ m # Release
    BY <1>2, HostAssumption DEF NotDraining, Goto, dueVars, relVars, HostAssumption
  <2>2. \A x \in Msgs \cup {Release} : at'[x] = IF x = m THEN "sending" ELSE at[x]
    BY <2>1 DEF BaseInv, ThreadTypes
  <2> QED
    BY <2>1, <2>2, QueueStays
<1>3. ASSUME NEW t \in Msgs \cup {Release}, Thread(t) PROVE QueueInv'
  BY <1>3, ThreadQueue
<1>4. CASE Delivery
  BY <1>4, DeliveryQueue
<1>5. ASSUME NEW s \in Sessions, Agent(s) \/ Answer(s) \/ Park(s) \/ Close(s) \/ ParkIdle(s)
      PROVE  QueueInv'
  BY <1>5, AgentLeaves, QueueStays
<1>6. CASE DrainChanges \/ BeginStop \/ Shutdown \/ Load
  <2>1. UNCHANGED <<held, log, at, rel>>
    BY <1>6 DEF DrainChanges, BeginStop, Shutdown, Load, Noted, dueVars, relVars
  <2> QED
    BY <2>1, QueueStays
<1>7. CASE Stopped \/ Crash
  <2>1. /\ UNCHANGED <<held, log>>
        /\ at' = [t \in DOMAIN at |->
             IF t = Release THEN "idle"
             ELSE IF at[t] \in {"sending", "awaiting"} THEN "refused" ELSE at[t]]
    BY <1>7 DEF Stopped, Crash, Halt
  <2>2. /\ at'[Release] = "idle" /\ DOMAIN at = Msgs \cup {Release}
        /\ \A m \in Msgs : at'[m] = at[m] \/ (at[m] \in {"sending", "awaiting"} /\ at'[m] = "refused")
    BY <2>1, HostAssumption DEF BaseInv, ThreadTypes, HostAssumption
  <2> QED
    BY <2>1, <2>2, QueueStays
<1>8. CASE UNCHANGED vars
  BY <1>8, QueueStays DEF vars, dueVars, relVars
<1> QED
  BY <1>1, <1>2, <1>3, <1>4, <1>5, <1>6, <1>7, <1>8 DEF Next

\* A message held for a restart is kept, and the ones behind it stay behind it,
\* whatever stops, crashes, is refused or sent meanwhile.
THEOREM HeldIsKept == Spec => []HeldKept
<1>1. Init => BaseInv /\ QueueInv
  BY InitBase, InitQueue
<1>2. BaseInv /\ QueueInv /\ [Next]_vars => (BaseInv /\ QueueInv)'
  BY BaseStep, QueueStep
<1>3. BaseInv /\ QueueInv => HeldKept
  BY DEF QueueInv
<1> QED
  BY <1>1, <1>2, <1>3, PTL DEF Spec

-----------------------------------------------------------------------------
(* Never resumed twice *)

LEMMA NotesIn ==
  ASSUME NEW E, NEW q \in Seq(E)
  PROVE  IsFiniteSet(NotesOf(q)) /\ Cardinality(NotesOf(q)) \in Nat
<1>1. Len(q) \in Nat /\ DOMAIN q = 1 .. Len(q) /\ 1 \in Int /\ Len(q) \in Int
  OBVIOUS
<1>2. IsFiniteSet(1 .. Len(q))
  BY <1>1, FS_Interval
<1>3. NotesOf(q) \in SUBSET (1 .. Len(q))
  BY <1>1 DEF NotesOf
<1>4. IsFiniteSet(NotesOf(q))
  BY <1>2, <1>3, FS_Subset
<1> QED
  BY <1>4, FS_CardinalityType

LEMMA NoteWritten ==
  ASSUME NEW E, NEW q \in Seq(E), NEW e \in E
  PROVE  Cardinality(NotesOf(Append(q, e))) =
         Cardinality(NotesOf(q)) + (IF e = Note THEN 1 ELSE 0)
<1> DEFINE N == NotesOf(q)
           M == NotesOf(Append(q, e))
<1>1. /\ Len(q) \in Nat /\ DOMAIN q = 1 .. Len(q) /\ DOMAIN Append(q, e) = 1 .. Len(q) + 1
      /\ \A i \in 1 .. Len(q) : Append(q, e)[i] = q[i]
      /\ Append(q, e)[Len(q) + 1] = e
  OBVIOUS
<1>2. IsFiniteSet(N) /\ Cardinality(N) \in Nat
  BY NotesIn
<1>3. 1 .. Len(q) + 1 = 1 .. Len(q) \cup {Len(q) + 1} /\ Len(q) + 1 \notin 1 .. Len(q)
  BY <1>1
<1>4. CASE e = Note
  <2>1. M = N \cup {Len(q) + 1} /\ Len(q) + 1 \notin N
    BY <1>1, <1>3, <1>4 DEF NotesOf
  <2> HIDE DEF M, N
  <2>2. Cardinality(N \cup {Len(q) + 1}) = Cardinality(N) + 1
    BY <1>2, <2>1, FS_AddElement
  <2>3. Cardinality(M) = Cardinality(N) + (IF e = Note THEN 1 ELSE 0)
    BY <1>4, <2>1, <2>2
  <2> QED
    BY <2>3 DEF M, N
<1>5. CASE e # Note
  <2>1. M = N
    BY <1>1, <1>3, <1>5 DEF NotesOf
  <2> HIDE DEF M, N
  <2>2. Cardinality(M) = Cardinality(N) + (IF e = Note THEN 1 ELSE 0)
    BY <1>2, <1>5, <2>1
  <2> QED
    BY <2>2 DEF M, N
<1> QED
  BY <1>4, <1>5

LEMMA NotesAreCounted ==
  ASSUME BaseInv, NEW s \in Sessions
  PROVE  /\ Cardinality(Notes(s)) \in Nat /\ cuts[s] \in Nat
         /\ Owed(s) \in Nat
<1>1. log[s] \in Seq(Msgs \cup {Note}) /\ cuts[s] \in Nat
  BY DEF BaseInv, HistoryTypes
<1>2. Cardinality(Notes(s)) \in Nat
  BY <1>1, NotesIn DEF Notes
<1>3. Owed(s) \in Nat
  BY DEF Owed
<1> QED
  BY <1>1, <1>2, <1>3

LEMMA InitResume == Init => ResumeInv
<1> SUFFICES ASSUME Init, NEW s \in Sessions
             PROVE  Cardinality(Notes(s)) + Owed(s) <= cuts[s]
  BY DEF ResumeInv
<1>1. log[s] = <<>> /\ s \notin due /\ cuts[s] = 0
  BY DEF Init
<1>2. ~Taken(s)
  BY DEF Init, Taken
<1>3. Notes(s) = {}
  BY <1>1 DEF Notes, NotesOf
<1>4. Cardinality(Notes(s)) = 0
  BY <1>3, FS_EmptySet
<1> QED
  BY <1>1, <1>2, <1>4 DEF Owed

\* A step that writes nothing, and by which a session comes to be owed no more
\* than it was cut off by it.
LEMMA ResumeStays ==
  ASSUME BaseInv, ResumeInv, BaseInv', log' = log,
         \A s \in Sessions : Owed(s)' + cuts[s] <= Owed(s) + cuts'[s]
  PROVE  ResumeInv'
<1> SUFFICES ASSUME NEW s \in Sessions
             PROVE  Cardinality(Notes(s)') + Owed(s)' <= cuts'[s]
  BY DEF ResumeInv
<1>1. Notes(s)' = Notes(s)
  BY DEF Notes
<1>2. Cardinality(Notes(s)) \in Nat /\ cuts[s] \in Nat /\ Owed(s) \in Nat
  BY NotesAreCounted
<1>3. Owed(s)' \in Nat
  BY DEF Owed
<1>4. cuts'[s] \in Nat
  BY DEF BaseInv, HistoryTypes
<1>5. Cardinality(Notes(s)) + Owed(s) <= cuts[s] /\ Owed(s)' + cuts[s] <= Owed(s) + cuts'[s]
  BY DEF ResumeInv
<1>6. Cardinality(Notes(s)) + Owed(s)' <= cuts'[s]
  BY <1>2, <1>3, <1>4, <1>5
<1> QED
  BY <1>1, <1>6

\* A step that marks nothing due and takes nothing.
LEMMA ResumeRests ==
  ASSUME BaseInv, ResumeInv, BaseInv', UNCHANGED <<log, cuts>>, due' \subseteq due,
         \A s \in Sessions : Taken(s)' => Taken(s)
  PROVE  ResumeInv'
<1>1. ASSUME NEW s \in Sessions PROVE Owed(s)' + cuts[s] <= Owed(s) + cuts'[s]
  <2>1. cuts[s] \in Nat /\ cuts'[s] = cuts[s]
    BY DEF BaseInv, HistoryTypes
  <2>2. Owed(s) \in Nat /\ Owed(s)' \in Nat /\ Owed(s)' <= Owed(s)
    BY DEF Owed
  <2> QED
    BY <2>1, <2>2
<1> QED
  BY <1>1, ResumeStays

\* What a thread has written to its session.
LEMMA WriteResume ==
  ASSUME BaseInv, ResumeInv, BaseInv', NEW t \in Msgs \cup {Release},
         at[t] \in {"sending", "awaiting"},
         log' = [log EXCEPT ![Target(t)] = Append(@, What(t))],
         at' = [at EXCEPT ![t] = "sent"], UNCHANGED <<rel, cuts>>, due' \subseteq due
  PROVE  ResumeInv'
<1> DEFINE u == Target(t)
           w == What(t)
<1>1. /\ u \in Sessions /\ w \in Msgs \cup {Note}
      /\ t # Release => w \in Msgs
      /\ t = Release => u = rel[1] /\ w = rel[2]
  BY Targets
<1>2. SUFFICES ASSUME NEW s \in Sessions
               PROVE  Cardinality(Notes(s)') + Owed(s)' <= cuts'[s]
  BY DEF ResumeInv
<1>3. Cardinality(Notes(s)) \in Nat /\ cuts[s] \in Nat /\ Owed(s) \in Nat /\ cuts'[s] = cuts[s]
  BY NotesAreCounted
<1>4. Cardinality(Notes(s)) + Owed(s) <= cuts[s]
  BY DEF ResumeInv
<1>5. at'[Release] = IF t = Release THEN "sent" ELSE at[Release]
  BY DEF BaseInv, ThreadTypes
<1>6. CASE s # u \/ w # Note
  <2>1. Cardinality(Notes(s)') = Cardinality(Notes(s))
    <3>1. CASE s # u
      <4>1. log'[s] = log[s]
        BY <1>1, <3>1 DEF BaseInv, HistoryTypes
      <4>2. Notes(s)' = Notes(s)
        BY <4>1 DEF Notes
      <4> QED
        BY <4>2
    <3>2. CASE s = u /\ w # Note
      <4>1. log'[s] = Append(log[s], w) /\ log[s] \in Seq(Msgs \cup {Note})
        BY <1>1, <3>2 DEF BaseInv, HistoryTypes
      <4>2. Cardinality(NotesOf(Append(log[s], w))) = Cardinality(NotesOf(log[s])) + 0
        BY <1>1, <3>2, <4>1, NoteWritten
      <4>3. Cardinality(Notes(s)') = Cardinality(Notes(s)) + 0
        BY <4>1, <4>2 DEF Notes
      <4> QED
        BY <1>3, <4>3
    <3> QED
      BY <1>6, <3>1, <3>2
  <2>2. Taken(s)' => Taken(s)
    BY <1>5 DEF Taken
  <2>3. Owed(s)' \in Nat /\ Owed(s)' <= Owed(s)
    BY <2>2 DEF Owed
  <2> QED
    BY <1>3, <1>4, <2>1, <2>3
<1>7. CASE s = u /\ w = Note
  <2>1. log'[s] = Append(log[s], w) /\ log[s] \in Seq(Msgs \cup {Note})
    BY <1>1, <1>7 DEF BaseInv, HistoryTypes
  <2>2. Cardinality(NotesOf(Append(log[s], w))) = Cardinality(NotesOf(log[s])) + 1
    BY <1>1, <1>7, <2>1, NoteWritten
  <2>3. Cardinality(Notes(s)') = Cardinality(Notes(s)) + 1
    BY <2>1, <2>2 DEF Notes
  <2>4. t = Release
    BY <1>1, <1>7, HostAssumption DEF HostAssumption
  <2>5. Taken(s) /\ ~Taken(s)'
    BY <1>1, <1>5, <1>7, <2>4 DEF Taken
  <2>6. Owed(s)' \in Nat /\ Owed(s)' + 1 <= Owed(s)
    BY <2>5 DEF Owed
  <2> QED
    BY <1>3, <1>4, <2>3, <2>6
<1> QED
  BY <1>6, <1>7

LEMMA ThreadResume ==
  ASSUME BaseInv, ResumeInv, BaseInv', NEW t \in Msgs \cup {Release}, Thread(t)
  PROVE  ResumeInv'
<1> DEFINE u == Target(t)
<1>1. at[t] \in {"sending", "awaiting"} /\ u \in Sessions
  BY ThreadDoes
<1>2. CASE Refused(t)
  <2>1. UNCHANGED <<log, cuts, rel>>
    BY <1>2 DEF Refused, relVars
  <2>2. at' = [at EXCEPT ![t] = IF t = Release THEN "idle" ELSE "refused"]
    BY <1>2 DEF Refused, Goto
  <2>3. at'[Release] = IF t = Release THEN "idle" ELSE at[Release]
    BY <2>2 DEF BaseInv, ThreadTypes
  <2>4. CASE t = Release /\ rel[2] = Note
    <3>1. due' = due \cup {rel[1]}
      BY <1>2, <2>4 DEF Refused
    <3>2. ASSUME NEW s \in Sessions PROVE Owed(s)' + cuts[s] <= Owed(s) + cuts'[s]
      <4>1. ~Taken(s)' /\ (s = rel[1] => Taken(s))
        BY <1>1, <2>3, <2>4 DEF Taken
      <4>2. Owed(s) \in Nat /\ Owed(s)' \in Nat /\ Owed(s)' <= Owed(s)
        BY <3>1, <4>1 DEF Owed
      <4>3. cuts[s] \in Nat /\ cuts'[s] = cuts[s]
        BY <2>1 DEF BaseInv, HistoryTypes
      <4> QED
        BY <4>2, <4>3
    <3> QED
      BY <2>1, <3>2, ResumeStays
  <2>5. CASE ~(t = Release /\ rel[2] = Note)
    <3>1. due' = due
      BY <1>2, <2>5 DEF Refused
    <3>2. \A s \in Sessions : Taken(s)' => Taken(s)
      BY <2>1, <2>3 DEF Taken
    <3> QED
      BY <2>1, <3>1, <3>2, ResumeRests
  <2> QED
    BY <2>4, <2>5
<1>3. CASE /\ at' = [at EXCEPT ![t] = "awaiting"]
           /\ UNCHANGED <<procVars, dueVars, drain, host, relVars, log, cuts, budgets>>
  <2>1. UNCHANGED <<log, cuts, rel, due>>
    BY <1>3 DEF dueVars, relVars
  <2>2. at'[Release] = IF t = Release THEN "awaiting" ELSE at[Release]
    BY <1>3 DEF BaseInv, ThreadTypes
  <2>3. \A s \in Sessions : Taken(s)' => Taken(s)
    BY <1>1, <2>1, <2>2 DEF Taken
  <2> QED
    BY <2>1, <2>3, ResumeRests
<1>4. CASE UNCHANGED <<relVars, cuts>> /\ Write(t, u)
  BY <1>1, <1>4, WriteResume DEF Write, Written, Goto, dueVars, relVars
<1>5. ASSUME NEW x, SpawnFor(t, u, x), UNCHANGED <<relVars, cuts>> PROVE ResumeInv'
  <2>1. due' \subseteq due
    BY <1>5 DEF SpawnFor
  <2> QED
    BY <1>1, <1>5, <2>1, WriteResume DEF SpawnFor, Written, Goto, relVars
<1>6. CASE UNCHANGED <<relVars, cuts>> /\ Breaks(t, u)
  <2>1. UNCHANGED <<log, cuts, rel, due>>
    BY <1>6 DEF Breaks, relVars
  <2>2. \/ at' = [at EXCEPT ![t] = IF t = Release THEN "peeking" ELSE "refused"]
        \/ /\ t = Release /\ rel[2] # Note
           /\ at' = [at EXCEPT ![t] = "peeking", ![rel[2]] = "dropped"]
    BY <1>6 DEF Breaks, Goto
  <2>3. rel[2] # Note => rel[2] # Release
    BY HostAssumption DEF BaseInv, ThreadTypes, HostAssumption
  <2>4. at'[Release] = IF t = Release THEN "peeking" ELSE at[Release]
    BY <2>2, <2>3 DEF BaseInv, ThreadTypes
  <2>5. \A s \in Sessions : Taken(s)' => Taken(s)
    BY <2>1, <2>4 DEF Taken
  <2> QED
    BY <2>1, <2>5, ResumeRests
<1> HIDE DEF u
<1>7. \/ Refused(t)
      \/ /\ at' = [at EXCEPT ![t] = "awaiting"]
         /\ UNCHANGED <<procVars, dueVars, drain, host, relVars, log, cuts, budgets>>
      \/ /\ UNCHANGED <<relVars, cuts>>
         /\ \/ Write(t, u)
            \/ Breaks(t, u)
            \/ \E x \in Sessions \cup {NoSession} : SpawnFor(t, u, x)
  BY ThreadDoes DEF u
<1> QED
  BY <1>2, <1>3, <1>4, <1>5, <1>6, <1>7

\* The cut-off that the release thread takes is the session's, which is due.
LEMMA TakeResume ==
  ASSUME BaseInv, ResumeInv, BaseInv', NEW r \in Sessions, Take(r)
  PROVE  ResumeInv'
<1>1. /\ UNCHANGED <<log, cuts>> /\ rel' = <<r, Note, cut[r]>> /\ at[Release] = "idle"
      /\ at' = [at EXCEPT ![Release] = IF r \in due THEN "sending" ELSE "peeking"]
      /\ cut' = [cut EXCEPT ![r] = IF r \in due THEN "none" ELSE @]
      /\ due' = {x \in due : cut'[x] # "none"}
  BY DEF Take, Releases, Goto, Cleared
<1>2. at'[Release] = IF r \in due THEN "sending" ELSE "peeking"
  BY <1>1 DEF BaseInv, ThreadTypes
<1>3. due' \subseteq due /\ r \notin due'
  BY <1>1 DEF BaseInv, DueTypes
<1>4. ASSUME NEW s \in Sessions PROVE Owed(s)' + cuts[s] <= Owed(s) + cuts'[s]
  <2>1. Taken(s)' => s = r /\ r \in due
    BY <1>1, <1>2 DEF Taken
  <2>2. Owed(s) \in Nat /\ Owed(s)' \in Nat /\ Owed(s)' <= Owed(s)
    BY <1>3, <2>1 DEF Owed
  <2>3. cuts[s] \in Nat /\ cuts'[s] = cuts[s]
    BY <1>1 DEF BaseInv, HistoryTypes
  <2> QED
    BY <2>2, <2>3
<1> QED
  BY <1>1, <1>4, ResumeStays

LEMMA DeliveryResume ==
  ASSUME BaseInv, ResumeInv, BaseInv', Delivery
  PROVE  ResumeInv'
<1>1. CASE Round
  <2>1. UNCHANGED <<log, cuts, due, at, rel>>
    BY <1>1 DEF Round, dueVars
  <2>2. \A s \in Sessions : Taken(s)' => Taken(s)
    BY <2>1 DEF Taken
  <2> QED
    BY <2>1, <2>2, ResumeRests
<1>2. ASSUME NEW s \in Sessions, Take(s) PROVE ResumeInv'
  BY <1>2, TakeResume
<1>3. CASE NoteSent \/ Pop
  <2>1. UNCHANGED <<log, cuts, due, rel>> /\ at' = [at EXCEPT ![Release] = "peeking"]
    BY <1>3 DEF NoteSent, Pop, Releases, Goto, dueVars, relVars
  <2>2. at'[Release] = "peeking"
    BY <2>1 DEF BaseInv, ThreadTypes
  <2>3. \A s \in Sessions : Taken(s)' => Taken(s)
    BY <2>2 DEF Taken
  <2> QED
    BY <2>1, <2>3, ResumeRests
<1>4. CASE Peek
  <2>1. UNCHANGED <<log, cuts, due>> /\ at[Release] = "peeking"
    BY <1>4 DEF Peek, dueVars
  <2>2. CASE held[rel[1]] = <<>>
    <3>1. at' = [at EXCEPT ![Release] = "idle"]
      BY <1>4, <2>2 DEF Peek, Releases, Goto
    <3>2. at'[Release] = "idle"
      BY <3>1 DEF BaseInv, ThreadTypes
    <3>3. \A s \in Sessions : ~Taken(s)'
      BY <3>2 DEF Taken
    <3> QED
      BY <2>1, <3>3, ResumeRests
  <2>3. CASE held[rel[1]] # <<>>
    <3>1. rel' = <<rel[1], Head(held[rel[1]]), "none">>
      BY <1>4, <2>3 DEF Peek
    <3>2. rel[1] \in Sessions
      BY <2>1 DEF BaseInv, RelInv
    <3>3. held[rel[1]] \in Seq(Msgs)
      BY <3>2 DEF BaseInv, DueTypes
    <3>4. Head(held[rel[1]]) \in Msgs
      BY <2>3, <3>3
    <3>5. rel'[2] # Note
      BY <3>1, <3>4, HostAssumption DEF HostAssumption
    <3>6. \A s \in Sessions : ~Taken(s)'
      BY <3>5 DEF Taken
    <3> QED
      BY <2>1, <3>6, ResumeRests
  <2> QED
    BY <2>2, <2>3
<1> QED
  BY <1>1, <1>2, <1>3, <1>4 DEF Delivery

\* Of what an agent does, a turn that the pending restart told to end is a
\* cut-off, and due.
LEMMA AgentResume ==
  ASSUME BaseInv, ResumeInv, BaseInv', NEW r \in Sessions,
         Agent(r) \/ Answer(r) \/ Park(r) \/ Close(r) \/ ParkIdle(r)
  PROVE  ResumeInv'
<1>1. UNCHANGED <<at, rel, log>>
  BY AgentLeaves
<1>2. \A s \in Sessions : Taken(s)' = Taken(s)
  BY <1>1 DEF Taken
<1>3. CASE UNCHANGED <<due, cuts>>
  BY <1>1, <1>2, <1>3, ResumeRests
<1>4. CASE Result(r) /\ due' = due \cup {r} /\ cuts' = [cuts EXCEPT ![r] = @ + 1]
  <2>1. ASSUME NEW s \in Sessions PROVE Owed(s)' + cuts[s] <= Owed(s) + cuts'[s]
    <3>1. cuts[s] \in Nat /\ cuts'[s] = IF s = r THEN cuts[s] + 1 ELSE cuts[s]
      BY <1>4 DEF BaseInv, HistoryTypes
    <3>2. /\ Owed(s) \in Nat /\ Owed(s)' \in Nat
          /\ Owed(s)' <= Owed(s) + (IF s = r THEN 1 ELSE 0)
      BY <1>2, <1>4 DEF Owed
    <3> QED
      BY <3>1, <3>2
  <2> QED
    BY <1>1, <2>1, ResumeStays
<1>5. UNCHANGED <<due, cuts>> \/
      (Result(r) /\ due' = due \cup {r} /\ cuts' = [cuts EXCEPT ![r] = @ + 1])
  <2>1. CASE Queues(r) \/ Turn(r) \/ Ask(r) \/ TaskStarts(r) \/ TaskEnds(r)
    BY <2>1 DEF Queues, Turn, Ask, TaskStarts, TaskEnds
  <2>2. CASE Result(r)
    BY <2>2 DEF Result
  <2>3. CASE Exit(r) \/ OrphanEnds(r) \/ OnExit(r)
    BY <2>3 DEF Exit, OrphanEnds, OnExit, dueVars
  <2>4. CASE Answer(r) \/ Park(r) \/ Close(r) \/ ParkIdle(r)
    BY <2>4 DEF Answer, Park, Close, ParkIdle, Operation, dueVars
  <2> QED
    BY <2>1, <2>2, <2>3, <2>4 DEF Agent
<1> QED
  BY <1>3, <1>4, <1>5

\* The next start marks due what the last one cut off, once.
LEMMA LoadResume ==
  ASSUME BaseInv, ResumeInv, BaseInv', Load
  PROVE  ResumeInv'
<1>1. /\ UNCHANGED <<log, at, rel>>
      /\ cuts' = [s \in Sessions |-> IF s \in due' \ due THEN cuts[s] + 1 ELSE cuts[s]]
  BY DEF Load, relVars
<1>2. ASSUME NEW s \in Sessions PROVE Owed(s)' + cuts[s] <= Owed(s) + cuts'[s]
  <2>1. cuts[s] \in Nat /\ cuts'[s] = IF s \in due' \ due THEN cuts[s] + 1 ELSE cuts[s]
    BY <1>1 DEF BaseInv, HistoryTypes
  <2>2. Taken(s)' = Taken(s)
    BY <1>1 DEF Taken
  <2>3. /\ Owed(s) \in Nat /\ Owed(s)' \in Nat
        /\ Owed(s)' <= Owed(s) + (IF s \in due' \ due THEN 1 ELSE 0)
    BY <2>2 DEF Owed
  <2> QED
    BY <2>1, <2>3
<1> QED
  BY <1>1, <1>2, ResumeStays

LEMMA ResumeStep ==
  ASSUME BaseInv, ResumeInv, BaseInv', [Next]_vars
  PROVE  ResumeInv'
<1>1. ASSUME NEW m \in Msgs, Hold(m) \/ NotDraining(m) PROVE ResumeInv'
  <2>1. /\ UNCHANGED <<log, cuts, due, rel>> /\ m # Release
        /\ \E where \in {"refused", "held", "sending"} : at' = [at EXCEPT ![m] = where]
    BY <1>1, HostAssumption DEF Hold, NotDraining, Goto, dueVars, relVars, HostAssumption
  <2>2. at'[Release] = at[Release]
    BY <2>1 DEF BaseInv, ThreadTypes
  <2>3. \A s \in Sessions : Taken(s)' => Taken(s)
    BY <2>1, <2>2 DEF Taken
  <2> QED
    BY <2>1, <2>3, ResumeRests
<1>2. ASSUME NEW t \in Msgs \cup {Release}, Thread(t) PROVE ResumeInv'
  BY <1>2, ThreadResume
<1>3. CASE Delivery
  BY <1>3, DeliveryResume
<1>4. ASSUME NEW s \in Sessions, Agent(s) \/ Answer(s) \/ Park(s) \/ Close(s) \/ ParkIdle(s)
      PROVE  ResumeInv'
  BY <1>4, AgentResume
<1>5. CASE DrainChanges \/ BeginStop \/ Shutdown
  <2>1. UNCHANGED <<log, cuts, at, rel>> /\ due' \subseteq due
    BY <1>5 DEF DrainChanges, BeginStop, Shutdown, Noted, dueVars, relVars
  <2>2. \A s \in Sessions : Taken(s)' => Taken(s)
    BY <2>1 DEF Taken
  <2> QED
    BY <2>1, <2>2, ResumeRests
<1>6. CASE Stopped \/ Crash
  <2>1. /\ UNCHANGED <<log, cuts, due>>
        /\ at' = [t \in DOMAIN at |->
             IF t = Release THEN "idle"
             ELSE IF at[t] \in {"sending", "awaiting"} THEN "refused" ELSE at[t]]
    BY <1>6 DEF Stopped, Crash, Halt
  <2>2. at'[Release] = "idle"
    BY <2>1 DEF BaseInv, ThreadTypes
  <2>3. \A s \in Sessions : ~Taken(s)'
    BY <2>2 DEF Taken
  <2> QED
    BY <2>1, <2>3, ResumeRests
<1>7. CASE Load
  BY <1>7, LoadResume
<1>8. CASE UNCHANGED vars
  <2>1. UNCHANGED <<log, cuts, due, at, rel>>
    BY <1>8 DEF vars, dueVars, relVars
  <2>2. \A s \in Sessions : Taken(s)' => Taken(s)
    BY <2>1 DEF Taken
  <2> QED
    BY <2>1, <2>2, ResumeRests
<1> QED
  BY <1>1, <1>2, <1>3, <1>4, <1>5, <1>6, <1>7, <1>8 DEF Next

\* A session is told to pick up what a restart cut off at most once for each
\* time it was cut off, whatever refuses the note and whenever the host stops
\* or dies.
THEOREM ResumedAtMostOnce == Spec => []ResumedOnce
<1>1. Init => BaseInv /\ ResumeInv
  BY InitBase, InitResume
<1>2. BaseInv /\ ResumeInv /\ [Next]_vars => (BaseInv /\ ResumeInv)'
  BY BaseStep, ResumeStep
<1>3. BaseInv /\ ResumeInv => ResumedOnce
  <2> SUFFICES ASSUME BaseInv, ResumeInv, NEW s \in Sessions
               PROVE  Cardinality(Notes(s)) <= cuts[s]
    BY DEF ResumedOnce, Notes, NotesOf
  <2>1. Cardinality(Notes(s)) \in Nat /\ cuts[s] \in Nat /\ Owed(s) \in Nat
    BY NotesAreCounted
  <2>2. Cardinality(Notes(s)) + Owed(s) <= cuts[s]
    BY DEF ResumeInv
  <2> QED
    BY <2>1, <2>2
<1> QED
  BY <1>1, <1>2, <1>3, PTL DEF Spec

\* All of it at once: the inductive invariant of the host.
THEOREM HostSafe == Spec => []HostInv
<1>1. Init => BaseInv /\ QueueInv /\ ResumeInv
  BY InitBase, InitQueue, InitResume
<1>2. BaseInv /\ QueueInv /\ ResumeInv /\ [Next]_vars => (BaseInv /\ QueueInv /\ ResumeInv)'
  BY BaseStep, QueueStep, ResumeStep
<1>3. BaseInv /\ QueueInv /\ ResumeInv => HostInv
  BY DEF BaseInv, QueueInv, HostInv, TypeOK
<1> QED
  BY <1>1, <1>2, <1>3, PTL DEF Spec
=============================================================================
