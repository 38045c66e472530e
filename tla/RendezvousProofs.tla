-------------------------- MODULE RendezvousProofs --------------------------
(***************************************************************************)
(* Theorems about Rendezvous for any askers, transcripts and deaths: what  *)
(* is said is never dropped, nobody's name is taken, and the one who       *)
(* listens is the one whose question shows.                                *)
(***************************************************************************)
EXTENDS Rendezvous, FiniteSetTheorems, TLAPS

\* A transcript at an asker's socket is connected to that one, is in its
\* backlog once, and was read by nobody.
BacklogInv ==
  \A a \in Askers : \A i \in DOMAIN backlog[a] : backlog[a][i] # Probe =>
    /\ to[backlog[a][i]] = a
    /\ words[backlog[a][i]] \in {"waiting", "typed"}
    /\ \A x \in Askers : reply[x] # backlog[a][i]
    /\ \A j \in DOMAIN backlog[a] : backlog[a][j] = backlog[a][i] => j = i

\* Who has not begun to listen, or has heard nothing yet, has no reply; who
\* acknowledges one is the only one to have it, and the first to say so.
ReplyInv ==
  /\ \A a \in Askers :
       /\ pc[a] \in {"idle", "asking", "probing", "stale", "free", "binding", "taken",
                     "refused", "listening"} => reply[a] = Nobody
       /\ pc[a] = "acking" => reply[a] \in Words /\ words[reply[a]] # "answered"
       /\ reply[a] \in Words => words[reply[a]] \in {"waiting", "answered", "typed"}
  /\ \A a, b \in Askers : reply[a] # Nobody /\ reply[a] = reply[b] => a = b

\* Whoever offers words is connected only once they were sent; what waits is at
\* an open socket and what was acknowledged is with an asker.
OfferInv ==
  \A w \in Words :
    /\ to[w] # Nobody => words[w] \in {"waiting", "answered", "typed"}
    /\ words[w] = "waiting" => to[w] \in listens
    /\ words[w] = "answered" => \E a \in Askers : reply[a] = w

\* As long as no two askers arm or leave at once: nobody listens while one of
\* them does, the name is free when it is about to be linked, and the question
\* is the linker's.
AloneInv ==
  ~overlap =>
    /\ \A a, b \in Askers : pc[a] \in Between /\ pc[b] \in Between => a = b
    /\ (\E a \in Askers : pc[a] \in Between) => listens = {}
    /\ \A a \in Askers : /\ pc[a] \in {"free", "binding"} => name = Nobody
                         /\ pc[a] = "binding" => question = a
                         /\ pc[a] # "taken"

RendezvousInv ==
  TypeOK /\ BacklogInv /\ ReplyInv /\ OfferInv /\ AskedIsArmed /\ AloneInv

LEMMA InitRendezvous == Init => RendezvousInv
<1> SUFFICES ASSUME Init PROVE RendezvousInv
  OBVIOUS
<1>1. TypeOK
  <2>1. \A a \in Askers : pc[a] = "idle" /\ backlog[a] = <<>>
    BY DEF Init
  <2>2. <<>> \in Seq(Words \cup {Probe})
    OBVIOUS
  <2>3. listens = {a \in Askers : pc[a] \in {"listening", "acking", "leaving"}}
    BY <2>1 DEF Init
  <2>4. deaths \in 0 .. MaxDeaths
    <3>1. deaths = 0
      BY DEF Init
    <3> QED
      BY <3>1, RendezvousAssumption DEF RendezvousAssumption
  <2> QED
    BY <2>2, <2>3, <2>4 DEF TypeOK, Init
<1>2. BacklogInv
  <2>1. \A a \in Askers : backlog[a] = <<>>
    BY DEF Init
  <2> QED
    BY <2>1 DEF BacklogInv
<1>3. ReplyInv
  BY RendezvousAssumption DEF ReplyInv, Init, RendezvousAssumption
<1>4. OfferInv
  BY DEF OfferInv, Init
<1>5. AskedIsArmed /\ AloneInv
  BY DEF AskedIsArmed, AloneInv, Init, Between
<1> QED
  BY <1>1, <1>2, <1>3, <1>4, <1>5 DEF RendezvousInv

\* Who listens, and what a backlog holds.
LEMMA Types ==
  ASSUME TypeOK
  PROVE  /\ listens \subseteq Askers
         /\ \A a \in Askers : a \in listens <=> pc[a] \in {"listening", "acking", "leaving"}
         /\ \A a \in Askers : \A i \in DOMAIN backlog[a] :
              backlog[a][i] # Probe => backlog[a][i] \in Words
<1>1. listens = {a \in Askers : pc[a] \in {"listening", "acking", "leaving"}}
  BY DEF TypeOK
<1>2. ASSUME NEW a \in Askers, NEW i \in DOMAIN backlog[a]
      PROVE  backlog[a][i] \in Words \cup {Probe}
  <2>1. backlog[a] \in Seq(Words \cup {Probe})
    BY DEF TypeOK
  <2> QED
    BY <1>2, <2>1
<1> QED
  BY <1>1, <1>2

-----------------------------------------------------------------------------
(* Arming, the end of a wait without words, and the removal of the files *)

\* What is said and who has read it stays as it is while an asker that is not
\* about to acknowledge moves without its words.
LEMMA WordsStay ==
  ASSUME RendezvousInv, UNCHANGED <<backlog, reply, words, to>>,
         NEW a \in Askers, NEW where, pc' = [pc EXCEPT ![a] = where],
         where # "acking",
         reply[a] = Nobody \/ where \in {"leaving", "closed", "unnamed", "done"},
         listens \subseteq listens'
  PROVE  BacklogInv' /\ ReplyInv' /\ OfferInv'
<1> USE DEF RendezvousInv
<1>1. BacklogInv'
  BY DEF BacklogInv
<1>2. OfferInv'
  BY DEF OfferInv
<1>3. \A b \in Askers : pc'[b] = IF b = a THEN where ELSE pc[b]
  BY DEF TypeOK
<1>4. ReplyInv'
  BY <1>3, RendezvousAssumption DEF RendezvousAssumption, ReplyInv
<1> QED
  BY <1>1, <1>2, <1>4

\* An asker that does not arm or leave, and does not listen, changes nothing of
\* who is armed by moving elsewhere without doing so.
LEMMA ArmingStays ==
  ASSUME RendezvousInv, UNCHANGED <<name, question, listens>>,
         NEW a \in Askers, NEW from, NEW where, Goto(a, from, where),
         where \notin Between
  PROVE  AskedIsArmed' /\ AloneInv'
<1> USE DEF RendezvousInv
<1>1. \A b \in Askers : pc'[b] = IF b = a THEN where ELSE pc[b]
  BY DEF TypeOK, Goto
<1>2. overlap' = overlap
  BY DEF Goto, TypeOK
<1>3. AskedIsArmed'
  BY <1>2 DEF AskedIsArmed
<1>4. AloneInv'
  BY <1>1, <1>2 DEF AloneInv, Between
<1> QED
  BY <1>3, <1>4

LEMMA AskStep ==
  ASSUME RendezvousInv, NEW a \in Askers, Ask(a)
  PROVE  RendezvousInv'
<1> DEFINE where == IF claimed THEN "refused" ELSE "asking"
<1>1. /\ Goto(a, "idle", where) /\ pc[a] = "idle" /\ pc' = [pc EXCEPT ![a] = where]
      /\ UNCHANGED <<name, question, listens, backlog, reply, ended, words, to, claimed, deaths>>
  BY DEF Ask, Goto, files, asked, offers
<1>2. where \in {"refused", "asking"}
  OBVIOUS
<1> HIDE DEF where
<1>3. TypeOK'
  BY <1>1, <1>2 DEF RendezvousInv, TypeOK, Goto, Between
<1>4. reply[a] = Nobody
  BY <1>1 DEF RendezvousInv, ReplyInv
<1>5. BacklogInv' /\ ReplyInv' /\ OfferInv'
  BY <1>1, <1>2, <1>4, WordsStay
<1>6. AskedIsArmed' /\ AloneInv'
  BY <1>1, <1>2, ArmingStays DEF Between
<1> QED
  BY <1>3, <1>5, <1>6 DEF RendezvousInv

LEMMA LookStep ==
  ASSUME RendezvousInv, NEW a \in Askers, Look(a)
  PROVE  RendezvousInv'
<1> DEFINE where == IF name = Nobody THEN "free" ELSE "probing"
<1>1. /\ Goto(a, "asking", where) /\ pc[a] = "asking" /\ pc' = [pc EXCEPT ![a] = where]
      /\ UNCHANGED <<name, question, listens, backlog, reply, ended, words, to, claimed, deaths>>
  BY DEF Look, Goto, files, asked, offers
<1>2. where \in {"free", "probing"} /\ (where = "free" => name = Nobody)
  OBVIOUS
<1> HIDE DEF where
<1>3. TypeOK'
  BY <1>1, <1>2 DEF RendezvousInv, TypeOK, Goto, Between
<1>4. reply[a] = Nobody
  BY <1>1 DEF RendezvousInv, ReplyInv
<1>5. BacklogInv' /\ ReplyInv' /\ OfferInv'
  BY <1>1, <1>2, <1>4, WordsStay
<1>6. AskedIsArmed' /\ AloneInv'
  <2>1. CASE where = "probing"
    BY <1>1, <2>1, ArmingStays DEF Between
  <2>2. CASE where = "free"
    <3> SUFFICES ASSUME ~overlap' PROVE AskedIsArmed' /\ AloneInv'
      BY DEF AskedIsArmed, AloneInv
    <3>1. ~overlap /\ \A x \in Askers \ {a} : pc[x] \notin Between
      BY <1>1, <2>2 DEF Goto, Between
    <3>2. listens = {}
      <4>1. listens \subseteq Askers /\ Nobody \notin Askers /\ name = Nobody
        BY <1>2, <2>2, RendezvousAssumption, Types DEF RendezvousAssumption, RendezvousInv
      <4> QED
        BY <3>1, <4>1 DEF RendezvousInv, AskedIsArmed
    <3>3. \A b \in Askers : pc'[b] = IF b = a THEN "free" ELSE pc[b]
      BY <1>1, <2>2 DEF RendezvousInv, TypeOK
    <3>4. AskedIsArmed'
      BY <1>1, <3>2 DEF AskedIsArmed
    <3>5. AloneInv'
      BY <1>1, <1>2, <2>2, <3>1, <3>2, <3>3 DEF AloneInv, RendezvousInv, Between
    <3> QED
      BY <3>4, <3>5
  <2> QED
    BY <1>2, <2>1, <2>2
<1> QED
  BY <1>3, <1>5, <1>6 DEF RendezvousInv

LEMMA ProbeStep ==
  ASSUME RendezvousInv, NEW a \in Askers, ProbeIt(a)
  PROVE  RendezvousInv'
<1> DEFINE where == IF Answers(a) THEN "refused" ELSE "stale"
           queue(x) == IF x = name /\ x \in listens
                       THEN Append(backlog[x], Probe) ELSE backlog[x]
<1>1. /\ Goto(a, "probing", where) /\ pc[a] = "probing" /\ pc' = [pc EXCEPT ![a] = where]
      /\ UNCHANGED <<name, question, listens, reply, ended, words, to, claimed, deaths>>
      /\ backlog' = [x \in Askers |-> queue(x)]
  BY DEF ProbeIt, Goto, files, asked, offers
<1>2. where \in {"refused", "stale"} /\ (where = "stale" => name \notin listens)
  BY DEF Answers
<1> HIDE DEF where
<1>3. /\ reply[a] = Nobody
      /\ \A x \in Askers : backlog[x] \in Seq(Words \cup {Probe})
  BY <1>1 DEF RendezvousInv, ReplyInv, TypeOK
<1>4. \A x \in Askers : queue(x) \in Seq(Words \cup {Probe})
  BY <1>3
<1>5. \A x \in Askers : \A i \in DOMAIN queue(x) :
        queue(x)[i] # Probe => i \in DOMAIN backlog[x] /\ backlog[x][i] = queue(x)[i]
  <2> SUFFICES ASSUME NEW x \in Askers, NEW i \in DOMAIN queue(x), queue(x)[i] # Probe
               PROVE  i \in DOMAIN backlog[x] /\ backlog[x][i] = queue(x)[i]
    OBVIOUS
  <2>1. /\ Len(backlog[x]) \in Nat /\ DOMAIN backlog[x] = 1 .. Len(backlog[x])
        /\ DOMAIN Append(backlog[x], Probe) = 1 .. Len(backlog[x]) + 1
        /\ \A k \in 1 .. Len(backlog[x]) : Append(backlog[x], Probe)[k] = backlog[x][k]
        /\ Append(backlog[x], Probe)[Len(backlog[x]) + 1] = Probe
    BY <1>3
  <2> QED
    BY <2>1
<1>6. \A x \in Askers : backlog'[x] = queue(x)
  BY <1>1
<1> HIDE DEF queue
<1>7. TypeOK'
  BY <1>1, <1>2, <1>4, <1>6 DEF RendezvousInv, TypeOK, Goto, Between
<1>8. BacklogInv'
  BY <1>1, <1>5, <1>6 DEF RendezvousInv, BacklogInv
<1>9. \A b \in Askers : pc'[b] = IF b = a THEN where ELSE pc[b]
  BY <1>1 DEF RendezvousInv, TypeOK
<1>10. ReplyInv'
  BY <1>1, <1>2, <1>3, <1>9, RendezvousAssumption
         DEF RendezvousAssumption, RendezvousInv, ReplyInv
<1>11. OfferInv'
  BY <1>1 DEF RendezvousInv, OfferInv
<1>12. AskedIsArmed' /\ AloneInv'
  <2>1. CASE where = "refused"
    BY <1>1, <2>1, ArmingStays DEF Between
  <2>2. CASE where = "stale"
    <3> SUFFICES ASSUME ~overlap' PROVE AskedIsArmed' /\ AloneInv'
      BY DEF AskedIsArmed, AloneInv
    <3>1. ~overlap /\ \A x \in Askers \ {a} : pc[x] \notin Between
      BY <1>1, <2>2 DEF Goto, Between
    <3>2. listens = {}
      BY <1>2, <2>2, <3>1 DEF RendezvousInv, AskedIsArmed, TypeOK
    <3>3. AskedIsArmed'
      BY <1>1, <3>2 DEF AskedIsArmed
    <3>4. AloneInv'
      BY <1>1, <1>9, <2>2, <3>1, <3>2 DEF AloneInv, RendezvousInv, Between
    <3> QED
      BY <3>3, <3>4
  <2> QED
    BY <1>2, <2>1, <2>2
<1> QED
  BY <1>7, <1>8, <1>10, <1>11, <1>12 DEF RendezvousInv

\* Who is between two such steps is the only one, and nobody listens.
LEMMA Alone ==
  ASSUME RendezvousInv, NEW a \in Askers, NEW from \in Between, NEW where,
         Goto(a, from, where), ~overlap'
  PROVE  /\ ~overlap /\ listens = {}
         /\ \A x \in Askers : pc[x] \in Between => x = a
         /\ \A x \in Askers : pc'[x] = IF x = a THEN where ELSE pc[x]
<1>1. ~overlap /\ pc[a] \in Between
  BY DEF Goto
<1>2. listens = {} /\ \A x \in Askers : pc[x] \in Between => x = a
  BY <1>1 DEF RendezvousInv, AloneInv
<1>3. \A x \in Askers : pc'[x] = IF x = a THEN where ELSE pc[x]
  BY DEF Goto, RendezvousInv, TypeOK
<1> QED
  BY <1>1, <1>2, <1>3

LEMMA UnlinkStep ==
  ASSUME RendezvousInv, NEW a \in Askers, Unlink(a)
  PROVE  RendezvousInv'
<1>1. /\ Goto(a, "stale", "free") /\ pc[a] = "stale" /\ pc' = [pc EXCEPT ![a] = "free"]
      /\ name' = Nobody
      /\ UNCHANGED <<question, listens, backlog, reply, ended, words, to, claimed, deaths>>
  BY DEF Unlink, Goto, asked, offers
<1>2. TypeOK'
  BY <1>1 DEF RendezvousInv, TypeOK, Goto, Between
<1>3. reply[a] = Nobody
  BY <1>1 DEF RendezvousInv, ReplyInv
<1>4. BacklogInv' /\ ReplyInv' /\ OfferInv'
  BY <1>1, <1>3, WordsStay
<1>5. ASSUME ~overlap' PROVE AskedIsArmed' /\ AloneInv'
  <2>1. /\ ~overlap /\ listens = {}
        /\ \A x \in Askers : pc[x] \in Between => x = a
        /\ \A x \in Askers : pc'[x] = IF x = a THEN "free" ELSE pc[x]
    BY <1>1, <1>5, Alone DEF Between
  <2>2. AskedIsArmed'
    BY <1>1, <2>1 DEF AskedIsArmed
  <2>3. AloneInv'
    BY <1>1, <2>1 DEF RendezvousInv, AloneInv, Between
  <2> QED
    BY <2>2, <2>3
<1>6. AskedIsArmed' /\ AloneInv'
  BY <1>5 DEF AskedIsArmed, AloneInv
<1> QED
  BY <1>2, <1>4, <1>6 DEF RendezvousInv

LEMMA WriteStep ==
  ASSUME RendezvousInv, NEW a \in Askers, WriteQuestion(a)
  PROVE  RendezvousInv'
<1>1. /\ Goto(a, "free", "binding") /\ pc[a] = "free" /\ pc' = [pc EXCEPT ![a] = "binding"]
      /\ question' = a
      /\ UNCHANGED <<name, listens, backlog, reply, ended, words, to, claimed, deaths>>
  BY DEF WriteQuestion, Goto, asked, offers
<1>2. TypeOK'
  BY <1>1 DEF RendezvousInv, TypeOK, Goto, Between
<1>3. reply[a] = Nobody
  BY <1>1 DEF RendezvousInv, ReplyInv
<1>4. BacklogInv' /\ ReplyInv' /\ OfferInv'
  BY <1>1, <1>3, WordsStay
<1>5. ASSUME ~overlap' PROVE AskedIsArmed' /\ AloneInv'
  <2>1. /\ ~overlap /\ listens = {}
        /\ \A x \in Askers : pc[x] \in Between => x = a
        /\ \A x \in Askers : pc'[x] = IF x = a THEN "binding" ELSE pc[x]
    BY <1>1, <1>5, Alone DEF Between
  <2>2. AskedIsArmed'
    BY <1>1, <2>1 DEF AskedIsArmed
  <2>3. name = Nobody
    BY <1>1, <2>1 DEF RendezvousInv, AloneInv
  <2>4. AloneInv'
    BY <1>1, <2>1, <2>3 DEF RendezvousInv, AloneInv, Between
  <2> QED
    BY <2>2, <2>4
<1>6. AskedIsArmed' /\ AloneInv'
  BY <1>5 DEF AskedIsArmed, AloneInv
<1> QED
  BY <1>2, <1>4, <1>6 DEF RendezvousInv

LEMMA LinkStep ==
  ASSUME RendezvousInv, NEW a \in Askers, Link(a)
  PROVE  RendezvousInv'
<1>1. CASE Linked(a)
  <2>1. /\ Goto(a, "binding", "listening") /\ pc[a] = "binding"
        /\ pc' = [pc EXCEPT ![a] = "listening"]
        /\ name' = a /\ listens' = listens \cup {a}
        /\ UNCHANGED <<question, backlog, reply, ended, words, to, claimed, deaths>>
    BY <1>1 DEF Link, Goto, asked, offers
  <2>2. TypeOK'
    <3>1. \A x \in Askers : pc'[x] = IF x = a THEN "listening" ELSE pc[x]
      BY <2>1 DEF RendezvousInv, TypeOK
    <3>2. listens = {x \in Askers : pc[x] \in {"listening", "acking", "leaving"}}
      BY DEF RendezvousInv, TypeOK
    <3>3. \A x \in Askers :
            x \in listens' <=> pc'[x] \in {"listening", "acking", "leaving"}
      BY <2>1, <3>1, <3>2
    <3>4. listens' \subseteq Askers
      BY <2>1, <3>2
    <3>5. listens' = {x \in Askers : pc'[x] \in {"listening", "acking", "leaving"}}
      BY <3>3, <3>4
    <3>6. overlap' \in BOOLEAN
      BY <2>1 DEF RendezvousInv, TypeOK, Goto
    <3>7. pc' \in [Askers -> {"idle", "asking", "probing", "refused", "listening", "acking",
                            "leaving", "done", "dead"} \cup Between]
      BY <2>1 DEF RendezvousInv, TypeOK
    <3> QED
      BY <2>1, <3>5, <3>6, <3>7 DEF RendezvousInv, TypeOK
  <2>3. reply[a] = Nobody
    BY <2>1 DEF RendezvousInv, ReplyInv
  <2>4. BacklogInv' /\ ReplyInv' /\ OfferInv'
    BY <2>1, <2>3, WordsStay
  <2>5. ASSUME ~overlap' PROVE AskedIsArmed' /\ AloneInv'
    <3>1. /\ ~overlap /\ listens = {}
          /\ \A x \in Askers : pc[x] \in Between => x = a
          /\ \A x \in Askers : pc'[x] = IF x = a THEN "listening" ELSE pc[x]
      BY <2>1, <2>5, Alone DEF Between
    <3>2. question = a
      BY <2>1, <3>1 DEF RendezvousInv, AloneInv
    <3>3. AskedIsArmed'
      BY <2>1, <3>1, <3>2 DEF AskedIsArmed
    <3>4. \A x \in Askers : pc'[x] \notin Between
      BY <3>1 DEF Between
    <3>5. AloneInv'
      BY <3>4 DEF AloneInv, Between
    <3> QED
      BY <3>3, <3>5
  <2>6. AskedIsArmed' /\ AloneInv'
    BY <2>5 DEF AskedIsArmed, AloneInv
  <2> QED
    BY <2>2, <2>4, <2>6 DEF RendezvousInv
<1>2. CASE ~Linked(a)
  <2>1. /\ Goto(a, "binding", "taken") /\ pc[a] = "binding"
        /\ pc' = [pc EXCEPT ![a] = "taken"] /\ name # Nobody
        /\ UNCHANGED <<name, listens, question, backlog, reply, ended, words, to, claimed, deaths>>
    BY <1>2 DEF Link, Linked, Goto, asked, offers
  <2>2. TypeOK'
    BY <2>1 DEF RendezvousInv, TypeOK, Goto, Between
  <2>3. reply[a] = Nobody
    BY <2>1 DEF RendezvousInv, ReplyInv
  <2>4. BacklogInv' /\ ReplyInv' /\ OfferInv'
    BY <2>1, <2>3, WordsStay
  <2>5. overlap'
    <3> SUFFICES ASSUME ~overlap' PROVE FALSE
      BY DEF Goto, RendezvousInv, TypeOK
    <3>1. ~overlap
      BY <2>1, Alone DEF Between
    <3> QED
      BY <2>1, <3>1 DEF RendezvousInv, AloneInv
  <2>6. AskedIsArmed' /\ AloneInv'
    BY <2>5 DEF AskedIsArmed, AloneInv
  <2> QED
    BY <2>2, <2>4, <2>6 DEF RendezvousInv
<1> QED
  BY <1>1, <1>2

LEMMA TakenStep ==
  ASSUME RendezvousInv, NEW a \in Askers, Taken(a)
  PROVE  RendezvousInv'
<1>1. /\ Goto(a, "taken", "refused") /\ pc[a] = "taken" /\ pc' = [pc EXCEPT ![a] = "refused"]
      /\ question' = Nobody
      /\ UNCHANGED <<name, listens, backlog, reply, ended, words, to, claimed, deaths>>
  BY DEF Taken, Goto, asked, offers
<1>2. TypeOK'
  BY <1>1 DEF RendezvousInv, TypeOK, Goto, Between
<1>3. reply[a] = Nobody
  BY <1>1 DEF RendezvousInv, ReplyInv
<1>4. BacklogInv' /\ ReplyInv' /\ OfferInv'
  BY <1>1, <1>3, WordsStay
<1>5. ASSUME ~overlap' PROVE FALSE
  <2>1. ~overlap
    BY <1>1, <1>5, Alone DEF Between
  <2> QED
    BY <1>1, <2>1 DEF RendezvousInv, AloneInv
<1>6. AskedIsArmed' /\ AloneInv'
  BY <1>5 DEF AskedIsArmed, AloneInv
<1> QED
  BY <1>2, <1>4, <1>6 DEF RendezvousInv

LEMMA TimeoutStep ==
  ASSUME RendezvousInv, NEW a \in Askers, Timeout(a)
  PROVE  RendezvousInv'
<1>1. /\ Goto(a, "listening", "leaving") /\ pc[a] = "listening"
      /\ pc' = [pc EXCEPT ![a] = "leaving"] /\ ended' = [ended EXCEPT ![a] = "timeout"]
      /\ UNCHANGED <<name, question, listens, backlog, reply, words, to, claimed, deaths>>
  BY DEF Timeout, Goto, files, offers
<1>2. TypeOK'
  BY <1>1 DEF RendezvousInv, TypeOK, Goto, Between
<1>3. BacklogInv' /\ ReplyInv' /\ OfferInv'
  BY <1>1, WordsStay
<1>4. AskedIsArmed' /\ AloneInv'
  BY <1>1, ArmingStays DEF Between
<1> QED
  BY <1>2, <1>3, <1>4 DEF RendezvousInv

LEMMA UnnameStep ==
  ASSUME RendezvousInv, NEW a \in Askers, Unname(a)
  PROVE  RendezvousInv'
<1>1. /\ Goto(a, "closed", "unnamed") /\ pc[a] = "closed"
      /\ pc' = [pc EXCEPT ![a] = "unnamed"] /\ name' = Nobody
      /\ UNCHANGED <<question, listens, backlog, reply, ended, words, to, claimed, deaths>>
  BY DEF Unname, Goto, asked, offers
<1>2. TypeOK'
  BY <1>1 DEF RendezvousInv, TypeOK, Goto, Between
<1>3. BacklogInv' /\ ReplyInv' /\ OfferInv'
  BY <1>1, WordsStay
<1>4. ASSUME ~overlap' PROVE AskedIsArmed' /\ AloneInv'
  <2>1. /\ ~overlap /\ listens = {}
        /\ \A x \in Askers : pc[x] \in Between => x = a
        /\ \A x \in Askers : pc'[x] = IF x = a THEN "unnamed" ELSE pc[x]
    BY <1>1, <1>4, Alone DEF Between
  <2>2. AskedIsArmed'
    BY <1>1, <2>1 DEF AskedIsArmed
  <2>3. AloneInv'
    BY <1>1, <2>1 DEF RendezvousInv, AloneInv, Between
  <2> QED
    BY <2>2, <2>3
<1>5. AskedIsArmed' /\ AloneInv'
  BY <1>4 DEF AskedIsArmed, AloneInv
<1> QED
  BY <1>2, <1>3, <1>5 DEF RendezvousInv

LEMMA WithdrawStep ==
  ASSUME RendezvousInv, NEW a \in Askers, Withdraw(a)
  PROVE  RendezvousInv'
<1>1. /\ Goto(a, "unnamed", "done") /\ pc[a] = "unnamed"
      /\ pc' = [pc EXCEPT ![a] = "done"] /\ question' = Nobody
      /\ UNCHANGED <<name, listens, backlog, reply, ended, words, to, claimed, deaths>>
  BY DEF Withdraw, Goto, asked, offers
<1>2. TypeOK'
  BY <1>1 DEF RendezvousInv, TypeOK, Goto, Between
<1>3. BacklogInv' /\ ReplyInv' /\ OfferInv'
  BY <1>1, WordsStay
<1>4. ASSUME ~overlap' PROVE AskedIsArmed' /\ AloneInv'
  <2>1. /\ ~overlap /\ listens = {}
        /\ \A x \in Askers : pc[x] \in Between => x = a
        /\ \A x \in Askers : pc'[x] = IF x = a THEN "done" ELSE pc[x]
    BY <1>1, <1>4, Alone DEF Between
  <2>2. AskedIsArmed'
    BY <1>1, <2>1 DEF AskedIsArmed
  <2>3. AloneInv'
    BY <1>1, <2>1 DEF RendezvousInv, AloneInv, Between
  <2> QED
    BY <2>2, <2>3
<1>5. AskedIsArmed' /\ AloneInv'
  BY <1>4 DEF AskedIsArmed, AloneInv
<1> QED
  BY <1>2, <1>3, <1>5 DEF RendezvousInv

LEMMA ClaimStep ==
  ASSUME RendezvousInv, Claim PROVE RendezvousInv'
<1>1. /\ claimed' = ~claimed
      /\ UNCHANGED <<pc, name, question, listens, backlog, reply, ended, words, to, overlap, deaths>>
  BY DEF Claim, files, asked, offers
<1>2. TypeOK'
  BY <1>1 DEF RendezvousInv, TypeOK
<1>3. BacklogInv' /\ ReplyInv' /\ OfferInv'
  BY <1>1 DEF RendezvousInv, BacklogInv, ReplyInv, OfferInv
<1>4. AskedIsArmed' /\ AloneInv'
  BY <1>1 DEF RendezvousInv, AskedIsArmed, AloneInv
<1> QED
  BY <1>2, <1>3, <1>4 DEF RendezvousInv

-----------------------------------------------------------------------------
(* The socket closes *)

\* What waits at a socket that closes is typed by whoever offered it, and what
\* an asker has heard is still its own, unless it dies before it says so.
LEMMA ResetKeeps ==
  ASSUME RendezvousInv, NEW a \in Askers, Reset(a), listens' = listens \ {a},
         NEW where \in {"closed", "dead"}, pc' = [pc EXCEPT ![a] = where],
         reply' = [reply EXCEPT ![a] = IF pc[a] = "acking" THEN Nobody ELSE @]
  PROVE  BacklogInv' /\ ReplyInv' /\ OfferInv'
<1> USE RendezvousAssumption DEF RendezvousAssumption
<1>1. /\ \A x \in Askers : pc'[x] = IF x = a THEN where ELSE pc[x]
      /\ \A x \in Askers : /\ reply[x] \in Words \cup {Nobody}
                           /\ reply'[x] = reply[x] \/ reply'[x] = Nobody
                           /\ reply'[x] # reply[x] => x = a /\ pc[a] = "acking"
  BY DEF RendezvousInv, TypeOK
<1>2. /\ \A x \in Askers : backlog'[x] = IF x = a THEN <<>> ELSE backlog[x]
      /\ \A w \in Words :
           /\ words'[w] = IF to[w] = a /\ words[w] = "waiting" THEN "typed" ELSE words[w]
           /\ to'[w] = IF to[w] = a THEN Nobody ELSE to[w]
  BY DEF RendezvousInv, TypeOK, Reset
<1>3. \A x \in Askers : \A i \in DOMAIN backlog[x] :
        backlog[x][i] # Probe => backlog[x][i] \in Words
  BY Types DEF RendezvousInv
<1>4. BacklogInv'
  <2> SUFFICES ASSUME NEW x \in Askers, NEW i \in DOMAIN backlog'[x], backlog'[x][i] # Probe
               PROVE  /\ to'[backlog'[x][i]] = x
                      /\ words'[backlog'[x][i]] \in {"waiting", "typed"}
                      /\ \A y \in Askers : reply'[y] # backlog'[x][i]
                      /\ \A j \in DOMAIN backlog'[x] : backlog'[x][j] = backlog'[x][i] => j = i
    BY DEF BacklogInv
  <2>1. x # a /\ backlog'[x] = backlog[x]
    BY <1>2
  <2>2. /\ to[backlog[x][i]] = x /\ words[backlog[x][i]] \in {"waiting", "typed"}
        /\ \A y \in Askers : reply[y] # backlog[x][i]
        /\ \A j \in DOMAIN backlog[x] : backlog[x][j] = backlog[x][i] => j = i
        /\ backlog[x][i] \in Words
    BY <1>3, <2>1 DEF RendezvousInv, BacklogInv
  <2> QED
    BY <1>1, <1>2, <2>1, <2>2
<1>5. ReplyInv'
  BY <1>1, <1>2 DEF RendezvousInv, ReplyInv
<1>6. OfferInv'
  <2> SUFFICES ASSUME NEW w \in Words
               PROVE  /\ to'[w] # Nobody => words'[w] \in {"waiting", "answered", "typed"}
                      /\ words'[w] = "waiting" => to'[w] \in listens'
                      /\ words'[w] = "answered" => \E x \in Askers : reply'[x] = w
    BY DEF OfferInv
  <2>1. /\ to'[w] # Nobody => words'[w] \in {"waiting", "answered", "typed"}
        /\ words'[w] = "waiting" => to'[w] \in listens'
    BY <1>2 DEF RendezvousInv, OfferInv
  <2>2. ASSUME words'[w] = "answered" PROVE \E x \in Askers : reply'[x] = w
    <3>1. words[w] = "answered"
      BY <1>2, <2>2
    <3>2. PICK x \in Askers : reply[x] = w
      BY <3>1 DEF RendezvousInv, OfferInv
    <3>3. pc[x] # "acking"
      BY <3>1, <3>2 DEF RendezvousInv, ReplyInv
    <3> QED
      BY <1>1, <3>2, <3>3
  <2> QED
    BY <2>1, <2>2
<1> QED
  BY <1>4, <1>5, <1>6

\* The types of what a socket that closes changes.
LEMMA ResetTypes ==
  ASSUME TypeOK, NEW a \in Askers, Reset(a), listens' = listens \ {a},
         NEW where \in {"closed", "dead"}, pc' = [pc EXCEPT ![a] = where]
  PROVE  /\ pc' \in [Askers -> {"idle", "asking", "probing", "refused", "listening", "acking",
                                "leaving", "done", "dead"} \cup Between]
         /\ listens' = {x \in Askers : pc'[x] \in {"listening", "acking", "leaving"}}
         /\ backlog' \in [Askers -> Seq(Words \cup {Probe})]
         /\ words' \in [Words -> {"unsaid", "offering", "waiting", "answered", "typed"}]
         /\ to' \in [Words -> Askers \cup {Nobody}]
<1>1. \A x \in Askers : pc'[x] = IF x = a THEN where ELSE pc[x]
  BY DEF TypeOK
<1>2. pc' \in [Askers -> {"idle", "asking", "probing", "refused", "listening", "acking",
                          "leaving", "done", "dead"} \cup Between]
  BY DEF TypeOK, Between
<1>3. listens' = {x \in Askers : pc'[x] \in {"listening", "acking", "leaving"}}
  <2>1. listens = {x \in Askers : pc[x] \in {"listening", "acking", "leaving"}}
    BY DEF TypeOK
  <2> QED
    BY <1>1, <2>1
<1>4. backlog' \in [Askers -> Seq(Words \cup {Probe})]
  <2>1. <<>> \in Seq(Words \cup {Probe})
    OBVIOUS
  <2> QED
    BY <2>1 DEF TypeOK, Reset
<1>5. words' \in [Words -> {"unsaid", "offering", "waiting", "answered", "typed"}]
  BY DEF TypeOK, Reset
<1>6. to' \in [Words -> Askers \cup {Nobody}]
  BY DEF TypeOK, Reset
<1> QED
  BY <1>2, <1>3, <1>4, <1>5, <1>6

LEMMA CloseStep ==
  ASSUME RendezvousInv, NEW a \in Askers, CloseSocket(a)
  PROVE  RendezvousInv'
<1>1. /\ Goto(a, "leaving", "closed") /\ pc[a] = "leaving" /\ pc' = [pc EXCEPT ![a] = "closed"]
      /\ listens' = listens \ {a} /\ Reset(a)
      /\ UNCHANGED <<name, question, reply, ended, claimed, deaths>>
  BY DEF CloseSocket, Closed, Goto, asked
<1>2. TypeOK'
  <2>1. overlap' \in BOOLEAN
    BY <1>1 DEF RendezvousInv, TypeOK, Goto
  <2> QED
    BY <1>1, <2>1, ResetTypes DEF RendezvousInv, TypeOK
<1>3. reply' = [reply EXCEPT ![a] = IF pc[a] = "acking" THEN Nobody ELSE @]
  BY <1>1 DEF RendezvousInv, TypeOK
<1>4. BacklogInv' /\ ReplyInv' /\ OfferInv'
  BY <1>1, <1>3, ResetKeeps
<1>5. ASSUME ~overlap' PROVE AskedIsArmed' /\ AloneInv'
  <2>1. ~overlap /\ \A x \in Askers \ {a} : pc[x] \notin Between
    BY <1>1, <1>5 DEF Goto, Between
  <2>2. listens' = {}
    <3>1. listens \subseteq Askers /\ a \in listens
      BY <1>1, Types DEF RendezvousInv
    <3>2. \A x \in listens : x = name
      BY <2>1 DEF RendezvousInv, AskedIsArmed
    <3> QED
      BY <1>1, <3>1, <3>2
  <2>3. \A x \in Askers : pc'[x] = IF x = a THEN "closed" ELSE pc[x]
    BY <1>1 DEF RendezvousInv, TypeOK
  <2>4. AskedIsArmed'
    BY <2>2 DEF AskedIsArmed
  <2>5. AloneInv'
    BY <1>1, <2>1, <2>2, <2>3 DEF RendezvousInv, AloneInv, Between
  <2> QED
    BY <2>4, <2>5
<1>6. AskedIsArmed' /\ AloneInv'
  BY <1>5 DEF AskedIsArmed, AloneInv
<1> QED
  BY <1>2, <1>4, <1>6 DEF RendezvousInv

LEMMA DieStep ==
  ASSUME RendezvousInv, NEW a \in Askers, Die(a)
  PROVE  RendezvousInv'
<1>1. /\ pc' = [pc EXCEPT ![a] = "dead"] /\ deaths < MaxDeaths /\ deaths' = deaths + 1
      /\ listens' = listens \ {a} /\ Reset(a)
      /\ reply' = [reply EXCEPT ![a] = IF pc[a] = "acking" THEN Nobody ELSE @]
      /\ UNCHANGED <<name, question, ended, claimed, overlap>>
  BY DEF Die
<1>2. TypeOK'
  <2>1. deaths' \in 0 .. MaxDeaths
    <3>1. deaths \in 0 .. MaxDeaths /\ MaxDeaths \in Nat
      BY RendezvousAssumption DEF RendezvousInv, TypeOK, RendezvousAssumption
    <3> QED
      BY <1>1, <3>1
  <2>2. reply' \in [Askers -> Words \cup {Nobody}]
    BY <1>1 DEF RendezvousInv, TypeOK
  <2> QED
    BY <1>1, <2>1, <2>2, ResetTypes DEF RendezvousInv, TypeOK
<1>3. BacklogInv' /\ ReplyInv' /\ OfferInv'
  BY <1>1, ResetKeeps
<1>4. AskedIsArmed'
  BY <1>1 DEF RendezvousInv, AskedIsArmed
<1>5. AloneInv'
  <2>1. \A x \in Askers : pc'[x] = IF x = a THEN "dead" ELSE pc[x]
    BY <1>1 DEF RendezvousInv, TypeOK
  <2> QED
    BY <1>1, <2>1 DEF RendezvousInv, AloneInv, Between
<1> QED
  BY <1>2, <1>3, <1>4, <1>5 DEF RendezvousInv

-----------------------------------------------------------------------------
(* The wait *)

LEMMA TailOf ==
  ASSUME NEW E, NEW q \in Seq(E), q # <<>>
  PROVE  /\ Tail(q) \in Seq(E) /\ 1 \in DOMAIN q /\ Head(q) = q[1]
         /\ \A i \in DOMAIN Tail(q) : i + 1 \in DOMAIN q /\ i + 1 # 1 /\ Tail(q)[i] = q[i + 1]
         /\ \A i, j \in DOMAIN Tail(q) : i + 1 = j + 1 => i = j
<1>1. Len(q) \in Nat /\ Len(q) > 0 /\ DOMAIN q = 1 .. Len(q) /\ Head(q) = q[1]
  OBVIOUS
<1>2. /\ Tail(q) \in Seq(E) /\ DOMAIN Tail(q) = 1 .. Len(q) - 1
      /\ \A i \in 1 .. Len(q) - 1 : Tail(q)[i] = q[i + 1]
  BY <1>1
<1> QED
  BY <1>1, <1>2

LEMMA AcceptStep ==
  ASSUME RendezvousInv, NEW a \in Askers, Accept(a)
  PROVE  RendezvousInv'
<1> DEFINE q == backlog[a]
           w == Head(q)
<1>1. /\ pc[a] = "listening" /\ q # <<>>
      /\ backlog' = [backlog EXCEPT ![a] = Tail(q)]
      /\ UNCHANGED <<name, question, listens, to, claimed, deaths>>
  BY DEF Accept, files
<1>2. /\ q \in Seq(Words \cup {Probe}) /\ reply[a] = Nobody
      /\ \A x \in Askers : backlog'[x] = IF x = a THEN Tail(q) ELSE backlog[x]
  BY <1>1 DEF RendezvousInv, TypeOK, ReplyInv
<1>3. /\ Tail(q) \in Seq(Words \cup {Probe}) /\ 1 \in DOMAIN q /\ w = q[1]
      /\ \A i \in DOMAIN Tail(q) : i + 1 \in DOMAIN q /\ i + 1 # 1 /\ Tail(q)[i] = q[i + 1]
      /\ \A i, j \in DOMAIN Tail(q) : i + 1 = j + 1 => i = j
  BY <1>1, <1>2, TailOf
<1>4. backlog' \in [Askers -> Seq(Words \cup {Probe})]
  BY <1>1, <1>3 DEF RendezvousInv, TypeOK
<1>5. w \in Words \cup {Probe}
  BY <1>2, <1>3
<1>6. ASSUME NEW i \in DOMAIN Tail(q), Tail(q)[i] # Probe
      PROVE  /\ to[Tail(q)[i]] = a /\ words[Tail(q)[i]] \in {"waiting", "typed"}
             /\ \A y \in Askers : reply[y] # Tail(q)[i]
             /\ \A j \in DOMAIN Tail(q) : Tail(q)[j] = Tail(q)[i] => j = i
  <2>1. i + 1 \in DOMAIN q /\ q[i + 1] = Tail(q)[i]
    BY <1>3
  <2>2. /\ to[q[i + 1]] = a /\ words[q[i + 1]] \in {"waiting", "typed"}
        /\ \A y \in Askers : reply[y] # q[i + 1]
        /\ \A j \in DOMAIN q : q[j] = q[i + 1] => j = i + 1
    BY <1>6, <2>1 DEF RendezvousInv, BacklogInv
  <2>3. ASSUME NEW j \in DOMAIN Tail(q), Tail(q)[j] = Tail(q)[i] PROVE j = i
    <3>1. j + 1 \in DOMAIN q /\ q[j + 1] = q[i + 1]
      BY <1>3, <2>1, <2>3
    <3>2. j + 1 = i + 1
      BY <2>2, <3>1
    <3> QED
      BY <1>3, <3>2
  <2> QED
    BY <2>1, <2>2, <2>3
<1> HIDE DEF q, w
<1>7. CASE w = Probe
  <2>1. /\ Goto(a, "listening", "leaving") /\ pc' = [pc EXCEPT ![a] = "leaving"]
        /\ ended' = [ended EXCEPT ![a] = "nothing"]
        /\ UNCHANGED <<reply, words>>
    BY <1>7 DEF Accept, Goto, q, w
  <2>2. TypeOK'
    <3>1. ended' \in [Askers -> {"", "reply", "timeout", "nothing"}] /\ overlap' \in BOOLEAN
      BY <2>1 DEF RendezvousInv, TypeOK, Goto
    <3>2. pc' \in [Askers -> {"idle", "asking", "probing", "refused", "listening", "acking",
                              "leaving", "done", "dead"} \cup Between]
      BY <2>1 DEF RendezvousInv, TypeOK
    <3>3. listens' = {x \in Askers : pc'[x] \in {"listening", "acking", "leaving"}}
      BY <1>1, <2>1 DEF RendezvousInv, TypeOK
    <3> QED
      BY <1>1, <1>4, <2>1, <3>1, <3>2, <3>3 DEF RendezvousInv, TypeOK
  <2>3. BacklogInv'
    <3> SUFFICES ASSUME NEW x \in Askers, NEW i \in DOMAIN backlog'[x], backlog'[x][i] # Probe
                 PROVE  /\ to[backlog'[x][i]] = x
                        /\ words[backlog'[x][i]] \in {"waiting", "typed"}
                        /\ \A y \in Askers : reply[y] # backlog'[x][i]
                        /\ \A j \in DOMAIN backlog'[x] :
                             backlog'[x][j] = backlog'[x][i] => j = i
      BY <1>1, <2>1 DEF BacklogInv
    <3>1. CASE x = a
      BY <1>2, <1>6, <3>1
    <3>2. CASE x # a
      BY <1>2, <3>2 DEF RendezvousInv, BacklogInv
    <3> QED
      BY <3>1, <3>2
  <2>4. \A x \in Askers : pc'[x] = IF x = a THEN "leaving" ELSE pc[x]
    BY <2>1 DEF RendezvousInv, TypeOK
  <2>5. ReplyInv'
    BY <1>2, <2>1, <2>4, RendezvousAssumption DEF RendezvousInv, ReplyInv, RendezvousAssumption
  <2>6. OfferInv'
    BY <1>1, <2>1 DEF RendezvousInv, OfferInv
  <2>7. AskedIsArmed' /\ AloneInv'
    BY <1>1, <2>1, ArmingStays DEF Between
  <2> QED
    BY <2>2, <2>3, <2>5, <2>6, <2>7 DEF RendezvousInv
<1>8. CASE w # Probe
  <2>1. /\ Goto(a, "listening", "acking") /\ pc' = [pc EXCEPT ![a] = "acking"]
        /\ reply' = [reply EXCEPT ![a] = w]
        /\ words' = [words EXCEPT ![w] = words[w]] /\ ended' = ended
    BY <1>8 DEF Accept, Goto, Unacked, q, w
  <2>2. w \in Words /\ words' = words
    BY <1>5, <1>8, <2>1 DEF RendezvousInv, TypeOK
  <2>3. TypeOK'
    <3>1. reply' \in [Askers -> Words \cup {Nobody}]
      BY <2>1, <2>2 DEF RendezvousInv, TypeOK
    <3>2. overlap' \in BOOLEAN
      BY <2>1 DEF RendezvousInv, TypeOK, Goto
    <3>3. pc' \in [Askers -> {"idle", "asking", "probing", "refused", "listening", "acking",
                              "leaving", "done", "dead"} \cup Between]
      BY <2>1 DEF RendezvousInv, TypeOK
    <3>4. listens' = {x \in Askers : pc'[x] \in {"listening", "acking", "leaving"}}
      BY <1>1, <2>1 DEF RendezvousInv, TypeOK
    <3> QED
      BY <1>1, <1>4, <2>1, <2>2, <3>1, <3>2, <3>3, <3>4 DEF RendezvousInv, TypeOK
  <2>4. /\ to[w] = a /\ words[w] \in {"waiting", "typed"}
        /\ \A x \in Askers : reply[x] # w
        /\ \A j \in DOMAIN q : q[j] = w => j = 1
    BY <1>3, <1>8 DEF RendezvousInv, BacklogInv, q
  <2>5. \A x \in Askers : /\ reply'[x] = IF x = a THEN w ELSE reply[x]
                          /\ pc'[x] = IF x = a THEN "acking" ELSE pc[x]
                          /\ reply[x] \in Words \cup {Nobody}
    BY <2>1 DEF RendezvousInv, TypeOK
  <2>6. BacklogInv'
    <3> SUFFICES ASSUME NEW x \in Askers, NEW i \in DOMAIN backlog'[x], backlog'[x][i] # Probe
                 PROVE  /\ to[backlog'[x][i]] = x
                        /\ words[backlog'[x][i]] \in {"waiting", "typed"}
                        /\ \A y \in Askers : reply'[y] # backlog'[x][i]
                        /\ \A j \in DOMAIN backlog'[x] :
                             backlog'[x][j] = backlog'[x][i] => j = i
      BY <1>1, <2>2 DEF BacklogInv
    <3>1. CASE x = a
      <4>1. backlog'[x] = Tail(q)
        BY <1>2, <3>1
      <4>2. Tail(q)[i] # w
        <5>1. i + 1 \in DOMAIN q /\ i + 1 # 1 /\ q[i + 1] = Tail(q)[i]
          BY <1>3, <4>1
        <5> QED
          BY <2>4, <5>1
      <4>3. /\ to[Tail(q)[i]] = a /\ words[Tail(q)[i]] \in {"waiting", "typed"}
            /\ \A y \in Askers : reply[y] # Tail(q)[i]
            /\ \A j \in DOMAIN Tail(q) : Tail(q)[j] = Tail(q)[i] => j = i
        BY <1>6, <4>1
      <4>4. \A y \in Askers : reply'[y] # Tail(q)[i]
        BY <2>5, <4>2, <4>3
      <4> QED
        BY <3>1, <4>1, <4>3, <4>4
    <3>2. CASE x # a
      <4>1. /\ to[backlog[x][i]] = x /\ words[backlog[x][i]] \in {"waiting", "typed"}
            /\ \A y \in Askers : reply[y] # backlog[x][i]
            /\ \A j \in DOMAIN backlog[x] : backlog[x][j] = backlog[x][i] => j = i
        BY <1>2, <3>2 DEF RendezvousInv, BacklogInv
      <4> QED
        BY <1>2, <2>4, <2>5, <3>2, <4>1
    <3> QED
      BY <3>1, <3>2
  <2>7. ReplyInv'
    BY <2>2, <2>4, <2>5, RendezvousAssumption DEF RendezvousInv, ReplyInv, RendezvousAssumption
  <2>8. OfferInv'
    <3> SUFFICES ASSUME NEW v \in Words, words[v] = "answered"
                 PROVE  \E x \in Askers : reply'[x] = v
      BY <1>1, <2>2 DEF RendezvousInv, OfferInv
    <3>1. PICK x \in Askers : reply[x] = v
      BY DEF RendezvousInv, OfferInv
    <3>2. x # a
      BY <1>2, <3>1, RendezvousAssumption DEF RendezvousAssumption
    <3> QED
      BY <2>5, <3>1, <3>2
  <2>9. AskedIsArmed' /\ AloneInv'
    BY <1>1, <2>1, ArmingStays DEF Between
  <2> QED
    BY <2>3, <2>6, <2>7, <2>8, <2>9 DEF RendezvousInv
<1> QED
  BY <1>7, <1>8

LEMMA AckStep ==
  ASSUME RendezvousInv, NEW a \in Askers, Ack(a)
  PROVE  RendezvousInv'
<1> DEFINE w == reply[a]
<1>1. /\ Goto(a, "acking", "leaving") /\ pc[a] = "acking" /\ pc' = [pc EXCEPT ![a] = "leaving"]
      /\ ended' = [ended EXCEPT ![a] = "reply"]
      /\ words' = [words EXCEPT ![w] = IF @ = "waiting" THEN "answered" ELSE @]
      /\ UNCHANGED <<name, question, listens, backlog, reply, to, claimed, deaths>>
  BY DEF Ack, Goto, files
<1>2. w \in Words /\ words[w] \in {"waiting", "typed"}
  BY <1>1 DEF RendezvousInv, ReplyInv
<1>3. /\ \A x \in Askers : pc'[x] = IF x = a THEN "leaving" ELSE pc[x]
      /\ \A v \in Words :
           words'[v] = IF v = w /\ words[v] = "waiting" THEN "answered" ELSE words[v]
      /\ reply'[a] = w
  BY <1>1, <1>2 DEF RendezvousInv, TypeOK
<1>4. /\ \A x \in Askers : \A i \in DOMAIN backlog[x] :
           backlog[x][i] # Probe => backlog[x][i] \in Words /\ backlog[x][i] # w
      /\ \A x \in Askers : reply[x] = w => x = a
  <2>1. \A x \in Askers : \A i \in DOMAIN backlog[x] :
          backlog[x][i] # Probe => backlog[x][i] \in Words
    BY Types DEF RendezvousInv
  <2>2. w # Nobody
    BY <1>2, RendezvousAssumption DEF RendezvousAssumption
  <2>3. \A x \in Askers : reply[x] = w => x = a
    BY <2>2 DEF RendezvousInv, ReplyInv
  <2> QED
    BY <2>1, <2>3 DEF RendezvousInv, BacklogInv
<1> HIDE DEF w
<1>5. TypeOK'
  <2>1. words' \in [Words -> {"unsaid", "offering", "waiting", "answered", "typed"}]
    BY <1>1 DEF RendezvousInv, TypeOK
  <2>2. ended' \in [Askers -> {"", "reply", "timeout", "nothing"}] /\ overlap' \in BOOLEAN
    BY <1>1 DEF RendezvousInv, TypeOK, Goto
  <2>3. pc' \in [Askers -> {"idle", "asking", "probing", "refused", "listening", "acking",
                            "leaving", "done", "dead"} \cup Between]
    BY <1>1 DEF RendezvousInv, TypeOK
  <2>4. listens' = {x \in Askers : pc'[x] \in {"listening", "acking", "leaving"}}
    BY <1>1, <1>3 DEF RendezvousInv, TypeOK
  <2> QED
    BY <1>1, <2>1, <2>2, <2>3, <2>4 DEF RendezvousInv, TypeOK
<1>6. BacklogInv'
  BY <1>1, <1>3, <1>4 DEF RendezvousInv, BacklogInv
<1>7. ReplyInv'
  BY <1>1, <1>2, <1>3, <1>4 DEF RendezvousInv, ReplyInv
<1>8. OfferInv'
  BY <1>1, <1>3 DEF RendezvousInv, OfferInv
<1>9. AskedIsArmed' /\ AloneInv'
  BY <1>1, ArmingStays DEF Between
<1> QED
  BY <1>5, <1>6, <1>7, <1>8, <1>9 DEF RendezvousInv

-----------------------------------------------------------------------------
(* The offer *)

\* A transcript that is at no socket, or is given up by whoever offered it,
\* goes where nobody has to read it.
LEMMA OfferKeeps ==
  ASSUME RendezvousInv, NEW w \in Words, NEW where \in {"offering", "typed"},
         words[w] \in {"unsaid", "offering", "waiting"},
         where = "offering" => words[w] = "unsaid",
         words' = [words EXCEPT ![w] = where],
         UNCHANGED <<pc, name, question, listens, backlog, reply, ended, to, claimed, overlap, deaths>>
  PROVE  RendezvousInv'
<1>1. \A v \in Words : words'[v] = IF v = w THEN where ELSE words[v]
  BY DEF RendezvousInv, TypeOK
<1>2. TypeOK'
  BY DEF RendezvousInv, TypeOK
<1>3. \A x \in Askers : \A i \in DOMAIN backlog[x] :
        backlog[x][i] # Probe => backlog[x][i] \in Words
  BY Types DEF RendezvousInv
<1>4. BacklogInv'
  BY <1>1, <1>3 DEF RendezvousInv, BacklogInv
<1>5. ReplyInv'
  BY <1>1 DEF RendezvousInv, ReplyInv
<1>6. OfferInv'
  BY <1>1 DEF RendezvousInv, OfferInv
<1>7. AskedIsArmed' /\ AloneInv'
  BY DEF RendezvousInv, AskedIsArmed, AloneInv
<1> QED
  BY <1>2, <1>4, <1>5, <1>6, <1>7 DEF RendezvousInv

LEMMA OfferStep ==
  ASSUME RendezvousInv, NEW w \in Words, Offer(w)
  PROVE  RendezvousInv'
<1> DEFINE where == IF name = Nobody THEN "typed" ELSE "offering"
<1>1. /\ words[w] = "unsaid" /\ words' = [words EXCEPT ![w] = where]
      /\ UNCHANGED <<pc, name, question, listens, backlog, reply, ended, to, claimed, overlap, deaths>>
  BY DEF Offer, Says, Offering, files, asked
<1>2. where \in {"offering", "typed"}
  OBVIOUS
<1> HIDE DEF where
<1> QED
  BY <1>1, <1>2, OfferKeeps

LEMMA GiveUpStep ==
  ASSUME RendezvousInv, NEW w \in Words, GiveUp(w)
  PROVE  RendezvousInv'
<1>1. /\ words[w] = "waiting" /\ words' = [words EXCEPT ![w] = "typed"]
      /\ UNCHANGED <<pc, name, question, listens, backlog, reply, ended, to, claimed, overlap, deaths>>
  BY DEF GiveUp, Says, Offering, files, asked
<1> QED
  BY <1>1, OfferKeeps

LEMMA ConnectStep ==
  ASSUME RendezvousInv, NEW w \in Words, Connect(w)
  PROVE  RendezvousInv'
<1>1. CASE name \notin listens
  <2>1. /\ words[w] = "offering" /\ words' = [words EXCEPT ![w] = "typed"]
        /\ UNCHANGED <<pc, name, question, listens, backlog, reply, ended, to, claimed, overlap,
                       deaths>>
    BY <1>1 DEF Connect, Says, Offering, files, asked
  <2> QED
    BY <2>1, OfferKeeps
<1>2. CASE name \in listens
  <2> DEFINE q == backlog[name]
  <2>1. /\ words[w] = "offering" /\ words' = [words EXCEPT ![w] = "waiting"]
        /\ backlog' = [backlog EXCEPT ![name] = Append(q, w)]
        /\ to' = [to EXCEPT ![w] = name]
        /\ UNCHANGED <<pc, name, question, listens, reply, ended, claimed, overlap, deaths>>
    BY <1>2 DEF Connect, Says, Offering, files, asked
  <2>2. /\ name \in Askers /\ q \in Seq(Words \cup {Probe}) /\ Nobody \notin Askers
        /\ Nobody \notin Words
    BY <1>2, Types, RendezvousAssumption DEF RendezvousInv, TypeOK, RendezvousAssumption
  <2>3. /\ \A x \in Askers : backlog'[x] = IF x = name THEN Append(q, w) ELSE backlog[x]
        /\ \A v \in Words : /\ words'[v] = IF v = w THEN "waiting" ELSE words[v]
                            /\ to'[v] = IF v = w THEN name ELSE to[v]
    BY <2>1, <2>2 DEF RendezvousInv, TypeOK
  <2>4. /\ Len(q) \in Nat /\ DOMAIN q = 1 .. Len(q)
        /\ DOMAIN Append(q, w) = 1 .. Len(q) + 1 /\ Append(q, w)[Len(q) + 1] = w
        /\ \A i \in 1 .. Len(q) : Append(q, w)[i] = q[i]
        /\ Append(q, w) \in Seq(Words \cup {Probe})
    BY <2>2
  <2>5. /\ \A x \in Askers : \A i \in DOMAIN backlog[x] :
             backlog[x][i] # Probe => backlog[x][i] \in Words /\ backlog[x][i] # w
        /\ \A x \in Askers : reply[x] # w
    <3>1. \A x \in Askers : \A i \in DOMAIN backlog[x] :
            backlog[x][i] # Probe => backlog[x][i] \in Words
      BY Types DEF RendezvousInv
    <3>2. \A x \in Askers : reply[x] # w
      BY <2>1 DEF RendezvousInv, ReplyInv
    <3> QED
      BY <2>1, <3>1, <3>2 DEF RendezvousInv, BacklogInv
  <2>6. TypeOK'
    <3>1. backlog' \in [Askers -> Seq(Words \cup {Probe})]
      BY <2>1, <2>4 DEF RendezvousInv, TypeOK
    <3>2. words' \in [Words -> {"unsaid", "offering", "waiting", "answered", "typed"}]
      BY <2>1 DEF RendezvousInv, TypeOK
    <3>3. to' \in [Words -> Askers \cup {Nobody}]
      BY <2>1, <2>2 DEF RendezvousInv, TypeOK
    <3> QED
      BY <2>1, <3>1, <3>2, <3>3 DEF RendezvousInv, TypeOK
  <2>7. w # Probe
    BY RendezvousAssumption DEF RendezvousAssumption
  <2>8. \A x \in Askers : \A i \in DOMAIN backlog'[x] :
          \/ i \in DOMAIN backlog[x] /\ backlog'[x][i] = backlog[x][i]
          \/ x = name /\ i = Len(q) + 1 /\ backlog'[x][i] = w
    <3> SUFFICES ASSUME NEW x \in Askers, NEW i \in DOMAIN backlog'[x]
                 PROVE  \/ i \in DOMAIN backlog[x] /\ backlog'[x][i] = backlog[x][i]
                        \/ x = name /\ i = Len(q) + 1 /\ backlog'[x][i] = w
      OBVIOUS
    <3>1. CASE x # name
      BY <2>3, <3>1
    <3>2. CASE x = name
      <4>1. i \in 1 .. Len(q) + 1 /\ backlog'[x] = Append(q, w) /\ q = backlog[x]
        BY <2>3, <2>4, <3>2
      <4> HIDE DEF q
      <4>2. i \in 1 .. Len(q) \/ i = Len(q) + 1
        BY <2>4, <4>1
      <4> QED
        BY <2>4, <3>2, <4>1, <4>2
    <3> QED
      BY <3>1, <3>2
  <2> HIDE DEF q
  <2>9. BacklogInv'
    <3> SUFFICES ASSUME NEW x \in Askers, NEW i \in DOMAIN backlog'[x], backlog'[x][i] # Probe
                 PROVE  /\ to'[backlog'[x][i]] = x
                        /\ words'[backlog'[x][i]] \in {"waiting", "typed"}
                        /\ \A y \in Askers : reply[y] # backlog'[x][i]
                        /\ \A j \in DOMAIN backlog'[x] :
                             backlog'[x][j] = backlog'[x][i] => j = i
      BY <2>1 DEF BacklogInv
    <3>1. CASE x = name /\ i = Len(q) + 1 /\ backlog'[x][i] = w
      BY <2>3, <2>5, <2>7, <2>8, <3>1
    <3>2. CASE i \in DOMAIN backlog[x] /\ backlog'[x][i] = backlog[x][i]
      <4>1. /\ to[backlog[x][i]] = x /\ words[backlog[x][i]] \in {"waiting", "typed"}
            /\ \A y \in Askers : reply[y] # backlog[x][i]
            /\ \A j \in DOMAIN backlog[x] : backlog[x][j] = backlog[x][i] => j = i
            /\ backlog[x][i] \in Words /\ backlog[x][i] # w
        BY <2>5, <3>2 DEF RendezvousInv, BacklogInv
      <4> QED
        BY <2>3, <2>8, <3>2, <4>1
    <3> QED
      BY <2>8, <3>1, <3>2
  <2>10. ReplyInv'
    BY <2>1, <2>3, <2>5 DEF RendezvousInv, ReplyInv
  <2>11. OfferInv'
    BY <1>2, <2>1, <2>3 DEF RendezvousInv, OfferInv
  <2>12. AskedIsArmed' /\ AloneInv'
    BY <2>1 DEF RendezvousInv, AskedIsArmed, AloneInv
  <2> QED
    BY <2>6, <2>9, <2>10, <2>11, <2>12 DEF RendezvousInv
<1> QED
  BY <1>1, <1>2

-----------------------------------------------------------------------------
(* The theorems *)

\* What holds of every asker, backlog and transcript (RendezvousInv) is kept by
\* every step of the askers, of voice-bridge and of a process that dies.
LEMMA RendezvousStep == RendezvousInv /\ [Next]_vars => RendezvousInv'
<1> SUFFICES ASSUME RendezvousInv, [Next]_vars PROVE RendezvousInv'
  OBVIOUS
<1>1. CASE UNCHANGED vars
  <2>1. UNCHANGED <<pc, name, question, listens, backlog, reply, ended, words, to, claimed,
                    overlap, deaths>>
    BY <1>1 DEF vars, files, asked, offers
  <2>2. TypeOK'
    BY <2>1 DEF RendezvousInv, TypeOK
  <2>3. BacklogInv' /\ ReplyInv' /\ OfferInv'
    BY <2>1 DEF RendezvousInv, BacklogInv, ReplyInv, OfferInv
  <2>4. AskedIsArmed' /\ AloneInv'
    BY <2>1 DEF RendezvousInv, AskedIsArmed, AloneInv
  <2> QED
    BY <2>2, <2>3, <2>4 DEF RendezvousInv
<1>2. ASSUME NEW a \in Askers, Asker(a) PROVE RendezvousInv'
  BY <1>2, AskStep, LookStep, ProbeStep, UnlinkStep, WriteStep, LinkStep, TakenStep, AcceptStep,
     AckStep, TimeoutStep, CloseStep, UnnameStep, WithdrawStep DEF Asker
<1>3. ASSUME NEW a \in Askers, Die(a) PROVE RendezvousInv'
  BY <1>3, DieStep
<1>4. ASSUME NEW w \in Words, Bridge(w) PROVE RendezvousInv'
  BY <1>4, OfferStep, ConnectStep, GiveUpStep DEF Bridge
<1>5. ASSUME Claim PROVE RendezvousInv'
  BY <1>5, ClaimStep
<1> QED
  BY <1>1, <1>2, <1>3, <1>4, <1>5 DEF Next

\* Every reachable state satisfies the inductive invariant of the rendezvous.
THEOREM RendezvousSafe == Spec => []RendezvousInv
BY InitRendezvous, RendezvousStep, PTL DEF Spec

\* Every variable keeps its type, and the open sockets are those of the askers
\* that wait or leave.
THEOREM RendezvousTypes == Spec => []TypeOK
BY RendezvousSafe, PTL DEF RendezvousInv

\* Words whose offer was acknowledged are with the one asker that read them, and
\* words on their way are at an open socket: capture() types what the answer
\* does not return.
THEOREM WordsAreKept == Spec => []WordsKept
<1>1. RendezvousInv => WordsKept
  <2> SUFFICES ASSUME RendezvousInv, NEW w \in Words
               PROVE  Cardinality({a \in Askers : reply[a] = w}) <= 1
    BY DEF WordsKept, RendezvousInv, OfferInv
  <2> DEFINE S == {a \in Askers : reply[a] = w}
  <2>1. w # Nobody
    BY RendezvousAssumption DEF RendezvousAssumption
  <2>2. \A a, b \in S : a = b
    BY <2>1 DEF RendezvousInv, ReplyInv
  <2>3. CASE S = {}
    BY <2>3, FS_EmptySet
  <2>4. CASE S # {}
    <3>1. PICK a \in S : TRUE
      BY <2>4
    <3>2. S = {a}
      BY <2>2, <3>1
    <3>3. Cardinality({a}) = 1
      BY FS_Singleton
    <3>4. Cardinality(S) = Cardinality({a})
      BY <3>2, Zenon
    <3> QED
      BY <3>3, <3>4
  <2> QED
    BY <2>3, <2>4
<1> QED
  BY <1>1, RendezvousSafe, PTL

\* Unless two askers arm or leave at once, whoever listens has the name and the
\* question, whichever askers died before.
THEOREM ListenerIsAsked == Spec => []AskedIsArmed
BY RendezvousSafe, PTL DEF RendezvousInv

\* No asker takes the name from one that listens: os.link fails where a rename
\* would not.
THEOREM LinkTakesNobodysName == Spec => LinkTakesNothing
<1> DEFINE Fair == \A a \in Askers : name' = a /\ name # a => name \notin listens
<1>1. RendezvousInv /\ [Next]_vars => [Fair]_vars
  <2> SUFFICES ASSUME RendezvousInv, [Next]_vars, NEW b \in Askers, name' = b, name # b
               PROVE  name \notin listens
    OBVIOUS
  <2>1. Nobody \notin Askers /\ listens \subseteq Askers
    BY Types, RendezvousAssumption DEF RendezvousInv, RendezvousAssumption
  <2>2. ASSUME NEW a \in Askers, Asker(a) PROVE name' = name \/ name' = Nobody \/ name = Nobody
    BY <2>2 DEF Asker, Ask, Look, ProbeIt, Unlink, WriteQuestion, Link, Linked, Taken, Accept, Ack,
       Timeout, CloseSocket, Unname, Withdraw, files
  <2>3. ASSUME NEW a \in Askers, Die(a) PROVE name' = name
    BY <2>3 DEF Die
  <2>4. ASSUME NEW w \in Words, Bridge(w) PROVE name' = name
    BY <2>4 DEF Bridge, Offer, Connect, GiveUp, Offering, files
  <2>5. ASSUME Claim PROVE name' = name
    BY <2>5 DEF Claim, files
  <2>6. ASSUME UNCHANGED vars PROVE name' = name
    BY <2>6 DEF vars, files
  <2>7. name' = name \/ name' = Nobody \/ name = Nobody
    BY <2>2, <2>3, <2>4, <2>5, <2>6 DEF Next
  <2> QED
    BY <2>1, <2>7
<1> QED
  BY <1>1, RendezvousSafe, PTL DEF Spec, LinkTakesNothing
=============================================================================
