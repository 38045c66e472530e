----------------------------- MODULE Rendezvous -----------------------------
(***************************************************************************)
(* Where a spoken question waits for its answer: class Rendezvous and      *)
(* offer() of packages/core/src/agent_media_core/capture/rendezvous.py.    *)
(* converse() (mcp_server.py) arms a unix socket under one fixed name and  *)
(* waits; voice-bridge offers it the next transcript and types the words   *)
(* into the pane when nobody takes them.                                   *)
(*                                                                         *)
(* Askers are converse calls of different media-mcp processes, any of      *)
(* which may die; words are transcripts.  A socket's name is a file that   *)
(* outlives the socket, and the question is another file.  A step is one   *)
(* system call.  The file system takes hard links, and claims on the input *)
(* come and go (module InputClaim).                                        *)
(***************************************************************************)
EXTENDS Naturals, Sequences, FiniteSets

CONSTANTS
  Askers,
  Words,
  Probe,      \* a connection that only looks whether anybody answers
  Nobody,
  MaxDeaths   \* bound on askers whose process dies

ASSUME RendezvousAssumption ==
  /\ Probe \notin Words /\ Nobody \notin Askers \cup Words /\ Askers \cap Words = {}
  /\ MaxDeaths \in Nat

VARIABLES
  pc,        \* where each asker is
  name,      \* whose socket socket_path() leads to
  question,  \* whose question is in question_path()
  listens,   \* askers whose socket is open
  backlog,   \* connections it has not accepted
  reply,     \* what it heard: Nobody, or the words
  ended,     \* how its wait ended: "", "reply", "timeout", "nothing"
  words,     \* where each transcript is
  to,        \* whose socket it is connected to
  claimed,   \* whether somebody off this host owns the input
  overlap,   \* history: whether two askers have been between two such steps at once
  deaths

files == <<name, question, listens>>
asked == <<reply, ended>>
offers == <<words, to>>
vars == <<pc, files, backlog, asked, offers, claimed, overlap, deaths>>

Init ==
  /\ pc = [a \in Askers |-> "idle"]
  /\ name = Nobody /\ question = Nobody /\ listens = {}
  /\ backlog = [a \in Askers |-> <<>>]
  /\ reply = [a \in Askers |-> Nobody]
  /\ ended = [a \in Askers |-> ""]
  /\ words = [w \in Words |-> "unsaid"]
  /\ to = [w \in Words |-> Nobody]
  /\ claimed = FALSE
  /\ overlap = FALSE
  /\ deaths = 0

\* Between finding the name free or dead and publishing its own, or closing its
\* socket and removing its files.
Between == {"stale", "free", "binding", "taken", "closed", "unnamed"}

Goto(a, from, where) ==
  /\ pc[a] = from /\ pc' = [pc EXCEPT ![a] = where]
  /\ overlap' =
       \/ overlap
       \/ where \in Between /\ \E x \in Askers \ {a} : pc[x] \in Between

\* Connections to a socket that closes: their peers read the end of file and
\* type the words.
Reset(a) ==
  /\ backlog' = [backlog EXCEPT ![a] = <<>>]
  /\ words' = [w \in Words |->
       IF to[w] = a /\ words[w] = "waiting" THEN "typed" ELSE words[w]]
  /\ to' = [w \in Words |-> IF to[w] = a THEN Nobody ELSE to[w]]

-----------------------------------------------------------------------------
(* __enter__ *)

Ask(a) ==
  /\ Goto(a, "idle", IF claimed THEN "refused" ELSE "asking")
  /\ UNCHANGED <<files, backlog, asked, offers, claimed, deaths>>

\* path.exists().
Look(a) ==
  /\ Goto(a, "asking", IF name = Nobody THEN "free" ELSE "probing")
  /\ UNCHANGED <<files, backlog, asked, offers, claimed, deaths>>

\* Mutant: the socket that is there is taken for a dead one.
Dead(a) == FALSE

\* _is_live: whether the connection is taken.
Answers(a) == name \in listens

\* The probe connects, to whoever has the name by now, and closes.
ProbeIt(a) ==
  /\ Goto(a, "probing", IF Answers(a) THEN "refused" ELSE "stale")
  /\ backlog' = [x \in Askers |-> IF x = name /\ x \in listens
                                  THEN Append(backlog[x], Probe) ELSE backlog[x]]
  /\ UNCHANGED <<files, asked, offers, claimed, deaths>>

Unlink(a) ==
  /\ Goto(a, "stale", "free")
  /\ name' = Nobody
  /\ UNCHANGED <<question, listens, backlog, asked, offers, claimed, deaths>>

WriteQuestion(a) ==
  /\ Goto(a, "free", "binding")
  /\ question' = a
  /\ UNCHANGED <<name, listens, backlog, asked, offers, claimed, deaths>>

\* Mutant: the name is renamed over.
Replaced(a) == TRUE

\* link() fails when the name is taken.
Linked(a) == name = Nobody

\* bind and listen under another name, then the link.
Link(a) ==
  /\ pc[a] = "binding"
  /\ IF Linked(a)
     THEN /\ Goto(a, "binding", "listening")
          /\ name' = a /\ listens' = listens \cup {a}
     ELSE Goto(a, "binding", "taken") /\ UNCHANGED <<name, listens>>
  /\ UNCHANGED <<question, backlog, asked, offers, claimed, deaths>>

\* Busy; the question is withdrawn.
Taken(a) ==
  /\ Goto(a, "taken", "refused")
  /\ question' = Nobody
  /\ UNCHANGED <<name, listens, backlog, asked, offers, claimed, deaths>>

-----------------------------------------------------------------------------
(* wait *)

\* Mutant: the answer is acknowledged when its connection is taken.
EarlyAck(w) == IF words[w] = "waiting" THEN "answered" ELSE words[w]

\* Taken, and nothing said yet.
Unacked(w) == words[w]

\* accept, and the line that was sent: none from a probe.
Accept(a) ==
  /\ pc[a] = "listening" /\ backlog[a] # <<>>
  /\ LET w == Head(backlog[a]) IN
       IF w = Probe
       THEN /\ Goto(a, "listening", "leaving")
            /\ ended' = [ended EXCEPT ![a] = "nothing"]
            /\ UNCHANGED <<reply, words>>
       ELSE /\ Goto(a, "listening", "acking")
            /\ reply' = [reply EXCEPT ![a] = w]
            /\ words' = [words EXCEPT ![w] = Unacked(w)]
            /\ UNCHANGED ended
  /\ backlog' = [backlog EXCEPT ![a] = Tail(@)]
  /\ UNCHANGED <<files, to, claimed, deaths>>

\* The acknowledgement, to a peer that may have left, and the return.
Ack(a) ==
  /\ Goto(a, "acking", "leaving")
  /\ ended' = [ended EXCEPT ![a] = "reply"]
  /\ LET w == reply[a] IN
       words' = [words EXCEPT ![w] = IF @ = "waiting" THEN "answered" ELSE @]
  /\ UNCHANGED <<files, backlog, reply, to, claimed, deaths>>

Timeout(a) ==
  /\ Goto(a, "listening", "leaving")
  /\ ended' = [ended EXCEPT ![a] = "timeout"]
  /\ UNCHANGED <<files, backlog, reply, offers, claimed, deaths>>

-----------------------------------------------------------------------------
(* __exit__, and the end of a process *)

\* Mutant: the socket is left open.
LeftOpen(a) == listens

Closed(a) == listens \ {a}

CloseSocket(a) ==
  /\ Goto(a, "leaving", "closed")
  /\ listens' = Closed(a)
  /\ Reset(a)
  /\ UNCHANGED <<name, question, asked, claimed, deaths>>

\* Whoever has the name by now.
Unname(a) ==
  /\ Goto(a, "closed", "unnamed")
  /\ name' = Nobody
  /\ UNCHANGED <<question, listens, backlog, asked, offers, claimed, deaths>>

Withdraw(a) ==
  /\ Goto(a, "unnamed", "done")
  /\ question' = Nobody
  /\ UNCHANGED <<name, listens, backlog, asked, offers, claimed, deaths>>

\* The files stay; what it heard and did not return is gone with it.
Die(a) ==
  /\ pc[a] \notin {"idle", "refused", "done", "dead"} /\ deaths < MaxDeaths
  /\ deaths' = deaths + 1
  /\ pc' = [pc EXCEPT ![a] = "dead"]
  /\ listens' = listens \ {a}
  /\ Reset(a)
  /\ reply' = [reply EXCEPT ![a] = IF pc[a] = "acking" THEN Nobody ELSE @]
  /\ UNCHANGED <<name, question, ended, claimed, overlap>>

-----------------------------------------------------------------------------
(* offer, in voice-bridge *)

Says(w, from, where) == words[w] = from /\ words' = [words EXCEPT ![w] = where]
Offering == UNCHANGED <<pc, files, asked, claimed, overlap, deaths>>

Offer(w) ==
  /\ Says(w, "unsaid", IF name = Nobody THEN "typed" ELSE "offering")
  /\ UNCHANGED <<backlog, to>> /\ Offering

Connect(w) ==
  /\ IF name \in listens
     THEN /\ Says(w, "offering", "waiting")
          /\ backlog' = [backlog EXCEPT ![name] = Append(@, w)]
          /\ to' = [to EXCEPT ![w] = name]
     ELSE Says(w, "offering", "typed") /\ UNCHANGED <<backlog, to>>
  /\ Offering

\* No answer within two seconds; what was sent can still be read.
GiveUp(w) ==
  /\ Says(w, "waiting", "typed")
  /\ UNCHANGED <<backlog, to>> /\ Offering

Claim ==
  /\ claimed' = ~claimed
  /\ UNCHANGED <<pc, files, backlog, asked, offers, overlap, deaths>>

-----------------------------------------------------------------------------
Asker(a) ==
  \/ Ask(a) \/ Look(a) \/ ProbeIt(a) \/ Unlink(a) \/ WriteQuestion(a) \/ Link(a) \/ Taken(a)
  \/ Accept(a) \/ Ack(a) \/ Timeout(a) \/ CloseSocket(a) \/ Unname(a) \/ Withdraw(a)
Bridge(w) == Offer(w) \/ Connect(w) \/ GiveUp(w)

Next ==
  \/ \E a \in Askers : Asker(a) \/ Die(a)
  \/ \E w \in Words : Bridge(w)
  \/ Claim

Spec == Init /\ [][Next]_vars

-----------------------------------------------------------------------------
(* Properties *)

TypeOK ==
  /\ pc \in [Askers -> {"idle", "asking", "probing", "refused", "listening", "acking", "leaving",
                        "done", "dead"} \cup Between]
  /\ name \in Askers \cup {Nobody} /\ question \in Askers \cup {Nobody}
  /\ listens = {a \in Askers : pc[a] \in {"listening", "acking", "leaving"}}
  /\ backlog \in [Askers -> Seq(Words \cup {Probe})]
  /\ reply \in [Askers -> Words \cup {Nobody}]
  /\ ended \in [Askers -> {"", "reply", "timeout", "nothing"}]
  /\ words \in [Words -> {"unsaid", "offering", "waiting", "answered", "typed"}]
  /\ to \in [Words -> Askers \cup {Nobody}]
  /\ claimed \in BOOLEAN /\ overlap \in BOOLEAN /\ deaths \in 0..MaxDeaths

\* What somebody said is never dropped: words whose offer was acknowledged are
\* with an asker, the only one that has them, and words still on their way are
\* at a socket that is open (rendezvous.py: "A human's words are never dropped
\* on the floor").
WordsKept ==
  \A w \in Words :
    /\ words[w] = "answered" => \E a \in Askers : reply[a] = w
    /\ words[w] = "waiting" => to[w] \in listens
    /\ Cardinality({a \in Askers : reply[a] = w}) <= 1

\* Publishing a socket takes the name from nobody who listens, of however many
\* askers that saw it free (the comment at os.link).
LinkTakesNothing ==
  [][\A a \in Askers : name' = a /\ name # a => name \notin listens]_vars

\* Unless two askers arm or leave at once, whoever listens has the name and the
\* question, also after others died: what pending_question() shows is what the
\* one who answers is answering.
AskedIsArmed == ~overlap => \A a \in listens : name = a /\ question = a

\* A wait ends with a reply or at its time-out; a second asker that comes
\* meanwhile is refused and costs the first nothing (wait: "Returns the text, or
\* None on timeout"; the test test_concurrent_converse_is_refused_not_clobbered).
NotClobbered == \A a \in Askers : ended[a] # "nothing"
=============================================================================
