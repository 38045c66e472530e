---------------------------- MODULE ThreadEvents ----------------------------
(***************************************************************************)
(* The event stream of an open thread:                                     *)
(* packages/server/src/agent_media_server/thread_events.py.  One watcher   *)
(* per thread, shared by its connections, reads the thread again and again *)
(* and puts what changed on a bounded queue per connection; a connection   *)
(* subscribes, is sent a snapshot, and then what is on its queue.          *)
(*                                                                         *)
(* The handler threads, one per connection, and the watchers' threads meet *)
(* in one lock and in the queues; a step is what one of them does up to    *)
(* the next read of the thread, put, get or turn of the lock.  One thread  *)
(* of talk: its messages, each of which is there from some moment on and   *)
(* may be replaced, and one field that stands for all that is re-read      *)
(* whole (state, working, approval and so on).  A newer version of either  *)
(* has a higher number.  A watcher goes by the connection that started it. *)
(***************************************************************************)
EXTENDS Naturals, Sequences, FiniteSets

CONSTANTS
  Conns,       \* connections, numbered as they come; each subscribes once
  None,
  Ids,         \* the messages
  Field,       \* the field, beside them
  MaxVersion,  \* bound on the versions of a message and of the field
  QueueMax,    \* QUEUE_MAX
  MaxPerSession,
  MaxFails     \* bound on first reads that fail

ASSUME ThreadAssumption ==
  /\ Conns \subseteq Nat /\ None \notin Conns /\ Field \notin Ids
  /\ MaxVersion \in Nat \ {0} /\ QueueMax \in Nat \ {0} /\ MaxPerSession \in Nat \ {0}
  /\ MaxFails \in Nat

Things == Ids \cup {Field}

VARIABLES
  now,      \* the version of each thing; 0 before a message is there
  table,    \* _WATCHERS: the thread's watcher, or None
  subs,     \* Watcher.subs
  stopped,  \* watchers told to stop
  wat,      \* where each watcher's thread is
  sent,     \* Watcher._sigs and _last: the versions it last took note of, 0 for none
  got,      \* what it has read that differs and is yet to be told, 0 for the rest
  at,       \* where each connection is
  queue,    \* Subscriber.q
  dropped,  \* connections with Subscriber.dropped
  view,     \* what the client shows
  early,    \* history: connections with a snapshot older than the baseline
  blind,    \* history: watchers without a baseline
  lost,     \* history: connections that a put failed for
  fails

lifecycle == <<table, subs, stopped>>
watcher == <<wat, sent, got>>
client == <<queue, dropped, view>>
history == <<early, blind, lost, fails>>
vars == <<now, lifecycle, watcher, at, client, history>>

Nothing == [x \in Things |-> 0]

Init ==
  /\ now = [x \in Things |-> IF x = Field THEN 1 ELSE 0]
  /\ table = None /\ stopped = {}
  /\ subs = [w \in Conns |-> {}]
  /\ wat = [w \in Conns |-> "none"]
  /\ sent = [w \in Conns |-> Nothing]
  /\ got = [w \in Conns |-> Nothing]
  /\ at = [s \in Conns |-> "new"]
  /\ queue = [s \in Conns |-> <<>>]
  /\ dropped = {}
  /\ view = [s \in Conns |-> Nothing]
  /\ early = {} /\ blind = {} /\ lost = {} /\ fails = 0

\* A message appears or is replaced, or the field moves.
Change(x) ==
  /\ now[x] < MaxVersion
  /\ now' = [now EXCEPT ![x] = @ + 1]
  /\ UNCHANGED <<lifecycle, watcher, at, client, history>>

Goto(s, from, to) == at[s] = from /\ at' = [at EXCEPT ![s] = to]
Turns(w, from, to) == wat[w] = from /\ wat' = [wat EXCEPT ![w] = to]

-----------------------------------------------------------------------------
(* subscribe and unsubscribe, under the lock *)

\* Mutant: one more than the cap.
OverFull(w) == Cardinality(subs[w]) > MaxPerSession

Full(w) == Cardinality(subs[w]) >= MaxPerSession

Comes(s) == \A r \in Conns : r < s => at[r] # "new"

Refuse(s) ==
  /\ Comes(s) /\ table # None /\ Full(table)
  /\ Goto(s, "new", "refused")
  /\ UNCHANGED <<now, lifecycle, watcher, client, history>>

Join(s) ==
  /\ Comes(s) /\ table # None /\ ~Full(table)
  /\ Goto(s, "new", "joined")
  /\ subs' = [subs EXCEPT ![table] = @ \cup {s}]
  /\ UNCHANGED <<now, table, stopped, watcher, client, history>>

\* The first one makes the watcher, and takes its baseline.
First(s) ==
  /\ Comes(s) /\ table = None
  /\ Goto(s, "new", "priming")
  /\ table' = s
  /\ subs' = [subs EXCEPT ![s] = {s}]
  /\ Turns(s, "none", "priming")
  /\ UNCHANGED <<now, stopped, sent, got, client, history>>

\* Mutant: the last but one stops the watcher.
LastButOne(rest) == Cardinality(rest) <= 1

Vacant(rest) == rest = {}

\* Mutant: a stopped watcher stays in the table.
StaysListed(w) == table

Unlisted(w) == IF table = w THEN None ELSE table

\* Told to stop, the thread ends when it waits for its next turn, and what the
\* watcher knew goes with it.
Ends(w) ==
  /\ wat' = [wat EXCEPT ![w] = "ended"]
  /\ sent' = [sent EXCEPT ![w] = Nothing]
  /\ blind' = blind \ {w}

Wakes(w) == IF wat[w] = "running" THEN Ends(w) ELSE UNCHANGED <<wat, sent, blind>>

\* The last one out stops the watcher and takes it out.  What the connection
\* had goes with it.
Unsubscribe(s) ==
  /\ at' = [at EXCEPT ![s] = "left"]
  /\ queue' = [queue EXCEPT ![s] = <<>>]
  /\ view' = [view EXCEPT ![s] = Nothing]
  /\ dropped' = dropped \ {s} /\ early' = early \ {s} /\ lost' = lost \ {s}
  /\ \E w \in Conns :
       /\ s \in subs[w]
       /\ subs' = [subs EXCEPT ![w] = @ \ {s}]
       /\ IF Vacant(subs[w] \ {s})
          THEN stopped' = stopped \cup {w} /\ table' = Unlisted(w) /\ Wakes(w)
          ELSE UNCHANGED <<stopped, table, wat, sent, blind>>
  /\ UNCHANGED <<now, got, fails>>

-----------------------------------------------------------------------------
(* The watcher *)

\* prime: the baseline, of which nothing is put; then the thread is started.
Prime(w) ==
  /\ Turns(w, "priming", "running")
  /\ Goto(w, "priming", "joined")
  /\ sent' = [sent EXCEPT ![w] = now]
  /\ UNCHANGED <<now, lifecycle, got, client, history>>

PrimeFails(w) ==
  /\ Turns(w, "priming", "running")
  /\ Goto(w, "priming", "joined")
  /\ fails < MaxFails /\ fails' = fails + 1
  /\ blind' = blind \cup {w}
  /\ UNCHANGED <<now, lifecycle, sent, got, client, early, lost>>

Reads(w, things) ==
  /\ Turns(w, "running", "comparing")
  /\ LET news == {x \in things : now[x] # sent[w][x]} IN
     /\ news # {}
     /\ got' = [got EXCEPT ![w] = [x \in Things |-> IF x \in news THEN now[x] ELSE 0]]
  /\ UNCHANGED <<now, lifecycle, sent, at, client, history>>

\* _messages: the transcript alone, soon after it grew.
ReadMessages(w) == Reads(w, Ids)

\* _full: everything.
ReadAll(w) == Reads(w, Things)

News(w) == {x \in Things : got[w][x] # 0}

\* Mutant: a message is told like a field.
OnlyKnown(w, x) == sent[w][x] # 0

\* The first value of a field is left to the snapshot.
Told(w, x) == x # Field \/ sent[w][x] # 0

\* Mutant: an event that finds the queue full is lost, and no more.
LeftBe(some) == dropped

Behind(some) == dropped \cup some

\* _emit and Subscriber.put.
Put(some, x, version) ==
  LET full == {s \in some : Len(queue[s]) >= QueueMax} IN
  /\ queue' = [s \in Conns |-> IF s \in some \ full
                               THEN Append(queue[s], <<x, version, s \in lost>>)
                               ELSE queue[s]]
  /\ dropped' = Behind(full)
  /\ lost' = lost \cup full

\* _diff_messages, then _update of the field: noted, and put for everybody.
Tell(w, x) ==
  /\ wat[w] = "comparing" /\ x \in News(w)
  /\ x = Field => News(w) = {Field}
  /\ sent' = [sent EXCEPT ![w][x] = got[w][x]]
  /\ got' = [got EXCEPT ![w][x] = 0]
  /\ Put(IF Told(w, x) THEN subs[w] ELSE {}, x, got[w][x])
  /\ UNCHANGED <<now, lifecycle, wat, at, view, early, blind, fails>>

RoundOver(w) ==
  /\ wat[w] = "comparing" /\ News(w) = {}
  /\ IF w \in stopped THEN Ends(w)
     ELSE Turns(w, "comparing", "running") /\ UNCHANGED <<sent, blind>>
  /\ UNCHANGED <<now, lifecycle, got, at, client, early, lost, fails>>

-----------------------------------------------------------------------------
(* serve, on the connection's own thread *)

Snapshot(s) ==
  /\ Goto(s, "joined", "open")
  /\ view' = [view EXCEPT ![s] = now]
  /\ early' = IF \E w \in Conns : s \in subs[w] /\ wat[w] = "priming"
              THEN early \cup {s} ELSE early
  /\ UNCHANGED <<now, lifecycle, watcher, queue, dropped, blind, lost, fails>>

Look(s) ==
  /\ s \notin dropped
  /\ Goto(s, "open", "getting")
  /\ UNCHANGED <<now, lifecycle, watcher, client, history>>

\* Too far behind: the client connects anew, for a new snapshot.
FellBehind(s) == at[s] = "open" /\ s \in dropped /\ Unsubscribe(s)

Get(s) ==
  /\ queue[s] # <<>>
  /\ Goto(s, "getting", "open")
  /\ LET e == Head(queue[s]) IN view' = [view EXCEPT ![s][e[1]] = e[2]]
  /\ queue' = [queue EXCEPT ![s] = Tail(@)]
  /\ UNCHANGED <<now, lifecycle, watcher, dropped, history>>

\* A write fails, or the snapshot does.
Disconnect(s) == at[s] \in {"joined", "open", "getting"} /\ Unsubscribe(s)

-----------------------------------------------------------------------------
Watcher(w) == Prime(w) \/ ReadAll(w) \/ (\E x \in Things : Tell(w, x)) \/ RoundOver(w)
Connection(s) == Snapshot(s) \/ Look(s) \/ FellBehind(s) \/ Get(s)

Next ==
  \/ \E x \in Things : Change(x)
  \/ \E s \in Conns : Refuse(s) \/ Join(s) \/ First(s) \/ Connection(s) \/ Disconnect(s)
  \/ \E w \in Conns : PrimeFails(w) \/ ReadMessages(w) \/ Watcher(w)

Spec == Init /\ [][Next]_vars

\* The threads go on, and a full read comes every three seconds at most; the
\* thread need not change, and clients neither come nor go.
Fairness ==
  /\ \A w \in Conns : WF_vars(Watcher(w))
  /\ \A s \in Conns : WF_vars(Connection(s))

FairSpec == Spec /\ Fairness

-----------------------------------------------------------------------------
(* Properties *)

Attached == {"priming", "joined", "open", "getting"}

TypeOK ==
  /\ now \in [Things -> 0..MaxVersion]
  /\ table \in Conns \cup {None} /\ stopped \subseteq Conns
  /\ subs \in [Conns -> SUBSET Conns]
  /\ \A w \in Conns : Cardinality(subs[w]) <= MaxPerSession
  /\ wat \in [Conns -> {"none", "priming", "running", "comparing", "ended"}]
  /\ sent \in [Conns -> [Things -> 0..MaxVersion]]
  /\ got \in [Conns -> [Things -> 0..MaxVersion]]
  /\ at \in [Conns -> Attached \cup {"new", "refused", "left"}]
  /\ queue \in [Conns -> Seq(Things \X (1..MaxVersion) \X BOOLEAN)]
  /\ \A s \in Conns : Len(queue[s]) <= QueueMax
  /\ dropped \subseteq Conns
  /\ view \in [Conns -> [Things -> 0..MaxVersion]]
  /\ early \subseteq Conns /\ blind \subseteq Conns /\ lost \subseteq Conns
  /\ fails \in 0..MaxFails

\* Whoever is connected is served by the one watcher that the table names, and
\* that one has not been told to stop, however the last one's leaving and the
\* next one's coming fall together (subscribe: "A watcher in the table always
\* has subscribers: the last one out takes it out").
ServedByOne ==
  /\ \A s \in Conns : at[s] \in Attached =>
       table # None /\ s \in subs[table] /\ table \notin stopped
  /\ \A w \in Conns : subs[w] # {} <=> w = table

\* What a client that shows a version of x comes to show once it is through the
\* queue q is no older than v.
Events(q, x) == {i \in DOMAIN q : q[i][1] = x}
Reaches(q, x, shown, v) ==
  \/ \E i \in Events(q, x) : (\A j \in Events(q, x) : j <= i) /\ q[i][2] >= v
  \/ Events(q, x) = {} /\ shown >= v

\* The snapshot, while it has yet to be sent.
Shown(s, x) == IF at[s] \in {"priming", "joined"} THEN now[x] ELSE view[s][x]

\* What the watcher has taken note of, and so will not send again, every
\* connection has got or will get.
Has(s, w, x) == s \notin dropped => Reaches(queue[s], x, Shown(s, x), sent[w][x])

\* Nothing is lost between a snapshot and the events after it, for a connection
\* whose snapshot is newer than the baseline; of the field, under a watcher that
\* has one.
InStep ==
  \A w \in Conns : \A s \in subs[w] \ early : \A x \in Things :
    (x = Field => w \notin blind) => Has(s, w, x)

\* "Subscribed first, then the snapshot: anything that changes while it is built
\* is queued behind it rather than lost" (serve), of every connection.
NothingLost == \A w \in Conns : \A s \in subs[w] : \A x \in Ids : Has(s, w, x)

\* A client that lost an event is shown none that was put after it: it is
\* disconnected first (Subscriber.put).
NoGap ==
  [][\A s \in Conns : at[s] = "getting" /\ at'[s] = "open" => ~Head(queue[s])[3]]_vars

\* A connection that stays comes to show the thread as it is.
CatchesUp ==
  \A s \in Conns :
    <>[](at[s] \in Attached /\ s \notin early /\ blind = {}) => <>[](view[s] = now)
=============================================================================
