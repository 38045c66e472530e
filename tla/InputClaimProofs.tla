-------------------------- MODULE InputClaimProofs --------------------------
(***************************************************************************)
(* Theorems about InputClaim for any phones and any bounds: its types, and *)
(* that a release in flight costs the next conversation no claim.          *)
(***************************************************************************)
EXTENDS InputClaim, TLAPS

\* A conversation that has not begun has no worker and no release; one that is
\* on, no release; and a worker that rests is that of one that is on.
ThreadInv ==
  /\ \A t \in Threads : t[2] > gen[t[1]] => worker[t] = "none" /\ rel[t] = "none"
  /\ \A p \in active : rel[<<p, gen[p]>>] = "none"
  /\ \A t \in Threads : worker[t] = "resting" => t[1] \in active /\ t[2] = gen[t[1]]

\* Who waits for the answer to a request.
Sender(r) ==
  /\ r[3] = "beat" => worker[<<r[1], r[2]>>] = "posting"
  /\ r[3] = "release" => rel[<<r[1], r[2]>>] = "sent"
  /\ r[3] = "again" => rel[<<r[1], r[2]>>] = "again"

\* As long as every request is answered in time, each has its sender waiting.
AnsweredInv == troubles = 0 => left = {} /\ \A r \in Requests : req[r] # "none" => Sender(r)

\* As long as the phone is the only one that ever was hot and every request is
\* answered in time, the claim is its own or nobody's; and while it is hot the
\* claim is on file, or a request that makes it is on its way, or a release is
\* that will be followed by one.
Alone(p) == troubles = 0 /\ \A q \in Phones \ {p} : gen[q] = 0

Coming(p) ==
  \/ req[<<p, gen[p], "beat">>] = "sent"
  \/ \E t \in Threads :
       /\ t[1] = p
       /\ rel[t] \in {"sent", "stale"} \/ (rel[t] = "again" /\ req[<<p, t[2], "again">>] = "sent")

ClaimInv == \A p \in Phones : Alone(p) => (p \in active => claim = p \/ Coming(p))

-----------------------------------------------------------------------------
(* Threads and their requests *)

Kinds == {"beat", "release", "again"}

LEMMA ThreadIs ==
  ASSUME NEW t \in Threads
  PROVE  /\ t = <<t[1], t[2]>> /\ t[1] \in Phones /\ t[2] \in Nat /\ t[2] > 0
         /\ \A k \in Kinds : <<t[1], t[2], k>> \in Requests
<1>1. PICK p \in Phones : t \in {p} \X (1 .. MaxStarts[p])
  BY DEF Threads
<1>2. MaxStarts[p] \in Nat
  BY ClaimAssumption DEF ClaimAssumption
<1>3. t = <<t[1], t[2]>> /\ t[1] \in Phones /\ t[2] \in Nat /\ t[2] > 0
  BY <1>1, <1>2
<1>4. \A k \in Kinds : <<t[1], t[2], k>> \in Requests
  BY DEF Requests, Kinds
<1> QED
  BY <1>3, <1>4

LEMMA ThreadOf ==
  ASSUME NEW p \in Phones, NEW n \in Nat, n > 0, n <= MaxStarts[p]
  PROVE  <<p, n>> \in Threads
<1>1. MaxStarts[p] \in Nat
  BY ClaimAssumption DEF ClaimAssumption
<1>2. n \in 1 .. MaxStarts[p]
  BY <1>1
<1>3. <<p, n>> \in {p} \X (1 .. MaxStarts[p])
  BY <1>2
<1> QED
  BY <1>3 DEF Threads

LEMMA RequestIs ==
  ASSUME NEW r \in Requests
  PROVE  /\ r = <<r[1], r[2], r[3]>> /\ <<r[1], r[2]>> \in Threads /\ r[3] \in Kinds
         /\ r[1] \in Phones /\ r[2] \in Nat /\ r[2] > 0
<1>1. PICK t \in Threads, k \in Kinds : r = <<t[1], t[2], k>>
  BY DEF Requests, Kinds
<1>2. r[1] = t[1] /\ r[2] = t[2] /\ r[3] = k
  BY <1>1
<1>3. <<r[1], r[2]>> = t /\ t[1] \in Phones /\ t[2] \in Nat /\ t[2] > 0
  BY <1>2, ThreadIs
<1> QED
  BY <1>1, <1>2, <1>3

-----------------------------------------------------------------------------
(* Types and threads *)

BaseInv == PhoneTypes /\ RequestTypes /\ ServerTypes /\ ThreadInv

\* The present conversation of a phone that is hot.
LEMMA HotThread ==
  ASSUME BaseInv, NEW p \in active
  PROVE  /\ p \in Phones /\ gen[p] \in Nat /\ gen[p] > 0
         /\ <<p, gen[p]>> \in Threads /\ <<p, gen[p]>>[1] = p /\ <<p, gen[p]>>[2] = gen[p]
<1>1. p \in Phones /\ gen[p] \in Nat /\ gen[p] > 0 /\ gen[p] <= MaxStarts[p]
  BY DEF BaseInv, PhoneTypes
<1>2. <<p, gen[p]>> \in Threads
  BY <1>1, ThreadOf
<1> QED
  BY <1>1, <1>2

LEMMA InitBase == Init => BaseInv
<1> SUFFICES ASSUME Init PROVE BaseInv
  OBVIOUS
<1>1. /\ MaxTroubles \in Nat /\ MaxStarts \in [Phones -> Nat]
      /\ \A p \in Phones : MaxStarts[p] \in Nat
  BY ClaimAssumption DEF ClaimAssumption
<1>2. PhoneTypes
  BY <1>1 DEF Init, PhoneTypes
<1>3. RequestTypes
  BY <1>1 DEF Init, RequestTypes
<1>4. ServerTypes
  BY DEF Init, ServerTypes, AnyMarker
<1>5. ThreadInv
  BY DEF Init, ThreadInv
<1> QED
  BY <1>2, <1>3, <1>4, <1>5 DEF BaseInv

\* A request is sent, is answered or is given up.
LEMMA SendTypes ==
  ASSUME RequestTypes, NEW r \in Requests, Sent(r), UNCHANGED <<left, troubles>>
  PROVE  RequestTypes'
BY DEF RequestTypes, Sent

LEMMA AnswerTypes ==
  ASSUME RequestTypes, NEW r \in Requests, Answered(r)
  PROVE  RequestTypes'
BY DEF RequestTypes, Answered

LEMMA TroubleCounted ==
  ASSUME RequestTypes, Trouble
  PROVE  troubles' \in 0 .. MaxTroubles
<1>1. troubles \in 0 .. MaxTroubles /\ MaxTroubles \in Nat
  BY ClaimAssumption DEF RequestTypes, ClaimAssumption
<1> QED
  BY <1>1 DEF Trouble

LEMMA GiveUpTypes ==
  ASSUME RequestTypes, NEW r \in Requests, Unanswered(r)
  PROVE  RequestTypes'
<1>1. troubles' \in 0 .. MaxTroubles
  BY TroubleCounted DEF Unanswered
<1>2. CASE req[r] = "sent" /\ req' = [req EXCEPT ![r] = "none"] /\ UNCHANGED left
  BY <1>1, <1>2 DEF RequestTypes, Unanswered
<1>3. CASE req[r] \in {"sent", "found", "working"} /\ left' = left \cup {r} /\ UNCHANGED req
  BY <1>1, <1>3 DEF RequestTypes
<1> QED
  BY <1>2, <1>3 DEF Unanswered

LEMMA StartBase ==
  ASSUME BaseInv, NEW p \in Phones, Start(p)
  PROVE  BaseInv'
<1>1. /\ p \notin active /\ active' = active \cup {p}
      /\ gen' = [gen EXCEPT ![p] = @ + 1] /\ gen[p] < MaxStarts[p]
      /\ worker' = [worker EXCEPT ![<<p, gen'[p]>>] = "posting"]
      /\ Sent(<<p, gen'[p], "beat">>)
      /\ UNCHANGED <<rel, left, server, troubles>>
  BY DEF Start
<1>2. /\ gen[p] \in Nat /\ MaxStarts[p] \in Nat /\ gen'[p] = gen[p] + 1
      /\ \A q \in Phones : q # p => gen'[q] = gen[q]
  BY <1>1, ClaimAssumption DEF BaseInv, PhoneTypes, ClaimAssumption
<1>3. gen'[p] \in Nat /\ gen'[p] > 0 /\ gen'[p] <= MaxStarts[p] /\ gen'[p] > gen[p]
  BY <1>1, <1>2
<1>4. <<p, gen'[p]>> \in Threads /\ <<p, gen'[p], "beat">> \in Requests
  <2>1. <<p, gen'[p]>> \in Threads
    BY <1>3, ThreadOf
  <2>2. <<p, gen'[p]>>[1] = p /\ <<p, gen'[p]>>[2] = gen'[p] /\ "beat" \in Kinds
    BY DEF Kinds
  <2>3. <<p, gen'[p], "beat">> \in Requests
    BY <2>1, <2>2, ThreadIs
  <2> QED
    BY <2>1, <2>3
<1>5. RequestTypes' /\ ServerTypes'
  <2>1. RequestTypes'
    BY <1>1, <1>4, SendTypes DEF BaseInv
  <2>2. ServerTypes'
    BY <1>1 DEF server, BaseInv, ServerTypes
  <2> QED
    BY <2>1, <2>2
<1>6. \A t \in Threads : worker'[t] = IF t = <<p, gen'[p]>> THEN "posting" ELSE worker[t]
  BY <1>1, <1>4 DEF BaseInv, PhoneTypes
<1>7. PhoneTypes'
  <2>1. gen' \in [Phones -> Nat]
    BY <1>1, <1>2, <1>3 DEF BaseInv, PhoneTypes
  <2>2. \A q \in Phones : gen'[q] <= MaxStarts[q]
    BY <1>2, <1>3 DEF BaseInv, PhoneTypes
  <2>3. worker' \in [Threads -> {"none", "posting", "resting", "over"}]
    BY <1>1 DEF BaseInv, PhoneTypes
  <2>4. ASSUME NEW q \in active'
        PROVE  gen'[q] > 0 /\ worker'[<<q, gen'[q]>>] \in {"posting", "resting"}
    <3>1. CASE q = p
      BY <1>3, <1>4, <1>6, <3>1
    <3>2. CASE q # p
      <4>1. q \in active /\ gen'[q] = gen[q] /\ <<q, gen[q]>> # <<p, gen'[p]>>
        BY <1>1, <1>2, <2>4, <3>2 DEF BaseInv, PhoneTypes
      <4>2. <<q, gen[q]>> \in Threads
        BY <4>1, HotThread
      <4> QED
        BY <1>6, <4>1, <4>2 DEF BaseInv, PhoneTypes
    <3> QED
      BY <3>1, <3>2
  <2>5. active' \subseteq Phones /\ rel' = rel
    BY <1>1 DEF BaseInv, PhoneTypes
  <2> QED
    BY <2>1, <2>2, <2>3, <2>4, <2>5 DEF BaseInv, PhoneTypes
<1>8. ThreadInv'
  <2>1. ASSUME NEW t \in Threads, t[2] > gen'[t[1]] PROVE worker'[t] = "none" /\ rel'[t] = "none"
    <3>1. /\ t = <<t[1], t[2]>> /\ t[1] \in Phones /\ t[2] \in Nat
          /\ gen[t[1]] \in Nat /\ gen'[t[1]] \in Nat
      BY <1>2, <1>3, ThreadIs DEF BaseInv, PhoneTypes
    <3>2. t # <<p, gen'[p]>> /\ t[2] > gen[t[1]]
      BY <1>2, <2>1, <3>1
    <3> QED
      BY <1>1, <1>6, <3>2 DEF BaseInv, ThreadInv
  <2>2. ASSUME NEW q \in active' PROVE rel'[<<q, gen'[q]>>] = "none"
    <3>1. CASE q = p
      <4>1. <<p, gen'[p]>>[1] = p /\ <<p, gen'[p]>>[2] > gen[p]
        BY <1>3
      <4>2. rel[<<p, gen'[p]>>] = "none"
        BY <1>4, <4>1 DEF BaseInv, ThreadInv
      <4> QED
        BY <1>1, <3>1, <4>2
    <3>2. CASE q # p
      BY <1>1, <1>2, <2>2, <3>2 DEF BaseInv, PhoneTypes, ThreadInv
    <3> QED
      BY <3>1, <3>2
  <2>3. ASSUME NEW t \in Threads, worker'[t] = "resting"
        PROVE  t[1] \in active' /\ t[2] = gen'[t[1]]
    <3>1. worker[t] = "resting"
      BY <1>6, <2>3
    <3>2. t[1] \in active /\ t[2] = gen[t[1]]
      BY <3>1 DEF BaseInv, ThreadInv
    <3> QED
      BY <1>1, <1>2, <3>2 DEF BaseInv, PhoneTypes
  <2> QED
    BY <2>1, <2>2, <2>3 DEF ThreadInv
<1> QED
  BY <1>5, <1>7, <1>8 DEF BaseInv

LEMMA StopBase ==
  ASSUME BaseInv, NEW p \in Phones, Stop(p)
  PROVE  BaseInv'
<1> DEFINE u == <<p, gen[p]>>
<1>1. /\ p \in active /\ active' = active \ {p}
      /\ rel' = [rel EXCEPT ![u] = "asked"]
      /\ UNCHANGED <<gen, req, left, server>>
  BY DEF Stop
<1>2. \/ worker[u] = "resting" /\ worker' = [worker EXCEPT ![u] = "over"] /\ UNCHANGED troubles
      \/ worker[u] # "resting" /\ UNCHANGED worker /\ Trouble
  BY DEF Stop
<1>3. u \in Threads /\ u[1] = p /\ u[2] = gen[p] /\ gen[p] \in Nat
  BY <1>1, HotThread
<1>4. RequestTypes' /\ ServerTypes'
  <2>1. troubles' \in 0 .. MaxTroubles
    BY <1>2, TroubleCounted DEF BaseInv, RequestTypes
  <2>2. RequestTypes'
    BY <1>1, <2>1 DEF BaseInv, RequestTypes
  <2>3. ServerTypes'
    BY <1>1 DEF BaseInv, ServerTypes, server
  <2> QED
    BY <2>2, <2>3
<1>5. ASSUME NEW t \in Threads
      PROVE  /\ rel'[t] = IF t = u THEN "asked" ELSE rel[t]
             /\ t # u => worker'[t] = worker[t]
             /\ worker'[t] = worker[t] \/ worker'[t] = "over"
  BY <1>1, <1>2, <1>3 DEF BaseInv, PhoneTypes
<1>6. worker'[u] # "resting"
  BY <1>2, <1>3 DEF BaseInv, PhoneTypes
<1> HIDE DEF u
<1>7. ASSUME NEW q \in active' PROVE q \in active /\ <<q, gen[q]>> \in Threads /\ <<q, gen[q]>> # u
  <2>1. q \in active /\ q # p
    BY <1>1, <1>7
  <2>2. <<q, gen[q]>> \in Threads /\ <<q, gen[q]>>[1] = q
    BY <2>1, HotThread
  <2> QED
    BY <1>3, <2>1, <2>2
<1>8. PhoneTypes'
  <2>1. rel' \in [Threads -> {"none", "asked", "sent", "stale", "again", "over"}]
    BY <1>1 DEF BaseInv, PhoneTypes
  <2>2. worker' \in [Threads -> {"none", "posting", "resting", "over"}]
    BY <1>2 DEF BaseInv, PhoneTypes
  <2>3. \A q \in active' : gen'[q] > 0 /\ worker'[<<q, gen'[q]>>] \in {"posting", "resting"}
    BY <1>1, <1>5, <1>7 DEF BaseInv, PhoneTypes
  <2> QED
    BY <1>1, <2>1, <2>2, <2>3 DEF BaseInv, PhoneTypes
<1>9. ThreadInv'
  <2>1. ASSUME NEW t \in Threads, t[2] > gen'[t[1]] PROVE worker'[t] = "none" /\ rel'[t] = "none"
    <3>1. t # u
      BY <1>1, <1>3, <2>1
    <3> QED
      BY <1>1, <1>5, <2>1, <3>1 DEF BaseInv, ThreadInv
  <2>2. \A q \in active' : rel'[<<q, gen'[q]>>] = "none"
    BY <1>1, <1>5, <1>7 DEF BaseInv, ThreadInv
  <2>3. ASSUME NEW t \in Threads, worker'[t] = "resting"
        PROVE  t[1] \in active' /\ t[2] = gen'[t[1]]
    <3>1. t # u /\ worker[t] = "resting"
      BY <1>5, <1>6, <2>3
    <3>2. t[1] \in active /\ t[2] = gen[t[1]] /\ t = <<t[1], t[2]>>
      BY <3>1, ThreadIs DEF BaseInv, ThreadInv
    <3>3. t[1] # p
      BY <3>1, <3>2 DEF u
    <3> QED
      BY <1>1, <3>2, <3>3
  <2> QED
    BY <2>1, <2>2, <2>3 DEF ThreadInv
<1> QED
  BY <1>4, <1>8, <1>9 DEF BaseInv

\* A worker that goes on to its next post, to rest or to its end.
LEMMA WorkerBase ==
  ASSUME BaseInv, NEW t \in Threads, worker[t] \in {"posting", "resting"},
         NEW w \in {"posting", "resting", "over"}, worker' = [worker EXCEPT ![t] = w],
         w # "posting" => w = Rests(t), worker[t] = "resting" => w = "posting",
         UNCHANGED <<active, gen, rel, server>>, RequestTypes'
  PROVE  BaseInv'
<1>1. /\ \A x \in Threads : worker'[x] = IF x = t THEN w ELSE worker[x]
      /\ t = <<t[1], t[2]>> /\ t[1] \in Phones
  BY ThreadIs DEF BaseInv, PhoneTypes
<1>2. worker' \in [Threads -> {"none", "posting", "resting", "over"}]
  BY DEF BaseInv, PhoneTypes
<1>3. ServerTypes'
  BY DEF BaseInv, ServerTypes, server
<1>4. ASSUME NEW q \in active
      PROVE  gen[q] > 0 /\ worker'[<<q, gen[q]>>] \in {"posting", "resting"}
  <2>1. gen[q] > 0 /\ <<q, gen[q]>> \in Threads
    BY HotThread
  <2>2. CASE <<q, gen[q]>> = t
    <3>1. Rests(t) = "resting"
      BY <2>2 DEF Rests
    <3> QED
      BY <1>1, <2>1, <2>2, <3>1
  <2>3. CASE <<q, gen[q]>> # t
    BY <1>1, <2>1, <2>3 DEF BaseInv, PhoneTypes
  <2> QED
    BY <2>2, <2>3
<1>5. PhoneTypes'
  BY <1>2, <1>4 DEF BaseInv, PhoneTypes
<1>6. ASSUME NEW x \in Threads, x[2] > gen[x[1]] PROVE worker'[x] = "none" /\ rel[x] = "none"
  BY <1>1, <1>6 DEF BaseInv, ThreadInv
<1>7. ASSUME NEW x \in Threads, worker'[x] = "resting" PROVE x[1] \in active /\ x[2] = gen[x[1]]
  <2>1. CASE x = t
    <3>1. Rests(t) = "resting"
      BY <1>1, <1>7, <2>1
    <3> QED
      BY <2>1, <3>1 DEF Rests
  <2>2. CASE x # t
    BY <1>1, <1>7, <2>2 DEF BaseInv, ThreadInv
  <2> QED
    BY <2>1, <2>2
<1>8. ThreadInv'
  BY <1>6, <1>7 DEF BaseInv, ThreadInv
<1> QED
  BY <1>3, <1>5, <1>8 DEF BaseInv

\* A release that goes on.
LEMMA ReleaseBase ==
  ASSUME BaseInv, NEW t \in Threads, rel[t] # "none",
         NEW w \in {"sent", "stale", "again", "over"}, rel' = [rel EXCEPT ![t] = w],
         UNCHANGED <<active, gen, worker, server>>, RequestTypes'
  PROVE  BaseInv'
<1>1. \A x \in Threads : rel'[x] = IF x = t THEN w ELSE rel[x]
  BY DEF BaseInv, PhoneTypes
<1>2. rel' \in [Threads -> {"none", "asked", "sent", "stale", "again", "over"}]
  BY DEF BaseInv, PhoneTypes
<1>3. PhoneTypes' /\ ServerTypes'
  BY <1>2 DEF BaseInv, PhoneTypes, ServerTypes, server
<1>4. \A q \in active : rel'[<<q, gen[q]>>] = "none"
  BY <1>1, HotThread DEF BaseInv, ThreadInv
<1>5. ThreadInv'
  BY <1>1, <1>4 DEF BaseInv, ThreadInv
<1> QED
  BY <1>3, <1>5 DEF BaseInv

\* The three requests of a conversation.
LEMMA Requested ==
  ASSUME NEW t \in Threads
  PROVE  /\ <<t[1], t[2], "beat">> \in Requests /\ <<t[1], t[2], "release">> \in Requests
         /\ <<t[1], t[2], "again">> \in Requests
BY ThreadIs DEF Kinds

LEMMA HeartbeatBase ==
  ASSUME BaseInv, NEW t \in Threads, Heartbeat(t)
  PROVE  BaseInv'
<1>1. CASE Posted(t)
  <2>1. /\ worker[t] = "posting" /\ worker' = [worker EXCEPT ![t] = Rests(t)]
        /\ UNCHANGED <<active, gen, rel, server>> /\ Rests(t) \in {"resting", "over"}
    BY <1>1 DEF Posted, Rests
  <2>2. RequestTypes'
    BY <1>1, Requested, AnswerTypes, GiveUpTypes DEF Posted, BaseInv
  <2> QED
    BY <2>1, <2>2, WorkerBase
<1>2. CASE Beat(t)
  <2>1. /\ worker[t] = "resting" /\ worker' = [worker EXCEPT ![t] = "posting"]
        /\ UNCHANGED <<active, gen, rel, server>>
    BY <1>2 DEF Beat, Beats
  <2>2. RequestTypes'
    BY <1>2, Requested, SendTypes DEF Beat, BaseInv
  <2> QED
    BY <2>1, <2>2, WorkerBase
<1>3. CASE Release(t)
  <2>1. /\ rel[t] = "asked" /\ UNCHANGED <<active, gen, worker, server>>
        /\ \E w \in {"over", "sent"} : rel' = [rel EXCEPT ![t] = w]
    BY <1>3 DEF Release
  <2>2. ASSUME UNCHANGED req PROVE RequestTypes'
    BY <1>3, <2>2 DEF Release, BaseInv, RequestTypes
  <2>3. ASSUME Sent(<<t[1], t[2], "release">>) PROVE RequestTypes'
    BY <1>3, <2>3, Requested, SendTypes DEF Release, BaseInv
  <2>4. RequestTypes'
    BY <1>3, <2>2, <2>3 DEF Release
  <2> QED
    BY <2>1, <2>4, ReleaseBase
<1>4. CASE Released(t)
  <2>1. /\ rel[t] = "sent" /\ UNCHANGED <<active, gen, worker, server>>
        /\ \E w \in {"over", "stale"} : rel' = [rel EXCEPT ![t] = w]
    BY <1>4 DEF Released
  <2>2. RequestTypes'
    BY <1>4, Requested, AnswerTypes, GiveUpTypes DEF Released, BaseInv
  <2> QED
    BY <2>1, <2>2, ReleaseBase
<1>5. CASE Reassert(t)
  <2>1. /\ rel[t] = "stale" /\ UNCHANGED <<active, gen, worker, server>>
        /\ rel' = [rel EXCEPT ![t] = "again"]
    BY <1>5 DEF Reassert
  <2>2. RequestTypes'
    BY <1>5, Requested, SendTypes DEF Reassert, BaseInv
  <2> QED
    BY <2>1, <2>2, ReleaseBase
<1>6. CASE PutBack(t)
  <2>1. /\ rel[t] = "again" /\ UNCHANGED <<active, gen, worker, server>>
        /\ rel' = [rel EXCEPT ![t] = "over"]
    BY <1>6 DEF PutBack
  <2>2. RequestTypes'
    BY <1>6, Requested, AnswerTypes, GiveUpTypes DEF PutBack, BaseInv
  <2> QED
    BY <2>1, <2>2, ReleaseBase
<1> QED
  BY <1>1, <1>2, <1>3, <1>4, <1>5, <1>6 DEF Heartbeat

\* A step of the server: the phones and their threads are as they were.
LEMMA ServerBase ==
  ASSUME BaseInv, UNCHANGED phone, RequestTypes', ServerTypes'
  PROVE  BaseInv'
BY DEF BaseInv, phone, PhoneTypes, ThreadInv

LEMMA HandlerBase ==
  ASSUME BaseInv, NEW r \in Requests, Handler(r)
  PROVE  BaseInv'
<1>1. r[1] \in Phones /\ <<r[1], r[2]>> \in Threads
  BY RequestIs
<1>2. CASE Unheard(r)
  <2>1. RequestTypes' /\ ServerTypes' /\ UNCHANGED phone
    BY <1>2 DEF Unheard, BaseInv, RequestTypes, ServerTypes, server
  <2> QED
    BY <2>1, ServerBase
<1>3. ASSUME NEW from \in {"sent", "found", "working"}, NEW to \in {"found", "working", "done"},
             Handles(r, from, to)
      PROVE  RequestTypes' /\ UNCHANGED phone
  BY <1>3 DEF Handles, BaseInv, RequestTypes
<1>4. CASE Write(r)
  <2>1. RequestTypes' /\ UNCHANGED phone
    BY <1>3, <1>4 DEF Write
  <2>2. ServerTypes'
    BY <1>1, <1>4 DEF Write, BaseInv, ServerTypes
  <2> QED
    BY <2>1, <2>2, ServerBase
<1>5. CASE StartHold(r)
  <2>1. RequestTypes' /\ UNCHANGED phone
    BY <1>3, <1>5 DEF StartHold
  <2>2. <<r[1], "hold">> \in Phones \X {"hold", "write", "lift"}
    BY <1>1
  <2>3. ServerTypes'
    BY <1>5, <2>2 DEF StartHold, BaseInv, ServerTypes
  <2> QED
    BY <2>1, <2>3, ServerBase
<1>6. CASE Look(r)
  <2>1. Handles(r, "sent", "found") \/ Handles(r, "sent", "done")
    BY <1>6 DEF Look
  <2>2. RequestTypes' /\ UNCHANGED phone
    BY <1>3, <2>1
  <2>3. before' \in [Threads -> BOOLEAN]
    BY <1>1, <1>6 DEF Look, BaseInv, ServerTypes
  <2>4. ServerTypes'
    BY <1>6, <2>3 DEF Look, BaseInv, ServerTypes
  <2> QED
    BY <2>2, <2>4, ServerBase
<1>7. CASE Unlink(r)
  BY <1>1, <1>3, <1>7, ServerBase DEF Unlink, BaseInv, ServerTypes
<1>8. CASE StartLift(r)
  BY <1>1, <1>3, <1>8, ServerBase DEF StartLift, BaseInv, ServerTypes
<1> QED
  BY <1>2, <1>4, <1>5, <1>6, <1>7, <1>8 DEF Handler

LEMMA MarkerBase ==
  ASSUME BaseInv, NEW p \in Phones, Hold(p) \/ ReadLapsed(p) \/ Reap(p)
  PROVE  BaseInv'
<1>1. UNCHANGED <<phone, req, left, claim, before, troubles>>
  BY DEF Hold, Empty, WriteHold, Lift, ReadLapsed, Reap, Marks
<1>2. RequestTypes'
  BY <1>1 DEF BaseInv, RequestTypes
<1>3. /\ \E to \in AnyMarker : marker' = [marker EXCEPT ![p] = to]
      /\ jobs' \subseteq jobs \cup {<<p, "write">>} /\ reader' \subseteq reader \cup {p}
  BY DEF Hold, Empty, WriteHold, Lift, ReadLapsed, Reap, Marks, AnyMarker
<1>4. ServerTypes'
  BY <1>1, <1>3 DEF BaseInv, ServerTypes
<1> QED
  BY <1>1, <1>2, <1>4, ServerBase

LEMMA ExpireBase == ASSUME BaseInv, Expire PROVE BaseInv'
<1>1. UNCHANGED <<phone, req, left, reader, jobs, before, troubles>>
  BY DEF Expire
<1>2. RequestTypes'
  BY <1>1 DEF BaseInv, RequestTypes
<1>3. /\ claim' \in {claim, Nobody}
      /\ marker' = marker \/ \E p \in Phones : marker' = [marker EXCEPT ![p] = "lapsed"]
  BY DEF Expire
<1>4. ServerTypes'
  BY <1>1, <1>3 DEF BaseInv, ServerTypes, AnyMarker
<1> QED
  BY <1>1, <1>2, <1>4, ServerBase

LEMMA BaseStep == BaseInv /\ [Next]_vars => BaseInv'
<1> SUFFICES ASSUME BaseInv, [Next]_vars PROVE BaseInv'
  OBVIOUS
<1>1. ASSUME NEW p \in Phones, Start(p) \/ Stop(p) PROVE BaseInv'
  BY <1>1, StartBase, StopBase
<1>2. ASSUME NEW p \in Phones, Hold(p) \/ ReadLapsed(p) \/ Reap(p) PROVE BaseInv'
  BY <1>2, MarkerBase
<1>3. ASSUME NEW t \in Threads, Heartbeat(t) PROVE BaseInv'
  BY <1>3, HeartbeatBase
<1>4. ASSUME NEW r \in Requests, Handler(r) PROVE BaseInv'
  BY <1>4, HandlerBase
<1>5. CASE Expire
  BY <1>5, ExpireBase
<1>6. CASE UNCHANGED vars
  <2>1. UNCHANGED phone /\ RequestTypes' /\ ServerTypes'
    BY <1>6 DEF vars, server, BaseInv, RequestTypes, ServerTypes
  <2> QED
    BY <2>1, ServerBase
<1> QED
  BY <1>1, <1>2, <1>3, <1>4, <1>5, <1>6 DEF Next

\* The types of InputClaim, for any phones and any bounds.
THEOREM ClaimIsTyped == Spec => []TypeOK
<1>1. BaseInv => TypeOK
  BY DEF BaseInv, TypeOK
<1> QED
  BY <1>1, InitBase, BaseStep, PTL DEF Spec

-----------------------------------------------------------------------------
(* A release in flight costs the next conversation no claim *)

\* Nothing runs for a phone that never was hot.
LEMMA OnlyIts ==
  ASSUME BaseInv, NEW p \in Phones, Alone(p), NEW t \in Threads,
         worker[t] # "none" \/ rel[t] # "none"
  PROVE  t[1] = p
<1>1. t[1] \in Phones /\ t[2] \in Nat /\ t[2] > 0
  BY ThreadIs
<1>2. gen[t[1]] \in Nat /\ ~(t[2] > gen[t[1]])
  BY <1>1 DEF BaseInv, PhoneTypes, ThreadInv
<1>3. gen[t[1]] # 0
  BY <1>1, <1>2
<1> QED
  BY <1>1, <1>3 DEF Alone

LEMMA OnlyItsRequests ==
  ASSUME BaseInv, AnsweredInv, NEW p \in Phones, Alone(p), NEW r \in Requests, req[r] # "none"
  PROVE  r[1] = p /\ Sender(r)
<1>1. Sender(r) /\ r[3] \in Kinds /\ <<r[1], r[2]>> \in Threads
  BY RequestIs DEF AnsweredInv, Alone
<1>2. worker[<<r[1], r[2]>>] # "none" \/ rel[<<r[1], r[2]>>] # "none"
  BY <1>1 DEF Sender, Kinds
<1>3. <<r[1], r[2]>>[1] = p
  BY <1>1, <1>2, OnlyIts
<1> QED
  BY <1>1, <1>3

LEMMA InitClaims == Init => AnsweredInv /\ ClaimInv
BY DEF Init, AnsweredInv, ClaimInv

\* A step of one thread, by what becomes of its own requests.
LEMMA AnsweredAt ==
  ASSUME BaseInv, AnsweredInv, NEW t \in Threads,
         troubles' = 0 => troubles = 0 /\ left' = left,
         \A x \in Threads : x # t => worker'[x] = worker[x] /\ rel'[x] = rel[x],
         \A r \in Requests : <<r[1], r[2]>> # t => req'[r] = req[r],
         ASSUME troubles' = 0, NEW r \in Requests, <<r[1], r[2]>> = t, req'[r] # "none"
         PROVE  Sender(r)'
  PROVE  AnsweredInv'
<1> SUFFICES ASSUME troubles' = 0, NEW r \in Requests, req'[r] # "none" PROVE Sender(r)'
  BY DEF AnsweredInv
<1>1. CASE <<r[1], r[2]>> = t
  BY <1>1
<1>2. CASE <<r[1], r[2]>> # t
  <2>1. Sender(r) /\ <<r[1], r[2]>> \in Threads
    BY <1>2, RequestIs DEF AnsweredInv
  <2> QED
    BY <1>2, <2>1 DEF Sender
<1> QED
  BY <1>1, <1>2

\* A step of the server.
LEMMA AnsweredServed ==
  ASSUME AnsweredInv, UNCHANGED phone, troubles' = troubles, left' \subseteq left,
         \A r \in Requests : req'[r] # "none" => req[r] # "none"
  PROVE  AnsweredInv'
BY DEF AnsweredInv, phone, Sender

LEMMA Untroubled ==
  ASSUME BaseInv, Trouble
  PROVE  troubles' # 0
BY DEF BaseInv, RequestTypes, Trouble

\* The three requests of a conversation, and no others.
LEMMA RequestsOf ==
  ASSUME NEW t \in Threads, NEW r \in Requests, <<r[1], r[2]>> = t
  PROVE  \/ r = <<t[1], t[2], "beat">> /\ r[3] = "beat"
         \/ r = <<t[1], t[2], "release">> /\ r[3] = "release"
         \/ r = <<t[1], t[2], "again">> /\ r[3] = "again"
BY RequestIs DEF Kinds

WaitInv == AnsweredInv /\ ClaimInv

LEMMA StartClaims ==
  ASSUME BaseInv, WaitInv, BaseInv', NEW q \in Phones, Start(q)
  PROVE  WaitInv'
<1> DEFINE t == <<q, gen'[q]>>
<1>1. /\ active' = active \cup {q} /\ gen' = [gen EXCEPT ![q] = @ + 1]
      /\ worker' = [worker EXCEPT ![t] = "posting"]
      /\ req[<<q, gen'[q], "beat">>] = "none"
      /\ req' = [req EXCEPT ![<<q, gen'[q], "beat">>] = "sent"]
      /\ UNCHANGED <<rel, left, troubles>>
  BY DEF Start, Sent
<1>2. q \in active' /\ gen'[q] = gen[q] + 1 /\ gen[q] \in Nat
  BY <1>1 DEF BaseInv, PhoneTypes
<1>3. /\ t \in Threads /\ t[1] = q /\ t[2] = gen'[q] /\ gen'[q] > 0
      /\ t[2] > gen[q]
  <2>1. gen'[q] \in Nat /\ gen'[q] > 0 /\ gen'[q] <= MaxStarts[q]
    BY <1>2 DEF BaseInv, PhoneTypes
  <2>2. t \in Threads
    BY <2>1, ThreadOf
  <2> QED
    BY <1>2, <2>1, <2>2
<1>4. rel[t] = "none" /\ worker[t] = "none"
  BY <1>3 DEF BaseInv, ThreadInv
<1>5. /\ worker'[t] = "posting" /\ \A x \in Threads : x # t => worker'[x] = worker[x]
      /\ \A r \in Requests :
           req'[r] = IF r = <<q, gen'[q], "beat">> THEN "sent" ELSE req[r]
  BY <1>1, <1>3 DEF BaseInv, PhoneTypes, RequestTypes
<1>6. AnsweredInv'
  <2>1. \A r \in Requests : <<r[1], r[2]>> # t => req'[r] = req[r]
    BY <1>5
  <2>2. ASSUME troubles' = 0, NEW r \in Requests, <<r[1], r[2]>> = t, req'[r] # "none"
        PROVE  Sender(r)'
    <3>1. CASE req[r] = "none"
      <4>1. r = <<q, gen'[q], "beat">> /\ r[3] = "beat"
        BY <1>5, <2>2, <3>1
      <4> QED
        BY <1>5, <2>2, <4>1 DEF Sender
    <3>2. CASE req[r] # "none"
      <4>1. Sender(r) /\ r[3] \in Kinds
        BY <1>1, <2>2, <3>2, RequestIs DEF WaitInv, AnsweredInv
      <4> QED
        BY <1>4, <2>2, <4>1 DEF Sender, Kinds
    <3> QED
      BY <3>1, <3>2
  <2> QED
    BY <1>1, <1>3, <1>5, <2>1, <2>2, AnsweredAt DEF WaitInv
<1>7. ClaimInv'
  <2> SUFFICES ASSUME NEW p \in Phones, Alone(p)', p \in active' PROVE Coming(p)'
    BY DEF ClaimInv
  <2>1. p = q
    BY <1>2, <1>3 DEF Alone
  <2>2. <<q, gen'[q], "beat">> \in Requests
    BY <1>3, Requested
  <2> QED
    BY <1>5, <2>1, <2>2 DEF Coming
<1> QED
  BY <1>6, <1>7 DEF WaitInv

LEMMA StopClaims ==
  ASSUME BaseInv, WaitInv, BaseInv', NEW q \in Phones, Stop(q)
  PROVE  WaitInv'
<1> DEFINE t == <<q, gen[q]>>
<1>1. /\ q \in active /\ active' = active \ {q}
      /\ rel' = [rel EXCEPT ![t] = "asked"]
      /\ UNCHANGED <<gen, req, left>>
      /\ \/ worker[t] = "resting" /\ worker' = [worker EXCEPT ![t] = "over"] /\ troubles' = troubles
         \/ UNCHANGED worker /\ Trouble
  BY DEF Stop
<1>2. t \in Threads /\ t[1] = q /\ gen[q] > 0 /\ rel[t] = "none"
  BY <1>1, HotThread DEF BaseInv, ThreadInv
<1>3. AnsweredInv'
  <2>1. \A x \in Threads : x # t => worker'[x] = worker[x] /\ rel'[x] = rel[x]
    BY <1>1, <1>2 DEF BaseInv, PhoneTypes
  <2>2. troubles' = 0 => troubles = 0 /\ left' = left
    BY <1>1, Untroubled
  <2>3. ASSUME troubles' = 0, NEW r \in Requests, <<r[1], r[2]>> = t, req'[r] # "none"
        PROVE  Sender(r)'
    <3>1. Sender(r) /\ r[3] \in Kinds
      BY <1>1, <2>2, <2>3, RequestIs DEF WaitInv, AnsweredInv
    <3>2. worker[t] = "resting"
      BY <1>1, <2>3, Untroubled
    <3> QED
      BY <1>2, <2>3, <3>1, <3>2 DEF Sender, Kinds
  <2> QED
    BY <1>1, <1>2, <2>1, <2>2, <2>3, AnsweredAt DEF WaitInv
<1>4. ClaimInv'
  <2> SUFFICES ASSUME NEW p \in Phones, Alone(p)', p \in active' PROVE FALSE
    BY DEF ClaimInv
  <2>1. p # q /\ gen[q] = 0
    BY <1>1 DEF Alone
  <2> QED
    BY <1>2, <2>1
<1> QED
  BY <1>3, <1>4 DEF WaitInv

\* A step that makes nobody hot: what was on its way is, or has become the claim.
LEMMA ClaimStays ==
  ASSUME BaseInv, ClaimInv, UNCHANGED <<active, gen>>, troubles' = 0 => troubles = 0,
         ASSUME NEW p \in active, Alone(p), troubles' = 0, claim = p \/ Coming(p)
         PROVE  claim' = p \/ Coming(p)'
  PROVE  ClaimInv'
<1> SUFFICES ASSUME NEW p \in Phones, Alone(p)', p \in active'
             PROVE  claim' = p \/ Coming(p)'
  BY DEF ClaimInv
<1>1. Alone(p) /\ troubles' = 0 /\ p \in active
  BY DEF Alone
<1>2. claim = p \/ Coming(p)
  BY <1>1 DEF ClaimInv
<1> QED
  BY <1>1, <1>2

\* A step that leaves the claim and what is on its way alone.
LEMMA ComingStays ==
  ASSUME BaseInv, ClaimInv, UNCHANGED <<active, gen, claim>>, troubles' = 0 => troubles = 0,
         \A r \in Requests : troubles' = 0 /\ req[r] = "sent" /\ r[3] # "release" => req'[r] = "sent",
         \A t \in Threads :
           rel[t] \in {"sent", "stale", "again"} => rel'[t] = rel[t]
  PROVE  ClaimInv'
<1> SUFFICES ASSUME NEW p \in active, Alone(p), troubles' = 0, Coming(p)
             PROVE  Coming(p)'
  BY ClaimStays
<1>1. CASE req[<<p, gen[p], "beat">>] = "sent"
  <2>1. <<p, gen[p], "beat">> \in Requests
    BY HotThread, Requested
  <2>2. <<p, gen[p], "beat">>[3] # "release"
    OBVIOUS
  <2> QED
    BY <1>1, <2>1, <2>2 DEF Coming
<1>2. ASSUME NEW t \in Threads, t[1] = p,
             rel[t] \in {"sent", "stale"} \/ (rel[t] = "again" /\ req[<<p, t[2], "again">>] = "sent")
      PROVE  Coming(p)'
  <2>1. <<p, t[2], "again">> \in Requests /\ <<p, t[2], "again">>[3] # "release"
    BY <1>2, Requested
  <2>2. rel'[t] = rel[t]
    BY <1>2
  <2> QED
    BY <1>2, <2>1, <2>2 DEF Coming
<1> QED
  BY <1>1, <1>2 DEF Coming

\* What an answer, or giving up, does to a thread's request.
LEMMA Replied ==
  ASSUME BaseInv, NEW b \in Requests, Answered(b) \/ Unanswered(b)
  PROVE  /\ \A r \in Requests : r # b => req'[r] = req[r]
         /\ troubles' = 0 => /\ troubles = 0 /\ left' = left
                             /\ req[b] = "done" /\ req'[b] = "none"
<1>1. CASE Answered(b)
  BY <1>1 DEF Answered, BaseInv, RequestTypes
<1>2. CASE Unanswered(b)
  <2>1. troubles' # 0
    BY <1>2, Untroubled DEF Unanswered
  <2>2. \A r \in Requests : r # b => req'[r] = req[r]
    BY <1>2 DEF Unanswered, BaseInv, RequestTypes
  <2> QED
    BY <2>1, <2>2
<1> QED
  BY <1>1, <1>2

LEMMA SentOne ==
  ASSUME BaseInv, NEW b \in Requests, Sent(b)
  PROVE  /\ \A r \in Requests : r # b => req'[r] = req[r]
         /\ req[b] = "none" /\ req'[b] = "sent"
BY DEF Sent, BaseInv, RequestTypes

LEMMA PostClaims ==
  ASSUME BaseInv, WaitInv, NEW t \in Threads, Posted(t) \/ Beat(t)
  PROVE  WaitInv'
<1> DEFINE b == <<t[1], t[2], "beat">>
<1>1. b \in Requests /\ b[3] = "beat" /\ <<b[1], b[2]>> = t
  BY Requested, ThreadIs
<1>2. /\ \A x \in Threads : x # t => worker'[x] = worker[x]
      /\ UNCHANGED <<active, gen, rel, claim>>
  BY DEF Posted, Beat, server, BaseInv, PhoneTypes
<1>3. CASE Posted(t)
  <2>1. Answered(b) \/ Unanswered(b)
    BY <1>3 DEF Posted
  <2>2. /\ \A r \in Requests : r # b => req'[r] = req[r]
        /\ troubles' = 0 => /\ troubles = 0 /\ left' = left
                            /\ req[b] = "done" /\ req'[b] = "none"
    BY <1>1, <2>1, Replied
  <2> HIDE DEF b
  <2>3. ASSUME troubles' = 0, NEW r \in Requests, <<r[1], r[2]>> = t, req'[r] # "none"
        PROVE  Sender(r)'
    <3>1. r # b /\ Sender(r)
      BY <2>2, <2>3 DEF WaitInv, AnsweredInv
    <3>2. r[3] # "beat"
      BY <2>3, <3>1, RequestsOf DEF b
    <3> QED
      BY <1>2, <3>1, <3>2 DEF Sender
  <2>4. AnsweredInv'
    BY <1>1, <1>2, <2>2, <2>3, AnsweredAt DEF WaitInv
  <2>5. \A r \in Requests : troubles' = 0 /\ req[r] = "sent" /\ r[3] # "release" => req'[r] = "sent"
    BY <2>2
  <2>6. ClaimInv'
    BY <1>2, <2>2, <2>5, ComingStays DEF WaitInv
  <2> QED
    BY <2>4, <2>6 DEF WaitInv
<1>4. CASE Beat(t)
  <2>1. Sent(b) /\ worker'[t] = "posting" /\ UNCHANGED <<left, troubles>>
    BY <1>4 DEF Beat, BaseInv, PhoneTypes
  <2>2. /\ \A r \in Requests : r # b => req'[r] = req[r]
        /\ req[b] = "none" /\ req'[b] = "sent"
    BY <1>1, <2>1, SentOne
  <2> HIDE DEF b
  <2>3. ASSUME troubles' = 0, NEW r \in Requests, <<r[1], r[2]>> = t, req'[r] # "none"
        PROVE  Sender(r)'
    <3>1. CASE r = b
      BY <1>1, <2>1, <3>1 DEF Sender
    <3>2. CASE r # b
      <4>1. Sender(r)
        BY <2>1, <2>2, <2>3, <3>2 DEF WaitInv, AnsweredInv
      <4>2. r[3] # "beat"
        BY <2>3, <3>2, RequestsOf DEF b
      <4> QED
        BY <1>2, <4>1, <4>2 DEF Sender
    <3> QED
      BY <3>1, <3>2
  <2>4. AnsweredInv'
    BY <1>1, <1>2, <2>1, <2>2, <2>3, AnsweredAt DEF WaitInv
  <2>5. \A r \in Requests : troubles' = 0 /\ req[r] = "sent" /\ r[3] # "release" => req'[r] = "sent"
    BY <2>2
  <2>6. ClaimInv'
    BY <1>2, <2>1, <2>5, ComingStays DEF WaitInv
  <2> QED
    BY <2>4, <2>6 DEF WaitInv
<1> QED
  BY <1>3, <1>4

LEMMA AskedClaims ==
  ASSUME BaseInv, WaitInv, NEW t \in Threads, Release(t)
  PROVE  WaitInv'
<1> DEFINE b == <<t[1], t[2], "release">>
<1>1. b \in Requests /\ b[3] = "release" /\ <<b[1], b[2]>> = t
  BY Requested, ThreadIs
<1>2. /\ \A x \in Threads : x # t => rel'[x] = rel[x]
      /\ rel[t] = "asked"
      /\ UNCHANGED <<active, gen, worker, claim, left, troubles>>
  BY DEF Release, server, BaseInv, PhoneTypes
<1>3. \/ rel'[t] = "over" /\ req' = req
      \/ rel'[t] = "sent" /\ Sent(b)
  BY DEF Release, BaseInv, PhoneTypes
<1>4. \A r \in Requests : r # b => req'[r] = req[r]
  BY <1>1, <1>3, SentOne
<1>5. req'[b] # req[b] => rel'[t] = "sent"
  BY <1>3
<1> HIDE DEF b
<1>6. ASSUME troubles' = 0, NEW r \in Requests, <<r[1], r[2]>> = t, req'[r] # "none"
      PROVE  Sender(r)'
  <2>1. CASE req[r] = "none"
    BY <1>1, <1>4, <1>5, <1>6, <2>1 DEF Sender
  <2>2. CASE req[r] # "none"
    <3>1. Sender(r) /\ r[3] \in Kinds
      BY <1>2, <1>6, <2>2, RequestIs DEF WaitInv, AnsweredInv
    <3>2. r[3] = "beat"
      BY <1>2, <1>6, <3>1 DEF Sender, Kinds
    <3> QED
      BY <1>2, <3>1, <3>2 DEF Sender
  <2> QED
    BY <2>1, <2>2
<1>7. AnsweredInv'
  BY <1>1, <1>2, <1>4, <1>6, AnsweredAt DEF WaitInv
<1>8. \A r \in Requests : req[r] = "sent" /\ r[3] # "release" => req'[r] = "sent"
  BY <1>1, <1>4
<1>9. ClaimInv'
  BY <1>2, <1>8, ComingStays DEF WaitInv
<1> QED
  BY <1>7, <1>9 DEF WaitInv

LEMMA ReleasedClaims ==
  ASSUME BaseInv, WaitInv, NEW t \in Threads, Released(t)
  PROVE  WaitInv'
<1> DEFINE b == <<t[1], t[2], "release">>
<1>1. b \in Requests /\ b[3] = "release" /\ <<b[1], b[2]>> = t
  BY Requested, ThreadIs
<1>2. /\ \A x \in Threads : x # t => rel'[x] = rel[x]
      /\ rel[t] = "sent"
      /\ UNCHANGED <<active, gen, worker, claim>>
  BY DEF Released, server, BaseInv, PhoneTypes
<1>3. Answered(b) \/ Unanswered(b)
  BY DEF Released
<1>4. /\ \A r \in Requests : r # b => req'[r] = req[r]
      /\ troubles' = 0 => /\ troubles = 0 /\ left' = left
                          /\ req[b] = "done" /\ req'[b] = "none"
  BY <1>1, <1>3, Replied
<1>5. ASSUME troubles' = 0 PROVE rel'[t] = IF Stale(t) THEN "stale" ELSE "over"
  <2>1. ~Unanswered(b)
    BY <1>5, Untroubled DEF Unanswered
  <2> QED
    BY <2>1 DEF Released, BaseInv, PhoneTypes
<1> HIDE DEF b
<1>6. ASSUME troubles' = 0, NEW r \in Requests, <<r[1], r[2]>> = t, req'[r] # "none"
      PROVE  Sender(r)'
  <2>1. r # b /\ Sender(r) /\ r[3] \in Kinds
    BY <1>4, <1>6, RequestIs DEF WaitInv, AnsweredInv
  <2>2. r[3] # "release"
    BY <1>6, <2>1, RequestsOf DEF b
  <2>3. r[3] = "beat"
    BY <1>2, <1>6, <2>1, <2>2 DEF Sender, Kinds
  <2> QED
    BY <1>2, <2>1, <2>3 DEF Sender
<1>7. AnsweredInv'
  BY <1>1, <1>2, <1>4, <1>6, AnsweredAt DEF WaitInv
<1>8. ASSUME NEW p \in active, Alone(p), troubles' = 0 PROVE Coming(p)'
  <2>1. p \in Phones
    BY <1>8, HotThread
  <2>2. t[1] = p
    BY <1>2, <1>8, <2>1, OnlyIts
  <2>3. t = <<t[1], t[2]>>
    BY ThreadIs
  <2>4. gen[p] # t[2]
    BY <1>2, <1>8, <2>2, <2>3 DEF BaseInv, ThreadInv
  <2>5. rel'[t] = "stale"
    BY <1>5, <1>8, <2>2, <2>4 DEF Stale
  <2> QED
    BY <2>2, <2>5 DEF Coming
<1>9. ClaimInv'
  BY <1>2, <1>4, <1>8, ClaimStays DEF WaitInv
<1> QED
  BY <1>7, <1>9 DEF WaitInv

LEMMA AgainClaims ==
  ASSUME BaseInv, WaitInv, NEW t \in Threads, Reassert(t) \/ PutBack(t)
  PROVE  WaitInv'
<1> DEFINE b == <<t[1], t[2], "again">>
<1>1. b \in Requests /\ b[3] = "again" /\ <<b[1], b[2]>> = t
  BY Requested, ThreadIs
<1>2. /\ \A x \in Threads : x # t => rel'[x] = rel[x]
      /\ rel[t] \in {"stale", "again"}
      /\ UNCHANGED <<active, gen, worker, claim>>
  BY DEF Reassert, PutBack, server, BaseInv, PhoneTypes
<1>3. CASE Reassert(t)
  <2>1. /\ rel[t] = "stale" /\ rel'[t] = "again" /\ Sent(b) /\ UNCHANGED <<left, troubles>>
    BY <1>3 DEF Reassert, BaseInv, PhoneTypes
  <2>2. /\ \A r \in Requests : r # b => req'[r] = req[r]
        /\ req[b] = "none" /\ req'[b] = "sent"
    BY <1>1, <2>1, SentOne
  <2> HIDE DEF b
  <2>3. ASSUME troubles' = 0, NEW r \in Requests, <<r[1], r[2]>> = t, req'[r] # "none"
        PROVE  Sender(r)'
    <3>1. CASE r = b
      BY <1>1, <2>1, <3>1 DEF Sender
    <3>2. CASE r # b
      <4>1. Sender(r) /\ r[3] \in Kinds
        BY <2>1, <2>2, <2>3, <3>2, RequestIs DEF WaitInv, AnsweredInv
      <4>2. r[3] = "beat"
        BY <2>1, <2>3, <4>1 DEF Sender, Kinds
      <4> QED
        BY <1>2, <4>1, <4>2 DEF Sender
    <3> QED
      BY <3>1, <3>2
  <2>4. AnsweredInv'
    BY <1>1, <1>2, <2>1, <2>2, <2>3, AnsweredAt DEF WaitInv
  <2>5. ASSUME NEW p \in active, Alone(p) PROVE Coming(p)'
    <3>1. p \in Phones
      BY <2>5, HotThread
    <3>2. t[1] = p
      BY <1>2, <2>5, <3>1, OnlyIts
    <3>3. req'[<<p, t[2], "again">>] = "sent"
      BY <2>2, <3>2 DEF b
    <3> QED
      BY <2>1, <3>2, <3>3 DEF Coming
  <2>6. ClaimInv'
    BY <1>2, <2>1, <2>5, ClaimStays DEF WaitInv
  <2> QED
    BY <2>4, <2>6 DEF WaitInv
<1>4. CASE PutBack(t)
  <2>1. rel[t] = "again" /\ rel'[t] = "over" /\ (Answered(b) \/ Unanswered(b))
    BY <1>4 DEF PutBack, BaseInv, PhoneTypes
  <2>2. /\ \A r \in Requests : r # b => req'[r] = req[r]
        /\ troubles' = 0 => /\ troubles = 0 /\ left' = left
                            /\ req[b] = "done" /\ req'[b] = "none"
    BY <1>1, <2>1, Replied
  <2> HIDE DEF b
  <2>3. ASSUME troubles' = 0, NEW r \in Requests, <<r[1], r[2]>> = t, req'[r] # "none"
        PROVE  Sender(r)'
    <3>1. r # b /\ Sender(r) /\ r[3] \in Kinds
      BY <2>2, <2>3, RequestIs DEF WaitInv, AnsweredInv
    <3>2. r[3] # "again"
      BY <2>3, <3>1, RequestsOf DEF b
    <3>3. r[3] = "beat"
      BY <2>1, <2>3, <3>1, <3>2 DEF Sender, Kinds
    <3> QED
      BY <1>2, <3>1, <3>3 DEF Sender
  <2>4. AnsweredInv'
    BY <1>1, <1>2, <2>2, <2>3, AnsweredAt DEF WaitInv
  <2>5. ASSUME NEW p \in active, Alone(p), troubles' = 0, Coming(p) PROVE Coming(p)'
    <3>1. CASE req[<<p, gen[p], "beat">>] = "sent"
      <4>1. <<p, gen[p], "beat">> \in Requests
        BY HotThread, Requested
      <4>2. <<p, gen[p], "beat">> # b
        BY <1>1
      <4> QED
        BY <1>2, <2>2, <3>1, <4>1, <4>2 DEF Coming
    <3>2. ASSUME NEW x \in Threads, x[1] = p,
                 \/ rel[x] \in {"sent", "stale"}
                 \/ rel[x] = "again" /\ req[<<p, x[2], "again">>] = "sent"
          PROVE  Coming(p)'
      <4>1. x # t
        BY <2>1, <2>2, <2>5, <3>2 DEF b
      <4>2. <<p, x[2], "again">> \in Requests
        BY <3>2, Requested
      <4>3. req[<<p, x[2], "again">>] = "sent" => req'[<<p, x[2], "again">>] = "sent"
        BY <2>2, <2>5, <4>2
      <4> QED
        BY <1>2, <3>2, <4>1, <4>3 DEF Coming
    <3> QED
      BY <2>5, <3>1, <3>2 DEF Coming
  <2>6. ClaimInv'
    BY <1>2, <2>2, <2>5, ClaimStays DEF WaitInv
  <2> QED
    BY <2>4, <2>6 DEF WaitInv
<1> QED
  BY <1>3, <1>4

LEMMA HandlerClaims ==
  ASSUME BaseInv, WaitInv, NEW r \in Requests, Handler(r)
  PROVE  WaitInv'
<1>1. UNCHANGED <<phone, troubles>> /\ left' \subseteq left /\ req[r] # "none"
  BY DEF Handler, Write, StartHold, Look, Unlink, StartLift, Unheard, Handles
<1>2. \A x \in Requests : x # r => req'[x] = req[x]
  BY DEF Handler, Write, StartHold, Look, Unlink, StartLift, Unheard, Handles, BaseInv,
         RequestTypes
<1>3. AnsweredInv'
  BY <1>1, <1>2, AnsweredServed DEF WaitInv
<1>4. CASE Write(r)
  <2>1. ASSUME NEW p \in active, Alone(p) PROVE claim' = p
    <3>1. p \in Phones
      BY <2>1, HotThread
    <3>2. r[1] = p
      BY <1>1, <2>1, <3>1, OnlyItsRequests DEF WaitInv
    <3> QED
      BY <1>4, <3>2 DEF Write
  <2>2. ClaimInv'
    BY <1>1, <2>1, ClaimStays DEF WaitInv, phone
  <2> QED
    BY <1>3, <2>2 DEF WaitInv
<1>5. CASE Unlink(r)
  <2>1. ASSUME NEW p \in active, Alone(p) PROVE Coming(p)'
    <3>1. p \in Phones
      BY <2>1, HotThread
    <3>2. r[1] = p /\ Sender(r) /\ r[3] = "release"
      BY <1>1, <1>5, <2>1, <3>1, OnlyItsRequests DEF WaitInv, Unlink
    <3>3. <<r[1], r[2]>> \in Threads /\ <<r[1], r[2]>>[1] = p /\ rel[<<r[1], r[2]>>] = "sent"
      BY <3>2, RequestIs DEF Sender
    <3> QED
      BY <1>1, <3>3 DEF Coming, phone
  <2>2. ClaimInv'
    BY <1>1, <2>1, ClaimStays DEF WaitInv, phone
  <2> QED
    BY <1>3, <2>2 DEF WaitInv
<1>6. CASE StartHold(r) \/ Look(r) \/ StartLift(r) \/ Unheard(r)
  <2>1. claim' = claim
    BY <1>6 DEF StartHold, Look, StartLift, Unheard, server
  <2>2. req[r] # "sent" \/ r[3] = "release"
    BY <1>6 DEF StartHold, Look, StartLift, Unheard, Handles
  <2>3. \A x \in Requests : req[x] = "sent" /\ x[3] # "release" => req'[x] = "sent"
    BY <1>2, <2>2
  <2>4. ClaimInv'
    BY <1>1, <2>1, <2>3, ComingStays DEF WaitInv, phone
  <2> QED
    BY <1>3, <2>4 DEF WaitInv
<1> QED
  BY <1>4, <1>5, <1>6 DEF Handler

LEMMA ExpireClaims ==
  ASSUME BaseInv, WaitInv, Expire
  PROVE  WaitInv'
<1>1. UNCHANGED <<phone, req, left, troubles>>
  BY DEF Expire
<1>2. AnsweredInv'
  BY <1>1, AnsweredServed DEF WaitInv
<1>3. claim' = claim \/ (claim \notin active /\ claim' = Nobody)
  BY DEF Expire, Silent
<1>4. ASSUME NEW p \in active, Alone(p), claim = p \/ Coming(p) PROVE claim' = p \/ Coming(p)'
  BY <1>1, <1>3, <1>4 DEF Coming, phone
<1>5. ClaimInv'
  BY <1>1, <1>4, ClaimStays DEF WaitInv, phone
<1> QED
  BY <1>2, <1>5 DEF WaitInv

LEMMA WaitStep ==
  ASSUME BaseInv, WaitInv, BaseInv', [Next]_vars
  PROVE  WaitInv'
<1>1. ASSUME NEW p \in Phones, Start(p) \/ Stop(p) PROVE WaitInv'
  BY <1>1, StartClaims, StopClaims
<1>2. ASSUME NEW t \in Threads, Heartbeat(t) PROVE WaitInv'
  BY <1>2, PostClaims, AskedClaims, ReleasedClaims, AgainClaims DEF Heartbeat
<1>3. ASSUME NEW r \in Requests, Handler(r) PROVE WaitInv'
  BY <1>3, HandlerClaims
<1>4. CASE Expire
  BY <1>4, ExpireClaims
<1>5. ASSUME UNCHANGED <<phone, req, left, claim, troubles>> PROVE WaitInv'
  <2>1. AnsweredInv'
    BY <1>5, AnsweredServed DEF WaitInv
  <2>2. ClaimInv'
    BY <1>5, ComingStays DEF WaitInv, phone
  <2> QED
    BY <2>1, <2>2 DEF WaitInv
<1>6. ASSUME NEW p \in Phones, Hold(p) \/ ReadLapsed(p) \/ Reap(p) PROVE WaitInv'
  BY <1>5, <1>6 DEF Hold, Empty, WriteHold, Lift, ReadLapsed, Reap, Marks
<1>7. CASE UNCHANGED vars
  BY <1>5, <1>7 DEF vars, server
<1> QED
  BY <1>1, <1>2, <1>3, <1>4, <1>6, <1>7 DEF Next

\* As long as every request is answered in time and no other phone was ever hot,
\* a phone that is hot, whose post and whose earlier releases are answered, has
\* its claim on file: what a late release took was put back.
THEOREM HotStaysClaimed == Spec => []HotIsClaimed
<1>1. Init => BaseInv /\ WaitInv
  BY InitBase, InitClaims DEF WaitInv
<1>2. BaseInv /\ WaitInv /\ [Next]_vars => (BaseInv /\ WaitInv)'
  BY BaseStep, WaitStep
<1>3. BaseInv /\ WaitInv => HotIsClaimed
  <2> SUFFICES ASSUME BaseInv, WaitInv, NEW p \in active, Alone(p),
                      worker[<<p, gen[p]>>] = "resting",
                      \A t \in Threads : t[1] = p => rel[t] \in {"none", "over"}
               PROVE  claim = p
    BY DEF HotIsClaimed, Alone
  <2>1. p \in Phones /\ <<p, gen[p], "beat">> \in Requests
    BY HotThread, Requested
  <2>2. req[<<p, gen[p], "beat">>] # "sent"
    <3>1. ~Sender(<<p, gen[p], "beat">>)
      BY DEF Sender
    <3> QED
      BY <2>1, <3>1 DEF WaitInv, AnsweredInv, Alone
  <2>3. ~Coming(p)
    BY <2>2 DEF Coming
  <2> QED
    BY <2>1, <2>3 DEF WaitInv, ClaimInv
<1> QED
  BY <1>1, <1>2, <1>3, PTL DEF Spec
=============================================================================
