------------------------- MODULE SensorSessionProofs -------------------------
(***************************************************************************)
(* Proofs of the safety properties of SensorSession, for any number of     *)
(* sessions, requests, faults and odd reports and any capacity of the      *)
(* queues.                                                                 *)
(*                                                                         *)
(* What is on its way is looked at as two sets, the records and the        *)
(* commands, each with its order, the pairs of which the one stands ahead  *)
(* of the other.  The lemmas about sequences say what a step of a queue    *)
(* does to them; the invariant is in four layers: LineInv, what holds      *)
(* between the commands, the MCU and the records whatever was lost;        *)
(* SyncInv, when nothing was; LagInv, which image a request gets; and      *)
(* TokenInv, that one report answers one arming.                           *)
(***************************************************************************)
EXTENDS SensorSessionProps, Integers, TLAPS

-----------------------------------------------------------------------------
\* The members of a queue, and which of them stand ahead of which.
Items(q) == {q[i] : i \in DOMAIN q}
Ahead(q) ==
  {p \in Items(q) \X Items(q) :
     \E i, j \in DOMAIN q : i < j /\ p = <<q[i], q[j]>>}

\* What the queues hold.
TlsRecords ==
  [kind : {"tls"}, msg : {"hello", "finished", "image"}, sess : Nat,
   seq : Nat, req : Nat]
Reports ==
  [kind : {"fdt"}, status : {"down", "up", "reverse"}, valid : BOOLEAN,
   own : BOOLEAN]
Armings == [name : {"arm"}, dir : {"down", "up"}, own : BOOLEAN]
Orders ==
  [name : {"init", "serverFlight", "serverFinished", "getImage"}, n : Nat]

Wires == Seq(TlsRecords \union Reports)
Backends == Seq(TlsRecords)
Lines == Seq(Armings \union Orders)

\* The records the backend has not decrypted, in the order it will: those in
\* it, then those in the queue.
StreamIn(p, w) == (Items(p) \union Items(w)) \intersect TlsRecords
StreamOrderIn(p, w) ==
  (Ahead(p) \union Ahead(w) \union (Items(p) \X Items(w)))
    \intersect (TlsRecords \X TlsRecords)
Stream == StreamIn(tlsq, wire)
StreamOrder == StreamOrderIn(tlsq, wire)

\* The commands the MCU has not run, arming it excepted.
CommandsIn(q) == Items(q) \intersect Orders
CommandOrderIn(q) == Ahead(q) \intersect (Orders \X Orders)
Commands == CommandsIn(toMcu)
CommandOrder == CommandOrderIn(toMcu)

Images == {r \in Stream : r.msg = "image"}
Requested == {c \in Commands : c.name = "getImage"}

-----------------------------------------------------------------------------
Waits == {"upWait", "event"}
Asking == {"referenceWait", "wait"} \union Stores

TaskTypes ==
  /\ isOpen \in BOOLEAN /\ active \in BOOLEAN
  /\ due \in DOMAIN After \union {"none"} /\ task \in DOMAIN After \union {"none"}
  /\ stage \in Polls \union {"none", "upSetup", "referenceStart",
                             "referenceStore", "setup", "start", "store"}
  /\ seen \in {"no", "own", "stale"} /\ mode \in {"idle", "down", "up"}

HostTypes ==
  /\ tls \in {"none", "connecting", "connected", "error"}
  /\ hs \in {"hello", "finished", "done"} /\ broken \in BOOLEAN
  /\ sess \in Nat /\ nextSeq \in Nat /\ have \in Nat
  /\ givenUp \in Nat /\ waitGivenUp \in BOOLEAN
  /\ overflow \in BOOLEAN /\ clean \in BOOLEAN

LimitTypes ==
  /\ inits \in Nat /\ requests \in Nat /\ faults \in Nat /\ odd \in Nat
  /\ inits <= MaxInits /\ requests <= MaxRequests
  /\ faults <= MaxFaults /\ odd <= MaxOdd

McuStates ==
  [phase : {"off", "hello", "finished", "connected"}, sess : Nat, sent : Nat]
McuType == mcu \in McuStates
ArmedType == armed \in [dir : {"none", "down", "up"}, own : BOOLEAN]

QueueTypes == wire \in Wires /\ tlsq \in Backends /\ toMcu \in Lines

Types == TaskTypes /\ HostTypes /\ LimitTypes /\ McuType /\ ArmedType /\ QueueTypes

\* Which stages a task has.
StagesOf ==
  [none |-> {"none"}, waitDown |-> {"setup", "event"},
   waitUp |-> {"setup", "event"}, capture |-> {"start", "wait", "store"},
   activate |-> {"tls", "upSetup", "upWait", "referenceStart",
                 "referenceWait", "referenceStore"}]

\* The task, its stage and the TLS session go together.
StageInv ==
  /\ stage \in StagesOf[task]
  /\ stage \notin {"none", "tls"} => tls = "connected"
  /\ active => tls = "connected" /\ "activate" \notin {due, task}
  /\ {due, task} \intersect {"waitDown", "capture", "waitUp"} # {} => active
  /\ tls = "connecting" => hs \in {"hello", "finished"} /\ nextSeq = 0 /\ ~broken
  /\ seen # "no" => stage \in Waits
  /\ stage \in Waits => mode = Direction
  /\ stage \in Stores => have # 0

\* A record stands ahead of those of later sessions and of later images.
Earlier(a, b) ==
  \/ a.sess < b.sess
  \/ /\ a.sess = b.sess /\ a.msg = "image" /\ b.msg = "image"
     /\ a.seq < b.seq /\ a.req < b.req

\* Numbers: sessions the MCU has been told to start, images it has sent.
NumbersInv ==
  /\ sess <= mcu.sess /\ mcu.sess <= inits
  /\ mcu.phase # "connected" => mcu.sent = 0
  /\ mcu.sent <= requests /\ have <= requests /\ nextSeq <= requests
  /\ givenUp <= requests
  /\ stage \in {"referenceWait", "wait"} => givenUp < requests

\* A record is of a session the MCU has begun and an image it has sent; a
\* record of the handshake is the only one of its session, and unanswered.
Unanswered(r, C) ==
  /\ Command("serverFinished", r.sess) \notin C
  /\ r.msg = "hello" => Command("serverFlight", r.sess) \notin C

ImageRecord(r) ==
  /\ r.seq < r.req /\ r.req <= requests
  /\ r.sess = mcu.sess => r.seq < mcu.sent

FlightRecord(r) ==
  /\ r.sess = mcu.sess => mcu.phase = r.msg
  /\ \A x \in Stream : x.sess = r.sess => x.msg = r.msg
  /\ Unanswered(r, Commands)

RecordsInv ==
  /\ \A r \in Stream :
       /\ r.sess <= mcu.sess
       /\ IF r.msg = "image" THEN ImageRecord(r) ELSE FlightRecord(r)
  /\ \A p \in StreamOrder : Earlier(p[1], p[2])

\* A command to start a session is of one to come, an answer is of one begun,
\* which the last flight follows, and requests are numbered as they are made.
CommandOK(c) ==
  CASE c.name = "init" -> mcu.sess < c.n /\ c.n <= inits
    [] c.name = "getImage" ->
         /\ mcu.sent < c.n /\ c.n <= requests
         /\ \A r \in Images : r.req < c.n
    [] OTHER ->
         /\ c.n <= mcu.sess
         /\ c.name = "serverFinished" /\ c.n = mcu.sess => mcu.phase # "hello"

InOrder(a, b) ==
  a.name = b.name /\ a.name \in {"init", "getImage"} => a.n < b.n

CommandsInv ==
  /\ \A c \in Commands : CommandOK(c)
  /\ \A p \in CommandOrder : InOrder(p[1], p[2])

\* A handshake that may finish has no request left of an earlier session: its
\* flight goes out behind them.
FlightInv ==
  tls = "connecting" /\ hs = "finished" =>
    /\ \A r \in Stream : r.sess = sess /\ r.msg = "finished" => Requested = {}
    /\ \A p \in CommandOrder :
         p[1] = Command("serverFlight", sess) => p[2].name # "getImage"

LineInv == NumbersInv /\ RecordsInv /\ CommandsInv /\ FlightInv

-----------------------------------------------------------------------------
\* The session was asked for, and the MCU has begun it or will.
Asked ==
  inits > 0 => mcu.sess = inits \/ Command("init", inits) \in Commands

\* The handshake is with the session that was asked for; or with an earlier
\* one, and cannot finish.
Handshaking ==
  \/ /\ sess = inits /\ mcu.phase \in {"hello", "finished"}
     /\ Command("serverFinished", sess) \notin Commands
     /\ \A r \in Stream : r.sess = sess /\ r.msg = "finished"
  \/ /\ sess < inits
     /\ \A r \in Stream : ~(r.sess = sess /\ r.msg = "finished")
     /\ <<Command("serverFlight", sess), Command("init", inits)>>
          \notin CommandOrder

\* What is on the way are the images of this session that the backend waits
\* for, all of them.
Connected ==
  /\ sess = inits /\ mcu.sess = inits /\ mcu.phase # "hello" /\ ~broken
  /\ \A r \in Stream : r.msg = "image" /\ r.sess = inits /\ nextSeq <= r.seq
  /\ nextSeq <= mcu.sent
  /\ \A k \in nextSeq..mcu.sent - 1 : \E r \in Stream : r.seq = k

SyncInv ==
  clean => /\ Asked
           /\ tls = "connecting" /\ hs = "finished" => Handshaking
           /\ tls = "connected" => Connected

-----------------------------------------------------------------------------
\* The requests of this session whose image may still come, and the one that
\* came.
Coming == {c.n : c \in Requested} \union {r.req : r \in {x \in Images : x.sess = sess}}

LagInv ==
  tls = "connected" =>
    /\ stage \notin Asking => \A k \in Coming : requests + 1 - k <= givenUp
    /\ stage \in Asking =>
         /\ \A k \in Coming : requests - k <= givenUp
         /\ have # 0 => /\ requests - have <= givenUp
                        /\ \A k \in Coming : have < k

-----------------------------------------------------------------------------
\* One arming, report or event at most, and of the task that waits; none when
\* no task waits.
ArmedOnTheWay == Items(toMcu) \intersect Armings
ReportsOnTheWay == Items(wire) \intersect Reports
ArmedPairs == Ahead(toMcu) \intersect (Armings \X Armings)
ReportPairs == Ahead(wire) \intersect (Reports \X Reports)

NoToken == ArmedOnTheWay = {} /\ ReportsOnTheWay = {} /\ armed.dir = "none"

OneToken ==
  /\ ArmedPairs = {} /\ ReportPairs = {}
  /\ \A m \in ArmedOnTheWay \union ReportsOnTheWay : m.own
  /\ armed.dir # "none" => armed.own
  /\ ArmedOnTheWay # {} => ReportsOnTheWay = {} /\ armed.dir = "none"
  /\ ReportsOnTheWay # {} => armed.dir = "none"
  /\ seen # "no" => NoToken
  /\ seen # "stale"

TokenInv ==
  ~waitGivenUp => IF stage \in Waits THEN OneToken ELSE NoToken

IInv == Types /\ StageInv /\ LineInv /\ SyncInv /\ LagInv /\ TokenInv

-----------------------------------------------------------------------------
\* A queue and the queue without its head.
LEMMA TailItems ==
  ASSUME NEW S, NEW q \in Seq(S), q # <<>>
  PROVE  /\ Head(q) \in S /\ Tail(q) \in Seq(S)
         /\ Items(q) = {Head(q)} \union Items(Tail(q))
         /\ Ahead(q) = Ahead(Tail(q)) \union ({Head(q)} \X Items(Tail(q)))
<1> DEFINE t == Tail(q)
<1>1. /\ Len(q) \in Nat \ {0} /\ DOMAIN q = 1..Len(q) /\ Head(q) = q[1]
      /\ t \in Seq(S) /\ DOMAIN t = 1..(Len(q) - 1)
      /\ \A i \in 1..(Len(q) - 1) : t[i] = q[i + 1]
  OBVIOUS
<1> HIDE DEF t
<1>2. \A i \in DOMAIN q : i = 1 \/ (i - 1 \in DOMAIN t /\ q[i] = t[i - 1])
  BY <1>1
<1>3. \A i \in DOMAIN t : i + 1 \in DOMAIN q /\ q[i + 1] = t[i]
  BY <1>1
<1>4. 1 \in DOMAIN q /\ Head(q) = q[1]
  BY <1>1
<1>5. Items(q) = {Head(q)} \union Items(t)
  BY <1>2, <1>3, <1>4 DEF Items
<1>6. ASSUME NEW p \in Ahead(q)
      PROVE  p \in Ahead(t) \union ({Head(q)} \X Items(t))
  <2>1. PICK i \in DOMAIN q, j \in DOMAIN q : i < j /\ p = <<q[i], q[j]>>
    BY <1>6 DEF Ahead
  <2>2. j # 1 /\ i \in Int /\ j \in Int
    BY <1>1, <2>1
  <2>3. j - 1 \in DOMAIN t /\ q[j] = t[j - 1]
    BY <1>2, <2>1, <2>2
  <2>4. CASE i = 1
    BY <1>4, <2>1, <2>3, <2>4 DEF Items
  <2>5. CASE i # 1
    <3>1. i - 1 \in DOMAIN t /\ q[i] = t[i - 1] /\ i - 1 < j - 1
      BY <1>2, <2>1, <2>2, <2>5
    <3> QED BY <2>1, <2>3, <3>1 DEF Ahead, Items
  <2> QED BY <2>4, <2>5
<1>7. ASSUME NEW p \in Ahead(t)
      PROVE  p \in Ahead(q)
  <2>1. PICK i \in DOMAIN t, j \in DOMAIN t : i < j /\ p = <<t[i], t[j]>>
    BY <1>7 DEF Ahead
  <2>2. i + 1 \in DOMAIN q /\ j + 1 \in DOMAIN q /\ i + 1 < j + 1
        /\ q[i + 1] = t[i] /\ q[j + 1] = t[j]
    BY <1>1, <1>3, <2>1
  <2> QED BY <2>1, <2>2 DEF Ahead, Items
<1>8. ASSUME NEW m \in Items(t)
      PROVE  <<Head(q), m>> \in Ahead(q)
  <2>1. PICK i \in DOMAIN t : m = t[i]
    BY <1>8 DEF Items
  <2>2. i + 1 \in DOMAIN q /\ 1 < i + 1 /\ q[i + 1] = m
    BY <1>1, <1>3, <2>1
  <2> QED BY <1>4, <2>2 DEF Ahead, Items
<1>9. Head(q) \in S
  BY <1>1
<1> QED
  BY <1>1, <1>5, <1>6, <1>7, <1>8, <1>9 DEF t

\* A queue with one more at its end.
LEMMA AppendItems ==
  ASSUME NEW S, NEW q \in Seq(S), NEW m \in S
  PROVE  /\ Append(q, m) \in Seq(S)
         /\ Items(Append(q, m)) = Items(q) \union {m}
         /\ Ahead(Append(q, m)) = Ahead(q) \union (Items(q) \X {m})
<1> DEFINE a == Append(q, m)
           n == Len(q) + 1
<1>1. /\ Len(q) \in Nat /\ DOMAIN q = 1..Len(q)
      /\ a \in Seq(S) /\ DOMAIN a = 1..n
      /\ \A i \in 1..Len(q) : a[i] = q[i]
      /\ a[n] = m
  OBVIOUS
<1>2. n \in DOMAIN a /\ n \in Int /\ \A i \in DOMAIN q : i \in Int /\ i < n
  BY <1>1
<1> HIDE DEF a
<1>3. \A i \in DOMAIN a : i = n \/ (i \in DOMAIN q /\ a[i] = q[i])
  BY <1>1
<1>4. \A i \in DOMAIN q : i \in DOMAIN a /\ a[i] = q[i]
  BY <1>1
<1> HIDE DEF n
<1>5. Items(a) = Items(q) \union {m}
  BY <1>1, <1>2, <1>3, <1>4 DEF Items
<1>6. ASSUME NEW p \in Ahead(a)
      PROVE  p \in Ahead(q) \union (Items(q) \X {m})
  <2>1. PICK i \in DOMAIN a, j \in DOMAIN a : i < j /\ p = <<a[i], a[j]>>
    BY <1>6 DEF Ahead
  <2>2. i # n
    BY <1>2, <1>3, <2>1
  <2>3. i \in DOMAIN q /\ a[i] = q[i]
    BY <1>3, <2>2
  <2>4. CASE j = n
    BY <1>1, <2>1, <2>3, <2>4 DEF Items
  <2>5. CASE j # n
    <3>1. j \in DOMAIN q /\ a[j] = q[j]
      BY <1>3, <2>5
    <3> QED BY <2>1, <2>3, <3>1 DEF Ahead, Items
  <2> QED BY <2>4, <2>5
<1>7. ASSUME NEW p \in Ahead(q)
      PROVE  p \in Ahead(a)
  <2>1. PICK i \in DOMAIN q, j \in DOMAIN q : i < j /\ p = <<q[i], q[j]>>
    BY <1>7 DEF Ahead
  <2> QED BY <1>4, <2>1 DEF Ahead, Items
<1>8. ASSUME NEW x \in Items(q)
      PROVE  <<x, m>> \in Ahead(a)
  <2>1. PICK i \in DOMAIN q : x = q[i]
    BY <1>8 DEF Items
  <2> QED BY <1>1, <1>2, <1>4, <2>1 DEF Ahead, Items
<1> QED
  BY <1>1, <1>5, <1>6, <1>7, <1>8 DEF a

LEMMA EmptyItems == Items(<<>>) = {} /\ Ahead(<<>>) = {}
BY DEF Items, Ahead

LEMMA AheadItems ==
  ASSUME NEW q, NEW p \in Ahead(q)
  PROVE  p \in Items(q) \X Items(q)
BY DEF Ahead

\* Of the members S of a queue, those in K have no owner to lose.
Unowned(S, K) ==
  /\ K \subseteq S /\ \A m \in K : Disowned(m) = m
  /\ \A m \in S : Disowned(m) \in S /\ (Disowned(m) \in K <=> m \in K)

\* A queue whose members lost their owner: those that have none are as they
\* were.
LEMMA DisownedItems ==
  ASSUME NEW S, NEW K, Unowned(S, K), NEW q \in Seq(S)
  PROVE  /\ DisownedAll(q) \in Seq(S)
         /\ Items(DisownedAll(q)) \intersect K = Items(q) \intersect K
         /\ Ahead(DisownedAll(q)) \intersect (K \X K) = Ahead(q) \intersect (K \X K)
         /\ \A m \in Items(DisownedAll(q)) : \E x \in Items(q) : m = Disowned(x)
<1> DEFINE d == DisownedAll(q)
<1>1. DOMAIN q = 1..Len(q) /\ Len(q) \in Nat /\ \A i \in DOMAIN q : q[i] \in S
  OBVIOUS
<1>2. DOMAIN d = DOMAIN q /\ \A i \in DOMAIN q : d[i] = Disowned(q[i])
  BY DEF DisownedAll
<1>3. d \in [1..Len(q) -> S]
  BY <1>1 DEF DisownedAll, Unowned
<1>4. d \in Seq(S)
  BY <1>1, <1>3
<1> HIDE DEF d
<1>5. ASSUME NEW m \in K
      PROVE  m \in Items(d) <=> m \in Items(q)
  BY <1>1, <1>2, <1>5 DEF Items, Unowned
<1>6. ASSUME NEW m \in K, NEW x \in K
      PROVE  <<m, x>> \in Ahead(d) <=> <<m, x>> \in Ahead(q)
  <2>1. ASSUME <<m, x>> \in Ahead(d)
        PROVE  <<m, x>> \in Ahead(q)
    <3>1. PICK i \in DOMAIN d, j \in DOMAIN d : i < j /\ m = d[i] /\ x = d[j]
      BY <2>1 DEF Ahead
    <3>2. m = q[i] /\ x = q[j] /\ i \in DOMAIN q /\ j \in DOMAIN q
      BY <1>1, <1>2, <3>1 DEF Unowned
    <3> QED BY <3>1, <3>2 DEF Ahead, Items
  <2>2. ASSUME <<m, x>> \in Ahead(q)
        PROVE  <<m, x>> \in Ahead(d)
    <3>1. PICK i \in DOMAIN q, j \in DOMAIN q : i < j /\ m = q[i] /\ x = q[j]
      BY <2>2 DEF Ahead
    <3>2. m = d[i] /\ x = d[j] /\ i \in DOMAIN d /\ j \in DOMAIN d
      BY <1>1, <1>2, <3>1 DEF Unowned
    <3> QED BY <3>1, <3>2 DEF Ahead, Items
  <2> QED BY <2>1, <2>2
<1>7. \A m \in Items(d) : \E x \in Items(q) : m = Disowned(x)
  BY <1>2 DEF Items
<1>8. Items(d) \intersect K = Items(q) \intersect K
  BY <1>5
<1>9. Ahead(d) \intersect (K \X K) = Ahead(q) \intersect (K \X K)
  BY <1>6
<1> QED BY <1>4, <1>7, <1>8, <1>9 DEF d

-----------------------------------------------------------------------------
\* What the steps of the queues do to the stream and to the commands.
LEMMA MessageKinds ==
  /\ TlsRecords \intersect Reports = {} /\ Orders \intersect Armings = {}
  /\ \A m \in TlsRecords : m.kind = "tls" /\ Disowned(m) = m
  /\ \A m \in Reports : m.kind = "fdt" /\ Disowned(m) \in Reports
  /\ \A m \in Orders : Disowned(m) = m
  /\ \A m \in Armings : Disowned(m) \in Armings
BY DEF TlsRecords, Reports, Orders, Armings, Disowned

LEMMA StreamDisowned ==
  ASSUME NEW p, NEW w \in Wires
  PROVE  /\ DisownedAll(w) \in Wires
         /\ StreamIn(p, DisownedAll(w)) = StreamIn(p, w)
         /\ StreamOrderIn(p, DisownedAll(w)) = StreamOrderIn(p, w)
         /\ \A m \in Items(DisownedAll(w)) : \E x \in Items(w) : m = Disowned(x)
<1> DEFINE S == TlsRecords \union Reports
           K == TlsRecords
<1>1. Unowned(S, K)
  BY MessageKinds DEF Unowned
<1>2. w \in Seq(S)
  BY DEF Wires
<1> HIDE DEF S, K
<1>4. /\ DisownedAll(w) \in Seq(S)
      /\ Items(DisownedAll(w)) \intersect K = Items(w) \intersect K
      /\ Ahead(DisownedAll(w)) \intersect (K \X K) = Ahead(w) \intersect (K \X K)
      /\ \A m \in Items(DisownedAll(w)) : \E x \in Items(w) : m = Disowned(x)
  BY <1>1, <1>2, DisownedItems, Zenon
<1> USE DEF K
<1>5. StreamIn(p, DisownedAll(w)) = StreamIn(p, w)
  BY <1>4 DEF StreamIn
<1>6. (Items(p) \X Items(DisownedAll(w))) \intersect (K \X K)
        = (Items(p) \X Items(w)) \intersect (K \X K)
  BY <1>4
<1>7. StreamOrderIn(p, DisownedAll(w)) = StreamOrderIn(p, w)
  BY <1>4, <1>6 DEF StreamOrderIn
<1> QED BY <1>4, <1>5, <1>7 DEF Wires, S

LEMMA CommandsDisowned ==
  ASSUME NEW q \in Lines
  PROVE  /\ DisownedAll(q) \in Lines
         /\ CommandsIn(DisownedAll(q)) = CommandsIn(q)
         /\ CommandOrderIn(DisownedAll(q)) = CommandOrderIn(q)
         /\ \A m \in Items(DisownedAll(q)) : \E x \in Items(q) : m = Disowned(x)
<1> DEFINE S == Armings \union Orders
           K == Orders
<1>1. Unowned(S, K)
  BY MessageKinds DEF Unowned
<1>2. q \in Seq(S)
  BY DEF Lines
<1> HIDE DEF S, K
<1>4. /\ DisownedAll(q) \in Seq(S)
      /\ Items(DisownedAll(q)) \intersect K = Items(q) \intersect K
      /\ Ahead(DisownedAll(q)) \intersect (K \X K) = Ahead(q) \intersect (K \X K)
      /\ \A m \in Items(DisownedAll(q)) : \E x \in Items(q) : m = Disowned(x)
  BY <1>1, <1>2, DisownedItems, Zenon
<1> QED BY <1>4 DEF Lines, S, K, CommandsIn, CommandOrderIn

\* A record is decrypted.
LEMMA StreamTail ==
  ASSUME NEW p \in Backends, p # <<>>, NEW w \in Wires
  PROVE  /\ Tail(p) \in Backends /\ Head(p) \in TlsRecords
         /\ StreamIn(p, w) = {Head(p)} \union StreamIn(Tail(p), w)
         /\ StreamOrderIn(p, w) =
              StreamOrderIn(Tail(p), w) \union ({Head(p)} \X StreamIn(Tail(p), w))
<1>1. /\ Head(p) \in TlsRecords /\ Tail(p) \in Backends
      /\ Items(p) = {Head(p)} \union Items(Tail(p))
      /\ Ahead(p) = Ahead(Tail(p)) \union ({Head(p)} \X Items(Tail(p)))
  BY TailItems DEF Backends
<1>2. StreamIn(p, w) = {Head(p)} \union StreamIn(Tail(p), w)
  BY <1>1 DEF StreamIn
<1>3. ASSUME NEW a \in TlsRecords, NEW b \in TlsRecords
      PROVE  <<a, b>> \in StreamOrderIn(p, w) <=>
               \/ <<a, b>> \in StreamOrderIn(Tail(p), w)
               \/ a = Head(p) /\ b \in StreamIn(Tail(p), w)
  BY <1>1 DEF StreamIn, StreamOrderIn
<1>4. StreamOrderIn(p, w) =
        StreamOrderIn(Tail(p), w) \union ({Head(p)} \X StreamIn(Tail(p), w))
  BY <1>1, <1>3 DEF StreamOrderIn, StreamIn
<1> QED BY <1>1, <1>2, <1>4

\* A record moves from the queue to the backend, or a report leaves it.
LEMMA StreamFeed ==
  ASSUME NEW p \in Backends, NEW w \in Wires, w # <<>>
  PROVE  /\ Tail(w) \in Wires /\ Head(w) \in TlsRecords \union Reports
         /\ Items(Tail(w)) \subseteq Items(w) /\ Head(w) \in Items(w)
         /\ Head(w) \in TlsRecords =>
              /\ Append(p, Head(w)) \in Backends
              /\ StreamIn(Append(p, Head(w)), Tail(w)) = StreamIn(p, w)
              /\ StreamOrderIn(Append(p, Head(w)), Tail(w)) = StreamOrderIn(p, w)
         /\ Head(w) \in Reports =>
              /\ StreamIn(p, Tail(w)) = StreamIn(p, w)
              /\ StreamOrderIn(p, Tail(w)) = StreamOrderIn(p, w)
<1>1. /\ Head(w) \in TlsRecords \union Reports /\ Tail(w) \in Wires
      /\ Items(w) = {Head(w)} \union Items(Tail(w))
      /\ Ahead(w) = Ahead(Tail(w)) \union ({Head(w)} \X Items(Tail(w)))
  BY TailItems DEF Wires
<1>2. ASSUME Head(w) \in TlsRecords
      PROVE  /\ Append(p, Head(w)) \in Backends
             /\ StreamIn(Append(p, Head(w)), Tail(w)) = StreamIn(p, w)
             /\ StreamOrderIn(Append(p, Head(w)), Tail(w)) = StreamOrderIn(p, w)
  <2>1. /\ Append(p, Head(w)) \in Backends
        /\ Items(Append(p, Head(w))) = Items(p) \union {Head(w)}
        /\ Ahead(Append(p, Head(w))) = Ahead(p) \union (Items(p) \X {Head(w)})
    BY <1>2, AppendItems DEF Backends
  <2>2. StreamIn(Append(p, Head(w)), Tail(w)) = StreamIn(p, w)
    BY <1>1, <2>1 DEF StreamIn
  <2>3. StreamOrderIn(Append(p, Head(w)), Tail(w)) = StreamOrderIn(p, w)
    BY <1>1, <2>1 DEF StreamOrderIn
  <2> QED BY <2>1, <2>2, <2>3
<1>3. ASSUME Head(w) \in Reports
      PROVE  /\ StreamIn(p, Tail(w)) = StreamIn(p, w)
             /\ StreamOrderIn(p, Tail(w)) = StreamOrderIn(p, w)
  BY <1>1, <1>3, MessageKinds DEF StreamIn, StreamOrderIn
<1> QED BY <1>1, <1>2, <1>3

\* A record or a report arrives.
LEMMA StreamAppend ==
  ASSUME NEW p \in Backends, NEW w \in Wires, NEW m \in TlsRecords \union Reports
  PROVE  /\ Append(w, m) \in Wires /\ Items(Append(w, m)) = Items(w) \union {m}
         /\ Ahead(Append(w, m)) = Ahead(w) \union (Items(w) \X {m})
         /\ m \in TlsRecords =>
              /\ StreamIn(p, Append(w, m)) = StreamIn(p, w) \union {m}
              /\ StreamOrderIn(p, Append(w, m)) =
                   StreamOrderIn(p, w) \union (StreamIn(p, w) \X {m})
         /\ m \in Reports =>
              /\ StreamIn(p, Append(w, m)) = StreamIn(p, w)
              /\ StreamOrderIn(p, Append(w, m)) = StreamOrderIn(p, w)
<1>1. /\ Append(w, m) \in Wires
      /\ Items(Append(w, m)) = Items(w) \union {m}
      /\ Ahead(Append(w, m)) = Ahead(w) \union (Items(w) \X {m})
  BY AppendItems DEF Wires
<1>2. m \in TlsRecords =>
        /\ StreamIn(p, Append(w, m)) = StreamIn(p, w) \union {m}
        /\ StreamOrderIn(p, Append(w, m)) =
             StreamOrderIn(p, w) \union (StreamIn(p, w) \X {m})
  BY <1>1 DEF StreamIn, StreamOrderIn
<1>3. m \in Reports =>
        /\ StreamIn(p, Append(w, m)) = StreamIn(p, w)
        /\ StreamOrderIn(p, Append(w, m)) = StreamOrderIn(p, w)
  BY <1>1, MessageKinds DEF StreamIn, StreamOrderIn
<1> QED BY <1>1, <1>2, <1>3

LEMMA StreamEmpty ==
  ASSUME NEW p, NEW w
  PROVE  /\ <<>> \in Wires /\ <<>> \in Backends
         /\ StreamIn(p, <<>>) \subseteq StreamIn(p, w)
         /\ StreamOrderIn(p, <<>>) \subseteq StreamOrderIn(p, w)
         /\ StreamIn(<<>>, w) \subseteq StreamIn(p, w)
         /\ StreamOrderIn(<<>>, w) \subseteq StreamOrderIn(p, w)
         /\ StreamIn(<<>>, <<>>) = {} /\ StreamOrderIn(<<>>, <<>>) = {}
BY EmptyItems DEF StreamIn, StreamOrderIn, Wires, Backends

\* The MCU takes a command, or one is lost.
LEMMA CommandsTail ==
  ASSUME NEW q \in Lines, q # <<>>
  PROVE  /\ Tail(q) \in Lines /\ Head(q) \in Armings \union Orders
         /\ Items(q) = {Head(q)} \union Items(Tail(q))
         /\ Ahead(q) = Ahead(Tail(q)) \union ({Head(q)} \X Items(Tail(q)))
         /\ Head(q) \in Orders =>
              /\ CommandsIn(q) = {Head(q)} \union CommandsIn(Tail(q))
              /\ CommandOrderIn(q) = CommandOrderIn(Tail(q))
                                       \union ({Head(q)} \X CommandsIn(Tail(q)))
         /\ Head(q) \in Armings =>
              /\ CommandsIn(q) = CommandsIn(Tail(q))
              /\ CommandOrderIn(q) = CommandOrderIn(Tail(q))
<1>1. /\ Head(q) \in Armings \union Orders /\ Tail(q) \in Lines
      /\ Items(q) = {Head(q)} \union Items(Tail(q))
      /\ Ahead(q) = Ahead(Tail(q)) \union ({Head(q)} \X Items(Tail(q)))
  BY TailItems DEF Lines
<1>2. Head(q) \in Orders =>
        /\ CommandsIn(q) = {Head(q)} \union CommandsIn(Tail(q))
        /\ CommandOrderIn(q) = CommandOrderIn(Tail(q))
                                 \union ({Head(q)} \X CommandsIn(Tail(q)))
  BY <1>1 DEF CommandsIn, CommandOrderIn
<1>3. Head(q) \in Armings =>
        /\ CommandsIn(q) = CommandsIn(Tail(q))
        /\ CommandOrderIn(q) = CommandOrderIn(Tail(q))
  BY <1>1, MessageKinds DEF CommandsIn, CommandOrderIn
<1> QED BY <1>1, <1>2, <1>3

\* A command is sent.
LEMMA CommandsAppend ==
  ASSUME NEW q \in Lines, NEW c \in Armings \union Orders
  PROVE  /\ Append(q, c) \in Lines /\ Items(Append(q, c)) = Items(q) \union {c}
         /\ Ahead(Append(q, c)) = Ahead(q) \union (Items(q) \X {c})
         /\ c \in Orders =>
              /\ CommandsIn(Append(q, c)) = CommandsIn(q) \union {c}
              /\ CommandOrderIn(Append(q, c)) =
                   CommandOrderIn(q) \union (CommandsIn(q) \X {c})
         /\ c \in Armings =>
              /\ CommandsIn(Append(q, c)) = CommandsIn(q)
              /\ CommandOrderIn(Append(q, c)) = CommandOrderIn(q)
<1>1. /\ Append(q, c) \in Lines /\ Items(Append(q, c)) = Items(q) \union {c}
      /\ Ahead(Append(q, c)) = Ahead(q) \union (Items(q) \X {c})
  BY AppendItems DEF Lines
<1>2. c \in Orders =>
        /\ CommandsIn(Append(q, c)) = CommandsIn(q) \union {c}
        /\ CommandOrderIn(Append(q, c)) = CommandOrderIn(q) \union (CommandsIn(q) \X {c})
  BY <1>1 DEF CommandsIn, CommandOrderIn
<1>3. c \in Armings =>
        /\ CommandsIn(Append(q, c)) = CommandsIn(q)
        /\ CommandOrderIn(Append(q, c)) = CommandOrderIn(q)
  BY <1>1, MessageKinds DEF CommandsIn, CommandOrderIn
<1> QED BY <1>1, <1>2, <1>3

-----------------------------------------------------------------------------
\* What a step does to the stream and to the commands: nothing, an end, a
\* loss, a record or command taken from the front or added at the back.
StreamSame == Stream' = Stream /\ StreamOrder' = StreamOrder
StreamLess == Stream' \subseteq Stream /\ StreamOrder' \subseteq StreamOrder
StreamGone == Stream' = {} /\ StreamOrder' = {}
StreamGains(r) ==
  Stream' = Stream \union {r} /\ StreamOrder' = StreamOrder \union (Stream \X {r})
Decrypting ==
  /\ Head(tlsq) \in TlsRecords /\ Stream = {Head(tlsq)} \union Stream'
  /\ StreamOrder = StreamOrder' \union ({Head(tlsq)} \X Stream')

CommandsSame == Commands' = Commands /\ CommandOrder' = CommandOrder
CommandsLess == Commands' \subseteq Commands /\ CommandOrder' \subseteq CommandOrder
CommandSent(c) ==
  /\ Commands' = Commands \union {c}
  /\ CommandOrder' = CommandOrder \union (Commands \X {c})
CommandRun(c) ==
  /\ Commands = {c} \union Commands'
  /\ CommandOrder = CommandOrder' \union ({c} \X Commands')

LEMMA StreamKept ==
  ASSUME UNCHANGED <<tlsq, wire>>
  PROVE  StreamSame
BY DEF StreamSame, Stream, StreamOrder

LEMMA CommandsKept ==
  ASSUME UNCHANGED toMcu
  PROVE  CommandsSame
BY DEF CommandsSame, Commands, CommandOrder

LEMMA OrderSent ==
  ASSUME QueueTypes, NEW c \in Orders, Sends(c)
  PROVE  toMcu' \in Lines /\ CommandSent(c)
BY CommandsAppend DEF QueueTypes, Sends, CommandSent, Commands, CommandOrder

LEMMA ArmingSent ==
  ASSUME QueueTypes, NEW c \in Armings, Sends(c)
  PROVE  /\ toMcu' \in Lines /\ CommandsSame
         /\ Items(toMcu') = Items(toMcu) \union {c}
         /\ Ahead(toMcu') = Ahead(toMcu) \union (Items(toMcu) \X {c})
BY CommandsAppend DEF QueueTypes, Sends, CommandsSame, Commands, CommandOrder

LEMMA CommandsLeft ==
  ASSUME QueueTypes, toMcu' = DisownedAll(toMcu)
  PROVE  /\ toMcu' \in Lines /\ CommandsSame
         /\ \A m \in Items(toMcu') : \E x \in Items(toMcu) : m = Disowned(x)
BY CommandsDisowned DEF QueueTypes, CommandsSame, Commands, CommandOrder

LEMMA WireLeft ==
  ASSUME QueueTypes, wire' = DisownedAll(wire)
  PROVE  /\ wire' \in Wires
         /\ \A m \in Items(wire') : \E x \in Items(wire) : m = Disowned(x)
         /\ tlsq' = tlsq => StreamSame
         /\ tlsq # <<>> /\ tlsq' = Tail(tlsq) => tlsq' \in Backends /\ Decrypting
<1>1. /\ wire' \in Wires /\ Stream = StreamIn(tlsq, wire')
      /\ StreamOrder = StreamOrderIn(tlsq, wire')
      /\ \A m \in Items(wire') : \E x \in Items(wire) : m = Disowned(x)
  BY StreamDisowned DEF QueueTypes, Stream, StreamOrder
<1>2. tlsq' = tlsq => StreamSame
  BY <1>1 DEF StreamSame, Stream, StreamOrder
<1>3. tlsq # <<>> /\ tlsq' = Tail(tlsq) => tlsq' \in Backends /\ Decrypting
  BY <1>1, StreamTail DEF QueueTypes, Decrypting, Stream, StreamOrder
<1> QED BY <1>1, <1>2, <1>3

LEMMA RecordDecrypted ==
  ASSUME QueueTypes, tlsq # <<>>, tlsq' = Tail(tlsq), UNCHANGED wire
  PROVE  tlsq' \in Backends /\ Decrypting
BY StreamTail DEF QueueTypes, Decrypting, Stream, StreamOrder

\* A report is read by a task that ends.
LEMMA ReportLeft ==
  ASSUME QueueTypes, wire # <<>>, Head(wire).kind = "fdt", UNCHANGED tlsq,
         wire' = DisownedAll(Tail(wire))
  PROVE  /\ wire' \in Wires /\ StreamSame /\ Head(wire) \in Items(wire) \intersect Reports
         /\ \A m \in Items(wire') : \E x \in Items(wire) : m = Disowned(x)
<1>1. /\ Tail(wire) \in Wires /\ Head(wire) \in TlsRecords \union Reports
      /\ Items(Tail(wire)) \subseteq Items(wire) /\ Head(wire) \in Items(wire)
      /\ Head(wire) \in Reports =>
           /\ StreamIn(tlsq, Tail(wire)) = StreamIn(tlsq, wire)
           /\ StreamOrderIn(tlsq, Tail(wire)) = StreamOrderIn(tlsq, wire)
  BY StreamFeed DEF QueueTypes
<1>2. Head(wire) \in Reports
  BY <1>1, MessageKinds
<1>3. /\ wire' \in Wires /\ StreamIn(tlsq, wire') = StreamIn(tlsq, Tail(wire))
      /\ StreamOrderIn(tlsq, wire') = StreamOrderIn(tlsq, Tail(wire))
      /\ \A m \in Items(wire') : \E x \in Items(Tail(wire)) : m = Disowned(x)
  BY <1>1, StreamDisowned
<1>4. StreamSame
  BY <1>1, <1>2, <1>3 DEF StreamSame, Stream, StreamOrder
<1> QED BY <1>1, <1>2, <1>3, <1>4

\* A record or a report is read, and fed to the backend or looked at.
LEMMA HeadFed ==
  ASSUME QueueTypes, wire # <<>>, wire' = Tail(wire),
         tlsq' = IF Head(wire).kind = "tls" THEN Append(tlsq, Head(wire)) ELSE tlsq
  PROVE  /\ wire' \in Wires /\ tlsq' \in Backends /\ StreamSame
         /\ Items(wire) = {Head(wire)} \union Items(wire')
         /\ Ahead(wire) = Ahead(wire') \union ({Head(wire)} \X Items(wire'))
         /\ Head(wire) \in TlsRecords \union Reports
<1>1. /\ Tail(wire) \in Wires /\ Head(wire) \in TlsRecords \union Reports
      /\ Head(wire) \in TlsRecords =>
           /\ Append(tlsq, Head(wire)) \in Backends
           /\ StreamIn(Append(tlsq, Head(wire)), Tail(wire)) = StreamIn(tlsq, wire)
           /\ StreamOrderIn(Append(tlsq, Head(wire)), Tail(wire)) = StreamOrderIn(tlsq, wire)
      /\ Head(wire) \in Reports =>
           /\ StreamIn(tlsq, Tail(wire)) = StreamIn(tlsq, wire)
           /\ StreamOrderIn(tlsq, Tail(wire)) = StreamOrderIn(tlsq, wire)
  BY StreamFeed DEF QueueTypes
<1>2. /\ Items(wire) = {Head(wire)} \union Items(Tail(wire))
      /\ Ahead(wire) = Ahead(Tail(wire)) \union ({Head(wire)} \X Items(Tail(wire)))
  BY TailItems DEF QueueTypes, Wires
<1>3. tlsq' \in Backends /\ StreamSame
  BY <1>1, MessageKinds DEF StreamSame, Stream, StreamOrder, QueueTypes
<1> QED BY <1>1, <1>2, <1>3

\* A record or a report reaches the queue, or does not.
LEMMA Delivered ==
  ASSUME QueueTypes, NEW m \in TlsRecords \union Reports, Delivers(m), UNCHANGED tlsq
  PROVE  /\ wire' \in Wires
         /\ \/ /\ UNCHANGED limitVars
               /\ Items(wire') = Items(wire) \union {m}
               /\ Ahead(wire') = Ahead(wire) \union (Items(wire) \X {m})
               /\ m \in TlsRecords => StreamGains(m)
               /\ m \in Reports => StreamSame
            \/ clean' = FALSE /\ wire' = <<>> /\ StreamLess
            \/ clean' = FALSE /\ wire' = wire /\ StreamLess
<1>1. CASE wire' = Append(wire, m) /\ NoFault
  BY <1>1, StreamAppend
    DEF QueueTypes, StreamGains, StreamSame, Stream, StreamOrder, NoFault
<1>2. CASE wire' = <<>> /\ clean' = FALSE
  BY <1>2, StreamEmpty DEF StreamLess, Stream, StreamOrder
<1>3. CASE wire' = wire /\ clean' = FALSE
  BY <1>3 DEF StreamLess, Stream, StreamOrder, QueueTypes
<1> QED BY <1>1, <1>2, <1>3 DEF Delivers, Fault, lineVars

\* The MCU takes its next command.
LEMMA CommandTaken ==
  ASSUME QueueTypes, toMcu # <<>>, toMcu' = Tail(toMcu)
  PROVE  /\ toMcu' \in Lines /\ Head(toMcu) \in Armings \union Orders
         /\ Items(toMcu) = {Head(toMcu)} \union Items(toMcu')
         /\ Ahead(toMcu) = Ahead(toMcu') \union ({Head(toMcu)} \X Items(toMcu'))
         /\ Head(toMcu) \in Orders => CommandRun(Head(toMcu))
         /\ Head(toMcu) \in Armings => CommandsSame
         /\ CommandsLess
BY CommandsTail
  DEF QueueTypes, CommandRun, CommandsSame, CommandsLess, Commands, CommandOrder

-----------------------------------------------------------------------------
\* The variables keep their types.
Tasks == {"activate", "waitDown", "capture", "waitUp"}

LEMMA AfterTask ==
  /\ DOMAIN After = Tasks
  /\ \A t \in Tasks : After[t] \in {"waitDown", "capture", "waitUp", "none"}
BY DEF After, Tasks

USE DEF vars, seamVars, machineVars, tlsVars, lineVars, mcuVars, limitVars,
        historyVars

LEMMA TypesInitially == ASSUME Init PROVE Types
<1>1. MaxInits \in Nat /\ MaxRequests \in Nat /\ MaxFaults \in Nat /\ MaxOdd \in Nat
  BY SessionAssumption DEF SessionAssumption
<1>2. <<>> \in Wires /\ <<>> \in Backends /\ <<>> \in Lines
  BY StreamEmpty DEF Lines
<1>3. TaskTypes
  BY DEF Init, TaskInit, TaskTypes
<1>4. HostTypes
  BY DEF Init, HostTypes
<1>5. LimitTypes
  BY <1>1 DEF Init, LimitTypes
<1>6. McuType /\ ArmedType
  BY DEF Init, McuType, McuStates, ArmedType, Disarmed
<1>7. QueueTypes
  BY <1>2 DEF Init, QueueTypes
<1> QED BY <1>3, <1>4, <1>5, <1>6, <1>7 DEF Types

\* The members of the queues.
LEMMA HeadTypes ==
  ASSUME QueueTypes
  PROVE  /\ tlsq # <<>> => Head(tlsq).sess \in Nat /\ Head(tlsq).req \in Nat
         /\ toMcu # <<>> =>
              /\ Head(toMcu) \in Armings \/ Head(toMcu) \in Orders
              /\ Head(toMcu) \in Armings =>
                   /\ Head(toMcu).name = "arm" /\ Head(toMcu).dir \in {"down", "up"}
                   /\ Head(toMcu).own \in BOOLEAN
              /\ Head(toMcu) \in Orders =>
                   Head(toMcu).name # "arm" /\ Head(toMcu).n \in Nat
<1>1. tlsq # <<>> => Head(tlsq) \in TlsRecords
  BY TailItems DEF QueueTypes, Backends
<1>2. toMcu # <<>> => Head(toMcu) \in Armings \/ Head(toMcu) \in Orders
  BY TailItems DEF QueueTypes, Lines
<1> QED BY <1>1, <1>2 DEF TlsRecords, Orders, Armings

\* A task that is given up.
LEMMA GivesUpTypes ==
  ASSUME Types, NEW q, NEW m, GivesUp(q, m)
  PROVE  /\ m \in {mode, "idle"} => TaskTypes'
         /\ givenUp' \in Nat /\ waitGivenUp' \in BOOLEAN /\ ArmedType'
<1>1. m \in {mode, "idle"} => TaskTypes'
  BY DEF GivesUp, End, Leaves, TaskTypes, Types
<1>2. givenUp' \in Nat
  BY DEF GivesUp, Types, HostTypes
<1>3. waitGivenUp' \in BOOLEAN
  BY DEF GivesUp, Types, HostTypes
<1>4. ArmedType'
  BY DEF GivesUp, Leaves, Disowned, ArmedType, Types
<1> QED BY <1>1, <1>2, <1>3, <1>4

LEMMA TaskTypesKept ==
  ASSUME Types, [Next]_vars
  PROVE  TaskTypes'
<1> USE DEF TaskTypes, Types
<1>1. CASE ImgOpen
  BY <1>1 DEF ImgOpen, Open
<1>2. CASE ImgClose
  BY <1>2 DEF ImgClose, Close
<1>3. CASE Ask
  BY <1>3, AfterTask DEF Ask, CallFor, Stop, Tasks
<1>4. CASE Activate
  BY <1>4 DEF Activate, Start, Polls
<1>5. CASE ActivateFails
  BY <1>5 DEF ActivateFails, Refuse
<1>6. CASE StartTask
  BY <1>6 DEF StartTask, Start, Polls
<1>7. CASE Cancel
  BY <1>7, GivesUpTypes DEF Cancel
<1>8. CASE TimeOut
  BY <1>8, GivesUpTypes DEF TimeOut
<1>9. CASE CallFails
  BY <1>9, GivesUpTypes DEF CallFails
<1>10. CASE Setup
  BY <1>10 DEF Setup, Direction, Polls
<1>11. CASE Feed
  BY <1>11 DEF Feed
<1>12. CASE FeedFails
  BY <1>12, GivesUpTypes DEF FeedFails
<1>13. CASE AcceptUp
  BY <1>13 DEF AcceptUp
<1>14. CASE AcceptEvent
  BY <1>14, AfterTask DEF AcceptEvent, Finishes, Done, Running, Leaves, Tasks
<1>15. CASE TlsConnected
  BY <1>15 DEF TlsConnected
<1>16. CASE Handshake
  BY <1>16 DEF Handshake
<1>17. CASE HandshakeFails
  BY <1>17, GivesUpTypes DEF HandshakeFails
<1>18. CASE RequestImage
  BY <1>18 DEF RequestImage, Polls
<1>19. CASE Pull
  BY <1>19 DEF Pull
<1>20. CASE PullFails
  BY <1>20, GivesUpTypes DEF PullFails
<1>21. CASE ImageSeen
  BY <1>21 DEF ImageSeen
<1>22. CASE Store
  BY <1>22, AfterTask DEF Store, Finishes, Done, Running, Leaves, Tasks
<1>23. CASE Mcu \/ LoseCommand \/ UNCHANGED vars
  BY <1>23 DEF Mcu, McuRuns, McuReports, McuReportsOdd, LoseCommand
<1> QED
  BY <1>1, <1>2, <1>3, <1>4, <1>5, <1>6, <1>7, <1>8, <1>9, <1>10, <1>11, <1>12,
     <1>13, <1>14, <1>15, <1>16, <1>17, <1>18, <1>19, <1>20, <1>21, <1>22, <1>23
  DEF Next, Begin, Task

LEMMA HostTypesKept ==
  ASSUME Types, [Next]_vars
  PROVE  HostTypes'
<1>1. HostTypes /\ QueueTypes /\ requests \in Nat
  BY DEF Types, LimitTypes
<1> USE DEF HostTypes
<1>2. CASE ImgOpen \/ Activate \/ ActivateFails
  <2>1. CASE ImgOpen
    <3>1. Connects /\ have' = 0
      BY <2>1 DEF ImgOpen
    <3> QED BY <1>1, <3>1 DEF Connects, NewSession
  <2>2. CASE Activate
    <3>1. CASE Connects /\ have' = have
      BY <1>1, <3>1 DEF Connects, NewSession
    <3>2. CASE UNCHANGED <<tlsVars, lineVars, limitVars, historyVars, have>>
      BY <1>1, <3>2
    <3> QED BY <2>2, <3>1, <3>2 DEF Activate
  <2>3. CASE ActivateFails
    BY <1>1, <2>3 DEF ActivateFails, Fault, NewSession
  <2> QED BY <1>2, <2>1, <2>2, <2>3
<1>3. CASE ImgClose
  BY <1>1, <1>3 DEF ImgClose
<1>4. CASE Ask \/ StartTask \/ Setup \/ AcceptUp \/ TlsConnected \/ ImageSeen
  BY <1>1, <1>4 DEF Ask, StartTask, Setup, AcceptUp, TlsConnected, ImageSeen
<1>5. CASE Cancel \/ TimeOut \/ PullFails
  BY <1>1, <1>5, GivesUpTypes DEF Cancel, TimeOut, PullFails
<1>6. CASE FeedFails \/ CallFails \/ HandshakeFails
  <2>1. CASE FeedFails
    BY <1>1, <2>1, GivesUpTypes DEF FeedFails, Fault, NoFault
  <2>2. CASE CallFails
    BY <1>1, <2>2, GivesUpTypes DEF CallFails, Fault
  <2>3. CASE HandshakeFails
    BY <1>1, <2>3, GivesUpTypes DEF HandshakeFails, Fault, NoFault
  <2> QED BY <1>6, <2>1, <2>2, <2>3
<1>7. CASE Feed
  BY <1>1, <1>7 DEF Feed
<1>8. CASE AcceptEvent \/ Store
  BY <1>1, <1>8 DEF AcceptEvent, Store
<1>9. CASE Handshake
  BY <1>1, <1>9, HeadTypes DEF Handshake
<1>10. CASE RequestImage
  BY <1>1, <1>10 DEF RequestImage, SinkReset
<1>11. CASE Pull
  BY <1>1, <1>11, HeadTypes DEF Pull, KeepFirst
<1>12. \A m : Delivers(m) \/ Quiet => overflow' \in BOOLEAN /\ clean' \in BOOLEAN
  BY <1>1 DEF Delivers, Quiet, Fault, NoFault
<1>13. CASE McuRuns
  <2>1. overflow' \in BOOLEAN /\ clean' \in BOOLEAN
    BY <1>12, <1>13 DEF McuRuns
  <2> QED BY <1>1, <1>13, <2>1 DEF McuRuns
<1>14. CASE McuReports \/ McuReportsOdd
  BY <1>1, <1>12, <1>14 DEF McuReports, McuReportsOdd
<1>15. CASE LoseCommand \/ UNCHANGED vars
  BY <1>1, <1>15 DEF LoseCommand, Fault
<1> QED
  BY <1>2, <1>3, <1>4, <1>5, <1>6, <1>7, <1>8, <1>9, <1>10, <1>11, <1>13, <1>14,
     <1>15 DEF Next, Begin, Task, Mcu

LEMMA LimitTypesKept ==
  ASSUME Types, [Next]_vars
  PROVE  LimitTypes'
<1>1. /\ LimitTypes /\ MaxInits \in Nat /\ MaxRequests \in Nat
      /\ MaxFaults \in Nat /\ MaxOdd \in Nat
  BY SessionAssumption DEF SessionAssumption, Types
<1> USE DEF LimitTypes
<1>2. faults' = faults \/ (faults < MaxFaults /\ faults' = faults + 1)
  <2>1. \A m : Delivers(m) \/ Quiet =>
          faults' = faults \/ (faults < MaxFaults /\ faults' = faults + 1)
    BY DEF Delivers, Quiet, Fault, NoFault
  <2>2. CASE McuRuns
    BY <2>1, <2>2 DEF McuRuns
  <2>3. CASE McuReports \/ McuReportsOdd
    BY <2>1, <2>3 DEF McuReports, McuReportsOdd
  <2>4. CASE ~Mcu
    BY <2>4
    DEF Next, Begin, Task, Mcu, ImgOpen, ImgClose, Ask, Activate, ActivateFails,
        StartTask, Cancel, TimeOut, CallFails, Setup, Feed, FeedFails, AcceptUp,
        AcceptEvent, TlsConnected, Handshake, HandshakeFails, RequestImage, Pull,
        PullFails, ImageSeen, Store, LoseCommand, Connects, Fault, NoFault
  <2> QED BY <2>2, <2>3, <2>4 DEF Mcu
<1>3. inits' = inits \/ (inits < MaxInits /\ inits' = inits + 1)
  BY DEF Next, Begin, Task, Mcu, ImgOpen, ImgClose, Ask, Activate, ActivateFails,
      StartTask, Cancel, TimeOut, CallFails, Setup, Feed, FeedFails, AcceptUp,
      AcceptEvent, TlsConnected, Handshake, HandshakeFails, RequestImage, Pull,
      PullFails, ImageSeen, Store, LoseCommand, Connects, McuRuns, McuReports,
      McuReportsOdd
<1>4. requests' = requests \/ (requests < MaxRequests /\ requests' = requests + 1)
  BY DEF Next, Begin, Task, Mcu, ImgOpen, ImgClose, Ask, Activate, ActivateFails,
      StartTask, Cancel, TimeOut, CallFails, Setup, Feed, FeedFails, AcceptUp,
      AcceptEvent, TlsConnected, Handshake, HandshakeFails, RequestImage, Pull,
      PullFails, ImageSeen, Store, LoseCommand, McuRuns, McuReports, McuReportsOdd
<1>5. odd' = odd \/ (odd < MaxOdd /\ odd' = odd + 1)
  BY DEF Next, Begin, Task, Mcu, ImgOpen, ImgClose, Ask, Activate, ActivateFails,
      StartTask, Cancel, TimeOut, CallFails, Setup, Feed, FeedFails, AcceptUp,
      AcceptEvent, TlsConnected, Handshake, HandshakeFails, RequestImage, Pull,
      PullFails, ImageSeen, Store, LoseCommand, McuRuns, McuReports, McuReportsOdd
<1> QED BY <1>1, <1>2, <1>3, <1>4, <1>5

LEMMA McuSteps ==
  ASSUME NEW m \in McuStates, NEW s \in Nat
  PROVE  /\ [phase |-> "hello", sess |-> s, sent |-> 0] \in McuStates
         /\ [m EXCEPT !.phase = "finished"] \in McuStates
         /\ [m EXCEPT !.phase = "connected"] \in McuStates
         /\ [m EXCEPT !.sent = @ + 1] \in McuStates
BY DEF McuStates

LEMMA SensorTypesKept ==
  ASSUME Types, [Next]_vars
  PROVE  McuType' /\ ArmedType'
<1>1. McuType /\ ArmedType /\ QueueTypes
  BY DEF Types
<1>2. CASE McuRuns
  <2>1. Head(toMcu) \in Armings \/ Head(toMcu) \in Orders
    BY <1>1, <1>2, HeadTypes DEF McuRuns
  <2>2. ArmedType'
    BY <1>1, <1>2, <2>1, HeadTypes DEF McuRuns, ArmedType
  <2> DEFINE s == Head(toMcu).n
             begun == [phase |-> "hello", sess |-> s, sent |-> 0]
  <2>3. UNCHANGED mcu \/ (mcu' = begun /\ Head(toMcu).name = "init")
        \/ mcu' = [mcu EXCEPT !.phase = "finished"]
        \/ mcu' = [mcu EXCEPT !.phase = "connected"]
        \/ mcu' = [mcu EXCEPT !.sent = @ + 1]
    BY <1>2 DEF McuRuns
  <2>4. toMcu # <<>>
    BY <1>2 DEF McuRuns
  <2>5. Head(toMcu).name = "init" => s \in Nat
    BY <1>1, <2>1, <2>4, HeadTypes
  <2> HIDE DEF s
  <2>6. mcu \in McuStates
    BY <1>1 DEF McuType
  <2>7. mcu' \in McuStates
    BY <2>3, <2>5, <2>6, McuSteps
  <2>8. McuType'
    BY <2>7 DEF McuType, McuStates
  <2> QED BY <2>2, <2>8
<1>3. CASE McuReports \/ McuReportsOdd
  <2>1. armed' = Disarmed /\ mcu' = mcu
    BY <1>3 DEF McuReports, McuReportsOdd
  <2>2. ArmedType'
    BY <2>1 DEF ArmedType, Disarmed
  <2>3. McuType'
    BY <1>1, <2>1 DEF McuType, McuStates
  <2> QED BY <2>2, <2>3
<1>4. CASE Cancel \/ TimeOut \/ CallFails \/ FeedFails \/ HandshakeFails \/ PullFails
  <2>1. ArmedType'
    BY <1>4, GivesUpTypes
    DEF Cancel, TimeOut, CallFails, FeedFails, HandshakeFails, PullFails
  <2>2. UNCHANGED mcu
    BY <1>4 DEF Cancel, TimeOut, CallFails, FeedFails, HandshakeFails, PullFails
  <2> QED BY <1>1, <2>1, <2>2 DEF McuType, McuStates
<1>5. CASE AcceptEvent \/ Store
  BY <1>1, <1>5
  DEF AcceptEvent, Store, Finishes, Leaves, Disowned, McuType, McuStates, ArmedType
<1>6. CASE ~(AcceptEvent \/ Store \/ Cancel \/ TimeOut \/ CallFails \/ FeedFails
             \/ HandshakeFails \/ PullFails \/ McuRuns \/ McuReports \/ McuReportsOdd)
  <2>1. UNCHANGED <<mcu, armed>>
    BY <1>6
    DEF Next, Begin, Task, Mcu, ImgOpen, ImgClose, Ask, Activate, ActivateFails,
        StartTask, Setup, Feed, AcceptUp, TlsConnected, Handshake, RequestImage,
        Pull, ImageSeen, LoseCommand
  <2> QED BY <1>1, <2>1 DEF McuType, McuStates, ArmedType
<1> QED BY <1>2, <1>3, <1>4, <1>5, <1>6

-----------------------------------------------------------------------------
\* What each action does to the stream and to the commands.
LEMMA OrderTypes ==
  ASSUME NEW s \in Nat
  PROVE  /\ \A c \in {"init", "serverFlight", "serverFinished", "getImage"} :
              Command(c, s) \in Orders
         /\ \A d \in {"down", "up"} : Arming(d) \in Armings
BY DEF Command, Arming, Orders, Armings

LEMMA RecordTypes ==
  ASSUME NEW m \in {"hello", "finished", "image"}, NEW s \in Nat, NEW q \in Nat,
         NEW r \in Nat
  PROVE  Record(m, s, q, r) \in TlsRecords
BY DEF Record, TlsRecords

LEMMA ReportTypes ==
  ASSUME NEW s \in {"down", "up", "reverse"}, NEW v \in BOOLEAN, NEW o \in BOOLEAN
  PROVE  Report(s, v, o) \in Reports
BY DEF Report, Reports

LEMMA ConnectsEffect ==
  ASSUME Types, Connects
  PROVE  /\ QueueTypes' /\ StreamGone /\ CommandSent(Command("init", inits + 1))
         /\ Items(toMcu') = Items(toMcu) \union {Command("init", inits + 1)}
         /\ Ahead(toMcu') = Ahead(toMcu) \union (Items(toMcu) \X {Command("init", inits + 1)})
         /\ wire' = <<>>
<1> DEFINE c == Command("init", inits + 1)
<1>1. c \in Orders
  <2>1. inits + 1 \in Nat
    BY DEF Types, LimitTypes
  <2> QED BY <2>1, OrderTypes
<1>2. QueueTypes /\ Sends(c) /\ wire' = <<>> /\ tlsq' = <<>>
  BY DEF Types, Connects, NewSession
<1> HIDE DEF c
<1>3. toMcu' \in Lines /\ CommandSent(c)
  BY <1>1, <1>2, OrderSent
<1>4. Items(toMcu') = Items(toMcu) \union {c}
      /\ Ahead(toMcu') = Ahead(toMcu) \union (Items(toMcu) \X {c})
  BY <1>1, <1>2, CommandsAppend DEF QueueTypes, Sends
<1>5. QueueTypes' /\ StreamGone
  BY <1>2, <1>3, StreamEmpty DEF QueueTypes, StreamGone, Stream, StreamOrder
<1> QED BY <1>2, <1>3, <1>4, <1>5 DEF c

\* An end of a task that leaves the queues as they are.
LEMMA LeavesEffect ==
  ASSUME Types, wire' = DisownedAll(wire), toMcu' = DisownedAll(toMcu)
  PROVE  /\ UNCHANGED tlsq => QueueTypes' /\ StreamSame
         /\ tlsq # <<>> /\ tlsq' = Tail(tlsq) => QueueTypes' /\ Decrypting
         /\ CommandsSame
BY WireLeft, CommandsLeft DEF Types, QueueTypes

LEMMA KeptEffect ==
  ASSUME Types, UNCHANGED <<tlsq, wire>>
  PROVE  /\ UNCHANGED toMcu => QueueTypes' /\ StreamSame /\ CommandsSame
         /\ \A c \in Orders : Sends(c) => QueueTypes' /\ StreamSame /\ CommandSent(c)
         /\ \A c \in Armings : Sends(c) => QueueTypes' /\ StreamSame /\ CommandsSame
BY StreamKept, CommandsKept, OrderSent, ArmingSent DEF Types, QueueTypes

-----------------------------------------------------------------------------
\* The kinds of steps, for what is on the way.
SessionSame == UNCHANGED <<tls, hs, sess, nextSeq, broken>>
CountsSame == UNCHANGED <<inits, requests>>

\* Nothing happens to a record or to a command; or some are lost.
Idles ==
  /\ StreamSame /\ CommandsSame
  /\ SessionSame /\ CountsSame /\ mcu' = mcu /\ (clean' => clean)

Loses ==
  /\ StreamLess /\ CommandsLess
  /\ SessionSame /\ CountsSame /\ mcu' = mcu /\ ~clean'

\* A session is begun, or ended.
BackendNew ==
  hs' = "hello" /\ sess' = 0 /\ nextSeq' = 0 /\ broken' = FALSE /\ mcu' = mcu

Begins ==
  /\ StreamGone /\ CommandSent(Command("init", inits + 1))
  /\ tls' = "connecting" /\ BackendNew
  /\ inits' = inits + 1 /\ requests' = requests

Drops ==
  /\ StreamLess /\ CommandsSame
  /\ tls' \in {"none", "connecting"} /\ BackendNew
  /\ CountsSame /\ (clean' => clean)

\* A flight of the client is answered, or is not.
Answers ==
  /\ Decrypting /\ tls = "connecting" /\ Expects(Head(tlsq))
  /\ sess' = Head(tlsq).sess
  /\ \/ /\ hs = "hello" /\ hs' = "finished" /\ tls' = tls
        /\ CommandSent(Command("serverFlight", sess'))
     \/ /\ hs # "hello" /\ hs' = "done" /\ tls' = "connected"
        /\ CommandSent(Command("serverFinished", sess'))
  /\ UNCHANGED <<nextSeq, broken, mcu, clean>> /\ CountsSame

Refuses ==
  /\ Decrypting /\ CommandsSame /\ tls' = "error"
  /\ UNCHANGED <<hs, sess, nextSeq, broken, mcu>> /\ CountsSame
  /\ (clean' => clean)

\* An image is requested; a record is decrypted, or is not.
Requests ==
  /\ stage \in {"referenceStart", "start"}
  /\ StreamSame /\ CommandSent(Command("getImage", requests + 1))
  /\ requests' = requests + 1 /\ inits' = inits
  /\ SessionSame /\ UNCHANGED <<mcu, clean>>

Pulls ==
  /\ stage \in {"referenceWait", "wait"}
  /\ Decrypting /\ CommandsSame
  /\ CountsSame /\ UNCHANGED <<tls, hs, sess, mcu, clean>>
  /\ \/ Decrypts(Head(tlsq)) /\ nextSeq' = nextSeq + 1 /\ broken' = broken
     \/ ~Decrypts(Head(tlsq)) /\ nextSeq' = nextSeq /\ broken' = TRUE

\* The MCU runs a command, and the record it sends arrives or is lost.
Arrives(r) == (StreamGains(r) /\ clean' = clean) \/ (StreamLess /\ ~clean')

HelloSent(c) ==
  /\ c.name = "init"
  /\ mcu' = [phase |-> "hello", sess |-> c.n, sent |-> 0]
  /\ Arrives(Record("hello", c.n, 0, 0))
FinishedSent(c) ==
  /\ c.name = "serverFlight" /\ mcu.phase = "hello" /\ c.n = mcu.sess
  /\ mcu' = [mcu EXCEPT !.phase = "finished"]
  /\ Arrives(Record("finished", c.n, 0, 0))
PeerConnected(c) ==
  /\ c.name = "serverFinished" /\ mcu.phase = "finished" /\ c.n = mcu.sess
  /\ mcu' = [mcu EXCEPT !.phase = "connected"]
  /\ StreamSame /\ clean' = clean
ImageSent(c) ==
  /\ c.name = "getImage" /\ mcu.phase = "connected"
  /\ mcu' = [mcu EXCEPT !.sent = @ + 1]
  /\ Arrives(Record("image", mcu.sess, mcu.sent, c.n))
Ignored(c) == c.name # "init" /\ mcu' = mcu /\ StreamSame /\ clean' = clean

Runs(c) ==
  /\ CommandRun(c) /\ SessionSame /\ CountsSame
  /\ \/ HelloSent(c) \/ FinishedSent(c) \/ PeerConnected(c) \/ ImageSent(c)
     \/ Ignored(c)

Kinds ==
  \/ Idles \/ Loses \/ Begins \/ Drops \/ Answers \/ Refuses \/ Requests \/ Pulls
  \/ \E c \in Orders : Runs(c)

\* The host's steps that only look at the queues, or leave them.
LEMMA HostIdles ==
  ASSUME Types,
         \/ Cancel \/ TimeOut \/ CallFails \/ Ask \/ StartTask \/ Setup \/ Feed
         \/ FeedFails \/ AcceptUp \/ AcceptEvent \/ TlsConnected \/ ImageSeen
         \/ Store \/ UNCHANGED vars
  PROVE  QueueTypes' /\ Idles
<1>1. SessionSame /\ CountsSame /\ mcu' = mcu /\ (clean' => clean)
  BY DEF SessionSame, CountsSame, Cancel, TimeOut, CallFails, Ask, StartTask, Setup,
     Feed, FeedFails, AcceptUp, AcceptEvent, TlsConnected, ImageSeen, Store, Fault,
     NoFault
<1>2. CASE Cancel \/ TimeOut \/ CallFails \/ AcceptEvent \/ Store
  <2>1. UNCHANGED tlsq /\ wire' = DisownedAll(wire) /\ toMcu' = DisownedAll(toMcu)
    BY <1>2 DEF Cancel, TimeOut, CallFails, AcceptEvent, Store, GivesUp, Finishes,
       Leaves
  <2> QED BY <1>1, <2>1, LeavesEffect DEF Idles
<1>3. CASE Ask \/ StartTask \/ AcceptUp \/ TlsConnected \/ ImageSeen \/ UNCHANGED vars
  <2>1. UNCHANGED <<tlsq, wire, toMcu>>
    BY <1>3 DEF Ask, StartTask, AcceptUp, TlsConnected, ImageSeen
  <2> QED BY <1>1, <2>1, KeptEffect DEF Idles
<1>4. CASE Setup
  <2>1. UNCHANGED <<tlsq, wire>>
        /\ (UNCHANGED toMcu \/ Sends(Arming(Direction)))
    BY <1>4 DEF Setup
  <2>2. Arming(Direction) \in Armings
    BY OrderTypes DEF Direction
  <2> QED BY <1>1, <2>1, <2>2, KeptEffect DEF Idles
<1>5. CASE Feed
  <2>1. /\ wire # <<>> /\ wire' = Tail(wire)
        /\ tlsq' = IF Head(wire).kind = "tls" THEN Append(tlsq, Head(wire)) ELSE tlsq
        /\ UNCHANGED toMcu \/ (Rearms(Head(wire)) /\ Sends(Arming(mode)))
    BY <1>5 DEF Feed, FeedsCipher
  <2>2. wire' \in Wires /\ tlsq' \in Backends /\ StreamSame
    BY <2>1, HeadFed DEF Types
  <2>3. toMcu' \in Lines /\ CommandsSame
    <3>1. CASE UNCHANGED toMcu
      BY <3>1, CommandsKept DEF Types, QueueTypes
    <3>2. CASE Rearms(Head(wire)) /\ Sends(Arming(mode))
      <4>1. Arming(mode) \in Armings
        BY <3>2, OrderTypes DEF Rearms, Types, TaskTypes
      <4> QED BY <3>2, <4>1, ArmingSent DEF Types
    <3> QED BY <2>1, <3>1, <3>2
  <2> QED BY <1>1, <2>2, <2>3 DEF Idles, QueueTypes
<1>6. CASE FeedFails
  <2>1. CASE wire' = DisownedAll(wire)
    <3>1. UNCHANGED tlsq /\ toMcu' = DisownedAll(toMcu)
      BY <1>6 DEF FeedFails, GivesUp
    <3> QED BY <1>1, <2>1, <3>1, LeavesEffect DEF Idles
  <2>2. CASE /\ wire # <<>> /\ Head(wire).kind = "fdt"
             /\ wire' = DisownedAll(Tail(wire))
    <3>1. UNCHANGED tlsq /\ toMcu' = DisownedAll(toMcu)
      BY <1>6 DEF FeedFails, GivesUp
    <3> QED BY <1>1, <2>2, <3>1, ReportLeft, CommandsLeft DEF Idles, Types, QueueTypes
  <2> QED BY <1>6, <2>1, <2>2 DEF FeedFails, GivesUp, Leaves
<1> QED BY <1>2, <1>3, <1>4, <1>5, <1>6

LEMMA HostBegins ==
  ASSUME Types, ImgOpen \/ Activate \/ ActivateFails \/ ImgClose
  PROVE  QueueTypes' /\ (Idles \/ Begins \/ Drops)
<1>1. CASE Connects /\ mcu' = mcu /\ requests' = requests
  <2>1. QueueTypes' /\ StreamGone /\ CommandSent(Command("init", inits + 1))
    BY <1>1, ConnectsEffect
  <2> QED BY <1>1, <2>1 DEF Begins, BackendNew, Connects, NewSession
<1>2. CASE Activate /\ ~Connects
  <2>1. UNCHANGED <<tlsVars, lineVars, toMcu, inits, limitVars, historyVars>>
        /\ mcu' = mcu /\ requests' = requests
    BY <1>2 DEF Activate
  <2> QED BY <2>1, KeptEffect DEF Idles, SessionSame, CountsSame
<1>3. CASE ActivateFails
  <2>1. tlsq' = <<>> /\ wire' = <<>> /\ UNCHANGED toMcu
    BY <1>3 DEF ActivateFails, NewSession
  <2>2. QueueTypes' /\ StreamLess /\ CommandsSame
    BY <2>1, StreamEmpty, CommandsKept
    DEF Types, QueueTypes, StreamLess, Stream, StreamOrder
  <2> QED BY <1>3, <2>2
          DEF ActivateFails, NewSession, Fault, Drops, BackendNew, CountsSame
<1>4. CASE ImgClose
  <2>1. tlsq' = <<>> /\ UNCHANGED <<wire, toMcu>>
    BY <1>4 DEF ImgClose
  <2>2. QueueTypes' /\ StreamLess /\ CommandsSame
    BY <2>1, StreamEmpty, CommandsKept
    DEF Types, QueueTypes, StreamLess, Stream, StreamOrder
  <2> QED BY <1>4, <2>2 DEF ImgClose, Drops, BackendNew, CountsSame
<1> QED BY <1>1, <1>2, <1>3, <1>4 DEF ImgOpen, Activate

LEMMA HostDecrypts ==
  ASSUME Types, Handshake \/ HandshakeFails \/ Pull \/ PullFails
  PROVE  QueueTypes' /\ (Answers \/ Refuses \/ Pulls)
<1>1. CASE Handshake
  <2>1. tlsq # <<>> /\ tlsq' = Tail(tlsq) /\ UNCHANGED wire
    BY <1>1 DEF Handshake
  <2>2. tlsq' \in Backends /\ Decrypting /\ UNCHANGED wire
    BY <2>1, RecordDecrypted DEF Types
  <2>3. sess' = Head(tlsq).sess /\ sess' \in Nat
    BY <1>1, <2>1, HeadTypes DEF Handshake, Types
  <2>4. /\ Command("serverFlight", sess') \in Orders
        /\ Command("serverFinished", sess') \in Orders
    BY <2>3, OrderTypes
  <2>5. \A c \in Orders : Sends(c) => toMcu' \in Lines /\ CommandSent(c)
    BY OrderSent DEF Types
  <2>6. /\ \/ Sends(Command("serverFlight", sess'))
           \/ Sends(Command("serverFinished", sess'))
    BY <1>1 DEF Handshake
  <2>7. QueueTypes'
    BY <2>2, <2>4, <2>5, <2>6 DEF Types, QueueTypes
  <2>8. Answers
    BY <1>1, <2>2, <2>3, <2>4, <2>5 DEF Handshake, Answers, CountsSame
  <2> QED BY <2>7, <2>8
<1>2. CASE HandshakeFails
  <2>1. /\ tlsq # <<>> /\ tlsq' = Tail(tlsq) /\ wire' = DisownedAll(wire)
        /\ toMcu' = DisownedAll(toMcu)
    BY <1>2 DEF HandshakeFails, GivesUp, Leaves
  <2>2. QueueTypes' /\ Decrypting /\ CommandsSame
    BY <2>1, LeavesEffect
  <2> QED BY <1>2, <2>2 DEF HandshakeFails, Refuses, CountsSame, Fault, NoFault
<1>3. CASE Pull
  <2>1. tlsq # <<>> /\ tlsq' = Tail(tlsq) /\ UNCHANGED wire /\ UNCHANGED toMcu
    BY <1>3 DEF Pull
  <2>2. QueueTypes' /\ Decrypting /\ CommandsSame
    BY <2>1, RecordDecrypted, CommandsKept DEF Types, QueueTypes
  <2> QED BY <1>3, <2>2 DEF Pull, Pulls, CountsSame
<1>4. CASE PullFails
  <2>1. /\ tlsq # <<>> /\ tlsq' = Tail(tlsq) /\ wire' = DisownedAll(wire)
        /\ toMcu' = DisownedAll(toMcu)
    BY <1>4 DEF PullFails, GivesUp, Leaves
  <2>2. QueueTypes' /\ Decrypting /\ CommandsSame
    BY <2>1, LeavesEffect
  <2> QED BY <1>4, <2>2 DEF PullFails, Pulls, CountsSame
<1> QED BY <1>1, <1>2, <1>3, <1>4

LEMMA HostRequests ==
  ASSUME Types, RequestImage
  PROVE  QueueTypes' /\ Requests
<1>1. Command("getImage", requests + 1) \in Orders
  <2>1. requests + 1 \in Nat
    BY DEF Types, LimitTypes
  <2> QED BY <2>1, OrderTypes
<1>2. UNCHANGED <<tlsq, wire>> /\ Sends(Command("getImage", requests + 1))
  BY DEF RequestImage
<1>3. QueueTypes' /\ StreamSame /\ CommandSent(Command("getImage", requests + 1))
  BY <1>1, <1>2, KeptEffect
<1> QED BY <1>3 DEF RequestImage, Requests, SessionSame

LEMMA McuDelivers ==
  ASSUME Types, NEW r \in TlsRecords, Delivers(r), UNCHANGED tlsq
  PROVE  wire' \in Wires /\ Arrives(r)
<1>1. CASE UNCHANGED limitVars /\ StreamGains(r)
  BY <1>1, Delivered DEF Types, Arrives
<1>2. CASE clean' = FALSE /\ StreamLess
  BY <1>2, Delivered DEF Types, Arrives
<1> QED BY <1>1, <1>2, Delivered DEF Types

LEMMA ReportDelivers ==
  ASSUME Types, NEW r \in Reports, Delivers(r), UNCHANGED tlsq
  PROVE  /\ wire' \in Wires
         /\ (StreamSame /\ clean' = clean) \/ (StreamLess /\ ~clean')
BY Delivered, MessageKinds DEF Types

LEMMA McuKinds ==
  ASSUME Types, McuReports \/ McuReportsOdd \/ LoseCommand
  PROVE  QueueTypes' /\ (Idles \/ Loses)
<1>1. CASE McuReports \/ McuReportsOdd
  <2>1. SessionSame /\ CountsSame /\ mcu' = mcu /\ UNCHANGED <<tlsq, toMcu>>
    BY <1>1 DEF McuReports, McuReportsOdd, SessionSame, CountsSame
  <2>2. \E r \in Reports : Delivers(r)
    <3>1. armed.dir \in {"down", "up"} /\ armed.own \in BOOLEAN
      BY <1>1 DEF McuReports, McuReportsOdd, Types, ArmedType
    <3>2. /\ Report(armed.dir, TRUE, armed.own) \in Reports
          /\ Report("reverse", TRUE, armed.own) \in Reports
          /\ Report(armed.dir, FALSE, armed.own) \in Reports
      BY <3>1, ReportTypes
    <3> QED BY <1>1, <3>2 DEF McuReports, McuReportsOdd
  <2>3. /\ wire' \in Wires
        /\ (StreamSame /\ clean' = clean) \/ (StreamLess /\ ~clean')
    BY <2>1, <2>2, ReportDelivers
  <2>4. CommandsSame /\ CommandsLess
    BY <2>1, CommandsKept DEF CommandsSame, CommandsLess
  <2> QED BY <2>1, <2>3, <2>4 DEF Idles, Loses, Types, QueueTypes
<1>2. CASE LoseCommand
  <2>1. /\ SessionSame /\ CountsSame /\ mcu' = mcu /\ ~clean'
        /\ UNCHANGED <<tlsq, wire>> /\ toMcu # <<>> /\ toMcu' = Tail(toMcu)
    BY <1>2 DEF LoseCommand, SessionSame, CountsSame, Fault
  <2>2. toMcu' \in Lines /\ CommandsLess
    BY <2>1, CommandTaken DEF Types
  <2>3. StreamLess
    BY <2>1, StreamKept DEF StreamSame, StreamLess
  <2> QED BY <2>1, <2>2, <2>3 DEF Loses, Types, QueueTypes
<1> QED BY <1>1, <1>2

LEMMA McuRunsKind ==
  ASSUME Types, McuRuns
  PROVE  QueueTypes' /\ (Idles \/ \E c \in Orders : Runs(c))
<1> DEFINE c == Head(toMcu)
<1>1. toMcu # <<>> /\ toMcu' = Tail(toMcu) /\ UNCHANGED tlsq
      /\ SessionSame /\ CountsSame
  BY DEF McuRuns, SessionSame, CountsSame
<1>2. /\ toMcu' \in Lines /\ c \in Armings \union Orders
      /\ c \in Orders => CommandRun(c)
      /\ c \in Armings => CommandsSame
  BY <1>1, CommandTaken DEF Types
<1>3. /\ c \in Armings => c.name = "arm"
      /\ c \in Orders => c.name # "arm" /\ c.n \in Nat
  BY <1>1, HeadTypes DEF Types
<1>4. mcu.sess \in Nat /\ mcu.sent \in Nat
  BY DEF Types, McuType, McuStates
<1>5. Quiet => wire' \in Wires /\ StreamSame /\ clean' = clean
  BY <1>1, StreamKept DEF Quiet, NoFault, Types, QueueTypes
<1>6. tlsq' \in Backends
  BY <1>1 DEF Types, QueueTypes
<1>7. \/ c.name = "init"
         /\ mcu' = [phase |-> "hello", sess |-> c.n, sent |-> 0]
         /\ Delivers(Record("hello", c.n, 0, 0))
      \/ c.name = "serverFlight" /\ mcu.phase = "hello" /\ c.n = mcu.sess
         /\ mcu' = [mcu EXCEPT !.phase = "finished"]
         /\ Delivers(Record("finished", c.n, 0, 0))
      \/ c.name = "serverFinished" /\ mcu.phase = "finished" /\ c.n = mcu.sess
         /\ mcu' = [mcu EXCEPT !.phase = "connected"] /\ Quiet
      \/ c.name = "getImage" /\ mcu.phase = "connected"
         /\ mcu' = [mcu EXCEPT !.sent = @ + 1]
         /\ Delivers(Record("image", mcu.sess, mcu.sent, c.n))
      \/ c.name = "arm" /\ mcu' = mcu /\ Quiet
      \/ c.name # "init" /\ mcu' = mcu /\ Quiet
  BY DEF McuRuns
<1>8. CASE c \in Armings
  <2>1. mcu' = mcu /\ Quiet /\ CommandsSame
    BY <1>2, <1>3, <1>7, <1>8
  <2> QED BY <1>1, <1>2, <1>5, <1>6, <2>1 DEF Idles, QueueTypes
<1>9. CASE c \in Orders
  <2>1. c.n \in Nat /\ CommandRun(c) /\ c.name # "arm"
    BY <1>2, <1>3, <1>9
  <2>2. /\ Record("hello", c.n, 0, 0) \in TlsRecords
        /\ Record("finished", c.n, 0, 0) \in TlsRecords
        /\ Record("image", mcu.sess, mcu.sent, c.n) \in TlsRecords
    BY <1>4, <2>1, RecordTypes
  <2>3. \A r \in TlsRecords : Delivers(r) => wire' \in Wires /\ Arrives(r)
    BY <1>1, McuDelivers
  <2> HIDE DEF c
  <2>4. wire' \in Wires
    BY <1>5, <1>7, <2>2, <2>3
  <2>5. HelloSent(c) \/ FinishedSent(c) \/ PeerConnected(c) \/ ImageSent(c)
          \/ Ignored(c)
    BY <1>5, <1>7, <2>1, <2>2, <2>3
    DEF HelloSent, FinishedSent, PeerConnected, ImageSent, Ignored
  <2>6. Runs(c)
    BY <1>1, <2>1, <2>5 DEF Runs
  <2> QED BY <1>2, <1>6, <1>9, <2>4, <2>6 DEF QueueTypes
<1> QED BY <1>2, <1>8, <1>9

LEMMA StepKinds ==
  ASSUME Types, [Next]_vars
  PROVE  QueueTypes' /\ Kinds
<1>1. CASE \/ Cancel \/ TimeOut \/ CallFails \/ Ask \/ StartTask \/ Setup \/ Feed
           \/ FeedFails \/ AcceptUp \/ AcceptEvent \/ TlsConnected \/ ImageSeen
           \/ Store \/ UNCHANGED vars
  BY <1>1, HostIdles DEF Kinds
<1>2. CASE ImgOpen \/ Activate \/ ActivateFails \/ ImgClose
  BY <1>2, HostBegins DEF Kinds
<1>3. CASE Handshake \/ HandshakeFails \/ Pull \/ PullFails
  BY <1>3, HostDecrypts DEF Kinds
<1>4. CASE RequestImage
  BY <1>4, HostRequests DEF Kinds
<1>5. CASE McuReports \/ McuReportsOdd \/ LoseCommand
  BY <1>5, McuKinds DEF Kinds
<1>6. CASE McuRuns
  BY <1>6, McuRunsKind DEF Kinds
<1> QED BY <1>1, <1>2, <1>3, <1>4, <1>5, <1>6 DEF Next, Begin, Task, Mcu

-----------------------------------------------------------------------------
\* The stage of the task.
LEMMA StagesOfTask ==
  /\ StagesOf["none"] = {"none"}
  /\ StagesOf["waitDown"] = {"setup", "event"}
  /\ StagesOf["waitUp"] = {"setup", "event"}
  /\ StagesOf["capture"] = {"start", "wait", "store"}
  /\ StagesOf["activate"] = {"tls", "upSetup", "upWait", "referenceStart",
                             "referenceWait", "referenceStore"}
BY DEF StagesOf

\* The conjuncts of StageInv that are not of the handshake.
TaskInv ==
  /\ stage \in StagesOf[task]
  /\ stage \notin {"none", "tls"} => tls = "connected"
  /\ active => tls = "connected" /\ "activate" \notin {due, task}
  /\ {due, task} \intersect {"waitDown", "capture", "waitUp"} # {} => active
  /\ seen # "no" => stage \in Waits
  /\ stage \in Waits => mode = Direction
  /\ stage \in Stores => have # 0

ConnectingInv ==
  tls = "connecting" => hs \in {"hello", "finished"} /\ nextSeq = 0 /\ ~broken

LEMMA TaskInvEnds ==
  ASSUME stage' = "none", task' = "none", due' = "none", active' = FALSE,
         seen' = "no"
  PROVE  TaskInv'
BY StagesOfTask DEF TaskInv, Waits, Stores

LEMMA TaskInvKept ==
  ASSUME Types, StageInv, [Next]_vars
  PROVE  TaskInv'
<1>1. TaskTypes /\ TaskInv
  BY DEF Types, StageInv, TaskInv
<1>2. CASE Cancel \/ TimeOut \/ CallFails \/ FeedFails \/ HandshakeFails \/ PullFails
  BY <1>2, TaskInvEnds
  DEF Cancel, TimeOut, CallFails, FeedFails, HandshakeFails, PullFails, GivesUp, End,
      Leaves
<1> USE <1>1, StagesOfTask, AfterTask
    DEF TaskTypes, TaskInv, Waits, Stores, Direction, Tasks
<1>3. CASE ImgOpen
  BY <1>3 DEF ImgOpen, Open, AtRest, Connects, NewSession
<1>4. CASE ImgClose
  BY <1>4 DEF ImgClose, Close, AtRest
<1>5. CASE Ask
  BY <1>5 DEF Ask, CallFor, Stop
<1>6. CASE Activate
  BY <1>6 DEF Activate, Start, Connects, NewSession
<1>7. CASE ActivateFails
  BY <1>7 DEF ActivateFails, Refuse, NewSession, Keeps
<1>8. CASE StartTask
  BY <1>8 DEF StartTask, Start
<1>9. CASE Setup
  BY <1>9 DEF Setup, Running
<1>10. CASE Feed
  BY <1>10 DEF Feed
<1>11. CASE AcceptUp
  BY <1>11 DEF AcceptUp
<1>12. CASE AcceptEvent \/ Store
  BY <1>12 DEF AcceptEvent, Store, Finishes, Done, Running, Leaves, After
<1>13. CASE TlsConnected
  BY <1>13 DEF TlsConnected
<1>14. CASE Handshake
  BY <1>14 DEF Handshake
<1>15. CASE RequestImage
  BY <1>15 DEF RequestImage, SinkReset
<1>16. CASE Pull
  BY <1>16 DEF Pull, KeepFirst
<1>17. CASE ImageSeen
  BY <1>17 DEF ImageSeen
<1>18. CASE McuRuns \/ McuReports \/ McuReportsOdd \/ LoseCommand \/ UNCHANGED vars
  <2>1. UNCHANGED <<isOpen, active, due, task, stage, seen, mode, tls, have>>
    BY <1>18 DEF McuRuns, McuReports, McuReportsOdd, LoseCommand
  <2> QED BY <2>1
<1> QED
  BY <1>2, <1>3, <1>4, <1>5, <1>6, <1>7, <1>8, <1>9, <1>10, <1>11, <1>12, <1>13,
     <1>14, <1>15, <1>16, <1>17, <1>18 DEF Next, Begin, Task, Mcu

LEMMA StageInvKept ==
  ASSUME Types, StageInv, Kinds, [Next]_vars
  PROVE  StageInv'
<1> SUFFICES ConnectingInv'
  BY TaskInvKept DEF StageInv, TaskInv, ConnectingInv
<1>1. ConnectingInv
  BY DEF StageInv, ConnectingInv
<1>2. CASE Idles \/ Loses \/ \E c \in Orders : Runs(c)
  <2>1. tls' = tls /\ hs' = hs /\ nextSeq' = nextSeq /\ broken' = broken
    BY <1>2 DEF Idles, Loses, Runs, SessionSame
  <2> QED BY <1>1, <2>1 DEF ConnectingInv
<1>3. CASE Begins \/ Drops
  <2>1. hs' = "hello" /\ nextSeq' = 0 /\ broken' = FALSE
    BY <1>3 DEF Begins, Drops, BackendNew
  <2> QED BY <2>1 DEF ConnectingInv
<1>4. CASE Answers
  <2>1. tls = "connecting" /\ nextSeq' = nextSeq /\ broken' = broken
        /\ (hs' = "finished" \/ tls' = "connected")
    BY <1>4 DEF Answers
  <2> QED BY <1>1, <2>1 DEF ConnectingInv
<1>5. CASE Refuses \/ Requests \/ Pulls
  <2>1. tls' # "connecting"
    BY <1>5 DEF Refuses, Requests, Pulls, StageInv, SessionSame
  <2> QED BY <2>1 DEF ConnectingInv
<1> QED BY <1>2, <1>3, <1>4, <1>5 DEF Kinds

-----------------------------------------------------------------------------
\* What the members of the stream and the commands are.
LEMMA Members ==
  /\ Stream \subseteq TlsRecords /\ StreamOrder \subseteq Stream \X Stream
  /\ Commands \subseteq Orders /\ CommandOrder \subseteq Commands \X Commands
  /\ \A r \in Stream : r.sess \in Nat /\ r.seq \in Nat /\ r.req \in Nat
                       /\ r.msg \in {"hello", "finished", "image"}
  /\ \A c \in Commands :
       /\ c.n \in Nat
       /\ c.name \in {"init", "serverFlight", "serverFinished", "getImage"}
       /\ c = Command(c.name, c.n)
<1>1. Stream \subseteq TlsRecords /\ Commands \subseteq Orders
  BY DEF Stream, StreamIn, Commands, CommandsIn
<1>2. StreamOrder \subseteq Stream \X Stream
  BY DEF Stream, StreamIn, StreamOrder, StreamOrderIn, Ahead
<1>3. CommandOrder \subseteq Commands \X Commands
  BY DEF Commands, CommandsIn, CommandOrder, CommandOrderIn, Ahead
<1>4. \A r \in TlsRecords : r.sess \in Nat /\ r.seq \in Nat /\ r.req \in Nat
                       /\ r.msg \in {"hello", "finished", "image"}
  BY DEF TlsRecords
<1>5. \A c \in Orders :
       /\ c.n \in Nat
       /\ c.name \in {"init", "serverFlight", "serverFinished", "getImage"}
       /\ c = Command(c.name, c.n)
  BY DEF Orders, Command
<1> QED BY <1>1, <1>2, <1>3, <1>4, <1>5

LEMMA FieldsOfCommand ==
  \A a, n : Command(a, n).name = a /\ Command(a, n).n = n
BY DEF Command

LEMMA FieldsOfRecord ==
  \A m, s, q, r : /\ Record(m, s, q, r).msg = m /\ Record(m, s, q, r).sess = s
                  /\ Record(m, s, q, r).seq = q /\ Record(m, s, q, r).req = r
BY DEF Record

LEMMA McuFields ==
  ASSUME McuType
  PROVE  /\ mcu.sess \in Nat /\ mcu.sent \in Nat
         /\ [mcu EXCEPT !.phase = "finished"].phase = "finished"
         /\ [mcu EXCEPT !.phase = "finished"].sess = mcu.sess
         /\ [mcu EXCEPT !.phase = "finished"].sent = mcu.sent
         /\ [mcu EXCEPT !.phase = "connected"].phase = "connected"
         /\ [mcu EXCEPT !.phase = "connected"].sess = mcu.sess
         /\ [mcu EXCEPT !.phase = "connected"].sent = mcu.sent
         /\ [mcu EXCEPT !.sent = @ + 1].phase = mcu.phase
         /\ [mcu EXCEPT !.sent = @ + 1].sess = mcu.sess
         /\ [mcu EXCEPT !.sent = @ + 1].sent = mcu.sent + 1
BY DEF McuType, McuStates

\* The record that is decrypted is the first of the stream; the command that
\* is run is the first of the commands.
LEMMA FirstOfStream ==
  ASSUME RecordsInv, Decrypting
  PROVE  /\ Head(tlsq) \in Stream /\ Stream' \subseteq Stream
         /\ StreamOrder' \subseteq StreamOrder
         /\ \A x \in Stream' : Earlier(Head(tlsq), x)
         /\ \A x \in Stream : x = Head(tlsq) \/ x \in Stream'
<1>1. \A x \in Stream' : <<Head(tlsq), x>> \in StreamOrder
  BY DEF Decrypting
<1>2. \A a, b : <<a, b>> \in StreamOrder => Earlier(a, b)
  BY DEF RecordsInv
<1> QED BY <1>1, <1>2 DEF Decrypting

LEMMA FirstOfCommands ==
  ASSUME NEW c, CommandRun(c)
  PROVE  /\ c \in Commands /\ Commands' \subseteq Commands
         /\ CommandOrder' \subseteq CommandOrder
         /\ \A x \in Commands' : <<c, x>> \in CommandOrder
         /\ \A x \in Commands : x = c \/ x \in Commands'
BY DEF CommandRun

SessionNumbers ==
  /\ sess <= mcu.sess /\ mcu.sess <= inits
  /\ mcu.phase # "connected" => mcu.sent = 0
  /\ mcu.sent <= requests /\ nextSeq <= requests

LEMMA SessionNumbersKept ==
  ASSUME Types, Types', LineInv, Kinds
  PROVE  SessionNumbers'
<1>1. /\ sess \in Nat /\ nextSeq \in Nat /\ inits \in Nat /\ requests \in Nat
      /\ mcu.sess \in Nat /\ mcu.sent \in Nat /\ McuType
  BY McuFields DEF Types, HostTypes, LimitTypes
<1>2. SessionNumbers /\ RecordsInv /\ CommandsInv
  BY DEF LineInv, NumbersInv, SessionNumbers
<1>3. CASE Idles \/ Loses
  <2>1. UNCHANGED <<sess, nextSeq, mcu, inits, requests>>
    BY <1>3 DEF Idles, Loses, SessionSame, CountsSame
  <2> QED BY <1>2, <2>1 DEF SessionNumbers
<1>4. CASE Begins \/ Drops
  <2>1. /\ sess' = 0 /\ nextSeq' = 0 /\ mcu' = mcu /\ requests' = requests
        /\ (inits' = inits \/ inits' = inits + 1)
    BY <1>4 DEF Begins, Drops, BackendNew, CountsSame
  <2> QED BY <1>1, <1>2, <2>1 DEF SessionNumbers
<1>5. CASE Answers
  <2>1. Head(tlsq) \in Stream /\ sess' = Head(tlsq).sess
    BY <1>2, <1>5, FirstOfStream DEF Answers
  <2>2. sess' <= mcu.sess
    BY <1>2, <2>1 DEF RecordsInv
  <2>3. UNCHANGED <<nextSeq, mcu, inits, requests>>
    BY <1>5 DEF Answers, CountsSame
  <2> QED BY <1>2, <2>2, <2>3 DEF SessionNumbers
<1>6. CASE Refuses
  <2>1. UNCHANGED <<sess, nextSeq, mcu, inits, requests>>
    BY <1>6 DEF Refuses, CountsSame
  <2> QED BY <1>2, <2>1 DEF SessionNumbers
<1>7. CASE Requests
  <2>1. UNCHANGED <<sess, nextSeq, mcu, inits>> /\ requests' = requests + 1
    BY <1>7 DEF Requests, SessionSame
  <2> QED BY <1>1, <1>2, <2>1 DEF SessionNumbers
<1>8. CASE Pulls
  <2>1. UNCHANGED <<sess, mcu, inits, requests>>
        /\ (nextSeq' = nextSeq \/ (Decrypts(Head(tlsq)) /\ nextSeq' = nextSeq + 1))
    BY <1>8 DEF Pulls, CountsSame
  <2>2. Decrypts(Head(tlsq)) => nextSeq + 1 <= requests
    <3>1. Head(tlsq) \in Stream
      BY <1>2, <1>8, FirstOfStream DEF Pulls
    <3>2. Head(tlsq).msg = "image" =>
            Head(tlsq).seq < Head(tlsq).req /\ Head(tlsq).req <= requests
      BY <1>2, <3>1 DEF RecordsInv, ImageRecord
    <3>3. Head(tlsq).req \in Nat
      BY <3>1, Members
    <3> QED BY <1>1, <3>2, <3>3 DEF Decrypts
  <2> QED BY <1>1, <1>2, <2>1, <2>2 DEF SessionNumbers
<1>9. ASSUME NEW c \in Orders, Runs(c)
      PROVE  SessionNumbers'
  <2>1. c \in Commands /\ UNCHANGED <<sess, nextSeq, inits, requests>>
    BY <1>9, FirstOfCommands DEF Runs, SessionSame, CountsSame
  <2>2. CASE HelloSent(c)
    <3>1. mcu.sess < c.n /\ c.n <= inits /\ c.n \in Nat
      BY <1>2, <2>1, <2>2, Members DEF HelloSent, CommandsInv, CommandOK
    <3>2. mcu'.sess = c.n /\ mcu'.sent = 0
      BY <2>2 DEF HelloSent
    <3> QED BY <1>1, <1>2, <2>1, <3>1, <3>2 DEF SessionNumbers
  <2>3. CASE FinishedSent(c)
    <3>1. mcu'.sess = mcu.sess /\ mcu'.sent = mcu.sent /\ mcu.phase = "hello"
      BY <1>1, <2>3, McuFields DEF FinishedSent
    <3> QED BY <1>1, <1>2, <2>1, <3>1 DEF SessionNumbers
  <2>4. CASE PeerConnected(c)
    <3>1. /\ mcu'.sess = mcu.sess /\ mcu'.sent = mcu.sent /\ mcu.phase = "finished"
      BY <1>1, <2>4, McuFields DEF PeerConnected
    <3> QED BY <1>1, <1>2, <2>1, <3>1 DEF SessionNumbers
  <2>5. CASE ImageSent(c)
    <3>1. /\ mcu'.sess = mcu.sess /\ mcu'.sent = mcu.sent + 1
          /\ mcu'.phase = "connected"
      BY <1>1, <2>5, McuFields DEF ImageSent
    <3>2. mcu.sent < c.n /\ c.n <= requests /\ c.n \in Nat
      BY <1>2, <2>1, <2>5, Members DEF ImageSent, CommandsInv, CommandOK
    <3> QED BY <1>1, <1>2, <2>1, <3>1, <3>2 DEF SessionNumbers
  <2>6. CASE Ignored(c)
    BY <1>2, <2>1, <2>6 DEF Ignored, SessionNumbers
  <2> QED BY <1>9, <2>2, <2>3, <2>4, <2>5, <2>6 DEF Runs
<1> QED BY <1>3, <1>4, <1>5, <1>6, <1>7, <1>8, <1>9 DEF Kinds

\* What a task has received, and given up.
TaskNumbers ==
  /\ have <= requests /\ givenUp <= requests
  /\ stage \in {"referenceWait", "wait"} => givenUp < requests

LEMMA TaskNumbersKept ==
  ASSUME Types, LineInv, [Next]_vars
  PROVE  TaskNumbers'
<1>1. /\ have \in Nat /\ givenUp \in Nat /\ requests \in Nat /\ QueueTypes
      /\ TaskNumbers /\ RecordsInv
  BY DEF Types, HostTypes, LimitTypes, LineInv, NumbersInv, TaskNumbers
<1>2. CASE Cancel \/ TimeOut \/ CallFails \/ FeedFails \/ HandshakeFails \/ PullFails
  <2>1. /\ stage' = "none" /\ requests' = requests /\ (have' = have \/ have' = 0)
        /\ givenUp' = IF stage \in {"referenceWait", "wait"} /\ have = 0
                      THEN givenUp + 1 ELSE givenUp
    BY <1>2
    DEF Cancel, TimeOut, CallFails, FeedFails, HandshakeFails, PullFails, GivesUp,
        Leaves
  <2> QED BY <1>1, <2>1 DEF TaskNumbers
<1>3. CASE ImgOpen \/ ImgClose \/ Activate \/ ActivateFails \/ StartTask
  <2>1. /\ requests' = requests /\ (have' = have \/ have' = 0)
        /\ (givenUp' = givenUp \/ givenUp' = 0)
        /\ (stage' = stage \/ stage' \in {"tls", "start", "setup"})
    BY <1>3
    DEF ImgOpen, ImgClose, Activate, ActivateFails, StartTask, Connects, NewSession
  <2> QED BY <1>1, <2>1 DEF TaskNumbers
<1>4. CASE \/ Ask \/ Setup \/ Feed \/ AcceptUp \/ TlsConnected \/ Handshake
           \/ ImageSeen \/ McuRuns \/ McuReports \/ McuReportsOdd \/ LoseCommand
           \/ UNCHANGED vars
  <2>1. /\ UNCHANGED <<requests, have, givenUp>>
        /\ (stage' = stage \/ stage' \notin {"referenceWait", "wait"})
    BY <1>4
    DEF Ask, Setup, Feed, AcceptUp, TlsConnected, Handshake, ImageSeen, McuRuns,
        McuReports, McuReportsOdd, LoseCommand
  <2> QED BY <1>1, <2>1 DEF TaskNumbers
<1>5. CASE AcceptEvent \/ Store
  <2>1. /\ UNCHANGED <<requests, givenUp>> /\ (have' = have \/ have' = 0)
        /\ stage' = "none"
    BY <1>5 DEF AcceptEvent, Store, Finishes, Leaves
  <2> QED BY <1>1, <2>1 DEF TaskNumbers
<1>6. CASE RequestImage
  <2>1. requests' = requests + 1 /\ have' = 0 /\ givenUp' = givenUp
    BY <1>6 DEF RequestImage, SinkReset
  <2> QED BY <1>1, <2>1 DEF TaskNumbers
<1>7. CASE Pull
  <2>1. tlsq # <<>> /\ tlsq' = Tail(tlsq) /\ UNCHANGED wire
    BY <1>7 DEF Pull
  <2>2. Head(tlsq) \in Stream /\ Head(tlsq).msg = "image"
    BY <1>1, <1>7, <2>1, RecordDecrypted, FirstOfStream DEF Pull, Decrypts
  <2>3. Head(tlsq).req <= requests
    BY <1>1, <2>2 DEF RecordsInv, ImageRecord
  <2>4. /\ UNCHANGED <<stage, requests, givenUp>>
        /\ have' = have \/ have' = Head(tlsq).req
    BY <1>7 DEF Pull, KeepFirst
  <2> QED BY <1>1, <2>3, <2>4 DEF TaskNumbers
<1> QED
  BY <1>2, <1>3, <1>4, <1>5, <1>6, <1>7 DEF Next, Begin, Task, Mcu

LEMMA NumbersInvKept ==
  ASSUME Types, Types', LineInv, Kinds, [Next]_vars
  PROVE  NumbersInv'
BY SessionNumbersKept, TaskNumbersKept DEF SessionNumbers, TaskNumbers, NumbersInv

-----------------------------------------------------------------------------
\* The records: nothing is added to the stream, and none of its flights is
\* answered.
AnswersNone == \A r \in Stream' : Unanswered(r, Commands) => Unanswered(r, Commands')

McuAgrees ==
  \A r \in Stream :
    /\ r.sess <= mcu'.sess
    /\ r.sess = mcu'.sess =>
         IF r.msg = "image" THEN r.seq < mcu'.sent ELSE mcu'.phase = r.msg

LEMMA McuAgreed ==
  ASSUME RecordsInv, mcu' = mcu
  PROVE  McuAgrees
BY DEF RecordsInv, McuAgrees, ImageRecord, FlightRecord

LEMMA RecordsShrink ==
  ASSUME RecordsInv, Types, Types', AnswersNone, McuAgrees, requests <= requests',
         Stream' \subseteq Stream, StreamOrder' \subseteq StreamOrder
  PROVE  RecordsInv'
<1>1. ASSUME NEW r \in Stream'
      PROVE  /\ r.sess <= mcu'.sess
             /\ IF r.msg = "image" THEN ImageRecord(r)' ELSE FlightRecord(r)'
  <2>1. r \in Stream /\ r.sess <= mcu'.sess /\ r.req \in Nat
    BY <1>1, Members DEF RecordsInv, McuAgrees
  <2>2. CASE r.msg = "image"
    <3>1. ImageRecord(r)
      BY <2>1, <2>2 DEF RecordsInv
    <3>2. requests \in Nat /\ requests' \in Nat
      BY DEF Types, LimitTypes
    <3> QED BY <2>1, <2>2, <3>1, <3>2 DEF ImageRecord, McuAgrees
  <2>3. CASE r.msg # "image"
    <3>1. FlightRecord(r)
      BY <2>1, <2>3 DEF RecordsInv
    <3>2. Unanswered(r, Commands')
      BY <1>1, <3>1 DEF FlightRecord, AnswersNone
    <3> QED BY <2>1, <2>3, <3>1, <3>2 DEF FlightRecord, McuAgrees
  <2> QED BY <2>1, <2>2, <2>3
<1>2. \A p \in StreamOrder' : Earlier(p[1], p[2])
  BY DEF RecordsInv
<1> QED BY <1>1, <1>2 DEF RecordsInv

\* The MCU sends a record.
LEMMA RecordsGrow ==
  ASSUME RecordsInv, Types, Types', requests' = requests, NEW r \in TlsRecords,
         StreamGains(r), Commands' \subseteq Commands,
         \A x \in Stream : Earlier(x, r),
         \A x \in Stream : x.sess <= mcu'.sess,
         \A x \in Stream : x.sess = mcu'.sess =>
           x.msg = "image" /\ r.msg = "image" /\ x.seq < mcu'.sent,
         r.sess = mcu'.sess,
         IF r.msg = "image" THEN ImageRecord(r)'
         ELSE mcu'.phase = r.msg /\ Unanswered(r, Commands')
  PROVE  RecordsInv'
<1>1. Stream' = Stream \union {r}
  BY DEF StreamGains
<1>2. ASSUME NEW x \in Stream
      PROVE  /\ x.sess <= mcu'.sess
             /\ IF x.msg = "image" THEN ImageRecord(x)' ELSE FlightRecord(x)'
  <2>1. CASE x.msg = "image"
    <3>1. ImageRecord(x)
      BY <2>1 DEF RecordsInv
    <3> QED BY <2>1, <3>1 DEF ImageRecord
  <2>2. CASE x.msg # "image"
    <3>1. FlightRecord(x)
      BY <2>2 DEF RecordsInv
    <3>2. Unanswered(x, Commands')
      BY <3>1 DEF FlightRecord, Unanswered
    <3>3. x.sess # r.sess /\ x.sess # mcu'.sess
      BY <2>2
    <3> QED BY <1>1, <2>2, <3>1, <3>2, <3>3 DEF FlightRecord
  <2> QED BY <2>1, <2>2
<1>3. /\ r.sess <= mcu'.sess
      /\ IF r.msg = "image" THEN ImageRecord(r)' ELSE FlightRecord(r)'
  <2>1. r.sess <= mcu'.sess
    BY McuFields DEF TlsRecords
  <2>2. r.msg # "image" => \A x \in Stream' : x.sess = r.sess => x.msg = r.msg
    BY <1>1
  <2> QED BY <2>1, <2>2 DEF FlightRecord
<1>4. ASSUME NEW p \in StreamOrder'
      PROVE  Earlier(p[1], p[2])
  <2>1. CASE p \in StreamOrder
    BY <2>1 DEF RecordsInv
  <2>2. CASE p \in Stream \X {r}
    BY <2>2
  <2> QED BY <1>4, <2>1, <2>2 DEF StreamGains
<1> QED BY <1>1, <1>2, <1>3, <1>4 DEF RecordsInv

LEMMA RecordsInvKept ==
  ASSUME Types, Types', LineInv, Kinds
  PROVE  RecordsInv'
<1>1. /\ RecordsInv /\ CommandsInv /\ SessionNumbers /\ McuType /\ McuType'
      /\ requests \in Nat /\ mcu.sess \in Nat /\ mcu.sent \in Nat
  BY McuFields DEF LineInv, NumbersInv, SessionNumbers, Types, LimitTypes
<1>2. CASE Idles \/ Loses \/ Drops
  <2>1. /\ mcu' = mcu /\ requests' = requests /\ Commands' \subseteq Commands
        /\ Stream' \subseteq Stream /\ StreamOrder' \subseteq StreamOrder
    BY <1>2 DEF Idles, Loses, Drops, BackendNew, CountsSame, StreamSame, StreamLess,
                CommandsSame, CommandsLess
  <2>2. AnswersNone
    BY <2>1 DEF AnswersNone, Unanswered
  <2> QED BY <1>1, <2>1, <2>2, McuAgreed, RecordsShrink
<1>3. CASE Begins
  <2>1. Stream' = {} /\ StreamOrder' = {}
    BY <1>3 DEF Begins, StreamGone
  <2> QED BY <2>1 DEF RecordsInv
<1>4. CASE Requests
  <2>1. /\ Stream' = Stream /\ StreamOrder' = StreamOrder /\ mcu' = mcu
        /\ requests' = requests + 1
        /\ Commands' = Commands \union {Command("getImage", requests + 1)}
    BY <1>4 DEF Requests, StreamSame, CommandSent
  <2>2. AnswersNone
    BY <2>1, FieldsOfCommand DEF AnswersNone, Unanswered
  <2> QED BY <1>1, <2>1, <2>2, McuAgreed, RecordsShrink
<1>5. CASE Refuses \/ Pulls
  <2>1. Decrypting /\ CommandsSame /\ mcu' = mcu /\ requests' = requests
    BY <1>5 DEF Refuses, Pulls, CountsSame
  <2>2. AnswersNone
    BY <2>1 DEF AnswersNone, Unanswered, CommandsSame
  <2> QED BY <1>1, <2>1, <2>2, FirstOfStream, McuAgreed, RecordsShrink
<1>6. CASE Answers
  <2> DEFINE h == Head(tlsq)
  <2>1. Decrypting /\ mcu' = mcu /\ requests' = requests /\ sess' = h.sess
        /\ h.msg \in {"hello", "finished"}
    BY <1>6 DEF Answers, CountsSame, Expects
  <2>2. \/ Commands' = Commands \union {Command("serverFlight", h.sess)}
        \/ Commands' = Commands \union {Command("serverFinished", h.sess)}
    BY <1>6, <2>1 DEF Answers, CommandSent
  <2> HIDE DEF h
  <2>3. h \in Stream /\ \A x \in Stream' : x \in Stream /\ Earlier(h, x)
    BY <1>1, <2>1, FirstOfStream DEF h
  <2>4. \A x \in Stream' : x.sess # h.sess
    <3>1. \A x \in Stream' : h.sess < x.sess /\ x.sess \in Nat /\ h.sess \in Nat
      BY <2>1, <2>3, Members DEF Earlier
    <3> QED BY <3>1
  <2>5. AnswersNone
    BY <2>2, <2>4, FieldsOfCommand DEF AnswersNone, Unanswered
  <2> QED BY <1>1, <2>1, <2>5, FirstOfStream, McuAgreed, RecordsShrink
<1>7. ASSUME NEW c \in Orders, Runs(c)
      PROVE  RecordsInv'
  <2>1. c \in Commands /\ Commands' \subseteq Commands /\ requests' = requests
        /\ \A x \in Commands' : <<c, x>> \in CommandOrder
    BY <1>7, FirstOfCommands DEF Runs, CountsSame
  <2>2. AnswersNone
    BY <2>1 DEF AnswersNone, Unanswered
  <2>3. \A x \in Stream : x.sess \in Nat /\ x.seq \in Nat /\ x.sess <= mcu.sess
    BY <1>1, Members DEF RecordsInv
  <2>4. ASSUME NEW r, Arrives(r), McuAgrees, StreamGains(r) => RecordsInv'
        PROVE  RecordsInv'
    <3>1. CASE StreamGains(r)
      BY <2>4, <3>1
    <3>2. CASE StreamLess
      BY <1>1, <2>1, <2>2, <2>4, <3>2, RecordsShrink DEF StreamLess
    <3> QED BY <2>4, <3>1, <3>2 DEF Arrives
  <2>5. CASE HelloSent(c)
    <3> DEFINE r == Record("hello", c.n, 0, 0)
    <3>1. c.n \in Nat /\ mcu.sess < c.n
      BY <1>1, <2>1, <2>5, Members DEF HelloSent, CommandsInv, CommandOK
    <3>2. /\ mcu'.sess = c.n /\ mcu'.phase = "hello" /\ Arrives(r)
          /\ r.msg = "hello" /\ r.sess = c.n /\ r \in TlsRecords
      BY <2>5, <3>1, FieldsOfRecord, RecordTypes DEF HelloSent
    <3>3. \A x \in Stream : x.sess < c.n
      BY <1>1, <2>3, <3>1
    <3>4. Unanswered(r, Commands')
      <4>1. \A m \in {"serverFlight", "serverFinished"} :
              Command(m, c.n) \notin Commands
        BY <1>1, <3>1, FieldsOfCommand DEF CommandsInv, CommandOK
      <4> QED BY <2>1, <3>2, <4>1 DEF Unanswered
    <3> HIDE DEF r
    <3>5. McuAgrees
      BY <2>3, <3>1, <3>2, <3>3 DEF McuAgrees
    <3>6. /\ \A x \in Stream : Earlier(x, r) /\ x.sess <= mcu'.sess
          /\ \A x \in Stream : x.sess # mcu'.sess
      BY <2>3, <3>1, <3>2, <3>3 DEF Earlier
    <3>7. StreamGains(r) => RecordsInv'
      BY <1>1, <2>1, <3>2, <3>4, <3>6, RecordsGrow
    <3> QED BY <2>4, <3>2, <3>5, <3>7
  <2>6. CASE FinishedSent(c)
    <3> DEFINE r == Record("finished", c.n, 0, 0)
    <3>1. c = Command("serverFlight", mcu.sess)
      BY <2>1, <2>6, Members DEF FinishedSent
    <3>2. /\ mcu'.sess = mcu.sess /\ mcu'.phase = "finished" /\ Arrives(r)
          /\ r.msg = "finished" /\ r.sess = mcu.sess /\ r \in TlsRecords
      BY <1>1, <2>6, FieldsOfRecord, RecordTypes, McuFields DEF FinishedSent
    <3>3. ASSUME NEW x \in Stream
          PROVE  x.sess < mcu.sess
      <4>1. ASSUME x.sess = mcu.sess
            PROVE  FALSE
        <5>1. CASE x.msg = "image"
          <6>1. x.seq < mcu.sent /\ mcu.sent = 0
            BY <1>1, <2>6, <4>1, <5>1
            DEF FinishedSent, RecordsInv, ImageRecord, SessionNumbers
          <6> QED BY <2>3, <6>1
        <5>2. CASE x.msg # "image"
          <6>1. x.msg = "hello" /\ Command("serverFlight", x.sess) \notin Commands
            BY <1>1, <2>6, <4>1, <5>2
            DEF FinishedSent, RecordsInv, FlightRecord, Unanswered
          <6> QED BY <2>1, <3>1, <4>1, <6>1
        <5> QED BY <5>1, <5>2
      <4> QED BY <1>1, <2>3, <4>1
    <3>4. Unanswered(r, Commands')
      <4>1. Command("serverFinished", mcu.sess) \notin Commands
        BY <1>1, <2>6, FieldsOfCommand DEF CommandsInv, CommandOK, FinishedSent
      <4> QED BY <2>1, <3>2, <4>1 DEF Unanswered
    <3> HIDE DEF r
    <3>5. /\ \A x \in Stream : Earlier(x, r) /\ x.sess <= mcu'.sess
          /\ \A x \in Stream : x.sess # mcu'.sess
      BY <1>1, <2>3, <3>2, <3>3 DEF Earlier
    <3>6. McuAgrees
      BY <3>5 DEF McuAgrees
    <3>7. StreamGains(r) => RecordsInv'
      BY <1>1, <2>1, <3>2, <3>4, <3>5, RecordsGrow
    <3> QED BY <2>4, <3>2, <3>6, <3>7
  <2>7. CASE PeerConnected(c)
    <3>1. c = Command("serverFinished", mcu.sess)
      BY <2>1, <2>7, Members DEF PeerConnected
    <3>2. mcu'.sess = mcu.sess /\ mcu'.sent = mcu.sent
      BY <1>1, <2>7, McuFields DEF PeerConnected
    <3>3. \A x \in Stream : x.msg # "image" => x.sess # mcu.sess
      BY <1>1, <2>1, <3>1 DEF RecordsInv, FlightRecord, Unanswered
    <3>4. McuAgrees
      BY <1>1, <3>2, <3>3 DEF McuAgrees, RecordsInv, ImageRecord
    <3> QED BY <1>1, <2>1, <2>2, <2>7, <3>4, RecordsShrink DEF PeerConnected, StreamSame
  <2>8. CASE ImageSent(c)
    <3>. PICK r : r = Record("image", mcu.sess, mcu.sent, c.n)
      OBVIOUS
    <3>1. /\ c.n \in Nat /\ mcu.sent < c.n /\ c.n <= requests
          /\ \A x \in Images : x.req < c.n
      BY <1>1, <2>1, <2>8, Members DEF ImageSent, CommandsInv, CommandOK
    <3>2. /\ mcu'.sess = mcu.sess /\ mcu'.sent = mcu.sent + 1 /\ Arrives(r)
          /\ mcu'.phase = "connected" /\ mcu.phase = "connected"
          /\ r.msg = "image" /\ r.sess = mcu.sess /\ r.seq = mcu.sent /\ r.req = c.n
          /\ r \in TlsRecords
      BY <1>1, <2>8, <3>1, FieldsOfRecord, RecordTypes, McuFields DEF ImageSent
    <3>3. \A x \in Stream : x.sess = mcu.sess =>
            /\ x.msg = "image" /\ x.seq < mcu.sent /\ x.req < r.req
      <4>1. \A x \in Stream : x.sess = mcu.sess => x.msg = "image"
        BY <1>1, <3>2, Members DEF RecordsInv, FlightRecord
      <4> QED BY <1>1, <3>1, <3>2, <4>1 DEF RecordsInv, ImageRecord, Images
    <3>4. /\ \A x \in Stream : Earlier(x, r) /\ x.sess <= mcu'.sess
          /\ \A x \in Stream : x.sess = mcu'.sess =>
               x.msg = "image" /\ r.msg = "image" /\ x.seq < mcu'.sent
      BY <1>1, <2>3, <3>2, <3>3 DEF Earlier
    <3>5. McuAgrees
      BY <3>4 DEF McuAgrees
    <3>6. ImageRecord(r)'
      BY <1>1, <2>1, <3>1, <3>2 DEF ImageRecord
    <3>7. StreamGains(r) => RecordsInv'
      BY <1>1, <2>1, <3>2, <3>4, <3>6, RecordsGrow
    <3> QED BY <2>4, <3>2, <3>5, <3>7
  <2>9. CASE Ignored(c)
    BY <1>1, <2>1, <2>2, <2>9, McuAgreed, RecordsShrink DEF Ignored, StreamSame
  <2> QED BY <1>7, <2>5, <2>6, <2>7, <2>8, <2>9 DEF Runs
<1> QED BY <1>2, <1>3, <1>4, <1>5, <1>6, <1>7 DEF Kinds

-----------------------------------------------------------------------------
\* The commands: none or one is sent, and the MCU does nothing.
LEMMA CommandsShrink ==
  ASSUME CommandsInv, Types, Types', mcu' = mcu, inits <= inits',
         requests <= requests', Stream' \subseteq Stream,
         NEW c \in Commands
  PROVE  CommandOK(c)'
<1>1. /\ c.n \in Nat /\ inits \in Nat /\ inits' \in Nat /\ requests \in Nat
      /\ requests' \in Nat /\ CommandOK(c)
  BY Members DEF Types, LimitTypes, CommandsInv
<1>2. Images' \subseteq Images
  BY DEF Images
<1>3. CASE c.name = "init"
  BY <1>1, <1>3 DEF CommandOK
<1>4. CASE c.name = "getImage"
  <2>1. mcu.sent < c.n /\ c.n <= requests /\ \A r \in Images : r.req < c.n
    BY <1>1, <1>4 DEF CommandOK
  <2>2. c.n <= requests'
    BY <1>1, <2>1
  <2> QED BY <1>2, <1>4, <2>1, <2>2 DEF CommandOK
<1>5. CASE c.name \notin {"init", "getImage"}
  BY <1>1, <1>5 DEF CommandOK
<1> QED BY <1>3, <1>4, <1>5

LEMMA CommandsGrow ==
  ASSUME CommandsInv, Types, Types', mcu' = mcu, inits <= inits',
         requests <= requests', Stream' \subseteq Stream,
         NEW c, CommandSent(c), CommandOK(c)', \A x \in Commands : InOrder(x, c)
  PROVE  CommandsInv'
<1>1. \A x \in Commands' : CommandOK(x)'
  BY CommandsShrink DEF CommandSent
<1>2. ASSUME NEW p \in CommandOrder'
      PROVE  InOrder(p[1], p[2])
  <2>1. CASE p \in CommandOrder
    BY <2>1 DEF CommandsInv
  <2>2. CASE p \in Commands \X {c}
    BY <2>2
  <2> QED BY <1>2, <2>1, <2>2 DEF CommandSent
<1> QED BY <1>1, <1>2 DEF CommandsInv

LEMMA CommandsInvKept ==
  ASSUME Types, Types', LineInv, Kinds
  PROVE  CommandsInv'
<1>1. /\ RecordsInv /\ CommandsInv /\ SessionNumbers /\ McuType /\ McuType'
      /\ requests \in Nat /\ inits \in Nat /\ mcu.sess \in Nat /\ mcu.sent \in Nat
  BY McuFields DEF LineInv, NumbersInv, SessionNumbers, Types, LimitTypes
<1>2. CASE Idles \/ Loses \/ Drops \/ Refuses \/ Pulls
  <2>1. /\ mcu' = mcu /\ requests' = requests /\ inits' = inits
        /\ Commands' \subseteq Commands /\ CommandOrder' \subseteq CommandOrder
        /\ Stream' \subseteq Stream
    BY <1>2 DEF Idles, Loses, Drops, Refuses, Pulls, BackendNew, CountsSame,
                StreamSame, StreamLess, CommandsSame, CommandsLess, Decrypting
  <2>2. \A c \in Commands : CommandOK(c)'
    BY <1>1, <2>1, CommandsShrink
  <2> QED BY <1>1, <2>1, <2>2 DEF CommandsInv
<1>3. CASE Begins
  <2> DEFINE c == Command("init", inits + 1)
  <2>1. /\ mcu' = mcu /\ requests' = requests /\ inits' = inits + 1
        /\ CommandSent(c) /\ Stream' \subseteq Stream
    BY <1>3 DEF Begins, BackendNew, StreamGone
  <2>2. c.name = "init" /\ c.n = inits + 1
    BY FieldsOfCommand
  <2>3. \A x \in Commands : x.name = "init" => x.n \in Nat /\ x.n <= inits
    BY <1>1, Members DEF CommandsInv, CommandOK
  <2>. PICK d : d = c
    OBVIOUS
  <2> HIDE DEF c
  <2>4. CommandOK(d)' /\ \A x \in Commands : InOrder(x, d)
    BY <1>1, <2>1, <2>2, <2>3 DEF CommandOK, InOrder, SessionNumbers
  <2> QED BY <1>1, <2>1, <2>4, CommandsGrow
<1>4. CASE Requests
  <2> DEFINE c == Command("getImage", requests + 1)
  <2>1. /\ mcu' = mcu /\ inits' = inits /\ requests' = requests + 1
        /\ CommandSent(c) /\ Stream' = Stream
    BY <1>4 DEF Requests, StreamSame
  <2>2. c.name = "getImage" /\ c.n = requests + 1
    BY FieldsOfCommand
  <2>3. \A x \in Commands : x.name = "getImage" => x.n \in Nat /\ x.n <= requests
    BY <1>1, Members DEF CommandsInv, CommandOK
  <2>4. \A r \in Images' : r.req \in Nat /\ r.req < requests + 1
    BY <1>1, <2>1, Members DEF RecordsInv, ImageRecord, Images
  <2>. PICK d : d = c
    OBVIOUS
  <2> HIDE DEF c
  <2>5. CommandOK(d)' /\ \A x \in Commands : InOrder(x, d)
    BY <1>1, <2>1, <2>2, <2>3, <2>4 DEF CommandOK, InOrder, SessionNumbers
  <2> QED BY <1>1, <2>1, <2>5, CommandsGrow
<1>5. CASE Answers
  <2>1. /\ mcu' = mcu /\ inits' = inits /\ requests' = requests
        /\ Decrypting /\ sess' = Head(tlsq).sess
        /\ Head(tlsq).msg \in {"hello", "finished"}
    BY <1>5 DEF Answers, CountsSame, Expects
  <2>2. Stream' \subseteq Stream /\ Head(tlsq) \in Stream
    BY <1>1, <2>1, FirstOfStream
  <2>3. /\ sess' <= mcu.sess
        /\ sess' = mcu.sess => mcu.phase = Head(tlsq).msg
    BY <1>1, <2>1, <2>2 DEF RecordsInv, FlightRecord
  <2>4. PICK c : /\ CommandSent(c) /\ c.n = sess'
                 /\ \/ c.name = "serverFlight"
                    \/ c.name = "serverFinished" /\ Head(tlsq).msg = "finished"
    BY <1>5, FieldsOfCommand DEF Answers, Expects
  <2>5. CommandOK(c)' /\ \A x \in Commands : InOrder(x, c)
    BY <2>1, <2>3, <2>4 DEF CommandOK, InOrder
  <2> QED BY <1>1, <2>1, <2>2, <2>4, <2>5, CommandsGrow
<1>6. ASSUME NEW c \in Orders, Runs(c)
      PROVE  CommandsInv'
  <2>1. /\ c \in Commands /\ Commands' \subseteq Commands
        /\ CommandOrder' \subseteq CommandOrder
        /\ \A x \in Commands' : <<c, x>> \in CommandOrder
        /\ requests' = requests /\ inits' = inits
    BY <1>6, FirstOfCommands DEF Runs, CountsSame
  <2>2. \A x \in Commands' : x \in Commands /\ InOrder(c, x) /\ CommandOK(x)
    BY <1>1, <2>1 DEF CommandsInv
  <2>3. \A x \in Commands' : x.n \in Nat
    BY <2>2, Members
  <2>4. c.n \in Nat /\ CommandOK(c)
    BY <1>1, <2>1, Members DEF CommandsInv
  <2>5. SUFFICES ASSUME NEW x \in Commands'
                 PROVE  CommandOK(x)'
    BY <1>1, <2>1 DEF CommandsInv
  <2>6. CASE HelloSent(c)
    <3>1. /\ mcu'.sess = c.n /\ mcu'.sent = 0 /\ mcu'.phase = "hello"
          /\ mcu.sess < c.n /\ c.n <= inits
      BY <2>4, <2>6 DEF HelloSent, CommandOK
    <3>2. Images' \subseteq Images
      BY <2>6, FieldsOfRecord
      DEF HelloSent, Arrives, StreamGains, StreamLess, Images
    <3>3. CASE x.name = "init"
      BY <2>1, <2>2, <2>3, <2>6, <3>1, <3>3 DEF HelloSent, CommandOK, InOrder
    <3>4. CASE x.name = "getImage"
      <4>1. mcu.sent < x.n /\ x.n <= requests /\ \A r \in Images : r.req < x.n
        BY <2>2, <3>4 DEF CommandOK
      <4>2. mcu'.sent < x.n
        BY <1>1, <2>3, <3>1, <4>1
      <4> QED BY <2>1, <3>2, <3>4, <4>1, <4>2 DEF CommandOK
    <3>5. CASE x.name \notin {"init", "getImage"}
      BY <1>1, <2>2, <2>3, <2>4, <3>1, <3>5 DEF CommandOK
    <3> QED BY <3>3, <3>4, <3>5
  <2>7. CASE ImageSent(c)
    <3>1. /\ mcu'.sess = mcu.sess /\ mcu'.sent = mcu.sent + 1
          /\ mcu'.phase = mcu.phase /\ mcu.sent < c.n /\ c.name = "getImage"
      BY <1>1, <2>4, <2>7, McuFields DEF ImageSent, CommandOK
    <3>2. \A r \in Images' : r \in Images \/ r.req = c.n
      BY <2>7, FieldsOfRecord
      DEF ImageSent, Arrives, StreamGains, StreamLess, Images
    <3>3. CASE x.name = "getImage"
      <4>1. /\ c.n < x.n /\ mcu.sent < x.n /\ x.n <= requests
            /\ \A r \in Images : r.req < x.n
        BY <2>2, <3>1, <3>3 DEF CommandOK, InOrder
      <4>2. mcu'.sent < x.n
        BY <1>1, <2>3, <2>4, <3>1, <4>1
      <4> QED BY <2>1, <3>2, <3>3, <4>1, <4>2 DEF CommandOK
    <3>4. CASE x.name # "getImage"
      BY <2>1, <2>2, <3>1, <3>4 DEF CommandOK
    <3> QED BY <3>3, <3>4
  <2>8. CASE FinishedSent(c) \/ PeerConnected(c) \/ Ignored(c)
    <3>1. /\ mcu'.sess = mcu.sess /\ mcu'.sent = mcu.sent
          /\ mcu'.phase = mcu.phase \/ mcu'.phase # "hello"
      BY <1>1, <2>8, McuFields DEF FinishedSent, PeerConnected, Ignored
    <3>2. Images' \subseteq Images
      BY <2>8, FieldsOfRecord
      DEF FinishedSent, PeerConnected, Ignored, Arrives, StreamGains, StreamLess,
          StreamSame, Images
    <3>3. CASE x.name = "getImage"
      <4>1. mcu.sent < x.n /\ x.n <= requests /\ \A r \in Images : r.req < x.n
        BY <2>2, <3>3 DEF CommandOK
      <4> QED BY <2>1, <3>1, <3>2, <3>3, <4>1 DEF CommandOK
    <3>4. CASE x.name # "getImage"
      BY <2>1, <2>2, <3>1, <3>4 DEF CommandOK
    <3> QED BY <3>3, <3>4
  <2> QED BY <1>6, <2>6, <2>7, <2>8 DEF Runs
<1> QED BY <1>2, <1>3, <1>4, <1>5, <1>6 DEF Kinds

-----------------------------------------------------------------------------
\* The handshake that may finish.
NoRequestLeft == 
  /\ \A r \in Stream : r.sess = sess /\ r.msg = "finished" => Requested = {}
  /\ \A p \in CommandOrder :
       p[1] = Command("serverFlight", sess) => p[2].name # "getImage"

LEMMA FlightInvKept ==
  ASSUME Types, Types', StageInv, LineInv, Kinds
  PROVE  FlightInv'
<1>1. /\ RecordsInv /\ CommandsInv /\ McuType
      /\ tls = "connecting" /\ hs = "finished" => NoRequestLeft
  BY DEF LineInv, FlightInv, NoRequestLeft, Types
<1>2. CASE Idles \/ Loses
  <2>1. /\ UNCHANGED <<tls, hs, sess>> /\ Stream' \subseteq Stream
        /\ Commands' \subseteq Commands /\ CommandOrder' \subseteq CommandOrder
    BY <1>2 DEF Idles, Loses, SessionSame, StreamSame, StreamLess, CommandsSame,
                CommandsLess
  <2>2. Requested' \subseteq Requested
    BY <2>1 DEF Requested
  <2> QED BY <1>1, <2>1, <2>2 DEF FlightInv, NoRequestLeft
<1>3. CASE Begins \/ Drops
  BY <1>3 DEF Begins, Drops, BackendNew, FlightInv
<1>4. CASE Refuses \/ Requests \/ Pulls
  <2>1. tls' # "connecting"
    BY <1>4 DEF Refuses, Requests, Pulls, SessionSame, StageInv
  <2> QED BY <2>1 DEF FlightInv
<1>5. CASE Answers
  <2> DEFINE h == Head(tlsq)
             c == Command("serverFlight", sess')
  <2>1. CASE tls' = "connected"
    BY <2>1 DEF FlightInv
  <2>2. CASE /\ h.msg = "hello" /\ sess' = h.sess /\ Decrypting
             /\ CommandSent(c)
    <3>1. h \in Stream /\ \A x \in Stream' : x \in Stream /\ Earlier(h, x)
      BY <1>1, <2>2, FirstOfStream
    <3>2. \A x \in Stream' : x.sess # sess'
      <4>1. \A x \in Stream' : h.sess < x.sess /\ x.sess \in Nat /\ h.sess \in Nat
        BY <2>2, <3>1, Members DEF Earlier
      <4> QED BY <2>2, <4>1
    <3>3. c \notin Commands
      BY <1>1, <2>2, <3>1 DEF RecordsInv, FlightRecord, Unanswered
    <3>4. c.name # "getImage"
      BY FieldsOfCommand
    <3> HIDE DEF c
    <3>5. \A p \in CommandOrder' : p[1] = c => p[2] = c
      <4>1. \A p \in CommandOrder : p[1] # c
        BY <3>3, Members
      <4> QED BY <2>2, <3>3, <4>1 DEF CommandSent
    <3> QED BY <3>2, <3>4, <3>5 DEF FlightInv, c
  <2> QED BY <1>5, <2>1, <2>2 DEF Answers, Expects
<1>6. ASSUME NEW c \in Orders, Runs(c)
      PROVE  FlightInv'
  <2>1. /\ c \in Commands /\ Commands' \subseteq Commands
        /\ CommandOrder' \subseteq CommandOrder
        /\ \A x \in Commands' : <<c, x>> \in CommandOrder
        /\ UNCHANGED <<tls, hs, sess>>
    BY <1>6, FirstOfCommands DEF Runs, SessionSame
  <2>2. Requested' \subseteq Requested
    BY <2>1 DEF Requested
  <2>3. SUFFICES ASSUME tls = "connecting", hs = "finished"
                 PROVE  NoRequestLeft'
    BY <2>1 DEF FlightInv, NoRequestLeft
  <2>4. SUFFICES ASSUME NEW r \in Stream', r.sess = sess, r.msg = "finished"
                 PROVE  Requested' = {}
    BY <1>1, <2>1, <2>3 DEF NoRequestLeft
  <2>5. CASE r \in Stream
    BY <1>1, <2>2, <2>3, <2>4, <2>5 DEF NoRequestLeft
  <2>6. CASE r \notin Stream
    <3>1. FinishedSent(c) /\ r = Record("finished", c.n, 0, 0)
      BY <1>6, <2>4, <2>6, FieldsOfRecord
      DEF Runs, HelloSent, FinishedSent, PeerConnected, ImageSent, Ignored, Arrives,
          StreamGains, StreamLess, StreamSame
    <3>2. c = Command("serverFlight", sess)
      BY <2>1, <2>4, <3>1, FieldsOfRecord, Members DEF FinishedSent
    <3>3. \A x \in Commands' : x.name # "getImage"
      BY <1>1, <2>1, <2>3, <3>2 DEF NoRequestLeft
    <3> QED BY <3>3 DEF Requested
  <2> QED BY <2>5, <2>6
<1> QED BY <1>2, <1>3, <1>4, <1>5, <1>6 DEF Kinds

LEMMA LineInvKept ==
  ASSUME Types, Types', StageInv, LineInv, Kinds, [Next]_vars
  PROVE  LineInv'
BY NumbersInvKept, RecordsInvKept, CommandsInvKept, FlightInvKept DEF LineInv

-----------------------------------------------------------------------------
\* The sessions that lost nothing.
LEMMA AskedKept ==
  ASSUME Types, Types', LineInv, Kinds, clean', clean => Asked
  PROVE  Asked'
<1>1. CommandsInv /\ SessionNumbers /\ McuType /\ inits \in Nat
  BY DEF LineInv, NumbersInv, SessionNumbers, Types, LimitTypes
<1>2. CASE Begins
  <2>1. inits' = inits + 1 /\ Command("init", inits + 1) \in Commands'
    BY <1>2 DEF Begins, CommandSent
  <2> QED BY <2>1 DEF Asked
<1>3. CASE Idles \/ Loses \/ Drops \/ Refuses \/ Pulls
  <2>1. Asked /\ mcu' = mcu /\ inits' = inits /\ Commands' = Commands
    BY <1>3 DEF Idles, Loses, Drops, Refuses, Pulls, CommandsSame, BackendNew,
                CountsSame
  <2> QED BY <2>1 DEF Asked
<1>4. CASE Answers \/ Requests
  <2>1. Asked /\ mcu' = mcu /\ inits' = inits /\ Commands \subseteq Commands'
    BY <1>4 DEF Answers, Requests, CommandSent, CountsSame
  <2> QED BY <2>1 DEF Asked
<1>5. ASSUME NEW c \in Orders, Runs(c)
      PROVE  Asked'
  <2>1. /\ c \in Commands /\ inits' = inits
        /\ \A x \in Commands : x = c \/ x \in Commands'
    BY <1>5, FirstOfCommands DEF Runs, CountsSame
  <2>2. Asked
    BY <1>5 DEF Runs, HelloSent, FinishedSent, PeerConnected, ImageSent, Ignored,
                Arrives
  <2>3. CASE c.name = "init"
    <3>1. /\ mcu'.sess = c.n /\ mcu.sess < c.n /\ c.n <= inits /\ c.n \in Nat
          /\ mcu.sess \in Nat
      BY <1>1, <1>5, <2>1, <2>3, Members, McuFields
      DEF Runs, HelloSent, FinishedSent, PeerConnected, ImageSent, Ignored,
          CommandsInv, CommandOK
    <3>2. CASE c = Command("init", inits)
      BY <2>1, <3>1, <3>2, FieldsOfCommand DEF Asked
    <3>3. CASE c # Command("init", inits)
      BY <1>1, <2>1, <2>2, <3>1, <3>3 DEF Asked
    <3> QED BY <3>2, <3>3
  <2>4. CASE c.name # "init"
    <3>1. mcu'.sess = mcu.sess
      BY <1>1, <1>5, <2>4, McuFields
      DEF Runs, HelloSent, FinishedSent, PeerConnected, ImageSent, Ignored
    <3>2. c # Command("init", inits)
      BY <2>4, FieldsOfCommand
    <3> QED BY <2>1, <2>2, <3>1, <3>2 DEF Asked
  <2> QED BY <2>3, <2>4
<1> QED BY <1>2, <1>3, <1>4, <1>5 DEF Kinds

LEMMA HandshakingKept ==
  ASSUME Types, Types', StageInv, LineInv, Kinds, clean', SyncInv,
         tls' = "connecting", hs' = "finished"
  PROVE  Handshaking'
<1>1. /\ RecordsInv /\ CommandsInv /\ SessionNumbers /\ McuType /\ inits \in Nat
      /\ sess \in Nat /\ mcu.sess \in Nat
  BY McuFields DEF LineInv, NumbersInv, SessionNumbers, Types, LimitTypes, HostTypes
<1>2. CASE Idles \/ Loses
  <2>1. /\ UNCHANGED <<tls, hs, sess, mcu, inits>> /\ clean
        /\ Stream' = Stream /\ Commands' = Commands /\ CommandOrder' = CommandOrder
    BY <1>2 DEF Idles, Loses, SessionSame, CountsSame, StreamSame, CommandsSame
  <2> QED BY <2>1 DEF SyncInv, Handshaking
<1>3. CASE Begins \/ Drops \/ Refuses \/ Requests \/ Pulls
  BY <1>3 DEF Begins, Drops, Refuses, Requests, Pulls, BackendNew, SessionSame,
              StageInv
<1>4. CASE Answers
  <2> DEFINE h == Head(tlsq)
             c == Command("serverFlight", sess')
  <2>1. /\ h.msg = "hello" /\ sess' = h.sess /\ Decrypting /\ CommandSent(c)
        /\ mcu' = mcu /\ inits' = inits
    BY <1>4 DEF Answers, Expects, CountsSame
  <2>2. h \in Stream /\ \A x \in Stream' : x \in Stream /\ Earlier(h, x)
    BY <1>1, <2>1, FirstOfStream
  <2>3. \A x \in Stream' : h.sess < x.sess /\ x.sess \in Nat /\ x.sess <= mcu.sess
    BY <1>1, <2>1, <2>2, Members DEF Earlier, RecordsInv
  <2>4. /\ h.sess \in Nat /\ h.sess <= mcu.sess
        /\ h.sess = mcu.sess => mcu.phase = "hello"
        /\ c \notin Commands /\ Command("serverFinished", sess') \notin Commands
    BY <1>1, <2>1, <2>2, Members DEF RecordsInv, FlightRecord, Unanswered
  <2>5. CASE sess' = inits
    <3>1. mcu.phase = "hello" /\ Stream' = {}
      BY <1>1, <2>1, <2>3, <2>4, <2>5 DEF SessionNumbers
    <3>2. Command("serverFinished", sess') \notin Commands'
      BY <2>1, <2>4, FieldsOfCommand DEF CommandSent
    <3> QED BY <2>1, <2>5, <3>1, <3>2 DEF Handshaking
  <2>6. CASE sess' # inits
    <3>1. sess' < inits
      BY <1>1, <2>1, <2>4, <2>6 DEF SessionNumbers
    <3>2. \A x \in Stream' : x.sess # sess'
      BY <2>1, <2>3, <2>4
    <3>3. <<c, Command("init", inits)>> \notin CommandOrder'
      <4>1. c # Command("init", inits)
        BY FieldsOfCommand
      <4>2. <<c, Command("init", inits)>> \notin CommandOrder
        BY <2>4, Members
      <4> HIDE DEF c
      <4> QED BY <2>1, <4>1, <4>2 DEF CommandSent
    <3> QED BY <2>1, <3>1, <3>2, <3>3 DEF Handshaking
  <2> QED BY <2>5, <2>6
<1>5. ASSUME NEW c \in Orders, Runs(c)
      PROVE  Handshaking'
  <2>1. /\ c \in Commands /\ Commands' \subseteq Commands
        /\ CommandOrder' \subseteq CommandOrder
        /\ \A x \in Commands : x = c \/ x \in Commands'
        /\ \A x \in Commands' : <<c, x>> \in CommandOrder
        /\ UNCHANGED <<tls, hs, sess, inits>>
    BY <1>5, FirstOfCommands DEF Runs, SessionSame, CountsSame
  <2>2. Asked /\ Handshaking
    BY <1>5, <2>1 DEF Runs, HelloSent, FinishedSent, PeerConnected, ImageSent,
                      Ignored, Arrives, SyncInv
  <2>3. \A r \in Stream' : \/ r \in Stream \/ r.msg \in {"hello", "image"}
                           \/ FinishedSent(c) /\ r = Record("finished", c.n, 0, 0)
    <3>1. CASE HelloSent(c) \/ ImageSent(c)
      <4>1. PICK m : Arrives(m) /\ m.msg \in {"hello", "image"}
        BY <3>1, FieldsOfRecord DEF HelloSent, ImageSent
      <4> QED BY <4>1 DEF Arrives, StreamGains, StreamLess
    <3>2. CASE FinishedSent(c)
      <4>1. Arrives(Record("finished", c.n, 0, 0))
        BY <3>2 DEF FinishedSent
      <4> QED BY <3>2, <4>1 DEF Arrives, StreamGains, StreamLess
    <3>3. CASE PeerConnected(c) \/ Ignored(c)
      BY <3>3 DEF PeerConnected, Ignored, StreamSame
    <3> QED BY <1>5, <3>1, <3>2, <3>3 DEF Runs
  <2>4. CASE /\ sess = inits /\ mcu.phase \in {"hello", "finished"}
             /\ Command("serverFinished", sess) \notin Commands
             /\ \A r \in Stream : r.sess = sess /\ r.msg = "finished"
    <3>1. mcu.sess = inits
      BY <1>1, <2>4 DEF SessionNumbers
    <3>2. ~HelloSent(c)
      BY <1>1, <2>1, <3>1, Members DEF HelloSent, CommandsInv, CommandOK
    <3>3. ~PeerConnected(c)
      <4>1. PeerConnected(c) => c = Command("serverFinished", sess)
        BY <2>1, <2>4, <3>1, Members DEF PeerConnected
      <4> QED BY <2>1, <2>4, <4>1
    <3>4. ~ImageSent(c)
      BY <2>4 DEF ImageSent
    <3>5. CASE FinishedSent(c)
      <4>1. mcu'.phase = "finished"
        BY <1>1, <3>5, McuFields DEF FinishedSent
      <4>2. \A r \in Stream' : r.sess = sess /\ r.msg = "finished"
        BY <2>4, <3>1, <3>5, FieldsOfRecord
        DEF FinishedSent, Arrives, StreamGains, StreamLess
      <4> QED BY <2>1, <2>4, <4>1, <4>2 DEF Handshaking
    <3>6. CASE Ignored(c)
      BY <2>1, <2>4, <3>6 DEF Ignored, StreamSame, Handshaking
    <3> QED BY <1>5, <3>2, <3>3, <3>4, <3>5, <3>6 DEF Runs
  <2>5. CASE /\ sess < inits
             /\ \A r \in Stream : ~(r.sess = sess /\ r.msg = "finished")
             /\ <<Command("serverFlight", sess), Command("init", inits)>>
                  \notin CommandOrder
    <3>1. ASSUME FinishedSent(c), c.n = sess
          PROVE  FALSE
      <4>1. c = Command("serverFlight", sess) /\ mcu.sess = sess
        BY <2>1, <3>1, Members DEF FinishedSent
      <4>2. Command("init", inits) \in Commands
        BY <1>1, <2>2, <2>5, <4>1 DEF Asked
      <4>3. Command("init", inits) \in Commands'
        BY <2>1, <4>1, <4>2, FieldsOfCommand
      <4> QED BY <2>1, <2>5, <4>1, <4>3
    <3>2. \A r \in Stream' : ~(r.sess = sess /\ r.msg = "finished")
      BY <2>3, <2>5, <3>1, FieldsOfRecord
    <3> QED BY <2>1, <2>5, <3>2 DEF Handshaking
  <2> QED BY <2>2, <2>4, <2>5 DEF Handshaking
<1> QED BY <1>2, <1>3, <1>4, <1>5 DEF Kinds

\* In a session that lost nothing every record decrypts.
LEMMA FirstDecrypts ==
  ASSUME Types, RecordsInv, Connected, Decrypting
  PROVE  /\ Decrypts(Head(tlsq)) /\ Head(tlsq).seq < mcu.sent
         /\ \A x \in Stream' : nextSeq + 1 <= x.seq
<1> DEFINE h == Head(tlsq)
<1>1. /\ h \in Stream /\ h.sess \in Nat /\ h.seq \in Nat
      /\ \A x \in Stream' : x \in Stream /\ Earlier(h, x) /\ x.seq \in Nat
      /\ \A x \in Stream : x = h \/ x \in Stream'
  BY FirstOfStream, Members
<1>2. /\ nextSeq \in Nat /\ mcu.sent \in Nat
  BY McuFields DEF Types, HostTypes
<1>3. /\ h.msg = "image" /\ h.sess = inits /\ nextSeq <= h.seq
      /\ mcu.sess = inits /\ sess = inits /\ ~broken
  BY <1>1 DEF Connected
<1>4. h.seq < mcu.sent
  BY <1>1, <1>3 DEF RecordsInv, ImageRecord
<1>5. PICK x \in Stream : x.seq = nextSeq
  <2>1. nextSeq \in nextSeq..mcu.sent - 1
    BY <1>1, <1>2, <1>3, <1>4
  <2> QED BY <2>1 DEF Connected
<1>6. \A y \in Stream' : h.seq < y.seq
  BY <1>1, <1>3 DEF Earlier, Connected
<1>7. h.seq = nextSeq
  BY <1>1, <1>2, <1>3, <1>5, <1>6
<1>8. \A y \in Stream' : nextSeq + 1 <= y.seq
  BY <1>1, <1>2, <1>6, <1>7
<1> QED BY <1>3, <1>4, <1>7, <1>8 DEF Decrypts

LEMMA ConnectedKept ==
  ASSUME Types, Types', StageInv, LineInv, Kinds, clean', SyncInv, tls' = "connected"
  PROVE  Connected'
<1>1. /\ RecordsInv /\ CommandsInv /\ SessionNumbers /\ McuType /\ inits \in Nat
      /\ sess \in Nat /\ mcu.sess \in Nat /\ mcu.sent \in Nat /\ nextSeq \in Nat
  BY McuFields DEF LineInv, NumbersInv, SessionNumbers, Types, LimitTypes, HostTypes
<1>2. CASE Idles \/ Loses \/ Requests
  <2>1. /\ UNCHANGED <<tls, sess, mcu, inits, nextSeq, broken>> /\ clean
        /\ Stream' = Stream
    BY <1>2 DEF Idles, Loses, Requests, SessionSame, CountsSame, StreamSame
  <2>2. Connected
    BY <2>1 DEF SyncInv
  <2> QED BY <2>1, <2>2 DEF Connected
<1>3. CASE Begins \/ Drops \/ Refuses
  BY <1>3 DEF Begins, Drops, Refuses
<1>4. CASE Answers
  <2> DEFINE h == Head(tlsq)
  <2>1. /\ tls = "connecting" /\ hs = "finished" /\ h.msg = "finished"
        /\ h.sess = sess /\ sess' = sess
        /\ Decrypting /\ mcu' = mcu /\ inits' = inits /\ nextSeq' = nextSeq
        /\ broken' = broken /\ clean' = clean
    BY <1>4 DEF Answers, Expects, CountsSame, StageInv
  <2>2. h \in Stream /\ \A x \in Stream' : x \in Stream /\ Earlier(h, x)
    BY <1>1, <2>1, FirstOfStream
  <2>3. /\ sess = inits /\ mcu.phase \in {"hello", "finished"}
        /\ \A r \in Stream : r.sess = sess /\ r.msg = "finished"
    BY <2>1, <2>2 DEF SyncInv, Handshaking
  <2>4. mcu.sess = inits
    BY <1>1, <2>3 DEF SessionNumbers
  <2>5. mcu.phase = "finished"
    BY <2>1, <2>2, <2>3, <2>4, <1>1 DEF RecordsInv, FlightRecord
  <2>6. Stream' = {}
    BY <1>1, <2>1, <2>2, <2>3 DEF Earlier
  <2>7. nextSeq = 0 /\ ~broken
    BY <2>1 DEF StageInv
  <2>8. mcu.sent = 0
    BY <1>1, <2>5 DEF SessionNumbers
  <2>9. nextSeq'..mcu'.sent - 1 = {}
    BY <2>1, <2>7, <2>8
  <2>10. ~broken'
    BY <2>1, <2>7
  <2>11. nextSeq' <= mcu'.sent
    BY <2>1, <2>7, <2>8
  <2> QED BY <2>1, <2>3, <2>4, <2>5, <2>6, <2>9, <2>10, <2>11 DEF Connected
<1>5. CASE Pulls
  <2>1. /\ UNCHANGED <<tls, sess, mcu, inits, clean>> /\ Decrypting
    BY <1>5 DEF Pulls, CountsSame
  <2>2. Connected
    BY <2>1 DEF SyncInv
  <2>3. /\ Decrypts(Head(tlsq)) /\ Head(tlsq).seq < mcu.sent
        /\ \A x \in Stream' : nextSeq + 1 <= x.seq
    BY <1>1, <2>1, <2>2, FirstDecrypts
  <2>4. nextSeq' = nextSeq + 1 /\ broken' = broken /\ Head(tlsq).seq = nextSeq
    BY <1>5, <2>3 DEF Pulls, Decrypts
  <2>5. /\ Stream' \subseteq Stream
        /\ \A x \in Stream : x = Head(tlsq) \/ x \in Stream'
    BY <1>1, <2>1, FirstOfStream
  <2>6. ASSUME NEW k \in nextSeq'..mcu'.sent - 1
        PROVE  \E r \in Stream' : r.seq = k
    <3>1. k \in nextSeq..mcu.sent - 1 /\ k # nextSeq
      BY <1>1, <2>1, <2>4
    <3>2. PICK r \in Stream : r.seq = k
      BY <2>2, <3>1 DEF Connected
    <3> QED BY <2>4, <2>5, <3>1, <3>2
  <2>7. ~broken'
    BY <2>2, <2>4 DEF Connected
  <2>8. nextSeq' <= mcu'.sent
    BY <1>1, <2>1, <2>3, <2>4
  <2>9. \A r \in Stream' : r.msg = "image" /\ r.sess = inits' /\ nextSeq' <= r.seq
    BY <2>1, <2>2, <2>3, <2>4, <2>5 DEF Connected
  <2>10. sess' = inits' /\ mcu'.sess = inits' /\ mcu'.phase # "hello"
    BY <2>1, <2>2 DEF Connected
  <2> QED BY <2>6, <2>7, <2>8, <2>9, <2>10 DEF Connected
<1>6. ASSUME NEW c \in Orders, Runs(c)
      PROVE  Connected'
  <2>1. c \in Commands /\ UNCHANGED <<tls, sess, inits, nextSeq, broken>>
    BY <1>6, FirstOfCommands DEF Runs, SessionSame, CountsSame
  <2>2. Connected
    BY <1>6, <2>1 DEF Runs, HelloSent, FinishedSent, PeerConnected, ImageSent,
                      Ignored, Arrives, SyncInv
  <2>3. ~HelloSent(c)
    BY <1>1, <2>1, <2>2, Members DEF HelloSent, CommandsInv, CommandOK, Connected
  <2>4. ~FinishedSent(c)
    BY <2>2 DEF FinishedSent, Connected
  <2>5. CASE PeerConnected(c) \/ Ignored(c)
    <3>1. /\ mcu'.sess = mcu.sess /\ mcu'.sent = mcu.sent
          /\ mcu'.phase = mcu.phase \/ mcu'.phase = "connected"
      BY <1>1, <2>5, McuFields DEF PeerConnected, Ignored
    <3>2. Stream' = Stream
      BY <2>5 DEF PeerConnected, Ignored, StreamSame
    <3> QED BY <2>1, <2>2, <3>1, <3>2 DEF Connected
  <2>6. CASE ImageSent(c)
    <3>. PICK m : m = Record("image", mcu.sess, mcu.sent, c.n)
      OBVIOUS
    <3>1. /\ mcu'.sess = mcu.sess /\ mcu'.sent = mcu.sent + 1
          /\ mcu'.phase = mcu.phase /\ Stream' = Stream \union {m}
      BY <1>1, <2>6, McuFields DEF ImageSent, Arrives, StreamGains
    <3>2. m.msg = "image" /\ m.sess = inits /\ m.seq = mcu.sent
      BY <2>2, FieldsOfRecord DEF Connected
    <3>3. nextSeq <= mcu.sent /\ nextSeq' = nextSeq
      BY <2>1, <2>2 DEF Connected
    <3>4. ASSUME NEW k \in nextSeq'..mcu'.sent - 1
          PROVE  \E r \in Stream' : r.seq = k
      <4>1. CASE k = mcu.sent
        BY <3>1, <3>2, <4>1
      <4>2. CASE k # mcu.sent
        <5>1. k \in nextSeq..mcu.sent - 1
          BY <1>1, <3>1, <3>3, <4>2
        <5> QED BY <2>2, <3>1, <5>1 DEF Connected
      <4> QED BY <4>1, <4>2
    <3>5. nextSeq' <= mcu'.sent
      BY <1>1, <3>1, <3>3
    <3>6. \A r \in Stream' : r.msg = "image" /\ r.sess = inits' /\ nextSeq' <= r.seq
      BY <2>1, <2>2, <3>1, <3>2, <3>3 DEF Connected
    <3>7. ~broken' /\ sess' = inits' /\ mcu'.sess = inits' /\ mcu'.phase # "hello"
      BY <2>1, <2>2, <3>1 DEF Connected
    <3> QED BY <3>4, <3>5, <3>6, <3>7 DEF Connected
  <2> QED BY <1>6, <2>3, <2>4, <2>5, <2>6 DEF Runs
<1> QED BY <1>2, <1>3, <1>4, <1>5, <1>6 DEF Kinds

LEMMA SyncInvKept ==
  ASSUME Types, Types', StageInv, LineInv, SyncInv, Kinds
  PROVE  SyncInv'
<1>1. clean' => Asked'
  BY AskedKept DEF SyncInv
<1> QED BY <1>1, HandshakingKept, ConnectedKept DEF SyncInv

LEMMA KeepsSyncKept ==
  ASSUME Types, StageInv, LineInv, SyncInv, KeepsSync, Kinds
  PROVE  KeepsSync'
<1>1. CASE Pulls
  <2>1. tls = "connected" /\ Decrypting /\ clean' = clean
    BY <1>1 DEF Pulls, StageInv
  <2>2. clean => Decrypts(Head(tlsq))
    BY <2>1, FirstDecrypts DEF LineInv, SyncInv
  <2>3. broken' = broken \/ ~clean
    BY <1>1, <2>2 DEF Pulls
  <2> QED BY <2>1, <2>3 DEF KeepsSync
<1>2. CASE Begins \/ Drops
  <2>1. broken' = FALSE
    BY <1>2 DEF Begins, Drops, BackendNew
  <2> QED BY <2>1 DEF KeepsSync
<1>3. CASE Idles \/ Loses \/ Answers \/ Refuses \/ Requests \/ \E c \in Orders : Runs(c)
  <2>1. broken' = broken
    BY <1>3 DEF Idles, Loses, Answers, Refuses, Requests, Runs, SessionSame
  <2>2. clean' => clean
    BY <1>3 DEF Idles, Loses, Answers, Refuses, Requests, Runs, HelloSent,
       FinishedSent, PeerConnected, ImageSent, Ignored, Arrives
  <2> QED BY <2>1, <2>2 DEF KeepsSync
<1> QED BY <1>1, <1>2, <1>3 DEF Kinds

-----------------------------------------------------------------------------
\* The image that is stored.
OwnImages == {x \in Images : x.sess = sess}

LEMMA ComingMembers ==
  /\ Coming \subseteq Nat
  /\ \A k : k \in Coming <=> \/ \E c \in Requested : k = c.n
                             \/ \E r \in OwnImages : k = r.req
<1>1. \A k : k \in Coming <=> \/ \E c \in Requested : k = c.n
                              \/ \E r \in OwnImages : k = r.req
  BY DEF Coming, OwnImages
<1> QED BY <1>1, Members DEF Requested, OwnImages, Images

LEMMA ComingLess ==
  ASSUME Types, LineInv,
         \/ Idles \/ Loses \/ Pulls \/ \E c \in Orders : Runs(c)
  PROVE  Coming' \subseteq Coming
<1>1. RecordsInv
  BY DEF LineInv
<1>2. CASE Idles \/ Loses \/ Pulls
  <2>1. sess' = sess /\ Stream' \subseteq Stream /\ Commands' \subseteq Commands
    BY <1>1, <1>2, FirstOfStream
    DEF Idles, Loses, Pulls, SessionSame, StreamSame, StreamLess, CommandsSame,
        CommandsLess
  <2> QED BY <2>1 DEF Coming, Requested, Images
<1>3. ASSUME NEW c \in Orders, Runs(c)
      PROVE  Coming' \subseteq Coming
  <2>1. c \in Commands /\ Commands' \subseteq Commands /\ sess' = sess
    BY <1>3, FirstOfCommands DEF Runs, SessionSame
  <2>2. Requested' \subseteq Requested
    BY <2>1 DEF Requested
  <2>3. ASSUME NEW r \in OwnImages'
        PROVE  r \in OwnImages \/ (c \in Requested /\ r.req = c.n)
    <3>1. r \in Stream' /\ r.msg = "image" /\ r.sess = sess
      BY <2>1, <2>3 DEF OwnImages, Images
    <3>2. CASE r \in Stream
      BY <3>1, <3>2 DEF OwnImages, Images
    <3>3. CASE r \notin Stream
      <4>1. CASE HelloSent(c) \/ FinishedSent(c)
        <5>1. PICK m : Arrives(m) /\ m.msg # "image"
          BY <4>1, FieldsOfRecord DEF HelloSent, FinishedSent
        <5> QED BY <3>1, <3>3, <5>1 DEF Arrives, StreamGains, StreamLess
      <4>2. CASE ImageSent(c)
        <5>1. Arrives(Record("image", mcu.sess, mcu.sent, c.n)) /\ c \in Requested
          BY <2>1, <4>2 DEF ImageSent, Requested
        <5>2. r = Record("image", mcu.sess, mcu.sent, c.n)
          BY <3>1, <3>3, <5>1 DEF Arrives, StreamGains, StreamLess
        <5> QED BY <5>1, <5>2, FieldsOfRecord
      <4>3. CASE PeerConnected(c) \/ Ignored(c)
        BY <3>1, <3>3, <4>3 DEF PeerConnected, Ignored, StreamSame
      <4> QED BY <1>3, <4>1, <4>2, <4>3 DEF Runs
    <3> QED BY <3>2, <3>3
  <2>4. Coming' = {x.n : x \in Requested'} \union {r.req : r \in OwnImages'}
    BY DEF Coming, OwnImages
  <2>5. Coming = {x.n : x \in Requested} \union {r.req : r \in OwnImages}
    BY DEF Coming, OwnImages
  <2> QED BY <2>2, <2>3, <2>4, <2>5
<1> QED BY <1>2, <1>3

\* A step that leaves the task where it was, or takes it to its next stage.
LEMMA LagSame ==
  ASSUME LagInv, tls' = tls, requests' = requests, givenUp' = givenUp,
         Coming' \subseteq Coming, have' = have \/ stage' \notin Asking,
         stage' \in Asking <=> stage \in Asking
  PROVE  LagInv'
BY DEF LagInv

\* The end of a task: its request is given up, or its image came.
LEMMA LagEnds ==
  ASSUME Types, StageInv, LagInv, NumbersInv, tls' \in {tls, "error"}, stage' = "none",
         requests' = requests, Coming' \subseteq Coming,
         givenUp' = IF stage \in {"referenceWait", "wait"} /\ have = 0
                    THEN givenUp + 1 ELSE givenUp
  PROVE  LagInv'
<1>1. SUFFICES ASSUME tls = "connected", tls' = "connected", NEW k \in Coming'
               PROVE  requests + 1 - k <= givenUp'
  BY DEF LagInv, Asking, Stores
<1>2. k \in Coming /\ k \in Nat
  BY <1>1, ComingMembers
<1>3. have \in Nat /\ givenUp \in Nat /\ requests \in Nat
  BY DEF Types, HostTypes, LimitTypes
<1>4. CASE stage \notin Asking
  <2>1. requests + 1 - k <= givenUp
    BY <1>1, <1>2, <1>4 DEF LagInv
  <2>2. givenUp' = givenUp
    BY <1>4 DEF Asking
  <2> QED BY <2>1, <2>2
<1>5. CASE stage \in Asking /\ have = 0
  <2>1. requests - k <= givenUp
    BY <1>1, <1>2, <1>5 DEF LagInv
  <2>2. givenUp' = givenUp + 1
    BY <1>5 DEF Asking, StageInv
  <2> QED BY <1>2, <1>3, <2>1, <2>2
<1>6. CASE stage \in Asking /\ have # 0
  <2>1. requests - have <= givenUp /\ have < k
    BY <1>1, <1>2, <1>6 DEF LagInv
  <2>2. givenUp' = givenUp
    BY <1>6
  <2> QED BY <1>2, <1>3, <2>1, <2>2
<1> QED BY <1>4, <1>5, <1>6

LEMMA LagInvKept ==
  ASSUME Types, Types', StageInv, LineInv, LagInv, [Next]_vars
  PROVE  LagInv'
<1>1. /\ RecordsInv /\ CommandsInv /\ FlightInv /\ NumbersInv
      /\ have \in Nat /\ givenUp \in Nat /\ requests \in Nat
  BY DEF LineInv, Types, HostTypes, LimitTypes
<1>2. CASE \/ Ask \/ StartTask \/ Setup \/ Feed \/ AcceptUp \/ AcceptEvent
           \/ TlsConnected \/ ImageSeen \/ UNCHANGED vars
  <2>1. Coming' \subseteq Coming
    BY <1>2, HostIdles, ComingLess
  <2>2. UNCHANGED <<tls, requests, givenUp, have>>
    BY <1>2
    DEF Ask, StartTask, Setup, Feed, AcceptUp, AcceptEvent, TlsConnected, ImageSeen
  <2>3. stage' \in Asking <=> stage \in Asking
    <3>1. CASE StartTask
      BY <3>1, StagesOfTask DEF StartTask, Start, StageInv, Asking, Stores
    <3>2. CASE Setup \/ AcceptUp \/ TlsConnected
      BY <3>2 DEF Setup, AcceptUp, TlsConnected, Asking, Stores
    <3>3. CASE AcceptEvent \/ ImageSeen
      BY <3>3 DEF AcceptEvent, Finishes, Leaves, ImageSeen, Asking, Stores
    <3>4. CASE Ask \/ Feed \/ UNCHANGED vars
      BY <3>4 DEF Ask, Feed
    <3> QED BY <1>2, <3>1, <3>2, <3>3, <3>4
  <2> QED BY <2>1, <2>2, <2>3, LagSame
<1>3. CASE McuRuns \/ McuReports \/ McuReportsOdd \/ LoseCommand
  <2>1. Coming' \subseteq Coming
    BY <1>3, McuRunsKind, McuKinds, ComingLess
  <2>2. UNCHANGED <<stage, tls, requests, givenUp, have>>
    BY <1>3 DEF McuRuns, McuReports, McuReportsOdd, LoseCommand
  <2> QED BY <2>1, <2>2, LagSame
<1>4. CASE Cancel \/ TimeOut \/ CallFails \/ FeedFails \/ PullFails
  <2>1. Coming' \subseteq Coming
    <3>1. CASE PullFails
      <4>1. Pulls
        <5>1. tls = "connected" /\ tls' = tls
          BY <3>1 DEF PullFails, StageInv
        <5> QED BY <3>1, <5>1, HostDecrypts DEF Answers, Refuses
      <4> QED BY <4>1, ComingLess
    <3>2. CASE Cancel \/ TimeOut \/ CallFails \/ FeedFails
      BY <3>2, HostIdles, ComingLess
    <3> QED BY <1>4, <3>1, <3>2
  <2>2. /\ tls' = tls /\ stage' = "none" /\ requests' = requests
        /\ givenUp' = IF stage \in {"referenceWait", "wait"} /\ have = 0
                      THEN givenUp + 1 ELSE givenUp
    BY <1>4 DEF Cancel, TimeOut, CallFails, FeedFails, PullFails, GivesUp, Leaves
  <2> QED BY <1>1, <2>1, <2>2, LagEnds
<1>5. CASE Store
  <2>1. Coming' \subseteq Coming
    BY <1>5, HostIdles, ComingLess
  <2>2. /\ tls' = tls /\ stage' = "none" /\ requests' = requests
        /\ givenUp' = givenUp /\ stage \in Stores
    BY <1>5 DEF Store, Finishes, Leaves
  <2>3. stage \notin {"referenceWait", "wait"}
    BY <2>2 DEF Stores
  <2> QED BY <1>1, <2>1, <2>2, <2>3, LagEnds
<1>6. CASE ImgOpen \/ ImgClose \/ ActivateFails \/ HandshakeFails
  BY <1>6
  DEF ImgOpen, ImgClose, ActivateFails, HandshakeFails, Connects, NewSession, LagInv
<1>7. CASE Activate
  <2>1. CASE Connects
    BY <2>1 DEF Connects, NewSession, LagInv
  <2>2. CASE UNCHANGED <<tlsVars, lineVars, toMcu, inits, limitVars, historyVars>>
    <3>1. UNCHANGED <<tlsq, wire, toMcu, sess, tls, requests, givenUp, have>>
      BY <1>7, <2>2 DEF Activate
    <3>2. StreamSame /\ CommandsSame
      BY <3>1, StreamKept, CommandsKept
    <3>3. Coming' \subseteq Coming
      BY <3>1, <3>2 DEF StreamSame, CommandsSame, Coming, Requested, Images
    <3>4. stage' \notin Asking /\ stage \notin Asking
      BY <1>7, StagesOfTask DEF Activate, Start, StageInv, Asking, Stores
    <3> QED BY <3>1, <3>3, <3>4, LagSame
  <2> QED BY <1>7, <2>1, <2>2 DEF Activate
<1>8. CASE Handshake
  <2>1. CASE tls' # "connected"
    BY <2>1 DEF LagInv
  <2>2. CASE tls' = "connected"
    <3> DEFINE h == Head(tlsq)
    <3>1. Answers
      BY <1>8, <2>2, HostDecrypts DEF Refuses, Pulls, Handshake
    <3>2. /\ tls = "connecting" /\ hs = "finished" /\ h.msg = "finished"
          /\ h.sess = sess /\ sess' = sess /\ Decrypting
          /\ CommandSent(Command("serverFinished", sess'))
      BY <2>2, <3>1 DEF Answers, Expects, StageInv
    <3>3. h \in Stream /\ \A x \in Stream' : x \in Stream /\ Earlier(h, x)
      BY <1>1, <3>2, FirstOfStream
    <3>4. Requested = {}
      BY <1>1, <3>2, <3>3 DEF FlightInv
    <3>5. Requested' = {}
      BY <3>2, <3>4, FieldsOfCommand DEF CommandSent, Requested
    <3>6. \A x \in Stream' : x.sess # sess'
      <4>1. sess \in Nat /\ \A x \in Stream' : sess < x.sess /\ x.sess \in Nat
        BY <3>2, <3>3, Members DEF Earlier, Types, HostTypes
      <4> QED BY <3>2, <4>1
    <3>7. Coming' = {}
      BY <3>5, <3>6 DEF Coming, Images
    <3>8. stage' \notin Asking
      BY <1>8 DEF Handshake, Asking, Stores
    <3> QED BY <3>7, <3>8 DEF LagInv
  <2> QED BY <2>1, <2>2
<1>9. CASE RequestImage
  <2>1. /\ tls' = tls /\ stage \notin Asking /\ stage' \in Asking /\ have' = 0
        /\ requests' = requests + 1 /\ givenUp' = givenUp
    BY <1>9 DEF RequestImage, SinkReset, Asking, Stores
  <2>2. Stream' = Stream /\ sess' = sess
        /\ Commands' = Commands \union {Command("getImage", requests + 1)}
    BY <1>9, HostRequests DEF Requests, StreamSame, CommandSent, SessionSame
  <2>3. \A k \in Coming' : k \in Coming \/ k = requests + 1
    BY <2>2, FieldsOfCommand DEF Coming, Requested, Images
  <2>4. ASSUME tls = "connected", NEW k \in Coming'
        PROVE  requests' - k <= givenUp'
    <3>1. CASE k \in Coming
      <4>1. requests + 1 - k <= givenUp
        BY <2>1, <2>4, <3>1 DEF LagInv
      <4>2. k \in Int /\ requests' = requests + 1 /\ givenUp' = givenUp
        BY <2>1, <3>1, ComingMembers
      <4> QED BY <1>1, <4>1, <4>2
    <3>2. CASE k = requests + 1
      BY <1>1, <2>1, <3>2
    <3> QED BY <2>3, <2>4, <3>1, <3>2
  <2> QED BY <2>1, <2>4 DEF LagInv
<1>10. CASE Pull
  <2> DEFINE h == Head(tlsq)
  <2>1. /\ UNCHANGED <<stage, tls, requests, givenUp, sess>> /\ stage \in Asking
        /\ h.msg = "image" /\ h.sess = sess
        /\ have' = IF have # 0 THEN have ELSE h.req
    BY <1>10 DEF Pull, Decrypts, KeepFirst, Asking
  <2>2. Decrypting /\ CommandsSame /\ Pulls
    BY <1>10, HostDecrypts DEF Pulls, Pull, Answers, Refuses, StageInv
  <2>3. Coming' \subseteq Coming
    BY <2>2, ComingLess
  <2>4. h \in Stream /\ \A x \in Stream' : x \in Stream /\ Earlier(h, x)
    BY <1>1, <2>2, FirstOfStream
  <2>5. h \in OwnImages /\ h.req \in Coming
    <3>1. h \in OwnImages
      BY <2>1, <2>4 DEF OwnImages, Images
    <3> QED BY <3>1, ComingMembers
  <2>6. ASSUME NEW k \in Coming'
        PROVE  h.req < k
    <3>1. CASE \E c \in Requested' : k = c.n
      BY <1>1, <2>1, <2>2, <2>4, <3>1
      DEF CommandsSame, Requested, CommandsInv, CommandOK, Images
    <3>2. CASE \E r \in OwnImages' : k = r.req
      <4>1. PICK r \in Stream' : r.sess = sess /\ r.msg = "image" /\ k = r.req
        BY <2>1, <3>2 DEF OwnImages, Images
      <4>2. r.sess \in Nat /\ Earlier(h, r)
        BY <2>4, <4>1, Members
      <4> QED BY <2>1, <4>1, <4>2 DEF Earlier
    <3>3. k \in {c.n : c \in Requested'} \union {r.req : r \in OwnImages'}
      BY <2>6 DEF Coming, OwnImages
    <3> QED BY <3>1, <3>2, <3>3
  <2>7. SUFFICES ASSUME tls = "connected"
                 PROVE  /\ \A k \in Coming' : requests - k <= givenUp
                        /\ have' # 0 => /\ requests - have' <= givenUp
                                        /\ \A k \in Coming' : have' < k
    BY <2>1 DEF LagInv
  <2>8. /\ \A k \in Coming : requests - k <= givenUp
        /\ have # 0 => /\ requests - have <= givenUp
                       /\ \A k \in Coming : have < k
    BY <2>1, <2>7 DEF LagInv
  <2> HIDE DEF h
  <2> QED BY <2>1, <2>3, <2>5, <2>6, <2>8
<1> QED
  BY <1>2, <1>3, <1>4, <1>5, <1>6, <1>7, <1>8, <1>9, <1>10 DEF Next, Begin, Task, Mcu

-----------------------------------------------------------------------------
\* The armings and the reports.
LEMMA QueueMembers ==
  ASSUME QueueTypes
  PROVE  /\ Items(wire) \subseteq TlsRecords \union Reports
         /\ Items(toMcu) \subseteq Armings \union Orders
<1>1. ASSUME NEW S, NEW q \in Seq(S)
      PROVE  Items(q) \subseteq S
  BY <1>1 DEF Items
<1> QED BY <1>1 DEF QueueTypes, Wires, Lines

ArmedLess ==
  ArmedOnTheWay' \subseteq ArmedOnTheWay /\ ArmedPairs' \subseteq ArmedPairs
ReportsLess ==
  ReportsOnTheWay' \subseteq ReportsOnTheWay /\ ReportPairs' \subseteq ReportPairs

LEMMA ArmedFewer ==
  ASSUME QueueTypes,
         \/ toMcu' = toMcu
         \/ toMcu # <<>> /\ toMcu' = Tail(toMcu)
         \/ \E c \in Orders : Sends(c)
  PROVE  ArmedLess
<1>1. CASE toMcu' = toMcu
  BY <1>1 DEF ArmedLess, ArmedOnTheWay, ArmedPairs
<1>2. CASE toMcu # <<>> /\ toMcu' = Tail(toMcu)
  BY <1>2, CommandTaken DEF ArmedLess, ArmedOnTheWay, ArmedPairs
<1>3. ASSUME NEW c \in Orders, Sends(c)
      PROVE  ArmedLess
  <2>1. /\ Items(toMcu') = Items(toMcu) \union {c}
        /\ Ahead(toMcu') = Ahead(toMcu) \union (Items(toMcu) \X {c})
        /\ c \notin Armings
    BY <1>3, CommandsAppend, MessageKinds DEF QueueTypes, Sends
  <2> QED BY <2>1 DEF ArmedLess, ArmedOnTheWay, ArmedPairs
<1> QED BY <1>1, <1>2, <1>3

LEMMA ReportsFewer ==
  ASSUME QueueTypes, 
         \/ wire' = wire
         \/ wire' = <<>>
         \/ wire # <<>> /\ wire' = Tail(wire)
         \/ UNCHANGED tlsq /\ \E r \in TlsRecords : Delivers(r)
  PROVE  ReportsLess
<1>1. CASE wire' = wire
  BY <1>1 DEF ReportsLess, ReportsOnTheWay, ReportPairs
<1>2. CASE wire' = <<>>
  BY <1>2, EmptyItems DEF ReportsLess, ReportsOnTheWay, ReportPairs
<1>3. CASE wire # <<>> /\ wire' = Tail(wire)
  <2>1. /\ Items(wire) = {Head(wire)} \union Items(wire')
        /\ Ahead(wire) = Ahead(wire') \union ({Head(wire)} \X Items(wire'))
    BY <1>3, TailItems DEF QueueTypes, Wires
  <2> QED BY <2>1 DEF ReportsLess, ReportsOnTheWay, ReportPairs
<1>4. ASSUME NEW r \in TlsRecords, Delivers(r), UNCHANGED tlsq
      PROVE  ReportsLess
  <2>1. CASE /\ Items(wire') = Items(wire) \union {r}
             /\ Ahead(wire') = Ahead(wire) \union (Items(wire) \X {r})
    <3>1. r \notin Reports
      BY MessageKinds
    <3> QED BY <2>1, <3>1 DEF ReportsLess, ReportsOnTheWay, ReportPairs
  <2> QED BY <1>1, <1>2, <1>4, <2>1, Delivered
<1> QED BY <1>1, <1>2, <1>3, <1>4

LEMMA NoTokenKept ==
  ASSUME NoToken, ArmedLess, ReportsLess, armed' = armed
  PROVE  NoToken'
BY DEF NoToken, ArmedLess, ReportsLess

LEMMA OneTokenKept ==
  ASSUME OneToken, ArmedLess, ReportsLess, armed' = armed, seen' = seen
  PROVE  OneToken'
BY DEF OneToken, NoToken, ArmedLess, ReportsLess

\* What a task leaves is as little as there was.
LEMMA NoTokenLeft ==
  ASSUME Types, NoToken, toMcu' = DisownedAll(toMcu), armed' = Disowned(armed),
         \/ wire' = DisownedAll(wire)
         \/ /\ wire # <<>> /\ Head(wire).kind = "fdt" /\ UNCHANGED tlsq
            /\ wire' = DisownedAll(Tail(wire))
  PROVE  NoToken'
<1>1. QueueTypes
  BY DEF Types
<1>2. /\ \A m \in Items(wire') : \E x \in Items(wire) : m = Disowned(x)
      /\ \A m \in Items(toMcu') : \E x \in Items(toMcu) : m = Disowned(x)
  BY <1>1, WireLeft, ReportLeft, CommandsLeft
<1>3. ReportsOnTheWay' = {}
  BY <1>1, <1>2, QueueMembers, MessageKinds DEF ReportsOnTheWay, NoToken
<1>4. ArmedOnTheWay' = {}
  BY <1>1, <1>2, QueueMembers, MessageKinds DEF ArmedOnTheWay, NoToken
<1>5. armed'.dir = "none"
  BY DEF NoToken, Disowned, Types, ArmedType
<1> QED BY <1>3, <1>4, <1>5 DEF NoToken

\* None is one at most; and one is sent, read or made where there was none.
LEMMA NoTokenOne ==
  ASSUME NoToken', seen' # "stale"
  PROVE  OneToken'
<1>1. /\ \A p \in Ahead(toMcu') : p \in Items(toMcu') \X Items(toMcu')
      /\ \A p \in Ahead(wire') : p \in Items(wire') \X Items(wire')
  BY AheadItems
<1> QED
  BY <1>1 DEF OneToken, NoToken, ArmedPairs, ReportPairs, ArmedOnTheWay, ReportsOnTheWay

LEMMA OneArming ==
  ASSUME Types, ArmedOnTheWay = {}, ReportsOnTheWay' = {}, armed'.dir = "none",
         seen' = "no", NEW c \in Armings, c.own, Sends(c)
  PROVE  OneToken'
<1>1. /\ Items(toMcu') = Items(toMcu) \union {c}
      /\ Ahead(toMcu') = Ahead(toMcu) \union (Items(toMcu) \X {c})
  BY ArmingSent DEF Types
<1>2. ArmedOnTheWay' = {c}
  BY <1>1 DEF ArmedOnTheWay
<1>3. ArmedPairs' = {}
  BY <1>1, AheadItems DEF ArmedPairs, ArmedOnTheWay
<1>4. ReportPairs' = {}
  <2>1. \A p \in Ahead(wire') : p \in Items(wire') \X Items(wire')
    BY AheadItems
  <2> QED BY <2>1 DEF ReportPairs, ReportsOnTheWay
<1> QED BY <1>2, <1>3, <1>4 DEF OneToken

LEMMA TokenFed ==
  ASSUME Types, StageInv, TokenInv, ~waitGivenUp, Feed
  PROVE  TokenInv'
<1> DEFINE r == Head(wire)
<1>1. /\ wire # <<>> /\ wire' = Tail(wire)
      /\ UNCHANGED <<stage, mode, armed, waitGivenUp>> /\ QueueTypes
  BY DEF Feed, Types
<1>2. /\ Items(wire) = {r} \union Items(wire')
      /\ Ahead(wire) = Ahead(wire') \union ({r} \X Items(wire'))
      /\ r \in TlsRecords \/ r \in Reports
  BY <1>1, TailItems DEF QueueTypes, Wires
<1>3. CASE r \in TlsRecords
  <2>1. UNCHANGED <<toMcu, seen>>
    BY <1>3, MessageKinds DEF Feed
  <2>2. ArmedLess /\ ReportsLess
    BY <1>1, <2>1, ArmedFewer, ReportsFewer
  <2> QED BY <1>1, <2>1, <2>2, NoTokenKept, OneTokenKept DEF TokenInv
<1>4. CASE r \in Reports
  <2>1. r \in ReportsOnTheWay
    BY <1>2, <1>4 DEF ReportsOnTheWay
  <2>2. stage \in Waits /\ OneToken
    BY <2>1 DEF TokenInv, NoToken
  <2>3. armed.dir = "none" /\ ArmedOnTheWay = {} /\ seen = "no" /\ r.own
    BY <2>1, <2>2 DEF OneToken, NoToken
  <2>4. ReportsOnTheWay' = {}
    <3>1. \A x \in Items(wire') : x \in Reports => <<r, x>> \in ReportPairs
      BY <1>2, <1>4 DEF ReportPairs
    <3> QED BY <2>2, <3>1 DEF OneToken, ReportsOnTheWay
  <2>5. r.kind # "tls"
    BY <1>4, MessageKinds
  <2>6. CASE Rearms(r)
    <3>1. Sends(Arming(mode)) /\ mode \in {"down", "up"}
      BY <2>5, <2>6 DEF Feed, Rearms, Types, TaskTypes
    <3>2. ~(r.valid /\ r.status \in Wanted)
      BY <2>2, <2>6 DEF Rearms, Wanted, StageInv
    <3>3. seen' = "no"
      BY <2>3, <2>5, <3>2 DEF Feed
    <3>4. Arming(mode) \in Armings /\ Arming(mode).own
      BY <3>1, OrderTypes DEF Arming
    <3>5. OneToken'
      BY <1>1, <2>3, <2>4, <3>1, <3>3, <3>4, OneArming
    <3> QED BY <1>1, <2>2, <3>5 DEF TokenInv
  <2>7. CASE ~Rearms(r)
    <3>1. UNCHANGED toMcu /\ seen' \in {"no", "own"}
      BY <2>3, <2>5, <2>7 DEF Feed
    <3>2. NoToken'
      BY <1>1, <2>3, <2>4, <3>1 DEF NoToken, ArmedOnTheWay
    <3>3. OneToken'
      BY <3>1, <3>2, NoTokenOne
    <3> QED BY <1>1, <2>2, <3>3 DEF TokenInv
  <2> QED BY <2>6, <2>7
<1> QED BY <1>2, <1>3, <1>4

LEMMA TokenReported ==
  ASSUME Types, TokenInv, ~waitGivenUp, McuReports \/ McuReportsOdd
  PROVE  TokenInv'
<1>1. /\ armed.dir # "none" /\ armed' = Disarmed
      /\ UNCHANGED <<stage, seen, toMcu, tlsq, waitGivenUp>> /\ QueueTypes
  BY DEF McuReports, McuReportsOdd, Types
<1>2. stage \in Waits /\ OneToken
  BY <1>1 DEF TokenInv, NoToken
<1>3. /\ armed.own /\ ArmedOnTheWay = {} /\ ReportsOnTheWay = {} /\ seen = "no"
  BY <1>1, <1>2 DEF OneToken, NoToken
<1>4. PICK r \in Reports : Delivers(r) /\ r.own
  <2>1. armed.dir \in {"down", "up"} /\ armed.own \in BOOLEAN
    BY <1>1 DEF Types, ArmedType
  <2>2. /\ Report(armed.dir, TRUE, armed.own) \in Reports
        /\ Report("reverse", TRUE, armed.own) \in Reports
        /\ Report(armed.dir, FALSE, armed.own) \in Reports
    BY <2>1, ReportTypes
  <2>3. \A s, v : Report(s, v, armed.own).own = armed.own
    BY DEF Report
  <2> QED BY <1>3, <2>2, <2>3 DEF McuReports, McuReportsOdd
<1>5. \/ /\ Items(wire') = Items(wire) \union {r}
         /\ Ahead(wire') = Ahead(wire) \union (Items(wire) \X {r})
      \/ wire' = <<>> \/ wire' = wire
  BY <1>1, <1>4, Delivered
<1>6. ArmedOnTheWay' = {} /\ ArmedPairs' = {}
  BY <1>1, <1>2, <1>3 DEF ArmedOnTheWay, ArmedPairs, OneToken
<1>7. armed'.dir = "none"
  BY <1>1 DEF Disarmed
<1>8. (ReportsOnTheWay' = {} \/ ReportsOnTheWay' = {r}) /\ ReportPairs' = {}
  <2>1. CASE /\ Items(wire') = Items(wire) \union {r}
             /\ Ahead(wire') = Ahead(wire) \union (Items(wire) \X {r})
    BY <1>2, <1>3, <1>4, <2>1 DEF ReportsOnTheWay, ReportPairs, OneToken
  <2>2. CASE wire' = <<>>
    BY <2>2, EmptyItems DEF ReportsOnTheWay, ReportPairs
  <2>3. CASE wire' = wire
    BY <1>2, <1>3, <2>3 DEF ReportsOnTheWay, ReportPairs, OneToken
  <2> QED BY <1>5, <2>1, <2>2, <2>3
<1>9. OneToken'
  BY <1>1, <1>3, <1>4, <1>6, <1>7, <1>8 DEF OneToken
<1> QED BY <1>1, <1>2, <1>9 DEF TokenInv

LEMMA TokenTaken ==
  ASSUME Types, TokenInv, ~waitGivenUp, McuRuns
  PROVE  TokenInv'
<1> DEFINE c == Head(toMcu)
<1>1. /\ toMcu # <<>> /\ toMcu' = Tail(toMcu) /\ QueueTypes
      /\ UNCHANGED <<stage, seen, tlsq, waitGivenUp>>
  BY DEF McuRuns, Types
<1>2. /\ c \in Armings \/ c \in Orders
      /\ Items(toMcu) = {c} \union Items(toMcu')
      /\ Ahead(toMcu) = Ahead(toMcu') \union ({c} \X Items(toMcu'))
  BY <1>1, CommandTaken
<1>3. /\ c \in Armings => c.name = "arm"
      /\ c \in Orders => c.name # "arm" /\ c.n \in Nat
  BY <1>1, HeadTypes
<1>4. CASE c \in Armings
  <2>1. c \in ArmedOnTheWay
    BY <1>2, <1>4 DEF ArmedOnTheWay
  <2>2. stage \in Waits /\ OneToken
    BY <2>1 DEF TokenInv, NoToken
  <2>3. c.own /\ ReportsOnTheWay = {} /\ seen = "no"
    BY <2>1, <2>2 DEF OneToken, NoToken
  <2>4. armed' = [dir |-> c.dir, own |-> c.own] /\ UNCHANGED wire
    BY <1>3, <1>4 DEF McuRuns, Quiet
  <2>5. ArmedOnTheWay' = {}
    <3>1. \A x \in Items(toMcu') : x \in Armings => <<c, x>> \in ArmedPairs
      BY <1>2, <1>4 DEF ArmedPairs
    <3> QED BY <2>2, <3>1 DEF OneToken, ArmedOnTheWay
  <2>6. ArmedPairs' = {}
    BY <1>2, <2>2 DEF ArmedPairs, OneToken
  <2>7. ReportsOnTheWay' = {} /\ ReportPairs' = {}
    BY <2>2, <2>3, <2>4 DEF ReportsOnTheWay, ReportPairs, OneToken
  <2>8. armed'.own
    BY <2>3, <2>4
  <2>9. OneToken'
    BY <1>1, <2>3, <2>5, <2>6, <2>7, <2>8 DEF OneToken
  <2> QED BY <1>1, <2>2, <2>9 DEF TokenInv
<1>5. CASE c \in Orders
  <2>1. armed' = armed
    BY <1>3, <1>5 DEF McuRuns
  <2>2. UNCHANGED wire \/ \E r \in TlsRecords : Delivers(r)
    <3>1. mcu.sess \in Nat /\ mcu.sent \in Nat /\ c.n \in Nat
      BY <1>3, <1>5, McuFields DEF Types
    <3>2. /\ Record("hello", c.n, 0, 0) \in TlsRecords
          /\ Record("finished", c.n, 0, 0) \in TlsRecords
          /\ Record("image", mcu.sess, mcu.sent, c.n) \in TlsRecords
      BY <3>1, RecordTypes
    <3> QED BY <3>2 DEF McuRuns, Quiet
  <2>3. ArmedLess /\ ReportsLess
    BY <1>1, <2>2, ArmedFewer, ReportsFewer
  <2> QED BY <1>1, <2>1, <2>3, NoTokenKept, OneTokenKept DEF TokenInv
<1> QED BY <1>2, <1>4, <1>5

LEMMA TokenInvKept ==
  ASSUME Types, StageInv, TokenInv, [Next]_vars
  PROVE  TokenInv'
<1>1. SUFFICES ASSUME ~waitGivenUp'
               PROVE  TokenInv'
  BY DEF TokenInv
<1>2. QueueTypes
  BY DEF Types
<1>3. CASE \/ ImgClose \/ Ask \/ StartTask \/ TlsConnected \/ ImageSeen \/ Pull
           \/ UNCHANGED vars
  <2>1. UNCHANGED <<wire, toMcu, armed, seen, waitGivenUp>>
    BY <1>3 DEF ImgClose, Ask, StartTask, TlsConnected, ImageSeen, Pull
  <2>2. stage' \in Waits <=> stage \in Waits
    <3>1. CASE StartTask
      BY <3>1, StagesOfTask DEF StartTask, Start, StageInv, Waits
    <3>2. CASE TlsConnected \/ ImageSeen
      BY <3>2 DEF TlsConnected, ImageSeen, Waits
    <3>3. CASE ImgClose \/ Ask \/ Pull \/ UNCHANGED vars
      BY <3>3 DEF ImgClose, Ask, Pull
    <3> QED BY <1>3, <3>1, <3>2, <3>3
  <2>3. ArmedLess /\ ReportsLess
    BY <1>2, <2>1, ArmedFewer, ReportsFewer
  <2> QED BY <1>1, <2>1, <2>2, <2>3, NoTokenKept, OneTokenKept DEF TokenInv
<1>4. CASE ImgOpen \/ Activate \/ ActivateFails
  <2>1. /\ UNCHANGED <<armed, seen, waitGivenUp>> /\ (wire' = wire \/ wire' = <<>>)
        /\ toMcu' = toMcu \/ Sends(Command("init", inits + 1))
    BY <1>4 DEF ImgOpen, Activate, ActivateFails, Connects, NewSession
  <2>2. Command("init", inits + 1) \in Orders
    <3>1. inits + 1 \in Nat
      BY DEF Types, LimitTypes
    <3> QED BY <3>1, OrderTypes
  <2>3. ArmedLess /\ ReportsLess
    BY <1>2, <2>1, <2>2, ArmedFewer, ReportsFewer
  <2>4. stage \notin Waits /\ stage' \notin Waits
    <3>1. CASE ImgOpen
      BY <3>1, StagesOfTask DEF ImgOpen, Open, AtRest, StageInv, Waits
    <3>2. CASE Activate
      BY <3>2, StagesOfTask DEF Activate, Start, StageInv, Waits
    <3>3. CASE ActivateFails
      BY <3>3 DEF ActivateFails, Keeps, StageInv, Waits
    <3> QED BY <1>4, <3>1, <3>2, <3>3
  <2> QED BY <1>1, <2>1, <2>3, <2>4, NoTokenKept DEF TokenInv
<1>5. CASE Handshake \/ RequestImage
  <2>1. UNCHANGED <<wire, armed, seen, waitGivenUp>>
    BY <1>5 DEF Handshake, RequestImage
  <2>2. \E c \in Orders : Sends(c)
    <3>1. CASE Handshake
      <4>1. Head(tlsq).sess \in Nat
        BY <1>2, <3>1, HeadTypes DEF Handshake
      <4>2. /\ Command("serverFlight", Head(tlsq).sess) \in Orders
            /\ Command("serverFinished", Head(tlsq).sess) \in Orders
        BY <4>1, OrderTypes
      <4> QED BY <3>1, <4>2 DEF Handshake
    <3>2. CASE RequestImage
      <4>1. requests + 1 \in Nat
        BY DEF Types, LimitTypes
      <4>2. Command("getImage", requests + 1) \in Orders
        BY <4>1, OrderTypes
      <4> QED BY <3>2, <4>2 DEF RequestImage
    <3> QED BY <1>5, <3>1, <3>2
  <2>3. ArmedLess /\ ReportsLess
    BY <1>2, <2>1, <2>2, ArmedFewer, ReportsFewer
  <2>4. stage \notin Waits /\ stage' \notin Waits
    BY <1>5 DEF Handshake, RequestImage, Waits
  <2> QED BY <1>1, <2>1, <2>3, <2>4, NoTokenKept DEF TokenInv
<1>6. CASE AcceptUp
  <2>1. /\ UNCHANGED <<wire, toMcu, armed, waitGivenUp>>
        /\ stage \in Waits /\ seen # "no" /\ stage' \notin Waits
    BY <1>6 DEF AcceptUp, Waits
  <2>2. NoToken
    BY <1>1, <2>1 DEF TokenInv, OneToken
  <2>3. ArmedLess /\ ReportsLess
    BY <1>2, <2>1, ArmedFewer, ReportsFewer
  <2> QED BY <2>1, <2>2, <2>3, NoTokenKept DEF TokenInv
<1>7. CASE \/ Cancel \/ TimeOut \/ CallFails \/ FeedFails \/ HandshakeFails
           \/ PullFails \/ AcceptEvent \/ Store
  <2>1. /\ toMcu' = DisownedAll(toMcu) /\ armed' = Disowned(armed)
        /\ stage' = "none"
        /\ \/ wire' = DisownedAll(wire)
           \/ /\ wire # <<>> /\ Head(wire).kind = "fdt" /\ UNCHANGED tlsq
              /\ wire' = DisownedAll(Tail(wire))
    BY <1>7
    DEF Cancel, TimeOut, CallFails, FeedFails, HandshakeFails, PullFails, AcceptEvent,
        Store, GivesUp, Finishes, Leaves
  <2>2. NoToken
    <3>1. CASE stage \in Waits
      <4>1. CASE AcceptEvent
        BY <1>1, <3>1, <4>1 DEF AcceptEvent, TokenInv, OneToken
      <4>2. CASE Store
        BY <3>1, <4>2 DEF Store, Stores, Waits
      <4>3. CASE ~(AcceptEvent \/ Store)
        <5>1. waitGivenUp' = (waitGivenUp \/ (stage \in Waits /\ seen = "no"))
          BY <1>7, <4>3
          DEF Cancel, TimeOut, CallFails, FeedFails, HandshakeFails, PullFails, GivesUp,
              Waits
        <5> QED BY <1>1, <3>1, <5>1 DEF TokenInv, OneToken
      <4> QED BY <4>1, <4>2, <4>3
    <3>2. CASE stage \notin Waits
      <4>1. ~waitGivenUp
        BY <1>1, <1>7
        DEF Cancel, TimeOut, CallFails, FeedFails, HandshakeFails, PullFails,
            AcceptEvent, Store, GivesUp
      <4> QED BY <3>2, <4>1 DEF TokenInv
    <3> QED BY <3>1, <3>2
  <2>3. NoToken'
    BY <2>1, <2>2, NoTokenLeft
  <2> QED BY <2>1, <2>3 DEF TokenInv, Waits
<1>8. CASE Setup
  <2>1. /\ stage \notin Waits /\ stage' \in Waits /\ ~waitGivenUp
        /\ UNCHANGED <<wire, armed, seen>>
        /\ UNCHANGED toMcu \/ Sends(Arming(Direction))
    BY <1>1, <1>8 DEF Setup, Waits
  <2>2. NoToken /\ seen = "no"
    BY <2>1 DEF TokenInv, StageInv
  <2>3. CASE UNCHANGED toMcu
    <3>1. NoToken'
      BY <2>1, <2>2, <2>3 DEF NoToken, ArmedOnTheWay, ReportsOnTheWay
    <3> QED BY <2>1, <2>2, <3>1, NoTokenOne DEF TokenInv
  <2>4. CASE Sends(Arming(Direction))
    <3>1. PICK c \in Armings : c.own /\ Sends(c)
      BY <2>4, OrderTypes DEF Direction, Arming
    <3>2. /\ ArmedOnTheWay = {} /\ ReportsOnTheWay' = {} /\ armed'.dir = "none"
          /\ seen' = "no"
      BY <2>1, <2>2 DEF NoToken, ReportsOnTheWay
    <3>3. OneToken'
      BY <3>1, <3>2, OneArming
    <3> QED BY <2>1, <3>3 DEF TokenInv
  <2> QED BY <2>1, <2>3, <2>4
<1>9. CASE Feed
  BY <1>1, <1>9, TokenFed DEF Feed
<1>10. CASE McuRuns
  BY <1>1, <1>10, TokenTaken DEF McuRuns
<1>11. CASE McuReports \/ McuReportsOdd
  <2>1. ~waitGivenUp
    BY <1>1, <1>11 DEF McuReports, McuReportsOdd
  <2> QED BY <1>11, <2>1, TokenReported
<1>12. CASE LoseCommand
  <2>1. /\ UNCHANGED <<wire, armed, seen, stage, waitGivenUp>>
        /\ toMcu # <<>> /\ toMcu' = Tail(toMcu)
    BY <1>12 DEF LoseCommand
  <2>2. ArmedLess /\ ReportsLess
    BY <1>2, <2>1, ArmedFewer, ReportsFewer
  <2> QED BY <1>1, <2>1, <2>2, NoTokenKept, OneTokenKept DEF TokenInv
<1> QED
  BY <1>3, <1>4, <1>5, <1>6, <1>7, <1>8, <1>9, <1>10, <1>11, <1>12
  DEF Next, Begin, Task, Mcu

-----------------------------------------------------------------------------
\* The invariant, and what follows from it.
LEMMA IInvInitially ==
  ASSUME Init
  PROVE  IInv /\ KeepsSync
<1>1. Types
  BY TypesInitially
<1>2. StageInv
  BY StagesOfTask DEF Init, TaskInit, StageInv, Waits, Stores
<1>3. Items(wire) = {} /\ Items(toMcu) = {} /\ Items(tlsq) = {}
      /\ Ahead(wire) = {} /\ Ahead(toMcu) = {} /\ Ahead(tlsq) = {}
  BY EmptyItems DEF Init
<1>4. Stream = {} /\ StreamOrder = {} /\ Commands = {} /\ CommandOrder = {}
  BY <1>3 DEF Stream, StreamIn, StreamOrder, StreamOrderIn, Commands, CommandsIn,
              CommandOrder, CommandOrderIn
<1>5. NumbersInv
  BY DEF Init, NumbersInv
<1>6. LineInv
  BY <1>4, <1>5 DEF Init, LineInv, RecordsInv, CommandsInv, FlightInv
<1>7. SyncInv
  BY DEF Init, SyncInv, Asked
<1>8. LagInv
  BY DEF Init, LagInv
<1>9. TokenInv
  BY <1>3 DEF Init, TokenInv, NoToken, ArmedOnTheWay, ReportsOnTheWay, Waits, Disarmed
<1>10. KeepsSync
  BY DEF Init, KeepsSync
<1> QED BY <1>1, <1>2, <1>6, <1>7, <1>8, <1>9, <1>10 DEF IInv

LEMMA IInvKept ==
  ASSUME IInv, KeepsSync, [Next]_vars
  PROVE  IInv' /\ KeepsSync'
<1>1. Types /\ StageInv /\ LineInv /\ SyncInv /\ LagInv /\ TokenInv
  BY DEF IInv
<1>2. QueueTypes' /\ Kinds
  BY <1>1, StepKinds
<1>3. Types'
  BY <1>1, <1>2, TaskTypesKept, HostTypesKept, LimitTypesKept, SensorTypesKept
  DEF Types
<1>4. StageInv' /\ LineInv'
  BY <1>1, <1>2, <1>3, StageInvKept, LineInvKept
<1>5. SyncInv' /\ KeepsSync'
  BY <1>1, <1>2, <1>3, SyncInvKept, KeepsSyncKept
<1>6. LagInv' /\ TokenInv'
  BY <1>1, <1>3, LagInvKept, TokenInvKept
<1> QED BY <1>3, <1>4, <1>5, <1>6 DEF IInv

\* The invariant holds in every reachable state: whatever is lost, cancelled or
\* given up, the records and commands on the way keep the order the handlers
\* of the TLS session and the touch flow rely on.
THEOREM Invariance == Spec => [](IInv /\ KeepsSync)
<1>1. Init => IInv /\ KeepsSync
  BY IInvInitially
<1>2. IInv /\ KeepsSync /\ [Next]_vars => (IInv /\ KeepsSync)'
  BY IInvKept
<1> QED BY <1>1, <1>2, PTL DEF Spec

\* Every variable keeps to its values, and the sessions, requests, images and
\* those given up are no more than were made (gxfp_rearm_tls,
\* gxfp_cmd_get_image).
THEOREM TypeCorrect == Spec => []TypeOK
<1>1. IInv => TypeOK
  <2> SUFFICES ASSUME IInv PROVE TypeOK
    OBVIOUS
  <2>1. TaskTypes /\ HostTypes /\ LimitTypes /\ McuType /\ ArmedType /\ NumbersInv
    BY DEF IInv, Types, LineInv
  <2>2. /\ isOpen \in BOOLEAN /\ active \in BOOLEAN
        /\ {due, task} \subseteq DOMAIN After \union {"none"}
        /\ stage \in Polls \union {"none", "upSetup", "referenceStart",
                                   "referenceStore", "setup", "start", "store"}
        /\ seen \in {"no", "own", "stale"} /\ mode \in {"idle", "down", "up"}
    BY <2>1 DEF TaskTypes
  <2>3. /\ tls \in {"none", "connecting", "connected", "error"}
        /\ hs \in {"hello", "finished", "done"}
        /\ {broken, overflow, waitGivenUp, clean} \subseteq BOOLEAN
    BY <2>1 DEF HostTypes
  <2>4. /\ MaxInits \in Nat /\ MaxRequests \in Nat /\ MaxFaults \in Nat
        /\ MaxOdd \in Nat
    BY SessionAssumption DEF SessionAssumption
  <2>5. /\ inits \in 0..MaxInits /\ requests \in 0..MaxRequests
        /\ faults \in 0..MaxFaults /\ odd \in 0..MaxOdd
    BY <2>1, <2>4 DEF LimitTypes
  <2>6. /\ sess \in 0..MaxInits /\ nextSeq \in 0..MaxRequests
        /\ have \in 0..MaxRequests /\ givenUp \in 0..MaxRequests
    <3>1. /\ sess \in Nat /\ nextSeq \in Nat /\ have \in Nat /\ givenUp \in Nat
          /\ mcu.sess \in Nat
      BY <2>1, McuFields DEF HostTypes
    <3>2. /\ sess <= mcu.sess /\ mcu.sess <= inits /\ nextSeq <= requests
          /\ have <= requests /\ givenUp <= requests
      BY <2>1 DEF NumbersInv
    <3> QED BY <2>4, <2>5, <3>1, <3>2
  <2>7. mcu.phase \in {"off", "hello", "finished", "connected"}
    BY <2>1 DEF McuType, McuStates
  <2>8. armed.dir \in {"none", "down", "up"}
    BY <2>1 DEF ArmedType
  <2> QED BY <2>2, <2>3, <2>5, <2>6, <2>7, <2>8 DEF TypeOK
<1> QED BY <1>1, Invariance, PTL

\* The image that is stored is older than its request by no more requests
\* than this session gave up: images and requests are only matched by their
\* order (GXFP_CAPTURE_START, gxfp_pull_plain).
THEOREM ImageLagHolds == Spec => []ImageLag
<1>1. IInv => ImageLag
  BY DEF IInv, StageInv, LagInv, ImageLag, Asking, Stores
<1> QED BY <1>1, Invariance, PTL

\* The report a task acts on answers an arming of its own, unless a wait was
\* given up before: between waits nothing armed is on its way, and in one
\* there is one arming or one report (gxfp_fdt_flow_feed_record).
THEOREM OwnReportHolds == Spec => []OwnReport
<1>1. IInv => OwnReport
  BY DEF IInv, StageInv, TokenInv, OneToken, OwnReport, Types, TaskTypes
<1> QED BY <1>1, Invariance, PTL

\* A session that lost nothing decrypts every record: what comes to the
\* backend are the images of this session, from the next on and without a
\* gap (gxfp_poll_records, gxfp_rearm_tls).
THEOREM KeepsSyncHolds == Spec => []KeepsSync
BY Invariance, PTL

=============================================================================
