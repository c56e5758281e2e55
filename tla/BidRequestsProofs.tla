---------------------------- MODULE BidRequestsProofs ----------------------------
(***************************************************************************)
(* What the gateway guarantees of a bid for any number of requests,        *)
(* bidders and faults, and for any limits: the semaphore, the rate limits  *)
(* and the wait for the acknowledgement whenever Redis is lost, and one    *)
(* decision for each bid when it is lost only once all is settled.         *)
(***************************************************************************)
EXTENDS BidRequests, FiniteSetTheorems, TLAPS

-----------------------------------------------------------------------------
(* The inductive invariants *)

Steps == {"new", "user", "auction", "permit", "done"} \cup Holding

RequestState ==
  [pc : Steps, bidder : Bidders \cup {None}, at : Nat, snap : Nat \cup {None},
   latch : {None, "acked", "failed"}, answer : {None, "acked", "durable"}]

Decision == [seq : Nat, bidder : Bidders]

Keys == Bidders \cup {Auction}

RequestTypes ==
  /\ now \in Nat
  /\ tat \in [Keys -> Nat] /\ admitted \in [Keys -> Seq(Nat)]
  /\ request \in [Requests -> RequestState]
  /\ hot = None \/ hot \in [seq : Nat, paused : BOOLEAN]
  /\ idem \subseteq Bidders /\ acked \subseteq Bidders
  /\ stream \in Seq(Decision) /\ kafka \in Seq(Decision) /\ issued \in Seq(Decision)
  /\ settled \in Nat /\ settled <= Len(kafka)
  /\ Len(kafka) + Len(stream) <= Len(issued)
  /\ spent \in Nat

\* A request has its bidder from its admission on.
BiddersKnown ==
  \A q \in Requests : /\ At(q, "new") => request[q].latch = None /\ request[q].answer = None
                      /\ ~At(q, "new") => Bidder(q) \in Bidders

Holders == {q \in Requests : request[q].pc \in Holding}

\* The requests past the semaphore are finitely many, and have the permits.
PermitsKept == IsFiniteSet(Holders) /\ inUse = Cardinality(Holders) /\ inUse <= InFlight

InLog(log, b) == \E i \in 1 .. Len(log) : log[i].bidder = b

\* Records, latches and answers say ACKED of what is in Kafka only.
AcksFollowKafka ==
  /\ \A b \in acked : InLog(kafka, b)
  /\ \A q \in Requests : request[q].latch = "acked" \/ request[q].answer = "acked" => InLog(kafka, Bidder(q))
  /\ spent = 0 => \A q \in Requests : request[q].latch # "failed"
  /\ NoLostWakeup

\* The calls of the sequence s that have a time in T.
In(s, T) == {i \in 1 .. Len(s) : s[i] \in T}

After(a) == {t \in Nat : t >= a}

\* How many calls the limiter key k has let through since a.
Since(k, a) == Cardinality(In(admitted[k], After(a)))

\* Each call let through since a has pushed the arrival time one emission
\* interval further.
TatCounts ==
  \A k \in Keys, a \in Nat :
    Since(k, a) > 0 => tat[k] >= a + Since(k, a) * Emission(LimitOf(k))

LossyInv ==
  /\ RequestTypes
  /\ BiddersKnown
  /\ PermitsKept
  /\ AcksFollowKafka
  /\ TatCounts
  /\ RateBounded

\* The hot state counts the decisions and knows their bidders; without one,
\* PostgreSQL has every decision.
StateIsIssued ==
  /\ \A i \in DOMAIN issued : issued[i].seq = i
  /\ hot = None => settled = Len(issued)
  /\ hot # None => hot.seq = Len(issued) /\ \A i \in DOMAIN issued : issued[i].bidder \in idem

\* A snapshot that reaches the script is of an auction that decided nothing,
\* unless the hot state is back.
SnapshotsAreEmpty ==
  \A q \in Requests :
    /\ At(q, "script") /\ request[q].snap # None =>
         request[q].snap = 0 /\ (hot = None => issued = <<>>)
    /\ request[q].pc \in {"new", "user", "auction", "permit", "acl"} => request[q].snap = None

DecisionsInv == LossyInv /\ StateIsIssued /\ SnapshotsAreEmpty /\ DecidedOnce

-----------------------------------------------------------------------------
(* The rate limits *)

\* The spacing of calls is positive, whatever the limits.
LEMMA EmissionIsPositive ==
  ASSUME NEW k
  PROVE  Emission(LimitOf(k)) \in Nat \ {0} /\ LimitOf(k) \in Nat \ {0}
<1>1. LimitOf(k) \in Nat \ {0} /\ Window \in Nat
  BY BidRequestsAssumption DEF LimitOf
<1>2. Window \div LimitOf(k) \in Int
  BY <1>1
<1> QED
  BY <1>1, <1>2 DEF Emission

\* As many intervals as fit.
LEMMA DivAtLeast ==
  ASSUME NEW n \in Int, NEW y \in Nat, NEW e \in Nat \ {0}, n * e <= y
  PROVE  n <= y \div e
<1> DEFINE q == y \div e
<1>1. q \in Int /\ y < (q + 1) * e
  OBVIOUS
<1> HIDE DEF q
<1>2. SUFFICES ASSUME n >= q + 1 PROVE FALSE
  BY <1>1 DEF q
<1>3. n * e >= (q + 1) * e
  BY <1>1, <1>2
<1> QED
  BY <1>1, <1>3

\* Multiples of an interval.
LEMMA Multiples ==
  ASSUME NEW n \in Int, NEW l \in Int, NEW e \in Int
  PROVE  /\ n * e \in Int /\ l * e \in Int
         /\ (n + 1) * e = n * e + e /\ (l - 1) * e = l * e - e
         /\ ((n + 1) - l) * e = n * e + e - l * e
OBVIOUS

\* A call more is one more in each set of times it is in.
LEMMA OneCallMore ==
  ASSUME NEW s \in Seq(Nat), NEW at \in Nat, NEW T
  PROVE  /\ Cardinality(In(s, T)) \in Nat
         /\ at \in T => Cardinality(In(Append(s, at), T)) = Cardinality(In(s, T)) + 1
         /\ at \notin T => In(Append(s, at), T) = In(s, T)
<1> DEFINE t == Append(s, at)
           new == Len(s) + 1
<1>1. Len(s) \in Nat /\ Len(t) = new /\ t[new] = at /\ \A i \in 1 .. Len(s) : t[i] = s[i]
  OBVIOUS
<1>2. IsFiniteSet(In(s, T)) /\ Cardinality(In(s, T)) \in Nat
  <2>1. In(s, T) \subseteq 1 .. Len(s)
    BY DEF In
  <2>2. IsFiniteSet(1 .. Len(s))
    BY <1>1, FS_Interval
  <2> QED
    BY <2>1, <2>2, FS_Subset, FS_CardinalityType
<1> HIDE DEF t
<1>3. new \notin In(s, T)
  BY <1>1 DEF In
<1>4. ASSUME at \in T PROVE In(t, T) = In(s, T) \cup {new}
  BY <1>1, <1>4 DEF In
<1>5. ASSUME at \notin T PROVE In(t, T) = In(s, T)
  BY <1>1, <1>5 DEF In
<1>6. Cardinality(In(s, T) \cup {new}) = Cardinality(In(s, T)) + 1
  BY <1>2, <1>3, FS_AddElement
<1> QED
  BY <1>2, <1>4, <1>5, <1>6 DEF t

\* Fewer of the calls are between a and b than from a on.
LEMMA BetweenIsLess ==
  ASSUME NEW s \in Seq(Nat), NEW a \in Nat, NEW b \in Nat
  PROVE  /\ Cardinality(In(s, a .. b)) <= Cardinality(In(s, After(a)))
         /\ Cardinality(In(s, a .. b)) \in Nat /\ Cardinality(In(s, After(a))) \in Nat
<1>1. In(s, a .. b) \subseteq In(s, After(a)) /\ In(s, After(a)) \subseteq 1 .. Len(s)
  BY DEF In, After
<1>2. IsFiniteSet(1 .. Len(s))
  BY FS_Interval
<1>3. IsFiniteSet(In(s, After(a)))
  BY <1>1, <1>2, FS_Subset
<1> QED
  BY <1>1, <1>3, FS_Subset, FS_CardinalityType

\* RateBounded in these terms.
LEMMA RateBoundedIs ==
  ASSUME RequestTypes
  PROVE  RateBounded <=>
           \A k \in Keys : \A a, b \in 0 .. MaxNow : a <= b =>
             Cardinality(In(admitted[k], a .. b)) <= LimitOf(k) + (b - a) \div Emission(LimitOf(k))
BY DEF RateBounded, In, RequestTypes

\* One more call through the limiter key k keeps both: it came after the
\* arrival time less the burst.
LEMMA CallInv ==
  ASSUME RequestTypes, RequestTypes', TatCounts, RateBounded,
         NEW key \in Keys, NEW at \in Nat,
         at >= AllowAt(key, LimitOf(key)),
         tat' = [tat EXCEPT ![key] = NextTat(key, LimitOf(key), at)],
         admitted' = [admitted EXCEPT ![key] = Append(@, at)]
  PROVE  TatCounts' /\ RateBounded'
<1> DEFINE e == Emission(LimitOf(key))
           l == LimitOf(key)
           s == admitted[key]
<1>1. e \in Nat \ {0} /\ l \in Nat \ {0}
  BY EmissionIsPositive
<1>2. s \in Seq(Nat) /\ tat[key] \in Nat
  BY DEF RequestTypes
<1>3. /\ admitted'[key] = Append(s, at) /\ tat'[key] = NextTat(key, l, at)
      /\ \A k \in Keys : k # key => admitted'[k] = admitted[k] /\ tat'[k] = tat[k]
  BY DEF RequestTypes
<1>4. tat'[key] >= tat[key] + e /\ tat'[key] >= at + e /\ tat'[key] \in Nat
  BY <1>1, <1>2, <1>3 DEF NextTat
<1>5. at >= tat[key] - (l - 1) * e
  BY DEF AllowAt
<1> HIDE DEF e, l, s
<1>6. ASSUME NEW a \in Nat, Since(key, a)' > 0
      PROVE  tat'[key] >= a + Since(key, a)' * e
  <2> DEFINE n == Cardinality(In(s, After(a)))
  <2>1. n \in Nat
    BY <1>2, OneCallMore
  <2>2. Since(key, a) = n /\ Since(key, a)' = Cardinality(In(Append(s, at), After(a)))
    BY <1>3 DEF Since, s
  <2>3. n > 0 => tat[key] >= a + n * e
    BY <2>2 DEF TatCounts, e
  <2> HIDE DEF n
  <2>4. CASE at \in After(a)
    <3>1. Since(key, a)' = n + 1
      BY <1>2, <2>2, <2>4, OneCallMore DEF n
    <3>2. (n + 1) * e = n * e + e /\ n * e \in Int
      BY <1>1, <2>1, Multiples
    <3>3. at >= a
      BY <2>4 DEF After
    <3>4. n = 0 => n * e = 0
      BY <1>1
    <3>5. CASE n = 0
      BY <1>1, <1>2, <1>4, <3>1, <3>2, <3>3, <3>4, <3>5
    <3>6. CASE n > 0
      BY <1>1, <1>2, <1>4, <2>3, <3>1, <3>2, <3>6
    <3> QED
      BY <2>1, <3>5, <3>6
  <2>5. CASE at \notin After(a)
    <3>1. Since(key, a)' = n
      BY <1>2, <2>2, <2>5, OneCallMore DEF n
    <3>2. n * e \in Int
      BY <1>1, <2>1, Multiples
    <3> QED
      BY <1>1, <1>2, <1>4, <1>6, <2>3, <3>1, <3>2
  <2> QED
    BY <2>4, <2>5
<1>7. TatCounts'
  <2>1. SUFFICES ASSUME NEW k \in Keys, NEW a \in Nat, Since(k, a)' > 0
                 PROVE  tat'[k] >= a + Since(k, a)' * Emission(LimitOf(k))
    BY DEF TatCounts
  <2>2. CASE k = key
    BY <1>6, <2>1, <2>2 DEF e
  <2>3. CASE k # key
    <3>1. Since(k, a)' = Since(k, a) /\ tat'[k] = tat[k]
      BY <1>3, <2>3 DEF Since
    <3> QED
      BY <2>1, <3>1 DEF TatCounts
  <2> QED
    BY <2>2, <2>3
<1>8. ASSUME NEW a \in 0 .. MaxNow, NEW b \in 0 .. MaxNow, a <= b
      PROVE  Cardinality(In(Append(s, at), a .. b)) <= l + (b - a) \div e
  <2> DEFINE n == Cardinality(In(s, a .. b))
             m == Cardinality(In(s, After(a)))
  <2>1. a \in Nat /\ b \in Nat
    OBVIOUS
  <2>2. n \in Nat /\ m \in Nat /\ n <= m
    BY <1>2, <2>1, BetweenIsLess
  <2>3. m > 0 => tat[key] >= a + m * e
    BY <2>1 DEF TatCounts, Since, e, s
  <2>4. n <= l + (b - a) \div e
    BY <1>8, RateBoundedIs DEF e, l, s
  <2> HIDE DEF m
  <2>5. CASE at \in a .. b
    <3>1. Cardinality(In(Append(s, at), a .. b)) = n + 1
      BY <1>2, <2>5, OneCallMore
    <3> HIDE DEF n
    <3>2. /\ n * e \in Int /\ l * e \in Int /\ (l - 1) * e = l * e - e
          /\ ((n + 1) - l) * e = n * e + e - l * e
      BY <1>1, <2>2, Multiples
    <3>3. n * e <= m * e /\ m * e \in Int
      BY <1>1, <2>2
    <3>4. b - a \in Nat /\ at <= b
      BY <1>8, <2>1, <2>5
    <3>5. ((n + 1) - l) * e <= b - a
      <4>1. CASE m > 0
        <5>1. at >= a + n * e - (l * e - e)
          BY <1>1, <1>2, <1>5, <2>1, <2>3, <3>2, <3>3, <4>1
        <5> QED
          BY <1>1, <2>1, <3>2, <3>4, <5>1
      <4>2. CASE m = 0
        <5>1. n = 0
          BY <2>2, <4>2
        <5>2. (n + 1) - l <= 0
          BY <1>1, <5>1
        <5>3. ((n + 1) - l) * e <= 0
          BY <1>1, <2>2, <5>2
        <5> QED
          BY <1>1, <2>2, <3>2, <3>4, <5>3
      <4> QED
        BY <2>2, <4>1, <4>2
    <3>6. (n + 1) - l <= (b - a) \div e
      <4> DEFINE c == (n + 1) - l
                 y == b - a
      <4>1. c \in Int /\ y \in Nat /\ c * e <= y
        BY <1>1, <2>2, <3>4, <3>5
      <4> HIDE DEF c, y
      <4>2. c <= y \div e
        BY <1>1, <4>1, DivAtLeast
      <4> QED
        BY <4>2 DEF c, y
    <3>7. (b - a) \div e \in Int
      BY <1>1, <3>4
    <3> QED
      BY <1>1, <2>2, <3>1, <3>6, <3>7
  <2>6. CASE at \notin a .. b
    BY <1>2, <2>4, <2>6, OneCallMore
  <2> QED
    BY <2>5, <2>6
<1>9. RateBounded'
  <2>1. ASSUME NEW k \in Keys, NEW a \in 0 .. MaxNow, NEW b \in 0 .. MaxNow, a <= b
        PROVE  Cardinality(In(admitted'[k], a .. b)) <= LimitOf(k) + (b - a) \div Emission(LimitOf(k))
    <3>1. CASE k = key
      BY <1>3, <1>8, <2>1, <3>1 DEF e, l, s
    <3>2. CASE k # key
      BY <1>3, <2>1, <3>2, RateBoundedIs
    <3> QED
      BY <3>1, <3>2
  <2>2. DOMAIN admitted' = Keys
    BY DEF RequestTypes
  <2> QED
    BY <2>1, <2>2 DEF RateBounded, In
<1> QED
  BY <1>7, <1>9

\* With the limiter keys as they were, or all lost, nothing is to show.
LEMMA LimitsKept ==
  ASSUME RequestTypes, TatCounts, RateBounded, UNCHANGED <<tat, admitted>>
  PROVE  TatCounts' /\ RateBounded'
BY DEF TatCounts, RateBounded, Since

\* No call was let through yet.
NoCalls == tat = [k \in Keys |-> 0] /\ admitted = [k \in Keys |-> <<>>]

\* Before any call nothing is to show.
LEMMA NoCallsInv == NoCalls => TatCounts /\ RateBounded
<1> SUFFICES ASSUME NoCalls PROVE TatCounts /\ RateBounded
  OBVIOUS
<1>1. \A T : In(<<>>, T) = {} /\ Cardinality({}) = 0
  BY FS_EmptySet DEF In
<1>2. \A k \in Keys : admitted[k] = <<>>
  BY DEF NoCalls
<1>3. TatCounts
  <2>1. \A k \in Keys, a \in Nat : Since(k, a) = 0
    BY <1>1, <1>2 DEF Since
  <2> QED
    BY <2>1 DEF TatCounts
<1>4. ASSUME NEW k \in Keys, NEW a \in 0 .. MaxNow, NEW b \in 0 .. MaxNow, a <= b
      PROVE  Cardinality(In(admitted[k], a .. b)) <= LimitOf(k) + (b - a) \div Emission(LimitOf(k))
  <2>1. Emission(LimitOf(k)) \in Nat \ {0} /\ LimitOf(k) \in Nat \ {0}
    BY EmissionIsPositive
  <2>2. b - a \in Nat
    BY <1>4, BidRequestsAssumption
  <2>3. 0 <= (b - a) \div Emission(LimitOf(k))
    BY <2>1, <2>2, DivAtLeast
  <2>4. (b - a) \div Emission(LimitOf(k)) \in Int
    BY <2>1, <2>2
  <2>5. Cardinality(In(admitted[k], a .. b)) = 0
    BY <1>1, <1>2
  <2> QED
    BY <2>1, <2>3, <2>4, <2>5
<1>5. DOMAIN admitted = Keys
  BY DEF NoCalls
<1>6. RateBounded
  BY <1>4, <1>5 DEF RateBounded, In
<1> QED
  BY <1>3, <1>6

\* A loss of Redis loses the limiter keys too, and the limits start over.
LEMMA LimitsLost == NoCalls' => TatCounts' /\ RateBounded'
BY NoCallsInv, PTL

-----------------------------------------------------------------------------
(* How the requests move *)

\* Only q moves, to a state of its type.
OnlyMoves(q) ==
  /\ request' \in [Requests -> RequestState]
  /\ \A p \in Requests : p # q => request'[p] = request[p]

\* The request p is at step pc, else as it was.
MovesTo(p, pc) ==
  /\ request'[p].pc = pc /\ request'[p].bidder = request[p].bidder
  /\ request'[p].snap = request[p].snap /\ request'[p].latch = request[p].latch
  /\ request'[p].answer = request[p].answer

\* Going on to a step changes nothing else of the request.
LEMMA GotoMoves ==
  ASSUME RequestTypes, NEW q \in Requests, NEW pc \in Steps, Goto(q, pc)
  PROVE  OnlyMoves(q) /\ MovesTo(q, pc)
<1> DEFINE old == request[q]
           new == [old EXCEPT !.pc = pc]
<1>1. request \in [Requests -> RequestState] /\ old \in RequestState
  BY DEF RequestTypes
<1>2. request' = [request EXCEPT ![q] = new]
  BY <1>1 DEF Goto, RequestState
<1> HIDE DEF old
<1>3. new \in RequestState
  BY <1>1 DEF RequestState
<1>4. /\ new.pc = pc /\ new.bidder = old.bidder /\ new.snap = old.snap
      /\ new.latch = old.latch /\ new.answer = old.answer
  BY <1>1 DEF RequestState
<1> HIDE DEF new
<1>5. request' \in [Requests -> RequestState]
  BY <1>1, <1>2, <1>3
<1>6. request'[q] = new /\ \A p \in Requests : p # q => request'[p] = request[p]
  BY <1>1, <1>2
<1> QED
  BY <1>4, <1>5, <1>6 DEF OnlyMoves, MovesTo, old

\* Returning with an answer drops the latch and gives the permit back.
LEMMA LeaveWithMoves ==
  ASSUME RequestTypes, NEW q \in Requests, NEW answer \in {None, "acked", "durable"},
         LeaveWith(q, answer)
  PROVE  /\ OnlyMoves(q) /\ inUse' = inUse - 1
         /\ request'[q].pc = "done" /\ request'[q].bidder = request[q].bidder
         /\ request'[q].latch = None /\ request'[q].answer = answer
<1> DEFINE old == request[q]
           new == [old EXCEPT !.pc = "done", !.latch = None, !.answer = answer]
<1>1. request \in [Requests -> RequestState] /\ old \in RequestState
  BY DEF RequestTypes
<1>2. request' = [request EXCEPT ![q] = new] /\ inUse' = inUse - 1
  BY <1>1 DEF LeaveWith, Release, RequestState
<1> HIDE DEF old
<1>3. new \in RequestState
  BY <1>1 DEF RequestState, Steps
<1>4. new.pc = "done" /\ new.bidder = old.bidder /\ new.latch = None /\ new.answer = answer
  BY <1>1 DEF RequestState
<1> HIDE DEF new
<1>5. request' \in [Requests -> RequestState]
  BY <1>1, <1>2, <1>3
<1>6. request'[q] = new /\ \A p \in Requests : p # q => request'[p] = request[p]
  BY <1>1, <1>2
<1> QED
  BY <1>2, <1>4, <1>5, <1>6 DEF OnlyMoves, old

\* What a move of the request p must respect for the acknowledgements to stay
\* true.
MovesTruly(p) ==
  /\ request'[p].pc # "new" /\ request'[p].bidder \in Bidders
  /\ request'[p].latch \in {request[p].latch, None}
  /\ \/ request'[p].bidder = request[p].bidder
     \/ request'[p].latch # "acked" /\ request'[p].answer # "acked"
  /\ request'[p].answer = "acked" => request[p].answer = "acked" \/ InLog(kafka, Bidder(p))
  /\ request'[p].pc = "ack" /\ request'[p].bidder \in acked' /\ spent' = 0 => request'[p].latch = "acked"

\* Moves that respect this keep the acknowledgements true while Kafka stays as
\* it is.
LEMMA AcksStep ==
  ASSUME RequestTypes, BiddersKnown, AcksFollowKafka,
         \A p \in Requests : request'[p] = request[p] \/ MovesTruly(p),
         kafka' = kafka, acked' \subseteq acked, spent' = 0 => spent = 0
  PROVE  BiddersKnown' /\ AcksFollowKafka'
<1>1. None # "acked" /\ None # "failed"
  BY BidRequestsAssumption
<1>2. BiddersKnown'
  BY DEF BiddersKnown, MovesTruly, At, Bidder
<1>3. \A b : InLog(kafka', b) <=> InLog(kafka, b)
  BY DEF InLog
<1>4. \A b \in acked' : InLog(kafka', b)
  BY <1>3 DEF AcksFollowKafka
<1>5. ASSUME NEW p \in Requests, request'[p].latch = "acked" \/ request'[p].answer = "acked"
      PROVE  InLog(kafka', request'[p].bidder)
  <2>1. request'[p].bidder = request[p].bidder
    BY <1>5 DEF MovesTruly
  <2>2. InLog(kafka, Bidder(p))
    BY <1>1, <1>5 DEF AcksFollowKafka, MovesTruly
  <2> QED
    BY <2>1, <2>2, <1>3 DEF Bidder, InLog
<1>6. ASSUME spent' = 0, NEW p \in Requests
      PROVE  request'[p].latch # "failed"
  BY <1>1, <1>6 DEF AcksFollowKafka, MovesTruly
<1>7. NoLostWakeup'
  BY DEF AcksFollowKafka, NoLostWakeup, MovesTruly, At, Bidder
<1> QED
  BY <1>2, <1>4, <1>5, <1>6, <1>7 DEF AcksFollowKafka, Bidder

-----------------------------------------------------------------------------
(* The semaphore *)

\* Requests that stay on their side of the semaphore leave it as it is.
LEMMA PermitsStill ==
  ASSUME PermitsKept, inUse' = inUse,
         \A p \in Requests : request'[p].pc \in Holding <=> request[p].pc \in Holding
  PROVE  PermitsKept'
<1>1. Holders' = Holders
  BY DEF Holders
<1> QED
  BY <1>1 DEF PermitsKept

\* Those of S give their permits back.
LEMMA PermitsGiven ==
  ASSUME PermitsKept, NEW S \in SUBSET Holders, inUse' = inUse - Cardinality(S),
         \A p \in Requests \ S : request'[p].pc \in Holding <=> request[p].pc \in Holding,
         \A p \in S : request'[p].pc \notin Holding
  PROVE  PermitsKept'
<1>1. Holders' = Holders \ S
  BY DEF Holders
<1>2. IsFiniteSet(Holders) /\ InFlight \in Nat
  BY BidRequestsAssumption DEF PermitsKept
<1>3. IsFiniteSet(S) /\ Cardinality(S) \in Nat /\ Cardinality(Holders) \in Nat
  BY <1>2, FS_Subset, FS_CardinalityType
<1>4. IsFiniteSet(Holders \ S) /\ Cardinality(Holders \ S) = Cardinality(Holders) - Cardinality(Holders \cap S)
  BY <1>2, FS_Difference
<1>5. Cardinality(Holders \cap S) = Cardinality(S)
  <2>1. Holders \cap S = S
    OBVIOUS
  <2> QED
    BY <2>1
<1>6. inUse = Cardinality(Holders) /\ inUse <= InFlight
  BY DEF PermitsKept
<1>7. inUse' = Cardinality(Holders \ S) /\ inUse' <= InFlight
  BY <1>2, <1>3, <1>4, <1>5, <1>6
<1> QED
  BY <1>1, <1>4, <1>7 DEF PermitsKept

\* One request returns: the deferred Release.
LEMMA PermitGiven ==
  ASSUME PermitsKept, NEW q \in Requests, request[q].pc \in Holding, OnlyMoves(q),
         request'[q].pc \notin Holding, inUse' = inUse - 1
  PROVE  PermitsKept'
<1>1. Cardinality({q}) = 1
  BY FS_Singleton
<1>2. {q} \in SUBSET Holders
  BY DEF Holders
<1> QED
  BY <1>1, <1>2, PermitsGiven DEF OnlyMoves

\* One request gets past the semaphore, which has a permit left.
LEMMA PermitTaken ==
  ASSUME PermitsKept, NEW q \in Requests, request[q].pc \notin Holding, OnlyMoves(q),
         request'[q].pc \in Holding, inUse < InFlight, inUse' = inUse + 1
  PROVE  PermitsKept'
<1>1. Holders' = Holders \cup {q} /\ q \notin Holders
  BY DEF Holders, OnlyMoves
<1>2. IsFiniteSet(Holders) /\ Cardinality(Holders) \in Nat /\ InFlight \in Nat
  BY BidRequestsAssumption, FS_CardinalityType DEF PermitsKept
<1>3. IsFiniteSet(Holders \cup {q}) /\ Cardinality(Holders \cup {q}) = Cardinality(Holders) + 1
  BY <1>1, <1>2, FS_AddElement
<1> QED
  BY <1>1, <1>2, <1>3 DEF PermitsKept

-----------------------------------------------------------------------------
(* What holds whenever Redis is lost: the steps of a request *)

\* The arrival of a request: it brings its bidder and its clock reading.
LEMMA AdmitInv ==
  ASSUME LossyInv, NEW q \in Requests, NEW b \in Bidders, Admit(q, b)
  PROVE  LossyInv'
<1> DEFINE old == request[q]
           pc == IF Completed(b) THEN "done" ELSE "user"
           new == [old EXCEPT !.pc = pc, !.bidder = b, !.at = now]
<1> USE DEF LossyInv
<1>1. request \in [Requests -> RequestState] /\ old \in RequestState /\ now \in Nat
  BY DEF RequestTypes
<1>2. old.pc = "new" /\ old.latch = None /\ old.answer = None
  BY DEF Admit, BiddersKnown, At
<1>3. request' = [request EXCEPT ![q] = new]
  BY <1>1 DEF Admit, RequestState
<1>4. pc \in {"done", "user"}
  OBVIOUS
<1> HIDE DEF old, pc
<1>5. new \in RequestState
  BY <1>1, <1>4 DEF RequestState, Steps
<1>6. new.pc = pc /\ new.bidder = b /\ new.latch = old.latch /\ new.answer = old.answer
  BY <1>1 DEF RequestState
<1> HIDE DEF new
<1>7. request' \in [Requests -> RequestState]
  BY <1>1, <1>3, <1>5
<1>8. request'[q] = new /\ \A p \in Requests : p # q => request'[p] = request[p]
  BY <1>1, <1>3
<1>9. UNCHANGED <<gateVars, flight, redisVars, logVars, pgVars, issued, spent>>
  BY DEF Admit
<1>10. RequestTypes'
  BY <1>7, <1>9 DEF RequestTypes, gateVars, redisVars, logVars, pgVars
<1>11. MovesTruly(q)
  BY <1>2, <1>4, <1>6, <1>8, BidRequestsAssumption DEF MovesTruly, old
<1>12. BiddersKnown' /\ AcksFollowKafka'
  BY <1>8, <1>9, <1>11, AcksStep DEF redisVars, logVars
<1>13. PermitsKept'
  BY <1>2, <1>4, <1>6, <1>8, <1>9, PermitsStill DEF gateVars, Holding, old
<1>14. TatCounts' /\ RateBounded'
  BY <1>9, LimitsKept DEF gateVars
<1> QED
  BY <1>10, <1>12, <1>13, <1>14

\* A request that only goes on to step pc, and keeps what it holds.
LEMMA GotoKeeps ==
  ASSUME LossyInv, NEW q \in Requests, NEW pc \in Steps, ~At(q, "new"), Goto(q, pc),
         pc # "new", pc \in Holding <=> request[q].pc \in Holding,
         UNCHANGED <<inUse, kafka>>, acked' \subseteq acked, spent' = 0 => spent = 0,
         pc = "ack" /\ Bidder(q) \in acked' /\ spent' = 0 => request[q].latch = "acked"
  PROVE  OnlyMoves(q) /\ BiddersKnown' /\ AcksFollowKafka' /\ PermitsKept'
<1>1. OnlyMoves(q) /\ MovesTo(q, pc)
  BY GotoMoves DEF LossyInv
<1>2. Bidder(q) \in Bidders
  BY DEF LossyInv, BiddersKnown
<1>3. MovesTruly(q)
  BY <1>1, <1>2 DEF MovesTo, MovesTruly, Bidder
<1>4. BiddersKnown' /\ AcksFollowKafka'
  BY <1>1, <1>3, AcksStep DEF LossyInv, OnlyMoves
<1>5. PermitsKept'
  BY <1>1, PermitsStill DEF LossyInv, OnlyMoves, MovesTo
<1> QED
  BY <1>1, <1>4, <1>5

\* A request that returns and gives its permit back.
LEMMA LeaveKeeps ==
  ASSUME LossyInv, NEW q \in Requests, request[q].pc \in Holding, Leave(q),
         kafka' = kafka, acked' \subseteq acked, spent' = 0 => spent = 0
  PROVE  OnlyMoves(q) /\ BiddersKnown' /\ AcksFollowKafka' /\ PermitsKept'
<1>1. OnlyMoves(q) /\ MovesTo(q, "done") /\ inUse' = inUse - 1
  BY GotoMoves DEF LossyInv, Leave, Release, Steps
<1>2. Bidder(q) \in Bidders
  BY DEF LossyInv, BiddersKnown, At, Holding
<1>3. MovesTruly(q)
  BY <1>1, <1>2 DEF MovesTo, MovesTruly, Bidder
<1>4. BiddersKnown' /\ AcksFollowKafka'
  BY <1>1, <1>3, AcksStep DEF LossyInv, OnlyMoves
<1>5. PermitsKept'
  BY <1>1, PermitGiven DEF LossyInv, MovesTo, Holding
<1> QED
  BY <1>1, <1>4, <1>5

\* The same, with an answer that is true.
LEMMA LeaveWithKeeps ==
  ASSUME LossyInv, NEW q \in Requests, request[q].pc \in Holding,
         NEW answer \in {None, "acked", "durable"}, LeaveWith(q, answer),
         answer = "acked" => InLog(kafka, Bidder(q)),
         kafka' = kafka, acked' \subseteq acked, spent' = 0 => spent = 0
  PROVE  OnlyMoves(q) /\ BiddersKnown' /\ AcksFollowKafka' /\ PermitsKept'
<1>1. /\ OnlyMoves(q) /\ inUse' = inUse - 1
      /\ request'[q].pc = "done" /\ request'[q].bidder = request[q].bidder
      /\ request'[q].latch = None /\ request'[q].answer = answer
  BY LeaveWithMoves DEF LossyInv
<1>2. Bidder(q) \in Bidders
  BY DEF LossyInv, BiddersKnown, At, Holding
<1>3. MovesTruly(q)
  BY <1>1, <1>2 DEF MovesTruly, Bidder
<1>4. BiddersKnown' /\ AcksFollowKafka'
  BY <1>1, <1>3, AcksStep DEF LossyInv, OnlyMoves
<1>5. PermitsKept'
  BY <1>1, PermitGiven DEF LossyInv, Holding
<1> QED
  BY <1>1, <1>4, <1>5

\* One call is counted, if it is let through.
LEMMA CallKeeps ==
  ASSUME LossyInv, NEW q \in Requests, request[q].pc \in {"user", "auction"},
         NEW key \in Keys, NEW next \in {"auction", "permit"}, EvalGCRALimit(q, key, next),
         UNCHANGED <<now, inUse, flight, redisVars, logVars, pgVars, issued, spent>>
  PROVE  LossyInv'
<1> DEFINE at == request[q].at
<1> USE DEF LossyInv
<1>1. at \in Nat
  BY DEF RequestTypes, RequestState
<1>2. PICK pc \in {"done", "auction", "permit"} : Goto(q, pc)
  BY DEF EvalGCRALimit
<1>3. OnlyMoves(q) /\ BiddersKnown' /\ AcksFollowKafka' /\ PermitsKept'
  BY <1>2, GotoKeeps DEF redisVars, logVars, Steps, Holding, At
<1>4. CASE UNCHANGED <<tat, admitted>>
  <2>1. RequestTypes'
    BY <1>3, <1>4 DEF OnlyMoves, RequestTypes, redisVars, logVars, pgVars
  <2> QED
    BY <1>3, <1>4, <2>1, LimitsKept
<1>5. CASE /\ ~(at < AllowAt(key, LimitOf(key)))
           /\ tat' = [tat EXCEPT ![key] = NextTat(key, LimitOf(key), at)]
           /\ admitted' = [admitted EXCEPT ![key] = Append(@, at)]
  <2>1. Emission(LimitOf(key)) \in Nat \ {0} /\ LimitOf(key) \in Nat \ {0} /\ tat[key] \in Nat
    BY EmissionIsPositive DEF RequestTypes
  <2>2. NextTat(key, LimitOf(key), at) \in Nat /\ admitted[key] \in Seq(Nat)
    BY <1>1, <2>1 DEF NextTat, RequestTypes
  <2>3. Append(admitted[key], at) \in Seq(Nat)
    BY <1>1, <2>2
  <2>4. tat' \in [Keys -> Nat] /\ admitted' \in [Keys -> Seq(Nat)]
    BY <1>5, <2>2, <2>3 DEF RequestTypes
  <2>5. RequestTypes'
    BY <1>3, <2>4 DEF OnlyMoves, RequestTypes, redisVars, logVars, pgVars
  <2>6. AllowAt(key, LimitOf(key)) \in Int
    BY <2>1 DEF AllowAt
  <2>7. at >= AllowAt(key, LimitOf(key))
    BY <1>1, <1>5, <2>6
  <2>8. TatCounts' /\ RateBounded'
    BY <1>1, <1>5, <2>5, <2>7, CallInv
  <2> QED
    BY <1>3, <2>5, <2>8
<1> QED
  BY <1>4, <1>5 DEF EvalGCRALimit

\* The limits of the user and of the auction, or a Redis error that lets by.
LEMMA CheckRedisLimitsInv ==
  ASSUME LossyInv, NEW q \in Requests, CheckRedisLimits(q)
  PROVE  LossyInv'
<1>1. UNCHANGED <<now, inUse, flight, redisVars, logVars, pgVars, issued>>
  BY DEF CheckRedisLimits
<1>2. CASE At(q, "user") /\ EvalGCRALimit(q, Bidder(q), "auction") /\ UNCHANGED spent
  <2>1. Bidder(q) \in Keys
    BY <1>2 DEF LossyInv, BiddersKnown, At, Keys
  <2> QED
    BY <1>1, <1>2, <2>1, CallKeeps DEF At
<1>3. CASE At(q, "auction") /\ EvalGCRALimit(q, Auction, "permit") /\ UNCHANGED spent
  BY <1>1, <1>3, CallKeeps DEF At, Keys
<1>4. CASE /\ At(q, "user") \/ At(q, "auction")
           /\ Spend /\ Goto(q, "permit") /\ UNCHANGED <<tat, admitted>>
  <2>1. spent \in Nat /\ spent' = spent + 1
    BY <1>4 DEF LossyInv, RequestTypes, Spend
  <2>2. OnlyMoves(q) /\ BiddersKnown' /\ AcksFollowKafka' /\ PermitsKept'
    BY <1>1, <1>4, <2>1, GotoKeeps DEF At, Steps, Holding, redisVars, logVars
  <2>3. RequestTypes'
    BY <1>1, <1>4, <2>1, <2>2 DEF LossyInv, OnlyMoves, RequestTypes, redisVars, logVars, pgVars
  <2> QED
    BY <1>4, <2>2, <2>3, LimitsKept DEF LossyInv
<1> QED
  BY <1>2, <1>3, <1>4 DEF CheckRedisLimits

\* The semaphore: a permit or BID_AUCTION_TOO_HOT.
LEMMA AcquireLocalPermitInv ==
  ASSUME LossyInv, NEW q \in Requests, AcquireLocalPermit(q)
  PROVE  LossyInv'
<1>1. UNCHANGED <<now, tat, admitted, flight, redisVars, logVars, pgVars, issued, spent>>
  BY DEF AcquireLocalPermit
<1>2. At(q, "permit")
  BY DEF AcquireLocalPermit
<1>3. OnlyMoves(q) /\ BiddersKnown' /\ AcksFollowKafka' /\ PermitsKept'
  <2>1. CASE Goto(q, "done") /\ UNCHANGED inUse
    BY <1>1, <1>2, <2>1, GotoKeeps DEF At, Steps, Holding, redisVars, logVars
  <2>2. CASE inUse < InFlight /\ inUse' = inUse + 1 /\ Goto(q, "acl")
    <3>1. OnlyMoves(q) /\ MovesTo(q, "acl")
      BY <2>2, GotoMoves DEF LossyInv, Steps, Holding
    <3>2. PermitsKept'
      BY <1>2, <2>2, <3>1, PermitTaken DEF LossyInv, At, Holding, MovesTo
    <3>3. MovesTruly(q)
      BY <1>2, <3>1 DEF LossyInv, BiddersKnown, At, Bidder, MovesTo, MovesTruly
    <3>4. BiddersKnown' /\ AcksFollowKafka'
      BY <1>1, <3>1, <3>3, AcksStep DEF LossyInv, OnlyMoves, redisVars, logVars
    <3> QED
      BY <3>1, <3>2, <3>4
  <2> QED
    BY <2>1, <2>2 DEF AcquireLocalPermit
<1>4. RequestTypes'
  BY <1>1, <1>3 DEF LossyInv, OnlyMoves, RequestTypes, redisVars, logVars, pgVars
<1> QED
  BY <1>1, <1>3, <1>4, LimitsKept DEF LossyInv

\* The room's access check: on to the script, or back with the permit.
LEMMA RequireActiveMembershipInv ==
  ASSUME LossyInv, NEW q \in Requests, RequireActiveMembership(q)
  PROVE  LossyInv'
<1>1. /\ UNCHANGED <<now, tat, admitted, flight, hot, idem, acked, stream, logVars, pgVars, issued>>
      /\ At(q, "acl")
  BY DEF RequireActiveMembership
<1>2. spent' \in Nat /\ (spent' = 0 => spent = 0)
  BY DEF RequireActiveMembership, Spend, LossyInv, RequestTypes
<1>3. OnlyMoves(q) /\ BiddersKnown' /\ AcksFollowKafka' /\ PermitsKept'
  <2>1. CASE Goto(q, "script") /\ UNCHANGED inUse
    BY <1>1, <1>2, <2>1, GotoKeeps DEF At, Steps, Holding, logVars
  <2>2. CASE Leave(q)
    BY <1>1, <1>2, <2>2, LeaveKeeps DEF At, Holding, logVars
  <2> QED
    BY <2>1, <2>2 DEF RequireActiveMembership
<1>4. RequestTypes'
  BY <1>1, <1>2, <1>3 DEF LossyInv, OnlyMoves, RequestTypes, logVars, pgVars
<1> QED
  BY <1>1, <1>3, <1>4, LimitsKept DEF LossyInv

\* The hot state a script runs on has the type of one.
LEMMA BaseTypes ==
  ASSUME RequestTypes, NEW q \in Requests
  PROVE  Base(q) = None \/ Base(q) \in [seq : Nat, paused : BOOLEAN]
<1>1. request[q].snap \in Nat \cup {None}
  BY DEF RequestTypes, RequestState
<1> QED
  BY <1>1 DEF RequestTypes, Base

\* A decision is the next number of the hot state it is made on.
LEMMA DecideTypes ==
  ASSUME RequestTypes, NEW q \in Requests, Bidder(q) \in Bidders, Base(q) # None, Decide(q)
  PROVE  LET d == [seq |-> Base(q).seq + 1, bidder |-> Bidder(q)]
         IN /\ d \in Decision /\ Base(q).seq \in Nat
            /\ hot' \in [seq : Nat, paused : BOOLEAN] /\ hot'.seq = d.seq
            /\ idem' = idem \cup {d.bidder}
            /\ stream' = Append(stream, d) /\ issued' = Append(issued, d)
            /\ stream' \in Seq(Decision) /\ issued' \in Seq(Decision)
            /\ Len(stream') = Len(stream) + 1 /\ Len(issued') = Len(issued) + 1
<1> DEFINE base == Base(q)
           n == base.seq + 1
           d == [seq |-> n, bidder |-> Bidder(q)]
<1>1. base \in [seq : Nat, paused : BOOLEAN]
  BY BaseTypes
<1>2. /\ hot' = [base EXCEPT !.seq = n] /\ idem' = idem \cup {Bidder(q)}
      /\ stream' = Append(stream, d) /\ issued' = Append(issued, d)
  BY DEF Decide
<1> HIDE DEF base
<1>3. n \in Nat /\ base.seq \in Nat
  BY <1>1
<1> HIDE DEF n
<1>4. d \in Decision
  BY <1>3 DEF Decision
<1>5. hot' \in [seq : Nat, paused : BOOLEAN] /\ hot'.seq = n
  BY <1>1, <1>2, <1>3
<1> HIDE DEF d
<1>6. /\ stream' \in Seq(Decision) /\ issued' \in Seq(Decision)
      /\ Len(stream') = Len(stream) + 1 /\ Len(issued') = Len(issued) + 1
  BY <1>2, <1>4 DEF RequestTypes
<1> QED
  BY <1>2, <1>3, <1>4, <1>5, <1>6 DEF base, n, d

\* The script: replay, cold start, error or decision.
LEMMA PlaceBidInv ==
  ASSUME LossyInv, NEW q \in Requests, PlaceBid(q)
  PROVE  LossyInv'
<1> USE DEF LossyInv
<1>1. UNCHANGED <<now, tat, admitted, logVars, pgVars, spent>> /\ At(q, "script")
  BY DEF PlaceBid
<1>2. Bidder(q) \in Bidders /\ request[q].pc = "script"
  BY <1>1 DEF BiddersKnown, At
<1>3. acked' = acked
  BY DEF PlaceBid, Decide, redisVars
<1>4. OnlyMoves(q) /\ BiddersKnown' /\ AcksFollowKafka' /\ PermitsKept'
  <2>1. ASSUME NEW pc \in {"record", "pending", "wait", "decided"}, Goto(q, pc), UNCHANGED inUse
        PROVE  OnlyMoves(q) /\ BiddersKnown' /\ AcksFollowKafka' /\ PermitsKept'
    BY <1>1, <1>2, <1>3, <2>1, GotoKeeps DEF At, Steps, Holding, logVars
  <2>2. CASE Leave(q)
    BY <1>1, <1>2, <1>3, <2>2, LeaveKeeps DEF Holding, logVars
  <2> QED
    BY <2>1, <2>2 DEF PlaceBid
<1>5. RequestTypes'
  <2>1. CASE UNCHANGED redisVars /\ UNCHANGED issued
    BY <1>1, <1>4, <2>1 DEF OnlyMoves, RequestTypes, redisVars, logVars, pgVars
  <2>2. CASE Base(q) # None /\ hot' = Base(q) /\ UNCHANGED <<idem, acked, pending, member, stream, flight, issued>>
    BY <1>1, <1>4, <2>2, BaseTypes DEF OnlyMoves, RequestTypes, logVars, pgVars
  <2>3. CASE Base(q) # None /\ Decide(q) /\ UNCHANGED <<inUse, acked, flight, member>>
    <3>1. /\ hot' \in [seq : Nat, paused : BOOLEAN] /\ idem' = idem \cup {Bidder(q)}
          /\ stream' \in Seq(Decision) /\ issued' \in Seq(Decision)
          /\ Len(stream') = Len(stream) + 1 /\ Len(issued') = Len(issued) + 1
      BY <1>2, <2>3, DecideTypes
    <3>2. idem' \subseteq Bidders
      BY <1>2, <3>1 DEF RequestTypes
    <3>3. Len(kafka') + Len(stream') <= Len(issued')
      <4>1. Len(kafka) \in Nat /\ Len(stream) \in Nat /\ Len(issued) \in Nat /\ kafka' = kafka
        BY <1>1 DEF RequestTypes, logVars
      <4> QED
        BY <3>1, <4>1 DEF RequestTypes
    <3> QED
      BY <1>1, <1>3, <1>4, <3>1, <3>2, <3>3 DEF OnlyMoves, RequestTypes, logVars, pgVars
  <2> QED
    BY <2>1, <2>2, <2>3 DEF PlaceBid
<1> QED
  BY <1>1, <1>4, <1>5, LimitsKept

\* Pausing leaves a hot state of its type, with its number.
LEMMA PauseTypes ==
  ASSUME RequestTypes, Pause
  PROVE  /\ hot' = None \/ hot' \in [seq : Nat, paused : BOOLEAN]
         /\ hot = None => hot' = None
         /\ hot # None => hot' # None /\ hot'.seq = hot.seq
<1>1. CASE hot = None
  BY <1>1 DEF Pause
<1>2. CASE hot # None
  <2>1. hot \in [seq : Nat, paused : BOOLEAN] /\ hot' = [hot EXCEPT !.paused = TRUE]
    BY <1>2 DEF RequestTypes, Pause
  <2>2. hot' \in [seq : Nat, paused : BOOLEAN] /\ hot'.seq = hot.seq
    BY <2>1
  <2>3. hot' # None
    BY <2>2, BidRequestsAssumption
  <2> QED
    BY <1>2, <2>2, <2>3
<1> QED
  BY <1>1, <1>2

\* The script fails: the auction is paused and the request returns.
LEMMA ScriptFailsInv ==
  ASSUME LossyInv, NEW q \in Requests, ScriptFails(q)
  PROVE  LossyInv'
<1>1. /\ UNCHANGED <<now, tat, admitted, flight, idem, acked, pending, member, stream, logVars, settled, issued>>
      /\ At(q, "script") /\ Leave(q)
  BY DEF ScriptFails
<1>2. spent' \in Nat /\ (spent' = 0 => spent = 0)
  BY DEF ScriptFails, Spend, LossyInv, RequestTypes
<1>3. OnlyMoves(q) /\ BiddersKnown' /\ AcksFollowKafka' /\ PermitsKept'
  BY <1>1, <1>2, LeaveKeeps DEF At, Holding, logVars
<1>4. hot' = None \/ hot' \in [seq : Nat, paused : BOOLEAN]
  BY PauseTypes DEF ScriptFails, LossyInv
<1>5. RequestTypes'
  BY <1>1, <1>2, <1>3, <1>4 DEF LossyInv, OnlyMoves, RequestTypes, logVars
<1> QED
  BY <1>1, <1>3, <1>5, LimitsKept DEF LossyInv

\* A replay answers what the record says.
LEMMA ReplayInv ==
  ASSUME LossyInv, NEW q \in Requests, Replay(q)
  PROVE  LossyInv'
<1>1. /\ UNCHANGED <<now, tat, admitted, flight, redisVars, logVars, pgVars, issued, spent>>
      /\ At(q, "record")
  BY DEF Replay
<1>2. PICK answer \in {None, "acked", "durable"} :
        LeaveWith(q, answer) /\ (answer = "acked" => Bidder(q) \in acked)
  BY BidRequestsAssumption DEF Replay
<1>3. answer = "acked" => InLog(kafka, Bidder(q))
  BY <1>2 DEF LossyInv, AcksFollowKafka
<1>4. OnlyMoves(q) /\ BiddersKnown' /\ AcksFollowKafka' /\ PermitsKept'
  BY <1>1, <1>2, <1>3, LeaveWithKeeps DEF At, Holding, redisVars, logVars
<1>5. RequestTypes'
  BY <1>1, <1>4 DEF LossyInv, OnlyMoves, RequestTypes, redisVars, logVars, pgVars
<1> QED
  BY <1>1, <1>4, <1>5, LimitsKept DEF LossyInv

\* A latch is registered, unless the relay is unhealthy.
LEMMA RegisterWaiterInv ==
  ASSUME LossyInv, NEW q \in Requests, RegisterWaiter(q)
  PROVE  LossyInv'
<1>1. /\ UNCHANGED <<now, tat, admitted, flight, redisVars, logVars, pgVars, issued, spent>>
      /\ At(q, "decided")
  BY DEF RegisterWaiter
<1>2. OnlyMoves(q) /\ BiddersKnown' /\ AcksFollowKafka' /\ PermitsKept'
  <2>1. CASE LeaveWith(q, "durable")
    BY <1>1, <2>1, LeaveWithKeeps DEF At, Holding, redisVars, logVars
  <2>2. CASE Goto(q, "eager") /\ UNCHANGED inUse
    BY <1>1, <2>2, GotoKeeps DEF At, Holding, Steps, redisVars, logVars
  <2> QED
    BY <2>1, <2>2 DEF RegisterWaiter
<1>3. RequestTypes'
  BY <1>1, <1>2 DEF LossyInv, OnlyMoves, RequestTypes, redisVars, logVars, pgVars
<1> QED
  BY <1>1, <1>2, <1>3, LimitsKept DEF LossyInv

\* The record is read after the latch is there: an acknowledgement made since
\* is in the latch, one made before is in the record.
LEMMA EagerCheckInv ==
  ASSUME LossyInv, NEW q \in Requests, EagerCheck(q)
  PROVE  LossyInv'
<1>1. UNCHANGED <<now, tat, admitted, flight, redisVars, logVars, pgVars, issued>> /\ At(q, "eager")
  BY DEF EagerCheck
<1>2. spent' \in Nat /\ (spent' = 0 => spent = 0)
  BY DEF EagerCheck, Spend, LossyInv, RequestTypes
<1>3. OnlyMoves(q) /\ BiddersKnown' /\ AcksFollowKafka' /\ PermitsKept'
  <2>1. CASE Bidder(q) \in acked /\ LeaveWith(q, "acked")
    <3>1. InLog(kafka, Bidder(q))
      BY <2>1 DEF LossyInv, AcksFollowKafka
    <3> QED
      BY <1>1, <1>2, <2>1, <3>1, LeaveWithKeeps DEF At, Holding, redisVars, logVars
  <2>2. CASE Bidder(q) \notin acked /\ Goto(q, "ack") /\ UNCHANGED <<inUse, spent>>
    BY <1>1, <1>2, <2>2, GotoKeeps DEF At, Holding, Steps, redisVars, logVars
  <2>3. CASE Spend /\ Goto(q, "ack") /\ UNCHANGED inUse
    <3>1. spent' # 0
      BY <2>3 DEF Spend, LossyInv, RequestTypes
    <3> QED
      BY <1>1, <1>2, <2>3, <3>1, GotoKeeps DEF At, Holding, Steps, redisVars, logVars
  <2> QED
    BY <2>1, <2>2, <2>3 DEF EagerCheck
<1>4. RequestTypes'
  BY <1>1, <1>2, <1>3 DEF LossyInv, OnlyMoves, RequestTypes, redisVars, logVars, pgVars
<1> QED
  BY <1>1, <1>3, <1>4, LimitsKept DEF LossyInv

\* The latch answers or the time runs out.
LEMMA AwaitAckInv ==
  ASSUME LossyInv, NEW q \in Requests, AwaitAck(q)
  PROVE  LossyInv'
<1>1. /\ UNCHANGED <<now, tat, admitted, flight, redisVars, logVars, pgVars, issued, spent>>
      /\ At(q, "ack")
  BY DEF AwaitAck
<1>2. OnlyMoves(q) /\ BiddersKnown' /\ AcksFollowKafka' /\ PermitsKept'
  <2>1. CASE request[q].latch = "acked" /\ LeaveWith(q, "acked")
    <3>1. InLog(kafka, Bidder(q))
      BY <2>1 DEF LossyInv, AcksFollowKafka
    <3> QED
      BY <1>1, <2>1, <3>1, LeaveWithKeeps DEF At, Holding, redisVars, logVars
  <2>2. CASE LeaveWith(q, "durable")
    BY <1>1, <2>2, LeaveWithKeeps DEF At, Holding, redisVars, logVars
  <2> QED
    BY <2>1, <2>2 DEF AwaitAck
<1>3. RequestTypes'
  BY <1>1, <1>2 DEF LossyInv, OnlyMoves, RequestTypes, redisVars, logVars, pgVars
<1> QED
  BY <1>1, <1>2, <1>3, LimitsKept DEF LossyInv

-----------------------------------------------------------------------------
(* ... the shared cold start *)

\* All in the flight of q move to step pc, the others stay.
LEMMA FlightMoves ==
  ASSUME LossyInv, NEW q \in Requests, request[q].pc \in Holding, NEW pc \in {"done", "script"},
         NEW F,
         \A p \in InFlightOf(q) : /\ F[p] \in RequestState /\ F[p].pc = pc
                                  /\ F[p].bidder = request[p].bidder
                                  /\ F[p].latch = request[p].latch /\ F[p].answer = request[p].answer,
         request' = [p \in Requests |-> IF p \in InFlightOf(q) THEN F[p] ELSE request[p]],
         kafka' = kafka, acked' = acked, spent' = spent,
         inUse' = IF pc = "done" THEN inUse - Cardinality(InFlightOf(q)) ELSE inUse
  PROVE  /\ request' \in [Requests -> RequestState]
         /\ BiddersKnown' /\ AcksFollowKafka' /\ PermitsKept'
<1>1. request \in [Requests -> RequestState]
  BY DEF LossyInv, RequestTypes
<1>2. InFlightOf(q) \in SUBSET Holders
  BY DEF InFlightOf, Holders, At, Holding
<1>3. request' \in [Requests -> RequestState]
  BY <1>1
<1>4. ASSUME NEW p \in InFlightOf(q)
      PROVE  MovesTruly(p)
  <2>1. p \in Requests /\ request'[p] = F[p] /\ request[p].pc # "new"
    BY <1>2 DEF Holders, Holding
  <2>2. Bidder(p) \in Bidders
    BY <2>1 DEF LossyInv, BiddersKnown, At
  <2> QED
    BY <2>1, <2>2 DEF MovesTruly, Bidder
<1>5. \A p \in Requests : request'[p] = request[p] \/ MovesTruly(p)
  BY <1>4
<1>6. BiddersKnown' /\ AcksFollowKafka'
  BY <1>5, AcksStep DEF LossyInv
<1>7. PermitsKept'
  <2>1. /\ \A p \in InFlightOf(q) : request'[p].pc = pc /\ request[p].pc \in Holding
        /\ \A p \in Requests \ InFlightOf(q) : request'[p] = request[p]
    BY <1>2 DEF Holders
  <2>2. CASE pc = "done"
    BY <1>2, <2>1, <2>2, PermitsGiven DEF LossyInv, Holding
  <2>3. CASE pc = "script"
    BY <2>1, <2>3, PermitsStill DEF LossyInv, Holding
  <2> QED
    BY <2>2, <2>3
<1> QED
  BY <1>3, <1>6, <1>7

\* All in the flight return: one permit each is given back.
LEMMA AnswerKeeps ==
  ASSUME LossyInv, NEW q \in Requests, request[q].pc \in Holding, Answer(q),
         UNCHANGED <<kafka, acked, spent>>
  PROVE  /\ request' \in [Requests -> RequestState]
         /\ \A p \in Requests : request'[p] = request[p] \/ request'[p].pc = "done"
         /\ BiddersKnown' /\ AcksFollowKafka' /\ PermitsKept'
<1> DEFINE F == [p \in Requests |-> [request[p] EXCEPT !.pc = "done"]]
<1>1. request \in [Requests -> RequestState] /\ InFlightOf(q) \subseteq Requests
  BY DEF LossyInv, RequestTypes, InFlightOf
<1>2. ASSUME NEW p \in InFlightOf(q)
      PROVE  /\ F[p] \in RequestState /\ F[p].pc = "done" /\ F[p].bidder = request[p].bidder
             /\ F[p].latch = request[p].latch /\ F[p].answer = request[p].answer
  <2> DEFINE old == request[p]
  <2>1. old \in RequestState /\ F[p] = [old EXCEPT !.pc = "done"]
    BY <1>1
  <2> HIDE DEF old, F
  <2>2. F[p] \in RequestState
    BY <2>1 DEF RequestState, Steps
  <2>3. /\ F[p].pc = "done" /\ F[p].bidder = old.bidder
        /\ F[p].latch = old.latch /\ F[p].answer = old.answer
    BY <2>1 DEF RequestState
  <2> QED
    BY <2>2, <2>3 DEF old
<1>3. request' = [p \in Requests |-> IF p \in InFlightOf(q) THEN F[p] ELSE request[p]]
  BY <1>1 DEF Answer
<1> HIDE DEF F
<1>4. inUse' = inUse - Cardinality(InFlightOf(q))
  BY DEF Answer
<1>5. /\ request' \in [Requests -> RequestState]
      /\ BiddersKnown' /\ AcksFollowKafka' /\ PermitsKept'
  BY <1>2, <1>3, <1>4, FlightMoves
<1>6. \A p \in Requests : request'[p] = request[p] \/ request'[p].pc = "done"
  BY <1>2, <1>3
<1> QED
  BY <1>5, <1>6

\* All in the flight go back to the script, their permits in hand.
LEMMA RetryKeeps ==
  ASSUME LossyInv, NEW q \in Requests, request[q].pc \in Holding,
         NEW snap \in Nat \cup {None}, Retry(q, snap),
         UNCHANGED <<kafka, acked, spent>>
  PROVE  /\ request' \in [Requests -> RequestState]
         /\ \A p \in Requests : \/ request'[p] = request[p]
                                \/ request'[p].pc = "script" /\ request'[p].snap = snap
         /\ BiddersKnown' /\ AcksFollowKafka' /\ PermitsKept'
<1> DEFINE F == [p \in Requests |-> [request[p] EXCEPT !.pc = "script", !.snap = snap]]
<1>1. request \in [Requests -> RequestState] /\ InFlightOf(q) \subseteq Requests
  BY DEF LossyInv, RequestTypes, InFlightOf
<1>2. ASSUME NEW p \in InFlightOf(q)
      PROVE  /\ F[p] \in RequestState /\ F[p].pc = "script" /\ F[p].bidder = request[p].bidder
             /\ F[p].snap = snap
             /\ F[p].latch = request[p].latch /\ F[p].answer = request[p].answer
  <2> DEFINE old == request[p]
  <2>1. old \in RequestState /\ F[p] = [old EXCEPT !.pc = "script", !.snap = snap]
    BY <1>1
  <2> HIDE DEF old, F
  <2>2. F[p] \in RequestState
    BY <2>1 DEF RequestState, Steps, Holding
  <2>3. /\ F[p].pc = "script" /\ F[p].bidder = old.bidder /\ F[p].snap = snap
        /\ F[p].latch = old.latch /\ F[p].answer = old.answer
    BY <2>1 DEF RequestState
  <2> QED
    BY <2>2, <2>3 DEF old
<1>3. request' = [p \in Requests |-> IF p \in InFlightOf(q) THEN F[p] ELSE request[p]]
  BY <1>1 DEF Retry
<1> HIDE DEF F
<1>4. inUse' = inUse
  BY DEF Retry
<1>5. /\ request' \in [Requests -> RequestState]
      /\ BiddersKnown' /\ AcksFollowKafka' /\ PermitsKept'
  BY <1>2, <1>3, <1>4, FlightMoves
<1>6. \A p \in Requests : \/ request'[p] = request[p]
                          \/ request'[p].pc = "script" /\ request'[p].snap = snap
  BY <1>2, <1>3
<1> QED
  BY <1>5, <1>6

\* The leader looks for decisions not acknowledged.
LEMMA CheckPendingInv ==
  ASSUME LossyInv, NEW q \in Requests, CheckPending(q)
  PROVE  LossyInv'
<1>1. /\ UNCHANGED <<now, tat, admitted, idem, acked, pending, member, stream, logVars, settled, issued, spent>>
      /\ request[q].pc = "pending" /\ request[q].pc \in Holding
  BY DEF CheckPending, At, Holding
<1>2. /\ request' \in [Requests -> RequestState]
      /\ BiddersKnown' /\ AcksFollowKafka' /\ PermitsKept'
  <2>1. CASE Goto(q, "replay") /\ UNCHANGED inUse
    BY <1>1, <2>1, GotoKeeps DEF At, Holding, Steps, OnlyMoves, logVars
  <2>2. CASE Retry(q, None)
    BY <1>1, <2>2, RetryKeeps DEF logVars
  <2>3. CASE Answer(q)
    BY <1>1, <2>3, AnswerKeeps DEF logVars
  <2> QED
    BY <2>1, <2>2, <2>3 DEF CheckPending
<1>3. hot' = None \/ hot' \in [seq : Nat, paused : BOOLEAN]
  BY PauseTypes DEF CheckPending, LossyInv, RequestTypes
<1>4. RequestTypes'
  BY <1>1, <1>2, <1>3 DEF LossyInv, RequestTypes, logVars
<1> QED
  BY <1>1, <1>2, <1>4, LimitsKept DEF LossyInv

\* The leader looks for a completed bid.
LEMMA CompletedReplayInv ==
  ASSUME LossyInv, NEW q \in Requests, CompletedReplay(q)
  PROVE  LossyInv'
<1>1. /\ UNCHANGED <<now, tat, admitted, redisVars, logVars, pgVars, issued, spent>>
      /\ request[q].pc = "replay" /\ request[q].pc \in Holding
  BY DEF CompletedReplay, At, Holding
<1>2. /\ request' \in [Requests -> RequestState]
      /\ BiddersKnown' /\ AcksFollowKafka' /\ PermitsKept'
  <2>1. CASE Goto(q, "load") /\ UNCHANGED inUse
    BY <1>1, <2>1, GotoKeeps DEF At, Holding, Steps, OnlyMoves, redisVars, logVars
  <2>2. CASE Answer(q)
    BY <1>1, <2>2, AnswerKeeps DEF redisVars, logVars
  <2> QED
    BY <2>1, <2>2 DEF CompletedReplay
<1>3. RequestTypes'
  BY <1>1, <1>2 DEF LossyInv, RequestTypes, redisVars, logVars, pgVars
<1> QED
  BY <1>1, <1>2, <1>3, LimitsKept DEF LossyInv

\* The number of the last settled decision.
LEMMA EngineSeqIsNat ==
  ASSUME RequestTypes
  PROVE  EngineSeq \in Nat
<1>1. CASE settled = 0
  BY <1>1 DEF EngineSeq
<1>2. CASE settled # 0
  <2>1. kafka[settled] \in Decision
    BY <1>2 DEF RequestTypes
  <2> QED
    BY <1>2, <2>1 DEF EngineSeq, Decision
<1> QED
  BY <1>1, <1>2

\* Loading a snapshot changes the step and the snapshot of the leader only.
LEMMA LoadMoves ==
  ASSUME RequestTypes, NEW q \in Requests, NEW snap \in Nat,
         request' = [request EXCEPT ![q].pc = "safe", ![q].snap = snap]
  PROVE  /\ OnlyMoves(q) /\ request'[q].pc = "safe" /\ request'[q].bidder = request[q].bidder
         /\ request'[q].latch = request[q].latch /\ request'[q].answer = request[q].answer
<1> DEFINE old == request[q]
           new == [old EXCEPT !.pc = "safe", !.snap = snap]
<1>1. request \in [Requests -> RequestState] /\ old \in RequestState
  BY DEF RequestTypes
<1>2. request' = [request EXCEPT ![q] = new]
  BY <1>1 DEF RequestState
<1> HIDE DEF old
<1>3. new \in RequestState
  BY <1>1 DEF RequestState, Steps, Holding
<1>4. /\ new.pc = "safe" /\ new.bidder = old.bidder
      /\ new.latch = old.latch /\ new.answer = old.answer
  BY <1>1 DEF RequestState
<1> HIDE DEF new
<1>5. request' \in [Requests -> RequestState]
  BY <1>1, <1>2, <1>3
<1>6. request'[q] = new /\ \A p \in Requests : p # q => request'[p] = request[p]
  BY <1>1, <1>2
<1> QED
  BY <1>4, <1>5, <1>6 DEF OnlyMoves, old

\* The leader loads the snapshot, unless the auction is paused.
LEMMA LoadSnapshotInv ==
  ASSUME LossyInv, NEW q \in Requests, LoadSnapshot(q)
  PROVE  LossyInv'
<1>1. /\ UNCHANGED <<now, tat, admitted, redisVars, logVars, pgVars, issued, spent>>
      /\ request[q].pc = "load" /\ request[q].pc \in Holding
  BY DEF LoadSnapshot, At, Holding
<1>2. /\ request' \in [Requests -> RequestState]
      /\ BiddersKnown' /\ AcksFollowKafka' /\ PermitsKept'
  <2>1. CASE Answer(q)
    BY <1>1, <2>1, AnswerKeeps DEF redisVars, logVars
  <2>2. CASE /\ request' = [request EXCEPT ![q].pc = "safe", ![q].snap = EngineSeq]
             /\ UNCHANGED inUse
    <3>1. EngineSeq \in Nat
      BY EngineSeqIsNat DEF LossyInv
    <3>2. /\ OnlyMoves(q) /\ request'[q].pc = "safe" /\ request'[q].bidder = request[q].bidder
          /\ request'[q].latch = request[q].latch /\ request'[q].answer = request[q].answer
      BY <2>2, <3>1, LoadMoves DEF LossyInv
    <3>3. MovesTruly(q)
      BY <1>1, <3>2 DEF LossyInv, BiddersKnown, MovesTruly, At, Bidder
    <3>4. BiddersKnown' /\ AcksFollowKafka'
      BY <1>1, <3>2, <3>3, AcksStep DEF LossyInv, OnlyMoves, redisVars, logVars
    <3>5. PermitsKept'
      BY <1>1, <2>2, <3>2, PermitsStill DEF LossyInv, OnlyMoves, Holding
    <3> QED
      BY <3>2, <3>4, <3>5 DEF OnlyMoves
  <2> QED
    BY <2>1, <2>2 DEF LoadSnapshot
<1>3. RequestTypes'
  BY <1>1, <1>2 DEF LossyInv, RequestTypes, redisVars, logVars, pgVars
<1> QED
  BY <1>1, <1>2, <1>3, LimitsKept DEF LossyInv

\* The leader lets the snapshot seed the hot state, or pauses the auction.
LEMMA EnsureCanSeedInv ==
  ASSUME LossyInv, NEW q \in Requests, EnsureCanSeed(q)
  PROVE  LossyInv'
<1>1. /\ UNCHANGED <<now, tat, admitted, idem, acked, pending, member, stream, logVars, settled, issued, spent>>
      /\ request[q].pc = "safe" /\ request[q].pc \in Holding
  BY DEF EnsureCanSeed, At, Holding
<1>2. /\ request' \in [Requests -> RequestState]
      /\ BiddersKnown' /\ AcksFollowKafka' /\ PermitsKept'
  <2>1. CASE Retry(q, request[q].snap)
    <3>1. request[q].snap \in Nat \cup {None}
      BY DEF LossyInv, RequestTypes, RequestState
    <3> QED
      BY <1>1, <2>1, <3>1, RetryKeeps DEF logVars
  <2>2. CASE Answer(q)
    BY <1>1, <2>2, AnswerKeeps DEF logVars
  <2> QED
    BY <2>1, <2>2 DEF EnsureCanSeed
<1>3. hot' = None \/ hot' \in [seq : Nat, paused : BOOLEAN]
  BY PauseTypes DEF EnsureCanSeed, LossyInv, RequestTypes
<1>4. RequestTypes'
  BY <1>1, <1>2, <1>3 DEF LossyInv, RequestTypes, logVars
<1> QED
  BY <1>1, <1>2, <1>4, LimitsKept DEF LossyInv

-----------------------------------------------------------------------------
(* ... and the rest of the system *)

\* A signal fills the empty latches of the requests of b that wait for it.
LEMMA SignalMoves ==
  ASSUME RequestTypes, NEW b, NEW outcome \in {"acked", "failed"}, Signal(b, outcome)
  PROVE  /\ request' \in [Requests -> RequestState]
         /\ \A p \in Requests :
              /\ request'[p].pc = request[p].pc /\ request'[p].bidder = request[p].bidder
              /\ request'[p].snap = request[p].snap /\ request'[p].answer = request[p].answer
              /\ \/ request'[p].latch = request[p].latch
                 \/ Bidder(p) = b /\ request[p].pc \in {"eager", "ack"} /\ request'[p].latch = outcome
              /\ Bidder(p) = b /\ request[p].pc = "ack" /\ request[p].latch = None =>
                   request'[p].latch = outcome
<1> DEFINE Woken(p) == Bidder(p) = b /\ request[p].pc \in {"eager", "ack"} /\ request[p].latch = None
<1>1. request \in [Requests -> RequestState]
  BY DEF RequestTypes
<1>2. ASSUME NEW p \in Requests
      PROVE  /\ request'[p] \in RequestState
             /\ request'[p].pc = request[p].pc /\ request'[p].bidder = request[p].bidder
             /\ request'[p].snap = request[p].snap /\ request'[p].answer = request[p].answer
             /\ request'[p].latch = IF Woken(p) THEN outcome ELSE request[p].latch
  <2> DEFINE old == request[p]
             new == [old EXCEPT !.latch = outcome]
  <2>1. old \in RequestState /\ request'[p] = IF Woken(p) THEN new ELSE old
    BY <1>1 DEF Signal
  <2> HIDE DEF old, Woken
  <2>2. new \in RequestState
    BY <2>1 DEF RequestState
  <2>3. /\ new.pc = old.pc /\ new.bidder = old.bidder /\ new.snap = old.snap
        /\ new.latch = outcome /\ new.answer = old.answer
    BY <2>1 DEF RequestState
  <2> HIDE DEF new
  <2> QED
    BY <2>1, <2>2, <2>3 DEF old
<1>3. request' \in [Requests -> RequestState]
  BY <1>2 DEF Signal
<1> QED
  BY <1>2, <1>3

\* The clock moves on.
LEMMA TickInv ==
  ASSUME LossyInv, Tick
  PROVE  LossyInv'
<1>1. /\ UNCHANGED <<tat, admitted, inUse, request, flight, redisVars, logVars, pgVars, issued, spent>>
      /\ now' = now + 1
  BY DEF Tick
<1>2. RequestTypes'
  BY <1>1 DEF LossyInv, RequestTypes, redisVars, logVars, pgVars
<1>3. BiddersKnown' /\ AcksFollowKafka'
  BY <1>1, AcksStep DEF LossyInv, redisVars, logVars
<1>4. PermitsKept'
  BY <1>1, PermitsStill DEF LossyInv
<1> QED
  BY <1>1, <1>2, <1>3, <1>4, LimitsKept DEF LossyInv

\* The relayed decision is in Kafka before anyone hears of it.
LEMMA RelayInv ==
  ASSUME LossyInv, Relay
  PROVE  LossyInv'
<1> DEFINE d == Head(stream)
<1> USE DEF LossyInv
<1>1. /\ UNCHANGED <<gateVars, flight, hot, idem, member, pgVars, issued>>
      /\ stream # <<>> /\ stream' = Tail(stream) /\ kafka' = Append(kafka, d)
  BY DEF Relay
<1>2. spent' \in Nat /\ (spent' = 0 => spent = 0)
  BY DEF Relay, Spend, RequestTypes
<1>3. d \in Decision /\ d.bidder \in Bidders
  <2>1. stream \in Seq(Decision)
    BY DEF RequestTypes
  <2>2. d \in Decision
    BY <1>1, <2>1
  <2> HIDE DEF d
  <2> QED
    BY <2>2 DEF Decision
<1>4. \/ acked' = acked \cup {d.bidder} /\ Signal(d.bidder, "acked") /\ spent' = spent
      \/ spent' # 0 /\ acked' = acked /\ request' = request
  BY DEF Relay, Spend, RequestTypes
<1> HIDE DEF d
<1>5. /\ Len(stream') = Len(stream) - 1 /\ Len(kafka') = Len(kafka) + 1
      /\ stream' \in Seq(Decision) /\ kafka' \in Seq(Decision)
      /\ kafka'[Len(kafka) + 1] = d /\ \A i \in 1 .. Len(kafka) : kafka'[i] = kafka[i]
      /\ Len(kafka) \in Nat /\ Len(stream) \in Nat
  BY <1>1, <1>3 DEF RequestTypes
<1>6. (\A b : InLog(kafka, b) => InLog(kafka', b)) /\ InLog(kafka', d.bidder)
  BY <1>5 DEF InLog
<1>7. /\ request' \in [Requests -> RequestState]
      /\ \A p \in Requests :
           /\ request'[p].pc = request[p].pc /\ request'[p].bidder = request[p].bidder
           /\ request'[p].snap = request[p].snap /\ request'[p].answer = request[p].answer
           /\ \/ request'[p].latch = request[p].latch
              \/ Bidder(p) = d.bidder /\ request[p].pc \in {"eager", "ack"} /\ request'[p].latch = "acked"
           /\ acked' # acked /\ Bidder(p) = d.bidder /\ request[p].pc = "ack" /\ request[p].latch = None =>
                request'[p].latch = "acked"
  BY <1>4, SignalMoves DEF RequestTypes
<1>8. RequestTypes'
  <2>1. Len(kafka') + Len(stream') <= Len(issued') /\ settled' <= Len(kafka') /\ settled' \in Nat
    BY <1>1, <1>5 DEF RequestTypes, pgVars
  <2>2. acked' \subseteq Bidders
    BY <1>3, <1>4 DEF RequestTypes
  <2> QED
    BY <1>1, <1>2, <1>5, <1>7, <2>1, <2>2 DEF RequestTypes, gateVars, pgVars
<1>9. BiddersKnown'
  BY <1>7 DEF BiddersKnown, At, Bidder
<1>10. PermitsKept'
  BY <1>1, <1>7, PermitsStill DEF gateVars
<1>11. AcksFollowKafka'
  <2>1. \A b \in acked' : InLog(kafka', b)
    BY <1>4, <1>6 DEF AcksFollowKafka
  <2>2. ASSUME NEW p \in Requests, request'[p].latch = "acked" \/ request'[p].answer = "acked"
        PROVE  InLog(kafka', request'[p].bidder)
    <3>1. InLog(kafka, Bidder(p)) \/ Bidder(p) = d.bidder
      BY <1>7, <2>2 DEF AcksFollowKafka
    <3>2. InLog(kafka', request[p].bidder)
      BY <1>6, <3>1 DEF Bidder
    <3> QED
      BY <1>7, <3>2
  <2>3. spent' = 0 => \A p \in Requests : request'[p].latch # "failed"
    BY <1>2, <1>7 DEF AcksFollowKafka
  <2>4. ASSUME NEW p \in Requests, request'[p].pc = "ack", request'[p].bidder \in acked', spent' = 0
        PROVE  request'[p].latch = "acked"
    <3>1. request[p].pc = "ack" /\ Bidder(p) \in acked' /\ spent = 0 /\ request[p].latch # "failed"
      BY <1>2, <1>7, <2>4 DEF Bidder, AcksFollowKafka
    <3>2. CASE Bidder(p) \in acked
      <4>1. request[p].latch = "acked"
        BY <3>1, <3>2 DEF AcksFollowKafka, NoLostWakeup, At
      <4> QED
        BY <1>7, <4>1
    <3>3. CASE Bidder(p) \notin acked
      <4>1. acked' # acked /\ Bidder(p) = d.bidder
        BY <1>4, <2>4, <3>1, <3>3
      <4>2. request[p].latch \in {None, "acked"}
        BY <3>1 DEF RequestTypes, RequestState
      <4> QED
        BY <1>7, <3>1, <4>1, <4>2
    <3> QED
      BY <3>2, <3>3
  <2>5. NoLostWakeup'
    BY <2>4 DEF NoLostWakeup, At, Bidder
  <2> QED
    BY <2>1, <2>2, <2>3, <2>5 DEF AcksFollowKafka, Bidder
<1> QED
  BY <1>1, <1>8, <1>9, <1>10, <1>11, LimitsKept DEF gateVars

\* A failed append reaches the latches as a failure.
LEMMA RelayFailsInv ==
  ASSUME LossyInv, RelayFails
  PROVE  LossyInv'
<1> USE DEF LossyInv
<1>1. /\ UNCHANGED <<gateVars, flight, redisVars, kafka, pgVars, issued>>
      /\ spent' \in Nat /\ spent' # 0
  BY DEF RelayFails, Spend, RequestTypes
<1>2. /\ request' \in [Requests -> RequestState]
      /\ \A p \in Requests :
           /\ request'[p].pc = request[p].pc /\ request'[p].bidder = request[p].bidder
           /\ request'[p].answer = request[p].answer
           /\ \/ request'[p].latch = request[p].latch
              \/ request[p].pc \in {"eager", "ack"} /\ request'[p].latch = "failed"
  BY SignalMoves DEF RelayFails
<1>3. RequestTypes'
  BY <1>1, <1>2 DEF RequestTypes, gateVars, redisVars, pgVars
<1>4. BiddersKnown'
  BY <1>2 DEF BiddersKnown, At, Bidder
<1>5. PermitsKept'
  BY <1>1, <1>2, PermitsStill DEF gateVars
<1>6. AcksFollowKafka'
  <2>1. \A b \in acked' : InLog(kafka', b)
    BY <1>1 DEF AcksFollowKafka, InLog, redisVars
  <2>2. ASSUME NEW p \in Requests, request'[p].latch = "acked" \/ request'[p].answer = "acked"
        PROVE  InLog(kafka', request'[p].bidder)
    BY <1>1, <1>2, <2>2 DEF AcksFollowKafka, InLog, Bidder
  <2> QED
    BY <1>1, <2>1, <2>2 DEF AcksFollowKafka, NoLostWakeup, Bidder
<1> QED
  BY <1>1, <1>3, <1>4, <1>5, <1>6, LimitsKept DEF gateVars

\* The settlement worker settles one decision more.
LEMMA SettleInv ==
  ASSUME LossyInv, Settle
  PROVE  LossyInv'
<1>1. /\ UNCHANGED <<gateVars, request, flight, redisVars, logVars, paused, issued, spent>>
      /\ settled' = settled + 1 /\ settled < Len(kafka)
  BY DEF Settle
<1>2. settled' \in Nat /\ settled' <= Len(kafka)
  BY <1>1 DEF LossyInv, RequestTypes
<1>3. RequestTypes'
  BY <1>1, <1>2 DEF LossyInv, RequestTypes, gateVars, redisVars, logVars
<1>4. BiddersKnown' /\ AcksFollowKafka'
  BY <1>1, AcksStep DEF LossyInv, redisVars, logVars
<1>5. PermitsKept'
  BY <1>1, PermitsStill DEF LossyInv, gateVars
<1> QED
  BY <1>1, <1>3, <1>4, <1>5, LimitsKept DEF LossyInv, gateVars

\* A cached membership expires.
LEMMA MembershipExpiresInv ==
  ASSUME LossyInv, NEW b \in Bidders, MembershipExpires(b)
  PROVE  LossyInv'
<1>1. /\ UNCHANGED <<gateVars, request, flight, hot, idem, acked, pending, stream, logVars, pgVars, issued>>
      /\ spent' \in Nat /\ spent' # 0
  BY DEF MembershipExpires, Spend, LossyInv, RequestTypes
<1>2. RequestTypes'
  BY <1>1 DEF LossyInv, RequestTypes, gateVars, logVars, pgVars
<1>3. BiddersKnown' /\ AcksFollowKafka'
  BY <1>1, AcksStep DEF LossyInv, logVars
<1>4. PermitsKept'
  BY <1>1, PermitsStill DEF LossyInv, gateVars
<1> QED
  BY <1>1, <1>2, <1>3, <1>4, LimitsKept DEF LossyInv, gateVars

\* Redis evicts the hot state only.
LEMMA LoseStateInv ==
  ASSUME LossyInv, LoseState
  PROVE  LossyInv'
<1>1. /\ UNCHANGED <<gateVars, request, flight, idem, acked, pending, member, stream, logVars, pgVars, issued>>
      /\ spent' \in Nat /\ spent' # 0 /\ hot' = None
  BY DEF LoseState, Spend, LossyInv, RequestTypes
<1>2. RequestTypes'
  BY <1>1 DEF LossyInv, RequestTypes, gateVars, logVars, pgVars
<1>3. BiddersKnown' /\ AcksFollowKafka'
  BY <1>1, AcksStep DEF LossyInv, logVars
<1>4. PermitsKept'
  BY <1>1, PermitsStill DEF LossyInv, gateVars
<1> QED
  BY <1>1, <1>2, <1>3, <1>4, LimitsKept DEF LossyInv, gateVars

\* Redis loses all it has: records and limits go together.
LEMMA LoseRedisInv ==
  ASSUME LossyInv, LoseRedis
  PROVE  LossyInv'
<1>1. /\ UNCHANGED <<now, inUse, request, flight, logVars, pgVars, issued>>
      /\ spent' \in Nat /\ spent' # 0 /\ hot' = None
      /\ idem' = {} /\ acked' = {} /\ stream' = <<>>
  BY DEF LoseRedis, Spend, LossyInv, RequestTypes
<1>2. tat' = [k \in Keys |-> 0] /\ admitted' = [k \in Keys |-> <<>>]
  BY DEF LoseRedis, LossyInv, RequestTypes
<1>3. Len(kafka') + Len(stream') <= Len(issued') /\ stream' \in Seq(Decision)
  <2>1. Len(kafka) \in Nat /\ Len(stream) \in Nat /\ Len(issued) \in Nat /\ Len(<<>>) = 0
    BY DEF LossyInv, RequestTypes
  <2> QED
    BY <1>1, <2>1 DEF LossyInv, RequestTypes, logVars
<1>4. admitted' \in [Keys -> Seq(Nat)]
  BY <1>2
<1>5. RequestTypes'
  BY <1>1, <1>2, <1>3, <1>4 DEF LossyInv, RequestTypes, logVars, pgVars
<1>6. BiddersKnown' /\ AcksFollowKafka'
  BY <1>1, AcksStep DEF LossyInv, logVars
<1>7. PermitsKept'
  BY <1>1, PermitsStill DEF LossyInv
<1> QED
  BY <1>2, <1>5, <1>6, <1>7, LimitsLost DEF LossyInv, NoCalls

\* It holds at the start...
LEMMA LossyInit == Init => LossyInv
<1> SUFFICES ASSUME Init PROVE LossyInv
  OBVIOUS
<1>1. New \in RequestState /\ New.pc = "new" /\ New.latch = None /\ New.answer = None
  BY DEF New, RequestState, Steps
<1>2. request = [q \in Requests |-> New] /\ \A q \in Requests : request[q] = New
  BY DEF Init
<1>3. kafka = <<>> /\ stream = <<>> /\ issued = <<>> /\ settled = 0 /\ acked = {} /\ spent = 0
  BY DEF Init
<1>4. NoCalls
  BY DEF Init, NoCalls, Keys
<1>5. RequestTypes
  <2>1. request \in [Requests -> RequestState]
    BY <1>1, <1>2
  <2>2. tat \in [Keys -> Nat] /\ admitted \in [Keys -> Seq(Nat)]
    BY <1>4 DEF NoCalls
  <2>3. /\ Len(kafka) + Len(stream) <= Len(issued) /\ settled <= Len(kafka)
        /\ stream \in Seq(Decision) /\ kafka \in Seq(Decision) /\ issued \in Seq(Decision)
    BY <1>3
  <2> QED
    BY <2>1, <2>2, <2>3 DEF Init, RequestTypes
<1>6. BiddersKnown
  BY <1>1, <1>2 DEF BiddersKnown, At
<1>7. PermitsKept
  <2>1. Holders = {}
    BY <1>1, <1>2 DEF Holders, Holding
  <2> QED
    BY <2>1, FS_EmptySet, BidRequestsAssumption DEF Init, PermitsKept
<1>8. AcksFollowKafka
  <2>1. None # "acked" /\ None # "failed"
    BY BidRequestsAssumption
  <2> QED
    BY <1>1, <1>2, <1>3, <2>1 DEF AcksFollowKafka, NoLostWakeup, At
<1>9. TatCounts /\ RateBounded
  BY <1>4, NoCallsInv
<1> QED
  BY <1>5, <1>6, <1>7, <1>8, <1>9 DEF LossyInv

\* ... and every step keeps it.
LEMMA LossyStep == LossyInv /\ [LossyNext]_vars => LossyInv'
<1> SUFFICES ASSUME LossyInv, [LossyNext]_vars PROVE LossyInv'
  OBVIOUS
<1>1. CASE \E q \in Requests : RequestStep(q)
  BY <1>1, AdmitInv, CheckRedisLimitsInv, AcquireLocalPermitInv, RequireActiveMembershipInv,
     PlaceBidInv, ScriptFailsInv, ReplayInv, RegisterWaiterInv, EagerCheckInv, AwaitAckInv,
     CheckPendingInv, CompletedReplayInv, LoadSnapshotInv, EnsureCanSeedInv
     DEF RequestStep
<1>2. CASE Background
  BY <1>2, TickInv, RelayInv, RelayFailsInv, SettleInv, MembershipExpiresInv DEF Background
<1>3. CASE LoseState \/ LoseRedis
  BY <1>3, LoseStateInv, LoseRedisInv
<1>4. CASE UNCHANGED vars
  <2>1. UNCHANGED <<gateVars, request, redisVars, logVars, pgVars, issued, spent>>
    BY <1>4 DEF vars
  <2>2. RequestTypes'
    BY <2>1 DEF LossyInv, RequestTypes, gateVars, redisVars, logVars, pgVars
  <2>3. BiddersKnown' /\ AcksFollowKafka'
    BY <2>1, AcksStep DEF LossyInv, redisVars, logVars
  <2>4. PermitsKept'
    BY <2>1, PermitsStill DEF LossyInv, gateVars
  <2> QED
    BY <2>1, <2>2, <2>3, <2>4, LimitsKept DEF LossyInv, gateVars
<1> QED
  BY <1>1, <1>2, <1>3, <1>4 DEF LossyNext

\* What holds whenever Redis is lost holds when it is lost only once all is
\* settled.
LEMMA NextIsLossy == Next => LossyNext
BY DEF Next, LossyNext

\* The inductive invariant, whenever Redis is lost.
THEOREM LossyInvariant == Spec \/ LossySpec => []LossyInv
<1>1. [Next]_vars => [LossyNext]_vars
  BY NextIsLossy
<1>2. LossySpec => []LossyInv
  BY LossyInit, LossyStep, PTL DEF LossySpec
<1>3. Spec => []LossyInv
  BY LossyInit, LossyStep, <1>1, PTL DEF Spec
<1> QED
  BY <1>2, <1>3

\* No path through the handler loses a permit or gives it back twice, the
\* answers of a shared cold start included: the permits taken are always those
\* of the requests past the semaphore (acquireLocalPermit, PlaceBid's deferred
\* Release).
THEOREM PermitsStayMatched == Spec \/ LossySpec => []PermitsMatchRequests
<1>1. LossyInv => PermitsMatchRequests
  BY DEF LossyInv, PermitsKept, Holders, PermitsMatchRequests
<1> QED
  BY LossyInvariant, <1>1, PTL

\* An answer KAFKA_ACKED is always the truth and no acknowledgement is missed,
\* whatever Redis, the relay and the settlement worker do while the request
\* waits (waitKafkaAck).
THEOREM AcksStayTrue == Spec \/ LossySpec => []AcksAreTrue
<1>1. LossyInv => AcksAreTrue
  BY DEF LossyInv, AcksFollowKafka, AcksAreTrue, AckedIsInKafka, InLog
<1> QED
  BY LossyInvariant, <1>1, PTL

\* The calls a limiter key lets through between any two times are at most the
\* burst and one per emission interval, although requests are evaluated in any
\* order of the clocks they read (bidAdmissionGCRAScript).
THEOREM RatesStayBounded == Spec \/ LossySpec => []RateBounded
<1>1. LossyInv => RateBounded
  BY DEF LossyInv
<1> QED
  BY LossyInvariant, <1>1, PTL

-----------------------------------------------------------------------------
(* One decision for each bid, when all is settled before Redis is lost *)

\* What a move of the request p must respect for its snapshot to stay one of
\* an auction that decided nothing.
MovesEmpty(p) ==
  /\ request'[p].pc = "script" /\ request'[p].snap # None =>
       request'[p].snap = 0 /\ (hot' = None => issued' = <<>>)
  /\ request'[p].pc \in {"new", "user", "auction", "permit", "acl"} => request'[p].snap = None

\* The hot state counts as before, and no decision is made.
HotKeeps ==
  /\ UNCHANGED <<idem, issued, settled>>
  /\ hot = None => hot' = None
  /\ hot # None => hot' # None /\ hot'.seq = hot.seq

\* Steps that make no decision keep what is decided, if they move requests so.
LEMMA NothingDecided ==
  ASSUME DecisionsInv, HotKeeps,
         \A p \in Requests : \/ request'[p] = request[p]
                             \/ MovesEmpty(p)
  PROVE  StateIsIssued' /\ SnapshotsAreEmpty' /\ DecidedOnce'
<1>1. StateIsIssued'
  BY DEF DecisionsInv, HotKeeps, StateIsIssued
<1>2. DecidedOnce'
  BY DEF DecisionsInv, HotKeeps, DecidedOnce
<1>3. SnapshotsAreEmpty'
  BY DEF DecisionsInv, HotKeeps, SnapshotsAreEmpty, MovesEmpty, At
<1> QED
  BY <1>1, <1>2, <1>3

\* A request that goes on elsewhere than to the script takes its snapshot along.
LEMMA GotoKeepsEmpty ==
  ASSUME DecisionsInv, NEW q \in Requests, NEW pc \in Steps, Goto(q, pc), HotKeeps,
         \/ pc \in Steps \ {"new", "user", "auction", "permit", "acl", "script"}
         \/ /\ request[q].pc \in {"new", "user", "auction", "permit", "acl"}
  PROVE  StateIsIssued' /\ SnapshotsAreEmpty' /\ DecidedOnce'
<1>1. OnlyMoves(q) /\ MovesTo(q, pc)
  BY GotoMoves DEF DecisionsInv, LossyInv
<1>2. MovesEmpty(q)
  BY <1>1 DEF DecisionsInv, SnapshotsAreEmpty, MovesTo, MovesEmpty
<1> QED
  BY <1>1, <1>2, NothingDecided DEF OnlyMoves

\* A request that returns reaches the script no more.
LEMMA LeaveWithKeepsEmpty ==
  ASSUME DecisionsInv, NEW q \in Requests, NEW answer \in {None, "acked", "durable"},
         LeaveWith(q, answer), HotKeeps
  PROVE  StateIsIssued' /\ SnapshotsAreEmpty' /\ DecidedOnce'
<1>1. OnlyMoves(q) /\ request'[q].pc = "done"
  BY LeaveWithMoves DEF DecisionsInv, LossyInv
<1> QED
  BY <1>1, NothingDecided DEF OnlyMoves, MovesEmpty

\* A request arrives without a snapshot.
LEMMA AdmitDecides ==
  ASSUME DecisionsInv, NEW q \in Requests, NEW b \in Bidders, Admit(q, b)
  PROVE  StateIsIssued' /\ SnapshotsAreEmpty' /\ DecidedOnce'
<1>1. HotKeeps
  BY DEF Admit, HotKeeps, redisVars, pgVars
<1>2. request \in [Requests -> RequestState] /\ request[q].snap = None
  BY DEF DecisionsInv, LossyInv, RequestTypes, SnapshotsAreEmpty, Admit, At
<1>3. request'[q].snap = None /\ request'[q].pc \in {"done", "user"}
  BY <1>2 DEF Admit, RequestState
<1>4. \A p \in Requests : p # q => request'[p] = request[p]
  BY <1>2 DEF Admit
<1> QED
  BY <1>1, <1>3, <1>4, NothingDecided DEF MovesEmpty

\* The steps up to the script.
LEMMA AdmissionDecides ==
  ASSUME DecisionsInv, NEW q \in Requests,
         CheckRedisLimits(q) \/ AcquireLocalPermit(q) \/ RequireActiveMembership(q)
  PROVE  StateIsIssued' /\ SnapshotsAreEmpty' /\ DecidedOnce'
<1>1. HotKeeps
  BY DEF CheckRedisLimits, AcquireLocalPermit, RequireActiveMembership, HotKeeps, redisVars, pgVars
<1>2. PICK pc \in Steps : Goto(q, pc)
  BY DEF CheckRedisLimits, EvalGCRALimit, AcquireLocalPermit, RequireActiveMembership, Leave, Steps, Holding
<1>3. request[q].pc \in {"new", "user", "auction", "permit", "acl"}
  BY DEF CheckRedisLimits, AcquireLocalPermit, RequireActiveMembership, At
<1> QED
  BY <1>1, <1>2, <1>3, GotoKeepsEmpty

\* The steps of the wait for the acknowledgement.
LEMMA WaitDecides ==
  ASSUME DecisionsInv, NEW q \in Requests,
         Replay(q) \/ RegisterWaiter(q) \/ EagerCheck(q) \/ AwaitAck(q)
  PROVE  StateIsIssued' /\ SnapshotsAreEmpty' /\ DecidedOnce'
<1>1. HotKeeps
  BY DEF Replay, RegisterWaiter, EagerCheck, AwaitAck, HotKeeps, redisVars, pgVars
<1>2. \/ \E answer \in {None, "acked", "durable"} : LeaveWith(q, answer)
      \/ \E pc \in {"eager", "ack"} : Goto(q, pc)
  BY DEF Replay, RegisterWaiter, EagerCheck, AwaitAck
<1> QED
  BY <1>1, <1>2, LeaveWithKeepsEmpty, GotoKeepsEmpty DEF Steps, Holding

\* A failed script pauses the hot state and decides nothing.
LEMMA ScriptFailsDecides ==
  ASSUME DecisionsInv, NEW q \in Requests, ScriptFails(q)
  PROVE  StateIsIssued' /\ SnapshotsAreEmpty' /\ DecidedOnce'
<1>1. HotKeeps
  BY PauseTypes DEF DecisionsInv, LossyInv, ScriptFails, HotKeeps
<1> QED
  BY <1>1, GotoKeepsEmpty DEF ScriptFails, Leave, Steps

\* A snapshot in hand at the script without hot state is 0, of an auction that
\* decided nothing.
LEMMA BaseIsIssued ==
  ASSUME DecisionsInv, NEW q \in Requests, At(q, "script"), Base(q) # None
  PROVE  /\ Base(q).seq = Len(issued)
         /\ \A i \in DOMAIN issued : issued[i].bidder \in idem
         /\ hot = None => issued = <<>>
<1>1. CASE hot # None
  BY <1>1 DEF DecisionsInv, StateIsIssued, Base
<1>2. CASE hot = None
  <2>1. request[q].snap # None /\ Base(q) = [seq |-> request[q].snap, paused |-> FALSE]
    BY <1>2 DEF Base
  <2>2. request[q].snap = 0 /\ issued = <<>>
    BY <1>2, <2>1 DEF DecisionsInv, SnapshotsAreEmpty
  <2>3. Base(q).seq = 0 /\ Len(issued) = 0 /\ DOMAIN issued = {}
    BY <2>1, <2>2
  <2> QED
    BY <1>2, <2>2, <2>3
<1> QED
  BY <1>1, <1>2

\* A decision takes the number after the last one, for a bidder that has no
\* record yet and so no decision.
LEMMA PlaceBidDecides ==
  ASSUME DecisionsInv, NEW q \in Requests, PlaceBid(q)
  PROVE  StateIsIssued' /\ SnapshotsAreEmpty' /\ DecidedOnce'
<1> USE DEF DecisionsInv
<1>1. At(q, "script") /\ settled' = settled /\ Bidder(q) \in Bidders
  BY DEF PlaceBid, pgVars, LossyInv, BiddersKnown, At
<1>2. ASSUME NEW pc \in Steps \ {"new", "user", "auction", "permit", "acl", "script"},
             Goto(q, pc), UNCHANGED redisVars, UNCHANGED issued
      PROVE  StateIsIssued' /\ SnapshotsAreEmpty' /\ DecidedOnce'
  <2>1. HotKeeps
    BY <1>1, <1>2 DEF HotKeeps, redisVars
  <2> QED
    BY <1>2, <2>1, GotoKeepsEmpty
<1>3. CASE /\ Base(q) # None /\ hot' = Base(q) /\ Leave(q) /\ UNCHANGED <<idem, issued>>
  <2>1. /\ Base(q).seq = Len(issued)
        /\ \A i \in DOMAIN issued : issued[i].bidder \in idem
    BY <1>1, <1>3, BaseIsIssued
  <2>2. StateIsIssued'
    BY <1>1, <1>3, <2>1 DEF StateIsIssued
  <2>3. DecidedOnce'
    BY <1>3 DEF DecidedOnce
  <2>4. OnlyMoves(q) /\ MovesTo(q, "done")
    BY <1>3, GotoMoves DEF LossyInv, Leave, Steps
  <2>5. SnapshotsAreEmpty'
    BY <1>3, <2>4 DEF SnapshotsAreEmpty, OnlyMoves, MovesTo, At
  <2> QED
    BY <2>2, <2>3, <2>5
<1>4. CASE /\ Bidder(q) \notin idem /\ Base(q) # None /\ Decide(q) /\ Goto(q, "decided")
  <2> DEFINE d == [seq |-> Base(q).seq + 1, bidder |-> Bidder(q)]
             n == Len(issued) + 1
  <2>1. /\ Base(q).seq = Len(issued)
        /\ \A i \in DOMAIN issued : issued[i].bidder \in idem
    BY <1>1, <1>4, BaseIsIssued
  <2>2. /\ d.seq = n /\ d.bidder = Bidder(q)
    BY <2>1
  <2>3. /\ hot' \in [seq : Nat, paused : BOOLEAN] /\ hot'.seq = d.seq
        /\ idem' = idem \cup {d.bidder} /\ issued' = Append(issued, d)
        /\ d \in Decision
    BY <1>1, <1>4, DecideTypes DEF LossyInv
  <2> HIDE DEF d
  <2>4. /\ Len(issued) \in Nat /\ Len(issued') = n /\ issued'[n] = d
        /\ DOMAIN issued = 1 .. Len(issued) /\ DOMAIN issued' = 1 .. n
        /\ \A i \in 1 .. Len(issued) : issued'[i] = issued[i]
    BY <2>3 DEF LossyInv, RequestTypes
  <2>5. hot' # None
    BY <2>3, BidRequestsAssumption
  <2>6. \A i \in 1 .. n : i \in 1 .. Len(issued) \/ i = n
    BY <2>4
  <2>7. \A i \in 1 .. Len(issued) : issued[i].seq = i /\ i # n /\ issued[i].bidder # Bidder(q)
    BY <1>4, <2>1, <2>4 DEF StateIsIssued
  <2>8. \A i \in 1 .. n : issued'[i].seq = i
    BY <2>2, <2>4, <2>6, <2>7
  <2>9. \A i \in 1 .. n : issued'[i].bidder \in idem'
    BY <2>1, <2>3, <2>4, <2>6
  <2>10. StateIsIssued'
    BY <2>2, <2>3, <2>4, <2>5, <2>8, <2>9 DEF StateIsIssued
  <2>11. DecidedOnce'
    <3>1. \A i, j \in 1 .. n : i # j => issued'[i].bidder # issued'[j].bidder
      BY <2>2, <2>4, <2>6, <2>7 DEF DecidedOnce
    <3>2. \A i, j \in 1 .. n : i # j => issued'[i].seq # issued'[j].seq
      BY <2>8
    <3> QED
      BY <2>4, <3>1, <3>2 DEF DecidedOnce
  <2>12. OnlyMoves(q) /\ MovesTo(q, "decided")
    BY <1>4, GotoMoves DEF LossyInv, Steps, Holding
  <2>13. SnapshotsAreEmpty'
    BY <2>5, <2>12 DEF SnapshotsAreEmpty, OnlyMoves, MovesTo, At
  <2> QED
    BY <2>10, <2>11, <2>13
<1> QED
  BY <1>2, <1>3, <1>4 DEF PlaceBid, Steps, Holding

\* The cold start: only a snapshot of an auction that decided nothing gets to
\* the script.
LEMMA ColdStartDecides ==
  ASSUME DecisionsInv, NEW q \in Requests,
         CheckPending(q) \/ CompletedReplay(q) \/ LoadSnapshot(q) \/ EnsureCanSeed(q)
  PROVE  StateIsIssued' /\ SnapshotsAreEmpty' /\ DecidedOnce'
<1>1. HotKeeps
  BY PauseTypes DEF DecisionsInv, LossyInv, CheckPending, CompletedReplay, LoadSnapshot, EnsureCanSeed,
     HotKeeps, redisVars, pgVars
<1>2. /\ request[q].pc \in Holding
      /\ UNCHANGED <<kafka, acked, spent>>
  BY DEF CheckPending, CompletedReplay, LoadSnapshot, EnsureCanSeed, At, Holding, redisVars, logVars
<1>3. ASSUME Answer(q)
      PROVE  StateIsIssued' /\ SnapshotsAreEmpty' /\ DecidedOnce'
  <2>1. \A p \in Requests : request'[p] = request[p] \/ request'[p].pc = "done"
    BY <1>2, <1>3, AnswerKeeps DEF DecisionsInv
  <2> QED
    BY <1>1, <2>1, NothingDecided DEF MovesEmpty
<1>4. ASSUME NEW snap \in Nat \cup {None}, Retry(q, snap),
             snap # None => snap = 0 /\ (hot' = None => issued' = <<>>)
      PROVE  StateIsIssued' /\ SnapshotsAreEmpty' /\ DecidedOnce'
  <2>1. \A p \in Requests : \/ request'[p] = request[p]
                            \/ request'[p].pc = "script" /\ request'[p].snap = snap
    BY <1>2, <1>4, RetryKeeps DEF DecisionsInv
  <2> QED
    BY <1>1, <1>4, <2>1, NothingDecided DEF MovesEmpty
<1>5. CASE CheckPending(q) \/ CompletedReplay(q)
  <2>1. Answer(q) \/ Retry(q, None) \/ \E pc \in {"replay", "load"} : Goto(q, pc)
    BY <1>5 DEF CheckPending, CompletedReplay
  <2>2. CASE Answer(q)
    BY <1>3, <2>2
  <2>3. CASE Retry(q, None)
    BY <1>4, <2>3
  <2>4. CASE \E pc \in {"replay", "load"} : Goto(q, pc)
    BY <1>1, <2>4, GotoKeepsEmpty DEF Steps, Holding
  <2> QED
    BY <2>1, <2>2, <2>3, <2>4
<1>6. CASE LoadSnapshot(q)
  <2>1. CASE request' = [request EXCEPT ![q].pc = "safe", ![q].snap = EngineSeq]
    <3>1. EngineSeq \in Nat
      BY EngineSeqIsNat DEF DecisionsInv, LossyInv
    <3>2. OnlyMoves(q) /\ request'[q].pc = "safe"
      BY <2>1, <3>1, LoadMoves DEF DecisionsInv, LossyInv
    <3> QED
      BY <1>1, <3>2, NothingDecided DEF OnlyMoves, MovesEmpty
  <2> QED
    BY <1>3, <1>6, <2>1 DEF LoadSnapshot
<1>7. CASE EnsureCanSeed(q)
  <2>1. CASE CanSeedRedis(q) /\ Retry(q, request[q].snap)
    <3>1. request[q].snap = 0 /\ settled = 0
      BY <2>1 DEF CanSeedRedis
    <3>2. hot' = None => issued' = <<>>
      <4>1. issued \in Seq(Decision)
        BY DEF DecisionsInv, LossyInv, RequestTypes
      <4>2. hot' = None => Len(issued) = 0
        BY <1>1, <3>1 DEF HotKeeps, DecisionsInv, StateIsIssued
      <4>3. Len(issued) = 0 => issued = <<>>
        BY <4>1
      <4> QED
        BY <1>1, <4>2, <4>3 DEF HotKeeps
    <3> QED
      BY <1>4, <2>1, <3>1, <3>2
  <2> QED
    BY <1>3, <1>7, <2>1 DEF EnsureCanSeed
<1> QED
  BY <1>5, <1>6, <1>7

\* A signal moves no request; the settlement worker can settle more only while
\* there is a hot state.
LEMMA BackgroundDecides ==
  ASSUME DecisionsInv, Background
  PROVE  StateIsIssued' /\ SnapshotsAreEmpty' /\ DecidedOnce'
<1> USE DEF DecisionsInv
<1>1. UNCHANGED <<hot, idem, issued>>
  BY DEF Background, Tick, Relay, RelayFails, Settle, MembershipExpires, redisVars
<1>2. ASSUME NEW p \in Requests
      PROVE  request'[p].pc = request[p].pc /\ request'[p].snap = request[p].snap
  BY SignalMoves DEF LossyInv, Background, Tick, Relay, RelayFails, Settle, MembershipExpires
<1>3. SnapshotsAreEmpty'
  BY <1>1, <1>2 DEF SnapshotsAreEmpty, At
<1>4. DecidedOnce'
  BY <1>1 DEF DecidedOnce
<1>5. settled' = settled \/ hot # None
  <2>1. CASE Settle
    <3>1. settled < Len(kafka) /\ Len(kafka) + Len(stream) <= Len(issued)
      BY <2>1 DEF Settle, LossyInv, RequestTypes
    <3>2. Len(kafka) \in Nat /\ Len(stream) \in Nat /\ Len(issued) \in Nat /\ settled \in Nat
      BY DEF LossyInv, RequestTypes
    <3> QED
      BY <3>1, <3>2 DEF StateIsIssued
  <2> QED
    BY <2>1 DEF Background, Tick, Relay, RelayFails, MembershipExpires, pgVars
<1>6. StateIsIssued'
  BY <1>1, <1>5 DEF StateIsIssued
<1> QED
  BY <1>3, <1>4, <1>6

\* Redis is lost once all is settled and no snapshot is on its way.
LEMMA LossDecides ==
  ASSUME DecisionsInv, NoSnapshotInHand, settled = Len(issued), LoseState \/ LoseRedis
  PROVE  StateIsIssued' /\ SnapshotsAreEmpty' /\ DecidedOnce'
<1>1. UNCHANGED <<request, settled, issued>> /\ hot' = None
  BY DEF LoseState, LoseRedis, pgVars
<1> QED
  BY <1>1 DEF DecisionsInv, StateIsIssued, SnapshotsAreEmpty, DecidedOnce, NoSnapshotInHand, At

\* It holds at the start...
LEMMA DecisionsInit == Init => DecisionsInv
<1> SUFFICES ASSUME Init PROVE DecisionsInv
  OBVIOUS
<1>1. \A q \in Requests : request[q].snap = None
  BY DEF Init, New
<1>2. issued = <<>> /\ hot = None /\ settled = 0 /\ Len(issued) = 0 /\ DOMAIN issued = {}
  BY DEF Init
<1>3. StateIsIssued /\ SnapshotsAreEmpty
  BY <1>1, <1>2 DEF StateIsIssued, SnapshotsAreEmpty
<1>4. DecidedOnce
  BY <1>2 DEF DecidedOnce
<1> QED
  BY <1>3, <1>4, LossyInit DEF DecisionsInv

\* ... and every step keeps it.
LEMMA DecisionsStep == DecisionsInv /\ [Next]_vars => DecisionsInv'
<1> SUFFICES ASSUME DecisionsInv, [Next]_vars PROVE DecisionsInv'
  OBVIOUS
<1>1. LossyInv'
  BY LossyStep, NextIsLossy DEF DecisionsInv
<1>2. CASE \E q \in Requests : RequestStep(q)
  <2>1. StateIsIssued' /\ SnapshotsAreEmpty' /\ DecidedOnce'
    BY <1>2, AdmitDecides, AdmissionDecides, PlaceBidDecides, ScriptFailsDecides, WaitDecides,
       ColdStartDecides DEF RequestStep
  <2> QED
    BY <1>1, <2>1 DEF DecisionsInv
<1>3. CASE Background
  BY <1>1, <1>3, BackgroundDecides DEF DecisionsInv
<1>4. CASE NoSnapshotInHand /\ settled = Len(issued) /\ (LoseState \/ LoseRedis)
  BY <1>1, <1>4, LossDecides DEF DecisionsInv
<1>5. CASE UNCHANGED vars
  <2>1. HotKeeps /\ request' = request
    BY <1>5 DEF vars, HotKeeps, redisVars, pgVars
  <2> QED
    BY <1>1, <2>1, NothingDecided DEF DecisionsInv
<1> QED
  BY <1>2, <1>3, <1>4, <1>5 DEF Next

\* The inductive invariant, when all is settled before Redis is lost.
THEOREM DecisionsInvariant == Spec => []DecisionsInv
BY DecisionsInit, DecisionsStep, PTL DEF Spec

\* No engine number is given out twice and no bid is decided twice, not even by
\* a bid and its retry on the two sides of a loss of Redis that comes once all
\* is settled (ensureColdSnapshotCanSeedRedis; the first check of the script).
THEOREM DecidesOnceAcrossLosses == Spec => []DecidedOnce
<1>1. DecisionsInv => DecidedOnce
  BY DEF DecisionsInv
<1> QED
  BY DecisionsInvariant, <1>1, PTL

\* When all is settled before Redis is lost, a cold start seeds the engine only
\* from a PostgreSQL that has every decision of the Kafka log: what goes wrong
\* after a loss at any other time goes wrong because of the decisions not yet
\* settled (ensureColdSnapshotCanSeedRedis).
THEOREM SeedsAreCompleteOnceSettled == Spec => SeedIsComplete
<1>1. DecisionsInv /\ [Next]_vars => [hot = None /\ hot' # None => settled = Len(kafka)]_vars
  <2>1. SUFFICES ASSUME DecisionsInv, hot = None PROVE settled = Len(kafka)
    OBVIOUS
  <2>2. settled = Len(issued) /\ settled <= Len(kafka) /\ Len(kafka) + Len(stream) <= Len(issued)
    BY <2>1 DEF DecisionsInv, StateIsIssued, LossyInv, RequestTypes
  <2>3. Len(kafka) \in Nat /\ Len(stream) \in Nat /\ Len(issued) \in Nat
    BY <2>1 DEF DecisionsInv, LossyInv, RequestTypes
  <2> QED
    BY <2>2, <2>3
<1> QED
  BY DecisionsInvariant, <1>1, PTL DEF Spec, SeedIsComplete

=============================================================================
