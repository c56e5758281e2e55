---------------------------- MODULE DeliveryProofs ----------------------------
(***************************************************************************)
(* Events enter the history in the order of their numbers the first time,  *)
(* for any number of relays that stall, lose their locks and leases, crash *)
(* or fail: what a relay holds stands after events all of which were       *)
(* published or given up.  What a session recovers, was sent or has queued *)
(* is all the hub was given, unless an event is published late; with one   *)
(* relay none is.                                                          *)
(***************************************************************************)
EXTENDS Delivery, SequenceTheorems, FiniteSetTheorems, WellFoundedInduction, TLAPS

Rows  == [status : Statuses, holder : Relays \cup {None}, expired : BOOLEAN,
          published : BOOLEAN]
\* The places of a relay's loop.
Places == {"down", "renew", "signals", "execute", "store", "report", "claim",
           "publish", "fanout", "send", "mark", "failed", "dead"}
Steps  == [pc : Places, event : Nat, fan : SUBSET Sessions]

\* Event m was published, or given up with an anomaly.
Accounted(m) == delivery[m].published \/ m \in anomalies

\* A relay at one of these places will do something to its event.
Holds == {"publish", "mark", "failed", "dead"}

\* The inductive invariant: a row says what became of its event, and a relay
\* that holds an event has taken it from the head of the line.
RowsSaySo ==
  \A m \in Events :
    delivery[m].status \in {"PUBLISHED", "DEAD"} => Accounted(m)

HeldInTurn ==
  \A r \in Relays :
    /\ relay[r].pc \in Holds => relay[r].event \in Events
    /\ relay[r].pc \in {"fanout", "send"} => relay[r].event \in Events \cup {0}
    /\ relay[r].pc \in Holds \cup {"fanout", "send"} =>
         \A m \in 1 .. relay[r].event - 1 : Accounted(m)

DeliveryInv ==
  /\ delivery \in Seq(Rows) /\ history \in Seq(Nat)
  /\ relay \in [Relays -> Steps]
  /\ RowsSaySo /\ HeldInTurn

-----------------------------------------------------------------------------
(* Rows and relays                                                         *)

\* What was published or given up stays so.
StaysAccounted ==
  /\ Len(delivery') >= Len(delivery)
  /\ \A m \in Events : Accounted(m) => Accounted(m)'

\* Where a relay may go: on with the event it holds, to an event in turn, or
\* to a place where it holds none.
MayBecome(at, step) ==
  \/ /\ step.event = at.event
     /\ at.pc \in Holds \cup {"fanout", "send"}
     /\ step.pc \in Holds => at.pc \in Holds \/ at.event # 0
  \/ step.event \in Events /\ \A m \in 1 .. step.event - 1 : Accounted(m)
  \/ step.event = 0 /\ step.pc \notin Holds
  \/ step.pc \notin Holds \cup {"fanout", "send"}

\* Such a step of one relay keeps the invariant, if the rest is kept.
LEMMA HolderKept ==
  ASSUME DeliveryInv, StaysAccounted, RowsSaySo',
         delivery' \in Seq(Rows), history' \in Seq(Nat),
         NEW r \in Relays, NEW step \in Steps, MayBecome(relay[r], step),
         relay' = [relay EXCEPT ![r] = step]
  PROVE  DeliveryInv'
<1>1. relay' \in [Relays -> Steps]
  BY DEF DeliveryInv
<1>2. ASSUME NEW q \in Relays, q # r
      PROVE  relay'[q] = relay[q]
  BY <1>2 DEF DeliveryInv
<1>3. relay'[r] = step
  BY DEF DeliveryInv
<1>4. Len(delivery) \in Nat /\ Len(delivery') \in Nat
  BY LenProperties DEF DeliveryInv
<1>5. HeldInTurn'
  <2>1. SUFFICES ASSUME NEW q \in Relays
                 PROVE  /\ relay'[q].pc \in Holds => relay'[q].event \in Events'
                        /\ relay'[q].pc \in {"fanout", "send"} =>
                             relay'[q].event \in Events' \cup {0}
                        /\ relay'[q].pc \in Holds \cup {"fanout", "send"} =>
                             \A m \in 1 .. relay'[q].event - 1 : Accounted(m)'
    BY DEF HeldInTurn
  <2>2. CASE q # r
    BY <1>2, <1>4, <2>2 DEF DeliveryInv, HeldInTurn, StaysAccounted, Events, Steps
  <2>3. CASE q = r
    BY <1>3, <1>4, <2>3
       DEF DeliveryInv, HeldInTurn, StaysAccounted, Events, Steps, MayBecome, Holds
  <2> QED
    BY <2>2, <2>3
<1> QED
  BY <1>1, <1>5 DEF DeliveryInv

\* If no relay moves, neither do the events they hold.
LEMMA HoldersKept ==
  ASSUME DeliveryInv, StaysAccounted, RowsSaySo',
         delivery' \in Seq(Rows), history' \in Seq(Nat), UNCHANGED relay
  PROVE  DeliveryInv'
BY LenProperties DEF DeliveryInv, HeldInTurn, StaysAccounted, Events, Steps

\* A row that changes keeps what it says of its event, and says no less.
LEMMA RowKept ==
  ASSUME DeliveryInv, NEW n \in Events, NEW row \in Rows,
         delivery' = [delivery EXCEPT ![n] = row],
         anomalies \subseteq anomalies',
         delivery[n].published => row.published,
         row.status \in {"PUBLISHED", "DEAD"} =>
           row.published \/ n \in anomalies'
  PROVE  delivery' \in Seq(Rows) /\ StaysAccounted /\ RowsSaySo'
<1>1. /\ delivery \in Seq(Rows) /\ RowsSaySo
      /\ n \in 1 .. Len(delivery) /\ DOMAIN delivery = 1 .. Len(delivery)
  BY DEF DeliveryInv, Events
<1>2. /\ delivery' \in Seq(Rows) /\ Len(delivery') = Len(delivery)
      /\ delivery'[n] = row
      /\ \A m \in 1 .. Len(delivery) : m # n => delivery'[m] = delivery[m]
  BY <1>1
<1>3. \A m \in Events : Accounted(m) => Accounted(m)'
  BY <1>1, <1>2 DEF Accounted, Events
<1>4. StaysAccounted
  BY <1>2, <1>3, <1>1, LenProperties DEF StaysAccounted
<1>5. RowsSaySo'
  BY <1>1, <1>2, <1>3 DEF RowsSaySo, Accounted, Events
<1> QED
  BY <1>2, <1>4, <1>5

\* Nothing happened to the rows.
LEMMA RowsKept ==
  ASSUME DeliveryInv, UNCHANGED <<delivery, anomalies>>
  PROVE  delivery' \in Seq(Rows) /\ StaysAccounted /\ RowsSaySo'
BY LenProperties
   DEF DeliveryInv, RowsSaySo, StaysAccounted, Accounted, Events

\* A claim takes the head of the line: all events before it are accounted for.
LEMMA HeadIsInTurn ==
  ASSUME DeliveryInv, NEW n \in Events, HeadOfLine(n)
  PROVE  \A m \in 1 .. n - 1 : Accounted(m)
<1> SUFFICES ASSUME NEW m \in 1 .. n - 1
             PROVE  Accounted(m)
  OBVIOUS
<1>1. m \in Events /\ ~Unfinished(m)
  BY DEF HeadOfLine, Events, DeliveryInv
<1>2. delivery[m].status \in Statuses
  <2>1. delivery \in Seq(Rows) /\ m \in 1 .. Len(delivery)
    BY <1>1 DEF DeliveryInv, Events
  <2>2. delivery[m] \in Rows
    BY <2>1, ElementOfSeq
  <2> QED
    BY <2>2 DEF Rows
<1>3. delivery[m].status \in {"PUBLISHED", "DEAD"}
  BY <1>1, <1>2 DEF Unfinished, Statuses
<1> QED
  BY <1>1, <1>3 DEF DeliveryInv, RowsSaySo

\* Where the last k of l entries begin.
LEMMA FirstKept ==
  ASSUME NEW l \in Nat \ {0}, NEW k \in Nat \ {0}
  PROVE  Max({1, l - k + 1}) \in 1 .. l
<1> DEFINE top == IF l - k + 1 > 1 THEN l - k + 1 ELSE 1
           S == {1, l - k + 1}
<1>1. top \in S /\ \A x \in S : top >= x
  OBVIOUS
<1>2. \A x \in S : (\A y \in S : x >= y) => x = top
  OBVIOUS
<1>3. top \in 1 .. l
  OBVIOUS
<1> HIDE DEF top, S
<1>4. Max(S) = top
  BY <1>1, <1>2, Zenon DEF Max
<1> QED
  BY <1>3, <1>4 DEF S

\* The end of a sequence that is cut at its front stays its end.
LEMMA LastNKeepsEnd ==
  ASSUME NEW s \in Seq(Nat), NEW e \in Nat, NEW k \in Nat \ {0}
  PROVE  LET t == LastN(Append(s, e), k)
         IN  t \in Seq(Nat) /\ t # <<>> /\ Last(t) = e
<1> DEFINE a == Append(s, e)
           l == Len(a)
           from == Max({1, l - k + 1})
<1>1. a \in Seq(Nat) /\ l = Len(s) + 1 /\ a[l] = e /\ l \in Nat \ {0}
  BY LenProperties
<1>2. from \in 1 .. l
  <2> HIDE DEF l
  <2> QED
    BY <1>1, FirstKept
<1> HIDE DEF from, a, l
<1>3. /\ SubSeq(a, from, l) \in Seq(Nat)
      /\ Len(SubSeq(a, from, l)) = l - from + 1
      /\ SubSeq(a, from, l)[l - from + 1] = a[l]
  BY <1>1, <1>2 DEF l
<1>4. LastN(Append(s, e), k) = SubSeq(a, from, l)
  BY DEF LastN, a, l, from
<1>5. /\ LastN(Append(s, e), k) \in Seq(Nat)
      /\ Len(LastN(Append(s, e), k)) \in Nat \ {0}
      /\ LastN(Append(s, e), k)[Len(LastN(Append(s, e), k))] = e
  BY <1>1, <1>2, <1>3, <1>4
<1>6. LastN(Append(s, e), k) # <<>>
  BY <1>5, EmptySeq
<1> QED
  BY <1>5, <1>6 DEF Last

-----------------------------------------------------------------------------
(* Every step keeps the invariant                                          *)

\* A relay that only changes its place, to one where it holds no event, or
\* from one to another of those where it does.
LEMMA GotoKeeps ==
  ASSUME DeliveryInv, NEW r \in Relays, NEW pc \in Places, Goto(r, pc),
         UNCHANGED <<delivery, anomalies>>, history' \in Seq(Nat),
         \/ pc \notin Holds \cup {"fanout", "send"}
         \/ relay[r].pc \in Holds
  PROVE  DeliveryInv'
<1> DEFINE step == [relay[r] EXCEPT !.pc = pc]
<1>1. relay[r] \in Steps
  BY DEF DeliveryInv
<1>2. /\ step \in Steps /\ step.pc = pc /\ step.event = relay[r].event
      /\ relay' = [relay EXCEPT ![r] = step]
  BY <1>1 DEF Goto, Steps
<1>3. MayBecome(relay[r], step)
  BY <1>2 DEF MayBecome
<1> HIDE DEF step
<1> QED
  BY <1>2, <1>3, RowsKept, HolderKept

\* A relay that publishes nothing at its step.
LEMMA QuietStepKeeps ==
  ASSUME DeliveryInv, NEW r \in Relays,
         \/ Renew(r) \/ ClaimSignal(r) \/ StoreSnapshot(r) \/ ReportSignal(r)
         \/ BeginBatch(r) \/ EndBatch(r)
  PROVE  DeliveryInv'
<1>1. history' \in Seq(Nat) /\ UNCHANGED <<delivery, anomalies>>
  BY DEF DeliveryInv, Renew, ClaimSignal, StoreSnapshot, ReportSignal,
         BeginBatch, EndBatch, redisVars, pgVars
<1>2. CASE Renew(r) \/ ClaimSignal(r) \/ StoreSnapshot(r) \/ BeginBatch(r)
           \/ EndBatch(r)
  <2>1. PICK pc \in {"signals", "execute", "report", "claim", "renew"} :
          Goto(r, pc)
    BY <1>2 DEF Renew, ClaimSignal, StoreSnapshot, BeginBatch, EndBatch
  <2> QED
    BY <1>1, <2>1, GotoKeeps DEF Holds, Places
<1>3. CASE ReportSignal(r)
  <2> DEFINE step == [Idle EXCEPT !.pc = "signals"]
  <2>1. step \in Steps /\ step.event = 0 /\ step.pc = "signals"
    BY DEF Idle, Steps, Places
  <2>2. MayBecome(relay[r], step)
    BY <2>1 DEF MayBecome, Holds
  <2>3. relay' = [relay EXCEPT ![r] = step]
    BY <1>3 DEF ReportSignal
  <2> HIDE DEF step
  <2> QED
    BY <1>1, <2>1, <2>2, <2>3, RowsKept, HolderKept
<1> QED
  BY <1>2, <1>3

\* A control signal: a dead row is pending again, its anomaly stays.
LEMMA ExecuteSignalKeeps ==
  ASSUME DeliveryInv, NEW r \in Relays, ExecuteSignal(r)
  PROVE  DeliveryInv'
<1>1. history' \in Seq(Nat)
  BY DEF DeliveryInv, ExecuteSignal, redisVars
<1>2. CASE ForceSnapshotRebuild(r)
  <2> DEFINE step == [relay[r] EXCEPT !.pc = "store", !.event = Len(delivery)]
  <2>1. relay[r] \in Steps /\ Len(delivery) \in Nat
    BY LenProperties DEF DeliveryInv
  <2>2. /\ step \in Steps /\ step.pc = "store"
        /\ relay' = [relay EXCEPT ![r] = step]
    BY <1>2, <2>1 DEF ForceSnapshotRebuild, Steps, Places
  <2>3. MayBecome(relay[r], step)
    BY <2>2 DEF MayBecome, Holds
  <2>4. UNCHANGED <<delivery, anomalies>>
    BY <1>2 DEF ForceSnapshotRebuild, pgVars
  <2> HIDE DEF step
  <2> QED
    BY <1>1, <2>2, <2>3, <2>4, RowsKept, HolderKept
<1>3. CASE RetryDeadOutbox(r)
  <2>1. Goto(r, "report") /\ UNCHANGED anomalies
    BY <1>3 DEF RetryDeadOutbox
  <2>2. delivery' \in Seq(Rows) /\ StaysAccounted /\ RowsSaySo'
    <3>1. CASE signal.event \in Events /\ delivery[signal.event].status = "DEAD"
      <4> DEFINE n == signal.event
                 row == [delivery[n] EXCEPT !.status = "PENDING", !.holder = None]
      <4>1. delivery[n] \in Rows
        BY <3>1, ElementOfSeq DEF DeliveryInv, Events
      <4>2. /\ row \in Rows /\ row.published = delivery[n].published
            /\ row.status = "PENDING"
        BY <4>1 DEF Rows, Statuses
      <4>3. delivery' = [delivery EXCEPT ![n] = row]
        BY <1>3, <3>1, <4>1 DEF RetryDeadOutbox, Rows
      <4> HIDE DEF row
      <4> QED
        BY <2>1, <3>1, <4>2, <4>3, RowKept
    <3>2. CASE ~(signal.event \in Events /\ delivery[signal.event].status = "DEAD")
      BY <1>3, <2>1, <3>2, RowsKept DEF RetryDeadOutbox
    <3> QED
      BY <3>1, <3>2
  <2> DEFINE step == [relay[r] EXCEPT !.pc = "report"]
  <2>3. /\ step \in Steps /\ step.pc = "report"
        /\ relay' = [relay EXCEPT ![r] = step]
    BY <2>1 DEF DeliveryInv, Goto, Steps, Places
  <2>4. MayBecome(relay[r], step)
    BY <2>3 DEF MayBecome, Holds
  <2> HIDE DEF step
  <2> QED
    BY <1>1, <2>2, <2>3, <2>4, HolderKept
<1>4. CASE PauseRelayShard(r) \/ ResumeRelayShard(r)
  BY <1>1, <1>4, GotoKeeps DEF PauseRelayShard, ResumeRelayShard, Holds, Places
<1> QED
  BY <1>2, <1>3, <1>4 DEF ExecuteSignal

\* Nothing older than what a relay claims is unfinished.
LEMMA ClaimKeeps ==
  ASSUME DeliveryInv, NEW r \in Relays, ClaimOne(r)
  PROVE  DeliveryInv'
<1>1. PICK n \in Events :
        /\ Claimable(n)
        /\ delivery' = [delivery EXCEPT ![n].status = "PUBLISHING",
                                        ![n].holder = r, ![n].expired = FALSE]
        /\ relay' = [relay EXCEPT ![r] = [pc |-> "publish", event |-> n,
                                          fan |-> {}]]
  BY DEF ClaimOne
<1> DEFINE row == [delivery[n] EXCEPT !.status = "PUBLISHING",
                                      !.holder = r, !.expired = FALSE]
           step == [pc |-> "publish", event |-> n, fan |-> {}]
<1>2. n \in Nat /\ delivery[n] \in Rows
  BY ElementOfSeq, LenProperties DEF DeliveryInv, Events
<1>3. /\ row \in Rows /\ row.published = delivery[n].published
      /\ row.status = "PUBLISHING"
      /\ delivery' = [delivery EXCEPT ![n] = row]
  BY <1>1, <1>2 DEF Rows, Statuses
<1>4. step \in Steps /\ step.event = n /\ relay' = [relay EXCEPT ![r] = step]
  BY <1>1, <1>2 DEF Steps, Places
<1>5. UNCHANGED <<history, anomalies>> /\ history' \in Seq(Nat)
  BY DEF ClaimOne, redisVars, DeliveryInv
<1>6. HeadOfLine(n)
  BY <1>1 DEF Claimable
<1> HIDE DEF row, step
<1>7. delivery' \in Seq(Rows) /\ StaysAccounted /\ RowsSaySo'
  BY <1>3, <1>5, RowKept
<1>8. MayBecome(relay[r], step)
  BY <1>4, <1>6, HeadIsInTurn DEF MayBecome
<1> QED
  BY <1>4, <1>5, <1>7, <1>8, HolderKept

\* What a publication does to the history.
LEMMA PublishAppends ==
  ASSUME DeliveryInv, NEW r \in Relays, Publish(r)
  PROVE  /\ history' \in Seq(Nat)
         /\ history' # history => Last(history') = relay[r].event
         /\ relay[r].pc = "publish" /\ relay[r].event \in Events
<1>1. relay[r].pc = "publish" /\ relay[r].event \in Events
  BY DEF Publish, At, Holds, DeliveryInv, HeldInTurn
<1>2. relay[r].event \in Nat /\ HistoryLimit \in Nat \ {0}
  BY <1>1, DeliveryAssumption, LenProperties
     DEF DeliveryAssumption, DeliveryInv, Steps
<1>3. CASE UNCHANGED history
  BY <1>1, <1>3 DEF DeliveryInv
<1>4. CASE Push(relay[r].event)
  <2>1. history \in Seq(Nat)
    BY DEF DeliveryInv
  <2>2. history' = LastN(Append(history, relay[r].event), HistoryLimit)
    BY <1>4 DEF Push
  <2> QED
    BY <1>1, <1>2, <2>1, <2>2, LastNKeepsEnd
<1> QED
  BY <1>3, <1>4 DEF Publish, redisVars

\* A relay that publishes, or fails to, holds on to its event.
LEMMA PublishKeeps ==
  ASSUME DeliveryInv, NEW r \in Relays, Publish(r)
  PROVE  DeliveryInv'
<1>1. history' \in Seq(Nat) /\ relay[r].pc = "publish"
  BY PublishAppends
<1>2. UNCHANGED <<delivery, anomalies>>
  BY DEF Publish, pgVars
<1>3. PICK pc \in {"dead", "fanout", "mark", "failed"} : Goto(r, pc)
  BY DEF Publish, Published
<1> QED
  BY <1>1, <1>2, <1>3, GotoKeeps DEF Places, Holds

\* The fan-out.
LEMMA FanOutKeeps ==
  ASSUME DeliveryInv, NEW r \in Relays, CopySubscribers(r) \/ SendToSubscribers(r)
  PROVE  DeliveryInv'
<1>1. history' \in Seq(Nat) /\ UNCHANGED <<delivery, anomalies>>
  BY DEF DeliveryInv, CopySubscribers, SendToSubscribers, redisVars, pgVars
<1>2. /\ relay[r] \in Steps
      /\ relay[r].pc \in {"fanout", "send"}
      /\ Open \in SUBSET Sessions
  BY DEF DeliveryInv, CopySubscribers, SendToSubscribers, At, Open
<1>3. PICK pc \in Places, fan \in SUBSET Sessions :
        /\ relay' = [relay EXCEPT ![r].pc = pc, ![r].fan = fan]
        /\ pc \in Holds => relay[r].event # 0
  <2>1. CASE CopySubscribers(r)
    BY <1>2, <2>1 DEF CopySubscribers, Places, Holds
  <2>2. CASE SendToSubscribers(r)
    <3> DEFINE pc == IF relay[r].event = 0 THEN "renew" ELSE "mark"
    <3>1. pc \in Places /\ (pc \in Holds => relay[r].event # 0)
      BY DEF Places, Holds
    <3>2. relay' = [relay EXCEPT ![r].pc = pc, ![r].fan = {}]
      BY <2>2 DEF SendToSubscribers
    <3> HIDE DEF pc
    <3> QED
      BY <3>1, <3>2
  <2> QED
    BY <2>1, <2>2
<1> DEFINE step == [relay[r] EXCEPT !.pc = pc, !.fan = fan]
<1>4. /\ step \in Steps /\ step.pc = pc /\ step.event = relay[r].event
      /\ relay' = [relay EXCEPT ![r] = step]
  BY <1>2, <1>3 DEF Steps
<1>5. MayBecome(relay[r], step)
  BY <1>2, <1>3, <1>4 DEF MayBecome
<1> HIDE DEF step
<1> QED
  BY <1>1, <1>4, <1>5, RowsKept, HolderKept

\* The outcome of a publication is written to the row.
LEMMA MarkKeeps ==
  ASSUME DeliveryInv, NEW r \in Relays,
         MarkPublished(r) \/ MarkRetriable(r) \/ MarkDead(r)
  PROVE  DeliveryInv'
<1> DEFINE n == relay[r].event
<1>1. history' \in Seq(Nat)
  BY DEF DeliveryInv, MarkPublished, MarkRetriable, MarkDead, redisVars
<1>2. n \in Events /\ delivery[n] \in Rows
  <2>1. n \in Events
    BY DEF MarkPublished, MarkRetriable, MarkDead, At, Holds, DeliveryInv,
           HeldInTurn
  <2> QED
    BY <2>1, ElementOfSeq DEF DeliveryInv, Events
<1>3. PICK row \in Rows :
        /\ delivery' = [delivery EXCEPT ![n] = row]
        /\ delivery[n].published => row.published
        /\ row.status \in {"PUBLISHED", "DEAD"} =>
             row.published \/ n \in anomalies'
  <2>1. CASE MarkPublished(r)
    <3> DEFINE row == [status |-> "PUBLISHED", holder |-> None,
                       expired |-> FALSE, published |-> TRUE]
    <3>1. row \in Rows /\ row.published
      BY DEF Rows, Statuses
    <3>2. delivery' = [delivery EXCEPT ![n] = row]
      BY <2>1 DEF MarkPublished
    <3> QED
      BY <3>1, <3>2
  <2>2. CASE MarkRetriable(r)
    <3> DEFINE row == [delivery[n] EXCEPT !.status = "FAILED", !.holder = None,
                                          !.expired = FALSE]
    <3>1. /\ row \in Rows /\ row.published = delivery[n].published
          /\ row.status = "FAILED" /\ delivery' = [delivery EXCEPT ![n] = row]
      BY <1>2, <2>2 DEF MarkRetriable, Unlocked, Rows, Statuses
    <3> QED
      BY <3>1
  <2>3. CASE MarkDead(r)
    <3> DEFINE row == [delivery[n] EXCEPT !.status = "DEAD", !.holder = None,
                                          !.expired = FALSE]
    <3>1. /\ row \in Rows /\ row.published = delivery[n].published
          /\ row.status = "DEAD" /\ delivery' = [delivery EXCEPT ![n] = row]
          /\ n \in anomalies'
      BY <1>2, <2>3 DEF MarkDead, Unlocked, Rows, Statuses
    <3> QED
      BY <3>1
  <2> QED
    BY <2>1, <2>2, <2>3
<1>4. anomalies \subseteq anomalies'
  BY DEF MarkPublished, MarkRetriable, MarkDead
<1> HIDE DEF n
<1>5. delivery' \in Seq(Rows) /\ StaysAccounted /\ RowsSaySo'
  BY <1>2, <1>3, <1>4, RowKept
<1>6. PICK step \in Steps :
        /\ relay' = [relay EXCEPT ![r] = step]
        /\ step.event = 0 /\ step.pc \notin Holds
  BY DEF MarkPublished, MarkRetriable, MarkDead, GapNotice, Idle, Steps, Places,
         Holds
<1>7. MayBecome(relay[r], step)
  BY <1>6 DEF MayBecome
<1> QED
  BY <1>1, <1>5, <1>6, <1>7, HolderKept

\* The loop of one relay.
LEMMA RelayStepKeeps ==
  ASSUME DeliveryInv, NEW r \in Relays, RelayStep(r)
  PROVE  DeliveryInv'
BY QuietStepKeeps, ExecuteSignalKeeps, ClaimKeeps, PublishKeeps, FanOutKeeps,
   MarkKeeps DEF RelayStep

\* A relay's process stops and starts again.
LEMMA CrashKeeps ==
  ASSUME DeliveryInv, NEW r \in Relays, Crash(r) \/ Restart(r)
  PROVE  DeliveryInv'
<1>1. history' \in Seq(Nat) /\ UNCHANGED <<delivery, anomalies>>
  BY DEF DeliveryInv, Crash, Restart, redisVars, pgVars
<1>2. CASE Crash(r)
  <2> DEFINE step == [Idle EXCEPT !.pc = "down"]
  <2>1. step \in Steps /\ step.event = 0 /\ step.pc = "down"
    BY DEF Idle, Steps, Places
  <2>2. MayBecome(relay[r], step)
    BY <2>1 DEF MayBecome, Holds
  <2>3. relay' = [relay EXCEPT ![r] = step]
    BY <1>2 DEF Crash
  <2> HIDE DEF step
  <2> QED
    BY <1>1, <2>1, <2>2, <2>3, RowsKept, HolderKept
<1>3. CASE Restart(r)
  BY <1>1, <1>3, GotoKeeps DEF Restart, Places, Holds
<1> QED
  BY <1>2, <1>3

\* A committed event has everything before it still to be said.
LEMMA CommitKeeps ==
  ASSUME DeliveryInv, NEW bad \in BOOLEAN, Commit(bad)
  PROVE  DeliveryInv'
<1> DEFINE l == Len(delivery)
<1>1. delivery \in Seq(Rows) /\ l \in Nat
  BY LenProperties DEF DeliveryInv
<1>2. Row \in Rows /\ Row.status = "PENDING"
  BY DEF Row, Rows, Statuses
<1>3. delivery' = Append(delivery, Row) /\ UNCHANGED <<anomalies, relay, history>>
  BY DEF Commit, redisVars
<1>4. /\ delivery' \in Seq(Rows) /\ Len(delivery') = l + 1
      /\ delivery'[l + 1] = Row
      /\ \A m \in 1 .. l : delivery'[m] = delivery[m]
  BY <1>1, <1>2, <1>3, AppendProperties
<1>5. \A m \in Events : Accounted(m) => Accounted(m)'
  BY <1>3, <1>4 DEF Accounted, Events
<1>6. StaysAccounted
  BY <1>1, <1>4, <1>5 DEF StaysAccounted
<1>7. RowsSaySo'
  <2> SUFFICES ASSUME NEW m \in 1 .. (l + 1),
                      delivery'[m].status \in {"PUBLISHED", "DEAD"}
               PROVE  Accounted(m)'
    BY <1>4 DEF RowsSaySo, Events
  <2>1. m \in Events /\ delivery'[m] = delivery[m]
    BY <1>1, <1>2, <1>4 DEF Events
  <2> QED
    BY <1>5, <2>1 DEF DeliveryInv, RowsSaySo
<1> HIDE DEF l
<1> QED
  BY <1>3, <1>4, <1>6, <1>7, HoldersKept DEF DeliveryInv

\* A viewer that disconnects leaves the copies of the subscribers.
LEMMA DisconnectKeeps ==
  ASSUME DeliveryInv, NEW s \in Sessions, Disconnect(s)
  PROVE  DeliveryInv'
<1>1. history' \in Seq(Nat) /\ UNCHANGED <<delivery, anomalies>>
  BY DEF DeliveryInv, Disconnect, redisVars, pgVars
<1>2. delivery' \in Seq(Rows) /\ RowsSaySo'
  BY <1>1, RowsKept
<1>3. relay' \in [Relays -> Steps]
  BY DEF DeliveryInv, Disconnect, Steps
<1>4. \A r \in Relays :
        relay'[r].pc = relay[r].pc /\ relay'[r].event = relay[r].event
  BY DEF DeliveryInv, Disconnect, Steps
<1>5. HeldInTurn'
  BY <1>1, <1>4 DEF DeliveryInv, HeldInTurn, Accounted, Events
<1> QED
  BY <1>1, <1>2, <1>3, <1>5 DEF DeliveryInv

\* A lock that runs out tells nothing of the event.
LEMMA LockExpiresKeeps ==
  ASSUME DeliveryInv, NEW n \in Events, LockExpires(n)
  PROVE  DeliveryInv'
<1> DEFINE row == [delivery[n] EXCEPT !.expired = TRUE]
<1>1. delivery[n] \in Rows
  BY ElementOfSeq DEF DeliveryInv, Events
<1>2. /\ row \in Rows /\ row.published = delivery[n].published
      /\ row.status = delivery[n].status
      /\ delivery' = [delivery EXCEPT ![n] = row]
  BY <1>1 DEF LockExpires, Rows
<1>3. UNCHANGED <<anomalies, relay>> /\ history' \in Seq(Nat)
  BY DEF DeliveryInv, LockExpires, redisVars
<1>4. row.status \in {"PUBLISHED", "DEAD"} => row.published \/ n \in anomalies'
  BY <1>2, <1>3 DEF DeliveryInv, RowsSaySo, Accounted
<1> HIDE DEF row
<1>5. delivery' \in Seq(Rows) /\ StaysAccounted /\ RowsSaySo'
  BY <1>2, <1>3, <1>4, RowKept
<1> QED
  BY <1>3, <1>5, HoldersKept

\* What leaves rows and relays alone, and at most empties the history.
LEMMA AsideKeeps ==
  ASSUME DeliveryInv, UNCHANGED <<delivery, anomalies, relay>>,
         history' \in {history, <<>>}
  PROVE  DeliveryInv'
<1>1. history' \in Seq(Nat)
  BY EmptySeq DEF DeliveryInv
<1> QED
  BY <1>1, RowsKept, HoldersKept

\* Sessions, rebuilds of the snapshot, the operator's requests and expiries do.
LEMMA AsideSteps ==
  ASSUME \/ \E s \in Sessions : SessionStep(s) /\ ~Disconnect(s)
         \/ RebuildRead \/ RebuildDone \/ RebuildFails
         \/ Operator \/ LeaseExpires \/ HistoryExpires
         \/ UNCHANGED vars
  PROVE  /\ UNCHANGED <<delivery, anomalies, relay>>
         /\ history' \in {history, <<>>}
BY DEF SessionStep, Connect, RecoverHistory, CachedSnapshot, JoinRebuild,
       WriteMessage, RebuildRead, RebuildDone, RebuildFails, Operator, Request,
       LeaseExpires, HistoryExpires, vars, pgVars, redisVars, hubVars

\* The start.
LEMMA InitKeeps == Init => DeliveryInv
<1> SUFFICES ASSUME Init
             PROVE  DeliveryInv
  OBVIOUS
<1>1. delivery = <<>> /\ history = <<>> /\ Events = {}
  BY DEF Init, Events
<1>2. delivery \in Seq(Rows) /\ history \in Seq(Nat)
  BY <1>1, EmptySeq
<1>3. relay \in [Relays -> Steps] /\ \A r \in Relays : relay[r].pc = "renew"
  BY DEF Init, Idle, Steps, Places
<1> QED
  BY <1>1, <1>2, <1>3 DEF DeliveryInv, RowsSaySo, HeldInTurn, Holds

\* Every step keeps the invariant.
LEMMA NextKeeps == DeliveryInv /\ [Next]_vars => DeliveryInv'
<1> SUFFICES ASSUME DeliveryInv, [Next]_vars
             PROVE  DeliveryInv'
  OBVIOUS
<1>1. CASE \E bad \in BOOLEAN : Commit(bad)
  BY <1>1, CommitKeeps
<1>2. CASE \E r \in Relays : RelayStep(r) \/ Crash(r) \/ Restart(r)
  BY <1>2, RelayStepKeeps, CrashKeeps
<1>3. CASE \E s \in Sessions : Disconnect(s)
  BY <1>3, DisconnectKeeps
<1>4. CASE \E n \in Events : LockExpires(n)
  BY <1>4, LockExpiresKeeps
<1>5. CASE \/ \E s \in Sessions : SessionStep(s) /\ ~Disconnect(s)
           \/ RebuildRead \/ RebuildDone \/ RebuildFails
           \/ Operator \/ LeaseExpires \/ HistoryExpires
           \/ UNCHANGED vars
  BY <1>5, AsideSteps, AsideKeeps
<1> QED
  BY <1>1, <1>2, <1>3, <1>4, <1>5 DEF Next, Time

\* What every reachable state of the delivery satisfies.
THEOREM DeliveryInvariant == Spec => []DeliveryInv
BY InitKeeps, NextKeeps, PTL DEF Spec

-----------------------------------------------------------------------------
(* The history is written in order                                         *)

\* Only a publication adds to the history.
LEMMA OnlyPublishAppends ==
  ASSUME DeliveryInv, Next, history' # history, history' # <<>>
  PROVE  \E r \in Relays : Publish(r)
<1> SUFFICES ASSUME \A r \in Relays : ~Publish(r)
             PROVE  history' \in {history, <<>>}
  OBVIOUS
<1>1. CASE \E bad \in BOOLEAN : Commit(bad)
  BY <1>1 DEF Commit, redisVars
<1>2. CASE \E r \in Relays : RelayStep(r) \/ Crash(r) \/ Restart(r)
  BY <1>2 DEF RelayStep, Renew, ClaimSignal, ExecuteSignal, StoreSnapshot,
              ReportSignal, BeginBatch, ClaimOne, EndBatch, CopySubscribers,
              SendToSubscribers, MarkPublished, MarkRetriable, MarkDead, Crash,
              Restart, redisVars
<1>3. CASE \E s \in Sessions : Disconnect(s)
  BY <1>3 DEF Disconnect, redisVars
<1>4. CASE \E n \in Events : LockExpires(n)
  BY <1>4 DEF LockExpires, redisVars
<1>5. CASE \/ \E s \in Sessions : SessionStep(s) /\ ~Disconnect(s)
           \/ RebuildRead \/ RebuildDone \/ RebuildFails
           \/ Operator \/ LeaseExpires \/ HistoryExpires
  BY <1>5, AsideSteps
<1> QED
  BY <1>1, <1>2, <1>3, <1>4, <1>5 DEF Next, Time

\* An event reaches the history only after all older ones were published or
\* given up with an anomaly: claimOne looks for the oldest unfinished row of
\* the auction (relay.go), and a relay that lost its lock since then holds an
\* event that was in turn when it took it.
THEOREM EventsEnterInOrder == Spec => PublishedInOrder
<1> DEFINE InOrder == \A n \in Events : Pushed(n) =>
                        \A m \in 1 .. n - 1 :
                          delivery[m].published \/ m \in anomalies
<1>1. ASSUME DeliveryInv, [Next]_vars
      PROVE  [InOrder]_vars
  <2> SUFFICES ASSUME Next, NEW n \in Events, Pushed(n), NEW m \in 1 .. n - 1
               PROVE  Accounted(m)
    BY <1>1 DEF Accounted
  <2>1. PICK r \in Relays : Publish(r)
    BY <1>1, OnlyPublishAppends DEF Pushed
  <2>2. n = relay[r].event /\ relay[r].pc = "publish"
    BY <1>1, <2>1, PublishAppends DEF Pushed
  <2> QED
    BY <1>1, <2>2 DEF DeliveryInv, HeldInTurn, Holds
<1> HIDE DEF InOrder
<1>2. Spec => [][InOrder]_vars
  BY <1>1, DeliveryInvariant, PTL DEF Spec
<1> QED
  BY <1>2 DEF PublishedInOrder, InOrder

-----------------------------------------------------------------------------
(* Numbers, and the end of the list                                        *)

\* A nonempty set of numbers has a least one.
LEMMA HasLeast ==
  ASSUME NEW S, S \subseteq Nat, S # {}
  PROVE  \E x \in S : \A y \in S : x <= y
<1> DEFINE T == {0 .. m : m \in S}
<1>1. T \subseteq FiniteSubsetsOf(Nat) /\ T # {}
  <2>1. ASSUME NEW m \in S
        PROVE  0 .. m \in FiniteSubsetsOf(Nat)
    <3>1. IsFiniteSet(0 .. m) /\ 0 .. m \subseteq Nat
      BY FS_Interval
    <3> QED
      BY <3>1 DEF FiniteSubsetsOf
  <2> QED
    BY <2>1
<1>2. PICK t \in T : \A u \in T : ~ (<<u, t>> \in StrictSubsetOrdering(Nat))
  <2> HIDE DEF T
  <2> QED
    BY <1>1, FS_StrictSubsetOrderingWellFounded, WFMin
<1>3. PICK x \in S : t = 0 .. x
  OBVIOUS
<1>4. ASSUME NEW y \in S
      PROVE  x <= y
  <2>1. x \in Nat /\ y \in Nat
    OBVIOUS
  <2>2. CASE y < x
    <3>1. 0 .. y \in T
      OBVIOUS
    <3>2. 0 .. y \subseteq 0 .. x /\ 0 .. y # 0 .. x /\ 0 .. x \subseteq Nat
      BY <2>1, <2>2
    <3>3. <<0 .. y, t>> \in StrictSubsetOrdering(Nat)
      BY <1>3, <3>2 DEF StrictSubsetOrdering
    <3> QED
      BY <1>2, <3>1, <3>3
  <2> QED
    BY <2>1, <2>2
<1> QED
  BY <1>4

\* The last k entries of a sequence, or all of them.
LEMMA LastNIs ==
  ASSUME NEW h \in Seq(Nat), h # <<>>, NEW k \in Nat \ {0}
  PROVE  LET t == LastN(h, k)
         IN  /\ t \in Seq(Nat) /\ Len(t) \in 1 .. Len(h)
             /\ \A i \in 1 .. Len(t) :
                  /\ Len(h) - Len(t) + i \in 1 .. Len(h)
                  /\ t[i] = h[Len(h) - Len(t) + i]
<1> DEFINE l == Len(h)
           from == Max({1, l - k + 1})
           t == SubSeq(h, from, l)
<1>1. l \in Nat \ {0}
  BY EmptySeq
<1>2. from \in 1 .. l
  BY <1>1, FirstKept
<1> HIDE DEF from
<1>3. /\ t \in Seq(Nat) /\ Len(t) = l - from + 1
      /\ \A i \in 1 .. Len(t) : t[i] = h[from + i - 1]
  <2>1. /\ from \in Int /\ l \in Int /\ from <= l
        /\ \A i \in from .. l : h[i] \in Nat
    BY <1>1, <1>2
  <2> HIDE DEF l
  <2> QED
    BY <2>1, SubSeqProperties
<1>4. LastN(h, k) = t
  BY DEF LastN, from
<1> HIDE DEF t
<1>5. ASSUME NEW i \in 1 .. Len(t)
      PROVE  l - Len(t) + i \in 1 .. l /\ t[i] = h[l - Len(t) + i]
  <2>1. l - Len(t) + i = from + i - 1 /\ from + i - 1 \in 1 .. l
    BY <1>1, <1>2, <1>3
  <2> QED
    BY <1>3, <2>1
<1>6. Len(t) \in 1 .. l
  BY <1>1, <1>2, <1>3
<1> QED
  BY <1>3, <1>4, <1>5, <1>6

-----------------------------------------------------------------------------
(* What a session knows                                                    *)

Phases  == {"closed", "subscribed", "snapshot", "waiting", "live"}
Sources == {"none", "history", "redis", "db", "shared", "stale"}
Viewers == [phase : Phases, last : Nat, source : Sources, base : Nat,
            got : SUBSET Nat, queue : Seq(Nat)]

\* Only the server fans out, and only what was committed.
HubTypes ==
  /\ session \in [Sessions -> Viewers]
  /\ rebuild = None \/ rebuild \in [seq : Nat \cup {None}]
  /\ snapshot # None => snapshot.seq \in Nat
  /\ fanned \subseteq Events
  /\ \A r \in Relays : relay[r].pc \in {"fanout", "send"} => r = Server

\* What the hub was given, and what it is about to be given.
Sending == relay[Server].pc \in {"fanout", "send"} /\ relay[Server].event # 0
Out == fanned \cup {e \in {relay[Server].event} : Sending}

\* A snapshot of what was committed up to event k lacks nothing of that but what
\* has overtaken it.
Lacks(out, excused, k) == \A n \in out : n > k => n \in excused

\* So it is with the snapshots that are on their way, and with the stored one.
SnapshotsSaySo ==
  /\ rebuild # None /\ rebuild.seq # None => Lacks(Out, overtaken, rebuild.seq)
  /\ \A r \in Relays : relay[r].pc = "store" => Lacks(Out, overtaken, relay[r].event)
  /\ IsSnapshot => Lacks(Out, overtaken, snapshot.seq)

\* The event after which the session must miss nothing: the one its recovery
\* ended with, or will end with once the rebuild that has read is done.
Rebuilt == {"db", "shared"}

IsFloor(viewer, rb, source, b) ==
  \/ viewer.phase = "live" /\ viewer.source = source /\ b = viewer.base
  \/ /\ source \in Rebuilt /\ viewer.source = source /\ viewer.phase = "waiting"
     /\ rb # None /\ rb.seq # None /\ b = rb.seq

Has(viewer, n) == n \in viewer.got \cup ToSet(viewer.queue)

\* What the hub was given the session has, or is excused; what the hub is about
\* to send it has too, or is among the subscribers the hub has copied.
KnowsAll(viewer, rb, source) ==
  \A b \in Nat : IsFloor(viewer, rb, source, b) =>
    \A n \in fanned : n > b => Has(viewer, n) \/ n \in Excused(source)

WillKnow(viewer, rb, source, s) ==
  \A b \in Nat : IsFloor(viewer, rb, source, b) =>
    (relay[Server].pc = "send" /\ relay[Server].event > b =>
      \/ s \in relay[Server].fan
      \/ Has(viewer, relay[Server].event)
      \/ relay[Server].event \in Excused(source))

\* Only a rebuild is waited for.
SessionOK(s, source) ==
  /\ session[s].phase = "waiting" => session[s].source \in Rebuilt
  /\ KnowsAll(session[s], rebuild, source)
  /\ WillKnow(session[s], rebuild, source, s)

\* While no event is late, the history ends with the newest of them.
Sorted(h) == \A i, j \in 1 .. Len(h) : i <= j => h[i] <= h[j]

HistoryInTurn ==
  anomalies = {} =>
    /\ Sorted(history)
    /\ history # <<>> => \A n \in fanned : n <= Last(history)
    /\ Sending => history # <<>> /\ relay[Server].event <= Last(history)

-----------------------------------------------------------------------------
(* Steps that leave the sessions alone                                     *)

\* The server is one of the relays, with a step of its own.
LEMMA ServerSteps ==
  ASSUME DeliveryInv
  PROVE  Server \in Relays /\ relay[Server] \in Steps
BY DeliveryAssumption DEF DeliveryAssumption, DeliveryInv

\* A relay that goes elsewhere stays what it was, but for its place.
LEMMA GotoIs ==
  ASSUME DeliveryInv, NEW r \in Relays, NEW pc, Goto(r, pc)
  PROVE  /\ relay'[r].pc = pc /\ relay'[r].event = relay[r].event
         /\ \A q \in Relays : q # r => relay'[q] = relay[q]
<1>1. relay \in [Relays -> Steps]
  BY DEF DeliveryInv
<1> QED
  BY <1>1 DEF Goto, Steps

\* What leaves the hub alone and sends nothing keeps what the sessions know.
HubAside ==
  /\ UNCHANGED <<session, rebuild, fanned>> /\ overtaken \subseteq overtaken'
  /\ relay'[Server].pc = "send" => relay'[Server] = relay[Server]

LEMMA AsideKnows ==
  ASSUME NEW s \in Sessions, NEW source, SessionOK(s, source), HubAside
  PROVE  SessionOK(s, source)'
BY DEF SessionOK, KnowsAll, WillKnow, IsFloor, HubAside, Excused

\* A relay that is elsewhere in its loop.
QuietStep(r) ==
  \/ Renew(r) \/ ClaimSignal(r) \/ ExecuteSignal(r) \/ StoreSnapshot(r)
  \/ ReportSignal(r) \/ BeginBatch(r) \/ ClaimOne(r) \/ EndBatch(r)
  \/ Publish(r) \/ MarkPublished(r) \/ MarkRetriable(r) \/ MarkDead(r)
  \/ Restart(r)

\* Where such a relay goes: to the fan-out only the server's, with the event it
\* has just published or with a gap notice.
LEMMA QuietGoes ==
  ASSUME DeliveryInv, NEW r \in Relays, QuietStep(r)
  PROVE  /\ relay'[r].pc # "send"
         /\ relay'[r].pc = "fanout" =>
              /\ r = Server
              /\ \/ relay'[r].event = 0
                 \/ Publish(r) /\ Push(relay[r].event)
                    /\ relay'[r].event = relay[r].event
         /\ \A q \in Relays : q # r => relay'[q] = relay[q]
         /\ UNCHANGED <<session, rebuild, fanned>> /\ overtaken \subseteq overtaken'
<1>1. UNCHANGED <<session, rebuild, fanned>> /\ overtaken \subseteq overtaken'
  BY DEF QuietStep, Renew, ClaimSignal, ExecuteSignal, StoreSnapshot,
         ReportSignal, BeginBatch, ClaimOne, EndBatch, Publish, MarkPublished,
         MarkRetriable, MarkDead, Restart, Push, hubVars
<1>2. relay \in [Relays -> Steps]
  BY DEF DeliveryInv
<1>3. CASE \/ Renew(r) \/ ClaimSignal(r) \/ StoreSnapshot(r) \/ BeginBatch(r)
           \/ EndBatch(r) \/ Restart(r)
  <2>1. PICK pc \in {"signals", "execute", "report", "claim", "renew"} :
          Goto(r, pc)
    BY <1>3 DEF Renew, ClaimSignal, StoreSnapshot, BeginBatch, EndBatch, Restart
  <2> QED
    BY <1>1, <2>1, GotoIs
<1>4. CASE ExecuteSignal(r)
  <2>1. CASE ForceSnapshotRebuild(r)
    BY <1>1, <1>2, <2>1 DEF ForceSnapshotRebuild, Steps
  <2>2. CASE Goto(r, "report")
    BY <1>1, <2>2, GotoIs
  <2> QED
    BY <1>4, <2>1, <2>2
       DEF ExecuteSignal, RetryDeadOutbox, PauseRelayShard, ResumeRelayShard
<1>5. CASE ReportSignal(r)
  BY <1>1, <1>2, <1>5 DEF ReportSignal, Idle
<1>6. CASE ClaimOne(r)
  BY <1>1, <1>2, <1>6 DEF ClaimOne
<1>7. CASE Publish(r)
  <2>1. CASE Published(r) /\ Push(relay[r].event)
    BY <1>1, <1>7, <2>1, GotoIs DEF Published
  <2>2. CASE Goto(r, "dead") \/ Goto(r, "failed")
    BY <1>1, <2>2, GotoIs
  <2> QED
    BY <1>7, <2>1, <2>2 DEF Publish
<1>8. CASE MarkPublished(r) \/ MarkRetriable(r)
  BY <1>1, <1>2, <1>8 DEF MarkPublished, MarkRetriable, Idle
<1>9. CASE MarkDead(r)
  BY <1>1, <1>2, <1>9 DEF MarkDead, GapNotice, Idle
<1> QED
  BY <1>3, <1>4, <1>5, <1>6, <1>7, <1>8, <1>9 DEF QuietStep

\* What a step means for the hub.
LEMMA StepsOfTheHub ==
  ASSUME Next
  PROVE  \/ \E bad \in BOOLEAN : Commit(bad)
         \/ \E r \in Relays : QuietStep(r)
         \/ \E r \in Relays : CopySubscribers(r) \/ SendToSubscribers(r) \/ Crash(r)
         \/ \E s \in Sessions : SessionStep(s)
         \/ RebuildRead \/ RebuildDone \/ RebuildFails
         \/ Operator \/ Time
BY DEF Next, RelayStep, QuietStep

\* Requests, expiries and commits leave the hub and the relays alone.
LEMMA OutsideHub ==
  ASSUME (\E bad \in BOOLEAN : Commit(bad)) \/ Operator \/ Time \/ UNCHANGED vars
  PROVE  UNCHANGED <<session, rebuild, fanned, overtaken, relay>>
BY DEF Commit, Operator, Request, Time, LockExpires, LeaseExpires, HistoryExpires,
       vars, hubVars

-----------------------------------------------------------------------------
(* Types of the hub                                                        *)

\* A row of its own cannot make the outbox shorter.
LEMMA EventsStay ==
  ASSUME DeliveryInv, [Next]_vars
  PROVE  Events \subseteq Events'
<1>1. Len(delivery) \in Nat /\ DOMAIN delivery = 1 .. Len(delivery)
  BY LenProperties DEF DeliveryInv
<1>2. DeliveryInv'
  BY NextKeeps
<1>3. Len(delivery') \in Nat /\ DOMAIN delivery' = 1 .. Len(delivery')
  BY <1>2, LenProperties DEF DeliveryInv
<1>4. CASE \E bad \in BOOLEAN : Commit(bad)
  <2>1. delivery' = Append(delivery, Row) /\ delivery \in Seq(Rows) /\ Row \in Rows
    BY <1>4 DEF Commit, DeliveryInv, Row, Rows, Statuses
  <2>2. Len(delivery') = Len(delivery) + 1
    BY <2>1, AppendProperties
  <2> QED
    BY <1>1, <2>2 DEF Events
<1>5. CASE DOMAIN delivery' = DOMAIN delivery
  BY <1>1, <1>3, <1>5 DEF Events
<1>6. CASE \E r \in Relays : RelayStep(r) \/ Crash(r) \/ Restart(r)
  <2>1. PICK r \in Relays : RelayStep(r) \/ Crash(r) \/ Restart(r)
    BY <1>6
  <2>2. \/ UNCHANGED delivery
        \/ ExecuteSignal(r) \/ ClaimOne(r)
        \/ MarkPublished(r) \/ MarkRetriable(r) \/ MarkDead(r)
    BY <2>1 DEF RelayStep, Renew, ClaimSignal, StoreSnapshot, ReportSignal,
                BeginBatch, EndBatch, Publish, CopySubscribers,
                SendToSubscribers, Crash, Restart, pgVars
  <2>3. DOMAIN delivery' = DOMAIN delivery
    BY <2>2 DEF ExecuteSignal, ForceSnapshotRebuild, RetryDeadOutbox,
                PauseRelayShard, ResumeRelayShard, ClaimOne, MarkPublished,
                MarkRetriable, MarkDead, Unlocked, pgVars
  <2> QED
    BY <1>5, <2>3
<1>7. CASE \/ \E s \in Sessions : SessionStep(s)
           \/ RebuildRead \/ RebuildDone \/ RebuildFails
           \/ Operator \/ Time \/ UNCHANGED vars
  <2>1. UNCHANGED delivery \/ \E n \in Events : LockExpires(n)
    BY <1>7 DEF SessionStep, Connect, RecoverHistory, CachedSnapshot, JoinRebuild,
                WriteMessage, Disconnect, RebuildRead, RebuildDone, RebuildFails,
                Operator, Request, Time, LeaseExpires, HistoryExpires, vars, pgVars
  <2>2. DOMAIN delivery' = DOMAIN delivery
    BY <2>1 DEF LockExpires
  <2> QED
    BY <1>5, <2>2
<1> QED
  BY <1>4, <1>6, <1>7 DEF Next

\* An empty history serves nothing.
LEMMA EmptyServesNothing ==
  ASSUME history = <<>>, NEW last
  PROVE  FromHistory(last) = {}
<1> DEFINE t == LastN(history, RecoveryMax)
<1>1. Len(history) = 0 /\ RecoveryMax \in Nat \ {0}
  BY EmptySeq, DeliveryAssumption DEF DeliveryAssumption
<1>2. t = SubSeq(history, Max({1, 0 - RecoveryMax + 1}), 0)
  BY <1>1 DEF LastN
<1>3. Max({1, 0 - RecoveryMax + 1}) = 1
  <2> DEFINE S == {1, 0 - RecoveryMax + 1}
  <2>1. 1 \in S /\ \A x \in S : 1 >= x
    BY <1>1
  <2>2. \A x \in S : (\A y \in S : x >= y) => x = 1
    BY <1>1
  <2> HIDE DEF S
  <2>3. Max(S) = 1
    BY <2>1, <2>2, Zenon DEF Max
  <2> QED
    BY <2>3 DEF S
<1>4. t = <<>>
  BY <1>2, <1>3
<1> QED
  BY <1>4 DEF FromHistory

\* A session's step gives it the record of a viewer.
LEMMA ViewerTypes ==
  ASSUME DeliveryInv, HubTypes, NEW s \in Sessions, SessionStep(s)
  PROVE  session' \in [Sessions -> Viewers]
<1>1. /\ session \in [Sessions -> Viewers] /\ session[s] \in Viewers
      /\ Len(delivery) \in Nat
  BY LenProperties DEF HubTypes, DeliveryInv
<1>2. Closed \in Viewers
  BY EmptySeq DEF Closed, Viewers, Phases, Sources
<1>3. CASE Connect(s)
  <2>1. PICK last \in 0 .. Len(delivery) :
          session' = [session EXCEPT ![s] =
                        [Closed EXCEPT !.phase = "subscribed", !.last = last]]
    BY <1>3 DEF Connect
  <2> DEFINE viewer == [Closed EXCEPT !.phase = "subscribed", !.last = last]
  <2>2. viewer \in Viewers
    <3>1. last \in Nat
      BY <1>1
    <3> QED
      BY <3>1, EmptySeq DEF Closed, Viewers, Phases, Sources
  <2> HIDE DEF viewer
  <2> QED
    BY <1>1, <2>1, <2>2 DEF viewer
<1>4. ASSUME NEW source \in Sources, NEW base \in Nat, NEW got \in SUBSET Nat,
             Served(s, source, base, got)
      PROVE  session' \in [Sessions -> Viewers]
  BY <1>1, <1>4 DEF Served, Viewers, Phases
<1>5. CASE RecoverHistory(s)
  <2>1. CASE Served(s, "history", session[s].last, FromHistory(session[s].last))
    <3>1. FromHistory(session[s].last) \in SUBSET Nat
      <4>1. CASE history # <<>>
        <5>1. LastN(history, RecoveryMax) \in Seq(Nat)
          BY <4>1, LastNIs, DeliveryAssumption DEF DeliveryInv, DeliveryAssumption
        <5> QED
          BY <5>1 DEF FromHistory
      <4> QED
        BY <4>1, EmptyServesNothing
    <3>2. session[s].last \in Nat /\ "history" \in Sources
      BY <1>1 DEF Viewers, Sources
    <3> QED
      BY <1>4, <2>1, <3>1, <3>2
  <2>2. CASE session' = [session EXCEPT ![s].phase = "snapshot"]
    BY <1>1, <2>2 DEF Viewers, Phases
  <2> QED
    BY <1>5, <2>1, <2>2 DEF RecoverHistory
<1>6. CASE CachedSnapshot(s)
  <2>1. Served(s, "redis", snapshot.seq, {}) /\ snapshot.seq \in Nat
    BY <1>6 DEF CachedSnapshot, IsSnapshot, HubTypes
  <2>2. "redis" \in Sources
    BY DEF Sources
  <2> QED
    BY <1>4, <2>1, <2>2
<1>7. CASE JoinRebuild(s)
  BY <1>1, <1>7 DEF JoinRebuild, Viewers, Phases, Sources
<1>8. CASE WriteMessage(s)
  <2> DEFINE q == session[s].queue
             got == session[s].got \cup ({Head(q)} \ {0})
  <2>1. q \in Seq(Nat) /\ q # <<>>
    BY <1>1, <1>8 DEF WriteMessage, Viewers
  <2>2. Tail(q) \in Seq(Nat) /\ Head(q) \in Nat
    BY <2>1, HeadTailProperties
  <2>3. got \in SUBSET Nat
    BY <1>1, <2>2 DEF Viewers
  <2>4. session' = [session EXCEPT ![s].queue = Tail(q), ![s].got = got]
    BY <1>1, <1>8 DEF WriteMessage, Viewers
  <2> HIDE DEF q, got
  <2> QED
    BY <1>1, <2>2, <2>3, <2>4 DEF Viewers
<1>9. CASE Disconnect(s)
  BY <1>1, <1>2, <1>9 DEF Disconnect
<1> QED
  BY <1>3, <1>5, <1>6, <1>7, <1>8, <1>9 DEF SessionStep

\* Every step keeps the types of the hub.
LEMMA HubTypesKept ==
  ASSUME DeliveryInv, HubTypes, [Next]_vars
  PROVE  HubTypes'
<1>1. Events \subseteq Events'
  BY EventsStay
<1>2. session \in [Sessions -> Viewers] /\ fanned \subseteq Events'
  BY <1>1 DEF HubTypes
<1>3. Len(delivery) \in Nat /\ Closed \in Viewers
  BY LenProperties, EmptySeq DEF DeliveryInv, Closed, Viewers, Phases, Sources
<1>4. CASE \E r \in Relays : QuietStep(r)
  <2>1. PICK r \in Relays : QuietStep(r)
    BY <1>4
  <2>2. snapshot' # None => snapshot'.seq \in Nat
    <3>1. relay[r].event \in Nat
      BY DEF DeliveryInv, Steps
    <3>2. \/ UNCHANGED snapshot
          \/ \E kind : snapshot' = [kind |-> kind, seq |-> relay[r].event]
      BY <2>1 DEF QuietStep, Renew, ClaimSignal, ExecuteSignal, StoreSnapshot,
                  ReportSignal, BeginBatch, ClaimOne, EndBatch, Publish, Push,
                  MarkPublished, MarkRetriable, MarkDead, Restart, redisVars
    <3> QED
      BY <3>1, <3>2 DEF HubTypes
  <2> QED
    BY <1>2, <2>1, <2>2, QuietGoes DEF HubTypes
<1>5. CASE \E r \in Relays : CopySubscribers(r) \/ SendToSubscribers(r) \/ Crash(r)
  <2>1. PICK r \in Relays : CopySubscribers(r) \/ SendToSubscribers(r) \/ Crash(r)
    BY <1>5
  <2>2. relay \in [Relays -> Steps]
    BY DEF DeliveryInv
  <2>3. \A q \in Relays : relay'[q].pc \in {"fanout", "send"} => q = Server
    BY <2>1, <2>2 DEF HubTypes, CopySubscribers, SendToSubscribers, Crash, At, Idle
  <2>4. UNCHANGED snapshot
    BY <2>1 DEF CopySubscribers, SendToSubscribers, Crash, redisVars
  <2>5. rebuild' = None \/ rebuild' = rebuild
    BY <2>1 DEF CopySubscribers, SendToSubscribers, Crash, hubVars
  <2>6. CASE CopySubscribers(r) \/ Crash(r)
    BY <1>2, <1>3, <2>3, <2>4, <2>5, <2>6 DEF HubTypes, CopySubscribers, Crash, hubVars
  <2>7. CASE SendToSubscribers(r)
    <3>1. relay[r].event \in Events \cup {0} /\ relay[r].event \in Nat
      BY <2>2, <2>7 DEF SendToSubscribers, At, DeliveryInv, HeldInTurn, Steps
    <3>2. fanned' \subseteq Events'
      BY <1>1, <1>2, <2>7, <3>1 DEF SendToSubscribers
    <3>3. session' \in [Sessions -> Viewers]
      <4>1. ASSUME NEW t \in Sessions
            PROVE  TrySend(session[t], relay[r].event) \in Viewers
        <5>1. session[t].queue \in Seq(Nat) /\ session[t] \in Viewers
          BY <1>2 DEF Viewers
        <5>2. Append(session[t].queue, relay[r].event) \in Seq(Nat)
          BY <3>1, <5>1, AppendProperties
        <5> DEFINE q == Append(session[t].queue, relay[r].event)
        <5>3. TrySend(session[t], relay[r].event) \in {[session[t] EXCEPT !.queue = q], Closed}
          BY DEF TrySend
        <5> HIDE DEF q
        <5>4. q \in Seq(Nat)
          BY <5>2 DEF q
        <5> QED
          BY <1>3, <5>1, <5>3, <5>4 DEF Viewers
      <4>2. session' = [t \in Sessions |-> IF t \in relay[r].fan \cap Open
                                            THEN TrySend(session[t], relay[r].event)
                                            ELSE session[t]]
        BY <2>7 DEF SendToSubscribers
      <4> QED
        BY <1>2, <4>1, <4>2
    <3>4. rebuild' = None \/ rebuild' \in [seq : Nat \cup {None}]
      BY <2>5 DEF HubTypes
    <3>5. snapshot' # None => snapshot'.seq \in Nat
      BY <2>4 DEF HubTypes
    <3> QED
      BY <2>3, <3>2, <3>3, <3>4, <3>5 DEF HubTypes
  <2> QED
    BY <2>1, <2>6, <2>7
<1>6. CASE \E s \in Sessions : SessionStep(s)
  <2>1. PICK s \in Sessions : SessionStep(s)
    BY <1>6
  <2>2. session' \in [Sessions -> Viewers]
    BY <2>1, ViewerTypes
  <2>3. UNCHANGED <<fanned, snapshot>>
    BY <2>1 DEF SessionStep, Connect, RecoverHistory, CachedSnapshot, JoinRebuild,
                WriteMessage, Disconnect, redisVars
  <2>4. rebuild' = None \/ rebuild' \in [seq : Nat \cup {None}]
    <3>1. UNCHANGED rebuild \/ rebuild' = [seq |-> None]
      BY <2>1 DEF SessionStep, Connect, RecoverHistory, CachedSnapshot, JoinRebuild,
                  WriteMessage, Disconnect
    <3> QED
      BY <3>1 DEF HubTypes
  <2>5. \A q \in Relays : relay'[q].pc = relay[q].pc
    <3>1. relay \in [Relays -> Steps]
      BY DEF DeliveryInv
    <3>2. UNCHANGED relay \/ Disconnect(s)
      BY <2>1 DEF SessionStep, Connect, RecoverHistory, CachedSnapshot, JoinRebuild,
                  WriteMessage
    <3> QED
      BY <3>1, <3>2 DEF Disconnect, Steps
  <2> QED
    BY <1>2, <2>2, <2>3, <2>4, <2>5 DEF HubTypes
<1>7. CASE RebuildRead \/ RebuildDone \/ RebuildFails
  <2>1. UNCHANGED <<fanned, relay>>
    BY <1>7 DEF RebuildRead, RebuildDone, RebuildFails
  <2>2. CASE RebuildRead
    <3>1. rebuild \in [seq : Nat \cup {None}] /\ rebuild' = [rebuild EXCEPT !.seq = Len(delivery)]
      BY <2>2 DEF RebuildRead, HubTypes
    <3>2. rebuild' \in [seq : Nat \cup {None}]
      BY <1>3, <3>1
    <3> QED
      BY <1>2, <2>1, <2>2, <3>2 DEF RebuildRead, redisVars, HubTypes
  <2>3. ASSUME NEW source \in [Sessions -> Sources], NEW base \in [Sessions -> Nat],
               Answer(source, base)
        PROVE  session' \in [Sessions -> Viewers]
    <3>1. ASSUME NEW s \in Sessions
          PROVE  [session[s] EXCEPT !.phase = "live", !.base = base[s],
                                    !.source = source[s]] \in Viewers
      BY <1>2 DEF Viewers, Phases
    <3> QED
      BY <1>2, <2>3, <3>1 DEF Answer
  <2>4. CASE RebuildDone
    <3>1. rebuild.seq \in Nat
      BY <2>4 DEF RebuildDone, HubTypes
    <3>2. [s \in Sessions |-> session[s].source] \in [Sessions -> Sources]
      BY <1>2 DEF Viewers
    <3>3. [s \in Sessions |-> rebuild.seq] \in [Sessions -> Nat]
      BY <3>1
    <3>4. session' \in [Sessions -> Viewers]
      BY <2>3, <2>4, <3>2, <3>3 DEF RebuildDone
    <3>5. snapshot' = [kind |-> "server", seq |-> rebuild.seq] /\ rebuild' = None
      BY <2>4 DEF RebuildDone
    <3>6. snapshot'.seq \in Nat
      BY <3>1, <3>5
    <3>7. \A r \in Relays : relay'[r].pc \in {"fanout", "send"} => r = Server
      BY <2>1 DEF HubTypes
    <3> QED
      BY <1>2, <2>1, <3>4, <3>5, <3>6, <3>7 DEF HubTypes
  <2>5. CASE RebuildFails
    <3> DEFINE base == [s \in Sessions |-> IF IsSnapshot THEN snapshot.seq ELSE session[s].last]
    <3>1. [s \in Sessions |-> "stale"] \in [Sessions -> Sources]
      BY DEF Sources
    <3>2. base \in [Sessions -> Nat]
      BY <1>2 DEF IsSnapshot, HubTypes, Viewers
    <3>3. Answer([s \in Sessions |-> "stale"], base)
      BY <2>5 DEF RebuildFails
    <3> HIDE DEF base
    <3>4. session' \in [Sessions -> Viewers]
      BY <2>3, <3>1, <3>2, <3>3
    <3> QED
      BY <1>2, <2>1, <2>5, <3>4 DEF RebuildFails, redisVars, HubTypes
  <2> QED
    BY <1>7, <2>2, <2>4, <2>5
<1>8. CASE (\E bad \in BOOLEAN : Commit(bad)) \/ Operator \/ Time \/ UNCHANGED vars
  <2>1. UNCHANGED <<session, rebuild, fanned, relay>>
    BY <1>8, OutsideHub
  <2>2. snapshot' \in {snapshot, None}
    BY <1>8 DEF Commit, Operator, Request, Time, LockExpires, LeaseExpires,
                HistoryExpires, vars, redisVars
  <2> QED
    BY <1>2, <2>1, <2>2 DEF HubTypes
<1> QED
  BY <1>4, <1>5, <1>6, <1>7, <1>8, StepsOfTheHub

-----------------------------------------------------------------------------
(* A recovery from a history in order                                      *)

\* The part that a recovery reads is in order and has the same end.
LEMMA TailIsSorted ==
  ASSUME NEW h \in Seq(Nat), h # <<>>, Sorted(h), NEW k \in Nat \ {0}
  PROVE  LET t == LastN(h, k)
         IN  /\ t \in Seq(Nat) /\ Len(t) \in Nat \ {0} /\ Sorted(t)
             /\ t[Len(t)] = Last(h)
<1> DEFINE t == LastN(h, k)
           d == Len(h) - Len(t)
<1>1. /\ t \in Seq(Nat) /\ Len(t) \in 1 .. Len(h)
      /\ \A i \in 1 .. Len(t) : /\ Len(h) - Len(t) + i \in 1 .. Len(h)
                                /\ t[i] = h[Len(h) - Len(t) + i]
  BY LastNIs
<1>2. Len(h) \in Nat
  BY LenProperties
<1> HIDE DEF t
<1>3. Len(t) \in Nat \ {0} /\ d \in Nat
  BY <1>1, <1>2
<1>4. \A i \in 1 .. Len(t) : d + i \in 1 .. Len(h) /\ t[i] = h[d + i]
  BY <1>1
<1> HIDE DEF d
<1>5. Sorted(t)
  <2> SUFFICES ASSUME NEW i \in 1 .. Len(t), NEW j \in 1 .. Len(t), i <= j
               PROVE  t[i] <= t[j]
    BY DEF Sorted
  <2>1. d + i <= d + j
    BY <1>3
  <2> QED
    BY <1>4, <2>1 DEF Sorted
<1>6. t[Len(t)] = Last(h)
  <2>1. d + Len(t) = Len(h)
    BY <1>2, <1>3 DEF d
  <2> QED
    BY <1>3, <1>4, <2>1 DEF Last
<1> QED
  BY <1>1, <1>3, <1>5, <1>6 DEF t

\* What comes from a history in order is everything up to its end.
LEMMA RecoversToTheEnd ==
  ASSUME history \in Seq(Nat), history # <<>>, Sorted(history),
         NEW last \in Nat, FromHistory(last) # {},
         NEW n \in Nat, n > last, n <= Last(history)
  PROVE  n \in FromHistory(last)
<1> DEFINE t == LastN(history, RecoveryMax)
           k == Len(t)
           newer == {i \in DOMAIN t : t[i] > last}
<1>1. /\ t \in Seq(Nat) /\ k \in Nat \ {0} /\ Sorted(t)
      /\ t[k] = Last(history)
  BY TailIsSorted, DeliveryAssumption DEF DeliveryAssumption
<1>2. /\ newer # {} /\ FromHistory(last) = {t[i] : i \in newer}
      /\ \A i \in newer : t[i] = last + Cardinality({j \in newer : j <= i})
  BY DEF FromHistory
<1>3. DOMAIN t = 1 .. k /\ \A i \in 1 .. k : t[i] \in Nat
  BY <1>1
<1>4. \A i, j \in 1 .. k : i <= j => t[i] <= t[j]
  BY <1>1 DEF Sorted
<1> HIDE DEF t, k
<1>5. newer = {i \in 1 .. k : t[i] > last}
  BY <1>3
<1> HIDE DEF newer
<1>6. PICK a \in newer : \A i \in newer : a <= i
  <2>1. newer \subseteq Nat
    BY <1>5
  <2> QED
    BY <1>2, <2>1, HasLeast
<1>7. a \in 1 .. k /\ t[a] > last
  BY <1>5
<1>8. newer = a .. k
  <2>1. ASSUME NEW i \in a .. k
        PROVE  i \in newer
    <3>1. i \in 1 .. k /\ a <= i
      BY <1>1, <1>7
    <3>2. t[a] <= t[i] /\ t[i] \in Nat /\ t[a] \in Nat
      BY <1>3, <1>4, <1>7, <3>1
    <3> QED
      BY <1>5, <1>7, <3>1, <3>2
  <2>2. \A i \in newer : i \in a .. k
    BY <1>1, <1>5, <1>6, <1>7
  <2> QED
    BY <2>1, <2>2
<1>9. ASSUME NEW i \in a .. k
      PROVE  t[i] = last + (i - a + 1)
  <2>1. {j \in newer : j <= i} = a .. i
    BY <1>1, <1>7, <1>8
  <2>2. Cardinality(a .. i) = i - a + 1
    <3>1. a \in Int /\ i \in Int /\ a <= i
      BY <1>1, <1>7
    <3> QED
      BY <3>1, FS_Interval
  <2> QED
    BY <1>2, <1>8, <2>1, <2>2
<1>10. Last(history) = last + (k - a + 1)
  <2>1. k \in a .. k
    BY <1>1, <1>7
  <2> QED
    BY <1>1, <1>9, <2>1
<1> DEFINE i == a + (n - last) - 1
<1>11. i \in a .. k /\ last + (i - a + 1) = n
  BY <1>1, <1>7, <1>10
<1> HIDE DEF i
<1>12. t[i] = n
  BY <1>9, <1>11
<1> QED
  BY <1>2, <1>8, <1>11, <1>12

-----------------------------------------------------------------------------
(* What a session knows after a step                                       *)

\* The server has copied the subscribers: every session that knows anything is
\* one of them.
LEMMA CopyKnows ==
  ASSUME DeliveryInv, HubTypes, NEW s \in Sessions, NEW source, SessionOK(s, source),
         CopySubscribers(Server)
  PROVE  SessionOK(s, source)'
<1>1. /\ UNCHANGED <<session, rebuild, fanned, overtaken>>
      /\ relay'[Server].fan = Open
  BY ServerSteps DEF CopySubscribers, hubVars, DeliveryInv, Steps
<1>2. KnowsAll(session[s], rebuild, source)'
  BY <1>1 DEF SessionOK, KnowsAll, Excused
<1>3. \A b : IsFloor(session[s], rebuild, source, b) => s \in Open
  BY DEF IsFloor, Open
<1> QED
  BY <1>1, <1>2, <1>3 DEF SessionOK, WillKnow

\* The entries of a queue with one more.
LEMMA AppendHas ==
  ASSUME NEW q \in Seq(Nat), NEW e \in Nat
  PROVE  ToSet(Append(q, e)) = ToSet(q) \cup {e}
<1> DEFINE a == Append(q, e)
           l == Len(q)
<1>1. /\ l \in Nat /\ a \in Seq(Nat) /\ Len(a) = l + 1 /\ a[l + 1] = e
      /\ \A i \in 1 .. l : a[i] = q[i]
  BY LenProperties, AppendProperties
<1>2. DOMAIN q = 1 .. l /\ DOMAIN a = 1 .. (l + 1)
  BY <1>1
<1> HIDE DEF a, l
<1>3. ToSet(a) \subseteq ToSet(q) \cup {e}
  BY <1>1, <1>2 DEF ToSet
<1>4. ToSet(q) \cup {e} \subseteq ToSet(a)
  <2>1. e \in ToSet(a)
    BY <1>1, <1>2 DEF ToSet
  <2>2. ASSUME NEW i \in 1 .. l
        PROVE  q[i] \in ToSet(a)
    BY <1>1, <1>2 DEF ToSet
  <2> QED
    BY <1>2, <2>1, <2>2 DEF ToSet
<1> QED
  BY <1>3, <1>4 DEF a

\* The entries of a queue without its first.
LEMMA TailHas ==
  ASSUME NEW q \in Seq(Nat), q # <<>>
  PROVE  ToSet(q) \subseteq {Head(q)} \cup ToSet(Tail(q))
<1>1. Len(q) \in Nat \ {0} /\ DOMAIN q = 1 .. Len(q)
  BY EmptySeq, LenProperties
<1>2. /\ Tail(q) \in Seq(Nat) /\ Len(Tail(q)) = Len(q) - 1 /\ Head(q) = q[1]
      /\ \A i \in 1 .. Len(Tail(q)) : Tail(q)[i] = q[i + 1]
  BY HeadTailProperties
<1>3. DOMAIN Tail(q) = 1 .. (Len(q) - 1)
  BY <1>2
<1>4. ASSUME NEW i \in 1 .. Len(q)
      PROVE  q[i] = Head(q) \/ q[i] \in ToSet(Tail(q))
  <2>1. CASE i = 1
    BY <1>2, <2>1
  <2>2. CASE i # 1
    <3>1. i - 1 \in 1 .. (Len(q) - 1) /\ (i - 1) + 1 = i
      BY <1>1, <2>2
    <3>2. Tail(q)[i - 1] = q[i]
      BY <1>2, <3>1
    <3> QED
      BY <1>3, <3>1, <3>2 DEF ToSet
  <2> QED
    BY <2>1, <2>2
<1> QED
  BY <1>1, <1>4 DEF ToSet

\* The server sends: whoever it had copied has the event in its queue, or is
\* closed.
LEMMA SendKnows ==
  ASSUME DeliveryInv, HubTypes, NEW s \in Sessions, NEW source, SessionOK(s, source),
         SendToSubscribers(Server)
  PROVE  SessionOK(s, source)'
<1> DEFINE e == relay[Server].event
           reached == s \in relay[Server].fan \cap Open
<1>1. /\ relay[Server].pc = "send" /\ e \in Nat
      /\ session[s] \in Viewers /\ session[s].queue \in Seq(Nat)
      /\ UNCHANGED <<rebuild, overtaken>>
      /\ fanned' = fanned \cup ({e} \ {0})
  BY ServerSteps DEF SendToSubscribers, At, HubTypes, Viewers, Steps
<1>2. relay'[Server].pc # "send"
  BY ServerSteps DEF SendToSubscribers, DeliveryInv, Steps
<1>3. session'[s] = IF reached THEN TrySend(session[s], e) ELSE session[s]
  BY DEF SendToSubscribers
<1> HIDE DEF e
<1>4. CASE ~reached
  <2>1. session'[s] = session[s]
    BY <1>3, <1>4
  <2>2. ASSUME NEW b \in Nat, IsFloor(session[s], rebuild, source, b),
               NEW n \in fanned \cup ({e} \ {0}), n > b
        PROVE  Has(session[s], n) \/ n \in Excused(source)
    <3>1. s \in Open
      BY <2>2 DEF IsFloor, Open
    <3> QED
      BY <1>1, <1>4, <2>2, <3>1 DEF SessionOK, KnowsAll, WillKnow, e
  <2> QED
    BY <1>1, <1>2, <2>1, <2>2 DEF SessionOK, KnowsAll, WillKnow, Excused
<1>5. CASE reached /\ Len(session[s].queue) < QueueLimit
  <2> DEFINE q == Append(session[s].queue, e)
             viewer == [session[s] EXCEPT !.queue = q]
  <2>1. session'[s] = viewer
    BY <1>1, <1>3, <1>5 DEF TrySend, Viewers
  <2>2. ToSet(q) = ToSet(session[s].queue) \cup {e}
    BY <1>1, AppendHas
  <2> HIDE DEF q
  <2>3. /\ viewer.phase = session[s].phase /\ viewer.source = session[s].source
        /\ viewer.base = session[s].base /\ viewer.got = session[s].got
        /\ viewer.queue = q
    BY <1>1 DEF Viewers
  <2> HIDE DEF viewer
  <2>4. \A n : Has(session[s], n) \/ n = e => Has(viewer, n)
    BY <2>2, <2>3 DEF Has
  <2>5. \A b : IsFloor(viewer, rebuild, source, b) => IsFloor(session[s], rebuild, source, b)
    BY <2>3 DEF IsFloor
  <2> QED
    BY <1>1, <1>2, <2>1, <2>3, <2>4, <2>5 DEF SessionOK, KnowsAll, WillKnow, Excused
<1>6. CASE reached /\ ~(Len(session[s].queue) < QueueLimit)
  <2>1. session'[s] = Closed
    BY <1>3, <1>6 DEF TrySend
  <2>2. Closed.phase # "waiting" /\ \A b : ~IsFloor(Closed, rebuild, source, b)
    BY DEF IsFloor, Closed
  <2> QED
    BY <1>1, <2>1, <2>2 DEF SessionOK, KnowsAll, WillKnow
<1> QED
  BY <1>4, <1>5, <1>6

\* A step of one session leaves what another knows.
LEMMA OthersKnow ==
  ASSUME DeliveryInv, HubTypes, NEW s \in Sessions, NEW source, SessionOK(s, source),
         NEW t \in Sessions, t # s, SessionStep(t)
  PROVE  SessionOK(s, source)'
<1>1. session \in [Sessions -> Viewers]
  BY DEF HubTypes
<1>2. session'[s] = session[s]
  BY <1>1 DEF SessionStep, Connect, RecoverHistory, CachedSnapshot, JoinRebuild,
              WriteMessage, Disconnect, Served
<1>3. /\ UNCHANGED <<fanned, overtaken>>
      /\ UNCHANGED rebuild \/ rebuild' = [seq |-> None]
  BY DEF SessionStep, Connect, RecoverHistory, CachedSnapshot, JoinRebuild,
         WriteMessage, Disconnect
<1>4. \A b : IsFloor(session[s], rebuild', source, b) => IsFloor(session[s], rebuild, source, b)
  BY <1>3 DEF IsFloor
<1>5. /\ relay'[Server].pc = relay[Server].pc /\ relay'[Server].event = relay[Server].event
      /\ s \in relay[Server].fan => s \in relay'[Server].fan
  <2>1. UNCHANGED relay \/ Disconnect(t)
    BY DEF SessionStep, Connect, RecoverHistory, CachedSnapshot, JoinRebuild,
           WriteMessage
  <2>2. CASE Disconnect(t)
    BY <2>2, ServerSteps DEF Disconnect, DeliveryInv, Steps
  <2> QED
    BY <2>1, <2>2
<1> QED
  BY <1>2, <1>3, <1>4, <1>5 DEF SessionOK, KnowsAll, WillKnow, Excused

\* A session that must know nothing yet, or nothing any more.
LEMMA NothingToKnow ==
  ASSUME NEW s \in Sessions, NEW source,
         session'[s].phase = "waiting" => session'[s].source \in Rebuilt,
         \A b : ~IsFloor(session'[s], rebuild', source, b)
  PROVE  SessionOK(s, source)'
BY DEF SessionOK, KnowsAll, WillKnow

Told == {"db", "history", "redis", "shared"}

\* A session that starts from a snapshot which lacks nothing but what overtook it.
LEMMA LackedIsExcused ==
  ASSUME DeliveryInv, NEW s \in Sessions, NEW source \in {"redis", "shared"}, NEW k, Lacks(Out, overtaken, k),
         UNCHANGED <<relay, fanned, overtaken>>,
         session'[s].phase = "waiting" => session'[s].source \in Rebuilt,
         \A b : IsFloor(session'[s], rebuild', source, b) => b = k
  PROVE  SessionOK(s, source)'
<1>1. Excused(source) = overtaken /\ Excused(source)' = overtaken
  BY DEF Excused
<1>2. KnowsAll(session[s], rebuild, source)'
  BY <1>1 DEF KnowsAll, Lacks, Out
<1>3. ASSUME NEW b \in Nat, IsFloor(session'[s], rebuild', source, b),
             relay[Server].pc = "send", relay[Server].event > b
      PROVE  relay[Server].event \in overtaken
  <2>1. relay[Server].event \in Nat /\ relay[Server].event # 0
    BY <1>3, ServerSteps DEF Steps
  <2> QED
    BY <1>3, <2>1 DEF Lacks, Out, Sending
<1> QED
  BY <1>1, <1>2, <1>3 DEF SessionOK, WillKnow

\* A session's own step: what a recovery from a history in order gives it is
\* all the hub was given or is about to send, and what it writes it keeps.
LEMMA OwnStepKnows ==
  ASSUME DeliveryInv, HubTypes, SnapshotsSaySo, NEW s \in Sessions, NEW source \in Told,
         source = "history" => anomalies = {} /\ HistoryInTurn,
         SessionOK(s, source), SessionStep(s)
  PROVE  SessionOK(s, source)'
<1>1. session \in [Sessions -> Viewers] /\ session[s] \in Viewers
  BY DEF HubTypes
<1>2. CASE Connect(s)
  <2>1. session'[s].phase = "subscribed"
    BY <1>1, <1>2 DEF Connect, Closed
  <2> QED
    BY <2>1, NothingToKnow DEF IsFloor
<1>3. CASE RecoverHistory(s)
  <2> DEFINE last == session[s].last
  <2>1. CASE session' = [session EXCEPT ![s].phase = "snapshot"]
    <3>1. session'[s].phase = "snapshot"
      BY <1>1, <2>1 DEF Viewers
    <3> QED
      BY <3>1, NothingToKnow DEF IsFloor
  <2>2. CASE FromHistory(last) # {} /\ Served(s, "history", last, FromHistory(last))
    <3>1. /\ session'[s].phase = "live" /\ session'[s].source = "history"
          /\ session'[s].base = last /\ session'[s].got = FromHistory(last)
      BY <1>1, <2>2 DEF Served, Viewers
    <3>2. CASE source # "history"
      BY <3>1, <3>2, NothingToKnow DEF IsFloor
    <3>3. CASE source = "history"
      <4>1. history \in Seq(Nat) /\ history # <<>> /\ last \in Nat
        BY <1>1, <2>2, EmptyServesNothing DEF DeliveryInv, Viewers
      <4>2. /\ Sorted(history) /\ \A n \in fanned : n <= Last(history)
            /\ Sending => relay[Server].event <= Last(history)
        BY <3>3, <4>1 DEF HistoryInTurn
      <4>3. UNCHANGED <<relay, fanned>>
        BY <1>3 DEF RecoverHistory
      <4>4. ASSUME NEW n \in Nat, n > last, n <= Last(history)
            PROVE  Has(session'[s], n)
        BY <2>2, <3>1, <4>1, <4>2, <4>4, RecoversToTheEnd DEF Has
      <4>5. fanned \subseteq Nat /\ relay[Server].event \in Nat
        BY ServerSteps, LenProperties DEF HubTypes, Events, DeliveryInv, Steps
      <4>6. KnowsAll(session[s], rebuild, source)'
        BY <3>1, <3>3, <4>2, <4>3, <4>4, <4>5 DEF KnowsAll, IsFloor
      <4>7. WillKnow(session[s], rebuild, source, s)'
        <5>1. ASSUME relay[Server].pc = "send", relay[Server].event > last
              PROVE  Has(session'[s], relay[Server].event)
          <6>1. Sending
            BY <4>1, <4>5, <5>1 DEF Sending
          <6> QED
            BY <4>2, <4>4, <4>5, <5>1, <6>1
        <5> QED
          BY <3>1, <3>3, <4>3, <5>1 DEF WillKnow, IsFloor
      <4> QED
        BY <3>1, <4>6, <4>7 DEF SessionOK
    <3> QED
      BY <3>2, <3>3
  <2> QED
    BY <1>3, <2>1, <2>2 DEF RecoverHistory
<1>4. CASE CachedSnapshot(s)
  <2>1. /\ session'[s].phase = "live" /\ session'[s].source = "redis"
        /\ session'[s].base = snapshot.seq /\ IsSnapshot
        /\ UNCHANGED <<relay, fanned, overtaken, rebuild>>
    BY <1>1, <1>4 DEF CachedSnapshot, Served, Viewers
  <2>2. CASE source # "redis"
    BY <2>1, <2>2, NothingToKnow DEF IsFloor
  <2>3. CASE source = "redis"
    BY <2>1, <2>3, LackedIsExcused DEF SnapshotsSaySo, IsFloor, Rebuilt
  <2> QED
    BY <2>2, <2>3
<1>5. CASE JoinRebuild(s)
  <2>1. /\ session'[s].phase = "waiting"
        /\ session'[s].source = IF rebuild = None THEN "db" ELSE "shared"
        /\ rebuild' = IF rebuild = None THEN [seq |-> None] ELSE rebuild
        /\ UNCHANGED <<relay, fanned, overtaken>>
    BY <1>1, <1>5 DEF JoinRebuild, Viewers
  <2>2. session'[s].source \in Rebuilt
    BY <2>1 DEF Rebuilt
  <2>3. CASE rebuild = None \/ rebuild.seq = None \/ source # "shared"
    <3>1. \A b : ~IsFloor(session'[s], rebuild', source, b)
      BY <2>1, <2>3 DEF IsFloor
    <3> QED
      BY <2>2, <3>1, NothingToKnow
  <2>4. CASE rebuild # None /\ rebuild.seq # None /\ source = "shared"
    <3>1. \A b : IsFloor(session'[s], rebuild', source, b) => b = rebuild.seq
      BY <2>1, <2>4 DEF IsFloor
    <3> QED
      BY <2>1, <2>2, <2>4, <3>1, LackedIsExcused DEF SnapshotsSaySo
  <2> QED
    BY <2>3, <2>4
<1>6. CASE WriteMessage(s)
  <2> DEFINE q == session[s].queue
             got == session[s].got \cup ({Head(q)} \ {0})
             viewer == [session[s] EXCEPT !.queue = Tail(q), !.got = got]
  <2>1. q \in Seq(Nat) /\ q # <<>> /\ UNCHANGED <<relay, fanned, overtaken, rebuild>>
    BY <1>1, <1>6 DEF WriteMessage, Viewers
  <2>2. session'[s] = viewer
    BY <1>1, <1>6 DEF WriteMessage, Viewers
  <2>3. ToSet(q) \subseteq {Head(q)} \cup ToSet(Tail(q))
    BY <2>1, TailHas
  <2>4. /\ viewer.phase = session[s].phase /\ viewer.source = session[s].source
        /\ viewer.base = session[s].base /\ viewer.got = got
        /\ viewer.queue = Tail(q)
    BY <1>1 DEF Viewers
  <2> HIDE DEF viewer
  <2>5. \A n : n # 0 /\ Has(session[s], n) => Has(viewer, n)
    BY <2>3, <2>4 DEF Has
  <2>6. \A b : IsFloor(viewer, rebuild, source, b) => IsFloor(session[s], rebuild, source, b)
    BY <2>4 DEF IsFloor
  <2>7. \A b \in Nat, n \in Nat : n > b => n # 0
    OBVIOUS
  <2>8. fanned \subseteq Nat /\ relay[Server].event \in Nat
    BY ServerSteps, LenProperties DEF HubTypes, Events, DeliveryInv, Steps
  <2> QED
    BY <2>1, <2>2, <2>4, <2>5, <2>6, <2>7, <2>8 DEF SessionOK, KnowsAll, WillKnow, Excused
<1>7. CASE Disconnect(s)
  <2>1. session'[s].phase = "closed"
    BY <1>1, <1>7 DEF Disconnect, Closed
  <2> QED
    BY <2>1, NothingToKnow DEF IsFloor
<1> QED
  BY <1>2, <1>3, <1>4, <1>5, <1>6, <1>7 DEF SessionStep

\* A rebuild reads everything committed, which the hub cannot have been given
\* more than; when it is done, its first caller starts from there.
LEMMA RebuildKnows ==
  ASSUME DeliveryInv, HubTypes, NEW s \in Sessions, NEW source \in Told,
         SessionOK(s, source), RebuildRead \/ RebuildDone \/ RebuildFails
  PROVE  SessionOK(s, source)'
<1>1. session \in [Sessions -> Viewers] /\ session[s] \in Viewers
  BY DEF HubTypes
<1>2. UNCHANGED <<relay, fanned, overtaken>>
  BY DEF RebuildRead, RebuildDone, RebuildFails
<1>3. CASE RebuildRead
  <2>1. /\ UNCHANGED session /\ rebuild.seq = None
        /\ rebuild' = [rebuild EXCEPT !.seq = Len(delivery)]
        /\ rebuild \in [seq : Nat \cup {None}]
    BY <1>3 DEF RebuildRead, HubTypes
  <2>2. rebuild'.seq = Len(delivery) /\ Len(delivery) \in Nat
    BY <2>1, LenProperties DEF DeliveryInv
  <2>3. \A b : IsFloor(session[s], rebuild', source, b) =>
                 IsFloor(session[s], rebuild, source, b) \/ b = Len(delivery)
    BY <2>2 DEF IsFloor
  <2>4. /\ \A n \in fanned : n \in Nat /\ ~(n > Len(delivery))
        /\ relay[Server].pc = "send" => ~(relay[Server].event > Len(delivery))
    BY <2>2, ServerSteps DEF HubTypes, Events, DeliveryInv, HeldInTurn
  <2> QED
    BY <1>2, <2>1, <2>3, <2>4 DEF SessionOK, KnowsAll, WillKnow, Excused
<1>4. ASSUME NEW from, NEW base, Answer(from, base), rebuild' = None,
             session[s].phase = "waiting" => from[s] # source \/
               (from[s] = session[s].source /\ IsFloor(session[s], rebuild, source, base[s]))
      PROVE  SessionOK(s, source)'
  <2>1. CASE session[s].phase = "waiting"
    <3> DEFINE viewer == [session[s] EXCEPT !.phase = "live", !.base = base[s],
                                            !.source = from[s]]
    <3>1. session'[s] = viewer
      BY <1>4, <2>1 DEF Answer
    <3>2. /\ viewer.phase = "live" /\ viewer.source = from[s] /\ viewer.base = base[s]
          /\ viewer.got = session[s].got /\ viewer.queue = session[s].queue
      BY <1>1 DEF Viewers
    <3> HIDE DEF viewer
    <3>3. \A b : IsFloor(viewer, None, source, b) => IsFloor(session[s], rebuild, source, b)
      BY <1>4, <2>1, <3>2 DEF IsFloor
    <3>4. \A n : Has(session[s], n) => Has(viewer, n)
      BY <3>2 DEF Has
    <3> QED
      BY <1>2, <1>4, <3>1, <3>2, <3>3, <3>4 DEF SessionOK, KnowsAll, WillKnow, Excused
  <2>2. CASE session[s].phase # "waiting"
    <3>1. session'[s] = session[s]
      BY <1>4, <2>2 DEF Answer
    <3>2. \A b : IsFloor(session[s], None, source, b) => IsFloor(session[s], rebuild, source, b)
      BY DEF IsFloor
    <3> QED
      BY <1>2, <1>4, <3>1, <3>2 DEF SessionOK, KnowsAll, WillKnow, Excused
  <2> QED
    BY <2>1, <2>2
<1>5. CASE RebuildDone
  <2> DEFINE from == [t \in Sessions |-> session[t].source]
             base == [t \in Sessions |-> rebuild.seq]
  <2>1. rebuild # None /\ rebuild.seq # None /\ Answer(from, base) /\ rebuild' = None
    BY <1>5 DEF RebuildDone
  <2>2. from[s] = session[s].source /\ base[s] = rebuild.seq
    OBVIOUS
  <2> HIDE DEF from, base
  <2>3. CASE source \in Rebuilt
    BY <1>4, <2>1, <2>2, <2>3 DEF IsFloor
  <2>4. CASE source \notin Rebuilt /\ session[s].phase = "waiting" /\ session[s].source = source
    BY <2>4 DEF SessionOK
  <2> QED
    BY <1>4, <2>1, <2>2, <2>3, <2>4
<1>6. CASE RebuildFails
  <2> DEFINE from == [t \in Sessions |-> "stale"]
             base == [t \in Sessions |-> IF IsSnapshot THEN snapshot.seq ELSE session[t].last]
  <2>1. Answer(from, base) /\ rebuild' = None
    BY <1>6 DEF RebuildFails
  <2>2. from[s] # source
    BY DEF Told
  <2> HIDE DEF from, base
  <2> QED
    BY <1>4, <2>1, <2>2
<1> QED
  BY <1>3, <1>5, <1>6

\* What sessions of this source know, every step keeps.
LEMMA NextKnows ==
  ASSUME DeliveryInv, HubTypes, SnapshotsSaySo, NEW source \in Told,
         source = "history" => anomalies = {} /\ HistoryInTurn,
         \A s \in Sessions : SessionOK(s, source), [Next]_vars
  PROVE  \A s \in Sessions : SessionOK(s, source)'
<1> SUFFICES ASSUME NEW s \in Sessions
             PROVE  SessionOK(s, source)'
  OBVIOUS
<1>1. SessionOK(s, source)
  OBVIOUS
<1>2. ASSUME NEW r \in Relays, QuietStep(r)
      PROVE  SessionOK(s, source)'
  <2>1. HubAside
    BY <1>2, QuietGoes, ServerSteps DEF HubAside
  <2> QED
    BY <1>1, <2>1, AsideKnows
<1>3. ASSUME NEW r \in Relays, CopySubscribers(r) \/ SendToSubscribers(r)
      PROVE  SessionOK(s, source)'
  <2>1. r = Server
    BY <1>3 DEF CopySubscribers, SendToSubscribers, At, HubTypes
  <2> QED
    BY <1>1, <1>3, <2>1, CopyKnows, SendKnows
<1>4. ASSUME NEW r \in Relays, Crash(r)
      PROVE  SessionOK(s, source)'
  <2>1. relay' = [relay EXCEPT ![r] = [Idle EXCEPT !.pc = "down"]] /\ UNCHANGED <<fanned, overtaken>>
    BY <1>4 DEF Crash
  <2>2. CASE r = Server
    <3>1. session'[s].phase = "closed"
      BY <1>4, <2>2 DEF Crash, Closed
    <3> QED
      BY <3>1, NothingToKnow DEF IsFloor
  <2>3. CASE r # Server
    <3>1. relay'[Server] = relay[Server] /\ UNCHANGED <<session, rebuild>>
      BY <1>4, <2>1, <2>3, ServerSteps DEF Crash, DeliveryInv
    <3>2. HubAside
      BY <2>1, <3>1 DEF HubAside
    <3> QED
      BY <1>1, <3>2, AsideKnows
  <2> QED
    BY <2>2, <2>3
<1>5. ASSUME NEW t \in Sessions, SessionStep(t)
      PROVE  SessionOK(s, source)'
  BY <1>1, <1>5, OwnStepKnows, OthersKnow
<1>6. CASE RebuildRead \/ RebuildDone \/ RebuildFails
  BY <1>1, <1>6, RebuildKnows
<1>7. CASE (\E bad \in BOOLEAN : Commit(bad)) \/ Operator \/ Time \/ UNCHANGED vars
  <2>1. HubAside
    BY <1>7, OutsideHub DEF HubAside
  <2> QED
    BY <1>1, <2>1, AsideKnows
<1> QED
  BY <1>2, <1>3, <1>4, <1>5, <1>6, <1>7, StepsOfTheHub

-----------------------------------------------------------------------------
(* The history stays in turn while nothing is late                         *)

\* No event is appended behind a newer one that the list holds or the hub was
\* given.
NothingLate ==
  anomalies = {} /\ history' # history /\ history' # <<>> =>
    \A n \in ToSet(history) \cup fanned : n <= Last(history')

\* An anomaly is never taken back.
LEMMA AnomaliesStay ==
  ASSUME [Next]_vars
  PROVE  anomalies \subseteq anomalies'
<1>1. UNCHANGED anomalies \/ \E r \in Relays : MarkDead(r)
  BY DEF Next, Commit, RelayStep, Renew, ClaimSignal, ExecuteSignal,
         ForceSnapshotRebuild, RetryDeadOutbox, PauseRelayShard, ResumeRelayShard,
         StoreSnapshot, ReportSignal, BeginBatch, ClaimOne, EndBatch, Publish,
         CopySubscribers, SendToSubscribers, MarkPublished, MarkRetriable,
         Crash, Restart, SessionStep, Connect, RecoverHistory, CachedSnapshot,
         JoinRebuild, WriteMessage, Disconnect, RebuildRead, RebuildDone,
         RebuildFails, Operator, Request, Time, LockExpires, LeaseExpires,
         HistoryExpires, vars, pgVars
<1> QED
  BY <1>1 DEF MarkDead

\* Only a publication and the expiry of the keys write the history.
LEMMA HistoryWriters ==
  ASSUME DeliveryInv, [Next]_vars
  PROVE  \/ UNCHANGED history
         \/ \E r \in Relays : Publish(r) /\ Push(relay[r].event)
         \/ HistoryExpires
<1>1. \/ UNCHANGED history
      \/ \E r \in Relays : Publish(r)
      \/ HistoryExpires
  BY DEF Next, Commit, RelayStep, Renew, ClaimSignal, ExecuteSignal,
         StoreSnapshot, ReportSignal, BeginBatch, ClaimOne, EndBatch,
         CopySubscribers, SendToSubscribers, MarkPublished, MarkRetriable,
         MarkDead, Crash, Restart, SessionStep, Connect, RecoverHistory,
         CachedSnapshot, JoinRebuild, WriteMessage, Disconnect, RebuildRead,
         RebuildDone, RebuildFails, Operator, Request, Time, LockExpires,
         LeaseExpires, vars, redisVars
<1>2. \A r : Publish(r) => UNCHANGED history \/ Push(relay[r].event)
  BY DEF Publish, redisVars
<1> QED
  BY <1>1, <1>2

\* A newer event behind a list in order.
LEMMA SortedAppend ==
  ASSUME NEW h \in Seq(Nat), NEW e \in Nat, Sorted(h), \A x \in ToSet(h) : x <= e
  PROVE  Sorted(Append(h, e))
<1> DEFINE a == Append(h, e)
           l == Len(h)
<1>1. /\ l \in Nat /\ Len(a) = l + 1 /\ a[l + 1] = e
      /\ \A i \in 1 .. l : a[i] = h[i] /\ h[i] <= e
  BY LenProperties, AppendProperties DEF ToSet
<1>2. \A i, j \in 1 .. l : i <= j => h[i] <= h[j]
  BY DEF Sorted
<1> HIDE DEF a, l
<1>3. ASSUME NEW i \in 1 .. (l + 1), NEW j \in 1 .. (l + 1), i <= j
      PROVE  a[i] <= a[j]
  <2>1. CASE j = l + 1 /\ i = l + 1
    BY <1>1, <2>1
  <2>2. CASE j = l + 1 /\ i # l + 1
    <3>1. i \in 1 .. l
      BY <1>1, <2>2
    <3> QED
      BY <1>1, <2>2, <3>1
  <2>3. CASE j # l + 1
    <3>1. i \in 1 .. l /\ j \in 1 .. l
      BY <1>1, <1>3, <2>3
    <3> QED
      BY <1>1, <1>2, <1>3, <3>1
  <2> QED
    BY <2>1, <2>2, <2>3
<1> QED
  BY <1>1, <1>3 DEF Sorted, a

\* What a publication makes of a history in order.
LEMMA PushInTurn ==
  ASSUME DeliveryInv, NEW e \in Nat, Push(e), Sorted(history),
         history' # history => \A x \in ToSet(history) : x <= e
  PROVE  /\ history' \in Seq(Nat) /\ history' # <<>> /\ Last(history') = e
         /\ Sorted(history')
<1> DEFINE a == Append(history, e)
<1>1. history \in Seq(Nat) /\ HistoryLimit \in Nat \ {0}
  BY DeliveryAssumption DEF DeliveryInv, DeliveryAssumption
<1>2. history' = LastN(a, HistoryLimit)
  BY DEF Push
<1>3. history' \in Seq(Nat) /\ history' # <<>> /\ Last(history') = e
  BY <1>1, <1>2, LastNKeepsEnd
<1>4. Sorted(history')
  <2>1. CASE history' = history
    BY <2>1 DEF Sorted
  <2>2. CASE history' # history
    <3>1. a \in Seq(Nat) /\ a # <<>> /\ Sorted(a)
      BY <1>1, <2>2, SortedAppend, AppendProperties, EmptySeq
    <3> HIDE DEF a
    <3>2. Sorted(LastN(a, HistoryLimit))
      BY <1>1, <3>1, TailIsSorted
    <3> QED
      BY <1>2, <3>2
  <2> QED
    BY <2>1, <2>2
<1> QED
  BY <1>3, <1>4

\* The last entry is one of them.
LEMMA LastIsIn ==
  ASSUME NEW h \in Seq(Nat), h # <<>>
  PROVE  Last(h) \in ToSet(h) /\ Last(h) \in Nat
<1>1. Len(h) \in Nat \ {0} /\ DOMAIN h = 1 .. Len(h)
  BY EmptySeq, LenProperties
<1>2. Len(h) \in 1 .. Len(h)
  BY <1>1
<1> QED
  BY <1>1, <1>2 DEF Last, ToSet

\* The end of a list has no other entries.
LEMMA LastNHas ==
  ASSUME NEW h \in Seq(Nat), h # <<>>, NEW k \in Nat \ {0}
  PROVE  ToSet(LastN(h, k)) \subseteq ToSet(h)
<1> DEFINE t == LastN(h, k)
<1>1. /\ t \in Seq(Nat)
      /\ \A i \in 1 .. Len(t) : /\ Len(h) - Len(t) + i \in 1 .. Len(h)
                                /\ t[i] = h[Len(h) - Len(t) + i]
  BY LastNIs
<1>2. DOMAIN t = 1 .. Len(t) /\ DOMAIN h = 1 .. Len(h)
  BY <1>1, LenProperties
<1> HIDE DEF t
<1>3. \A i \in DOMAIN t : \E j \in DOMAIN h : t[i] = h[j]
  BY <1>1, <1>2
<1> QED
  BY <1>3 DEF ToSet, t

\* What a step makes of what the server is about to send.
LEMMA SendingIs ==
  ASSUME DeliveryInv, HubTypes, [Next]_vars, Sending'
  PROVE  \/ Sending /\ relay'[Server].event = relay[Server].event /\ UNCHANGED fanned
         \/ /\ Publish(Server) /\ Push(relay[Server].event) /\ UNCHANGED fanned
            /\ relay'[Server].event = relay[Server].event
<1>1. relay \in [Relays -> Steps] /\ Server \in Relays /\ relay[Server] \in Steps
  BY ServerSteps DEF DeliveryInv
<1>2. ASSUME NEW r \in Relays, QuietStep(r)
      PROVE  \/ Sending /\ relay'[Server].event = relay[Server].event /\ UNCHANGED fanned
             \/ /\ Publish(Server) /\ Push(relay[Server].event) /\ UNCHANGED fanned
                /\ relay'[Server].event = relay[Server].event
  BY <1>1, <1>2, QuietGoes DEF Sending
<1>3. ASSUME NEW r \in Relays, CopySubscribers(r)
      PROVE  Sending /\ relay'[Server].event = relay[Server].event /\ UNCHANGED fanned
  <2>1. r = Server /\ At(Server, "fanout")
    BY <1>3 DEF CopySubscribers, At, HubTypes
  <2> QED
    BY <1>1, <1>3, <2>1 DEF CopySubscribers, At, Sending, Steps, hubVars
<1>4. ASSUME NEW r \in Relays, SendToSubscribers(r)
      PROVE  FALSE
  <2>1. r = Server
    BY <1>4 DEF SendToSubscribers, At, HubTypes
  <2> QED
    BY <1>1, <1>4, <2>1 DEF SendToSubscribers, Sending, Steps
<1>5. ASSUME NEW r \in Relays, Crash(r)
      PROVE  Sending /\ relay'[Server].event = relay[Server].event /\ UNCHANGED fanned
  <2>1. relay' = [relay EXCEPT ![r] = [Idle EXCEPT !.pc = "down"]] /\ UNCHANGED fanned
    BY <1>5 DEF Crash
  <2> QED
    BY <1>1, <2>1 DEF Sending, Idle
<1>6. ASSUME NEW s \in Sessions, SessionStep(s)
      PROVE  Sending /\ relay'[Server].event = relay[Server].event /\ UNCHANGED fanned
  <2>1. UNCHANGED fanned /\ (UNCHANGED relay \/ Disconnect(s))
    BY <1>6 DEF SessionStep, Connect, RecoverHistory, CachedSnapshot, JoinRebuild,
                WriteMessage, Disconnect
  <2> QED
    BY <1>1, <2>1 DEF Sending, Disconnect, Steps
<1>7. CASE RebuildRead \/ RebuildDone \/ RebuildFails
  BY <1>7 DEF RebuildRead, RebuildDone, RebuildFails, Sending
<1>8. CASE (\E bad \in BOOLEAN : Commit(bad)) \/ Operator \/ Time \/ UNCHANGED vars
  BY <1>8, OutsideHub DEF Sending
<1> QED
  BY <1>2, <1>3, <1>4, <1>5, <1>6, <1>7, <1>8, StepsOfTheHub

\* What the hub was given after a step is what it was given or was about to be.
LEMMA FannedIs ==
  ASSUME DeliveryInv, HubTypes, [Next]_vars
  PROVE  \A n \in fanned' : n \in fanned \/ (Sending /\ n = relay[Server].event)
<1>1. ASSUME NEW r \in Relays, SendToSubscribers(r)
      PROVE  \A n \in fanned' : n \in fanned \/ (Sending /\ n = relay[Server].event)
  <2>1. r = Server /\ relay[Server].pc = "send"
    BY <1>1 DEF SendToSubscribers, At, HubTypes
  <2> QED
    BY <1>1, <2>1 DEF SendToSubscribers, Sending
<1>2. CASE UNCHANGED fanned
  BY <1>2
<1>3. (\E r \in Relays : SendToSubscribers(r)) \/ UNCHANGED fanned
  <2>1. CASE \E r \in Relays : QuietStep(r)
    BY <2>1, QuietGoes
  <2>2. CASE \E r \in Relays : CopySubscribers(r) \/ SendToSubscribers(r) \/ Crash(r)
    BY <2>2 DEF CopySubscribers, Crash, hubVars
  <2>3. CASE \E s \in Sessions : SessionStep(s)
    BY <2>3 DEF SessionStep, Connect, RecoverHistory, CachedSnapshot, JoinRebuild,
                WriteMessage, Disconnect
  <2>4. CASE RebuildRead \/ RebuildDone \/ RebuildFails
    BY <2>4 DEF RebuildRead, RebuildDone, RebuildFails
  <2>5. CASE (\E bad \in BOOLEAN : Commit(bad)) \/ Operator \/ Time \/ UNCHANGED vars
    BY <2>5, OutsideHub
  <2> QED
    BY <2>1, <2>2, <2>3, <2>4, <2>5, StepsOfTheHub
<1> QED
  BY <1>1, <1>2, <1>3

\* What the hub is about to be given is a committed event.
LEMMA OutIsCommitted ==
  ASSUME DeliveryInv, HubTypes
  PROVE  Out \subseteq Events /\ Out \subseteq Nat /\ Lacks(Out, overtaken, Len(delivery))
<1>1. Events \subseteq Nat /\ \A n \in Events : ~(n > Len(delivery))
  BY LenProperties DEF Events, DeliveryInv
<1>2. Sending => relay[Server].event \in Events
  BY ServerSteps DEF Sending, DeliveryInv, HeldInTurn
<1>3. Out \subseteq Events
  BY <1>2 DEF Out, HubTypes
<1> QED
  BY <1>1, <1>3 DEF Lacks

\* No more is about to be given than before, but for what is published.
LEMMA OutKept ==
  ASSUME DeliveryInv, HubTypes, [Next]_vars, ~(Publish(Server) /\ Push(relay[Server].event))
  PROVE  Out' \subseteq Out
<1>1. \A n \in fanned' : n \in Out
  BY FannedIs DEF Out
<1>2. CASE ~Sending'
  BY <1>1, <1>2 DEF Out
<1>3. CASE Sending'
  <2>1. Sending /\ relay'[Server].event = relay[Server].event
    BY <1>3, SendingIs
  <2> QED
    BY <1>1, <2>1 DEF Out
<1> QED
  BY <1>2, <1>3

\* A publication that comes after a rebuild's reading and before its storing
\* has overtaken it.
LEMMA PublicationsOvertake ==
  ASSUME DeliveryInv, HubTypes, SnapshotsSaySo,
         NEW r \in Relays, Publish(r), Push(relay[r].event)
  PROVE  SnapshotsSaySo'
<1> DEFINE e == relay[r].event
<1>1. QuietStep(r)
  BY DEF QuietStep
<1>2. /\ UNCHANGED <<rebuild, fanned>>
      /\ overtaken' = overtaken \cup {m \in {e} : Overtakes(m)}
      /\ ~IsSnapshot'
  BY <1>1, QuietGoes DEF Push, IsSnapshot
<1>3. Out' \subseteq Out \cup {e}
  BY <1>1, <1>2, QuietGoes, ServerSteps DEF Out, Sending
<1>4. \A q \in Relays : relay'[q].pc = "store" => relay[q].pc = "store" /\ relay'[q].event = relay[q].event
  <2>1. PICK pc \in {"dead", "fanout", "mark", "failed"} : Goto(r, pc)
    BY DEF Publish, Published
  <2> QED
    BY <2>1, GotoIs
<1>5. e \in Nat
  BY DEF DeliveryInv, Steps
<1> HIDE DEF e
<1>6. ASSUME NEW k, Lacks(Out, overtaken, k), e > k => Overtakes(e)
      PROVE  Lacks(Out', overtaken', k)
  BY <1>2, <1>3, <1>6 DEF Lacks
<1>7. rebuild' # None /\ rebuild'.seq # None => Lacks(Out', overtaken', rebuild'.seq)
  <2> SUFFICES ASSUME rebuild # None, rebuild.seq # None
               PROVE  Lacks(Out', overtaken', rebuild.seq)
    BY <1>2 DEF Lacks
  <2>1. rebuild.seq \in Nat
    BY DEF HubTypes
  <2>2. e > rebuild.seq => Overtakes(e)
    BY <1>5, <2>1 DEF Overtakes
  <2> QED
    BY <1>6, <2>2 DEF SnapshotsSaySo
<1>8. ASSUME NEW q \in Relays, relay'[q].pc = "store"
      PROVE  Lacks(Out', overtaken', relay'[q].event)
  <2>1. relay[q].pc = "store" /\ relay'[q].event = relay[q].event /\ relay[q].event \in Nat
    BY <1>4, <1>8 DEF DeliveryInv, Steps
  <2>2. e > relay[q].event => Overtakes(e)
    BY <1>5, <2>1 DEF Overtakes, At
  <2>3. Lacks(Out', overtaken', relay[q].event)
    BY <1>6, <2>1, <2>2 DEF SnapshotsSaySo
  <2> QED
    BY <2>1, <2>3 DEF Lacks
<1> QED
  BY <1>2, <1>7, <1>8 DEF SnapshotsSaySo

\* Which snapshots a step leaves on their way, or stores.
SameSnapshots ==
  /\ rebuild' # None /\ rebuild'.seq # None => UNCHANGED rebuild
  /\ \A r \in Relays : relay'[r].pc = "store" =>
       relay[r].pc = "store" /\ relay'[r].event = relay[r].event
  /\ IsSnapshot' => UNCHANGED snapshot

\* It keeps what they say, if it publishes nothing.
LEMMA SameSaySo ==
  ASSUME SnapshotsSaySo, SameSnapshots, overtaken \subseteq overtaken', Out' \subseteq Out
  PROVE  SnapshotsSaySo'
<1>1. \A k : Lacks(Out, overtaken, k) => Lacks(Out', overtaken', k)
  BY DEF Lacks
<1>2. rebuild' # None /\ rebuild'.seq # None => Lacks(Out', overtaken', rebuild'.seq)
  BY <1>1 DEF SameSnapshots, SnapshotsSaySo
<1>3. ASSUME NEW r \in Relays, relay'[r].pc = "store"
      PROVE  Lacks(Out', overtaken', relay'[r].event)
  BY <1>1, <1>3 DEF SameSnapshots, SnapshotsSaySo
<1>4. IsSnapshot' => Lacks(Out', overtaken', snapshot'.seq)
  BY <1>1 DEF SameSnapshots, SnapshotsSaySo, IsSnapshot
<1> QED
  BY <1>2, <1>3, <1>4 DEF SnapshotsSaySo, Lacks

\* What a relay's quiet step does to snapshots.
LEMMA QuietSnapshots ==
  ASSUME DeliveryInv, NEW r \in Relays, QuietStep(r),
         ~(Publish(r) /\ Push(relay[r].event)), ~ExecuteSignal(r), ~StoreSnapshot(r)
  PROVE  SameSnapshots
<1>1. UNCHANGED rebuild /\ \A q \in Relays : q # r => relay'[q] = relay[q]
  BY QuietGoes
<1>2. relay \in [Relays -> Steps]
  BY DEF DeliveryInv
<1>3. UNCHANGED snapshot
  BY DEF QuietStep, Renew, ClaimSignal, ReportSignal, BeginBatch, ClaimOne, EndBatch,
         Publish, MarkPublished, MarkRetriable, MarkDead, Restart, redisVars
<1>4. relay'[r].pc # "store"
  <2>1. CASE \/ Renew(r) \/ ClaimSignal(r) \/ BeginBatch(r) \/ EndBatch(r) \/ Restart(r)
             \/ Publish(r)
    <3>1. PICK pc \in {"signals", "execute", "claim", "renew", "dead", "fanout", "mark", "failed"} :
            Goto(r, pc)
      BY <2>1 DEF Renew, ClaimSignal, BeginBatch, EndBatch, Restart, Publish, Published
    <3> QED
      BY <3>1, GotoIs
  <2>2. CASE ReportSignal(r) \/ MarkPublished(r) \/ MarkRetriable(r)
    BY <1>2, <2>2 DEF ReportSignal, MarkPublished, MarkRetriable, Idle
  <2>3. CASE MarkDead(r)
    BY <1>2, <2>3 DEF MarkDead, GapNotice, Idle
  <2>4. CASE ClaimOne(r)
    BY <1>2, <2>4 DEF ClaimOne
  <2> QED
    BY <2>1, <2>2, <2>3, <2>4 DEF QuietStep
<1> QED
  BY <1>1, <1>3, <1>4 DEF SameSnapshots

\* A rebuild that reads now lacks nothing, and what is stored lacks no more than
\* it did on its way.
LEMMA SnapshotsKept ==
  ASSUME DeliveryInv, HubTypes, SnapshotsSaySo, [Next]_vars
  PROVE  SnapshotsSaySo'
<1>1. CASE \E r \in Relays : Publish(r) /\ Push(relay[r].event)
  BY <1>1, PublicationsOvertake
<1>2. SUFFICES ASSUME ~\E r \in Relays : Publish(r) /\ Push(relay[r].event)
               PROVE  SnapshotsSaySo'
  BY <1>1
<1>3. Out' \subseteq Out
  BY <1>2, OutKept, ServerSteps
<1>4. relay \in [Relays -> Steps] /\ Lacks(Out, overtaken, Len(delivery))
  BY OutIsCommitted DEF DeliveryInv
<1>5. ASSUME SameSnapshots, overtaken \subseteq overtaken'
      PROVE  SnapshotsSaySo'
  BY <1>3, <1>5, SameSaySo
<1>6. ASSUME NEW k, Lacks(Out, overtaken, k), overtaken \subseteq overtaken'
      PROVE  Lacks(Out', overtaken', k)
  BY <1>3, <1>6 DEF Lacks
<1>7. ASSUME NEW r \in Relays, QuietStep(r)
      PROVE  SnapshotsSaySo'
  <2>1. /\ UNCHANGED <<rebuild, fanned>> /\ overtaken \subseteq overtaken'
        /\ \A q \in Relays : q # r => relay'[q] = relay[q]
    BY <1>7, QuietGoes
  <2>2. CASE ExecuteSignal(r)
    <3>1. relay'[r].pc = "store" => relay'[r].event = Len(delivery)
      <4>1. CASE ForceSnapshotRebuild(r)
        BY <1>4, <4>1 DEF ForceSnapshotRebuild
      <4>2. CASE Goto(r, "report")
        BY <4>2, GotoIs
      <4> QED
        BY <2>2, <4>1, <4>2 DEF ExecuteSignal, RetryDeadOutbox, PauseRelayShard, ResumeRelayShard
    <3>2. UNCHANGED snapshot
      BY <2>2 DEF ExecuteSignal, redisVars
    <3>3. ASSUME NEW q \in Relays, relay'[q].pc = "store"
          PROVE  Lacks(Out', overtaken', relay'[q].event)
      <4>1. Lacks(Out, overtaken, relay'[q].event)
        BY <1>4, <2>1, <3>1, <3>3 DEF SnapshotsSaySo
      <4>2. \A k : k = relay'[q].event => Lacks(Out, overtaken, k)
        BY <4>1
      <4> QED
        BY <1>3, <2>1, <4>1 DEF Lacks
    <3>4. rebuild' # None /\ rebuild'.seq # None => Lacks(Out', overtaken', rebuild'.seq)
      BY <1>6, <2>1 DEF SnapshotsSaySo
    <3>5. IsSnapshot' => Lacks(Out', overtaken', snapshot'.seq)
      BY <1>6, <2>1, <3>2 DEF SnapshotsSaySo, IsSnapshot
    <3> QED
      BY <3>3, <3>4, <3>5 DEF SnapshotsSaySo
  <2>3. CASE StoreSnapshot(r)
    <3>1. /\ relay[r].pc = "store" /\ snapshot' = [kind |-> "relay", seq |-> relay[r].event]
          /\ Goto(r, "report")
      BY <2>3 DEF StoreSnapshot, At
    <3>2. Lacks(Out', overtaken', relay[r].event)
      BY <1>6, <2>1, <3>1 DEF SnapshotsSaySo
    <3>3. Lacks(Out', overtaken', snapshot'.seq)
      BY <3>1, <3>2 DEF Lacks
    <3>4. ASSUME NEW q \in Relays, relay'[q].pc = "store"
          PROVE  Lacks(Out', overtaken', relay'[q].event)
      <4>1. relay'[q] = relay[q]
        BY <2>1, <3>1, <3>4, GotoIs
      <4> QED
        BY <1>3, <2>1, <3>4, <4>1 DEF SnapshotsSaySo, Lacks
    <3>5. rebuild' # None /\ rebuild'.seq # None => Lacks(Out', overtaken', rebuild'.seq)
      BY <1>6, <2>1 DEF SnapshotsSaySo
    <3> QED
      BY <3>3, <3>4, <3>5 DEF SnapshotsSaySo
  <2>4. CASE ~ExecuteSignal(r) /\ ~StoreSnapshot(r)
    BY <1>2, <1>5, <1>7, <2>1, <2>4, QuietSnapshots
  <2> QED
    BY <2>2, <2>3, <2>4
<1>8. ASSUME NEW r \in Relays, CopySubscribers(r) \/ SendToSubscribers(r) \/ Crash(r)
      PROVE  SnapshotsSaySo'
  <2>1. UNCHANGED <<snapshot, overtaken>> /\ rebuild' \in {rebuild, None}
    BY <1>8 DEF CopySubscribers, SendToSubscribers, Crash, redisVars, hubVars
  <2>2. ASSUME NEW q \in Relays, relay'[q].pc = "store"
        PROVE  relay'[q] = relay[q]
    <3>1. q # r
      <4>1. CASE CopySubscribers(r)
        BY <1>4, <2>2, <4>1 DEF CopySubscribers, Steps
      <4>2. CASE SendToSubscribers(r)
        BY <1>4, <2>2, <4>2 DEF SendToSubscribers, Steps
      <4>3. CASE Crash(r)
        BY <1>4, <2>2, <4>3 DEF Crash, Idle
      <4> QED
        BY <1>8, <4>1, <4>2, <4>3
    <3> QED
      BY <1>4, <1>8, <3>1 DEF CopySubscribers, SendToSubscribers, Crash
  <2>3. IsSnapshot' = IsSnapshot
    BY <2>1 DEF IsSnapshot
  <2> QED
    BY <1>5, <2>1, <2>2, <2>3 DEF SameSnapshots
<1>9. ASSUME NEW s \in Sessions, SessionStep(s)
      PROVE  SnapshotsSaySo'
  <2>1. UNCHANGED <<snapshot, overtaken>> /\ rebuild' \in {rebuild, [seq |-> None]}
    BY <1>9 DEF SessionStep, Connect, RecoverHistory, CachedSnapshot, JoinRebuild,
                WriteMessage, Disconnect, redisVars
  <2>2. \A q \in Relays : relay'[q].pc = relay[q].pc /\ relay'[q].event = relay[q].event
    <3>1. UNCHANGED relay \/ Disconnect(s)
      BY <1>9 DEF SessionStep, Connect, RecoverHistory, CachedSnapshot, JoinRebuild,
                  WriteMessage
    <3> QED
      BY <1>4, <3>1 DEF Disconnect, Steps
  <2> QED
    BY <1>5, <2>1, <2>2 DEF SameSnapshots
<1>10. CASE RebuildRead
  <2>1. /\ rebuild' = [rebuild EXCEPT !.seq = Len(delivery)] /\ rebuild # None
        /\ UNCHANGED <<snapshot, overtaken, relay>>
    BY <1>10 DEF RebuildRead, redisVars
  <2>2. rebuild'.seq = Len(delivery)
    BY <2>1 DEF HubTypes
  <2>3. Lacks(Out, overtaken, Len(delivery))
    BY <1>4
  <2>4. Lacks(Out', overtaken', rebuild'.seq)
    BY <1>3, <2>1, <2>2, <2>3 DEF Lacks
  <2> QED
    BY <1>6, <2>1, <2>4 DEF SnapshotsSaySo, IsSnapshot
<1>11. CASE RebuildDone
  <2>1. /\ rebuild # None /\ rebuild.seq # None /\ rebuild' = None
        /\ snapshot' = [kind |-> "server", seq |-> rebuild.seq]
        /\ UNCHANGED <<overtaken, relay>>
    BY <1>11 DEF RebuildDone
  <2>2. Lacks(Out', overtaken', rebuild.seq)
    BY <1>6, <2>1 DEF SnapshotsSaySo
  <2>3. Lacks(Out', overtaken', snapshot'.seq)
    BY <2>1, <2>2 DEF Lacks
  <2> QED
    BY <1>6, <2>1, <2>3 DEF SnapshotsSaySo
<1>12. CASE RebuildFails
  BY <1>5, <1>12 DEF RebuildFails, redisVars, SameSnapshots
<1>13. CASE (\E bad \in BOOLEAN : Commit(bad)) \/ Operator \/ Time \/ UNCHANGED vars
  <2>1. UNCHANGED <<rebuild, overtaken, relay>>
    BY <1>13, OutsideHub
  <2>2. snapshot' \in {snapshot, None}
    BY <1>13 DEF Commit, Operator, Request, Time, LockExpires, LeaseExpires,
                 HistoryExpires, vars, redisVars
  <2> QED
    BY <1>5, <2>1, <2>2 DEF SameSnapshots, IsSnapshot
<1> QED
  BY <1>7, <1>8, <1>9, <1>10, <1>11, <1>12, <1>13, StepsOfTheHub

\* While nothing is late, the history stays in turn.
LEMMA HistoryStaysInTurn ==
  ASSUME DeliveryInv, HubTypes, HistoryInTurn, [Next]_vars, [NothingLate]_vars
  PROVE  HistoryInTurn'
<1> SUFFICES ASSUME anomalies' = {}
             PROVE  /\ Sorted(history')
                    /\ history' # <<>> => \A n \in fanned' : n <= Last(history')
                    /\ Sending' => history' # <<>> /\ relay'[Server].event <= Last(history')
  BY DEF HistoryInTurn, Sorted
<1>1. anomalies = {}
  BY AnomaliesStay
<1>2. /\ history \in Seq(Nat) /\ Sorted(history)
      /\ history # <<>> => \A n \in fanned : n <= Last(history)
      /\ Sending => history # <<>> /\ relay[Server].event <= Last(history)
  BY <1>1 DEF HistoryInTurn, DeliveryInv
<1>3. /\ fanned \subseteq Nat /\ relay[Server].event \in Nat
      /\ \A r \in Relays : relay[r].event \in Nat
  BY ServerSteps, LenProperties DEF HubTypes, Events, DeliveryInv, Steps
<1>4. CASE UNCHANGED history
  <2>1. history' # <<>> => \A n \in fanned' : n <= Last(history')
    BY <1>2, <1>4, FannedIs
  <2>2. CASE Publish(Server) /\ Push(relay[Server].event)
    <3>1. history' # <<>> /\ Last(history') = relay[Server].event
      BY <1>2, <1>3, <1>4, <2>2, PushInTurn
    <3>2. Sending' => relay'[Server].event = relay[Server].event
      BY SendingIs
    <3> QED
      BY <1>2, <1>3, <1>4, <2>1, <3>1, <3>2
  <2>3. CASE ~(Publish(Server) /\ Push(relay[Server].event))
    <3>1. Sending' => Sending /\ relay'[Server].event = relay[Server].event
      BY <2>3, SendingIs
    <3> QED
      BY <1>2, <1>4, <2>1, <3>1
  <2> QED
    BY <2>2, <2>3
<1>5. ASSUME history' # history, NEW r \in Relays, Publish(r), Push(relay[r].event)
      PROVE  /\ Sorted(history')
             /\ history' # <<>> => \A n \in fanned' : n <= Last(history')
             /\ Sending' => history' # <<>> /\ relay'[Server].event <= Last(history')
  <2> DEFINE e == relay[r].event
  <2>1. history' # <<>> /\ Last(history') = e /\ e \in Nat
    BY <1>2, <1>3, <1>5, LastNKeepsEnd, DeliveryAssumption DEF Push, DeliveryAssumption
  <2>2. NothingLate
    BY <1>5 DEF vars, redisVars
  <2>3. \A n \in ToSet(history) \cup fanned : n <= e
    BY <1>1, <1>5, <2>1, <2>2 DEF NothingLate
  <2>4. Sorted(history')
    BY <1>2, <1>5, <2>1, <2>3, PushInTurn
  <2>5. UNCHANGED fanned
    BY <1>5 DEF Publish, hubVars
  <2>6. ASSUME Sending'
        PROVE  relay'[Server].event <= e
    <3>1. CASE Sending /\ relay'[Server].event = relay[Server].event
      <4>1. history # <<>> /\ relay[Server].event <= Last(history)
        BY <1>2, <3>1
      <4>2. Last(history) \in ToSet(history) /\ Last(history) \in Nat
        BY <1>2, <4>1, LastIsIn
      <4> QED
        BY <1>3, <2>1, <2>3, <3>1, <4>1, <4>2
    <3>2. CASE /\ Publish(Server) /\ Push(relay[Server].event)
               /\ relay'[Server].event = relay[Server].event
      <4>1. Last(history') = relay[Server].event
        BY <1>2, <1>3, <3>2, LastNKeepsEnd, DeliveryAssumption DEF Push, DeliveryAssumption
      <4> QED
        BY <2>1, <3>2, <4>1
    <3> QED
      BY <2>6, <3>1, <3>2, SendingIs
  <2> QED
    BY <2>1, <2>3, <2>4, <2>5, <2>6
<1>6. CASE HistoryExpires
  <2>1. history' = <<>> /\ UNCHANGED relay
    BY <1>6 DEF HistoryExpires
  <2>2. ~Sending'
    <3>1. Sending => Working(Server, relay[Server].event) /\ relay[Server].event \in Events
      BY ServerSteps DEF Sending, Working, DeliveryInv, HeldInTurn
    <3> QED
      BY <1>6, <2>1, <3>1, ServerSteps DEF HistoryExpires, Sending
  <2>3. Sorted(history')
    BY <2>1 DEF Sorted
  <2> QED
    BY <2>1, <2>2, <2>3
<1> QED
  BY <1>4, <1>5, <1>6, HistoryWriters

-----------------------------------------------------------------------------
(* A single relay: nothing is late                                         *)

\* With one relay, no unfinished event has a newer one before it in the history
\* or at the hub, and what the relay works on is the first unfinished event.
AtWork == relay[Server].pc \in Holds \cup {"fanout", "send"} /\ relay[Server].event # 0

NoneBehind ==
  \A m \in Events : Unfinished(m) =>
    \A x \in ToSet(history) \cup fanned : x <= m

WorksInTurn ==
  AtWork => /\ delivery[relay[Server].event].status = "PUBLISHING"
            /\ \A m \in 1 .. relay[Server].event - 1 :
                 delivery[m].status = "PUBLISHED"

Alone ==
  /\ ToSet(history) \subseteq Events
  /\ \A m \in Events : delivery[m].status = "DEAD" => m \in anomalies
  /\ anomalies = {} => NoneBehind /\ WorksInTurn

\* What a step makes of a row.
StatusIs(m) ==
  \/ m \notin Events /\ delivery'[m].status = "PENDING"
  \/ m \in Events /\ delivery'[m].status = delivery[m].status
  \/ /\ m \in Events /\ Unfinished(m) /\ delivery'[m].status = "PUBLISHING"
     /\ \E r \in Relays : ClaimOne(r)
  \/ /\ m \in Events /\ delivery[m].status = "DEAD"
     /\ delivery'[m].status = "PENDING"
  \/ /\ \E r \in Relays : MarkPublished(r) /\ m = relay[r].event
     /\ delivery'[m].status = "PUBLISHED"
  \/ /\ \E r \in Relays : MarkRetriable(r) /\ m = relay[r].event
     /\ delivery'[m].status = "FAILED"
  \/ m \in anomalies'

LEMMA RowSteps ==
  ASSUME DeliveryInv, [Next]_vars, NEW m \in Events'
  PROVE  StatusIs(m)
<1>1. /\ delivery \in Seq(Rows) /\ Len(delivery) \in Nat /\ Events = 1 .. Len(delivery)
      /\ DOMAIN delivery = Events /\ \A n \in Events : delivery[n] \in Rows
  BY LenProperties, ElementOfSeq DEF DeliveryInv, Events
<1>2. CASE \E bad \in BOOLEAN : Commit(bad)
  <2>1. delivery' = Append(delivery, Row) /\ Row \in Rows /\ Row.status = "PENDING"
    BY <1>2 DEF Commit, Row, Rows, Statuses
  <2>2. /\ Len(delivery') = Len(delivery) + 1
        /\ \A n \in Events : delivery'[n] = delivery[n]
        /\ delivery'[Len(delivery) + 1] = Row
    BY <1>1, <2>1, AppendProperties
  <2>3. m \in Events \/ m = Len(delivery) + 1
    BY <1>1, <2>2 DEF Events
  <2> QED
    BY <1>1, <2>1, <2>2, <2>3 DEF StatusIs
<1>3. ASSUME NEW n \in Events, NEW row, delivery' = [delivery EXCEPT ![n] = row]
      PROVE  /\ m \in Events
             /\ m # n => delivery'[m] = delivery[m]
             /\ m = n => delivery'[m] = row
  <2>1. DeliveryInv'
    BY NextKeeps
  <2>2. DOMAIN delivery' = Events'
    BY <2>1, LenProperties DEF DeliveryInv, Events
  <2> QED
    BY <1>1, <1>3, <2>2
<1>4. CASE UNCHANGED delivery
  BY <1>4 DEF StatusIs, Events
<1>5. ASSUME NEW r \in Relays, ClaimOne(r)
      PROVE  StatusIs(m)
  <2>1. PICK n \in Events :
          /\ Claimable(n)
          /\ delivery' = [delivery EXCEPT ![n].status = "PUBLISHING",
                                          ![n].holder = r, ![n].expired = FALSE]
    BY <1>5 DEF ClaimOne
  <2> DEFINE row == [delivery[n] EXCEPT !.status = "PUBLISHING",
                                        !.holder = r, !.expired = FALSE]
  <2>2. delivery' = [delivery EXCEPT ![n] = row] /\ row.status = "PUBLISHING"
    BY <1>1, <2>1 DEF Rows
  <2>3. Unfinished(n)
    BY <2>1 DEF Claimable, Unfinished
  <2> HIDE DEF row
  <2> QED
    BY <1>3, <1>5, <2>2, <2>3 DEF StatusIs
<1>6. ASSUME NEW r \in Relays, RetryDeadOutbox(r), ~UNCHANGED delivery
      PROVE  StatusIs(m)
  <2> DEFINE n == signal.event
             row == [delivery[n] EXCEPT !.status = "PENDING", !.holder = None]
  <2>1. /\ n \in Events /\ delivery[n].status = "DEAD"
        /\ delivery' = [delivery EXCEPT ![n].status = "PENDING", ![n].holder = None]
    BY <1>6 DEF RetryDeadOutbox
  <2> HIDE DEF n
  <2>2. delivery' = [delivery EXCEPT ![n] = row] /\ row.status = "PENDING"
    BY <1>1, <2>1 DEF Rows
  <2> HIDE DEF row
  <2> QED
    BY <1>3, <2>1, <2>2 DEF StatusIs
<1>7. ASSUME NEW r \in Relays, MarkPublished(r)
      PROVE  StatusIs(m)
  <2>1. relay[r].event \in Events
    BY <1>7 DEF MarkPublished, At, DeliveryInv, HeldInTurn, Holds
  <2> DEFINE row == [status |-> "PUBLISHED", holder |-> None, expired |-> FALSE,
                     published |-> TRUE]
  <2>2. delivery' = [delivery EXCEPT ![relay[r].event] = row] /\ row.status = "PUBLISHED"
    BY <1>7 DEF MarkPublished
  <2> HIDE DEF row
  <2> QED
    BY <1>3, <1>7, <2>1, <2>2 DEF StatusIs
<1>8. ASSUME NEW r \in Relays, NEW status, At(r, "failed") \/ At(r, "dead"),
             delivery' = Unlocked(relay[r].event, status)
      PROVE  /\ m \in Events
             /\ m # relay[r].event => delivery'[m] = delivery[m]
             /\ m = relay[r].event => delivery'[m].status = status
  <2> DEFINE n == relay[r].event
             row == [delivery[n] EXCEPT !.status = status, !.holder = None, !.expired = FALSE]
  <2>1. n \in Events
    BY <1>8 DEF At, DeliveryInv, HeldInTurn, Holds
  <2>2. delivery' = [delivery EXCEPT ![n] = row] /\ row.status = status
    BY <1>1, <1>8, <2>1 DEF Unlocked, Rows
  <2> HIDE DEF row
  <2> QED
    BY <1>3, <2>1, <2>2
<1>9. ASSUME NEW r \in Relays, MarkRetriable(r)
      PROVE  StatusIs(m)
  BY <1>8, <1>9 DEF MarkRetriable, StatusIs
<1>10. ASSUME NEW r \in Relays, MarkDead(r)
       PROVE  StatusIs(m)
  BY <1>8, <1>10 DEF MarkDead, StatusIs
<1>11. ASSUME NEW n \in Events, LockExpires(n)
       PROVE  StatusIs(m)
  <2> DEFINE row == [delivery[n] EXCEPT !.expired = TRUE]
  <2>1. delivery' = [delivery EXCEPT ![n] = row] /\ row.status = delivery[n].status
    BY <1>1, <1>11 DEF LockExpires, Rows
  <2> HIDE DEF row
  <2> QED
    BY <1>3, <2>1 DEF StatusIs
<1>12. ASSUME NEW r \in Relays, RelayStep(r) \/ Crash(r) \/ Restart(r)
       PROVE  StatusIs(m)
  <2>1. \/ UNCHANGED delivery
        \/ RetryDeadOutbox(r) \/ ClaimOne(r)
        \/ MarkPublished(r) \/ MarkRetriable(r) \/ MarkDead(r)
    BY <1>12 DEF RelayStep, Renew, ClaimSignal, ExecuteSignal, ForceSnapshotRebuild,
                 PauseRelayShard, ResumeRelayShard, StoreSnapshot, ReportSignal,
                 BeginBatch, EndBatch, Publish, CopySubscribers,
                 SendToSubscribers, Crash, Restart, pgVars
  <2> QED
    BY <1>4, <1>5, <1>6, <1>7, <1>9, <1>10, <2>1
<1>13. CASE \/ \E s \in Sessions : SessionStep(s)
            \/ RebuildRead \/ RebuildDone \/ RebuildFails
            \/ Operator \/ Time \/ UNCHANGED vars
  <2>1. UNCHANGED delivery \/ \E n \in Events : LockExpires(n)
    BY <1>13 DEF SessionStep, Connect, RecoverHistory, CachedSnapshot, JoinRebuild,
                 WriteMessage, Disconnect, RebuildRead, RebuildDone, RebuildFails,
                 Operator, Request, Time, LeaseExpires, HistoryExpires, vars, pgVars
  <2> QED
    BY <1>4, <1>11, <2>1
<1> QED
  BY <1>2, <1>12, <1>13 DEF Next


\* What a step puts into the history or gives the hub is what the server works on.
LEMMA EntriesAre ==
  ASSUME Relays = {Server}, DeliveryInv, HubTypes, [Next]_vars
  PROVE  \A x \in ToSet(history') \cup fanned' :
           \/ x \in ToSet(history) \cup fanned
           \/ AtWork /\ x = relay[Server].event /\ x \in Events
<1>1. \A x \in fanned' : x \in fanned \/ (AtWork /\ x = relay[Server].event /\ x \in Events)
  BY FannedIs, ServerSteps DEF Sending, AtWork, DeliveryInv, HeldInTurn
<1>2. CASE UNCHANGED history
  BY <1>1, <1>2
<1>3. CASE Publish(Server) /\ Push(relay[Server].event)
  <2> DEFINE e == relay[Server].event
             a == Append(history, e)
  <2>1. AtWork /\ e \in Events /\ e \in Nat
    BY <1>3, ServerSteps, LenProperties
       DEF AtWork, Publish, At, Holds, DeliveryInv, HeldInTurn, Events
  <2>2. history \in Seq(Nat) /\ ToSet(a) = ToSet(history) \cup {e}
    BY <2>1, AppendHas DEF DeliveryInv
  <2>3. a \in Seq(Nat) /\ a # <<>> /\ HistoryLimit \in Nat \ {0}
    BY <2>1, <2>2, AppendProperties, EmptySeq, DeliveryAssumption DEF DeliveryAssumption
  <2>4. history' = LastN(a, HistoryLimit)
    BY <1>3 DEF Push
  <2> HIDE DEF a
  <2>5. ToSet(history') \subseteq ToSet(a)
    BY <2>3, <2>4, LastNHas
  <2> QED
    BY <1>1, <2>1, <2>2, <2>5
<1>4. CASE HistoryExpires
  <2>1. ToSet(history') = {}
    BY <1>4 DEF HistoryExpires, ToSet
  <2> QED
    BY <1>1, <2>1
<1> QED
  BY <1>2, <1>3, <1>4, HistoryWriters

\* What the server works on after a step: what it worked on, or what it has
\* just claimed.
LEMMA AtWorkIs ==
  ASSUME Relays = {Server}, DeliveryInv, [Next]_vars, anomalies' = {}, AtWork'
  PROVE  \/ ClaimOne(Server)
         \/ /\ AtWork /\ relay'[Server].event = relay[Server].event
            /\ ~ClaimOne(Server) /\ ~MarkPublished(Server) /\ ~MarkRetriable(Server)
<1> SUFFICES ASSUME ~ClaimOne(Server)
             PROVE  /\ AtWork /\ relay'[Server].event = relay[Server].event
                    /\ ~MarkPublished(Server) /\ ~MarkRetriable(Server)
  OBVIOUS
<1>1. relay \in [Relays -> Steps] /\ Server \in Relays /\ relay[Server] \in Steps
  BY ServerSteps DEF DeliveryInv
<1>2. ~MarkPublished(Server) /\ ~MarkRetriable(Server)
  BY <1>1 DEF MarkPublished, MarkRetriable, AtWork, Idle, Holds
<1>3. ~MarkDead(Server)
  BY DEF MarkDead
<1>4. CASE RelayStep(Server) \/ Restart(Server)
  <2>1. CASE \/ Renew(Server) \/ ClaimSignal(Server) \/ StoreSnapshot(Server)
             \/ BeginBatch(Server) \/ EndBatch(Server) \/ Restart(Server)
             \/ ExecuteSignal(Server) \/ ReportSignal(Server)
    <3>1. relay'[Server].pc \in {"signals", "execute", "report", "claim", "renew", "store"}
      BY <1>1, <2>1
         DEF Renew, ClaimSignal, StoreSnapshot, BeginBatch, EndBatch, Restart,
             ExecuteSignal, ReportSignal, ForceSnapshotRebuild, RetryDeadOutbox,
             PauseRelayShard, ResumeRelayShard, Goto, Idle, Steps
    <3> QED
      BY <3>1 DEF AtWork, Holds
  <2>2. CASE Publish(Server)
    <3>1. relay[Server].pc = "publish" /\ \E pc : Goto(Server, pc)
      BY <2>2 DEF Publish, At, Published
    <3> QED
      BY <1>1, <1>2, <3>1, GotoIs DEF AtWork, Holds
  <2>3. CASE CopySubscribers(Server)
    BY <1>1, <1>2, <2>3 DEF CopySubscribers, At, AtWork, Steps
  <2>4. CASE SendToSubscribers(Server)
    BY <1>1, <1>2, <2>4 DEF SendToSubscribers, At, AtWork, Steps
  <2> QED
    BY <1>2, <1>3, <1>4, <2>1, <2>2, <2>3, <2>4 DEF RelayStep
<1>5. CASE Crash(Server)
  BY <1>1, <1>5 DEF Crash, Idle, AtWork, Holds
<1>6. CASE \E s \in Sessions : SessionStep(s)
  <2>1. PICK s \in Sessions : UNCHANGED relay \/ Disconnect(s)
    BY <1>6 DEF SessionStep, Connect, RecoverHistory, CachedSnapshot, JoinRebuild,
                WriteMessage
  <2> QED
    BY <1>1, <1>2, <2>1 DEF Disconnect, AtWork, Steps
<1>7. CASE RebuildRead \/ RebuildDone \/ RebuildFails
  BY <1>2, <1>7 DEF RebuildRead, RebuildDone, RebuildFails, AtWork
<1>8. CASE (\E bad \in BOOLEAN : Commit(bad)) \/ Operator \/ Time \/ UNCHANGED vars
  BY <1>2, <1>8, OutsideHub DEF AtWork
<1> QED
  BY <1>4, <1>5, <1>6, <1>7, <1>8 DEF Next

\* Every step of a single relay keeps this.
LEMMA AloneKept ==
  ASSUME Relays = {Server}, DeliveryInv, HubTypes, Alone, [Next]_vars
  PROVE  Alone'
<1>1. /\ Len(delivery) \in Nat /\ Events = 1 .. Len(delivery)
      /\ Events \subseteq Events' /\ DeliveryInv'
  BY LenProperties, EventsStay, NextKeeps DEF DeliveryInv, Events
<1>2. anomalies \subseteq anomalies'
  BY AnomaliesStay
<1>3. \A m \in Events' : StatusIs(m)
  BY RowSteps
<1>4. ToSet(history) \cup fanned \subseteq Events
  BY DEF Alone, HubTypes
<1>5. \A x \in ToSet(history') \cup fanned' : x \in Events
  BY <1>4, EntriesAre
<1>6. \A m \in Events' : delivery'[m].status = "DEAD" => m \in anomalies'
  BY <1>2, <1>3 DEF StatusIs, Alone
<1>7. ASSUME anomalies' = {}
      PROVE  NoneBehind'
  <2>1. anomalies = {} /\ NoneBehind /\ WorksInTurn
    BY <1>2, <1>7 DEF Alone
  <2> SUFFICES ASSUME NEW m \in Events', Unfinished(m)',
                      NEW x \in ToSet(history') \cup fanned'
               PROVE  x <= m
    BY DEF NoneBehind
  <2>2. CASE m \notin Events
    <3>1. m \in Nat /\ m > Len(delivery)
      BY <1>1, <2>2, LenProperties DEF Events, DeliveryInv
    <3> QED
      BY <1>1, <1>5, <3>1
  <2>3. CASE m \in Events
    <3>1. Unfinished(m)
      <4>1. \A r \in Relays : MarkRetriable(r) /\ m = relay[r].event => Unfinished(m)
        <5>1. MarkRetriable(Server) => AtWork
          BY ServerSteps DEF MarkRetriable, At, AtWork, Holds, DeliveryInv, HeldInTurn, Events
        <5> QED
          BY <2>1, <5>1 DEF WorksInTurn, Unfinished
      <4>2. delivery[m].status # "DEAD"
        BY <2>1, <2>3 DEF Alone
      <4> QED
        BY <1>3, <1>7, <2>3, <4>1, <4>2 DEF StatusIs, Unfinished
    <3>2. CASE x \in ToSet(history) \cup fanned
      BY <2>1, <2>3, <3>1, <3>2 DEF NoneBehind
    <3>3. CASE AtWork /\ x = relay[Server].event /\ x \in Events
      <4>1. \A k \in 1 .. x - 1 : delivery[k].status = "PUBLISHED"
        BY <2>1, <3>3 DEF WorksInTurn
      <4>2. m \notin 1 .. x - 1
        BY <3>1, <4>1 DEF Unfinished
      <4> QED
        BY <1>1, <2>3, <3>3, <4>2
    <3> QED
      BY <3>2, <3>3, EntriesAre
  <2> QED
    BY <2>2, <2>3
<1>8. ASSUME anomalies' = {}
      PROVE  WorksInTurn'
  <2>1. anomalies = {} /\ WorksInTurn
    BY <1>2, <1>8 DEF Alone
  <2> SUFFICES ASSUME AtWork'
               PROVE  /\ delivery'[relay'[Server].event].status = "PUBLISHING"
                      /\ \A m \in 1 .. relay'[Server].event - 1 :
                           delivery'[m].status = "PUBLISHED"
    BY DEF WorksInTurn
  <2>2. CASE ClaimOne(Server)
    <3>1. PICK n \in Events :
            /\ Claimable(n)
            /\ delivery' = [delivery EXCEPT ![n].status = "PUBLISHING",
                                            ![n].holder = Server, ![n].expired = FALSE]
            /\ relay' = [relay EXCEPT ![Server] = [pc |-> "publish", event |-> n,
                                                   fan |-> {}]]
      BY <2>2 DEF ClaimOne
    <3>2. relay'[Server].event = n
      BY <3>1, ServerSteps DEF DeliveryInv
    <3>3. n \in DOMAIN delivery /\ delivery[n] \in Rows
      BY <1>1, LenProperties, ElementOfSeq DEF DeliveryInv
    <3>4. delivery'[n].status = "PUBLISHING" /\ \A m \in DOMAIN delivery : m # n => delivery'[m] = delivery[m]
      BY <3>1, <3>3 DEF Rows
    <3>5. ASSUME NEW m \in 1 .. n - 1
          PROVE  delivery'[m].status = "PUBLISHED"
      <4>1. m \in Events /\ m # n /\ ~Unfinished(m)
        BY <1>1, <3>1 DEF Claimable, HeadOfLine
      <4>2. m \in DOMAIN delivery /\ delivery[m].status \in Statuses
        <5>1. delivery \in Seq(Rows) /\ DOMAIN delivery = Events
          BY <1>1, LenProperties DEF DeliveryInv
        <5>2. delivery[m] \in Rows
          BY <1>1, <4>1, <5>1, ElementOfSeq
        <5> QED
          BY <4>1, <5>1, <5>2 DEF Rows
      <4>3. delivery[m].status # "DEAD"
        BY <2>1, <4>1 DEF Alone
      <4> QED
        BY <3>4, <4>1, <4>2, <4>3 DEF Unfinished, Statuses
    <3> QED
      BY <3>2, <3>4, <3>5
  <2>3. CASE /\ AtWork /\ relay'[Server].event = relay[Server].event
             /\ ~ClaimOne(Server) /\ ~MarkPublished(Server) /\ ~MarkRetriable(Server)
    <3> DEFINE e == relay[Server].event
    <3>1. e \in Events
      BY <2>3, ServerSteps DEF AtWork, DeliveryInv, HeldInTurn
    <3>2. /\ delivery[e].status = "PUBLISHING"
          /\ \A m \in 1 .. e - 1 : delivery[m].status = "PUBLISHED"
      BY <2>1, <2>3 DEF WorksInTurn
    <3>3. ASSUME NEW m \in Events, delivery[m].status # "DEAD"
          PROVE  delivery'[m].status = delivery[m].status
      <4>1. StatusIs(m)
        BY <1>1, <1>3
      <4> QED
        BY <1>8, <2>3, <3>3, <4>1 DEF StatusIs
    <3>4. \A m \in 1 .. e - 1 : m \in Events
      BY <1>1, <3>1
    <3> QED
      BY <2>3, <3>1, <3>2, <3>3, <3>4
  <2> QED
    BY <1>8, <2>2, <2>3, AtWorkIs
<1>9. ToSet(history') \subseteq Events'
  BY <1>1, <1>5
<1> QED
  BY <1>6, <1>7, <1>8, <1>9 DEF Alone

\* So what a single relay appends is no older than what is there.
LEMMA AloneIsNeverLate ==
  ASSUME Relays = {Server}, DeliveryInv, HubTypes, Alone, [Next]_vars
  PROVE  NothingLate
<1> SUFFICES ASSUME anomalies = {}, history' # history, history' # <<>>,
                    NEW n \in ToSet(history) \cup fanned
             PROVE  n <= Last(history')
  BY DEF NothingLate
<1> DEFINE e == relay[Server].event
<1>1. Publish(Server) /\ Push(e)
  BY HistoryWriters DEF HistoryExpires
<1>2. e \in Events /\ e \in Nat /\ AtWork
  BY <1>1, ServerSteps, LenProperties
     DEF AtWork, Publish, At, Holds, DeliveryInv, HeldInTurn, Events
<1>3. Last(history') = e
  BY <1>1, <1>2, LastNKeepsEnd, DeliveryAssumption DEF Push, DeliveryInv, DeliveryAssumption
<1>4. Unfinished(e)
  BY <1>2 DEF Alone, WorksInTurn, Unfinished
<1> QED
  BY <1>2, <1>3, <1>4 DEF Alone, NoneBehind


-----------------------------------------------------------------------------
(* Sessions miss nothing                                                   *)

\* At first nobody knows anything, and there is nothing to know.
LEMMA HubAtFirst ==
  ASSUME Init
  PROVE  /\ HubTypes /\ HistoryInTurn /\ SnapshotsSaySo
         /\ \A s \in Sessions, source \in Told : SessionOK(s, source)
<1>1. Closed \in Viewers
  BY EmptySeq DEF Closed, Viewers, Phases, Sources
<1>2. HubTypes
  BY <1>1 DEF Init, HubTypes, Idle
<1>3. HistoryInTurn
  BY ServerSteps, InitKeeps, EmptySeq DEF Init, HistoryInTurn, Sorted, Sending, Idle
<1>4. \A s \in Sessions, source \in Told : SessionOK(s, source)
  BY DEF Init, SessionOK, KnowsAll, WillKnow, IsFloor, Closed
<1>5. SnapshotsSaySo
  BY DEF Init, SnapshotsSaySo, Idle, IsSnapshot
<1> QED
  BY <1>2, <1>3, <1>4, <1>5

\* A session that recovered by a rebuild of its own misses nothing the hub was
\* given after what the rebuild has read.
OwnRebuildMissesNothing ==
  \A s \in Sessions :
    session[s].phase = "live" /\ session[s].source = "db" =>
      \A n \in fanned : n > session[s].base => n \in Reached(s)

\* ServeWS subscribes before it recovers: a session that rebuilt its snapshot
\* itself misses nothing, for any number of relays that stall, lose locks,
\* publish late or give events up.
THEOREM OwnRebuildIsComplete == Spec => []OwnRebuildMissesNothing
<1> DEFINE I == /\ DeliveryInv /\ HubTypes /\ SnapshotsSaySo
                /\ \A s \in Sessions : SessionOK(s, "db")
<1>1. Init => I
  BY InitKeeps, HubAtFirst DEF Told
<1>2. I /\ [Next]_vars => I'
  BY NextKeeps, HubTypesKept, SnapshotsKept, NextKnows DEF Told
<1>3. I => OwnRebuildMissesNothing
  BY DEF SessionOK, Excused, KnowsAll, IsFloor, HubTypes, Viewers, Has, Reached,
         OwnRebuildMissesNothing
<1> QED
  BY <1>1, <1>2, <1>3, PTL DEF Spec

\* What makes the sessions of all sources miss nothing.
RecoveriesAreComplete ==
  /\ DeliveryInv /\ HubTypes /\ HistoryInTurn /\ SnapshotsSaySo
  /\ \A s \in Sessions, source \in Told \ {"history"} : SessionOK(s, source)
  /\ anomalies = {} => \A s \in Sessions : SessionOK(s, "history")

\* It holds as long as nothing is late.
LEMMA CompleteKept ==
  ASSUME RecoveriesAreComplete, [Next]_vars, [NothingLate]_vars
  PROVE  RecoveriesAreComplete'
<1>1. DeliveryInv' /\ HubTypes' /\ HistoryInTurn' /\ SnapshotsSaySo'
  BY NextKeeps, HubTypesKept, HistoryStaysInTurn, SnapshotsKept DEF RecoveriesAreComplete
<1>2. ASSUME NEW source \in Told \ {"history"}
      PROVE  \A s \in Sessions : SessionOK(s, source)'
  BY NextKnows DEF RecoveriesAreComplete
<1>3. anomalies' = {} => \A s \in Sessions : SessionOK(s, "history")'
  BY NextKnows, AnomaliesStay DEF RecoveriesAreComplete, Told
<1> QED
  BY <1>1, <1>2, <1>3 DEF RecoveriesAreComplete

LEMMA CompleteMissesNothing == RecoveriesAreComplete => SessionMissesNothing
<1> SUFFICES ASSUME RecoveriesAreComplete, anomalies = {}, NEW s \in Sessions,
                    session[s].phase = "live", session[s].source \in Told,
                    NEW n \in fanned, n > session[s].base
             PROVE  n \in Reached(s) \cup Excused(session[s].source)
  BY DEF SessionMissesNothing, Told
<1> DEFINE source == session[s].source
<1>1. session[s].base \in Nat
  BY DEF RecoveriesAreComplete, HubTypes, Viewers
<1>2. SessionOK(s, source)
  BY DEF RecoveriesAreComplete
<1> QED
  BY <1>1, <1>2 DEF SessionOK, KnowsAll, IsFloor, Has, Reached

LEMMA CompleteAtFirst == Init => RecoveriesAreComplete
BY InitKeeps, HubAtFirst DEF RecoveriesAreComplete, Told

\* Whatever the relays do, a session can only miss an event when one is
\* published late: behind a newer event that the history holds or the hub was
\* given.
THEOREM OnlyLateEventsAreMissed ==
  Spec /\ [][NothingLate]_vars => []SessionMissesNothing
<1>1. RecoveriesAreComplete /\ [Next]_vars /\ [NothingLate]_vars => RecoveriesAreComplete'
  BY CompleteKept
<1> QED
  BY <1>1, CompleteAtFirst, CompleteMissesNothing, PTL DEF Spec

\* With one relay, as the code runs by default, nothing is late: a session that
\* subscribes and then recovers from the history or from a rebuild of its own
\* misses no event, and one that takes a cached snapshot or shares a rebuild none
\* but what overtook a rebuild, through crashes, failed calls, stalls, expired
\* keys and full queues.
THEOREM SessionsMissNothing ==
  ASSUME Relays = {Server}
  PROVE  Spec => []SessionMissesNothing
<1> DEFINE I == RecoveriesAreComplete /\ Alone
<1>1. Init => I
  <2>1. ASSUME Init
        PROVE  Alone
    <3>1. Events = {} /\ ToSet(history) = {}
      BY <2>1, EmptySeq DEF Init, Events, ToSet
    <3>2. ~AtWork
      BY <2>1 DEF Init, AtWork, Idle
    <3> QED
      BY <2>1, <3>1, <3>2 DEF Alone, NoneBehind, WorksInTurn
  <2> QED
    BY <2>1, CompleteAtFirst
<1>2. I /\ [Next]_vars => I'
  BY AloneKept, AloneIsNeverLate, CompleteKept DEF RecoveriesAreComplete
<1>3. I => SessionMissesNothing
  BY CompleteMissesNothing
<1> QED
  BY <1>1, <1>2, <1>3, PTL DEF Spec

-----------------------------------------------------------------------------
(* Types                                                                   *)

Leases == [owner : Relays \cup {None, Paused}, live : BOOLEAN]

\* The bounds hold too: what the list keeps, what a session may lag.
TypesInv ==
  /\ malformed \subseteq Events /\ anomalies \subseteq Events
  /\ lease \in Leases
  /\ ToSet(history) \subseteq Events /\ Len(history) <= HistoryLimit
  /\ \A s \in Sessions : Len(session[s].queue) <= QueueLimit

\* The end of a list is as long as asked for at most.
LEMMA LastNIsBounded ==
  ASSUME NEW h \in Seq(Nat), h # <<>>, NEW k \in Nat \ {0}
  PROVE  Len(LastN(h, k)) <= k
<1> DEFINE l == Len(h)
           from == Max({1, l - k + 1})
<1>1. l \in Nat \ {0}
  BY EmptySeq, LenProperties
<1> HIDE DEF l
<1>2. from \in 1 .. l /\ from >= l - k + 1
  <2>1. from \in 1 .. l
    BY <1>1, FirstKept
  <2>2. from >= l - k + 1
    <3> DEFINE S == {1, l - k + 1}
               top == IF l - k + 1 > 1 THEN l - k + 1 ELSE 1
    <3>1. top \in S /\ \A x \in S : top >= x
      BY <1>1
    <3>2. \A x \in S : (\A y \in S : x >= y) => x = top
      BY <1>1
    <3>3. top >= l - k + 1
      BY <1>1
    <3> HIDE DEF top, S
    <3>4. Max(S) = top
      BY <3>1, <3>2, Zenon DEF Max
    <3> QED
      BY <3>3, <3>4 DEF S
  <2> QED
    BY <2>1, <2>2
<1> HIDE DEF from
<1>3. LastN(h, k) = SubSeq(h, from, l)
  BY DEF LastN, from, l
<1>4. Len(SubSeq(h, from, l)) = l - from + 1
  BY <1>1, <1>2 DEF l
<1> QED
  BY <1>1, <1>2, <1>3, <1>4

\* Leases are of relays, of nobody or of the operator's pause.
LEMMA LeasesKept ==
  ASSUME lease \in Leases, [Next]_vars
  PROVE  lease' \in Leases
<1>1. \A r \in Relays : Renewed(r) \in Leases /\ Ensured(r) \in Leases
  BY DEF Renewed, Ensured, Leases
<1>2. \/ UNCHANGED lease
      \/ \E r \in Relays : lease' = Renewed(r) \/ lease' = Ensured(r)
      \/ lease' = [owner |-> Paused, live |-> TRUE] \/ lease' = NoLease
      \/ lease' = [lease EXCEPT !.live = FALSE]
  <2>1. CASE \E r \in Relays : RelayStep(r) \/ Crash(r) \/ Restart(r)
    BY <2>1 DEF RelayStep, Renew, ClaimSignal, ExecuteSignal, ForceSnapshotRebuild,
                RetryDeadOutbox, PauseRelayShard, ResumeRelayShard, StoreSnapshot,
                ReportSignal, BeginBatch, ClaimOne, EndBatch, Publish,
                CopySubscribers, SendToSubscribers, MarkPublished, MarkRetriable,
                MarkDead, Crash, Restart, pgVars
  <2>2. CASE \/ \E bad \in BOOLEAN : Commit(bad)
             \/ \E s \in Sessions : SessionStep(s)
             \/ RebuildRead \/ RebuildDone \/ RebuildFails
             \/ Operator \/ Time \/ UNCHANGED vars
    BY <2>2 DEF Commit, SessionStep, Connect, RecoverHistory, CachedSnapshot,
                JoinRebuild, WriteMessage, Disconnect, RebuildRead, RebuildDone,
                RebuildFails, Operator, Request, Time, LockExpires, LeaseExpires,
                HistoryExpires, vars, pgVars
  <2> QED
    BY <2>1, <2>2 DEF Next
<1>3. [owner |-> Paused, live |-> TRUE] \in Leases /\ NoLease \in Leases
  BY DEF Leases, NoLease
<1>4. [lease EXCEPT !.live = FALSE] \in Leases
  BY DEF Leases
<1> QED
  BY <1>1, <1>2, <1>3, <1>4

\* Only committed events are malformed or have an anomaly.
LEMMA EventSetsKept ==
  ASSUME DeliveryInv, malformed \subseteq Events, anomalies \subseteq Events, [Next]_vars
  PROVE  malformed' \subseteq Events' /\ anomalies' \subseteq Events'
<1>1. Events \subseteq Events'
  BY EventsStay
<1>2. CASE \E bad \in BOOLEAN : Commit(bad)
  <2>1. delivery \in Seq(Rows) /\ delivery' = Append(delivery, Row)
    BY <1>2 DEF Commit, DeliveryInv
  <2>2. Len(delivery) \in Nat /\ Len(delivery') = Len(delivery) + 1
    BY <2>1, LenProperties, AppendProperties
  <2>3. Len(delivery) + 1 \in Events'
    BY <2>2 DEF Events
  <2>4. UNCHANGED anomalies /\ malformed' \subseteq malformed \cup {Len(delivery) + 1}
    BY <1>2 DEF Commit
  <2> QED
    BY <1>1, <2>3, <2>4
<1>3. CASE \E r \in Relays : RelayStep(r) \/ Crash(r) \/ Restart(r)
  <2>1. PICK r \in Relays : RelayStep(r) \/ Crash(r) \/ Restart(r)
    BY <1>3
  <2>2. \/ UNCHANGED <<malformed, anomalies>>
        \/ RetryDeadOutbox(r) /\ UNCHANGED anomalies
        \/ MarkDead(r)
    BY <2>1 DEF RelayStep, Renew, ClaimSignal, ExecuteSignal, ForceSnapshotRebuild,
                RetryDeadOutbox, PauseRelayShard, ResumeRelayShard, StoreSnapshot,
                ReportSignal, BeginBatch, ClaimOne, EndBatch, Publish,
                CopySubscribers, SendToSubscribers, MarkPublished, MarkRetriable,
                Crash, Restart, pgVars
  <2>3. CASE RetryDeadOutbox(r) /\ UNCHANGED anomalies
    <3>1. malformed' \subseteq malformed
      BY <2>3 DEF RetryDeadOutbox
    <3> QED
      BY <1>1, <2>3, <3>1
  <2>4. CASE MarkDead(r)
    <3>1. relay[r].event \in Events
      BY <2>4 DEF MarkDead, At, DeliveryInv, HeldInTurn, Holds
    <3> QED
      BY <1>1, <2>4, <3>1 DEF MarkDead
  <2> QED
    BY <1>1, <2>2, <2>3, <2>4
<1>4. CASE \/ \E s \in Sessions : SessionStep(s)
           \/ RebuildRead \/ RebuildDone \/ RebuildFails
           \/ Operator \/ Time \/ UNCHANGED vars
  <2>1. UNCHANGED <<malformed, anomalies>>
    BY <1>4 DEF SessionStep, Connect, RecoverHistory, CachedSnapshot,
                JoinRebuild, WriteMessage, Disconnect, RebuildRead, RebuildDone,
                RebuildFails, Operator, Request, Time, LockExpires, LeaseExpires,
                HistoryExpires, vars, pgVars
  <2> QED
    BY <1>1, <2>1
<1> QED
  BY <1>2, <1>3, <1>4 DEF Next

\* The history keeps to committed events and to its limit.
LEMMA HistoryBounded ==
  ASSUME DeliveryInv, ToSet(history) \subseteq Events, Len(history) <= HistoryLimit,
         [Next]_vars
  PROVE  ToSet(history') \subseteq Events' /\ Len(history') <= HistoryLimit
<1>1. Events \subseteq Events' /\ HistoryLimit \in Nat \ {0} /\ history \in Seq(Nat)
  BY EventsStay, DeliveryAssumption DEF DeliveryInv, DeliveryAssumption
<1>2. CASE UNCHANGED history
  BY <1>1, <1>2
<1>3. ASSUME NEW r \in Relays, Publish(r), Push(relay[r].event)
      PROVE  ToSet(history') \subseteq Events' /\ Len(history') <= HistoryLimit
  <2> DEFINE e == relay[r].event
             a == Append(history, e)
  <2>1. e \in Events /\ e \in Nat
    BY <1>3, LenProperties DEF Publish, At, Holds, DeliveryInv, HeldInTurn, Events
  <2>2. ToSet(a) = ToSet(history) \cup {e} /\ a \in Seq(Nat) /\ a # <<>>
    BY <1>1, <2>1, AppendHas, AppendProperties, EmptySeq
  <2>3. history' = LastN(a, HistoryLimit)
    BY <1>3 DEF Push
  <2> HIDE DEF a
  <2>4. ToSet(history') \subseteq ToSet(a) /\ Len(history') <= HistoryLimit
    BY <1>1, <2>2, <2>3, LastNHas, LastNIsBounded
  <2> QED
    BY <1>1, <2>1, <2>2, <2>4
<1>4. CASE HistoryExpires
  <2>1. history' = <<>>
    BY <1>4 DEF HistoryExpires
  <2>2. ToSet(history') = {} /\ Len(history') = 0
    BY <2>1, EmptySeq DEF ToSet
  <2> QED
    BY <1>1, <2>2
<1> QED
  BY <1>2, <1>3, <1>4, HistoryWriters

\* No session lags further than its queue is long.
LEMMA QueuesBounded ==
  ASSUME DeliveryInv, HubTypes, \A s \in Sessions : Len(session[s].queue) <= QueueLimit,
         [Next]_vars
  PROVE  \A s \in Sessions : Len(session'[s].queue) <= QueueLimit
<1> SUFFICES ASSUME NEW s \in Sessions
             PROVE  Len(session'[s].queue) <= QueueLimit
  OBVIOUS
<1>1. /\ session \in [Sessions -> Viewers] /\ session[s] \in Viewers
      /\ session[s].queue \in Seq(Nat) /\ Len(session[s].queue) <= QueueLimit
      /\ QueueLimit \in Nat
  BY DeliveryAssumption DEF HubTypes, Viewers, DeliveryAssumption
<1>2. Len(Closed.queue) = 0
  BY EmptySeq DEF Closed
<1>3. CASE session'[s].queue = session[s].queue
  BY <1>1, <1>3
<1>4. CASE session'[s].queue = <<>>
  BY <1>1, <1>4, EmptySeq
<1>5. ASSUME NEW r \in Relays, CopySubscribers(r) \/ SendToSubscribers(r) \/ Crash(r)
      PROVE  Len(session'[s].queue) <= QueueLimit
  <2>1. CASE SendToSubscribers(r)
    <3> DEFINE q == Append(session[s].queue, relay[r].event)
    <3>1. session'[s] \in {session[s], TrySend(session[s], relay[r].event)}
      BY <2>1 DEF SendToSubscribers
    <3>2. CASE session'[s] = session[s]
      BY <1>3, <3>2
    <3>3. CASE session'[s] = TrySend(session[s], relay[r].event)
      <4>1. CASE Len(session[s].queue) < QueueLimit
        <5>1. session'[s].queue = q
          BY <1>1, <3>3, <4>1 DEF TrySend, Viewers
        <5>2. relay[r].event \in Nat
          BY DEF DeliveryInv, Steps
        <5>3. Len(q) = Len(session[s].queue) + 1 /\ Len(session[s].queue) \in Nat
          BY <1>1, <5>2, AppendProperties, LenProperties
        <5> QED
          BY <1>1, <4>1, <5>1, <5>3
      <4>2. CASE ~(Len(session[s].queue) < QueueLimit)
        BY <1>1, <1>2, <3>3, <4>2 DEF TrySend
      <4> QED
        BY <4>1, <4>2
    <3> QED
      BY <3>1, <3>2, <3>3
  <2>2. CASE CopySubscribers(r) \/ Crash(r)
    <3>1. session'[s] = session[s] \/ session'[s] = Closed
      BY <2>2 DEF CopySubscribers, Crash, hubVars
    <3> QED
      BY <1>3, <1>4, <3>1 DEF Closed
  <2> QED
    BY <1>5, <2>1, <2>2
<1>6. ASSUME NEW t \in Sessions, SessionStep(t)
      PROVE  Len(session'[s].queue) <= QueueLimit
  <2>1. CASE t # s
    <3>1. session'[s] = session[s]
      BY <1>1, <1>6, <2>1 DEF SessionStep, Connect, RecoverHistory, CachedSnapshot,
                              JoinRebuild, WriteMessage, Disconnect, Served
    <3> QED
      BY <1>3, <3>1
  <2>2. CASE t = s /\ WriteMessage(s)
    <3> DEFINE q == session[s].queue
    <3>1. session'[s].queue = Tail(q) /\ q # <<>>
      BY <1>1, <2>2 DEF WriteMessage, Viewers
    <3>2. Len(Tail(q)) = Len(q) - 1 /\ Len(q) \in Nat
      BY <1>1, <3>1, HeadTailProperties, LenProperties
    <3> QED
      BY <1>1, <3>1, <3>2
  <2>3. CASE t = s /\ Connect(s)
    <3>1. session'[s].queue = <<>>
      BY <1>1, <2>3 DEF Connect, Closed
    <3> QED
      BY <1>4, <3>1
  <2>4. CASE t = s /\ Disconnect(s)
    <3>1. session'[s].queue = <<>>
      BY <1>1, <2>4 DEF Disconnect, Closed
    <3> QED
      BY <1>4, <3>1
  <2>5. CASE t = s /\ (RecoverHistory(s) \/ CachedSnapshot(s) \/ JoinRebuild(s))
    <3>1. session'[s].queue = session[s].queue
      BY <1>1, <2>5 DEF RecoverHistory, CachedSnapshot, JoinRebuild, Served, Viewers
    <3> QED
      BY <1>3, <3>1
  <2> QED
    BY <1>6, <2>1, <2>2, <2>3, <2>4, <2>5 DEF SessionStep
<1>7. CASE RebuildRead \/ RebuildDone \/ RebuildFails
  <2>1. UNCHANGED session \/ \E from, base : Answer(from, base)
    BY <1>7 DEF RebuildRead, RebuildDone, RebuildFails
  <2>2. session'[s].queue = session[s].queue
    BY <1>1, <2>1 DEF Answer, Viewers
  <2> QED
    BY <1>3, <2>2
<1>8. CASE \/ \E r \in Relays : QuietStep(r)
           \/ \E bad \in BOOLEAN : Commit(bad)
           \/ Operator \/ Time \/ UNCHANGED vars
  <2>1. UNCHANGED session
    BY <1>8, QuietGoes, OutsideHub
  <2> QED
    BY <1>3, <2>1
<1> QED
  BY <1>5, <1>6, <1>7, <1>8, StepsOfTheHub

\* DeliveryTypeOK: rows, leases and event sets keep their types, the history its
\* limit and every queue its length, for any number of relays and sessions.
THEOREM DeliveryTypesCorrect == Spec => []DeliveryTypeOK
<1> DEFINE I == DeliveryInv /\ HubTypes /\ TypesInv
<1>1. Init => I
  <2>1. ASSUME Init
        PROVE  TypesInv
    <3>1. /\ ToSet(history) = {} /\ Len(history) = 0
          /\ \A s \in Sessions : Len(session[s].queue) = 0
      BY <2>1, EmptySeq DEF Init, Closed, ToSet
    <3>2. lease \in Leases /\ malformed = {} /\ anomalies = {}
      BY <2>1 DEF Init, Leases, NoLease
    <3> QED
      BY <3>1, <3>2, DeliveryAssumption DEF TypesInv, DeliveryAssumption
  <2> QED
    BY <2>1, InitKeeps, HubAtFirst
<1>2. I /\ [Next]_vars => I'
  <2>1. ASSUME I, [Next]_vars
        PROVE  TypesInv'
    BY <2>1, LeasesKept, EventSetsKept, HistoryBounded, QueuesBounded DEF TypesInv
  <2> QED
    BY <2>1, NextKeeps, HubTypesKept
<1>3. I => DeliveryTypeOK
  BY DEF DeliveryInv, TypesInv, DeliveryTypeOK, Rows, Leases
<1> QED
  BY <1>1, <1>2, <1>3, PTL DEF Spec

=============================================================================
