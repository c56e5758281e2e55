--------------------------- MODULE AuctionHouseProofs ---------------------------
(***************************************************************************)
(* What holds of an auction from its draft to its paid order for any       *)
(* number of payments, runners, bids, faults and moments.                  *)
(* First the order by itself (Orders): whichever of the webhooks, the mock *)
(* payment, Alipay and the expiry job comes first, the row closes once,    *)
(* the deposit follows it and no money the provider reported is lost.      *)
(* Then the auction (AuctionHouse): while no fence is passed by, the order *)
(* goes to the last bid, and the checks of the invariant checker report    *)
(* nothing but what a decision settled after a cancel leaves behind.       *)
(* Last the two together (MarketSpec), whose bids are a SettledLedger.     *)
(***************************************************************************)
EXTENDS AuctionHouse, SequenceTheorems, TLAPS

----------------------------------------------------------------------------
(* The order: what a step does to the row *)

OrderRow ==
  [status : OrderStates, bid : Nat, deposit : {"none", "HELD", "REFUNDED", "FORFEITED"},
   provider : {"none", "local", "alipay"}, expireAt : Nat, by : {"none", "engine", "scheduler", "start"}]

Closed == {"PAID", "ORDER_EXPIRED"}

\* The auction is sold for the first time.
IsSold ==
  /\ order.status = "none"
  /\ order'.status = "ORDER_PENDING" /\ order'.deposit = "HELD"

\* A payment begins, or begins again.
IsInitiated ==
  /\ Open
  /\ order'.status = "PAYMENT_INITIATED"
  /\ order'.deposit = order.deposit /\ order'.bid = order.bid

\* A success arrives before the expiry.
IsPaid ==
  /\ order.status \notin Closed \cup {"none"}
  /\ order'.status = "PAID" /\ order'.deposit = "REFUNDED" /\ order'.bid = order.bid

\* The expiry job comes first.
IsExpired ==
  /\ Open
  /\ order'.status = "ORDER_EXPIRED" /\ order'.deposit = "FORFEITED" /\ order'.bid = order.bid

OrderMoves == order' \in OrderRow /\ (UNCHANGED order \/ IsSold \/ IsInitiated \/ IsPaid \/ IsExpired)

----------------------------------------------------------------------------
(* The order: its inductive invariant *)

OrdersTypes ==
  /\ clock \in Nat
  /\ order \in OrderRow
  /\ idem \in [PayKeys -> {"none", "PROCESSING", "COMPLETED", "FAILED"}]
  /\ pay \in [PayKeys -> {"idle", "initiated", "succeeded", "answered", "failed"}]
  /\ trade \in BOOLEAN

\* Nobody pays before there is an order, and a mock payment that was told of
\* its success has left the order paid.
PaymentsHaveOrder ==
  /\ order.status = "none" => ~trade /\ order.provider = "none" /\ \A k \in PayKeys : pay[k] = "idle"
  /\ \A k \in PayKeys : pay[k] = "succeeded" => order.status = "PAID"

OrdersInv == OrdersTypes /\ PaymentsHaveOrder /\ MoneyIsAccounted /\ DepositFollowsOrder

----------------------------------------------------------------------------
(* The order: lemmas about a step of the row *)

\* A closed order stays as it is, and the deposit follows every move.
LEMMA MoveKeeps ==
  ASSUME OrdersInv, OrderMoves
  PROVE  /\ DepositFollowsOrder'
         /\ order.status \in Closed => order'.status = order.status
         /\ order.status # "none" => order'.bid = order.bid /\ order'.status # "none"
         /\ order'.status = "none" => order' = order
<1>1. DepositFollowsOrder /\ order \in OrderRow /\ order' \in OrderRow
  BY DEF OrdersInv, OrdersTypes, OrderMoves
<1>2. CASE UNCHANGED order
  BY <1>1, <1>2 DEF DepositFollowsOrder
<1>3. CASE IsSold
  BY <1>1, <1>3 DEF DepositFollowsOrder, IsSold, Closed
<1>4. CASE IsInitiated
  BY <1>1, <1>4 DEF DepositFollowsOrder, IsInitiated, Open, Closed
<1>5. CASE IsPaid
  BY <1>1, <1>5 DEF DepositFollowsOrder, IsPaid, Closed
<1>6. CASE IsExpired
  BY <1>1, <1>6 DEF DepositFollowsOrder, IsExpired, Open, Closed
<1> QED
  BY <1>2, <1>3, <1>4, <1>5, <1>6 DEF OrderMoves

\* A move that no payment is told of keeps the invariant.
LEMMA MoveInv ==
  ASSUME OrdersInv, OrderMoves, clock' \in Nat,
         UNCHANGED <<idem, pay, events, anomalies, trade>>
  PROVE  OrdersInv'
<1>1. OrdersTypes'
  BY DEF OrdersInv, OrdersTypes, OrderMoves
<1>2. PaymentsHaveOrder'
  BY MoveKeeps DEF OrdersInv, PaymentsHaveOrder, Closed
<1>3. MoneyIsAccounted'
  BY MoveKeeps DEF OrdersInv, MoneyIsAccounted, Closed
<1> QED
  BY <1>1, <1>2, <1>3, MoveKeeps DEF OrdersInv

\* HandleProviderWebhook pays an open order, and records a success that comes
\* too late.
LEMMA WebhookMoves ==
  ASSUME OrdersInv, order.status # "none", NEW event, Webhook(event, order)
  PROVE  /\ OrderMoves
         /\ order.status # "ORDER_EXPIRED" => order'.status = "PAID"
         /\ order'.status = "PAID" \/ "late success" \in anomalies'
         /\ "late success" \in anomalies' => order'.status = "ORDER_EXPIRED"
         /\ order'.status # "none"
<1>1. order \in OrderRow /\ MoneyIsAccounted
  BY DEF OrdersInv, OrdersTypes
<1>2. CASE order.status = "ORDER_EXPIRED"
  BY <1>1, <1>2 DEF Webhook, RecordAnomaly, OrderMoves
<1>3. CASE order.status = "PAID"
  BY <1>1, <1>3 DEF Webhook, OrderMoves, MoneyIsAccounted
<1>4. CASE order.status \notin Closed
  <2>1. order' = [order EXCEPT !.status = "PAID", !.deposit = "REFUNDED"] /\ UNCHANGED anomalies
    BY <1>4 DEF Webhook, Closed
  <2>2. order' \in OrderRow
    BY <1>1, <2>1 DEF OrderRow, OrderStates
  <2>3. /\ order'.status = "PAID" /\ order'.deposit = "REFUNDED" /\ order'.bid = order.bid
    BY <1>1, <2>1 DEF OrderRow
  <2>4. IsPaid
    BY <1>4, <2>3 DEF IsPaid, Closed
  <2> QED
    BY <1>1, <1>4, <2>1, <2>2, <2>3, <2>4 DEF OrderMoves, MoneyIsAccounted, Closed
<1> QED
  BY <1>2, <1>3, <1>4 DEF Closed

\* PayMock and Alipay begin a payment of an open order only.
LEMMA InitiateMoves ==
  ASSUME OrdersInv, order.status \notin {"none", "ORDER_EXPIRED"},
         NEW provider \in {"none", "local", "alipay"},
         order' = IF order.status = "PAID" THEN order
                  ELSE [order EXCEPT !.status = "PAYMENT_INITIATED", !.provider = provider]
  PROVE  OrderMoves /\ order'.status # "none"
<1>1. order \in OrderRow
  BY DEF OrdersInv, OrdersTypes
<1>2. CASE order.status = "PAID"
  BY <1>1, <1>2 DEF OrderMoves
<1>3. CASE order.status # "PAID"
  <2>1. order' = [order EXCEPT !.status = "PAYMENT_INITIATED", !.provider = provider]
    BY <1>3
  <2>2. order' \in OrderRow
    BY <1>1, <2>1 DEF OrderRow, OrderStates
  <2>3. /\ order'.status = "PAYMENT_INITIATED" /\ order'.deposit = order.deposit
        /\ order'.bid = order.bid
    BY <1>1, <2>1 DEF OrderRow
  <2>4. IsInitiated
    BY <1>1, <1>3, <2>3 DEF IsInitiated, Open, OrderRow, OrderStates
  <2> QED
    BY <2>2, <2>3, <2>4 DEF OrderMoves
<1> QED
  BY <1>2, <1>3

\* A second sale finds the order of the first.
LEMMA SoldMoves ==
  ASSUME OrdersInv, NEW bid \in Nat, NEW by \in {"none", "engine", "scheduler", "start"},
         order' = Sold(bid, by)
  PROVE  OrderMoves
<1>1. order \in OrderRow /\ clock \in Nat /\ PayTime \in Nat /\ MaxClock \in Nat
  BY OrdersAssumption, SchedulerAssumption DEF OrdersInv, OrdersTypes
<1>2. CASE order.status # "none"
  BY <1>1, <1>2 DEF Sold, OrderMoves
<1>3. CASE order.status = "none"
  <2> DEFINE at == IF clock + PayTime > MaxClock THEN MaxClock ELSE clock + PayTime
  <2>1. at \in Nat
    BY <1>1
  <2>2. order' = [status |-> "ORDER_PENDING", bid |-> bid, deposit |-> "HELD", provider |-> "none",
                  expireAt |-> at, by |-> by]
    BY <1>3 DEF Sold
  <2> HIDE DEF at
  <2>3. order' \in OrderRow /\ order'.status = "ORDER_PENDING" /\ order'.deposit = "HELD"
    BY <2>1, <2>2 DEF OrderRow, OrderStates
  <2> QED
    BY <1>3, <2>3 DEF OrderMoves, IsSold
<1> QED
  BY <1>2, <1>3

\* The expiry job expires an open order or leaves the row alone.
LEMMA ExpireMoves ==
  ASSUME OrdersInv, NEW r \in Runners, ProcessExpireOrder(r)
  PROVE  OrderMoves
<1>1. order \in OrderRow
  BY DEF OrdersInv, OrdersTypes
<1>2. CASE UNCHANGED order
  BY <1>1, <1>2 DEF OrderMoves
<1>3. CASE order' # order
  <2>1. Open /\ order' = [order EXCEPT !.status = "ORDER_EXPIRED", !.deposit = "FORFEITED"]
    BY <1>3 DEF ProcessExpireOrder
  <2>2. order' \in OrderRow
    BY <1>1, <2>1 DEF OrderRow, OrderStates
  <2>3. /\ order'.status = "ORDER_EXPIRED" /\ order'.deposit = "FORFEITED" /\ order'.bid = order.bid
    BY <1>1, <2>1 DEF OrderRow
  <2> QED
    BY <2>1, <2>2, <2>3 DEF OrderMoves, IsExpired
<1> QED
  BY <1>2, <1>3

----------------------------------------------------------------------------
(* The order: the invariant holds at first and is kept by every step *)

\* No order, no payment.
LEMMA OrdersInitInv == OrdersInit => OrdersInv
<1> SUFFICES ASSUME OrdersInit
             PROVE  OrdersInv
  OBVIOUS
<1>1. /\ clock = 0 /\ order = NoOrder /\ events = {} /\ anomalies = {} /\ trade = FALSE
      /\ idem = [k \in PayKeys |-> "none"] /\ pay = [k \in PayKeys |-> "idle"]
  BY DEF OrdersInit, SchedulerInit
<1>2. /\ order \in OrderRow /\ order.status = "none" /\ order.provider = "none"
      /\ order.deposit = "none"
  BY <1>1 DEF NoOrder, OrderRow, OrderStates
<1>3. OrdersTypes
  BY <1>1, <1>2 DEF OrdersTypes
<1>4. PaymentsHaveOrder /\ MoneyIsAccounted
  BY <1>1, <1>2 DEF PaymentsHaveOrder, MoneyIsAccounted
<1>5. DepositFollowsOrder
  BY <1>2 DEF DepositFollowsOrder
<1> QED
  BY <1>3, <1>4, <1>5 DEF OrdersInv

\* A step of the mock payment with the key k.
LEMMA PayMockInv ==
  ASSUME OrdersInv, NEW k \in PayKeys, UNCHANGED clock,
         PayMock(k) \/ PayMockWebhook(k) \/ PayMockCompletes(k) \/ PayMockRepeated(k) \/ PayMockBreaks(k)
  PROVE  OrdersInv' /\ OrderMoves
<1>1. /\ order \in OrderRow /\ clock \in Nat /\ trade \in BOOLEAN
      /\ idem \in [PayKeys -> {"none", "PROCESSING", "COMPLETED", "FAILED"}]
      /\ pay \in [PayKeys -> {"idle", "initiated", "succeeded", "answered", "failed"}]
      /\ PaymentsHaveOrder /\ MoneyIsAccounted
  BY DEF OrdersInv, OrdersTypes
<1>2. UNCHANGED order => OrderMoves
  BY <1>1 DEF OrderMoves
<1>3. CASE PayMock(k)
  <2> DEFINE provider == IF order.provider = "none" THEN "local" ELSE order.provider
  <2>1. provider \in {"none", "local", "alipay"}
    BY <1>1 DEF OrderRow
  <2>2. /\ order.status \notin {"none", "ORDER_EXPIRED"}
        /\ order' = IF order.status = "PAID" THEN order
                    ELSE [order EXCEPT !.status = "PAYMENT_INITIATED", !.provider = provider]
        /\ idem' = [idem EXCEPT ![k] = "PROCESSING"]
        /\ pay' = [pay EXCEPT ![k] = "initiated"]
        /\ UNCHANGED <<events, anomalies, trade>>
    BY <1>3 DEF PayMock
  <2> HIDE DEF provider
  <2>3. OrderMoves /\ order'.status # "none"
    BY <2>1, <2>2, InitiateMoves
  <2>4. OrdersTypes'
    BY <1>1, <2>2, <2>3 DEF OrdersTypes, OrderMoves
  <2>5. PaymentsHaveOrder' /\ MoneyIsAccounted'
    BY <1>1, <2>2, <2>3, MoveKeeps DEF PaymentsHaveOrder, MoneyIsAccounted, Closed
  <2> QED
    BY <2>3, <2>4, <2>5, MoveKeeps DEF OrdersInv
<1>4. CASE PayMockWebhook(k)
  <2>1. order.status # "none" /\ Webhook(k, order) /\ UNCHANGED <<idem, trade>>
    BY <1>1, <1>4 DEF PayMockWebhook, PaymentsHaveOrder
  <2>2. pay' = [pay EXCEPT ![k] = IF order.status = "ORDER_EXPIRED" THEN "failed" ELSE "succeeded"]
    BY <1>4 DEF PayMockWebhook
  <2>3. OrdersTypes'
    BY <1>1, <2>1, <2>2, WebhookMoves DEF OrdersTypes, OrderMoves
  <2>4. PaymentsHaveOrder' /\ MoneyIsAccounted'
    BY <1>1, <2>1, <2>2, WebhookMoves, MoveKeeps DEF PaymentsHaveOrder, MoneyIsAccounted, Closed
  <2> QED
    BY <2>1, <2>3, <2>4, WebhookMoves, MoveKeeps DEF OrdersInv
<1>5. CASE PayMockCompletes(k) \/ PayMockRepeated(k) \/ PayMockBreaks(k)
  <2>1. UNCHANGED <<order, events, anomalies, trade>>
    BY <1>5 DEF PayMockCompletes, PayMockRepeated, PayMockBreaks
  <2>2. OrdersTypes' /\ PaymentsHaveOrder' /\ MoneyIsAccounted'
    <3>1. CASE PayMockCompletes(k)
      BY <1>1, <2>1, <3>1 DEF PayMockCompletes, OrdersTypes, PaymentsHaveOrder, MoneyIsAccounted
    <3>2. CASE PayMockRepeated(k)
      BY <1>1, <2>1, <3>2 DEF PayMockRepeated, OrdersTypes, PaymentsHaveOrder, MoneyIsAccounted
    <3>3. CASE PayMockBreaks(k)
      BY <1>1, <2>1, <3>3 DEF PayMockBreaks, OrdersTypes, PaymentsHaveOrder, MoneyIsAccounted
    <3> QED
      BY <1>5, <3>1, <3>2, <3>3
  <2> QED
    BY <1>2, <2>1, <2>2, MoveKeeps DEF OrdersInv
<1> QED
  BY <1>3, <1>4, <1>5

\* A step of Alipay, of the reconciler or of the outbox.
LEMMA ProviderInv ==
  ASSUME OrdersInv, UNCHANGED clock,
         \/ AlipayCreate \/ CustomerPays \/ AlipayNotify \/ QueryAlipayOrder
         \/ ReconcileProviderPayments \/ OutboxPublishes
  PROVE  OrdersInv' /\ OrderMoves
<1>1. /\ order \in OrderRow /\ clock \in Nat /\ trade \in BOOLEAN
      /\ OrdersTypes /\ PaymentsHaveOrder /\ MoneyIsAccounted
  BY DEF OrdersInv, OrdersTypes
<1>2. UNCHANGED order => OrderMoves
  BY <1>1 DEF OrderMoves
<1>3. CASE AlipayCreate
  <2>1. OrderMoves
    BY <1>3, InitiateMoves DEF AlipayCreate, MarkAlipayPaymentInitiated
  <2> QED
    BY <1>1, <1>3, <2>1, MoveInv DEF AlipayCreate
<1>4. CASE CustomerPays
  <2>1. UNCHANGED <<order, idem, pay, events, anomalies>> /\ trade' = TRUE /\ order.status # "none"
    BY <1>1, <1>4 DEF CustomerPays, PaymentsHaveOrder
  <2>2. OrdersTypes' /\ PaymentsHaveOrder' /\ MoneyIsAccounted'
    BY <1>1, <2>1 DEF OrdersTypes, PaymentsHaveOrder, MoneyIsAccounted
  <2> QED
    BY <1>2, <2>1, <2>2, MoveKeeps DEF OrdersInv
<1>5. CASE AlipayNotify \/ QueryAlipayOrder
  <2>1. PICK event : Alipay(event)
    BY <1>5 DEF AlipayNotify, QueryAlipayOrder
  <2>2. order.status # "none" /\ Webhook(event, order) /\ UNCHANGED <<idem, pay, trade>>
    BY <1>1, <2>1 DEF Alipay, PaymentsHaveOrder
  <2>3. OrdersTypes'
    BY <1>1, <2>2, WebhookMoves DEF OrdersTypes, OrderMoves
  <2>4. PaymentsHaveOrder' /\ MoneyIsAccounted'
    BY <1>1, <2>2, WebhookMoves, MoveKeeps DEF PaymentsHaveOrder, MoneyIsAccounted, Closed
  <2> QED
    BY <2>2, <2>3, <2>4, WebhookMoves, MoveKeeps DEF OrdersInv
<1>6. CASE ReconcileProviderPayments
  <2>1. UNCHANGED <<order, idem, pay, events, trade>> /\ anomalies' = anomalies \cup {"no success event"}
    BY <1>6 DEF ReconcileProviderPayments, RecordAnomaly
  <2>2. OrdersTypes' /\ PaymentsHaveOrder' /\ MoneyIsAccounted'
    BY <1>1, <2>1 DEF OrdersTypes, PaymentsHaveOrder, MoneyIsAccounted
  <2> QED
    BY <1>2, <2>1, <2>2, MoveKeeps DEF OrdersInv
<1>7. CASE OutboxPublishes
  BY <1>1, <1>2, <1>7, MoveInv DEF OutboxPublishes
<1> QED
  BY <1>3, <1>4, <1>5, <1>6, <1>7

\* A step of the scheduler keeps the clock a number.
LEMMA SchedulerClock ==
  ASSUME clock \in Nat, SchedulerNext
  PROVE  clock' \in Nat
<1>1. CASE Tick
  BY <1>1 DEF Tick
<1>2. CASE UNCHANGED clock
  BY <1>2
<1> QED
  BY <1>1, <1>2 DEF SchedulerNext, Claim, RunnerFails, RunnerCrashes, LeaseExpires

\* Every step keeps the invariant and moves the row in one of the four ways.
LEMMA OrdersNextInv ==
  ASSUME OrdersInv, [OrdersNext]_ordersVars
  PROVE  OrdersInv' /\ OrderMoves
<1>1. order \in OrderRow /\ clock \in Nat
  BY DEF OrdersInv, OrdersTypes
<1>2. UNCHANGED order => OrderMoves
  BY <1>1 DEF OrderMoves
<1>3. CASE SchedulerNext /\ UNCHANGED orderVars
  BY <1>1, <1>2, <1>3, SchedulerClock, MoveInv DEF orderVars
<1>4. CASE Payments /\ UNCHANGED schedulerVars
  BY <1>4, PayMockInv, ProviderInv DEF Payments, schedulerVars
<1>5. CASE \E k \in PayKeys : PayMockBreaks(k) /\ UNCHANGED <<clock, job, runner>>
  BY <1>5, PayMockInv
<1>6. CASE \E r \in Runners : ProcessExpireOrder(r)
  <2>1. OrderMoves /\ UNCHANGED <<clock, idem, pay, events, anomalies, trade>>
    BY <1>6, ExpireMoves DEF ProcessExpireOrder
  <2> QED
    BY <1>1, <2>1, MoveInv
<1>7. CASE \E bid \in {1, 2} : SaleCommits(bid)
  <2>1. OrderMoves /\ UNCHANGED <<clock, idem, pay, events, anomalies, trade>>
    BY <1>7, SoldMoves DEF SaleCommits
  <2> QED
    BY <1>1, <2>1, MoveInv
<1>8. CASE UNCHANGED ordersVars
  <2>1. UNCHANGED <<clock, order, idem, pay, events, anomalies, trade>>
    BY <1>8 DEF ordersVars, schedulerVars, orderVars
  <2> QED
    BY <1>1, <1>2, <2>1, MoveInv
<1> QED
  BY <1>3, <1>4, <1>5, <1>6, <1>7, <1>8 DEF OrdersNext

----------------------------------------------------------------------------
(* The order: theorems *)

\* The inductive invariant holds in every reachable state.
THEOREM OrdersInvariant == OrdersSpec => []OrdersInv
<1>1. OrdersInv /\ [OrdersNext]_ordersVars => OrdersInv'
  BY OrdersNextInv
<1> QED
  BY <1>1, OrdersInitInv, PTL DEF OrdersSpec

\* MoneyIsAccounted: a success the provider reported is never dropped, and a
\* payment is answered with PAID only when the order is.
THEOREM MoneyStaysAccounted == OrdersSpec => []MoneyIsAccounted
<1>1. OrdersInv => MoneyIsAccounted
  BY DEF OrdersInv
<1> QED
  BY <1>1, OrdersInvariant, PTL

\* DepositFollowsOrder: the deposit goes back with the payment, and is lost
\* with the expiry, whichever came first.
THEOREM DepositStaysRight == OrdersSpec => []DepositFollowsOrder
<1>1. OrdersInv => DepositFollowsOrder
  BY DEF OrdersInv
<1> QED
  BY <1>1, OrdersInvariant, PTL

\* OrderIsFinal: no late webhook, repeated payment, second expiry or second
\* sale touches a closed order, nor the bid of any order.
THEOREM OrderStaysFinal == OrdersSpec => OrderIsFinal
<1>1. OrdersInv /\ [OrdersNext]_ordersVars =>
        [/\ order.status \in {"PAID", "ORDER_EXPIRED"} => order'.status = order.status
         /\ order.status # "none" => order'.bid = order.bid]_order
  BY OrdersNextInv, MoveKeeps DEF Closed
<1> QED
  BY <1>1, OrdersInvariant, PTL DEF OrdersSpec, OrderIsFinal

\* What is written down about payments: events by their sender, anomalies by name.
RecordsTypes ==
  /\ events \subseteq (PayKeys \cup {"notify", "query"})
  /\ anomalies \subseteq {"late success", "no success event"}
  /\ published \in BOOLEAN

\* A webhook writes down its own event, and names what is late.
LEMMA WebhookRecords ==
  ASSUME RecordsTypes, NEW event \in PayKeys \cup {"notify", "query"}, Webhook(event, order)
  PROVE  RecordsTypes'
<1>1. events' = events \cup {event}
  BY DEF Webhook, RecordEvent
<1>2. anomalies' = anomalies \/ anomalies' = anomalies \cup {"late success"}
  BY DEF Webhook, RecordAnomaly
<1>3. published' \in BOOLEAN
  BY DEF Webhook, RecordsTypes
<1> QED
  BY <1>1, <1>2, <1>3 DEF RecordsTypes

\* So does every other step.
LEMMA RecordsNext == RecordsTypes /\ [OrdersNext]_ordersVars => RecordsTypes'
<1> SUFFICES ASSUME RecordsTypes, [OrdersNext]_ordersVars
             PROVE  RecordsTypes'
  OBVIOUS
<1>1. ASSUME UNCHANGED <<events, anomalies>>, published' \in {published, TRUE, FALSE}
      PROVE  RecordsTypes'
  BY <1>1 DEF RecordsTypes
<1>2. ASSUME NEW k \in PayKeys, PayMockWebhook(k)
      PROVE  RecordsTypes'
  BY <1>2, WebhookRecords DEF PayMockWebhook
<1>3. ASSUME NEW k \in PayKeys, PayMock(k) \/ PayMockCompletes(k) \/ PayMockRepeated(k) \/ PayMockBreaks(k)
      PROVE  RecordsTypes'
  BY <1>1, <1>3 DEF PayMock, PayMockCompletes, PayMockRepeated, PayMockBreaks
<1>4. CASE AlipayNotify \/ QueryAlipayOrder
  BY <1>4, WebhookRecords DEF AlipayNotify, QueryAlipayOrder, Alipay
<1>5. CASE AlipayCreate \/ CustomerPays \/ OutboxPublishes
  BY <1>1, <1>5 DEF AlipayCreate, CustomerPays, OutboxPublishes
<1>6. CASE ReconcileProviderPayments
  BY <1>6 DEF ReconcileProviderPayments, RecordAnomaly, RecordsTypes
<1>7. ASSUME NEW r \in Runners, ProcessExpireOrder(r)
      PROVE  RecordsTypes'
  BY <1>1, <1>7 DEF ProcessExpireOrder
<1>8. ASSUME NEW bid, SaleCommits(bid)
      PROVE  RecordsTypes'
  BY <1>1, <1>8 DEF SaleCommits
<1>9. CASE UNCHANGED orderVars
  BY <1>1, <1>9 DEF orderVars
<1> QED
  BY <1>2, <1>3, <1>4, <1>5, <1>6, <1>7, <1>8, <1>9 DEF OrdersNext, Payments, ordersVars

\* OrderTypeOK: every variable of an order and its payments keeps its type.
THEOREM OrderTypesCorrect == OrdersSpec => []OrderTypeOK
<1>1. OrdersInit => RecordsTypes
  BY DEF OrdersInit, RecordsTypes
<1>2. OrdersInv /\ RecordsTypes => OrderTypeOK
  BY DEF OrdersInv, OrdersTypes, OrderRow, RecordsTypes, OrderTypeOK
<1> QED
  BY <1>1, <1>2, RecordsNext, OrdersInvariant, PTL DEF OrdersSpec

-----------------------------------------------------------------------------
(* The auction: its inductive invariant *)

BidRow == [bid : Nat, end : Nat, sold : BOOLEAN]

PgRow == [status : Statuses, bid : Nat, end : Nat, narrating : BOOLEAN, ends : Seq(Terminal)]

HotState == [kind : {"absent", "partial", "full"}, status : Statuses \cup {""}, paused : BOOLEAN,
             bid : Int, end : Nat]

Snapshots == [status : Statuses, bid : Nat, end : Nat]

Steps == {"idle", "claimed", "read", "paused", "verified", "sold", "ended"}

RunnerState == [job : Jobs \cup {"none"}, step : Steps]

HouseTypes ==
  /\ clock \in Nat
  /\ runner \in [Runners -> RunnerState]
  /\ order.status \in OrderStates /\ order.bid \in Nat
  /\ pg \in PgRow
  /\ hot \in HotState /\ seen \in HotState
  /\ log \in Seq(BidRow)
  /\ relayed \in Nat /\ settled \in Nat /\ settled <= relayed /\ relayed <= Len(log)
  /\ loaded \in Snapshots
  /\ host \in [todo : {"none", "fence", "sync"}, end : Nat]
  /\ excused \in BOOLEAN

Drafted == pg.status \in {"none", "DRAFT", "SCHEDULED"}

\* Until the host starts the auction there is nothing in Redis and no order.
NothingYet ==
  Drafted => /\ pg.bid = 0 /\ pg.end = 0 /\ pg.ends = <<>>
             /\ order.status = "none"
             /\ hot.kind = "absent" /\ loaded = NoSnapshot /\ host.todo # "sync"

\* Each bid is one more than the last: the row counts the settled ones, the
\* hot state all of them.
BidsAreNumbered ==
  /\ settled <= pg.bid
  /\ \A i \in DOMAIN log : log[i].bid = (pg.bid - settled) + i
  /\ hot.kind = "full" => hot.bid = (pg.bid - settled) + Len(log)
  /\ hot.kind # "full" => log = <<>> /\ hot.bid = -1
  /\ hot.kind = "absent" /\ loaded # NoSnapshot => loaded.bid = pg.bid

\* A bid at the cap price is the last.
SaleIsLastBid ==
  \A i \in DOMAIN log : log[i].sold => i = Len(log) /\ hot.status # "ACTIVE"

\* The hot engine takes no bid.
HotClosed == hot.kind = "full" => hot.paused \/ hot.status # "ACTIVE"

\* Every bid is settled, and no other will come.
AllSettled == settled = Len(log) /\ HotClosed

\* Runner r holds the row of the auction.
Holds(r) == runner[r].job = "END_AUCTION" /\ runner[r].step \in {"read", "paused", "verified"}

\* One runner at a time, on an auction that is active; from its pause on the
\* hot engine is closed, and what it has verified is settled.
RowIsLocked(r) ==
  Holds(r) => /\ pg.status = "ACTIVE"
              /\ \A q \in Runners : Holds(q) => q = r
              /\ ~excused /\ runner[r].step = "paused" => hot.paused
              /\ ~excused /\ runner[r].step = "verified" => AllSettled

\* The order is of the auction's sale, and a sale or an end is the end of it.
SaleStands ==
  ~excused => /\ pg.status \in {"SOLD", "ENDED"} => AllSettled
              /\ pg.status = "SOLD" => order.status # "none"
              /\ order.status # "none" => pg.status = "SOLD" /\ pg.bid > 0 /\ order.bid = pg.bid

\* But for a reopened auction the events are the status.
EventsAreStatus ==
  ~excused /\ ~Reopened => pg.ends = IF pg.status \in Terminal THEN <<pg.status>> ELSE <<>>

HouseInv ==
  /\ HouseTypes
  /\ NothingYet
  /\ BidsAreNumbered
  /\ SaleIsLastBid
  /\ \A r \in Runners : RowIsLocked(r)
  /\ SaleStands
  /\ EventsAreStatus
  /\ NarratingStops

-----------------------------------------------------------------------------
(* The auction: lemmas about parts of the invariant *)

\* The bounds are numbers.
LEMMA HouseNumbers == Duration \in Nat /\ MaxEnd \in Nat /\ MaxBids \in Nat /\ MaxClock \in Nat
BY AuctionHouseAssumption, SchedulerAssumption

\* A row that nobody holds stays so while no runner moves.
LEMMA StaysUnlocked ==
  ASSUME ~Locked, UNCHANGED runner
  PROVE  \A r \in Runners : RowIsLocked(r)'
BY DEF Locked, RowIsLocked, Holds

\* What a step of the host or of the scheduler leaves of the bids.
BidsKept == UNCHANGED <<hot, log, relayed, settled, seen, loaded, excused>>

\* A step on the row that leaves its price alone.
LEMMA RowStep ==
  ASSUME HouseInv, BidsKept, ~Locked, UNCHANGED <<clock, runner>>,
         pg' \in PgRow, pg'.bid = pg.bid,
         host' \in [todo : {"none", "fence", "sync"}, end : Nat],
         order'.status = order.status, order'.bid = order.bid,
         NothingYet', SaleStands', EventsAreStatus', NarratingStops'
  PROVE  HouseInv'
<1>1. HouseTypes'
  BY DEF HouseInv, HouseTypes, BidsKept
<1>2. BidsAreNumbered' /\ SaleIsLastBid'
  BY DEF HouseInv, BidsAreNumbered, SaleIsLastBid, BidsKept
<1>3. \A r \in Runners : RowIsLocked(r)'
  BY StaysUnlocked
<1> QED
  BY <1>1, <1>2, <1>3 DEF HouseInv

-----------------------------------------------------------------------------
(* The host's operations *)

\* Before its start an auction has no event and nothing that could be wrong.
LEMMA CreateInv ==
  ASSUME HouseInv, CreateAuction
  PROVE  HouseInv'
<1>1. /\ pg.status = "none" /\ pg' = [pg EXCEPT !.status = "DRAFT"] /\ ~Locked
      /\ UNCHANGED <<clock, runner, order, host>> /\ BidsKept
  BY DEF CreateAuction, HotSide, BidsKept, schedulerVars, orderVars
<1>2. pg \in PgRow
  BY DEF HouseInv, HouseTypes
<1>3. /\ pg' \in PgRow /\ pg'.status = "DRAFT" /\ pg'.bid = pg.bid /\ pg'.end = pg.end
      /\ pg'.ends = pg.ends
  BY <1>1, <1>2 DEF PgRow, Statuses
<1>4. NothingYet' /\ pg.ends = <<>> /\ order.status = "none"
  BY <1>1, <1>3 DEF HouseInv, NothingYet, Drafted, BidsKept
<1>5. SaleStands' /\ EventsAreStatus' /\ NarratingStops'
  BY <1>1, <1>3, <1>4 DEF SaleStands, EventsAreStatus, NarratingStops, Terminal
<1> QED
  BY <1>1, <1>3, <1>4, <1>5, RowStep DEF HouseInv, HouseTypes

\* The host schedules a draft, or takes it back.
LEMMA TransitionInv ==
  ASSUME HouseInv, Schedule \/ Unschedule
  PROVE  HouseInv'
<1>1. PICK to \in {"DRAFT", "SCHEDULED"} :
        /\ Drafted /\ pg' = [pg EXCEPT !.status = to] /\ ~Locked
        /\ UNCHANGED <<clock, runner, order, host>> /\ BidsKept
  BY DEF Schedule, Unschedule, Transition, HotSide, BidsKept, schedulerVars, orderVars, Drafted
<1>2. pg \in PgRow
  BY DEF HouseInv, HouseTypes
<1>3. /\ pg' \in PgRow /\ pg'.status = to /\ pg'.bid = pg.bid /\ pg'.end = pg.end
      /\ pg'.ends = pg.ends
  BY <1>1, <1>2 DEF PgRow, Statuses
<1>4. NothingYet' /\ pg.ends = <<>> /\ order.status = "none"
  BY <1>1, <1>3 DEF HouseInv, NothingYet, BidsKept
<1>5. SaleStands' /\ EventsAreStatus' /\ NarratingStops'
  BY <1>1, <1>3, <1>4 DEF SaleStands, EventsAreStatus, NarratingStops, Terminal
<1> QED
  BY <1>1, <1>3, <1>4, <1>5, RowStep DEF HouseInv, HouseTypes

\* A cancelled auction that had been cancelled before has been reopened.
LEMMA CancelInv ==
  ASSUME HouseInv, Cancel
  PROVE  HouseInv'
<1>1. /\ pg.status \notin Terminal \cup {"none"}
      /\ pg' = [pg EXCEPT !.status = "CANCELLED", !.narrating = FALSE, !.ends = Append(@, "CANCELLED")]
      /\ host' = [NoHost EXCEPT !.todo = "fence"] /\ ~Locked
      /\ UNCHANGED <<clock, runner, order>> /\ BidsKept
  BY DEF Cancel, HotSide, BidsKept, schedulerVars, orderVars
<1>2. pg \in PgRow /\ pg.ends \in Seq(Terminal)
  BY DEF HouseInv, HouseTypes, PgRow
<1> DEFINE ends == Append(pg.ends, "CANCELLED")
<1>3. ends \in Seq(Terminal) /\ Len(ends) = Len(pg.ends) + 1 /\ \A i \in DOMAIN pg.ends : i \in DOMAIN ends /\ ends[i] = pg.ends[i] /\ i < Len(ends)
  BY <1>2 DEF Terminal
<1>4. pg.ends = <<>> => ends = <<"CANCELLED">>
  OBVIOUS
<1> HIDE DEF ends
<1>5. /\ pg' \in PgRow /\ pg'.status = "CANCELLED" /\ pg'.bid = pg.bid /\ pg'.end = pg.end
      /\ pg'.ends = ends /\ pg'.narrating = FALSE
  <2>1. pg' = [pg EXCEPT !.status = "CANCELLED", !.narrating = FALSE, !.ends = ends]
    BY <1>1 DEF ends
  <2> QED
    BY <2>1, <1>2, <1>3 DEF PgRow, Statuses, Terminal
<1>6. NothingYet' /\ NarratingStops'
  BY <1>5 DEF NothingYet, NarratingStops, Drafted
<1>7. SaleStands'
  BY <1>1, <1>5 DEF HouseInv, SaleStands, BidsKept, Terminal
<1>8. EventsAreStatus'
  <2>1. ASSUME Reopened PROVE Reopened'
    BY <2>1, <1>3, <1>5 DEF Reopened
  <2> QED
    BY <2>1, <1>1, <1>4, <1>5 DEF HouseInv, EventsAreStatus, BidsKept, Terminal
<1>9. host' \in [todo : {"none", "fence", "sync"}, end : Nat]
  BY <1>1 DEF NoHost
<1> QED
  BY <1>1, <1>5, <1>6, <1>7, <1>8, <1>9, RowStep

\* The host shortens the countdown.
LEMMA ShortenInv ==
  ASSUME HouseInv, NEW end \in 1..MaxEnd, ShortenActiveAuction(end)
  PROVE  HouseInv'
<1>1. /\ pg.status = "ACTIVE" /\ pg' = [pg EXCEPT !.end = end]
      /\ host' = [todo |-> "sync", end |-> end] /\ ~Locked
      /\ UNCHANGED <<clock, runner, order>> /\ BidsKept
  BY DEF ShortenActiveAuction, HotSide, BidsKept, schedulerVars, orderVars
<1>2. pg \in PgRow /\ end \in Nat
  BY HouseNumbers DEF HouseInv, HouseTypes
<1>3. /\ pg' \in PgRow /\ pg'.status = pg.status /\ pg'.bid = pg.bid
      /\ pg'.ends = pg.ends /\ pg'.narrating = pg.narrating
  BY <1>1, <1>2 DEF PgRow
<1>4. NothingYet' /\ NarratingStops'
  BY <1>1, <1>3 DEF NothingYet, NarratingStops, Drafted, Terminal
<1>5. SaleStands' /\ EventsAreStatus'
  BY <1>1, <1>3 DEF HouseInv, SaleStands, EventsAreStatus, Reopened, AllSettled, HotClosed, BidsKept
<1>6. host' \in [todo : {"none", "fence", "sync"}, end : Nat]
  BY <1>1, <1>2
<1> QED
  BY <1>1, <1>3, <1>4, <1>5, <1>6, RowStep

\* The narration is started or stopped.
LEMMA NarrateInv ==
  ASSUME HouseInv, NarrateStart \/ NarrateStop
  PROVE  HouseInv'
<1>1. PICK on \in BOOLEAN :
        /\ on => pg.status \notin Terminal
        /\ pg' = [pg EXCEPT !.narrating = on] /\ ~Locked
        /\ UNCHANGED <<clock, runner, order, host>> /\ BidsKept
  BY DEF NarrateStart, NarrateStop, Narrate, HotSide, BidsKept, schedulerVars, orderVars
<1>2. pg \in PgRow
  BY DEF HouseInv, HouseTypes
<1>3. /\ pg' \in PgRow /\ pg'.status = pg.status /\ pg'.bid = pg.bid /\ pg'.end = pg.end
      /\ pg'.ends = pg.ends /\ pg'.narrating = on
  BY <1>1, <1>2 DEF PgRow
<1>4. NothingYet' /\ NarratingStops'
  BY <1>1, <1>3 DEF HouseInv, NothingYet, NarratingStops, Drafted, BidsKept
<1>5. SaleStands' /\ EventsAreStatus'
  BY <1>1, <1>3 DEF HouseInv, SaleStands, EventsAreStatus, Reopened, AllSettled, HotClosed, BidsKept
<1> QED
  BY <1>1, <1>3, <1>4, <1>5, RowStep DEF HouseInv, HouseTypes

\* The proxies of the start sell it at once, or it opens with no bid to settle.
LEMMA StartInv ==
  ASSUME HouseInv, NEW auto \in {"none", "bid", "sold"}, Start(auto)
  PROVE  HouseInv'
<1> DEFINE status == IF auto = "sold" THEN "SOLD" ELSE "ACTIVE"
           bid == IF auto = "none" THEN 0 ELSE 1
           ends == IF auto = "sold" THEN Append(pg.ends, "SOLD") ELSE pg.ends
<1>1. /\ pg.status = "SCHEDULED" /\ ~Locked
      /\ pg' = [pg EXCEPT !.status = status, !.bid = bid, !.end = clock + Duration, !.ends = ends]
      /\ order' = IF auto = "sold" THEN Sold(1, "start") ELSE order
      /\ UNCHANGED <<clock, runner, host>> /\ BidsKept
  BY DEF Start, HotSide, BidsKept
<1>2. pg \in PgRow /\ clock \in Nat /\ clock + Duration \in Nat /\ log \in Seq(BidRow) /\ Len(log) \in Nat
  BY HouseNumbers DEF HouseInv, HouseTypes
<1>3. /\ pg.bid = 0 /\ pg.ends = <<>> /\ order.status = "none"
      /\ hot.kind = "absent" /\ loaded = NoSnapshot /\ host.todo # "sync"
      /\ log = <<>> /\ hot.bid = -1
  BY <1>1 DEF HouseInv, NothingYet, Drafted, BidsAreNumbered
<1>4. settled = 0
  BY <1>2, <1>3 DEF HouseInv, HouseTypes
<1>5. status \in Statuses /\ bid \in Nat /\ (auto = "sold" <=> status = "SOLD") /\ (auto = "sold" => bid = 1)
      /\ status \in {"SOLD", "ACTIVE"}
  BY DEF Statuses, Terminal
<1>6. ends = IF auto = "sold" THEN <<"SOLD">> ELSE <<>>
  BY <1>3
<1>7. ends \in Seq(Terminal)
  <2>1. pg.ends \in Seq(Terminal) /\ "SOLD" \in Terminal
    BY <1>2 DEF PgRow, Terminal
  <2>2. Append(pg.ends, "SOLD") \in Seq(Terminal)
    BY <2>1
  <2> QED
    BY <2>1, <2>2
<1> HIDE DEF status, bid, ends
<1>8. /\ pg' \in PgRow /\ pg'.status = status /\ pg'.bid = bid /\ pg'.ends = ends
  BY <1>1, <1>2, <1>5, <1>7 DEF PgRow
<1>9. /\ auto = "sold" => order'.status = "ORDER_PENDING" /\ order'.bid = 1 /\ order'.by = "start"
      /\ auto # "sold" => order' = order
  BY <1>1, <1>3 DEF Sold
<1>10. HouseTypes'
  BY <1>1, <1>8, <1>9 DEF HouseInv, HouseTypes, BidsKept, OrderStates
<1>11. NothingYet'
  BY <1>5, <1>8 DEF NothingYet, Drafted
<1>12. BidsAreNumbered' /\ SaleIsLastBid'
  BY <1>1, <1>3, <1>4, <1>5, <1>8 DEF BidsAreNumbered, SaleIsLastBid, BidsKept
<1>13. SaleStands'
  BY <1>1, <1>2, <1>3, <1>4, <1>5, <1>8, <1>9 DEF SaleStands, AllSettled, HotClosed, BidsKept
<1>14. EventsAreStatus'
  BY <1>5, <1>6, <1>8 DEF EventsAreStatus, Terminal
<1>15. NarratingStops'
  BY <1>5, <1>8, <1>9 DEF NarratingStops, Terminal
<1>16. \A r \in Runners : RowIsLocked(r)'
  BY <1>1, StaysUnlocked
<1> QED
  BY <1>10, <1>11, <1>12, <1>13, <1>14, <1>15, <1>16 DEF HouseInv

\* The hot engine stays as it is, or is paused; the order is there or not as before.
HotCloses ==
  /\ hot' \in HotState
  /\ hot'.kind = hot.kind /\ hot'.bid = hot.bid
  /\ hot'.paused \/ hot' = hot
  /\ hot'.status = hot.status \/ hot'.status # "ACTIVE"
  /\ UNCHANGED <<pg, log, relayed, settled, loaded, excused>>
  /\ order'.status \in OrderStates
  /\ order'.bid = order.bid /\ order'.by = order.by
  /\ order'.status = "none" <=> order.status = "none"
  /\ host' \in {host, NoHost}

\* Such a step keeps all but the lock.
LEMMA ClosingKeeps ==
  ASSUME HouseInv, HotCloses
  PROVE  /\ NothingYet' /\ BidsAreNumbered' /\ SaleIsLastBid'
         /\ SaleStands' /\ EventsAreStatus' /\ NarratingStops'
         /\ AllSettled => AllSettled'
         /\ hot.paused => hot'.paused
<1>1. HotClosed => HotClosed'
  BY DEF HotCloses, HotClosed
<1>2. AllSettled => AllSettled'
  BY <1>1 DEF AllSettled, HotCloses
<1>3. NothingYet'
  BY DEF HouseInv, NothingYet, HotCloses, NoHost, Drafted
<1>4. BidsAreNumbered' /\ SaleIsLastBid'
  BY DEF HouseInv, BidsAreNumbered, SaleIsLastBid, HotCloses
<1>5. SaleStands'
  BY <1>2 DEF HouseInv, SaleStands, HotCloses
<1>6. EventsAreStatus' /\ NarratingStops'
  BY DEF HouseInv, EventsAreStatus, NarratingStops, Reopened, HotCloses
<1> QED
  BY <1>2, <1>3, <1>4, <1>5, <1>6 DEF HotCloses

\* Such a step keeps the types if time and the runners do.
LEMMA ClosingTypes ==
  ASSUME HouseInv, HotCloses, clock' \in Nat, seen' \in HotState,
         runner' \in [Runners -> RunnerState]
  PROVE  HouseTypes'
BY DEF HouseInv, HouseTypes, HotCloses, NoHost

\* No runner comes to hold the row, or to be further on it.
LockKept ==
  \A r \in Runners : Holds(r)' => Holds(r) /\ runner'[r].step = runner[r].step

\* Steps that at most close the hot state, and bring no runner to hold the row.
LEMMA ClosingInv ==
  ASSUME HouseInv, HotCloses, LockKept, clock' \in Nat, seen' \in HotState,
         runner' \in [Runners -> RunnerState]
  PROVE  HouseInv'
<1>1. ASSUME NEW r \in Runners, Holds(r)'
      PROVE  /\ pg'.status = "ACTIVE"
             /\ \A q \in Runners : Holds(q)' => q = r
             /\ ~excused' /\ runner'[r].step = "paused" => hot'.paused
             /\ ~excused' /\ runner'[r].step = "verified" => AllSettled'
  <2>1. RowIsLocked(r) /\ Holds(r) /\ runner'[r].step = runner[r].step
    BY <1>1 DEF HouseInv, LockKept
  <2>2. pg' = pg /\ excused' = excused
    BY DEF HotCloses
  <2>3. \A q \in Runners : Holds(q)' => q = r
    BY <2>1 DEF RowIsLocked, LockKept
  <2> QED
    BY <2>1, <2>2, <2>3, ClosingKeeps DEF RowIsLocked
<1>2. \A r \in Runners : RowIsLocked(r)'
  BY <1>1 DEF RowIsLocked
<1> QED
  BY <1>2, ClosingKeeps, ClosingTypes DEF HouseInv

\* FenceAuction closes what is there.
LEMMA FenceCloses ==
  ASSUME hot \in HotState, NEW status \in Terminal, Fence(status)
  PROVE  /\ hot' \in HotState /\ hot'.kind = hot.kind /\ hot'.bid = hot.bid
         /\ hot'.paused \/ hot' = hot
         /\ hot'.status = hot.status \/ hot'.status # "ACTIVE"
BY DEF Fence, HotState, Terminal, Statuses

\* The fence of a cancellation.
LEMMA CancelFencesInv ==
  ASSUME HouseInv, CancelFences
  PROVE  HouseInv'
<1>1. HouseTypes
  BY DEF HouseInv
<1>2. HotCloses
  BY <1>1, FenceCloses DEF CancelFences, HotCloses, HouseTypes, orderVars, Terminal
<1>3. LockKept
  BY DEF LockKept, Holds, CancelFences, schedulerVars
<1>4. UNCHANGED <<clock, seen, runner>>
  BY DEF CancelFences, schedulerVars
<1> QED
  BY <1>1, <1>2, <1>3, <1>4, ClosingInv DEF HouseTypes

\* A host's call that breaks off leaves what it wrote.
LEMMA HostCallBreaksInv ==
  ASSUME HouseInv, HostCallBreaks
  PROVE  HouseInv'
<1>1. HouseTypes
  BY DEF HouseInv
<1>2. HotCloses
  BY <1>1 DEF HostCallBreaks, HotSide, HotCloses, HouseTypes, orderVars
<1>3. LockKept
  BY DEF LockKept, Holds, HostCallBreaks
<1>4. UNCHANGED <<clock, seen, runner>>
  BY DEF HostCallBreaks, HotSide
<1> QED
  BY <1>1, <1>2, <1>3, <1>4, ClosingInv DEF HouseTypes

\* The demo's lifted pause can pass a fence by, and then excuses what follows.
LEMMA SyncInv ==
  ASSUME HouseInv, SyncDemoShortened
  PROVE  HouseInv'
<1> DEFINE kind == IF hot.kind = "absent" THEN "partial" ELSE hot.kind
<1>1. /\ host.todo = "sync" /\ host' = NoHost
      /\ hot' = [hot EXCEPT !.kind = kind, !.end = host.end, !.paused = FALSE]
      /\ excused' = IF Locked \/ pg.status # "ACTIVE" THEN TRUE ELSE excused
      /\ UNCHANGED <<clock, runner, order, pg, log, relayed, settled, seen, loaded>>
  BY DEF SyncDemoShortened, schedulerVars, orderVars
<1>2. HouseTypes /\ hot \in HotState /\ host.end \in Nat
  BY DEF HouseInv, HouseTypes
<1>3. kind \in {"partial", "full"} /\ (kind = "full" <=> hot.kind = "full")
  BY <1>2 DEF HotState
<1> HIDE DEF kind
<1>4. /\ hot' \in HotState /\ hot'.kind = kind /\ hot'.bid = hot.bid /\ hot'.status = hot.status
  BY <1>1, <1>2, <1>3 DEF HotState
<1>5. HouseTypes'
  BY <1>1, <1>2, <1>4 DEF HouseTypes, NoHost
<1>6. NothingYet'
  BY <1>1 DEF HouseInv, NothingYet, Drafted
<1>7. BidsAreNumbered' /\ SaleIsLastBid'
  BY <1>1, <1>3, <1>4 DEF HouseInv, BidsAreNumbered, SaleIsLastBid
<1>8. ASSUME ~excused'
      PROVE  ~excused /\ ~Locked /\ pg.status = "ACTIVE"
  BY <1>1, <1>8
<1>9. SaleStands'
  BY <1>1, <1>8 DEF HouseInv, SaleStands
<1>10. EventsAreStatus' /\ NarratingStops'
  BY <1>1, <1>8 DEF HouseInv, EventsAreStatus, NarratingStops, Reopened
<1>11. ASSUME NEW r \in Runners PROVE RowIsLocked(r)'
  <2>1. Holds(r) => Locked
    BY DEF Holds, Locked
  <2>2. (Holds(r)' <=> Holds(r)) /\ \A q \in Runners : Holds(q)' <=> Holds(q)
    BY <1>1 DEF Holds
  <2>3. RowIsLocked(r)
    BY DEF HouseInv
  <2> QED
    BY <1>1, <1>8, <2>1, <2>2, <2>3 DEF RowIsLocked
<1> QED
  BY <1>5, <1>6, <1>7, <1>9, <1>10, <1>11 DEF HouseInv

-----------------------------------------------------------------------------
(* The hot engine and its settlement *)

\* What is loaded is the row as it is now, and no bid comes before it is seeded.
LEMMA ColdLoadInv ==
  ASSUME HouseInv, ColdLoad
  PROVE  HouseInv'
<1>1. /\ pg.end > 0 /\ loaded' = [status |-> pg.status, bid |-> pg.bid, end |-> pg.end]
      /\ UNCHANGED <<clock, runner, order, pg, hot, log, relayed, settled, seen, host, excused>>
  BY DEF ColdLoad, ColdSide, schedulerVars, orderVars
<1>2. HouseTypes /\ pg \in PgRow
  BY DEF HouseInv, HouseTypes
<1>3. loaded' \in Snapshots /\ loaded'.bid = pg.bid
  BY <1>1, <1>2 DEF PgRow, Snapshots
<1>4. HouseTypes'
  BY <1>1, <1>2, <1>3 DEF HouseTypes
<1>5. NothingYet'
  BY <1>1, <1>2 DEF HouseInv, NothingYet, Drafted
<1>6. BidsAreNumbered' /\ SaleIsLastBid'
  BY <1>1, <1>3 DEF HouseInv, BidsAreNumbered, SaleIsLastBid
<1>7. SaleStands' /\ EventsAreStatus' /\ NarratingStops'
  BY <1>1 DEF HouseInv, SaleStands, EventsAreStatus, NarratingStops, Reopened, AllSettled, HotClosed
<1>8. \A r \in Runners : RowIsLocked(r)'
  BY <1>1 DEF HouseInv, RowIsLocked, Holds, AllSettled, HotClosed
<1> QED
  BY <1>4, <1>5, <1>6, <1>7, <1>8 DEF HouseInv

\* A seed that finds the auction locked or over excuses what follows.
LEMMA ColdSeedInv ==
  ASSUME HouseInv, ColdSeed
  PROVE  HouseInv'
<1>1. /\ loaded # NoSnapshot /\ loaded' = NoSnapshot
      /\ UNCHANGED <<clock, runner, order, pg, log, relayed, settled, seen, host>>
  BY DEF ColdSeed, ColdSide, schedulerVars, orderVars
<1>2. HouseTypes /\ loaded \in Snapshots /\ NoSnapshot \in Snapshots
  BY DEF HouseInv, HouseTypes, NoSnapshot, Snapshots, Statuses
<1>3. ~Drafted
  BY <1>1 DEF HouseInv, NothingYet
<1>4. CASE hot.kind = "absent"
  <2>1. /\ hot' = [kind |-> "full", status |-> loaded.status, paused |-> FALSE,
                   bid |-> loaded.bid, end |-> loaded.end]
        /\ excused' = IF Locked \/ pg.status # "ACTIVE" THEN TRUE ELSE excused
    BY <1>4 DEF ColdSeed
  <2>2. hot' \in HotState /\ hot'.kind = "full" /\ hot'.bid = loaded.bid
    <3>1. loaded.status \in Statuses \cup {""} /\ loaded.end \in Nat
      BY <1>2 DEF Snapshots
    <3>2. loaded.bid \in Nat
      BY <1>2 DEF Snapshots
    <3>3. loaded.bid \in Int
      BY <3>2
    <3> QED
      BY <2>1, <3>1, <3>3 DEF HotState
  <2>3. HouseTypes'
    BY <1>1, <1>2, <2>1, <2>2 DEF HouseTypes
  <2>4. NothingYet'
    BY <1>1, <1>3 DEF NothingYet, Drafted
  <2>5. loaded.bid = pg.bid /\ log = <<>> /\ settled = 0
    BY <1>1, <1>2, <1>4 DEF HouseInv, BidsAreNumbered, HouseTypes
  <2>6. BidsAreNumbered' /\ SaleIsLastBid'
    <3>1. pg.bid \in Nat
      BY <1>2 DEF HouseTypes, PgRow
    <3>2. DOMAIN log = {} /\ Len(log) = 0
      BY <2>5
    <3> QED
      BY <1>1, <2>2, <2>5, <3>1, <3>2 DEF BidsAreNumbered, SaleIsLastBid
  <2>7. ASSUME ~excused'
        PROVE  ~excused /\ ~Locked /\ pg.status = "ACTIVE"
    BY <2>1, <2>7
  <2>8. SaleStands'
    BY <1>1, <2>7 DEF HouseInv, SaleStands
  <2>9. EventsAreStatus' /\ NarratingStops'
    BY <1>1, <2>7 DEF HouseInv, EventsAreStatus, NarratingStops, Reopened
  <2>10. ASSUME NEW r \in Runners PROVE RowIsLocked(r)'
    <3>1. Holds(r) => Locked
      BY DEF Holds, Locked
    <3>2. (Holds(r)' <=> Holds(r)) /\ \A q \in Runners : Holds(q)' <=> Holds(q)
      BY <1>1 DEF Holds
    <3>3. RowIsLocked(r)
      BY DEF HouseInv
    <3> QED
      BY <1>1, <2>7, <3>1, <3>2, <3>3 DEF RowIsLocked
  <2> QED
    BY <2>3, <2>4, <2>6, <2>8, <2>9, <2>10 DEF HouseInv
<1>5. CASE hot.kind # "absent"
  <2>1. UNCHANGED <<hot, excused>>
    BY <1>5 DEF ColdSeed
  <2>2. HouseTypes'
    BY <1>1, <1>2, <2>1 DEF HouseTypes
  <2>3. NothingYet' /\ BidsAreNumbered' /\ SaleIsLastBid'
    BY <1>1, <1>5, <2>1 DEF HouseInv, NothingYet, Drafted, BidsAreNumbered, SaleIsLastBid
  <2>4. SaleStands' /\ EventsAreStatus' /\ NarratingStops'
    BY <1>1, <2>1 DEF HouseInv, SaleStands, EventsAreStatus, NarratingStops, Reopened, AllSettled, HotClosed
  <2>5. \A r \in Runners : RowIsLocked(r)'
    BY <1>1, <2>1 DEF HouseInv, RowIsLocked, Holds, AllSettled, HotClosed
  <2> QED
    BY <2>2, <2>3, <2>4, <2>5 DEF HouseInv
<1> QED
  BY <1>4, <1>5

\* A bid is one more; a closed engine takes none.
LEMMA BidInv ==
  ASSUME HouseInv, NEW now \in Int, NEW sold \in BOOLEAN, NEW extended \in BOOLEAN,
         Bid(now, sold, extended)
  PROVE  HouseInv'
<1> DEFINE end == IF extended THEN hot.end + 1 ELSE hot.end
           status == IF sold THEN "SOLD" ELSE hot.status
           d == [bid |-> hot.bid + 1, end |-> end, sold |-> sold]
<1>1. /\ hot.kind = "full" /\ hot.status = "ACTIVE" /\ ~hot.paused
      /\ log' = Append(log, d)
      /\ hot' = [hot EXCEPT !.bid = hot.bid + 1, !.end = end, !.status = status]
      /\ UNCHANGED <<clock, runner, order, pg, relayed, settled, seen, loaded, host, excused>>
  BY DEF Bid, ColdSide, schedulerVars, orderVars
<1>2. /\ HouseTypes /\ hot \in HotState /\ log \in Seq(BidRow) /\ Len(log) \in Nat
      /\ pg.bid \in Nat /\ settled \in Nat /\ relayed \in Nat
  BY DEF HouseInv, HouseTypes, PgRow
<1>3. hot.bid = (pg.bid - settled) + Len(log) /\ settled <= pg.bid
  BY <1>1 DEF HouseInv, BidsAreNumbered
<1>4. hot.bid + 1 \in Nat
  BY <1>2, <1>3
<1>4a. end \in Nat /\ status \in Statuses \cup {""}
  <2>1. hot.status \in Statuses \cup {""}
    BY <1>2 DEF HotState
  <2>2. end \in Nat
    <3>1. hot.end \in Nat
      BY <1>2 DEF HotState
    <3>2. hot.end + 1 \in Nat
      BY <3>1
    <3> QED
      BY <3>1, <3>2
  <2>3. status \in Statuses \cup {""}
    BY <2>1 DEF Statuses, Terminal
  <2> QED
    BY <2>2, <2>3
<1>5. (sold => status # "ACTIVE") /\ (~sold => status = "ACTIVE")
  BY <1>1
<1> HIDE DEF end, status
<1>6. d \in BidRow /\ d.bid = hot.bid + 1 /\ d.sold = sold
  BY <1>4, <1>4a DEF BidRow
<1> HIDE DEF d
<1>7. /\ log' \in Seq(BidRow) /\ Len(log') = Len(log) + 1 /\ DOMAIN log' = 1..(Len(log) + 1)
      /\ DOMAIN log = 1..Len(log)
      /\ \A i \in 1..Len(log) : log'[i] = log[i]
      /\ log'[Len(log) + 1] = d
  BY <1>1, <1>2, <1>6
<1>8. /\ hot' \in HotState /\ hot'.kind = "full" /\ hot'.bid = hot.bid + 1 /\ hot'.status = status
      /\ hot'.paused = hot.paused
  <2> DEFINE bid == hot.bid + 1
  <2>1. bid \in Int
    BY <1>4
  <2>2. hot' = [hot EXCEPT !.bid = bid, !.end = end, !.status = status]
    BY <1>1
  <2> HIDE DEF bid
  <2>3. hot' \in HotState /\ hot'.kind = hot.kind /\ hot'.bid = bid /\ hot'.status = status /\ hot'.paused = hot.paused
    BY <1>2, <1>4a, <2>1, <2>2 DEF HotState
  <2> QED
    BY <1>1, <2>3 DEF bid
<1>9. HouseTypes'
  <2>1. relayed' <= Len(log')
    BY <1>1, <1>2, <1>7 DEF HouseTypes
  <2> QED
    BY <1>1, <1>2, <1>7, <1>8, <2>1 DEF HouseTypes
<1>10. NothingYet'
  BY <1>1 DEF HouseInv, NothingYet, Drafted
<1>11. BidsAreNumbered'
  <2>1. ASSUME NEW i \in 1..(Len(log) + 1) PROVE log'[i].bid = (pg.bid - settled) + i
    <3>1. CASE i \in 1..Len(log)
      BY <1>7, <3>1 DEF HouseInv, BidsAreNumbered
    <3>2. CASE i = Len(log) + 1
      <4>1. log'[i].bid = hot.bid + 1
        BY <1>6, <1>7, <3>2
      <4>2. pg.bid \in Nat /\ settled \in Nat /\ Len(log) \in Nat
        BY <1>2
      <4> QED
        BY <1>3, <3>2, <4>1, <4>2
    <3> QED
      BY <3>1, <3>2, <1>2
  <2>2. hot'.bid = (pg.bid - settled) + Len(log')
    BY <1>2, <1>3, <1>7, <1>8
  <2> QED
    BY <1>1, <1>3, <1>7, <1>8, <2>1, <2>2 DEF BidsAreNumbered
<1>12. SaleIsLastBid'
  <2>1. ASSUME NEW i \in 1..(Len(log) + 1), log'[i].sold PROVE i = Len(log') /\ hot'.status # "ACTIVE"
    <3>1. CASE i \in 1..Len(log)
      BY <1>1, <1>7, <2>1, <3>1 DEF HouseInv, SaleIsLastBid
    <3>2. CASE i = Len(log) + 1
      BY <1>5, <1>6, <1>7, <1>8, <2>1, <3>2
    <3> QED
      BY <3>1, <3>2, <1>2
  <2> QED
    BY <1>7, <2>1 DEF SaleIsLastBid
<1>13. ~HotClosed
  BY <1>1 DEF HotClosed
<1>14. SaleStands'
  BY <1>1, <1>13 DEF HouseInv, SaleStands, AllSettled
<1>15. EventsAreStatus'
  BY <1>1 DEF HouseInv, EventsAreStatus, Reopened
<1>16. NarratingStops'
  <2>1. settled > 0 => settled \in 1..Len(log)
    BY <1>2 DEF HouseTypes
  <2>2. settled > 0 => log'[settled] = log[settled]
    BY <1>7, <2>1
  <2> QED
    BY <1>1, <2>2 DEF HouseInv, NarratingStops
<1>17. \A r \in Runners : RowIsLocked(r)'
  BY <1>1, <1>8, <1>13 DEF HouseInv, RowIsLocked, Holds, AllSettled
<1> QED
  BY <1>9, <1>10, <1>11, <1>12, <1>14, <1>15, <1>16, <1>17 DEF HouseInv

\* A bid of the engine is the next of the log.
LEMMA PlaceBidInv ==
  ASSUME HouseInv, PlaceBid
  PROVE  HouseInv'
<1>1. clock \in Int
  BY DEF HouseInv, HouseTypes
<1>2. PICK back \in {0, 1}, sold \in BOOLEAN, extended \in BOOLEAN : Bid(clock - back, sold, extended)
  BY DEF PlaceBid
<1> QED
  BY <1>1, <1>2, BidInv

\* A decision of the log reaches Kafka, from which it settles.
LEMMA RelayDecisionInv ==
  ASSUME HouseInv, RelayDecision
  PROVE  HouseInv'
<1>1. /\ relayed < Len(log) /\ relayed' = relayed + 1
      /\ UNCHANGED <<clock, runner, order, pg, hot, log, settled, seen, loaded, host, excused>>
  BY DEF RelayDecision, schedulerVars, orderVars
<1>2. HouseTypes /\ relayed \in Nat /\ Len(log) \in Nat /\ settled \in Nat
  BY DEF HouseInv, HouseTypes
<1>3. relayed' \in Nat /\ settled' <= relayed' /\ relayed' <= Len(log')
  BY <1>1, <1>2 DEF HouseTypes
<1>4. HouseTypes'
  BY <1>1, <1>2, <1>3 DEF HouseTypes
<1>5. NothingYet' /\ BidsAreNumbered' /\ SaleIsLastBid'
  BY <1>1 DEF HouseInv, NothingYet, Drafted, BidsAreNumbered, SaleIsLastBid
<1>6. SaleStands' /\ EventsAreStatus' /\ NarratingStops'
  BY <1>1 DEF HouseInv, SaleStands, EventsAreStatus, NarratingStops, Reopened, AllSettled, HotClosed
<1>7. \A r \in Runners : RowIsLocked(r)'
  BY <1>1 DEF HouseInv, RowIsLocked, Holds, AllSettled, HotClosed
<1> QED
  BY <1>4, <1>5, <1>6, <1>7 DEF HouseInv

\* Once the auction is over there is nothing left to settle; before that, or
\* into a cancelled auction, the row becomes what the decision says.
LEMMA SettleInv ==
  ASSUME HouseInv, SettleAccepted
  PROVE  HouseInv'
<1> DEFINE d == log[settled + 1]
           status == IF d.sold THEN "SOLD" ELSE "ACTIVE"
           ends == IF d.sold THEN Append(pg.ends, "SOLD") ELSE pg.ends
<1>1. /\ settled < relayed /\ ~Locked /\ settled' = settled + 1
      /\ pg' = [pg EXCEPT !.status = status, !.bid = d.bid, !.end = d.end, !.ends = ends]
      /\ order' = IF d.sold THEN Sold(d.bid, "engine") ELSE order
      /\ UNCHANGED <<clock, runner, hot, log, relayed, seen, loaded, host, excused>>
  BY DEF SettleAccepted
<1>2. /\ HouseTypes /\ pg \in PgRow /\ pg.ends \in Seq(Terminal) /\ pg.bid \in Nat
      /\ log \in Seq(BidRow) /\ Len(log) \in Nat /\ settled \in Nat /\ relayed \in Nat
      /\ relayed <= Len(log) /\ order.status \in OrderStates /\ order.bid \in Nat
  BY DEF HouseInv, HouseTypes, PgRow
<1>3. settled + 1 \in 1..Len(log) /\ DOMAIN log = 1..Len(log)
  BY <1>1, <1>2
<1>4. d \in BidRow /\ d.bid = pg.bid + 1 /\ d.bid \in Nat /\ d.end \in Nat /\ d.sold \in BOOLEAN
  <2>1. d \in BidRow
    BY <1>2, <1>3
  <2>2. d.bid = (pg.bid - settled) + (settled + 1)
    BY <1>3 DEF HouseInv, BidsAreNumbered
  <2>3. pg.bid \in Nat /\ settled \in Nat
    BY <1>2
  <2>4. d.bid = pg.bid + 1
    BY <2>2, <2>3
  <2>5. d.bid \in Nat /\ d.end \in Nat /\ d.sold \in BOOLEAN
    BY <2>1 DEF BidRow
  <2> QED
    BY <2>1, <2>4, <2>5
<1>5. d.sold => settled + 1 = Len(log) /\ hot.status # "ACTIVE"
  BY <1>3 DEF HouseInv, SaleIsLastBid
<1>6. /\ d.sold => status = "SOLD"
      /\ ~d.sold => status = "ACTIVE"
  OBVIOUS
<1>7. /\ ends \in Seq(Terminal)
      /\ d.sold => Len(ends) = Len(pg.ends) + 1
      /\ \A i \in DOMAIN pg.ends : i \in DOMAIN ends /\ ends[i] = pg.ends[i] /\ (d.sold => i < Len(ends))
  <2>1. "SOLD" \in Terminal
    BY DEF Terminal
  <2> QED
    BY <1>2, <2>1
<1>8. /\ pg.ends = <<>> /\ d.sold => ends = <<"SOLD">>
      /\ ~d.sold => ends = pg.ends
  <2> HIDE DEF d
  <2>1. Append(<<>>, "SOLD") = <<"SOLD">>
    OBVIOUS
  <2> QED
    BY <2>1
<1>9. d = log[settled']
  BY <1>1
<1> HIDE DEF d, status, ends
<1>10. /\ pg' \in PgRow /\ pg'.status = status /\ pg'.bid = d.bid /\ pg'.ends = ends
  BY <1>1, <1>2, <1>4, <1>6, <1>7 DEF PgRow, Statuses, Terminal
<1>11. /\ order'.status \in OrderStates /\ order'.bid \in Nat
       /\ ~d.sold => order' = order
       /\ d.sold /\ order.status = "none" => order'.status = "ORDER_PENDING" /\ order'.bid = d.bid
  BY <1>1, <1>2, <1>4 DEF Sold, OrderStates
<1>12. HouseTypes'
  <2>1. settled' \in Nat /\ settled' <= relayed
    BY <1>1, <1>2
  <2> QED
    BY <1>1, <1>2, <1>10, <1>11, <2>1 DEF HouseTypes
<1>13. NothingYet'
  BY <1>4, <1>6, <1>10 DEF NothingYet, Drafted
<1>14. pg'.bid - settled' = pg.bid - settled /\ settled' <= pg'.bid
  BY <1>1, <1>2, <1>4, <1>10 DEF HouseInv, BidsAreNumbered
<1>15. hot.kind = "full"
  BY <1>2, <1>3 DEF HouseInv, BidsAreNumbered
<1>16. BidsAreNumbered' /\ SaleIsLastBid'
  BY <1>1, <1>14, <1>15 DEF HouseInv, BidsAreNumbered, SaleIsLastBid
<1>17. ASSUME ~excused
       PROVE  pg.status \notin {"SOLD", "ENDED"} /\ order.status = "none"
  <2>1. settled # Len(log)
    BY <1>1, <1>2
  <2> QED
    BY <1>17, <2>1 DEF HouseInv, SaleStands, AllSettled
<1>18. SaleStands'
  <2>1. SUFFICES ASSUME ~excused
                 PROVE  /\ pg'.status \in {"SOLD", "ENDED"} => AllSettled'
                        /\ pg'.status = "SOLD" => order'.status # "none"
                        /\ order'.status # "none" => pg'.status = "SOLD" /\ pg'.bid > 0 /\ order'.bid = pg'.bid
    BY <1>1 DEF SaleStands
  <2>2. CASE d.sold
    <3>1. AllSettled'
      BY <1>1, <1>5, <2>2 DEF AllSettled, HotClosed
    <3>2. order'.status = "ORDER_PENDING" /\ order'.bid = d.bid
      BY <1>11, <1>17, <2>1, <2>2
    <3> QED
      BY <1>2, <1>4, <1>6, <1>10, <2>2, <3>1, <3>2
  <2>3. CASE ~d.sold
    BY <1>6, <1>10, <1>11, <1>17, <2>1, <2>3
  <2> QED
    BY <2>2, <2>3, <1>4
<1>19. EventsAreStatus'
  <2>1. SUFFICES ASSUME ~excused, ~Reopened'
                 PROVE  ends = IF status \in Terminal THEN <<status>> ELSE <<>>
    BY <1>1, <1>10 DEF EventsAreStatus
  <2>2. ~Reopened
    <3>1. SUFFICES ASSUME Reopened PROVE FALSE
      OBVIOUS
    <3>2. PICK i \in DOMAIN pg.ends : pg.ends[i] = "CANCELLED"
      BY <3>1 DEF Reopened
    <3>3. i \in DOMAIN ends /\ ends[i] = "CANCELLED" /\ status # "CANCELLED"
      BY <1>4, <1>6, <1>7, <3>2
    <3> QED
      BY <1>10, <2>1, <3>3 DEF Reopened
  <2>3. pg.status # "CANCELLED"
    <3>1. SUFFICES ASSUME pg.status = "CANCELLED" PROVE FALSE
      OBVIOUS
    <3>2. pg.ends = <<"CANCELLED">>
      BY <2>1, <2>2, <3>1 DEF HouseInv, EventsAreStatus, Terminal
    <3>3. 1 \in DOMAIN pg.ends /\ pg.ends[1] = "CANCELLED"
      BY <3>2
    <3>4. 1 \in DOMAIN ends /\ ends[1] = "CANCELLED" /\ status # "CANCELLED"
      BY <1>4, <1>6, <1>7, <3>3
    <3> QED
      BY <1>10, <2>1, <3>4 DEF Reopened
  <2>4. pg.ends = <<>>
    BY <1>17, <2>1, <2>2, <2>3 DEF HouseInv, EventsAreStatus, Terminal
  <2> QED
    BY <1>4, <1>6, <1>8, <2>4 DEF Terminal
<1>20. NarratingStops'
  BY <1>1, <1>2, <1>4, <1>6, <1>9, <1>10 DEF NarratingStops, Terminal
<1>21. \A r \in Runners : RowIsLocked(r)'
  BY <1>1, StaysUnlocked
<1> QED
  BY <1>12, <1>13, <1>16, <1>18, <1>19, <1>20, <1>21 DEF HouseInv

\* The periodic reconcile closes the hot state of an auction that is over.
LEMMA ReconcileTerminalInv ==
  ASSUME HouseInv, ReconcileTerminal
  PROVE  HouseInv'
<1>1. HouseTypes
  BY DEF HouseInv
<1>2. /\ hot' = [hot EXCEPT !.paused = TRUE, !.status = pg.status] /\ pg.status \in Terminal
      /\ UNCHANGED <<clock, runner, order, pg, log, relayed, settled, seen, loaded, host, excused>>
  BY DEF ReconcileTerminal, schedulerVars, orderVars
<1>3. hot' \in HotState /\ hot'.kind = hot.kind /\ hot'.bid = hot.bid /\ hot'.paused /\ hot'.status # "ACTIVE"
  BY <1>1, <1>2 DEF HouseTypes, HotState, Statuses, Terminal
<1>4. HotCloses
  BY <1>1, <1>2, <1>3 DEF HotCloses, HouseTypes
<1>5. LockKept
  BY <1>2 DEF LockKept, Holds
<1> QED
  BY <1>1, <1>2, <1>4, <1>5, ClosingInv DEF HouseTypes

-----------------------------------------------------------------------------
(* The scheduler *)

\* Runner r comes to new, the others stay.
LEMMA RunnerMoves ==
  ASSUME HouseTypes, NEW r \in Runners, NEW new \in RunnerState,
         runner' = [runner EXCEPT ![r] = new]
  PROVE  /\ runner' \in [Runners -> RunnerState]
         /\ runner'[r] = new
         /\ \A q \in Runners : q # r => runner'[q] = runner[q]
BY DEF HouseTypes

\* Where runners can come to.
LEMMA RunnerStates ==
  /\ Idle \in RunnerState /\ Idle.job = "none"
  /\ \A j \in Jobs, s \in Steps : [job |-> j, step |-> s] \in RunnerState
<1>1. Idle \in RunnerState /\ Idle.job = "none"
  BY DEF Idle, RunnerState, Steps, Jobs
<1>2. ASSUME NEW j \in Jobs, NEW s \in Steps PROVE [job |-> j, step |-> s] \in RunnerState
  BY DEF RunnerState
<1> QED
  BY <1>1, <1>2

\* A runner that comes to a step which does not hold the row takes no lock.
LEMMA LetsGo ==
  ASSUME HouseTypes, NEW r \in Runners, NEW new \in RunnerState,
         runner' = [runner EXCEPT ![r] = new],
         new.job # "END_AUCTION" \/ new.step \notin {"read", "paused", "verified"}
  PROVE  /\ LockKept /\ ~Holds(r)' /\ runner' \in [Runners -> RunnerState]
         /\ \A q \in Runners : q # r => (Holds(q)' <=> Holds(q))
BY RunnerMoves DEF LockKept, Holds

\* What the runner of the end job is at.
LEMMA GoesTo ==
  ASSUME HouseTypes, NEW r \in Runners, NEW from \in Steps, NEW to \in Steps,
         At(r, "END_AUCTION", from), GoTo(r, to)
  PROVE  /\ runner' = [runner EXCEPT ![r] = [job |-> "END_AUCTION", step |-> to]]
         /\ [job |-> "END_AUCTION", step |-> to] \in RunnerState
<1>1. runner[r] = [job |-> "END_AUCTION", step |-> from]
  BY DEF At
<1>2. [runner[r] EXCEPT !.step = to] = [job |-> "END_AUCTION", step |-> to]
  BY <1>1
<1>3. runner' = [runner EXCEPT ![r] = [runner[r] EXCEPT !.step = to]]
  BY DEF GoTo
<1>4. "END_AUCTION" \in Jobs
  BY DEF Jobs
<1> QED
  BY <1>2, <1>3, <1>4, RunnerStates

\* A step that leaves the hot engine as it is, and no more to the lock.
LEMMA IdleStepInv ==
  ASSUME HouseInv, LockKept, clock' \in Nat, seen' \in HotState,
         runner' \in [Runners -> RunnerState],
         UNCHANGED <<pg, hot, log, relayed, settled, loaded, host, excused, order>>
  PROVE  HouseInv'
<1>1. HotCloses
  BY DEF HotCloses, HouseInv, HouseTypes
<1> QED
  BY <1>1, ClosingInv

\* No hot state is one of its type.
LEMMA NoHotTyped == NoHot \in HotState
BY DEF NoHot, HotState

\* Claims, leases, failures and crashes: a rollback only releases the row.
LEMMA SchedulerInv ==
  ASSUME HouseInv, SchedulerNext, SchedulerStep
  PROVE  HouseInv'
<1>1. /\ UNCHANGED <<pg, hot, log, relayed, settled, loaded, host, excused, order>>
      /\ seen' \in {seen, NoHot}
  BY DEF SchedulerStep, orderVars
<1>2. HouseTypes /\ clock \in Nat /\ runner \in [Runners -> RunnerState]
  BY DEF HouseInv, HouseTypes
<1>3. seen' \in HotState
  BY <1>1, <1>2, NoHotTyped DEF HouseTypes
<1>4. clock' \in Nat
  <2>1. clock' = clock \/ clock' = clock + 1
    BY DEF SchedulerNext, Tick, Claim, RunnerFails, RunnerCrashes, LeaseExpires
  <2> QED
    BY <1>2, <2>1
<1>5. LockKept /\ runner' \in [Runners -> RunnerState]
  <2>1. CASE UNCHANGED runner
    BY <1>2, <2>1 DEF LockKept, Holds
  <2>2. ASSUME NEW r \in Runners, runner' = [runner EXCEPT ![r] = Idle]
        PROVE  LockKept /\ runner' \in [Runners -> RunnerState]
    BY <1>2, <2>2, LetsGo, RunnerStates
  <2>3. ASSUME NEW r \in Runners, NEW j \in Jobs,
               runner' = [runner EXCEPT ![r] = [job |-> j, step |-> "claimed"]]
        PROVE  LockKept /\ runner' \in [Runners -> RunnerState]
    <3> DEFINE new == [job |-> j, step |-> "claimed"]
    <3>1. new \in RunnerState
      BY DEF RunnerState, Steps
    <3>2. new.step \notin {"read", "paused", "verified"}
      OBVIOUS
    <3>3. runner' = [runner EXCEPT ![r] = new]
      BY <2>3
    <3> HIDE DEF new
    <3> QED
      BY <1>2, <3>1, <3>2, <3>3, LetsGo
  <2> QED
    BY <2>1, <2>2, <2>3 DEF SchedulerNext, Tick, Claim, RunnerFails, RunnerCrashes, LeaseExpires
<1> QED
  BY <1>1, <1>3, <1>4, <1>5, IdleStepInv

\* An order that expires is still the order.
LEMMA ExpireInv ==
  ASSUME HouseInv, NEW r \in Runners, ProcessExpireOrder(r), UNCHANGED houseVars
  PROVE  HouseInv'
<1>1. HouseTypes
  BY DEF HouseInv
<1>2. UNCHANGED <<clock, pg, hot, log, relayed, settled, seen, loaded, host, excused>>
  BY DEF ProcessExpireOrder, houseVars
<1>3. LockKept /\ runner' \in [Runners -> RunnerState]
  BY <1>1, LetsGo, RunnerStates DEF ProcessExpireOrder
<1>4. /\ order'.status \in OrderStates
      /\ order'.bid = order.bid /\ order'.by = order.by
      /\ order'.status = "none" <=> order.status = "none"
  <2>1. CASE UNCHANGED order
    BY <1>1, <2>1 DEF HouseTypes
  <2>2. CASE Open /\ order' = [order EXCEPT !.status = "ORDER_EXPIRED", !.deposit = "FORFEITED"]
    BY <2>2 DEF Open, OrderStates
  <2> QED
    BY <2>1, <2>2 DEF ProcessExpireOrder
<1>5. HotCloses
  BY <1>1, <1>2, <1>4 DEF HotCloses, HouseTypes
<1> QED
  BY <1>1, <1>2, <1>3, <1>5, ClosingInv DEF HouseTypes

-----------------------------------------------------------------------------
(* The end of the auction *)

\* The parts of the invariant that do not depend on the lock.
LEMMA RestKept ==
  ASSUME HouseInv, UNCHANGED <<clock, order, pg, hot, log, relayed, settled, loaded, host, excused>>,
         seen' \in HotState, runner' \in [Runners -> RunnerState],
         \A r \in Runners : RowIsLocked(r)'
  PROVE  HouseInv'
<1>1. HouseTypes'
  BY DEF HouseInv, HouseTypes
<1>2. NothingYet' /\ BidsAreNumbered' /\ SaleIsLastBid'
  BY DEF HouseInv, NothingYet, Drafted, BidsAreNumbered, SaleIsLastBid
<1>3. SaleStands' /\ EventsAreStatus' /\ NarratingStops'
  BY DEF HouseInv, SaleStands, EventsAreStatus, NarratingStops, Reopened, AllSettled, HotClosed
<1> QED
  BY <1>1, <1>2, <1>3 DEF HouseInv

\* The runner takes the row when nobody holds it and the auction is active.
LEMMA EndReadsInv ==
  ASSUME HouseInv, NEW r \in Runners, EndReads(r)
  PROVE  HouseInv'
<1>1. /\ At(r, "END_AUCTION", "claimed") /\ ~Locked
      /\ UNCHANGED <<clock, order, pg, hot, log, relayed, settled, loaded, host, excused>>
  BY DEF EndReads, EndSide, orderVars
<1>2. /\ HouseTypes /\ hot \in HotState /\ seen \in HotState /\ clock \in Nat
      /\ settled \in Nat /\ relayed \in Nat /\ settled <= relayed /\ relayed <= Len(log)
  BY DEF HouseInv, HouseTypes
<1>3. CASE Return(r)
  <2>1. LockKept /\ runner' \in [Runners -> RunnerState] /\ seen' \in HotState
    BY <1>2, <1>3, LetsGo, RunnerStates, NoHotTyped DEF Return
  <2> QED
    BY <1>1, <1>2, <2>1, IdleStepInv
<1>4. CASE /\ pg.status = "ACTIVE" /\ seen' = hot
           /\ GoTo(r, IF hot.kind = "absent" THEN "verified" ELSE "read")
  <2> DEFINE to == IF hot.kind = "absent" THEN "verified" ELSE "read"
             new == [job |-> "END_AUCTION", step |-> to]
  <2>1. to \in Steps /\ "claimed" \in Steps
    BY DEF Steps
  <2>2. GoTo(r, to)
    BY <1>4
  <2>3. to = "verified" => hot.kind = "absent"
    OBVIOUS
  <2>4. to # "paused"
    OBVIOUS
  <2> HIDE DEF to
  <2>5. runner' = [runner EXCEPT ![r] = new] /\ new \in RunnerState
    BY <1>1, <1>2, <2>1, <2>2, GoesTo
  <2>6. new.step = to
    OBVIOUS
  <2> HIDE DEF new
  <2>7. /\ runner' \in [Runners -> RunnerState] /\ runner'[r] = new
        /\ \A q \in Runners : q # r => runner'[q] = runner[q]
    BY <1>2, <2>5, RunnerMoves
  <2>8. \A q \in Runners : q # r => ~Holds(q)'
    BY <1>1, <2>7 DEF Holds, Locked
  <2>9. hot.kind = "absent" => AllSettled
    <3>1. hot.kind = "absent" => Len(log) = 0
      BY DEF HouseInv, BidsAreNumbered
    <3>2. hot.kind = "absent" => settled = Len(log)
      BY <1>2, <3>1
    <3> QED
      BY <3>2 DEF AllSettled, HotClosed
  <2>10. to = "verified" => AllSettled'
    BY <1>1, <2>3, <2>9 DEF AllSettled, HotClosed
  <2>11. ASSUME NEW q \in Runners PROVE RowIsLocked(q)'
    BY <1>1, <1>4, <2>4, <2>6, <2>7, <2>8, <2>10 DEF RowIsLocked
  <2> QED
    BY <1>1, <1>2, <1>4, <2>7, <2>11, RestKept
<1> QED
  BY <1>3, <1>4 DEF EndReads

\* Once paused, the hot engine takes no bid until the lock is released.
LEMMA FencePausesInv ==
  ASSUME HouseInv, NEW r \in Runners, FencePauses(r)
  PROVE  HouseInv'
<1> DEFINE new == [job |-> "END_AUCTION", step |-> "paused"]
<1>1. /\ At(r, "END_AUCTION", "read") /\ GoTo(r, "paused")
      /\ hot' = [hot EXCEPT !.paused = TRUE]
      /\ UNCHANGED <<clock, order, pg, seen, log, relayed, settled, loaded, host, excused>>
  BY DEF FencePauses, EndSide, orderVars
<1>2. HouseTypes /\ hot \in HotState
  BY DEF HouseInv, HouseTypes
<1>3. "read" \in Steps /\ "paused" \in Steps
  BY DEF Steps
<1>4. runner' = [runner EXCEPT ![r] = new] /\ new \in RunnerState
  BY <1>1, <1>2, <1>3, GoesTo
<1>5. new.step = "paused" /\ Holds(r)
  BY <1>1 DEF Holds, At
<1> HIDE DEF new
<1>6. /\ runner' \in [Runners -> RunnerState] /\ runner'[r] = new
      /\ \A q \in Runners : q # r => runner'[q] = runner[q]
  BY <1>2, <1>4, RunnerMoves
<1>7. hot' \in HotState /\ hot'.kind = hot.kind /\ hot'.bid = hot.bid /\ hot'.paused /\ hot'.status = hot.status
  BY <1>1, <1>2 DEF HotState
<1>8. HotCloses
  BY <1>1, <1>2, <1>7 DEF HotCloses, HouseTypes
<1>9. HouseTypes'
  BY <1>1, <1>2, <1>6, <1>8, ClosingTypes DEF HouseTypes
<1>10. \A q \in Runners : q # r => ~Holds(q)'
  BY <1>5, <1>6 DEF HouseInv, RowIsLocked, Holds
<1>11. pg.status = "ACTIVE"
  BY <1>5 DEF HouseInv, RowIsLocked
<1>12. ASSUME NEW q \in Runners PROVE RowIsLocked(q)'
  BY <1>1, <1>5, <1>6, <1>7, <1>10, <1>11 DEF RowIsLocked
<1> QED
  BY <1>8, <1>9, <1>12, ClosingKeeps DEF HouseInv

\* A fence that refuses lets go, on an auction that is still active.
LEMMA FenceRefusesInv ==
  ASSUME HouseInv, NEW r \in Runners, FenceRefuses(r)
  PROVE  HouseInv'
<1>1. /\ At(r, "END_AUCTION", "paused") /\ Return(r)
      /\ UNCHANGED <<clock, order, log, relayed, settled, loaded, host, excused>>
      /\ hot' = hot \/ hot' = [hot EXCEPT !.paused = FALSE]
      /\ pg' = pg \/ pg' = [pg EXCEPT !.end = seen.end]
  BY DEF FenceRefuses, EndSide, orderVars
<1>2. HouseTypes /\ hot \in HotState /\ pg \in PgRow /\ seen.end \in Nat
  BY DEF HouseInv, HouseTypes, HotState
<1>3. Holds(r)
  BY <1>1 DEF Holds, At
<1>4. pg.status = "ACTIVE" /\ \A q \in Runners : Holds(q) => q = r
  BY <1>3 DEF HouseInv, RowIsLocked
<1>5. /\ runner' \in [Runners -> RunnerState] /\ seen' \in HotState
      /\ \A q \in Runners : ~Holds(q)'
  BY <1>1, <1>2, <1>4, LetsGo, RunnerStates, NoHotTyped DEF Return
<1>6. hot' \in HotState /\ hot'.kind = hot.kind /\ hot'.bid = hot.bid /\ hot'.status = hot.status
  BY <1>1, <1>2 DEF HotState
<1>7. /\ pg' \in PgRow /\ pg'.status = pg.status /\ pg'.bid = pg.bid /\ pg'.ends = pg.ends
      /\ pg'.narrating = pg.narrating
  BY <1>1, <1>2 DEF PgRow
<1>8. HouseTypes'
  BY <1>1, <1>2, <1>5, <1>6, <1>7 DEF HouseTypes
<1>9. NothingYet'
  BY <1>4, <1>7 DEF NothingYet, Drafted
<1>10. BidsAreNumbered' /\ SaleIsLastBid'
  BY <1>1, <1>6, <1>7 DEF HouseInv, BidsAreNumbered, SaleIsLastBid
<1>11. SaleStands'
  BY <1>1, <1>4, <1>7 DEF HouseInv, SaleStands
<1>12. EventsAreStatus' /\ NarratingStops'
  BY <1>1, <1>4, <1>7 DEF HouseInv, EventsAreStatus, NarratingStops, Reopened, Terminal
<1>13. \A q \in Runners : RowIsLocked(q)'
  BY <1>5 DEF RowIsLocked
<1> QED
  BY <1>8, <1>9, <1>10, <1>11, <1>12, <1>13 DEF HouseInv

\* The number of the bid tells that the row has every bid the hot state has.
LEMMA FenceVerifiesInv ==
  ASSUME HouseInv, NEW r \in Runners, FenceVerifies(r)
  PROVE  HouseInv'
<1> DEFINE new == [job |-> "END_AUCTION", step |-> "verified"]
<1>1. /\ At(r, "END_AUCTION", "paused") /\ GoTo(r, "verified")
      /\ seen.bid = pg.bid
      /\ excused' = IF hot.bid # seen.bid THEN TRUE ELSE excused
      /\ UNCHANGED <<clock, order, pg, hot, seen, log, relayed, settled, loaded, host>>
  BY DEF FenceVerifies, Disagrees, EndSide, orderVars
<1>2. /\ HouseTypes /\ hot \in HotState /\ pg.bid \in Nat /\ settled \in Nat
      /\ log \in Seq(BidRow) /\ Len(log) \in Nat
  BY DEF HouseInv, HouseTypes, PgRow
<1>3. "paused" \in Steps /\ "verified" \in Steps
  BY DEF Steps
<1>4. runner' = [runner EXCEPT ![r] = new] /\ new \in RunnerState
  BY <1>1, <1>2, <1>3, GoesTo
<1>5. new.step = "verified" /\ Holds(r) /\ runner[r].step = "paused"
  BY <1>1 DEF Holds, At
<1> HIDE DEF new
<1>6. /\ runner' \in [Runners -> RunnerState] /\ runner'[r] = new
      /\ \A q \in Runners : q # r => runner'[q] = runner[q]
  BY <1>2, <1>4, RunnerMoves
<1>7. excused => excused'
  BY <1>1
<1>8. pg.status = "ACTIVE" /\ (~excused => hot.paused)
  BY <1>5 DEF HouseInv, RowIsLocked
<1>9. \A q \in Runners : q # r => ~Holds(q)'
  BY <1>5, <1>6 DEF HouseInv, RowIsLocked, Holds
<1>10. ASSUME ~excused' PROVE AllSettled
  <2>1. hot.bid = pg.bid /\ hot.paused
    BY <1>1, <1>7, <1>8, <1>10
  <2>2. hot.kind = "full"
    BY <1>2, <2>1 DEF HouseInv, BidsAreNumbered
  <2>3. settled = Len(log)
    BY <1>2, <2>1, <2>2 DEF HouseInv, BidsAreNumbered
  <2> QED
    BY <2>1, <2>3 DEF AllSettled, HotClosed
<1>11. AllSettled => AllSettled'
  BY <1>1 DEF AllSettled, HotClosed
<1>12. HouseTypes'
  BY <1>1, <1>2, <1>6 DEF HouseTypes
<1>13. NothingYet' /\ BidsAreNumbered' /\ SaleIsLastBid'
  BY <1>1 DEF HouseInv, NothingYet, Drafted, BidsAreNumbered, SaleIsLastBid
<1>14. SaleStands'
  BY <1>1, <1>7, <1>11 DEF HouseInv, SaleStands
<1>15. EventsAreStatus' /\ NarratingStops'
  BY <1>1, <1>7 DEF HouseInv, EventsAreStatus, NarratingStops, Reopened
<1>16. ASSUME NEW q \in Runners PROVE RowIsLocked(q)'
  BY <1>1, <1>5, <1>6, <1>8, <1>9, <1>10, <1>11 DEF RowIsLocked
<1> QED
  BY <1>12, <1>13, <1>14, <1>15, <1>16 DEF HouseInv

\* The fence of the end fails, and its runner gives up.
LEMMA FenceErrsInv ==
  ASSUME HouseInv, NEW r \in Runners, FenceErrs(r)
  PROVE  HouseInv'
<1>1. /\ Return(r)
      /\ UNCHANGED <<clock, order, pg, hot, log, relayed, settled, loaded, host, excused>>
  BY DEF FenceErrs, orderVars
<1>2. HouseTypes
  BY DEF HouseInv
<1>3. LockKept /\ runner' \in [Runners -> RunnerState] /\ seen' \in HotState
  BY <1>1, <1>2, LetsGo, RunnerStates, NoHotTyped DEF Return
<1> QED
  BY <1>1, <1>2, <1>3, IdleStepInv DEF HouseTypes

\* What was verified is what the order is for.
LEMMA EndCommitsInv ==
  ASSUME HouseInv, NEW r \in Runners, EndCommits(r)
  PROVE  HouseInv'
<1> DEFINE sold == pg.bid > 0
           end == IF sold THEN "SOLD" ELSE "ENDED"
           ends == Append(pg.ends, end)
           to == IF sold THEN "sold" ELSE "ended"
           new == [job |-> "END_AUCTION", step |-> to]
<1>1. /\ At(r, "END_AUCTION", "verified")
      /\ GoTo(r, to)
      /\ pg' = [pg EXCEPT !.status = end, !.narrating = FALSE, !.ends = ends]
      /\ order' = IF sold THEN Sold(pg.bid, "scheduler") ELSE order
      /\ seen' = NoHot
      /\ UNCHANGED <<clock, hot, log, relayed, settled, loaded, host, excused>>
  BY DEF EndCommits, EndSide
<1>2. /\ HouseTypes /\ pg \in PgRow /\ pg.ends \in Seq(Terminal) /\ pg.bid \in Nat
      /\ order.status \in OrderStates /\ order.bid \in Nat
  BY DEF HouseInv, HouseTypes, PgRow
<1>3. /\ to \in {"sold", "ended"} /\ to \in Steps /\ "verified" \in Steps
      /\ end \in {"SOLD", "ENDED"} /\ end \in Terminal /\ (end = "SOLD" <=> sold)
  BY DEF Steps, Terminal
<1> HIDE DEF end, to
<1>4. ends \in Seq(Terminal) /\ (pg.ends = <<>> => ends = <<end>>)
  <2>1. ends \in Seq(Terminal)
    BY <1>2, <1>3
  <2>2. Append(<<>>, end) = <<end>>
    OBVIOUS
  <2> QED
    BY <2>1, <2>2
<1>5. /\ Len(ends) = Len(pg.ends) + 1
      /\ \A i \in DOMAIN pg.ends : i \in DOMAIN ends /\ ends[i] = pg.ends[i] /\ i < Len(ends)
  BY <1>2, <1>3
<1> HIDE DEF ends
<1>6. runner' = [runner EXCEPT ![r] = new] /\ new \in RunnerState
  BY <1>1, <1>2, <1>3, GoesTo
<1>7. new.step = to /\ Holds(r) /\ runner[r].step = "verified"
  BY <1>1 DEF Holds, At
<1> HIDE DEF new
<1>8. runner' \in [Runners -> RunnerState] /\ ~Holds(r)' /\ \A q \in Runners : q # r => (Holds(q)' <=> Holds(q))
  BY <1>2, <1>3, <1>6, <1>7, LetsGo
<1>9. /\ pg.status = "ACTIVE" /\ (~excused => AllSettled)
      /\ \A q \in Runners : Holds(q) => q = r
  BY <1>7 DEF HouseInv, RowIsLocked
<1>10. \A q \in Runners : RowIsLocked(q)'
  BY <1>8, <1>9 DEF RowIsLocked
<1>11. /\ pg' \in PgRow /\ pg'.status = end /\ pg'.bid = pg.bid /\ pg'.ends = ends /\ pg'.narrating = FALSE
  BY <1>1, <1>2, <1>3, <1>4 DEF PgRow, Statuses
<1>12. /\ order'.status \in OrderStates /\ order'.bid \in Nat
       /\ ~sold => order' = order
       /\ sold /\ order.status = "none" => order'.status = "ORDER_PENDING" /\ order'.bid = pg.bid
  BY <1>1, <1>2 DEF Sold, OrderStates
<1>13. HouseTypes'
  BY <1>1, <1>2, <1>8, <1>11, <1>12, NoHotTyped DEF HouseTypes
<1>14. NothingYet' /\ NarratingStops'
  BY <1>3, <1>11 DEF NothingYet, Drafted, NarratingStops
<1>15. BidsAreNumbered' /\ SaleIsLastBid'
  BY <1>1, <1>11 DEF HouseInv, BidsAreNumbered, SaleIsLastBid
<1>16. AllSettled => AllSettled'
  BY <1>1 DEF AllSettled, HotClosed
<1>17. ~excused => order.status = "none"
  BY <1>9 DEF HouseInv, SaleStands
<1>18. SaleStands'
  BY <1>1, <1>3, <1>9, <1>11, <1>12, <1>16, <1>17 DEF SaleStands, OrderStates
<1>19. EventsAreStatus'
  <2>1. ASSUME Reopened PROVE Reopened'
    BY <2>1, <1>3, <1>5, <1>11 DEF Reopened
  <2>2. ~excused /\ ~Reopened => pg.ends = <<>>
    BY <1>9 DEF HouseInv, EventsAreStatus, Terminal
  <2> QED
    BY <1>1, <1>3, <1>4, <1>11, <2>1, <2>2 DEF EventsAreStatus
<1> QED
  BY <1>10, <1>13, <1>14, <1>15, <1>18, <1>19 DEF HouseInv

\* The fence of the end closes the hot state.
LEMMA EndFencesInv ==
  ASSUME HouseInv, NEW r \in Runners, EndFences(r)
  PROVE  HouseInv'
<1>1. /\ Fence("SOLD") \/ Fence("ENDED")
      /\ Return(r)
      /\ UNCHANGED <<clock, order, pg, log, relayed, settled, loaded, host, excused>>
  BY DEF EndFences, EndSide, orderVars
<1>2. HouseTypes /\ hot \in HotState
  BY DEF HouseInv, HouseTypes
<1>3. "SOLD" \in Terminal /\ "ENDED" \in Terminal
  BY DEF Terminal
<1>4. HotCloses
  BY <1>1, <1>2, <1>3, FenceCloses DEF HotCloses, HouseTypes
<1>5. LockKept /\ runner' \in [Runners -> RunnerState] /\ seen' \in HotState
  BY <1>1, <1>2, LetsGo, RunnerStates, NoHotTyped DEF Return
<1> QED
  BY <1>1, <1>2, <1>4, <1>5, ClosingInv DEF HouseTypes

-----------------------------------------------------------------------------
(* The auction: theorems *)

\* Before the auction is created all is empty.
LEMMA HouseInitInv == Init => HouseInv
<1> SUFFICES ASSUME Init PROVE HouseInv
  OBVIOUS
<1>1. /\ clock = 0 /\ runner = [r \in Runners |-> Idle] /\ order = NoOrder
      /\ pg = [status |-> "none", bid |-> 0, end |-> 0, narrating |-> FALSE, ends |-> <<>>]
      /\ hot = NoHot /\ log = <<>> /\ relayed = 0 /\ settled = 0 /\ seen = NoHot
      /\ loaded = NoSnapshot /\ host = NoHost /\ excused = FALSE
  BY DEF Init, OrdersInit, SchedulerInit
<1>2. HouseTypes
  <2>1. pg \in PgRow
    BY <1>1 DEF PgRow, Statuses
  <2>2. loaded \in Snapshots /\ host \in [todo : {"none", "fence", "sync"}, end : Nat]
    BY <1>1 DEF NoSnapshot, Snapshots, Statuses, NoHost
  <2>3. order.status \in OrderStates /\ order.bid \in Nat
    BY <1>1 DEF NoOrder, OrderStates
  <2>4. log \in Seq(BidRow) /\ Len(log) = 0
    BY <1>1
  <2>5. relayed \in Nat /\ settled \in Nat /\ settled <= relayed /\ relayed <= Len(log)
    BY <1>1, <2>4
  <2>6. runner \in [Runners -> RunnerState] /\ clock \in Nat
    BY <1>1, RunnerStates
  <2>7. hot \in HotState /\ seen \in HotState /\ excused \in BOOLEAN
    BY <1>1, NoHotTyped
  <2> QED
    BY <2>1, <2>2, <2>3, <2>4, <2>5, <2>6, <2>7 DEF HouseTypes
<1>3. NothingYet
  BY <1>1 DEF NothingYet, NoOrder, NoHot, NoHost
<1>4. BidsAreNumbered /\ SaleIsLastBid
  <2>1. DOMAIN log = {}
    BY <1>1
  <2>2. settled <= pg.bid
    BY <1>1
  <2>3. hot.kind = "absent" /\ hot.bid = -1 /\ loaded = NoSnapshot
    BY <1>1 DEF NoHot
  <2> QED
    BY <1>1, <2>1, <2>2, <2>3 DEF BidsAreNumbered, SaleIsLastBid
<1>5. SaleStands /\ EventsAreStatus /\ NarratingStops
  BY <1>1 DEF SaleStands, EventsAreStatus, NarratingStops, NoOrder, Terminal
<1>6. \A r \in Runners : RowIsLocked(r)
  BY <1>1, RunnerStates DEF RowIsLocked, Holds
<1> QED
  BY <1>2, <1>3, <1>4, <1>5, <1>6 DEF HouseInv

\* The invariant is inductive.
LEMMA HouseNextInv == HouseInv /\ [Next]_vars => HouseInv'
<1> SUFFICES ASSUME HouseInv, [Next]_vars PROVE HouseInv'
  OBVIOUS
<1>1. CASE SchedulerNext /\ SchedulerStep
  BY <1>1, SchedulerInv
<1>2. ASSUME NEW r \in Runners, ProcessExpireOrder(r), UNCHANGED houseVars PROVE HouseInv'
  BY <1>2, ExpireInv
<1>3. CASE HostNext
  BY <1>3, CreateInv, TransitionInv, CancelInv, CancelFencesInv, StartInv, ShortenInv, SyncInv,
     HostCallBreaksInv, NarrateInv DEF HostNext
<1>4. CASE EngineNext
  BY <1>4, ColdLoadInv, ColdSeedInv, PlaceBidInv, RelayDecisionInv, SettleInv,
     ReconcileTerminalInv DEF EngineNext
<1>5. ASSUME NEW r \in Runners, EndNext(r) \/ FenceErrs(r) PROVE HouseInv'
  BY <1>5, EndReadsInv, FencePausesInv, FenceRefusesInv, FenceVerifiesInv, EndCommitsInv,
     EndFencesInv, FenceErrsInv DEF EndNext
<1>6. CASE UNCHANGED vars
  <2>1. /\ UNCHANGED <<clock, runner, seen, pg, hot, log, relayed, settled, loaded, host, excused, order>>
    BY <1>6 DEF vars, houseVars, schedulerVars, orderVars
  <2>2. LockKept
    BY <2>1 DEF LockKept, Holds
  <2> QED
    BY <2>1, <2>2, IdleStepInv DEF HouseInv, HouseTypes
<1> QED
  BY <1>1, <1>2, <1>3, <1>4, <1>5, <1>6 DEF Next

\* In every reachable state a sale or an end is the end of the bids, unless a
\* fence was passed by.
THEOREM HouseInvariant == Spec => []HouseInv
<1> QED
  BY HouseInitInv, HouseNextInv, PTL DEF Spec

\* The three ways past the scheduler's fence: a bid taken between what the fence
\* read and its check; a seed from a snapshot while the auction is ended or ends;
\* a pause that the host's shortening lifts then.
PassesFence ==
  \/ \E r \in Runners : At(r, "END_AUCTION", "paused") /\ hot.bid # seen.bid
  \/ hot.kind = "absent" /\ hot'.kind = "full" /\ (Locked \/ pg.status # "ACTIVE")
  \/ host.todo = "sync" /\ host'.todo = "none" /\ (Locked \/ pg.status # "ACTIVE")

\* A decision is settled into an auction that the host has cancelled.
SettlesCancelled == pg.status = "CANCELLED" /\ settled' = settled + 1

\* What the properties below except comes from nothing else.
OnlyExceptions ==
  /\ ~excused /\ excused' => PassesFence
  /\ ~Reopened /\ Reopened' => SettlesCancelled

\* No event of the auction is a cancellation.
NoneCancelled == \A i \in DOMAIN pg.ends : pg.ends[i] # "CANCELLED"

\* An auction that is neither cancelled nor reopened never was cancelled.
LEMMA NeverCancelled ==
  /\ pg.status # "CANCELLED" /\ ~Reopened => NoneCancelled
  /\ NoneCancelled => ~Reopened
BY DEF Reopened, NoneCancelled

\* The row after an end that is no cancellation.
LEMMA EndsOtherwise ==
  ASSUME HouseInv, pg.status # "CANCELLED", ~Reopened, NEW end \in {"SOLD", "ENDED"},
         pg'.ends = Append(pg.ends, end) \/ pg'.ends = pg.ends
  PROVE  ~Reopened'
<1>1. NoneCancelled /\ pg.ends \in Seq(Terminal)
  BY NeverCancelled DEF HouseInv, HouseTypes, PgRow
<1>2. NoneCancelled'
  <2>1. CASE pg'.ends = pg.ends
    BY <1>1, <2>1 DEF NoneCancelled
  <2>2. CASE pg'.ends = Append(pg.ends, end)
    BY <1>1, <2>2 DEF NoneCancelled
  <2> QED
    BY <2>1, <2>2
<1> QED
  BY <1>2 DEF Reopened, NoneCancelled

\* Every step but a settlement keeps an auction from being reopened.
LEMMA ReopenedNext ==
  ASSUME HouseInv, [Next]_vars, ~Reopened, Reopened'
  PROVE  SettlesCancelled
<1>1. pg \in PgRow
  BY DEF HouseInv, HouseTypes
<1>2. ASSUME pg'.status = pg.status, pg'.ends = pg.ends PROVE FALSE
  BY <1>2 DEF Reopened
<1>3. ASSUME UNCHANGED pg PROVE FALSE
  BY <1>2, <1>3
<1>4. CASE SchedulerNext /\ SchedulerStep
  BY <1>3, <1>4 DEF SchedulerStep
<1>5. CASE UNCHANGED houseVars
  BY <1>3, <1>5 DEF houseVars
<1>6. CASE HostNext
  <2>1. CASE CreateAuction \/ Schedule \/ Unschedule
    <3>1. /\ Drafted /\ UNCHANGED settled
          /\ \E to : pg' = [pg EXCEPT !.status = to]
      BY <2>1 DEF CreateAuction, Schedule, Unschedule, Transition, Drafted, HotSide
    <3>2. pg'.ends = <<>>
      BY <1>1, <3>1 DEF HouseInv, NothingYet, PgRow
    <3> QED
      BY <3>2 DEF Reopened
  <2>2. ASSUME NEW auto, Start(auto) PROVE FALSE
    <3>1. pg.status = "SCHEDULED"
      BY <2>2 DEF Start
    <3>2. pg'.ends = Append(pg.ends, "SOLD") \/ pg'.ends = pg.ends
      BY <1>1, <2>2 DEF Start, PgRow
    <3> QED
      BY <3>1, <3>2, EndsOtherwise
  <2>3. CASE Cancel
    <3>1. /\ pg.status # "CANCELLED"
          /\ pg'.status = "CANCELLED" /\ pg'.ends = Append(pg.ends, "CANCELLED")
      BY <1>1, <2>3 DEF Cancel, Terminal, PgRow
    <3>2. NoneCancelled /\ pg.ends \in Seq(Terminal)
      BY <1>1, <3>1, NeverCancelled DEF PgRow
    <3> QED
      BY <3>1, <3>2 DEF Reopened, NoneCancelled
  <2>4. ASSUME NEW end, ShortenActiveAuction(end) PROVE FALSE
    <3>1. pg' = [pg EXCEPT !.end = end]
      BY <2>4 DEF ShortenActiveAuction
    <3> QED
      BY <1>1, <1>2, <3>1 DEF PgRow
  <2>5. CASE CancelFences \/ SyncDemoShortened \/ HostCallBreaks
    BY <1>3, <2>5 DEF CancelFences, SyncDemoShortened, HostCallBreaks
  <2>6. CASE NarrateStart \/ NarrateStop
    <3>1. PICK on : pg' = [pg EXCEPT !.narrating = on]
      BY <2>6 DEF NarrateStart, NarrateStop, Narrate
    <3> QED
      BY <1>1, <1>2, <3>1 DEF PgRow
  <2> QED
    BY <1>6, <2>1, <2>2, <2>3, <2>4, <2>5, <2>6 DEF HostNext
<1>7. CASE EngineNext
  <2>1. CASE PlaceBid
    <3>1. PICK now, sold, extended : Bid(now, sold, extended)
      BY <2>1 DEF PlaceBid
    <3> QED
      BY <1>3, <3>1 DEF Bid, ColdSide
  <2>2. CASE SettleAccepted
    <3>1. settled' = settled + 1
      BY <2>2 DEF SettleAccepted
    <3>2. pg'.ends = Append(pg.ends, "SOLD") \/ pg'.ends = pg.ends
      BY <1>1, <2>2 DEF SettleAccepted, PgRow
    <3>3. pg.status = "CANCELLED"
      BY <3>2, EndsOtherwise
    <3> QED
      BY <3>1, <3>3 DEF SettlesCancelled
  <2>3. CASE ColdLoad \/ ColdSeed \/ RelayDecision \/ ReconcileTerminal
    BY <1>3, <2>3 DEF ColdLoad, ColdSeed, RelayDecision, ReconcileTerminal, ColdSide
  <2> QED
    BY <1>7, <2>1, <2>2, <2>3 DEF EngineNext
<1>8. ASSUME NEW r \in Runners, EndNext(r) \/ FenceErrs(r) PROVE FALSE
  <2>1. CASE EndReads(r) \/ FencePauses(r) \/ FenceVerifies(r) \/ EndFences(r) \/ FenceErrs(r)
    BY <1>3, <2>1 DEF EndReads, FencePauses, FenceVerifies, EndFences, FenceErrs
  <2>2. CASE FenceRefuses(r)
    <3>1. UNCHANGED pg \/ pg' = [pg EXCEPT !.end = seen.end]
      BY <2>2 DEF FenceRefuses
    <3> QED
      BY <1>1, <1>2, <1>3, <3>1 DEF PgRow
  <2>3. CASE EndCommits(r)
    <3>1. pg.status = "ACTIVE"
      BY <2>3 DEF EndCommits, At, HouseInv, RowIsLocked, Holds
    <3> DEFINE end == IF pg.bid > 0 THEN "SOLD" ELSE "ENDED"
    <3>2. pg'.ends = Append(pg.ends, end) /\ end \in {"SOLD", "ENDED"}
      BY <1>1, <2>3 DEF EndCommits, PgRow
    <3> HIDE DEF end
    <3> QED
      BY <3>1, <3>2, EndsOtherwise
  <2> QED
    BY <1>8, <2>1, <2>2, <2>3 DEF EndNext
<1>9. CASE UNCHANGED vars
  BY <1>5, <1>9 DEF vars
<1> QED
  BY <1>4, <1>5, <1>6, <1>7, <1>8, <1>9 DEF Next

\* Every step but the three ways leaves the fence as it is.
LEMMA ExcusedNext ==
  ASSUME HouseInv, [Next]_vars, ~excused, excused'
  PROVE  PassesFence
<1>1. CASE SchedulerNext /\ SchedulerStep
  BY <1>1 DEF SchedulerStep
<1>2. CASE UNCHANGED houseVars
  BY <1>2 DEF houseVars
<1>3. CASE HostNext
  <2>1. CASE SyncDemoShortened
    BY <2>1 DEF SyncDemoShortened, NoHost, PassesFence
  <2>2. ASSUME NEW auto, Start(auto) PROVE FALSE
    BY <2>2 DEF Start, HotSide
  <2>3. ASSUME NEW end, ShortenActiveAuction(end) PROVE FALSE
    BY <2>3 DEF ShortenActiveAuction, HotSide
  <2>4. CASE CreateAuction \/ Schedule \/ Unschedule \/ Cancel \/ CancelFences
    BY <2>4 DEF CreateAuction, Schedule, Unschedule, Transition, Cancel, CancelFences, HotSide
  <2>5. CASE HostCallBreaks \/ NarrateStart \/ NarrateStop
    BY <2>5 DEF HostCallBreaks, NarrateStart, NarrateStop, Narrate, HotSide
  <2> QED
    BY <1>3, <2>1, <2>2, <2>3, <2>4, <2>5 DEF HostNext
<1>4. CASE EngineNext
  <2>1. CASE ColdSeed
    <3>1. hot.kind = "absent"
      BY <2>1 DEF ColdSeed
    <3>2. excused' = (IF Locked \/ pg.status # "ACTIVE" THEN TRUE ELSE excused)
      BY <2>1, <3>1, Zenon DEF ColdSeed
    <3>3. Locked \/ pg.status # "ACTIVE"
      BY <3>2, Zenon
    <3>4. hot'.kind = "full"
      BY <2>1, <3>1 DEF ColdSeed
    <3> QED
      BY <3>1, <3>3, <3>4 DEF PassesFence
  <2>2. CASE PlaceBid
    <3>1. PICK now, sold, extended : Bid(now, sold, extended)
      BY <2>2 DEF PlaceBid
    <3> QED
      BY <3>1 DEF Bid
  <2>3. CASE ColdLoad \/ RelayDecision \/ SettleAccepted \/ ReconcileTerminal
    BY <2>3 DEF ColdLoad, RelayDecision, SettleAccepted, ReconcileTerminal
  <2> QED
    BY <1>4, <2>1, <2>2, <2>3 DEF EngineNext
<1>5. ASSUME NEW r \in Runners, EndNext(r) \/ FenceErrs(r) PROVE PassesFence
  <2>1. CASE FenceVerifies(r)
    BY <2>1 DEF FenceVerifies, PassesFence
  <2>2. CASE EndReads(r) \/ FencePauses(r) \/ FenceRefuses(r)
    BY <2>2 DEF EndReads, FencePauses, FenceRefuses
  <2>3. CASE EndCommits(r) \/ EndFences(r) \/ FenceErrs(r)
    BY <2>3 DEF EndCommits, EndFences, FenceErrs
  <2> QED
    BY <1>5, <2>1, <2>2, <2>3 DEF EndNext
<1>6. CASE UNCHANGED vars
  BY <1>2, <1>6 DEF vars
<1> QED
  BY <1>1, <1>2, <1>3, <1>4, <1>5, <1>6 DEF Next

\* There is no other exception.
LEMMA ExceptionsNext == HouseInv /\ [Next]_vars => OnlyExceptions
BY ReopenedNext, ExcusedNext DEF OnlyExceptions

\* The invariant says who wins.
LEMMA InvHasWinner == ASSUME HouseInv PROVE WinnerIsLast
BY DEF HouseInv, SaleStands, AllSettled, WinnerIsLast, LastBid

\* WinnerIsLast: an order that is not for the last bid the hot engine accepted
\* has one of three causes, and no other step of the host, the engine, the
\* settlement or the scheduler is one: a bid between the fence's read and its
\* check, a seed or a lifted pause while the auction ends (PassesFence).
THEOREM WinnerStaysLast == Spec => []WinnerIsLast /\ [][OnlyExceptions]_vars
<1>1. HouseInv => WinnerIsLast
  BY InvHasWinner
<1> QED
  BY <1>1, ExceptionsNext, HouseInvariant, PTL DEF Spec

\* The invariant is all that the checker asks for.
LEMMA InvSatisfiesChecker == ASSUME HouseInv PROVE CheckerFindsNothing
<1>1. SUFFICES ASSUME ~excused
               PROVE  /\ NonSoldOrderLeak
                      /\ SoldOrderMatchesAuction
                      /\ ~Reopened => SingleTerminalEvent /\ TerminalStatusMatchesEvent
  BY DEF CheckerFindsNothing
<1>2. NonSoldOrderLeak /\ SoldOrderMatchesAuction
  BY <1>1 DEF HouseInv, SaleStands, NonSoldOrderLeak, SoldOrderMatchesAuction
<1>3. ASSUME ~Reopened PROVE SingleTerminalEvent /\ TerminalStatusMatchesEvent
  <2>1. pg.ends = IF pg.status \in Terminal THEN <<pg.status>> ELSE <<>>
    BY <1>1, <1>3 DEF HouseInv, EventsAreStatus
  <2>2. CASE pg.status \in Terminal
    <3>1. pg.ends = <<pg.status>> /\ Len(pg.ends) = 1 /\ pg.ends[1] = pg.status /\ pg.ends # <<>>
      BY <2>1, <2>2
    <3> QED
      BY <2>2, <3>1 DEF SingleTerminalEvent, TerminalStatusMatchesEvent
  <2>3. CASE pg.status \notin Terminal
    BY <2>1, <2>3 DEF SingleTerminalEvent, TerminalStatusMatchesEvent
  <2> QED
    BY <2>2, <2>3
<1> QED
  BY <1>2, <1>3

\* CheckerFindsNothing: what the invariant checker reports of an auction, its
\* events and its order follows a fence passed by in one of the three ways or,
\* for its two checks on the events, a decision settled into an auction that was
\* cancelled; no other interleaving leads there.
THEOREM HouseCheckerStaysQuiet == Spec => []CheckerFindsNothing /\ [][OnlyExceptions]_vars
<1>1. HouseInv => CheckerFindsNothing
  BY InvSatisfiesChecker
<1> QED
  BY <1>1, ExceptionsNext, HouseInvariant, PTL DEF Spec

\* An auction that ended is not the one the host talks about, but for the two
\* sales at the cap price that leave the flag alone.
THEOREM NarratingStaysOff == Spec => []NarratingStops
<1>1. HouseInv => NarratingStops
  BY DEF HouseInv
<1> QED
  BY <1>1, HouseInvariant, PTL

-----------------------------------------------------------------------------
(* The auction with the payments of its order.  AuctionHouse has the order *)
(* sold and expired, Orders has it paid: here every step of the one comes  *)
(* between any two of the other.  That the events of the sale have left    *)
(* the outbox, for which a mock payment waits, is what the payments alone  *)
(* make of it, so a payment may begin sooner here than it does in the code. *)

PaymentNext ==
  \/ Payments /\ UNCHANGED <<schedulerVars, houseVars>>
  \/ \E k \in PayKeys : PayMockBreaks(k) /\ UNCHANGED <<clock, job, runner, houseVars>>

MarketSpec == Init /\ [][Next \/ PaymentNext]_vars

MarketInv == HouseInv /\ OrdersInv

\* A payment leaves the sale alone: nobody pays for an order that is not there.
LEMMA PaymentKeepsSale ==
  ASSUME OrdersInv, Payments \/ \E k \in PayKeys : PayMockBreaks(k)
  PROVE  /\ order'.bid = order.bid /\ order'.by = order.by
         /\ order.status = "none" => order' = order
<1>1. order \in OrderRow /\ PaymentsHaveOrder
  BY DEF OrdersInv, OrdersTypes
<1>2. CASE UNCHANGED order
  BY <1>2
<1>3. ASSUME NEW k \in PayKeys, PayMock(k)
      PROVE  /\ order'.bid = order.bid /\ order'.by = order.by
             /\ order.status = "none" => order' = order
  BY <1>1, <1>3 DEF PayMock, OrderRow
<1>4. ASSUME NEW event, Webhook(event, order), order.status # "none"
      PROVE  /\ order'.bid = order.bid /\ order'.by = order.by
             /\ order.status = "none" => order' = order
  BY <1>1, <1>4 DEF Webhook, OrderRow
<1>5. ASSUME NEW k \in PayKeys, PayMockWebhook(k)
      PROVE  Webhook(k, order) /\ order.status # "none"
  BY <1>1, <1>5 DEF PayMockWebhook, PaymentsHaveOrder
<1>6. ASSUME NEW event, Alipay(event)
      PROVE  Webhook(event, order) /\ order.status # "none"
  BY <1>1, <1>6 DEF Alipay, PaymentsHaveOrder
<1>7. CASE AlipayCreate
  BY <1>1, <1>7 DEF AlipayCreate, MarkAlipayPaymentInitiated, OrderRow
<1>8. ASSUME NEW k \in PayKeys, PayMockCompletes(k) \/ PayMockRepeated(k) \/ PayMockBreaks(k)
      PROVE  UNCHANGED order
  BY <1>8 DEF PayMockCompletes, PayMockRepeated, PayMockBreaks
<1>9. CASE CustomerPays \/ ReconcileProviderPayments \/ OutboxPublishes
  BY <1>2, <1>9 DEF CustomerPays, ReconcileProviderPayments, OutboxPublishes
<1> QED
  BY <1>2, <1>3, <1>4, <1>5, <1>6, <1>7, <1>8, <1>9 DEF Payments, AlipayNotify, QueryAlipayOrder

\* What a payment does to the auction.
LEMMA PaymentNextInv ==
  ASSUME MarketInv, PaymentNext
  PROVE  MarketInv' /\ OrderMoves
<1>1. HouseInv /\ OrdersInv /\ HouseTypes
  BY DEF MarketInv, HouseInv
<1>2. UNCHANGED <<clock, runner, pg, hot, log, relayed, settled, seen, loaded, host, excused>>
  BY DEF PaymentNext, schedulerVars, houseVars
<1>3. Payments \/ \E k \in PayKeys : PayMockBreaks(k)
  BY DEF PaymentNext
<1>4. OrdersInv' /\ OrderMoves
  BY <1>1, <1>2, <1>3, PayMockInv, ProviderInv DEF Payments
<1>5. /\ order'.bid = order.bid /\ order'.by = order.by
      /\ order'.status = "none" <=> order.status = "none"
  BY <1>1, <1>3, <1>4, PaymentKeepsSale, MoveKeeps
<1>6. order'.status \in OrderStates
  BY <1>4 DEF OrderMoves, OrderRow
<1>7. HotCloses
  BY <1>1, <1>2, <1>5, <1>6 DEF HotCloses, HouseTypes
<1>8. LockKept
  BY <1>2 DEF LockKept, Holds
<1>9. HouseInv'
  BY <1>1, <1>2, <1>7, <1>8, ClosingInv DEF HouseTypes
<1> QED
  BY <1>4, <1>9 DEF MarketInv

\* What other steps leave of the payments.
PaymentsLeft ==
  UNCHANGED <<idem, pay, events, anomalies, trade>> /\ published' \in {published, FALSE}

\* The steps of the auction leave the payments alone.
LEMMA HouseLeavesPayments ==
  ASSUME [Next]_vars
  PROVE  PaymentsLeft
<1>1. CASE SchedulerNext /\ SchedulerStep
  BY <1>1 DEF SchedulerStep, orderVars, PaymentsLeft
<1>2. ASSUME NEW r \in Runners, ProcessExpireOrder(r)
      PROVE  PaymentsLeft
  BY <1>2 DEF ProcessExpireOrder, PaymentsLeft
<1>3. CASE HostNext
  <2>1. ASSUME NEW auto, Start(auto) PROVE PaymentsLeft
    BY <2>1 DEF Start, PaymentVars, PaymentsLeft
  <2>2. ASSUME NEW end, ShortenActiveAuction(end) PROVE PaymentsLeft
    BY <2>2 DEF ShortenActiveAuction, orderVars, PaymentsLeft
  <2>3. CASE CreateAuction \/ Schedule \/ Unschedule \/ Cancel \/ CancelFences
    BY <2>3 DEF CreateAuction, Schedule, Unschedule, Transition, Cancel, CancelFences, orderVars, PaymentsLeft
  <2>4. CASE SyncDemoShortened \/ HostCallBreaks \/ NarrateStart \/ NarrateStop
    BY <2>4 DEF SyncDemoShortened, HostCallBreaks, NarrateStart, NarrateStop, Narrate, orderVars, PaymentsLeft
  <2> QED
    BY <1>3, <2>1, <2>2, <2>3, <2>4 DEF HostNext
<1>4. CASE EngineNext
  <2>1. CASE PlaceBid
    <3>1. PICK now, sold, extended : Bid(now, sold, extended)
      BY <2>1 DEF PlaceBid
    <3> QED
      BY <3>1 DEF Bid, orderVars, PaymentsLeft
  <2>2. CASE SettleAccepted
    BY <2>2 DEF SettleAccepted, PaymentVars, PaymentsLeft
  <2>3. CASE ColdLoad \/ ColdSeed \/ RelayDecision \/ ReconcileTerminal
    BY <2>3 DEF ColdLoad, ColdSeed, RelayDecision, ReconcileTerminal, orderVars, PaymentsLeft
  <2> QED
    BY <1>4, <2>1, <2>2, <2>3 DEF EngineNext
<1>5. ASSUME NEW r \in Runners, EndNext(r) \/ FenceErrs(r)
      PROVE  PaymentsLeft
  <2>1. CASE EndCommits(r)
    BY <2>1 DEF EndCommits, PaymentVars, PaymentsLeft
  <2>2. CASE EndReads(r) \/ FencePauses(r) \/ FenceRefuses(r)
    BY <2>2 DEF EndReads, FencePauses, FenceRefuses, orderVars, PaymentsLeft
  <2>3. CASE FenceVerifies(r) \/ EndFences(r) \/ FenceErrs(r)
    BY <2>3 DEF FenceVerifies, EndFences, FenceErrs, orderVars, PaymentsLeft
  <2> QED
    BY <1>5, <2>1, <2>2, <2>3 DEF EndNext
<1>6. CASE UNCHANGED vars
  BY <1>6 DEF vars, orderVars, PaymentsLeft
<1> QED
  BY <1>1, <1>2, <1>3, <1>4, <1>5, <1>6 DEF Next

\* A step of the auction sells the order, expires it, or leaves it.
LEMMA HouseMovesOrder ==
  ASSUME MarketInv, [Next]_vars
  PROVE  OrderMoves
<1>1. OrdersInv /\ HouseTypes /\ order \in OrderRow
  BY DEF MarketInv, HouseInv, OrdersInv, OrdersTypes
<1>2. UNCHANGED order => OrderMoves
  BY <1>1 DEF OrderMoves
<1>3. ASSUME NEW bid \in Nat, NEW by \in {"engine", "scheduler", "start"}, order' = Sold(bid, by)
      PROVE  OrderMoves
  BY <1>1, <1>3, SoldMoves
<1>4. CASE SchedulerNext /\ SchedulerStep
  BY <1>2, <1>4 DEF SchedulerStep, orderVars
<1>5. ASSUME NEW r \in Runners, ProcessExpireOrder(r)
      PROVE  OrderMoves
  BY <1>1, <1>5, ExpireMoves
<1>6. CASE HostNext
  <2>1. ASSUME NEW auto, Start(auto) PROVE OrderMoves
    <3>1. order' = order \/ order' = Sold(1, "start")
      BY <2>1 DEF Start
    <3> QED
      BY <1>2, <1>3, <3>1
  <2>2. ASSUME NEW end, ShortenActiveAuction(end) PROVE UNCHANGED order
    BY <2>2 DEF ShortenActiveAuction, orderVars
  <2>3. CASE CreateAuction \/ Schedule \/ Unschedule \/ Cancel \/ CancelFences
    BY <1>2, <2>3 DEF CreateAuction, Schedule, Unschedule, Transition, Cancel, CancelFences, orderVars
  <2>4. CASE SyncDemoShortened \/ HostCallBreaks \/ NarrateStart \/ NarrateStop
    BY <1>2, <2>4 DEF SyncDemoShortened, HostCallBreaks, NarrateStart, NarrateStop, Narrate, orderVars
  <2> QED
    BY <1>2, <1>6, <2>1, <2>2, <2>3, <2>4 DEF HostNext
<1>7. CASE EngineNext
  <2>1. CASE PlaceBid
    <3>1. PICK now, sold, extended : Bid(now, sold, extended)
      BY <2>1 DEF PlaceBid
    <3> QED
      BY <1>2, <3>1 DEF Bid, orderVars
  <2>2. CASE SettleAccepted
    <3>1. log[settled + 1] \in BidRow
      BY <1>1, <2>2 DEF SettleAccepted, HouseTypes
    <3>2. order' = order \/ order' = Sold(log[settled + 1].bid, "engine")
      BY <2>2 DEF SettleAccepted
    <3> QED
      BY <1>2, <1>3, <3>1, <3>2 DEF BidRow
  <2>3. CASE ColdLoad \/ ColdSeed \/ RelayDecision \/ ReconcileTerminal
    BY <1>2, <2>3 DEF ColdLoad, ColdSeed, RelayDecision, ReconcileTerminal, orderVars
  <2> QED
    BY <1>7, <2>1, <2>2, <2>3 DEF EngineNext
<1>8. ASSUME NEW r \in Runners, EndNext(r) \/ FenceErrs(r)
      PROVE  OrderMoves
  <2>1. CASE EndCommits(r)
    <3>1. order' = order \/ order' = Sold(pg.bid, "scheduler")
      BY <2>1 DEF EndCommits
    <3>2. pg.bid \in Nat
      BY <1>1 DEF HouseTypes, PgRow
    <3> QED
      BY <1>2, <1>3, <3>1, <3>2
  <2>2. CASE EndReads(r) \/ FencePauses(r) \/ FenceRefuses(r)
    BY <1>2, <2>2 DEF EndReads, FencePauses, FenceRefuses, orderVars
  <2>3. CASE FenceVerifies(r) \/ EndFences(r) \/ FenceErrs(r)
    BY <1>2, <2>3 DEF FenceVerifies, EndFences, FenceErrs, orderVars
  <2> QED
    BY <1>8, <2>1, <2>2, <2>3 DEF EndNext
<1>9. CASE UNCHANGED vars
  BY <1>2, <1>9 DEF vars, orderVars
<1> QED
  BY <1>4, <1>5, <1>6, <1>7, <1>8, <1>9 DEF Next

\* Both invariants are kept by every step of the auction and of its payments.
LEMMA MarketNextInv ==
  ASSUME MarketInv, [Next \/ PaymentNext]_vars
  PROVE  MarketInv' /\ OrderMoves
<1>1. CASE PaymentNext
  BY <1>1, PaymentNextInv
<1>2. CASE [Next]_vars
  <2>1. HouseInv'
    BY <1>2, HouseNextInv DEF MarketInv
  <2>2. clock' \in Nat
    BY <2>1 DEF HouseInv, HouseTypes
  <2>3. OrderMoves
    BY <1>2, HouseMovesOrder
  <2>4. OrdersInv'
    BY <1>2, <2>2, <2>3, HouseLeavesPayments, MoveInv DEF MarketInv, PaymentsLeft
  <2> QED
    BY <2>1, <2>3, <2>4 DEF MarketInv
<1> QED
  BY <1>1, <1>2

\* The auction and its payments keep to their invariants together.
THEOREM MarketInvariant == MarketSpec => []MarketInv
<1>1. Init => MarketInv
  BY HouseInitInv, OrdersInitInv DEF Init, MarketInv
<1>2. MarketInv /\ [Next \/ PaymentNext]_vars => MarketInv'
  BY MarketNextInv
<1> QED
  BY <1>1, <1>2, PTL DEF MarketSpec

\* What is in scheduler_jobs.
JobRow == [status : JobStates, runAt : Nat, attempts : Nat, leased : BOOLEAN]

\* The types that the two invariants leave out.
RestTypes == faults \in Nat /\ job \in [Jobs -> JobRow] /\ RecordsTypes

\* The four ways in which a transaction writes a job.
LEMMA JobWritten ==
  ASSUME NEW jobs \in [Jobs -> JobRow], NEW j \in Jobs, NEW at \in Nat
  PROVE  /\ Upsert(jobs, j, at) \in [Jobs -> JobRow]
         /\ Succeed(jobs, j) \in [Jobs -> JobRow]
         /\ Reschedule(jobs, j, at) \in [Jobs -> JobRow]
         /\ Fail(jobs, j) \in [Jobs -> JobRow]
<1>1. jobs[j] \in JobRow
  OBVIOUS
<1>2. ASSUME NEW row \in JobRow PROVE [jobs EXCEPT ![j] = row] \in [Jobs -> JobRow]
  OBVIOUS
<1>3. Upsert(jobs, j, at) \in [Jobs -> JobRow]
  <2>1. [jobs[j] EXCEPT !.runAt = at, !.leased = FALSE,
           !.status = IF @ \in {"SUCCEEDED", "DEAD"} THEN @ ELSE "PENDING"] \in JobRow
    BY <1>1 DEF JobRow, JobStates
  <2> QED
    BY <1>2, <2>1 DEF Upsert
<1>4. Succeed(jobs, j) \in [Jobs -> JobRow]
  <2>1. [jobs[j] EXCEPT !.status = "SUCCEEDED", !.leased = FALSE] \in JobRow
    BY <1>1 DEF JobRow, JobStates
  <2> QED
    BY <1>2, <2>1 DEF Succeed
<1>5. Reschedule(jobs, j, at) \in [Jobs -> JobRow]
  <2>1. [jobs[j] EXCEPT !.status = "PENDING", !.runAt = at, !.leased = FALSE] \in JobRow
    BY <1>1 DEF JobRow, JobStates
  <2> QED
    BY <1>2, <2>1 DEF Reschedule
<1>6. Fail(jobs, j) \in [Jobs -> JobRow]
  <2>1. [jobs[j] EXCEPT !.attempts = @ + 1, !.leased = FALSE,
           !.status = IF jobs[j].attempts + 1 >= MaxAttempts THEN "DEAD" ELSE "FAILED"] \in JobRow
    <3>1. jobs[j].attempts + 1 \in Nat
      BY <1>1 DEF JobRow
    <3>2. ASSUME NEW status \in JobStates, NEW n \in Nat
          PROVE  [jobs[j] EXCEPT !.attempts = n, !.leased = FALSE, !.status = status] \in JobRow
      BY <1>1 DEF JobRow
    <3> QED
      BY <3>1, <3>2 DEF JobStates
  <2> QED
    BY <1>2, <2>1 DEF Fail
<1> QED
  BY <1>3, <1>4, <1>5, <1>6

\* Claims, leases and failures write jobs.
LEMMA SchedulerJobs ==
  ASSUME HouseTypes, faults \in Nat, job \in [Jobs -> JobRow], SchedulerNext
  PROVE  faults' \in Nat /\ job' \in [Jobs -> JobRow]
<1>1. CASE Tick
  BY <1>1 DEF Tick
<1>2. ASSUME NEW r \in Runners, NEW j \in Jobs, Claim(r, j)
      PROVE  faults' \in Nat /\ job' \in [Jobs -> JobRow]
  <2>1. [job[j] EXCEPT !.status = "RUNNING", !.leased = TRUE] \in JobRow
    BY DEF JobRow, JobStates
  <2>2. job' = [job EXCEPT ![j] = [job[j] EXCEPT !.status = "RUNNING", !.leased = TRUE]]
    BY <1>2 DEF Claim
  <2>3. UNCHANGED faults
    BY <1>2 DEF Claim
  <2> QED
    BY <2>1, <2>2, <2>3
<1>3. ASSUME NEW r \in Runners, RunnerFails(r)
      PROVE  faults' \in Nat /\ job' \in [Jobs -> JobRow]
  <2>1. runner[r].job \in Jobs
    BY <1>3 DEF RunnerFails, HouseTypes, RunnerState
  <2>2. job' = Fail(job, runner[r].job) /\ faults' = faults + 1
    BY <1>3 DEF RunnerFails, Fault
  <2> QED
    BY <2>1, <2>2, JobWritten
<1>4. ASSUME NEW r \in Runners, RunnerCrashes(r)
      PROVE  faults' \in Nat /\ job' \in [Jobs -> JobRow]
  BY <1>4 DEF RunnerCrashes, Fault
<1>5. ASSUME NEW j \in Jobs, LeaseExpires(j)
      PROVE  faults' \in Nat /\ job' \in [Jobs -> JobRow]
  <2>1. [job[j] EXCEPT !.leased = FALSE] \in JobRow
    BY DEF JobRow
  <2>2. job' = [job EXCEPT ![j] = [job[j] EXCEPT !.leased = FALSE]]
    BY <1>5 DEF LeaseExpires
  <2>3. UNCHANGED faults
    BY <1>5 DEF LeaseExpires
  <2> QED
    BY <2>1, <2>2, <2>3
<1> QED
  BY <1>1, <1>2, <1>3, <1>4, <1>5 DEF SchedulerNext

\* Every other step writes the end job or the expiry job, for a moment.
LEMMA JobsNext ==
  ASSUME MarketInv, MarketInv', faults \in Nat, job \in [Jobs -> JobRow], [Next \/ PaymentNext]_vars
  PROVE  faults' \in Nat /\ job' \in [Jobs -> JobRow]
<1>1. /\ HouseTypes /\ clock \in Nat /\ pg.end \in Nat /\ seen.end \in Nat
      /\ order.expireAt \in Nat /\ order'.expireAt \in Nat
      /\ "END_AUCTION" \in Jobs /\ "EXPIRE_ORDER" \in Jobs
  <2>1. HouseTypes /\ order \in OrderRow /\ order' \in OrderRow
    BY DEF MarketInv, HouseInv, OrdersInv, OrdersTypes
  <2>2. clock \in Nat /\ pg.end \in Nat /\ seen.end \in Nat
    BY <2>1 DEF HouseTypes, PgRow, HotState
  <2> QED
    BY <2>1, <2>2 DEF OrderRow, Jobs
<1> DEFINE Typed == faults' \in Nat /\ job' \in [Jobs -> JobRow]
<1>2. UNCHANGED <<faults, job>> \/ (Fault /\ UNCHANGED job) => Typed
  BY DEF Fault
<1>3. ASSUME NEW at \in Nat
      PROVE  /\ Upsert(job, "END_AUCTION", at) \in [Jobs -> JobRow]
             /\ Upsert(job, "EXPIRE_ORDER", at) \in [Jobs -> JobRow]
             /\ Reschedule(job, "END_AUCTION", at) \in [Jobs -> JobRow]
             /\ Reschedule(job, "EXPIRE_ORDER", at) \in [Jobs -> JobRow]
             /\ Succeed(job, "END_AUCTION") \in [Jobs -> JobRow]
             /\ Succeed(job, "EXPIRE_ORDER") \in [Jobs -> JobRow]
  BY <1>1, JobWritten
<1>4. CASE SchedulerNext /\ SchedulerStep
  BY <1>1, <1>4, SchedulerJobs
<1>5. ASSUME NEW r \in Runners, ProcessExpireOrder(r) PROVE Typed
  <2>1. UNCHANGED faults
    BY <1>5 DEF ProcessExpireOrder
  <2>2. job' \in {Reschedule(job, "EXPIRE_ORDER", order.expireAt), Succeed(job, "EXPIRE_ORDER")}
    BY <1>5 DEF ProcessExpireOrder
  <2> QED
    BY <1>1, <1>3, <2>1, <2>2
<1>6. CASE HostNext
  <2>1. ASSUME NEW auto, Start(auto) PROVE Typed
    <3> DEFINE end == clock + Duration
               opened == Upsert(job, "END_AUCTION", end)
    <3>1. opened \in [Jobs -> JobRow]
      BY <1>1, <1>3, HouseNumbers
    <3>2. job' = (IF auto = "sold" THEN Upsert(opened, "EXPIRE_ORDER", order'.expireAt) ELSE opened)
      BY <2>1 DEF Start
    <3>3. UNCHANGED faults
      BY <2>1 DEF Start
    <3> HIDE DEF opened
    <3>4. Upsert(opened, "EXPIRE_ORDER", order'.expireAt) \in [Jobs -> JobRow]
      BY <1>1, <3>1, JobWritten
    <3> QED
      BY <3>1, <3>2, <3>3, <3>4
  <2>2. ASSUME NEW end \in 1..MaxEnd, ShortenActiveAuction(end) PROVE Typed
    BY <1>3, <2>2, HouseNumbers DEF ShortenActiveAuction
  <2>3. CASE CreateAuction \/ Schedule \/ Unschedule \/ Cancel \/ CancelFences
    BY <1>2, <2>3 DEF CreateAuction, Schedule, Unschedule, Transition, Cancel, CancelFences, schedulerVars
  <2>4. CASE SyncDemoShortened \/ HostCallBreaks \/ NarrateStart \/ NarrateStop
    BY <1>2, <2>4 DEF SyncDemoShortened, HostCallBreaks, NarrateStart, NarrateStop, Narrate, schedulerVars
  <2> QED
    BY <1>6, <2>1, <2>2, <2>3, <2>4 DEF HostNext
<1>7. CASE EngineNext
  <2>1. CASE PlaceBid
    <3>1. PICK now, sold, extended : Bid(now, sold, extended)
      BY <2>1 DEF PlaceBid
    <3> QED
      BY <1>2, <3>1 DEF Bid, schedulerVars
  <2>2. CASE SettleAccepted
    <3>1. log[settled + 1] \in BidRow
      BY <1>1, <2>2 DEF SettleAccepted, HouseTypes
    <3>2. job' \in {Upsert(job, "END_AUCTION", log[settled + 1].end),
                    Upsert(job, "EXPIRE_ORDER", order'.expireAt), job}
      BY <2>2 DEF SettleAccepted
    <3>3. UNCHANGED faults
      BY <2>2 DEF SettleAccepted
    <3> QED
      BY <1>1, <1>3, <3>1, <3>2, <3>3 DEF BidRow
  <2>3. CASE ColdLoad \/ ColdSeed \/ RelayDecision \/ ReconcileTerminal
    BY <1>2, <2>3 DEF ColdLoad, ColdSeed, RelayDecision, ReconcileTerminal, schedulerVars
  <2> QED
    BY <1>7, <2>1, <2>2, <2>3 DEF EngineNext
<1>8. ASSUME NEW r \in Runners, EndNext(r) \/ FenceErrs(r) PROVE Typed
  <2>1. CASE EndReads(r)
    <3>1. job' \in {Succeed(job, "END_AUCTION"), Reschedule(job, "END_AUCTION", pg.end), job}
      BY <2>1 DEF EndReads
    <3> QED
      BY <1>1, <1>3, <2>1, <3>1 DEF EndReads, EndSide
  <2>2. CASE FenceRefuses(r)
    <3>1. job' \in {Reschedule(job, "END_AUCTION", clock), Reschedule(job, "END_AUCTION", seen.end)}
      BY <2>2 DEF FenceRefuses
    <3> QED
      BY <1>1, <1>3, <2>2, <3>1 DEF FenceRefuses, EndSide
  <2>3. CASE FenceErrs(r)
    BY <1>1, <1>3, <2>3 DEF FenceErrs, Fault
  <2>4. CASE EndCommits(r)
    <3> DEFINE jobs == IF pg.bid > 0 THEN Upsert(job, "EXPIRE_ORDER", order'.expireAt) ELSE job
    <3>1. jobs \in [Jobs -> JobRow]
      BY <1>1, <1>3
    <3>2. job' = Succeed(jobs, "END_AUCTION")
      BY <2>4 DEF EndCommits
    <3>3. UNCHANGED faults
      BY <2>4 DEF EndCommits, EndSide
    <3> HIDE DEF jobs
    <3> QED
      BY <1>1, <3>1, <3>2, <3>3, JobWritten
  <2>5. CASE FencePauses(r) \/ FenceVerifies(r) \/ EndFences(r)
    BY <1>2, <2>5 DEF FencePauses, FenceVerifies, EndFences, EndSide
  <2> QED
    BY <1>8, <2>1, <2>2, <2>3, <2>4, <2>5 DEF EndNext
<1>9. CASE PaymentNext
  BY <1>2, <1>9 DEF PaymentNext, PayMockBreaks, schedulerVars
<1>10. CASE UNCHANGED vars
  BY <1>2, <1>10 DEF vars, schedulerVars
<1> QED
  BY <1>4, <1>5, <1>6, <1>7, <1>8, <1>9, <1>10 DEF Next

\* The jobs and the records of the payments keep their types.
LEMMA RestNext ==
  ASSUME MarketInv, MarketInv', RestTypes, [Next \/ PaymentNext]_vars
  PROVE  RestTypes'
<1>1. faults' \in Nat /\ job' \in [Jobs -> JobRow]
  BY JobsNext DEF RestTypes
<1>2. CASE PaymentNext
  <2>1. OrdersNext
    BY <1>2 DEF PaymentNext, OrdersNext
  <2> QED
    BY <1>1, <2>1, RecordsNext DEF RestTypes
<1>3. CASE [Next]_vars
  <2>1. UNCHANGED <<events, anomalies>> /\ published' \in {published, FALSE}
    BY <1>3, HouseLeavesPayments DEF PaymentsLeft
  <2> QED
    BY <1>1, <2>1 DEF RestTypes, RecordsTypes
<1> QED
  BY <1>2, <1>3

\* AuctionHouseTypeOK: what every variable of the scheduler, of the order and
\* its payments, and of the auction holds.
THEOREM HouseTypesCorrect == MarketSpec => []AuctionHouseTypeOK
<1>1. Init => RestTypes
  BY DEF Init, OrdersInit, SchedulerInit, RestTypes, RecordsTypes, NoJob, JobRow, JobStates
<1>2. MarketInv /\ MarketInv' /\ RestTypes /\ [Next \/ PaymentNext]_vars => RestTypes'
  BY RestNext
<1>3. ASSUME MarketInv, RestTypes PROVE AuctionHouseTypeOK
  <2>1. OrderTypeOK
    <3>1. OrdersTypes /\ RecordsTypes
      BY <1>3 DEF MarketInv, OrdersInv, RestTypes
    <3> QED
      BY <3>1 DEF OrdersTypes, OrderRow, RecordsTypes, OrderTypeOK
  <2>2. HouseTypes
    BY <1>3 DEF MarketInv, HouseInv
  <2>3. /\ clock \in Nat /\ runner \in [Runners -> RunnerState] /\ excused \in BOOLEAN
        /\ pg \in PgRow /\ hot \in HotState /\ seen \in HotState /\ log \in Seq(BidRow)
        /\ 0 <= settled /\ settled <= relayed /\ relayed <= Len(log)
        /\ loaded \in Snapshots /\ host \in [todo : {"none", "fence", "sync"}, end : Nat]
    BY <2>2 DEF HouseTypes
  <2>4. faults \in Nat /\ job \in [Jobs -> JobRow]
    BY <1>3 DEF RestTypes
  <2> QED
    BY <2>1, <2>3, <2>4
       DEF AuctionHouseTypeOK, JobRow, RunnerState, Steps, PgRow, HotState, HotStates, BidRow, Snapshots
<1> QED
  BY <1>1, <1>2, <1>3, MarketInvariant, PTL DEF MarketSpec

\* What the invariants say of the system as a whole, from the draft to the
\* money.  No success is dropped and the deposit follows the order, always; the
\* order goes to the last bid and the checker is quiet but for the exceptions of
\* the two theorems above, and no payment is one.
THEOREM MarketIsSafe ==
  MarketSpec => /\ [](MoneyIsAccounted /\ DepositFollowsOrder)
                /\ [](WinnerIsLast /\ CheckerFindsNothing) /\ [][OnlyExceptions]_vars
<1>1. MarketInv => WinnerIsLast /\ CheckerFindsNothing /\ MoneyIsAccounted /\ DepositFollowsOrder
  BY InvHasWinner, InvSatisfiesChecker DEF MarketInv, OrdersInv
<1>2. MarketInv /\ [Next \/ PaymentNext]_vars => OnlyExceptions
  <2>1. PaymentNext => UNCHANGED <<pg, excused>>
    BY DEF PaymentNext, houseVars
  <2>2. MarketInv /\ PaymentNext => OnlyExceptions
    BY <2>1 DEF OnlyExceptions, Reopened
  <2> QED
    BY <2>2, ExceptionsNext DEF MarketInv
<1> QED
  BY <1>1, <1>2, MarketInvariant, PTL DEF MarketSpec

\* Not even a sale by the scheduler, by a late settlement or by a start that was
\* repeated touches an order that is paid or expired, nor the bid of any order.
THEOREM MarketOrderStaysFinal == MarketSpec => OrderIsFinal
<1>1. MarketInv /\ [Next \/ PaymentNext]_vars =>
        [/\ order.status \in {"PAID", "ORDER_EXPIRED"} => order'.status = order.status
         /\ order.status # "none" => order'.bid = order.bid]_order
  BY MarketNextInv, MoveKeeps DEF MarketInv, Closed
<1> QED
  BY <1>1, MarketInvariant, PTL DEF MarketSpec, OrderIsFinal

-----------------------------------------------------------------------------
(* The auction's cursors keep the pipeline's promise.  AuctionHouse stands *)
(* for Redis, Kafka and the settlement with a log and two cursors on it;   *)
(* DecisionPipelineProofs shows that the pipeline has these cursors        *)
(* (RowsFollowStream) and that it is a SettledLedger: so is the auction.   *)

\* The decision that the engine took as its nth.
DecisionOf(bids, n) == [seq |-> n, kind |-> IF bids[n].sold THEN "sold" ELSE "accepted"]

Decided == [n \in 1..Len(log) |-> DecisionOf(log, n)]
SettledOnes == [n \in 1..settled |-> DecisionOf(log, n)]
Announced == [n \in 1..settled |-> n]

\* The acknowledgements to the bidders are LedgerRelay's alone.
Ledger == INSTANCE SettledLedger WITH
  Decisions <- [seq : Nat, kind : {"accepted", "sold"}],
  decided <- Decided,
  durable <- 1..relayed,
  told <- {},
  settled <- SettledOnes,
  announced <- Announced

\* A bid is decided.
LEMMA BidDecides ==
  ASSUME HouseInv, PlaceBid
  PROVE  Ledger!Decide
<1>1. PICK now, sold, extended : Bid(now, sold, extended)
  BY DEF PlaceBid
<1>2. PICK b : log' = Append(log, b)
  BY <1>1 DEF Bid
<1>3. UNCHANGED <<relayed, settled>>
  BY <1>1 DEF Bid, ColdSide
<1>4. /\ log \in Seq(BidRow) /\ Len(log) \in Nat /\ settled \in Nat /\ settled <= Len(log)
  BY DEF HouseInv, HouseTypes
<1>5. /\ Len(log') = Len(log) + 1 /\ \A n \in 1..Len(log) : log'[n] = log[n]
      /\ log'[Len(log) + 1] = b
  BY <1>2, <1>4
<1> DEFINE old == [n \in 1..Len(log) |-> DecisionOf(log, n)]
           new == [n \in 1..Len(log') |-> DecisionOf(log', n)]
           d == DecisionOf(log', Len(log) + 1)
<1>6. d \in [seq : Nat, kind : {"accepted", "sold"}]
  BY <1>4 DEF DecisionOf
<1>7. \A n \in 1..Len(log) : DecisionOf(log', n) = DecisionOf(log, n)
  BY <1>5 DEF DecisionOf
<1>8. new = Append(old, d)
  <2> HIDE DEF d
  <2>1. old \in Seq({DecisionOf(log, n) : n \in 1..Len(log)})
    BY <1>4
  <2>2. Len(old) = Len(log)
    BY <1>4
  <2>3. Append(old, d) = [n \in 1..(Len(log) + 1) |-> IF n <= Len(log) THEN old[n] ELSE d]
    BY <1>4, <2>1, <2>2
  <2>4. ASSUME NEW n \in 1..(Len(log) + 1)
        PROVE  DecisionOf(log', n) = IF n <= Len(log) THEN old[n] ELSE d
    BY <1>4, <1>7 DEF d
  <2> QED
    BY <1>5, <2>3, <2>4
<1>9. UNCHANGED SettledOnes
  BY <1>3, <1>4, <1>7 DEF SettledOnes
<1>10. Decided' = new /\ Decided = old
  BY DEF Decided
<1> HIDE DEF old, new, d
<1>11. PICK e \in [seq : Nat, kind : {"accepted", "sold"}] : Decided' = Append(Decided, e)
  BY <1>6, <1>8, <1>10
<1>12. UNCHANGED Announced
  BY <1>3 DEF Announced
<1> QED
  BY <1>3, <1>9, <1>11, <1>12 DEF Ledger!Decide

\* The end of a sequence, from its last element on.
LEMMA OneAtEnd ==
  ASSUME NEW T, NEW s \in Seq(T), NEW n \in Nat, Len(s) = n + 1
  PROVE  SubSeq(s, n + 1, n + 1) = <<s[n + 1]>>
<1> DEFINE v == SubSeq(s, n + 1, n + 1)
           one == <<s[n + 1]>>
<1>1. n + 1 \in 1..(Len(s) + 1) /\ n + 1 \in (n + 1 - 1)..Len(s)
  OBVIOUS
<1>2. v \in Seq(T) /\ Len(v) = 1 /\ v[1] = s[n + 1]
  <2>1. v \in Seq(T) /\ Len(v) = (n + 1) - (n + 1) + 1 /\ \A i \in 1..Len(v) : v[i] = s[(n + 1) + i - 1]
    BY <1>1, SubSeqProperties
  <2> HIDE DEF v
  <2> QED
    BY <2>1
<1> HIDE DEF v
<1>3. one \in Seq(T) /\ Len(one) = 1 /\ one[1] = s[n + 1]
  OBVIOUS
<1> HIDE DEF one
<1>4. v = one
  BY <1>2, <1>3, SeqEqual
<1> QED
  BY <1>4 DEF v, one

\* A settled decision is the next of the ledger, and durable.
LEMMA SettledNext ==
  ASSUME HouseInv, SettleAccepted
  PROVE  Ledger!SettleSome
<1>1. settled < relayed /\ settled' = settled + 1 /\ UNCHANGED <<log, relayed>>
  BY DEF SettleAccepted
<1>2. /\ Len(log) \in Nat /\ settled \in Nat /\ relayed \in Nat /\ relayed <= Len(log)
  BY DEF HouseInv, HouseTypes
<1> DEFINE d == DecisionOf(log, settled + 1)
           old == [n \in 1..settled |-> DecisionOf(log, n)]
           new == [n \in 1..(settled + 1) |-> DecisionOf(log, n)]
           D == {DecisionOf(log, n) : n \in 1..(settled + 1)}
<1>3. d.seq = settled + 1 /\ d.kind # "quiet" /\ d \in D
  BY <1>2 DEF DecisionOf
<1>4. /\ old \in Seq(D) /\ Len(old) = settled /\ new \in Seq(D) /\ Len(new) = settled + 1
      /\ \A n \in 1..settled : new[n] = old[n]
      /\ new[settled + 1] = d
  BY <1>2
<1>5. Decided[settled + 1] = d
  BY <1>1, <1>2 DEF Decided
<1>6. SettledOnes' = new /\ SettledOnes = old /\ UNCHANGED Decided
  BY <1>1 DEF SettledOnes, Decided
<1> HIDE DEF d, old, new, D
<1>7. PICK ds : ds = <<d>>
  OBVIOUS
<1>8. SubSeq(SettledOnes', Len(SettledOnes) + 1, Len(SettledOnes')) = ds
  BY <1>2, <1>4, <1>6, <1>7, OneAtEnd
<1>9. SettledOnes' = SettledOnes \o ds
  BY <1>2, <1>3, <1>4, <1>6, <1>7
<1>10. Announced' = Announced \o [i \in DOMAIN ds |-> ds[i].seq]
  <2>1. [i \in DOMAIN ds |-> ds[i].seq] = <<settled + 1>>
    BY <1>3, <1>7
  <2>2. [n \in 1..(settled + 1) |-> n] = [n \in 1..settled |-> n] \o <<settled + 1>>
    BY <1>2
  <2> QED
    BY <1>1, <2>1, <2>2 DEF Announced
<1>11. \A i \in DOMAIN ds : i = 1 /\ ds[i] = d
  BY <1>7
<1>12. Len(SettledOnes) = settled /\ Len(SettledOnes') > Len(SettledOnes)
  BY <1>2, <1>4, <1>6
<1>13. \A i \in DOMAIN ds :
         /\ ds[i].seq = Len(SettledOnes) + i
         /\ \E n \in 1..relayed : Decided[n] = ds[i]
  <2>1. settled + 1 \in 1..relayed
    BY <1>1, <1>2
  <2> QED
    BY <1>3, <1>5, <1>11, <1>12, <2>1
<1>14. \A i \in DOMAIN ds : Ledger!IsBroadcast(ds[i])
  BY <1>3, <1>11 DEF Ledger!IsBroadcast
<1>15. UNCHANGED <<Decided, relayed>>
  BY <1>1, <1>6
<1> QED
  BY <1>8, <1>9, <1>10, <1>12, <1>13, <1>14, <1>15 DEF Ledger!SettleSome, Ledger!Settle

\* Every other step leaves the log and its cursors alone, but for the relay's.
LEMMA LedgerSteps ==
  ASSUME [Next \/ PaymentNext]_vars
  PROVE  PlaceBid \/ RelayDecision \/ SettleAccepted \/ UNCHANGED <<log, relayed, settled>>
<1>1. CASE SchedulerNext /\ SchedulerStep
  BY <1>1 DEF SchedulerStep
<1>2. CASE UNCHANGED houseVars
  BY <1>2 DEF houseVars
<1>3. CASE HostNext
  <2>1. ASSUME NEW auto, Start(auto) PROVE UNCHANGED <<log, relayed, settled>>
    BY <2>1 DEF Start, HotSide
  <2>2. ASSUME NEW end, ShortenActiveAuction(end) PROVE UNCHANGED <<log, relayed, settled>>
    BY <2>2 DEF ShortenActiveAuction, HotSide
  <2>3. CASE CreateAuction \/ Schedule \/ Unschedule \/ Cancel \/ CancelFences
    BY <2>3 DEF CreateAuction, Schedule, Unschedule, Transition, Cancel, CancelFences, HotSide
  <2>4. CASE SyncDemoShortened \/ HostCallBreaks \/ NarrateStart \/ NarrateStop
    BY <2>4 DEF SyncDemoShortened, HostCallBreaks, NarrateStart, NarrateStop, Narrate, HotSide
  <2> QED
    BY <1>3, <2>1, <2>2, <2>3, <2>4 DEF HostNext
<1>4. CASE EngineNext
  BY <1>4 DEF EngineNext, ColdLoad, ColdSeed, ReconcileTerminal, ColdSide
<1>5. ASSUME NEW r \in Runners, EndNext(r) \/ FenceErrs(r)
      PROVE  UNCHANGED <<log, relayed, settled>>
  BY <1>5 DEF EndNext, EndReads, FencePauses, FenceRefuses, FenceVerifies, EndCommits, EndFences,
     FenceErrs, EndSide
<1>6. CASE PaymentNext
  BY <1>2, <1>6 DEF PaymentNext, houseVars
<1>7. CASE UNCHANGED vars
  BY <1>2, <1>7 DEF vars
<1> QED
  BY <1>1, <1>2, <1>3, <1>4, <1>5, <1>6, <1>7 DEF Next

\* Whatever the host, the scheduler and the payments do to an auction, of its
\* bids the outside sees a ledger.
THEOREM MarketImplementsLedger == MarketSpec => Ledger!Spec
<1>1. Init => Ledger!Init
  <2> SUFFICES ASSUME Init PROVE Ledger!Init
    OBVIOUS
  <2>1. log = <<>> /\ relayed = 0 /\ settled = 0
    BY DEF Init
  <2>2. Decided = <<>> /\ SettledOnes = <<>> /\ Announced = <<>>
    BY <2>1 DEF Decided, SettledOnes, Announced
  <2> QED
    BY <2>1, <2>2 DEF Ledger!Init
<1>2. MarketInv /\ [Next \/ PaymentNext]_vars => [Ledger!Next]_(Ledger!ledgerVars)
  <2> SUFFICES ASSUME MarketInv, [Next \/ PaymentNext]_vars
               PROVE  [Ledger!Next]_(Ledger!ledgerVars)
    OBVIOUS
  <2>1. HouseInv
    BY DEF MarketInv
  <2>2. CASE PlaceBid
    BY <2>1, <2>2, BidDecides DEF Ledger!Next
  <2>3. CASE SettleAccepted
    BY <2>1, <2>3, SettledNext DEF Ledger!Next
  <2>4. CASE RelayDecision
    <3>1. relayed < Len(log) /\ relayed' = relayed + 1 /\ UNCHANGED <<log, settled>>
      BY <2>4 DEF RelayDecision
    <3>2. relayed \in Nat /\ Len(log) \in Nat
      BY <2>1 DEF HouseInv, HouseTypes
    <3>3. Len(Decided) = Len(log)
      BY <3>2 DEF Decided
    <3>4. 1..relayed \subseteq 1..relayed' /\ 1..relayed' \subseteq 1..Len(Decided)
      BY <3>1, <3>2, <3>3
    <3>5. UNCHANGED <<Decided, SettledOnes, Announced>>
      BY <3>1 DEF Decided, SettledOnes, Announced
    <3>6. Ledger!BecomeDurable
      BY <3>4, <3>5 DEF Ledger!BecomeDurable
    <3> QED
      BY <3>6 DEF Ledger!Next
  <2>5. CASE UNCHANGED <<log, relayed, settled>>
    BY <2>5 DEF Ledger!ledgerVars, Decided, SettledOnes, Announced
  <2> QED
    BY <2>2, <2>3, <2>4, <2>5, LedgerSteps
<1> QED
  BY <1>1, <1>2, MarketInvariant, PTL DEF MarketSpec, Ledger!Spec

=============================================================================
