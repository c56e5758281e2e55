--------------------------------- MODULE Orders ---------------------------------
(***************************************************************************)
(* The order of a sold auction: payment through the mock provider and       *)
(* through Alipay, the provider's notifications, expiry (auction/bid.go,    *)
(* gateway/alipay_handlers.go, scheduler/scheduler.go).  An auction has at  *)
(* most one order (orders.auction_id is unique).                            *)
(***************************************************************************)
EXTENDS Scheduler

CONSTANTS
  PayKeys,        \* idempotency keys of the winner's mock payments
  PayTime         \* how long an order may be paid, in steps of the clock

ASSUME OrdersAssumption == PayTime \in Nat

VARIABLES
  order,          \* the row of orders
  idem,           \* idempotency_records of scope payment, by key
  pay,            \* the PayMock call in progress with each key
  events,         \* payment_events of type payment_succeeded
  anomalies,      \* system_anomaly_events about the order
  trade,          \* at Alipay: the customer has paid
  published       \* every event of the auction has left the outbox

orderVars == <<order, idem, pay, events, anomalies, trade, published>>

OrderStates == {"none", "ORDER_PENDING", "PAYMENT_INITIATED", "PAID", "ORDER_EXPIRED"}
NoOrder == [status |-> "none", bid |-> 0, deposit |-> "none", provider |-> "none", expireAt |-> 0, by |-> "none"]
Open == order.status \in {"ORDER_PENDING", "PAYMENT_INITIATED"}

OrdersInit ==
  /\ SchedulerInit
  /\ order = NoOrder
  /\ idem = [k \in PayKeys |-> "none"]
  /\ pay = [k \in PayKeys |-> "idle"]
  /\ events = {}
  /\ anomalies = {}
  /\ trade = FALSE
  /\ published = TRUE

(* Mutant: ON CONFLICT (auction_id) DO UPDATE takes the values of the new order. *)
SoldAgain(bid, by) ==
  [status |-> "ORDER_PENDING", bid |-> bid, deposit |-> "HELD", provider |-> "none",
   expireAt |-> clock, by |-> by]

(* The insert of an order: ON CONFLICT (auction_id) keeps the one that is there. *)
(* The clock's bound cuts the time to pay of the latest orders short.            *)
Sold(bid, by) ==
  IF order.status # "none" THEN order
  ELSE [status |-> "ORDER_PENDING", bid |-> bid, deposit |-> "HELD", provider |-> "none",
        expireAt |-> IF clock + PayTime > MaxClock THEN MaxClock ELSE clock + PayTime, by |-> by]

-----------------------------------------------------------------------------
(* Mutant: a success for an expired order is only logged. *)
WebhookIgnoresLate(event, o) ==
  /\ events' = events \cup {event}
  /\ order' = IF Open THEN [o EXCEPT !.status = "PAID", !.deposit = "REFUNDED"] ELSE o
  /\ published' = (published /\ ~Open)
  /\ UNCHANGED anomalies

(* Mutant: the deposit is left for somebody else to return. *)
WebhookKeepsDeposit(event, o) ==
  /\ events' = events \cup {event}
  /\ order' = IF Open THEN [o EXCEPT !.status = "PAID"] ELSE o
  /\ published' = (published /\ ~Open)
  /\ UNCHANGED anomalies

(* insertPaymentEvent: an event is recorded once. *)
RecordEvent(event) == events' = events \cup {event}

RecordAnomaly(what) == anomalies' = anomalies \cup {what}

(* HandleProviderWebhook, one transaction, for an event of the provider that *)
(* names the order's own payment: o and the anomalies it leaves.             *)
Webhook(event, o) ==
  /\ RecordEvent(event)
  /\ IF o.status = "ORDER_EXPIRED"
     THEN /\ RecordAnomaly("late success")
          /\ UNCHANGED <<order, published>>
     ELSE /\ order' = IF o.status = "PAID" THEN o
                      ELSE [o EXCEPT !.status = "PAID", !.deposit = "REFUNDED"]
          /\ published' = IF o.status = "PAID" THEN published ELSE FALSE
          /\ UNCHANGED anomalies

(* ensurePaymentConvergenceReady: the sale has reached the clients. *)
ConvergenceReady == published

(* PayMock up to its first commit.  A key that has a record is answered from it. *)
PayMock(k) ==
  /\ order.status # "none"
  /\ pay[k] = "idle"
  /\ idem[k] = "none"
  /\ order.status # "ORDER_EXPIRED"
  /\ (order.status # "PAID" /\ order.provider = "none") => ConvergenceReady
  /\ idem' = [idem EXCEPT ![k] = "PROCESSING"]
  /\ order' = IF order.status = "PAID" THEN order
              ELSE [order EXCEPT !.status = "PAYMENT_INITIATED",
                                 !.provider = IF @ = "none" THEN "local" ELSE @]
  /\ pay' = [pay EXCEPT ![k] = "initiated"]
  /\ UNCHANGED <<events, anomalies, trade, published>>

(* The provider's answer, which PayMock sends to itself. *)
PayMockWebhook(k) ==
  /\ pay[k] = "initiated"
  /\ Webhook(k, order)
  /\ pay' = [pay EXCEPT ![k] = IF order.status = "ORDER_EXPIRED" THEN "failed" ELSE "succeeded"]
  /\ UNCHANGED <<idem, trade>>

PayMockCompletes(k) ==
  /\ pay[k] = "succeeded"
  /\ idem' = [idem EXCEPT ![k] = "COMPLETED"]
  /\ pay' = [pay EXCEPT ![k] = "answered"]
  /\ UNCHANGED <<order, events, anomalies, trade, published>>

(* The process dies, or a statement fails, between two of its transactions. *)
PayMockBreaks(k) ==
  /\ pay[k] \in {"initiated", "succeeded"}
  /\ Fault
  /\ pay' = [pay EXCEPT ![k] = "failed"]
  /\ UNCHANGED <<order, idem, events, anomalies, trade, published>>

(* The client repeats a key: a record left PROCESSING for ten seconds is failed for good. *)
PayMockRepeated(k) ==
  /\ pay[k] = "failed"
  /\ idem[k] = "PROCESSING"
  /\ idem' = [idem EXCEPT ![k] = "FAILED"]
  /\ UNCHANGED <<order, pay, events, anomalies, trade, published>>

(* markAlipayPaymentInitiated *)
MarkAlipayPaymentInitiated ==
  /\ order.provider \in {"none", "alipay"}
  /\ order' = IF order.status = "PAID" THEN order
              ELSE [order EXCEPT !.status = "PAYMENT_INITIATED", !.provider = "alipay"]

(* createAlipayPagePay: the customer gets a form for the payment of this order. *)
AlipayCreate ==
  /\ order.status \notin {"none", "ORDER_EXPIRED"}
  /\ MarkAlipayPaymentInitiated
  /\ UNCHANGED <<idem, pay, events, anomalies, trade, published>>

(* External: the customer pays the form, at any later time. *)
CustomerPays ==
  /\ order.provider = "alipay"
  /\ ~trade
  /\ trade' = TRUE
  /\ UNCHANGED <<order, idem, pay, events, anomalies, published>>

(* Alipay notifies, as often as it likes, or the customer asks for a query. *)
Alipay(event) ==
  /\ trade
  /\ Webhook(event, order)
  /\ UNCHANGED <<idem, pay, trade>>
AlipayNotify == Alipay("notify")
QueryAlipayOrder == Alipay("query")

(* ReconcileProviderPayments on an order whose success never came. *)
ReconcileProviderPayments ==
  /\ order.status = "PAYMENT_INITIATED"
  /\ events = {}
  /\ RecordAnomaly("no success event")
  /\ UNCHANGED <<order, idem, pay, events, trade, published>>

(* processExpireOrder *)
ProcessExpireOrder(r) ==
  /\ At(r, "EXPIRE_ORDER", "claimed")
  /\ runner' = [runner EXCEPT ![r] = Idle]
  /\ IF Open /\ clock < order.expireAt
     THEN /\ job' = Reschedule(job, "EXPIRE_ORDER", order.expireAt)
          /\ UNCHANGED <<order, published>>
     ELSE /\ job' = Succeed(job, "EXPIRE_ORDER")
          /\ IF Open
             THEN /\ order' = [order EXCEPT !.status = "ORDER_EXPIRED", !.deposit = "FORFEITED"]
                  /\ published' = FALSE
             ELSE UNCHANGED <<order, published>>
  /\ UNCHANGED <<clock, faults, idem, pay, events, anomalies, trade>>

(* External: the outbox relay publishes what is there. *)
OutboxPublishes ==
  /\ ~published
  /\ published' = TRUE
  /\ UNCHANGED <<order, idem, pay, events, anomalies, trade>>

(* The three transactions that sell the auction, as far as the order is concerned: *)
(* a second sale, of an auction that was reopened, finds the order of the first.    *)
SaleCommits(bid) ==
  /\ order' = Sold(bid, "engine")
  /\ job' = Upsert(job, "EXPIRE_ORDER", order'.expireAt)
  /\ published' = FALSE
  /\ UNCHANGED <<clock, faults, runner, idem, pay, events, anomalies, trade>>

-----------------------------------------------------------------------------
Payments ==
  \/ \E k \in PayKeys : PayMock(k) \/ PayMockWebhook(k) \/ PayMockCompletes(k) \/ PayMockRepeated(k)
  \/ AlipayCreate \/ CustomerPays \/ AlipayNotify \/ QueryAlipayOrder
  \/ ReconcileProviderPayments \/ OutboxPublishes

OrdersNext ==
  \/ SchedulerNext /\ UNCHANGED orderVars
  \/ Payments /\ UNCHANGED schedulerVars
  \/ \E k \in PayKeys : PayMockBreaks(k) /\ UNCHANGED <<clock, job, runner>>
  \/ \E r \in Runners : ProcessExpireOrder(r)
  \/ \E bid \in {1, 2} : SaleCommits(bid)

ordersVars == <<schedulerVars, orderVars>>

(* The runners poll for ever; a claim takes the job that is due first (ORDER BY *)
(* run_at), so none is passed over for ever; a lease ends with its five seconds. *)
OrdersSpec ==
  /\ OrdersInit
  /\ [][OrdersNext]_ordersVars
  /\ WF_ordersVars(Tick /\ UNCHANGED orderVars)
  /\ \A j \in Jobs : WF_ordersVars(LeaseExpires(j) /\ UNCHANGED orderVars)
  /\ SF_ordersVars((\E r \in Runners : Claim(r, "EXPIRE_ORDER")) /\ UNCHANGED orderVars)
  /\ \A r \in Runners : WF_ordersVars(ProcessExpireOrder(r))

-----------------------------------------------------------------------------
OrderTypeOK ==
  /\ order \in [status : OrderStates, bid : Nat, deposit : {"none", "HELD", "REFUNDED", "FORFEITED"},
                provider : {"none", "local", "alipay"}, expireAt : Nat, by : {"none", "engine", "scheduler", "start"}]
  /\ idem \in [PayKeys -> {"none", "PROCESSING", "COMPLETED", "FAILED"}]
  /\ pay \in [PayKeys -> {"idle", "initiated", "succeeded", "answered", "failed"}]
  /\ events \subseteq (PayKeys \cup {"notify", "query"})
  /\ anomalies \subseteq {"late success", "no success event"}
  /\ trade \in BOOLEAN
  /\ published \in BOOLEAN

(* A success the provider reported is never dropped: the order is paid, or it had *)
(* expired and the payment is on record as an anomaly; and a payment is answered   *)
(* with PAID only when the order is paid.  The webhook, the mock payment, Alipay    *)
(* and the expiry job all write the same row (bid.go:503, scheduler.go:316).        *)
MoneyIsAccounted ==
  /\ events # {} => order.status = "PAID" \/ "late success" \in anomalies
  /\ "late success" \in anomalies => order.status = "ORDER_EXPIRED"
  /\ \A k \in PayKeys : idem[k] = "COMPLETED" => order.status = "PAID"

(* The deposit goes back exactly when the order is paid, and is lost exactly when *)
(* it expired, whichever of the racing transactions came first.                   *)
DepositFollowsOrder ==
  order.deposit = CASE order.status = "none" -> "none"
                    [] order.status = "PAID" -> "REFUNDED"
                    [] order.status = "ORDER_EXPIRED" -> "FORFEITED"
                    [] OTHER -> "HELD"

(* An order that is paid or expired stays so, and is always for the same bid: no  *)
(* late webhook, repeated payment, second expiry job or second sale touches it.   *)
OrderIsFinal ==
  [][/\ order.status \in {"PAID", "ORDER_EXPIRED"} => order'.status = order.status
     /\ order.status # "none" => order'.bid = order.bid]_order

(* An order does not stay open: it is paid, or the expiry job gets to it although *)
(* runners crash and fail and leases run out (scheduler.go:309).                  *)
OrderCloses == Open ~> order.status \in {"PAID", "ORDER_EXPIRED"}
=============================================================================
