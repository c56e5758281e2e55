------------------------------ MODULE AuctionHouse ------------------------------
(***************************************************************************)
(* One auction from its draft to its paid order: the host's operations on   *)
(* the PostgreSQL row (auction/repository.go), the accepted decisions of    *)
(* the hot engine and their settlement, the cold start of the hot state,    *)
(* and the scheduler that fences the hot state and decides the winner       *)
(* (scheduler.go, engine.go 1858-2039).  The relay and the settlement are   *)
(* the cursors that LedgerRelay and Settlement refine; a bid is a number,   *)
(* for its price and its bidder together.  Redis loses nothing here.        *)
(***************************************************************************)
EXTENDS Orders, Sequences

CONSTANTS
  Duration,       \* duration_seconds of the rules, in steps of the clock
  MaxEnd,         \* absolute_end_ms: no extension goes further
  MaxBids         \* bound: accepted bids

ASSUME AuctionHouseAssumption ==
  /\ Duration \in Nat \ {0}
  /\ MaxEnd \in Nat
  /\ MaxBids \in Nat

VARIABLES
  pg,             \* the row of auctions, and its terminal events in order
  hot,            \* bid:engine:state, the hash in Redis
  log,            \* the accepted decisions of the hot engine
  relayed,        \* how many of them are in Kafka and acknowledged
  settled,        \* how many of them are settled
  seen,           \* the hot state as the scheduler's fence read it
  loaded,         \* a cold snapshot on its way to Redis
  host,           \* what the host's last call has still to do in Redis
  excused         \* history: a fence was passed by

houseVars == <<pg, hot, log, relayed, settled, seen, loaded, host, excused>>
vars == <<schedulerVars, orderVars, houseVars>>

Terminal == {"SOLD", "ENDED", "CANCELLED"}
Statuses == {"none", "DRAFT", "SCHEDULED", "ACTIVE"} \cup Terminal

NoHot  == [kind |-> "absent", status |-> "", paused |-> FALSE, bid |-> -1, end |-> 0]
NoHost == [todo |-> "none", end |-> 0]
NoSnapshot == [status |-> "none", bid |-> 0, end |-> 0]

LastBid == IF settled < Len(log) THEN log[Len(log)].bid ELSE pg.bid

(* Mutant: the row is read without FOR UPDATE. *)
Unlocked == FALSE

(* The scheduler's transaction holds the row of the auction. *)
Locked == \E r \in Runners : /\ runner[r].job = "END_AUCTION"
                             /\ runner[r].step \in {"read", "paused", "verified"}

Init ==
  /\ OrdersInit
  /\ pg = [status |-> "none", bid |-> 0, end |-> 0, narrating |-> FALSE, ends |-> <<>>]
  /\ hot = NoHot
  /\ log = <<>>
  /\ relayed = 0
  /\ settled = 0
  /\ seen = NoHot
  /\ loaded = NoSnapshot
  /\ host = NoHost
  /\ excused = FALSE

-----------------------------------------------------------------------------
(* The host's operations.  Each is one transaction on the row, with an event. *)

PaymentVars == <<idem, pay, events, anomalies, trade, published>>
HotSide == <<hot, log, relayed, settled, seen, loaded, excused>>

CreateAuction ==
  /\ pg.status = "none"
  /\ pg' = [pg EXCEPT !.status = "DRAFT"]
  /\ ~Locked
  /\ UNCHANGED <<schedulerVars, orderVars, host, HotSide>>

Transition(from, to) ==
  /\ pg.status = from
  /\ pg' = [pg EXCEPT !.status = to]
  /\ ~Locked
  /\ UNCHANGED <<schedulerVars, orderVars, host, HotSide>>
Schedule   == Transition("DRAFT", "SCHEDULED")
Unschedule == Transition("SCHEDULED", "DRAFT")

(* Start.  The proxies of the intents set before the start bid in the same *)
(* transaction; they leave no bid, a last bid, or a bid at the cap price.   *)
Start(auto) ==
  /\ pg.status = "SCHEDULED"
  /\ clock + Duration <= MaxEnd
  /\ MaxBids > 0
  /\ LET end    == clock + Duration
         opened == Upsert(job, "END_AUCTION", end)
     IN  /\ pg' = [pg EXCEPT !.status = IF auto = "sold" THEN "SOLD" ELSE "ACTIVE",
                             !.bid = IF auto = "none" THEN 0 ELSE 1,
                             !.end = end,
                             !.ends = IF auto = "sold" THEN Append(@, "SOLD") ELSE @]
         /\ order' = IF auto = "sold" THEN Sold(1, "start") ELSE order
         /\ job' = IF auto = "sold" THEN Upsert(opened, "EXPIRE_ORDER", order'.expireAt) ELSE opened
  /\ ~Locked
  /\ UNCHANGED <<clock, faults, runner, PaymentVars, host, HotSide>>

Cancel ==
  /\ pg.status \notin Terminal \cup {"none"}
  /\ host = NoHost
  /\ pg' = [pg EXCEPT !.status = "CANCELLED", !.narrating = FALSE, !.ends = Append(@, "CANCELLED")]
  /\ host' = [NoHost EXCEPT !.todo = "fence"]
  /\ ~Locked
  /\ UNCHANGED <<schedulerVars, orderVars, HotSide>>

(* FenceAuction, as the gateway's best effort after the cancel has committed. *)
Fence(status) == hot' = IF hot.kind = "full" THEN [hot EXCEPT !.paused = TRUE, !.status = status] ELSE hot
CancelFences ==
  /\ host.todo = "fence"
  /\ Fence("CANCELLED")
  /\ host' = NoHost
  /\ UNCHANGED <<schedulerVars, orderVars, pg, log, relayed, settled, seen, loaded, excused>>

(* ShortenActiveAuction *)
ShortenActiveAuction(end) ==
  /\ pg.status = "ACTIVE"
  /\ host = NoHost
  /\ clock < end /\ end < pg.end
  /\ pg' = [pg EXCEPT !.end = end]
  /\ job' = Upsert(job, "END_AUCTION", end)
  /\ host' = [todo |-> "sync", end |-> end]
  /\ ~Locked
  /\ UNCHANGED <<clock, faults, runner, orderVars, HotSide>>

(* syncDemoShortenedAuctionToRedis writes the end, and lifts any pause, whatever is there. *)
SyncDemoShortened ==
  /\ host.todo = "sync"
  /\ hot' = [hot EXCEPT !.kind = IF @ = "absent" THEN "partial" ELSE @,
                        !.end = host.end, !.paused = FALSE]
  /\ host' = NoHost
  /\ excused' = IF Locked \/ pg.status # "ACTIVE" THEN TRUE ELSE excused
  /\ UNCHANGED <<schedulerVars, orderVars, pg, log, relayed, settled, seen, loaded>>

(* Redis is out of reach, or the process dies, before the second half of the call. *)
HostCallBreaks ==
  /\ host # NoHost
  /\ Fault
  /\ host' = NoHost
  /\ UNCHANGED <<clock, job, runner, orderVars, pg, HotSide>>

Narrate(on) ==
  /\ pg.status # "none"
  /\ pg' = [pg EXCEPT !.narrating = on]
  /\ ~Locked
  /\ UNCHANGED <<schedulerVars, orderVars, host, HotSide>>

(* Mutant: the check of the status is dropped. *)
NarrateStartAny == Narrate(TRUE)

NarrateStart == pg.status \notin Terminal /\ Narrate(TRUE)
NarrateStop  == Narrate(FALSE)

-----------------------------------------------------------------------------
(* The hot engine and its settlement. *)

ColdSide == <<pg, relayed, settled, seen, host>>

(* loadSnapshot, for a bid that found no state.  A draft has no end_at to load. *)
ColdLoad ==
  /\ hot.kind = "absent"
  /\ loaded = NoSnapshot
  /\ pg.end > 0
  /\ loaded' = [status |-> pg.status, bid |-> pg.bid, end |-> pg.end]
  /\ UNCHANGED <<schedulerVars, orderVars, hot, log, excused, ColdSide>>

(* The script seeds the state from the snapshot unless the key exists by now. *)
ColdSeed ==
  /\ loaded # NoSnapshot
  /\ loaded' = NoSnapshot
  /\ IF hot.kind = "absent"
     THEN /\ hot' = [kind |-> "full", status |-> loaded.status, paused |-> FALSE,
                     bid |-> loaded.bid, end |-> loaded.end]
          /\ excused' = IF Locked \/ pg.status # "ACTIVE" THEN TRUE ELSE excused
     ELSE UNCHANGED <<hot, excused>>
  /\ UNCHANGED <<schedulerVars, orderVars, log, ColdSide>>

(* The script accepts a bid; its now_ms was read by the caller, maybe a step ago. *)
Bid(now, sold, extended) ==
  /\ hot.kind = "full" /\ hot.status = "ACTIVE" /\ ~hot.paused
  /\ now <= hot.end
  /\ hot.bid < MaxBids
  /\ extended => ~sold /\ hot.end < MaxEnd
  /\ LET end == IF extended THEN hot.end + 1 ELSE hot.end
         bid == hot.bid + 1
     IN  /\ log' = Append(log, [bid |-> bid, end |-> end, sold |-> sold])
         /\ hot' = [hot EXCEPT !.bid = bid, !.end = end, !.status = IF sold THEN "SOLD" ELSE @]
  /\ UNCHANGED <<schedulerVars, orderVars, loaded, excused, ColdSide>>
PlaceBid == \E back \in {0, 1}, sold, extended \in BOOLEAN :
              back <= clock /\ Bid(clock - back, sold, extended)

RelayDecision ==
  /\ relayed < Len(log)
  /\ relayed' = relayed + 1
  /\ UNCHANGED <<schedulerVars, orderVars, pg, hot, log, settled, seen, loaded, host, excused>>

(* settleAccepted: the row becomes what the decision says, whatever it was. *)
SettleAccepted ==
  /\ settled < relayed
  /\ ~Locked
  /\ settled' = settled + 1
  /\ LET d == log[settled + 1]
     IN  /\ pg' = [pg EXCEPT !.status = IF d.sold THEN "SOLD" ELSE "ACTIVE",
                             !.bid = d.bid, !.end = d.end,
                             !.ends = IF d.sold THEN Append(@, "SOLD") ELSE @]
         /\ order' = IF d.sold THEN Sold(d.bid, "engine") ELSE order
         /\ job' = IF ~d.sold THEN Upsert(job, "END_AUCTION", d.end)
                   ELSE IF job["EXPIRE_ORDER"].status = "none"
                        THEN Upsert(job, "EXPIRE_ORDER", order'.expireAt) ELSE job
  /\ UNCHANGED <<clock, faults, runner, PaymentVars, hot, log, relayed, seen, loaded, host, excused>>

(* checkTerminalFenced *)
ReconcileTerminal ==
  /\ pg.status \in Terminal
  /\ hot.status = "ACTIVE" /\ ~hot.paused
  /\ hot' = [hot EXCEPT !.paused = TRUE, !.status = pg.status]
  /\ UNCHANGED <<schedulerVars, orderVars, pg, log, relayed, settled, seen, loaded, host, excused>>

-----------------------------------------------------------------------------
(* processEndAuction with FenceAuctionForScheduler: the row is locked from the *)
(* read of the job's auction to the end of the transaction.                    *)

EndSide == <<clock, faults, log, relayed, settled, loaded, host>>
Return(r) == runner' = [runner EXCEPT ![r] = Idle] /\ seen' = NoHot
GoTo(r, step) == runner' = [runner EXCEPT ![r].step = step]

EndReads(r) ==
  /\ At(r, "END_AUCTION", "claimed")
  /\ ~Locked
  /\ \/ /\ pg.status # "ACTIVE"
        /\ job' = Succeed(job, "END_AUCTION") /\ Return(r)
     \/ /\ pg.status = "ACTIVE" /\ clock < pg.end
        /\ job' = Reschedule(job, "END_AUCTION", pg.end) /\ Return(r)
     \/ /\ pg.status = "ACTIVE" /\ clock >= pg.end
        /\ seen' = hot
        /\ GoTo(r, IF hot.kind = "absent" THEN "verified" ELSE "read")
        /\ UNCHANGED job
  /\ UNCHANGED <<orderVars, pg, hot, excused, EndSide>>

FencePauses(r) ==
  /\ At(r, "END_AUCTION", "read")
  /\ hot' = [hot EXCEPT !.paused = TRUE]
  /\ GoTo(r, "paused")
  /\ UNCHANGED <<job, orderVars, pg, seen, excused, EndSide>>

(* Mutant: price and winner are not compared. *)
DisagreesOnEnd == clock < seen.end

(* What the fence read before its pause is compared with the row. *)
Disagrees == seen.bid # pg.bid \/ clock < seen.end

FenceRefuses(r) ==
  /\ At(r, "END_AUCTION", "paused")
  /\ \/ /\ relayed < Len(log)
        /\ job' = Reschedule(job, "END_AUCTION", clock)
        /\ UNCHANGED <<hot, pg>>
     \/ /\ relayed = Len(log) /\ seen.end > pg.end
        /\ hot' = [hot EXCEPT !.paused = FALSE]
        /\ pg' = [pg EXCEPT !.end = seen.end]
        /\ job' = Reschedule(job, "END_AUCTION", seen.end)
     \/ /\ relayed = Len(log) /\ seen.end <= pg.end /\ Disagrees
        /\ hot' = [hot EXCEPT !.paused = FALSE]
        /\ job' = Reschedule(job, "END_AUCTION", IF seen.bid # pg.bid THEN clock ELSE seen.end)
        /\ UNCHANGED pg
  /\ Return(r)
  /\ UNCHANGED <<orderVars, excused, EndSide>>

FenceVerifies(r) ==
  /\ At(r, "END_AUCTION", "paused")
  /\ relayed = Len(log) /\ seen.end <= pg.end /\ ~Disagrees
  /\ GoTo(r, "verified")
  /\ UNCHANGED seen
  /\ excused' = IF hot.bid # seen.bid THEN TRUE ELSE excused
  /\ UNCHANGED <<job, orderVars, pg, hot, EndSide>>

(* A call to Redis fails: the job is rescheduled, the pause stays if it was set. *)
FenceErrs(r) ==
  /\ At(r, "END_AUCTION", "read") \/ At(r, "END_AUCTION", "paused")
  /\ Fault
  /\ job' = Reschedule(job, "END_AUCTION", clock)
  /\ Return(r)
  /\ UNCHANGED <<clock, orderVars, pg, hot, log, relayed, settled, loaded, excused, host>>

EndCommits(r) ==
  /\ At(r, "END_AUCTION", "verified")
  /\ LET sold == pg.bid > 0
         end  == IF sold THEN "SOLD" ELSE "ENDED"
     IN  /\ pg' = [pg EXCEPT !.status = end, !.narrating = FALSE, !.ends = Append(@, end)]
         /\ order' = IF sold THEN Sold(pg.bid, "scheduler") ELSE order
         /\ job' = Succeed(IF sold THEN Upsert(job, "EXPIRE_ORDER", order'.expireAt) ELSE job, "END_AUCTION")
         /\ GoTo(r, IF sold THEN "sold" ELSE "ended")
  /\ UNCHANGED <<PaymentVars, hot, excused, EndSide>>
  /\ seen' = NoHot

EndFences(r) ==
  /\ \/ At(r, "END_AUCTION", "sold") /\ Fence("SOLD")
     \/ At(r, "END_AUCTION", "ended") /\ Fence("ENDED")
  /\ Return(r)
  /\ UNCHANGED <<job, orderVars, pg, excused, EndSide>>

-----------------------------------------------------------------------------
HostNext ==
  \/ CreateAuction \/ Schedule \/ Unschedule \/ Cancel \/ CancelFences
  \/ \E auto \in {"none", "bid", "sold"} : Start(auto)
  \/ \E end \in 1..MaxEnd : ShortenActiveAuction(end)
  \/ SyncDemoShortened \/ HostCallBreaks \/ NarrateStart \/ NarrateStop

EngineNext == ColdLoad \/ ColdSeed \/ PlaceBid \/ RelayDecision \/ SettleAccepted \/ ReconcileTerminal

EndNext(r) == EndReads(r) \/ FencePauses(r) \/ FenceRefuses(r) \/ FenceVerifies(r) \/ EndCommits(r) \/ EndFences(r)

(* What a step of the scheduler leaves: a rollback releases the row. *)
SchedulerStep ==
  /\ seen' = IF Locked' THEN seen ELSE NoHot
  /\ UNCHANGED <<orderVars, pg, hot, log, relayed, settled, loaded, host, excused>>

Next ==
  \/ SchedulerNext /\ SchedulerStep
  \/ \E r \in Runners : ProcessExpireOrder(r) /\ UNCHANGED houseVars
  \/ HostNext
  \/ EngineNext
  \/ \E r \in Runners : EndNext(r) \/ FenceErrs(r)

Spec == Init /\ [][Next]_vars

(* The runners, the relay and the settlement loop for ever.  A claim takes the   *)
(* job that is due first (ORDER BY run_at); the settlement waits for the row in  *)
(* PostgreSQL's queue, so a fence that comes back again and again lets it pass.  *)
FairSpec ==
  /\ Spec
  /\ WF_vars(Tick /\ SchedulerStep)
  /\ \A j \in Jobs :
       /\ WF_vars(LeaseExpires(j) /\ SchedulerStep)
       /\ SF_vars((\E r \in Runners : Claim(r, j)) /\ SchedulerStep)
  /\ \A r \in Runners : WF_vars(ProcessExpireOrder(r) /\ UNCHANGED houseVars) /\ WF_vars(EndNext(r))
  /\ WF_vars(RelayDecision)
  /\ SF_vars(SettleAccepted)

-----------------------------------------------------------------------------
HotStates == [kind : {"absent", "partial", "full"}, status : Statuses \cup {""}, paused : BOOLEAN,
              bid : Int, end : Nat]

(* The type of every variable: of the scheduler, of the order and of the auction. *)
AuctionHouseTypeOK ==
  /\ clock \in Nat /\ faults \in Nat
  /\ job \in [Jobs -> [status : JobStates, runAt : Nat, attempts : Nat, leased : BOOLEAN]]
  /\ runner \in [Runners -> [job : Jobs \cup {"none"},
                             step : {"idle", "claimed", "read", "paused", "verified", "sold", "ended"}]]
  /\ OrderTypeOK
  /\ pg \in [status : Statuses, bid : Nat, end : Nat, narrating : BOOLEAN, ends : Seq(Terminal)]
  /\ hot \in HotStates /\ seen \in HotStates
  /\ log \in Seq([bid : Nat, end : Nat, sold : BOOLEAN])
  /\ 0 <= settled /\ settled <= relayed /\ relayed <= Len(log)
  /\ loaded \in [status : Statuses, bid : Nat, end : Nat]
  /\ host \in [todo : {"none", "fence", "sync"}, end : Nat]
  /\ excused \in BOOLEAN

(* The order is for the last bid the hot engine ever accepted, settled by then or *)
(* not, unless the scheduler's fence (engine.go:1978, scheduler.go:41) was passed *)
(* by in one of the three ways that the code leaves open: a bid and its relay     *)
(* between the fence's read and its check, a seed from a snapshot older than the  *)
(* end, a lifted pause.  Then it may go to an earlier bid.                        *)
WinnerIsLast == order.status # "none" /\ ~excused => order.bid = LastBid

(* The checks of invariant/checks.go that concern this part of the state. *)
SingleTerminalEvent == Len(pg.ends) <= 1

TerminalStatusMatchesEvent ==
  IF pg.status \in Terminal THEN pg.ends # <<>> /\ pg.ends[Len(pg.ends)] = pg.status
  ELSE pg.ends = <<>>

SoldOrderMatchesAuction == pg.status = "SOLD" => pg.bid > 0 /\ order.bid = pg.bid

NonSoldOrderLeak == order.status # "none" => pg.status = "SOLD"

(* A decision was settled into an auction the host had cancelled. *)
Reopened == \E i \in DOMAIN pg.ends : pg.ends[i] = "CANCELLED" /\ (i < Len(pg.ends) \/ pg.status # "CANCELLED")

(* What the invariant checker reports of an auction has one of two causes, however *)
(* the host, the engine, the settlement and the scheduler interleave: a decision   *)
(* settled after the host's cancel (then only the two checks on the events), or a  *)
(* fence passed by.                                                                *)
CheckerFindsNothing ==
  ~excused =>
    /\ NonSoldOrderLeak
    /\ SoldOrderMatchesAuction
    /\ ~Reopened => SingleTerminalEvent /\ TerminalStatusMatchesEvent

(* No auction that ended is presented as the one the host talks about, but for  *)
(* one that its last settled bid, or a proxy at its start, sold at the cap price: *)
(* these two sales leave the flag alone (engine.go:4398, bid.go:967).             *)
NarratingStops ==
  pg.narrating => \/ pg.status \notin Terminal
                  \/ /\ pg.status = "SOLD"
                     /\ order.by = "start" \/ (settled > 0 /\ log[settled].sold)

(* An active auction whose end job is open comes to an end, although the fence    *)
(* refuses while the settlement lags and runners fail, unless the demo shortened  *)
(* it before anyone had bid: then the fence never agrees (auction_handlers.go:1281). *)
ActiveEnds ==
  (pg.status = "ACTIVE" /\ job["END_AUCTION"].status \notin {"SUCCEEDED", "DEAD"})
    ~> (pg.status # "ACTIVE" \/ hot.kind = "partial")
=============================================================================
