------------------------------ MODULE ProxyBidding ------------------------------
(***************************************************************************)
(* The hot lane with max-bid intents (engine.go 941-1344, 1494-1567;         *)
(* gateway/auction_handlers.go 1385-1459).  A manual bid is first met by the *)
(* proxy of another user, then decided by the Lua script, then answered by   *)
(* the proxies; the intents are rows of PostgreSQL, the price is a hash in   *)
(* Redis, and nothing spans the two but an advisory lock on one intent.      *)
(* What one script does is the subject of HotEngine: here it is one step.    *)
(***************************************************************************)
EXTENDS MaxBids

CONSTANT MaxRequests   \* bound: requests of one run

ASSUME ProxyBiddingAssumption == MaxRequests \in Nat

VARIABLES
  settled,        \* how many hot states the auctions row has caught up with
  lock,           \* the advisory lock of each user's intent: whose call holds it
  call,           \* the request each user has in flight
  paused,         \* the hot engine is paused
  requests,       \* how many requests there have been
  disturbed       \* history: since the last manual bid, or in its course, others acted

sideVars == <<paused, requests, disturbed>>
vars == <<log, intent, births, settled, lock, call, sideVars>>

Started == log # <<>>
Hot == log[Len(log)]
Pg == log[settled]

(* A call holds what it was asked for, what it read of the hot state, the maxima of *)
(* the intents it loaded last, the step it chose, and how many rounds are behind it.  *)
Idle == [pc |-> "idle", ask |-> 0, price |-> 0, leader |-> Nobody, known |-> [u \in Users |-> 0],
         step |-> NoStep({}), rounds |-> 0]
Quiet == \A u \in Users : call[u] = Idle

HotLaneInit ==
  /\ \E n \in 0 .. Cardinality(Users) : births = [i \in 1 .. n |-> i]
  /\ \E max \in [Users -> 1 .. Cap] :
       intent = [u \in Users |-> IF u <= Len(births) THEN [status |-> "ACTIVE", max |-> max[u]] ELSE NoIntent]
  /\ log = <<>>
  /\ settled = 0
  /\ lock = [u \in Users |-> Nobody]
  /\ call = [u \in Users |-> Idle]
  /\ paused = FALSE
  /\ requests = 0
  /\ disturbed = FALSE

-----------------------------------------------------------------------------
Goes(c, pc) == call' = [call EXCEPT ![c].pc = pc]
Answered(c) == call' = [call EXCEPT ![c] = Idle]

(* What a call has read of the hot state. *)
Saw(c) == [price |-> call[c].price, leader |-> call[c].leader]

(* The maxima of the intents that are ACTIVE. *)
Loaded == [u \in Users |-> IF intent[u].status = "ACTIVE" THEN intent[u].max ELSE 0]

(* The next round of the resolver. *)
GoesOn(c) == call' = [call EXCEPT ![c].pc = "read", ![c].rounds = @ + 1]

(* A request of c starts. *)
Request(c, disturbs) ==
  /\ Started
  /\ call[c] = Idle
  /\ requests < MaxRequests
  /\ requests' = requests + 1
  /\ disturbed' = (disturbed \/ disturbs \/ ~Quiet)

(* lockActiveHotProxyIntent, by call c for the intent of u: the lock is tried, then the status read. *)
Lockable(u) == lock[u] = Nobody /\ intent[u].status = "ACTIVE"

(* Mutant: the lock is kept. *)
UnlockForgotten(c) == UNCHANGED lock

Unlock(c) == lock' = [u \in Users |-> IF lock[u] = c THEN Nobody ELSE lock[u]]

(* The Lua script on a bid of source AUTO_MAX_BID: no self-leading check. *)
AutoAccepted(amount) == ~paused /\ Hot.status = "ACTIVE" /\ Executable(Hot, amount)

(* A proxy bid that was accepted, and the rest of the intents when it sold the auction. *)
AutoBid(c) ==
  /\ log' = Append(log, Accept(Hot, call[c].step.who, call[c].step.amount, TRUE))
  /\ intent' = IF log'[Len(log')].status = "SOLD" THEN Mark(intent, Users, "TERMINAL") ELSE intent

-----------------------------------------------------------------------------
(* A manual bid of c: placeBidWithSource. *)
PlaceBid(c, amount) ==
  /\ Request(c, FALSE)
  /\ call' = [call EXCEPT ![c].pc = "preempt", ![c].ask = amount]
  /\ UNCHANGED <<log, intent, births, settled, lock, paused>>

(* preemptHotProxyChallenger reads the hot state ... *)
PreemptRead(c) ==
  /\ call[c].pc = "preempt"
  /\ IF ~paused /\ Hot.status = "ACTIVE" /\ Hot.leader # c /\ call[c].ask > Hot.price
     THEN call' = [call EXCEPT ![c].pc = "preempt load", ![c].price = Hot.price, ![c].leader = Hot.leader]
     ELSE Goes(c, "lua")
  /\ UNCHANGED <<log, intent, births, settled, lock, sideVars>>

(* ... then the intents: the first one that can meet the bid defends. *)
PreemptLoad(c) ==
  /\ call[c].pc = "preempt load"
  /\ LET able == {u \in ActiveIn(intent) \ {c} : intent[u].max >= call[c].ask}
         who == First(intent, able)
     IN  IF able = {} THEN Goes(c, "lua")
         ELSE call' = [call EXCEPT ![c].pc = "preempt lock", ![c].known = Loaded,
                         ![c].step = [who |-> who, amount |-> DefendingAmount(intent[who].max, call[c].ask),
                                      exhausted |-> {}]]
  /\ UNCHANGED <<log, intent, births, settled, lock, sideVars>>

PreemptLock(c) ==
  /\ call[c].pc = "preempt lock"
  /\ IF Lockable(call[c].step.who)
     THEN Goes(c, "preempt bid") /\ lock' = [lock EXCEPT ![call[c].step.who] = c]
     ELSE Goes(c, "lua") /\ UNCHANGED lock
  /\ UNCHANGED <<log, intent, births, settled, sideVars>>

(* The challenger is told BID_TOO_LOW when the proxy's bid is accepted. *)
PreemptBid(c) ==
  /\ call[c].pc = "preempt bid"
  /\ Unlock(c)
  /\ IF AutoAccepted(call[c].step.amount)
     THEN AutoBid(c) /\ Answered(c)
     ELSE Goes(c, "lua") /\ UNCHANGED <<log, intent>>
  /\ UNCHANGED <<births, settled, sideVars>>

(* The Lua script on the manual bid. *)
ManualBid(c) ==
  /\ call[c].pc = "lua"
  /\ IF ~paused /\ Hot.status = "ACTIVE" /\ Hot.leader # c /\ Executable(Hot, call[c].ask)
     THEN /\ log' = Append(log, Accept(Hot, c, call[c].ask, FALSE))
          /\ Goes(c, "read")
          /\ disturbed' = \E u \in Users \ {c} : call[u] # Idle
     ELSE Answered(c) /\ UNCHANGED <<log, disturbed>>
  /\ UNCHANGED <<intent, births, settled, lock, paused, requests>>

-----------------------------------------------------------------------------
(* resolveHotMaxBids, round by round: read the hot state, ... *)
ResolveRead(c) ==
  /\ call[c].pc = "read"
  /\ call[c].rounds < MaxRounds
  /\ IF ~paused /\ Hot.status = "ACTIVE"
     THEN call' = [call EXCEPT ![c].pc = "load", ![c].price = Hot.price, ![c].leader = Hot.leader]
     ELSE Answered(c)
  /\ UNCHANGED <<log, intent, births, settled, lock, sideVars>>

(* ... load the intents and choose a step, ... *)
ResolveLoad(c) ==
  /\ call[c].pc = "load"
  /\ IF ActiveIn(intent) = {} THEN Answered(c)
     ELSE call' = [call EXCEPT ![c].pc = "mark", ![c].known = Loaded, ![c].step = NextStep(Saw(c), intent)]
  /\ UNCHANGED <<log, intent, births, settled, lock, sideVars>>

(* ... mark the exhausted ones, whatever they are by now, and lock the one that bids: *)
(* a lock that is not to be had costs the round, ...                                    *)
ResolveMark(c) ==
  LET who == call[c].step.who IN
  /\ call[c].pc = "mark"
  /\ intent' = Mark(intent, call[c].step.exhausted, "EXHAUSTED")
  /\ IF who = Nobody THEN Answered(c) /\ UNCHANGED lock
     ELSE IF Lockable(who)
     THEN Goes(c, "bid") /\ lock' = [lock EXCEPT ![who] = c]
     ELSE GoesOn(c) /\ UNCHANGED lock
  /\ UNCHANGED <<log, births, settled, sideVars>>

(* Mutant: one round is enough. *)
ResolveBidOnce(c) ==
  /\ call[c].pc = "bid"
  /\ Unlock(c)
  /\ Answered(c)
  /\ IF AutoAccepted(call[c].step.amount) THEN AutoBid(c) ELSE UNCHANGED <<log, intent>>
  /\ UNCHANGED <<births, settled, sideVars>>

(* ... and bid: the next round follows, unless the bid was refused. *)
ResolveBid(c) ==
  /\ call[c].pc = "bid"
  /\ Unlock(c)
  /\ IF AutoAccepted(call[c].step.amount)
     THEN AutoBid(c) /\ GoesOn(c)
     ELSE Answered(c) /\ UNCHANGED <<log, intent>>
  /\ UNCHANGED <<births, settled, sideVars>>

(* After the last round the auction is paused (REDIS_PROXY_RESOLVER_BOUNDED_ITERATION_EXCEEDED). *)
ResolveExceeded(c) ==
  /\ call[c].pc = "read"
  /\ call[c].rounds = MaxRounds
  /\ paused' = TRUE
  /\ Answered(c)
  /\ UNCHANGED <<log, intent, births, settled, lock, requests, disturbed>>

-----------------------------------------------------------------------------
(* PUT of a maximum: checked against the auctions row, which lags; a row keeps its created_at. *)
PutMaxBidIntent(c, max) ==
  /\ Request(c, TRUE)
  /\ Pg.status = "ACTIVE"
  /\ Executable(Pg, max)
  /\ lock[c] = Nobody
  /\ intent' = [intent EXCEPT ![c] = [status |-> "ACTIVE", max |-> max]]
  /\ births' = IF intent[c].status = "none" THEN Append(births, c) ELSE births
  /\ call' = [call EXCEPT ![c] = [Idle EXCEPT !.pc = "trigger read", !.ask = max, !.known[c] = max]]
  /\ UNCHANGED <<log, settled, lock, paused>>

(* triggerMaxBidIntentNow, on the auctions row again. *)
TriggerRead(c) ==
  /\ call[c].pc = "trigger read"
  /\ IF Pg.status # "ACTIVE" \/ Pg.leader = c \/ call[c].ask <= Pg.price THEN Answered(c)
     ELSE call' = [call EXCEPT ![c].pc = "trigger lock",
                     ![c].step = [who |-> c, amount |-> Least({Pg.price + 1, Cap}), exhausted |-> {}]]
  /\ UNCHANGED <<log, intent, births, settled, lock, sideVars>>

(* PlaceActiveMaxBidIntent *)
TriggerLock(c) ==
  /\ call[c].pc = "trigger lock"
  /\ IF Lockable(c) THEN Goes(c, "trigger bid") /\ lock' = [lock EXCEPT ![c] = c]
     ELSE Answered(c) /\ UNCHANGED lock
  /\ UNCHANGED <<log, intent, births, settled, sideVars>>

TriggerBid(c) ==
  /\ call[c].pc = "trigger bid"
  /\ Unlock(c)
  /\ Answered(c)
  /\ log' = IF AutoAccepted(call[c].step.amount) THEN Append(log, Accept(Hot, c, call[c].step.amount, TRUE))
            ELSE log
  /\ UNCHANGED <<intent, births, settled, sideVars>>

(* Mutant: DELETE does not take the advisory lock. *)
DeleteUnlocked(c) ==
  /\ Request(c, TRUE)
  /\ intent[c].status = "ACTIVE"
  /\ intent' = [intent EXCEPT ![c].status = "CANCELLED"]
  /\ UNCHANGED <<log, births, settled, lock, call, paused>>

DeleteMaxBidIntent(c) ==
  /\ Request(c, TRUE)
  /\ intent[c].status = "ACTIVE"
  /\ lock[c] = Nobody
  /\ intent' = [intent EXCEPT ![c].status = "CANCELLED"]
  /\ UNCHANGED <<log, births, settled, lock, call, paused>>

(* The client goes away, or the process dies: the connection that held the lock is closed. *)
Abandon(c) ==
  /\ call[c] # Idle
  /\ Answered(c)
  /\ Unlock(c)
  /\ disturbed' = TRUE
  /\ UNCHANGED <<log, intent, births, settled, paused, requests>>

(* An operator resumes the auction: ResumeAuction, after its checks. *)
Resume ==
  /\ paused
  /\ paused' = FALSE
  /\ UNCHANGED <<log, intent, births, settled, lock, call, requests, disturbed>>

(* The settlement catches up by one decision; Settlement is about how. *)
Settle ==
  /\ settled < Len(log)
  /\ settled' = settled + 1
  /\ UNCHANGED <<log, intent, births, lock, call, sideVars>>

CallStep(c) ==
  \/ PreemptRead(c) \/ PreemptLoad(c) \/ PreemptLock(c) \/ PreemptBid(c) \/ ManualBid(c)
  \/ ResolveRead(c) \/ ResolveLoad(c) \/ ResolveMark(c) \/ ResolveBid(c) \/ ResolveExceeded(c)
  \/ TriggerRead(c) \/ TriggerLock(c) \/ TriggerBid(c)

HotLaneNext ==
  \/ Start /\ settled' = 1 /\ UNCHANGED <<lock, call, sideVars>>
  \/ \E c \in Users :
       \/ \E amount \in 1 .. Cap : PlaceBid(c, amount) \/ PutMaxBidIntent(c, amount)
       \/ DeleteMaxBidIntent(c)
       \/ CallStep(c)
       \/ Abandon(c)
  \/ Resume
  \/ Settle

HotLaneSpec == HotLaneInit /\ [][HotLaneNext]_vars

-----------------------------------------------------------------------------
Places ==
  {"idle", "preempt", "preempt load", "preempt lock", "preempt bid", "lua", "read", "load", "mark", "bid",
   "trigger read", "trigger lock", "trigger bid"}

HotLaneTypeOK ==
  /\ log \in Seq([status : {"ACTIVE", "SOLD"}, price : 0 .. Cap, leader : Users \cup {Nobody}, auto : BOOLEAN])
  /\ settled \in 0 .. Len(log)
  /\ intent \in [Users -> [status : {"none", "ACTIVE", "CANCELLED", "EXHAUSTED", "TERMINAL"}, max : 0 .. Cap]]
  /\ births \in Seq(Nat)
  /\ lock \in [Users -> Users \cup {Nobody}]
  /\ call \in [Users -> [pc : Places, ask : 0 .. Cap, price : 0 .. Cap, leader : Users \cup {Nobody},
                         known : [Users -> 0 .. Cap], rounds : 0 .. MaxRounds,
                         step : [who : Users \cup {Nobody}, amount : 0 .. Cap, exhausted : SUBSET Users]]]
  /\ requests \in 0 .. MaxRequests
  /\ paused \in BOOLEAN
  /\ disturbed \in BOOLEAN

ByProxy == Len(log') > Len(log) /\ log # <<>> /\ log'[Len(log')].auto

(* The call that bids for a proxy, and its amount. *)
Bids(c) == call[c].pc \in {"preempt bid", "bid", "trigger bid"} /\ call'[c] # call[c]

(* A proxy never pays more than it has to.  It stays within the maximum its user had  *)
(* in force when the round loaded the intents (for a PUT, within the one it has just   *)
(* set); and it goes further than one increment over the price, or over its own bid,   *)
(* only where a rival of that round has shown the amount just below it, by its maximum *)
(* or by the bid it asked for.  The price was read before the intents and the intents  *)
(* before the lock (engine.go:1131).  What is put between the load and the lock is      *)
(* overlooked: engine.go:1260 looks at the status of the intent again, and not at its  *)
(* maximum.                                                                             *)
ProxyIsFrugal ==
  [][ByProxy =>
       LET u == log'[Len(log')].leader  amount == log'[Len(log')].price IN
       \E c \in Users :
         /\ Bids(c) /\ call[c].step.who = u
         /\ amount <= call[c].known[u]
         /\ \/ amount = Hot.price + 1 /\ Hot.leader # u
            \/ \E r \in Users \ {u} : call[c].known[r] >= amount - 1 \/ (r = c /\ call[c].ask >= amount - 1)]_log

(* An intent that its user cancelled does not bid, however late the call that had *)
(* chosen it before: the lock spans the last look at the status and the bid        *)
(* (engine.go:1241, max_bid_intent.go:182).                                        *)
CancelledNeverBids ==
  [][ByProxy => intent[log'[Len(log')].leader].status # "CANCELLED"]_log

(* When the auction starts, and when a manual bid was accepted and nobody else acted *)
(* until its answer, nobody is left outbid whose maximum is still executable: the     *)
(* rounds of the proxies came to the end they should (engine.go:1131, bid.go:1023).   *)
ProxiesServed ==
  (Started /\ Quiet /\ ~disturbed /\ Hot.status = "ACTIVE") =>
    \A u \in ActiveIn(intent) : u = Hot.leader \/ intent[u].max <= Hot.price

(* The limit on the rounds, which pauses the auction for everyone (engine.go:1137, 1214), *)
(* is not met by a manual bid that nobody disturbs, whatever the maxima: the best intent  *)
(* takes the lead, defends it once, and finds everybody served.  Only rounds that others  *)
(* cost it, by the locks they hold and the bids and maxima they put, lead to a pause.      *)
PauseNeedsRivals == paused => disturbed
=============================================================================
