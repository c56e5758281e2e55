------------------------------ MODULE BidRequests ------------------------------
(***************************************************************************)
(* An HTTP bid of one auction from the gateway to its decision             *)
(* (gateway.AuctionHandler.PlaceBid): admission (replay, GCRA rate limits, *)
(* the in-flight semaphore), the room's access check, the Lua script, the  *)
(* wait for the relay's acknowledgement (waitKafkaAck), and the cold start *)
(* that seeds the hot state from PostgreSQL after a loss of Redis          *)
(* (redisengine.placeBidWithSnapshot, runColdStart).                       *)
(*                                                                         *)
(* A bidder has one bid, whose idempotency key is the bidder; two requests *)
(* of a bidder are the bid and its retry.  What a decision decides is in   *)
(* HotEngine, how the relay works in LedgerRelay, how a decision settles   *)
(* in Settlement: here the decision is its number.                         *)
(***************************************************************************)
EXTENDS Integers, Sequences, FiniteSets

CONSTANTS
  Requests,        \* the HTTP requests
  Bidders,         \* their users, each with one idempotency key
  None,            \* no hot state, no snapshot, no flight
  UserLimit,       \* BidUserLimitPerSecond
  AuctionLimit,    \* BidAuctionLimitPerSecond
  Window,          \* BidLimitWindow, in ticks
  InFlight,        \* BidAuctionMaxInFlight
  MaxNow,          \* bound on the clock
  MaxSpent         \* bound on the losses of Redis, failed calls, expiries of
                   \* the access cache and evictions, taken together

ASSUME BidRequestsAssumption ==
  /\ {UserLimit, AuctionLimit, Window, InFlight} \subseteq Nat \ {0}
  /\ {MaxNow, MaxSpent} \subseteq Nat
  /\ None \notin Requests \cup Nat \cup {"acked", "failed", "durable"} \cup [seq : Nat, paused : BOOLEAN]

Auction == "auction"                   \* the limiter key of the whole auction

VARIABLES
  now,             \* the clock
  tat,             \* the limiter keys in Redis
  admitted,        \* history variable: the calls each limiter key let through
  inUse,           \* permits taken from the auction's semaphore
  request,         \* each request: its step, bidder, clock reading, snapshot,
                   \* what its latch received and how durable its answer is
  unhealthy,       \* kafkaRelayUnhealthy: the last append failed
  flight,          \* coldStartGroup: the leader of the cold start, if any
  hot,             \* bid_engine state in Redis: the last number and paused
  idem,            \* bidders with an idempotency record in Redis
  acked,           \* bidders whose record says KAFKA_ACKED
  pending,         \* the pending hash: numbers decided and not acknowledged
  member,          \* bidders whose membership is cached in Redis
  kafka,           \* the decisions in the Kafka log, as [seq, bidder]
  stream,          \* the decisions in the Redis stream, not yet relayed
  settled,         \* redis_engine_settlements: how much of the log is settled
  paused,          \* auctions.engine_paused
  issued,          \* history variable: the decisions made, in order
  spent            \* what MaxSpent bounds

gateVars  == <<now, tat, admitted, inUse>>
redisVars == <<hot, idem, acked, pending, member, stream>>
logVars   == <<kafka, unhealthy>>
pgVars    == <<settled, paused>>
vars == <<gateVars, request, flight, redisVars, logVars, pgVars, issued, spent>>

New == [pc |-> "new", bidder |-> None, at |-> 0, snap |-> None, latch |-> None,
        answer |-> None]
Holding == {"acl", "script", "wait", "pending", "replay", "load", "safe",
            "record", "decided", "eager", "ack"}

Init ==
  /\ now = 0 /\ tat = [k \in Bidders \cup {Auction} |-> 0]
  /\ admitted = [k \in Bidders \cup {Auction} |-> <<>>] /\ inUse = 0
  /\ request = [q \in Requests |-> New] /\ flight = None
  /\ unhealthy = FALSE
  /\ hot = None /\ idem = {} /\ acked = {} /\ pending = {} /\ member = {} /\ stream = <<>>
  /\ kafka = <<>> /\ settled = 0 /\ paused = FALSE
  /\ issued = <<>> /\ spent = 0

Spend == spent < MaxSpent /\ spent' = spent + 1
At(q, pc) == request[q].pc = pc
Goto(q, pc) == request' = [request EXCEPT ![q].pc = pc]
Bidder(q) == request[q].bidder

(* Mutant: the permit is not given back.                                   *)
ReleaseNothing == UNCHANGED inUse

(* PlaceBid returns: the deferred Release gives the permit back.           *)
Release == inUse' = inUse - 1
Leave(q) == Goto(q, "done") /\ Release
LeaveWith(q, answer) ==
  /\ request' = [request EXCEPT ![q].pc = "done", ![q].latch = None, ![q].answer = answer]
  /\ Release

(* Settlement marks the idempotency record of a settled decision COMPLETED *)
Completed(b) == \E i \in 1 .. settled : kafka[i].bidder = b

-----------------------------------------------------------------------------
(* Admission                                                               *)

(* A completed bid is answered from PostgreSQL; any other goes on to the   *)
(* limits, with the clock it reads now.                                    *)
Admit(q, b) ==
  /\ At(q, "new")
  /\ request' = [request EXCEPT ![q].pc = IF Completed(b) THEN "done" ELSE "user",
                                ![q].bidder = b, ![q].at = now]
  /\ UNCHANGED <<gateVars, flight, redisVars, logVars, pgVars, issued, spent>>

(* The GCRA script on one key: the spacing of calls at the limit, the time *)
(* from which a call is let through, and the theoretical arrival time kept *)
(* in the key (whose TTL outlasts it).                                     *)
Emission(limit) == IF Window \div limit > 0 THEN Window \div limit ELSE 1

(* Mutant: one call more than the burst is let through.                    *)
AllowBurstAndOne(k, limit) == tat[k] - limit * Emission(limit)

AllowAt(k, limit) == tat[k] - (limit - 1) * Emission(limit)

NextTat(k, limit, at) ==
  (IF tat[k] > at THEN tat[k] ELSE at) + Emission(limit)

LimitOf(k) == IF k = Auction THEN AuctionLimit ELSE UserLimit

EvalGCRALimit(q, k, next) ==
  LET at == request[q].at
      limit == LimitOf(k)
  IN IF at < AllowAt(k, limit)
     THEN Goto(q, "done") /\ UNCHANGED <<tat, admitted>>
     ELSE /\ tat' = [tat EXCEPT ![k] = NextTat(k, limit, at)]
          /\ admitted' = [admitted EXCEPT ![k] = Append(@, at)]
          /\ Goto(q, next)

(* The user's key, then (the IP address is like a user) the auction's.  A  *)
(* Redis error lets the request through.                                   *)
CheckRedisLimits(q) ==
  /\ \/ At(q, "user") /\ EvalGCRALimit(q, Bidder(q), "auction") /\ UNCHANGED spent
     \/ At(q, "auction") /\ EvalGCRALimit(q, Auction, "permit") /\ UNCHANGED spent
     \/ /\ At(q, "user") \/ At(q, "auction")
        /\ Spend /\ Goto(q, "permit") /\ UNCHANGED <<tat, admitted>>
  /\ UNCHANGED <<now, inUse, flight, redisVars, logVars, pgVars, issued>>

(* The semaphore never blocks: a full one answers BID_AUCTION_TOO_HOT.     *)
AcquireLocalPermit(q) ==
  /\ At(q, "permit")
  /\ IF inUse < InFlight
     THEN inUse' = inUse + 1 /\ Goto(q, "acl")
     ELSE Goto(q, "done") /\ UNCHANGED inUse
  /\ UNCHANGED <<now, tat, admitted, flight, redisVars, logVars, pgVars, issued, spent>>

-----------------------------------------------------------------------------
(* The room's access check: a cached membership answers; else PostgreSQL   *)
(* does, and only a membership is cached (the write may fail unnoticed).   *)

RequireActiveMembership(q) ==
  /\ At(q, "acl")
  /\ \/ /\ Bidder(q) \in member
        /\ Goto(q, "script") /\ UNCHANGED <<member, inUse, spent>>
     \/ /\ Bidder(q) \notin member
        /\ Goto(q, "script") /\ UNCHANGED inUse
        /\ \/ member' = member \cup {Bidder(q)} /\ UNCHANGED spent
           \/ Spend /\ UNCHANGED member
     \/ /\ Bidder(q) \notin member
        /\ Leave(q) /\ UNCHANGED <<member, spent>>
  /\ UNCHANGED <<now, tat, admitted, flight, hot, idem, acked, pending, stream, logVars, pgVars, issued>>

(* Pausing marks PostgreSQL, then the hot state if there is one.           *)
Pause ==
  /\ paused' = TRUE
  /\ hot' = IF hot = None THEN None ELSE [hot EXCEPT !.paused = TRUE]

-----------------------------------------------------------------------------
(* The Lua script                                                          *)

(* The hot state the script runs on: what Redis has, else the snapshot the *)
(* request carries, which is one of an auction that is not paused.         *)
Base(q) ==
  IF hot # None \/ request[q].snap = None
  THEN hot
  ELSE [seq |-> request[q].snap, paused |-> FALSE]

(* A decision takes the next number, whatever it decides.                  *)
Decide(q) ==
  LET d == [seq |-> Base(q).seq + 1, bidder |-> Bidder(q)]
  IN /\ hot' = [Base(q) EXCEPT !.seq = d.seq]
     /\ idem' = idem \cup {d.bidder}
     /\ pending' = pending \cup {d.seq}
     /\ stream' = Append(stream, d)
     /\ issued' = Append(issued, d)

(* The record of the bid is replayed; without hot state and snapshot the   *)
(* request goes to the cold start, alone or behind the one in flight; a    *)
(* paused engine or a membership no longer cached is an error; any other   *)
(* bid is decided.  A decided bid goes on to wait for the acknowledgement. *)
PlaceBid(q) ==
  /\ At(q, "script")
  /\ \/ /\ Bidder(q) \in idem
        /\ Goto(q, "record") /\ UNCHANGED <<redisVars, inUse, flight, issued>>
     \/ /\ Bidder(q) \notin idem /\ Base(q) = None
        /\ IF flight = None THEN flight' = q /\ Goto(q, "pending")
                            ELSE UNCHANGED flight /\ Goto(q, "wait")
        /\ UNCHANGED <<redisVars, inUse, issued>>
     \/ /\ Bidder(q) \notin idem /\ Base(q) # None
        /\ Base(q).paused \/ Bidder(q) \notin member
        /\ hot' = Base(q)
        /\ Leave(q) /\ UNCHANGED <<idem, acked, pending, member, stream, flight, issued>>
     \/ /\ Bidder(q) \notin idem /\ Base(q) # None
        /\ ~Base(q).paused /\ Bidder(q) \in member
        /\ Decide(q)
        /\ Goto(q, "decided") /\ UNCHANGED <<inUse, acked, flight, member>>
  /\ UNCHANGED <<now, tat, admitted, logVars, pgVars, spent>>

(* A script that fails pauses the auction.                                 *)
ScriptFails(q) ==
  /\ At(q, "script") /\ Spend
  /\ Pause
  /\ Leave(q)
  /\ UNCHANGED <<now, tat, admitted, flight, idem, acked, pending, member, stream, logVars, settled, issued>>

-----------------------------------------------------------------------------
(* How durable the answer is: "acked" (KAFKA_ACKED) or "durable"           *)
(* (ENGINE_DURABLE), which promises only that Redis has the decision       *)

(* A replay reads the record once more, and its answer is the record's; a  *)
(* record lost since is answered PROCESSING_RETRY_LATER.                   *)
Replay(q) ==
  /\ At(q, "record")
  /\ LeaveWith(q, IF Bidder(q) \in acked THEN "acked"
                  ELSE IF Bidder(q) \in idem THEN "durable" ELSE None)
  /\ UNCHANGED <<now, tat, admitted, flight, redisVars, logVars, pgVars, issued, spent>>

(* After a failed append nobody waits; else a latch is registered...       *)
RegisterWaiter(q) ==
  /\ At(q, "decided")
  /\ IF unhealthy THEN LeaveWith(q, "durable")
                  ELSE Goto(q, "eager") /\ UNCHANGED inUse
  /\ UNCHANGED <<now, tat, admitted, flight, redisVars, logVars, pgVars, issued, spent>>

(* Mutant: the record is not read once the latch is there.                 *)
EagerCheckSkipped(q) ==
  /\ At(q, "eager") /\ Goto(q, "ack")
  /\ UNCHANGED <<gateVars, flight, redisVars, logVars, pgVars, issued, spent>>

(* ... then the record is read, for a relay that was faster (an error      *)
(* reads as not acknowledged yet) ...                                      *)
EagerCheck(q) ==
  /\ At(q, "eager")
  /\ \/ Bidder(q) \in acked /\ LeaveWith(q, "acked") /\ UNCHANGED spent
     \/ Bidder(q) \notin acked /\ Goto(q, "ack") /\ UNCHANGED <<inUse, spent>>
     \/ Spend /\ Goto(q, "ack") /\ UNCHANGED inUse
  /\ UNCHANGED <<now, tat, admitted, flight, redisVars, logVars, pgVars, issued>>

(* ... and the latch answers, or the 40 ms run out.                        *)
AwaitAck(q) ==
  /\ At(q, "ack")
  /\ \/ request[q].latch = "acked" /\ LeaveWith(q, "acked")
     \/ LeaveWith(q, "durable")
  /\ UNCHANGED <<now, tat, admitted, flight, redisVars, logVars, pgVars, issued, spent>>

(* The relay's signal reaches the latches registered for the bidder.       *)
Signal(b, outcome) ==
  request' = [q \in Requests |->
    IF Bidder(q) = b /\ request[q].pc \in {"eager", "ack"} /\ request[q].latch = None
    THEN [request[q] EXCEPT !.latch = outcome] ELSE request[q]]

-----------------------------------------------------------------------------
(* Cold start.  (The append marker it reads first is written by nothing.)  *)

(* The flight ends: its leader and all who wait on it get the same answer, *)
(* or retry the script with the same snapshot.                             *)
InFlightOf(q) == {q} \cup {p \in Requests : At(p, "wait")}

Answer(q) ==
  /\ flight' = None
  /\ request' = [p \in Requests |-> IF p \in InFlightOf(q)
                   THEN [request[p] EXCEPT !.pc = "done"] ELSE request[p]]
  /\ inUse' = inUse - Cardinality(InFlightOf(q))

Retry(q, snap) ==
  /\ flight' = None
  /\ request' = [p \in Requests |-> IF p \in InFlightOf(q)
                   THEN [request[p] EXCEPT !.pc = "script", !.snap = snap]
                   ELSE request[p]]
  /\ UNCHANGED inUse

(* Decisions not acknowledged: the state is back, or it must be rebuilt.   *)
CheckPending(q) ==
  /\ At(q, "pending")
  /\ \/ pending = {} /\ Goto(q, "replay") /\ UNCHANGED <<flight, inUse, paused, hot>>
     \/ pending # {} /\ hot # None /\ Retry(q, None) /\ UNCHANGED <<paused, hot>>
     \/ pending # {} /\ hot = None /\ Answer(q) /\ Pause
  /\ UNCHANGED <<now, tat, admitted, idem, acked, pending, member, stream, logVars, settled, issued, spent>>

CompletedReplay(q) ==
  /\ At(q, "replay")
  /\ IF Completed(Bidder(q)) THEN Answer(q)
                             ELSE Goto(q, "load") /\ UNCHANGED <<flight, inUse>>
  /\ UNCHANGED <<now, tat, admitted, redisVars, logVars, pgVars, issued, spent>>

(* auctions.engine_seq is the number of the last settled decision.         *)
EngineSeq == IF settled = 0 THEN 0 ELSE kafka[settled].seq

LoadSnapshot(q) ==
  /\ At(q, "load")
  /\ IF paused
     THEN Answer(q)
     ELSE /\ request' = [request EXCEPT ![q].pc = "safe", ![q].snap = EngineSeq]
          /\ UNCHANGED <<flight, inUse>>
  /\ UNCHANGED <<now, tat, admitted, redisVars, logVars, pgVars, issued, spent>>

(* Mutant: a snapshot always seeds the hot state.                          *)
SeedsAnything(q) == TRUE

(* A snapshot seeds the hot state only of an auction PostgreSQL holds no   *)
(* settlement, no checkpoint and no engine number of.                      *)
CanSeedRedis(q) == settled = 0 /\ request[q].snap = 0

EnsureCanSeed(q) ==
  /\ At(q, "safe")
  /\ IF CanSeedRedis(q)
     THEN Retry(q, request[q].snap) /\ UNCHANGED <<paused, hot>>
     ELSE Answer(q) /\ Pause
  /\ UNCHANGED <<now, tat, admitted, idem, acked, pending, member, stream, logVars, settled, issued, spent>>

-----------------------------------------------------------------------------
(* The rest of the system                                                  *)

Tick ==
  /\ now < MaxNow /\ now' = now + 1
  /\ UNCHANGED <<tat, admitted, inUse, request, flight, redisVars, logVars, pgVars, issued, spent>>

(* The relay appends the next decision to Kafka, acknowledges it in Redis  *)
(* (the pipeline may fail, unretried) and only then wakes who waits.       *)
Relay ==
  /\ stream # <<>>
  /\ LET d == Head(stream) IN
       /\ kafka' = Append(kafka, d)
       /\ \/ /\ acked' = acked \cup {d.bidder} /\ pending' = pending \ {d.seq}
             /\ Signal(d.bidder, "acked") /\ UNCHANGED spent
          \/ Spend /\ UNCHANGED <<acked, pending, request>>
  /\ stream' = Tail(stream)
  /\ unhealthy' = FALSE
  /\ UNCHANGED <<gateVars, flight, hot, idem, member, pgVars, issued>>

(* An append that fails opens the circuit and lets nobody wait out.  (One  *)
(* whose answer is lost may have been made: LedgerRelay.)                  *)
RelayFails ==
  /\ stream # <<>> /\ Spend
  /\ unhealthy' = TRUE
  /\ Signal(Head(stream).bidder, "failed")
  /\ UNCHANGED <<gateVars, flight, redisVars, kafka, pgVars, issued>>

(* The settlement worker settles the next decision of the log.             *)
Settle ==
  /\ settled < Len(kafka) /\ settled' = settled + 1
  /\ UNCHANGED <<gateVars, request, flight, redisVars, logVars, paused, issued, spent>>

MembershipExpires(b) ==
  /\ Spend /\ b \in member /\ member' = member \ {b}
  /\ UNCHANGED <<gateVars, request, flight, hot, idem, acked, pending, stream, logVars, pgVars, issued>>

(* Redis loses the hot state (it is evicted or expires), or all it has.    *)
LoseState ==
  /\ Spend /\ hot # None /\ hot' = None
  /\ UNCHANGED <<gateVars, request, flight, idem, acked, pending, member, stream, logVars, pgVars, issued>>

LoseRedis ==
  /\ Spend /\ hot # None /\ hot' = None
  /\ tat' = [k \in DOMAIN tat |-> 0] /\ admitted' = [k \in DOMAIN tat |-> <<>>]
  /\ idem' = {} /\ acked' = {} /\ pending' = {} /\ member' = {} /\ stream' = <<>>
  /\ UNCHANGED <<now, inUse, request, flight, logVars, pgVars, issued>>

(* No request is between the snapshot it loaded and the script.            *)
NoSnapshotInHand ==
  \A q \in Requests : At(q, "script") \/ At(q, "safe") => request[q].snap = None

RequestStep(q) ==
  \/ \E b \in Bidders : Admit(q, b)
  \/ CheckRedisLimits(q) \/ AcquireLocalPermit(q)
  \/ RequireActiveMembership(q)
  \/ PlaceBid(q) \/ ScriptFails(q)
  \/ Replay(q) \/ RegisterWaiter(q) \/ EagerCheck(q) \/ AwaitAck(q)
  \/ CheckPending(q) \/ CompletedReplay(q) \/ LoadSnapshot(q) \/ EnsureCanSeed(q)

Background ==
  \/ Tick \/ Relay \/ RelayFails \/ Settle
  \/ \E b \in Bidders : MembershipExpires(b)

(* Redis is lost only when every decision is settled...                    *)
Next ==
  \/ \E q \in Requests : RequestStep(q)
  \/ Background
  \/ NoSnapshotInHand /\ settled = Len(issued) /\ (LoseState \/ LoseRedis)

Spec == Init /\ [][Next]_vars

(* ... or at any time.                                                     *)
LossyNext ==
  \/ \E q \in Requests : RequestStep(q)
  \/ Background
  \/ NoSnapshotInHand /\ (LoseState \/ LoseRedis)

LossySpec == Init /\ [][LossyNext]_vars

-----------------------------------------------------------------------------
(* Properties                                                              *)

(* No engine number is given out twice and no bid is decided twice, not    *)
(* even by a bid and its retry on the two sides of a loss of Redis: a cold *)
(* start of the engine seeds only an auction that decided nothing yet      *)
(* (ensureColdSnapshotCanSeedRedis; the first check of the Lua script).    *)
DecidedOnce ==
  \A i, j \in 1 .. Len(issued) : i # j =>
    /\ issued[i].seq # issued[j].seq
    /\ issued[i].bidder # issued[j].bidder

(* The permits taken are those of the requests past the semaphore, never   *)
(* more than it has: no path through the handler, the cold start's shared  *)
(* answers included, loses a permit or gives it back twice                 *)
(* (acquireLocalPermit, the deferred Release of PlaceBid).                 *)
PermitsMatchRequests ==
  /\ inUse = Cardinality({q \in Requests : request[q].pc \in Holding})
  /\ inUse <= InFlight

(* What GCRA promises, although requests are evaluated with clocks they    *)
(* read earlier: the calls let through between two times are at most the   *)
(* burst and one per emission interval (bidAdmissionGCRAScript).           *)
RateBounded ==
  \A k \in DOMAIN admitted : \A a, b \in 0 .. MaxNow : a <= b =>
    Cardinality({i \in 1 .. Len(admitted[k]) : admitted[k][i] \in a .. b})
      <= LimitOf(k) + (b - a) \div Emission(LimitOf(k))

(* An answer KAFKA_ACKED is the truth, across losses of Redis: the bid's   *)
(* decision is in the Kafka log.                                           *)
AckedIsInKafka ==
  \A q \in Requests : request[q].answer = "acked" =>
    \E i \in 1 .. Len(kafka) : kafka[i].bidder = Bidder(q)

(* No one waits in vain: an acknowledgement made before or while a request *)
(* registered its latch has been read or is in the latch, unless reading   *)
(* the record failed.                                                      *)
NoLostWakeup ==
  \A q \in Requests : At(q, "ack") /\ Bidder(q) \in acked /\ spent = 0 =>
    request[q].latch = "acked"

(* The wait for the relay's acknowledgement neither invents one nor misses *)
(* one (waitKafkaAck: the latch is registered BEFORE the eager check).     *)
AcksAreTrue == AckedIsInKafka /\ NoLostWakeup

(* A cold start seeds the hot state from PostgreSQL only when PostgreSQL   *)
(* has every decision of the Kafka log (docs/03-backend/                   *)
(* 05-engineering-difficulties.md: the cold start checks checkpoint, Kafka *)
(* and PostgreSQL, and pauses when it cannot prove safety).                *)
SeedIsComplete ==
  [][ hot = None /\ hot' # None => settled = Len(kafka) ]_vars

=============================================================================
