# Verification of the live-auction backend

This directory holds TLA+ models of the live auction backend, the TLC runs that
check them, and proofs checked by TLAPS. Paths are relative to the repository;
`engine.go` and `kafka_ledger.go` are in `backend/internal/redisengine`, other
paths in `backend/internal`.

Run from this directory: `tlc -config X.cfg M` for a run, `tlapm MProofs.tla`
for the proofs about module `M`.

## 1. The system

A bid is decided in Redis by a Lua script, made durable in Kafka, and settled in
PostgreSQL:

```
client -> gateway -> Lua script in Redis --XADD--> stream
                      (state, idem, pending)          | relay goroutines (XREAD, produce, ack, SET cursor)
                                                      v
                                              Kafka partition of the auction
                                                      | settlement workers (fetch, settle, commit offset)
                                                      v
   reconciler, resume <------------------------- PostgreSQL: rows, bids, events, order, checkpoint
   (pause Redis and PG, rebuild Redis)                | outbox relay
                                                      v
                                              WebSocket hub -> clients
```

### Inventory

| Component | State it keeps | Operations | Talks to | What is hard | What makes it correct | Module |
|---|---|---|---|---|---|---|
| Hot engine (`engine.go` 64-640, 690-1400) | Redis hash of the auction, idempotency records, confirm tokens, stream | place, confirm, proxy bid, pause, fence, rebuild | relay (stream, trigger), settlement (epoch, pause) | client retries, two scripts over one record, clocks read before the script, soft close | one decision per key; state equals log; prices rise; the end is bounded; large jumps confirmed | `HotEngine` |
| Bid request: admission (`gateway/bid_admission.go`), acknowledgement wait (`engine.go` 690-940), cold start (1395-1900) | limiter keys, permits, latches, the shared flight | admit, decide, wait, seed | hot engine, relay, PostgreSQL | stale clocks in the limiter, an acknowledgement racing the registration of its latch, answers shared by a flight, loss of Redis | decided once; no permit lost; acknowledged means durable | `BidRequests` |
| Decision relay (2375-2602) | stored cursor, batch in memory, pending hash | read, append, ack, advance | Redis, Kafka | several relays without a lock, a call written in pieces of which some are lost or doubled, cursor moving back, crash at each call | no decision a whole batch ahead of another; no early ack; nothing skipped | `LedgerRelay` |
| Settlement worker (2611-4113) and dead letters (3593-3625) | offsets, rows, bids, events, order, checkpoint, uncommitted messages | batch and single path, retry, dead letter, commit | Kafka, PostgreSQL, Redis pause | redelivery, duplicates, two workers after a rebalance, two transactions per record, commits that cover what is before them | every decision once and in order; public record agrees; nothing lost silently | `Settlement` |
| Reconciler and resume (3627-3957, 5315-5535) | pause flags, epoch, checkpoint | reconcile, pause, auto-resume, rebuild | all the above | acts on a system that goes on; several calls, each may fail | no decision twice, none lost, over a rebuild | `Settlement` |
| Proxy bidding (941-1344, 1494-1567, `auction/max_bid_intent.go`, `auction/bid.go` 1023-1214) | intents, advisory locks | register, cancel, pre-empt, resolve | hot engine | price, intents and lock are read one after another while others bid; an intent exhausted before its bid | nobody wrongly outbid, no proxy pays more than needed or after a cancellation | `MaxBids`, `ProxyBidding` |
| Scheduler (`scheduler/scheduler.go`) and fences (1858-2039) | jobs, leases | claim, end, fence, expire an order | hot engine, PostgreSQL | a bid between read and fence; lost leases; late settlement of a terminal auction | the winner is the last accepted bid; jobs finish | `Scheduler`, `AuctionHouse` |
| Lifecycle (`auction/repository.go`, `auction/rules.go`) | status, end, narrating flag | create, schedule, start, cancel, shorten, narrate | scheduler, hot engine | a host's second call in Redis races the scheduler | one terminal event, in agreement with the row | `AuctionHouse` |
| Orders, deposits, payments (`auction/bid.go`, `auction/deposit.go`, `gateway/alipay_handlers.go`) | orders, payment events, idempotency records | create, pay, expire, webhook, query | scheduler, Alipay | webhook against expiry, replayed payments, a payment of three transactions | paid once, never both paid and expired; the deposit agrees | `Orders` |
| Outbox relay (`outbox/relay.go`) | claims, shard leases, deliveries, control signals | claim, publish, mark, dead-letter, snapshot | hub, Redis history | unfenced marks after a lost lease, dead events in the middle | published in sequence, at least once | `Delivery` |
| Realtime hub and sessions (`realtime`) | subscriptions, queues, shared rebuild | subscribe, recover, write, disconnect | clients | recovery against publication, slow consumers, a shared rebuild | a viewer misses nothing between its base and now | `Delivery` |
| Automatic commentary (`ai/repository.go`, `gateway/auction_handlers.go` 958-998) | job queue, messages | offer, backfill, claim, generate, store, fail | settlement's events | lease against late answer, workers under one id | every event that is looked for commented on; finished jobs stay | `Commentary` |
| Reconcile and invariant checkers (`reconcile`, `invariant`) | none | SQL audits | PostgreSQL, Redis | | what they look for never happens | predicates in `Settlement`, `AuctionHouse`, `Delivery` |
| Legacy PostgreSQL bid lane (`bid_lane.go`) | queue | place | PostgreSQL | serves tests only | | |
| Leaderboard, tickets, sessions, ACL, HTTP glue, other AI, live operations | their own rows | | | single statements beside the auction | | |
| Configuration, observability, storage, commands, load tools, front ends | none of the auction's | | | | | |

`PROJECT.json` lists the same components with what is modelled, and the
hazards of the code, each at its line, with the properties that cover it.

## 2. Modules

| Module | Models | Kind |
|---|---|---|
| `LedgerRelay` | the relay over the stream, the pending hash and the partition | component |
| `Settlement` | settlement workers, dead letters, reconcile and resume over the partition | component |
| `DecisionPipeline` | `LedgerRelay` and `Settlement` joined on engine, stream, partition and faults | composition |
| `SettledLedger` | what the pipeline promises: decided, durable, told, settled, announced | abstract specification |
| `HotEngine` | the two Lua scripts and the calls around them | component |
| `BidRequests` | a bid from the gateway to its answer, cold start and loss of Redis | component |
| `MaxBids` | intents and the rules by which proxies bid; the bids at the start of an auction | pure part |
| `ProxyBidding` | the hot lane's calls around the intents | component, extends `MaxBids` |
| `Scheduler` | the job table and its runners | component |
| `Orders` | one order, its payments and its expiry job | component, extends `Scheduler` |
| `AuctionHouse` | one auction from draft to order: host, engine, settlement, fence | composition, extends `Orders` |
| `Delivery` | outbox relays, Redis history, hub and viewers | component |
| `Commentary` | the commentary queue and its workers | component |
| `LedgerRelayProofs`, `SettlementProofs`, `DecisionPipelineProofs`, `HotEngineProofs`, `BidRequestsProofs`, `ProxyBiddingProofs`, `AuctionHouseProofs`, `DeliveryProofs` | the theorems about the module each is named for (section 4); those about `Orders`, which `AuctionHouse` extends, are in `AuctionHouseProofs` | proofs |
| `MC*` | constants, symmetry and bounds for TLC | |

Definitions introduced by a comment "Mutant" are plausible bugs: `PROJECT.json`
names for each property one of them that breaks it. No next-state relation uses
them.

### LedgerRelay

`stream` is the Redis stream, `klog` the partition (a record is the position of
its stream entry), `cursor` the stored relay cursor and `relay[r]` the local
variables of one call of `relayAuctionLogBatch`. Each remote call is one action
(`GetCursor`, `ReadStream`, `AppendBatch`, `MarkAcked`, `AdvanceCursor`) with
the ways it fails (`AppendTwice`, `AppendError`, `MarkAckedFails`,
`AdvanceCursorFails`) and a crash at any point. `Decide` stands for the Lua
script; `RedisRebuild` for a resume, with any number up to the length of the
stream to go on from, which covers every snapshot a resume can load. It does
not look at what is settled, so it allows more rebuilds than the code does.

A call of `AppendBatch` is written in pieces. The process has one Kafka writer
(`kafka_ledger.go:94-115`), which cuts what it is given at 1000 messages or 1 MB,
and other relays and auctions fill the same broker batches, so a call may be cut
anywhere. Each step of `AppendBatch`, `AppendTwice` or `AppendError` is one
piece, of any length: written, written twice or given up; the next piece is tried
whatever became of the one before, and the call fails when one of them did
(`sent`, `lost`). A later piece may therefore be in the partition without an
earlier one; `HolesAreShort` bounds such a hole by a batch.

### Settlement

`work[w]` is the state of `ProcessKafka` in one worker: what was fetched and not
committed (`unc`), what this pass has still to look at (`todo`), what is
collected for the commit (`done`). `rows` is `redis_engine_settlements`, `pg`
the auctions row. The pass is split where the code leaves the process: the
transaction of a batch, the attempt row, the settling transaction, each commit
of offsets. `recordSettlementAttempt` and the settlement proper are two
transactions in the code and two actions here, which is where a second worker
gets in.

`Relay` is the environment: it may write any run of the stream's entries, once
or twice, also past a hole. `DecisionPipeline` puts the real relay there:
`PipelineInvariant` proves that the invariants of both sides survive the
exchange.

A message is an epoch, a number and a kind (accepted, sold, a rejection that is
broadcast, a quiet rejection). Amounts, bidders and payload hashes are left
out: two records hold the same decision when they stem from one stream entry.
The pause reason is reduced to what is told apart later.

`Reconcile` is one atomic step here. In the code it reads one table after
another while everything goes on; the order in which it reports what it finds
and what it does about it are kept. Its pause is taken to succeed. The checks
that compare what PostgreSQL alone holds are not steps but the invariants
`ReconcilerFindsNothing` and `CheckerFindsNothing`: the run shows that they
have nothing to find, at any moment. The resume is one action per call, so bids
and settlements come between any two of them.

### DecisionPipeline and SettledLedger

The composition shares the Redis state and the stream, the partition and the
count of faults; everything else belongs to one side and stays unchanged when
the other moves. The reconciler sees the stream's lag behind the real cursor
and a rebuild deletes that cursor.

`ImplementsLedger` maps the pipeline to `SettledLedger`: durable is the set of
entries in the partition, told the acknowledged entries, settled the bids table and
announced the public events. TLC checks it as a property with rebuilds.

### HotEngine

A script is atomic. A call is not: `calls[c]` keeps the time a call read before
its script runs, and for a confirmation the fact that the record asked for one.
`request` fixes the bidder and amount of each key, since a key sent with
another request is answered with an error and changes nothing. `Reason` is the
chain of guards in their order, `AskConfirm` the fat-finger branch, `SoftClose`
the extension with its three limits. `GiveUp` covers lost calls and every error
return, none of which writes. A rebuild keeps the whole log here: what happens
to decisions a rebuild does not know is the subject of `Settlement`.

### BidRequests

`request[q]` is one HTTP call of `PlaceBid`. Admission is three calls (the
user's limiter key, the auction's, the semaphore), each with the clock the
handler read at its beginning; `LimitOf`, `Emission` and the burst are the GCRA
script's arithmetic. The script call, the registration of the latch, the eager
read of the record and the wait are separate steps, and `Relay` and
`RelayFails` come between any two: `Relay` marks the records and signals the
latches, `RelayFails` ends the waits with the weaker answer and spares the next
bids theirs (`unhealthy`). A bid
that meets no hot state enters the cold start: `flight` is the request that
leads it, the steps `pending`, `replay`, `load`, `safe` are those of
`runColdStart`, and every waiter gets the leader's result. `LoseState` deletes
the hash alone, `LoseRedis` everything Redis holds. A decision is only its
number here; what it says is in `HotEngine`.

In `Spec` Redis is lost only when everything decided is settled and no
cold-start snapshot is in a request's hand; in `LossySpec` it may be lost while
decisions are on their way. The first shows that the code is right under the
condition it cannot check; the second is the finding of section 5.

### MaxBids and ProxyBidding

Amounts are counted in increments above the start price. `NextStep` is
`nextAutoMaxBidStep`, `AutoMaxBid` the whole of `applyAutoMaxBid`, which runs
inside the transaction that starts the auction. In the hot lane the same rules
are spread over calls: `PreemptRead`, `PreemptLoad`, `PreemptLock`,
`PreemptBid` before a manual bid, `ResolveRead`, `ResolveLoad`, `ResolveMark`,
`ResolveBid` after it, `TriggerRead`, `TriggerLock`, `TriggerBid` after a PUT of
an intent. `call[c]` keeps what was read and `lock` the advisory lock of each
intent. A call that is abandoned closes its connection, which frees its lock.
`known` are the maxima its last round loaded, and `rounds` counts the rounds
behind it: at `MaxRounds`, 100 in the code, `ResolveExceeded` pauses the auction
(`engine.go:1137`, 1214), which only an operator's `Resume` lifts. The pause of
the auctions row and that of the hot hash are one step. The rounds at the start
of an auction have the same limit; there it rolls the transaction back
(`auction/bid.go:1027`, 1085), and `Start` is not enabled.

### Scheduler, Orders, AuctionHouse

`Scheduler` is `scheduler_jobs` with claim, lease, retry and dead jobs. A
runner's handler is added by the modules above it: `ProcessExpireOrder` in
`Orders`, `EndReads` to `EndFences` in `AuctionHouse`. `At(r, j, step)` says how
far a runner is. A lease may end while its runner works: the code does not ask
again.

`Orders` has the order's row, the three transactions of `PayMock`
(`PayMock`, `PayMockWebhook`, `PayMockCompletes`, and `PayMockBreaks` between
any two), the Alipay form, notification and query, and the provider
reconciliation. `SaleCommits` stands alone for the three places that sell; in
`AuctionHouse` they are themselves (`Start` with a proxy bid at the cap,
`SettleAccepted` of a sale, `EndCommits`).

`AuctionHouse` has the auctions row, the hot hash and one log of accepted bids
with the two cursors that `LedgerRelay` and `Settlement` are about. A bid is a
number, for price and bidder together. The fence is split at its calls:
`EndReads` locks the row and reads the hot state, `FencePauses` sets the pause,
`FenceVerifies` or `FenceRefuses` compares, `EndCommits` writes the sale and
`EndFences` closes the hot state afterwards. While a runner is between these
steps `Locked` holds, and every other transaction on the row waits. The host's
cancel and shorten commit first and then call Redis (`host`). `ColdLoad` and
`ColdSeed` are the two halves of a cold start.

### Delivery

`delivery` is `outbox_delivery`, `lease` the shard's lease, `signal` one control
signal. A relay's loop is `Renew`, `ClaimSignal` to `ReportSignal`,
`BeginBatch`, `ClaimOne`, `Publish`, the hub's `CopySubscribers` and
`SendToSubscribers`, the mark, `EndBatch`. Locks and leases end at any moment
(`LockExpires`, `LeaseExpires`), the two relays mark without asking who holds
the claim. A session subscribes in `Connect` and then recovers from the history
(`RecoverHistory`), from the cached snapshot or from a rebuild it leads or
shares; `base` is what it was told it has, `got` what it was sent, `queue` what
the hub has put aside. A full queue closes the session. A row's lock is taken for
30 s under a lease of 5 s that a relay does not renew while it works
(`outbox/relay.go`), so a lock runs out under a working relay only after its
lease did. `overtaken` collects the events published while a snapshot read before
them was still to be stored; it only serves the property.

### Commentary

`BidSettled` writes the event of a decision: `bid_accepted`, `auction_extended`
when the bid moved the end, `auction_sold` when it bought the item.
`MaybeCreateAutoCommentary` is what the gateway does for a bid it answered: a job
is queued whatever the kind, or, when that fails, the message is written at once,
or nothing happens. `Backfilled` is the filter of the backfill query: the first
and the last of the three kinds only, within the lookback (`aged`), without a
message. `EnqueueMissing` reads a batch of these, `EnqueueAutoCommentary` inserts
the jobs, `ClaimJob` is the claim with lease and attempts, `Generate` the provider
or the template, `InsertMessage` the message that is stored once, `CompleteJob`
and `FailJob` the marks that ask for the worker's id only, which two processes
may share (`WorkerId`). What the gateway and the backfill queue for one event has
the same input hash and is one job.

## 3. Runs

| Run | Properties | Bounds | Shows |
|---|---|---|---|
| `relay` | `HolesAreShort`, `NothingSkipped`, `PendingCovers`, `EventuallyDurable`, types | 2 relays, batches of 2; 3 decisions with 1 fault, or 2 with 2 faults or with 1 and a rebuild | the cursor protocol without a lock skips nothing, never writes a decision a whole batch ahead of another, and its retries fill every hole |
| `settlement` | `SettledInOrder`, `ReconcilerFindsNothing`, `CheckerFindsNothing`, `CheckpointIsComplete`, types | 2 decisions, 2 records; four bounds in one, see below | PostgreSQL holds the decisions once and in order, whatever is redelivered, raced or rebuilt, and the audits agree |
| `pipeline` | `NoFalseGap`, `EventuallySettled` | 1 relay, 1 worker, 2 decisions, 2 faults, no rebuild | redelivery is absorbed; every decision is settled or failed on record |
| `pipeline_resume` | `AckedIsAccounted`, `ImplementsLedger` | 1 relay, 1 worker, 2 decisions, 3 records, 1 fault, 1 rebuild | the pipeline keeps the promise of `SettledLedger` over rebuilds |
| `hot_engine` | `OneDecisionPerKey`, `StateIsLog`, `EndIsBounded`, `PricesAreFair` | 2 bidders, 2 client keys, 1 proxy key, 2 calls at once, 2 decisions, 2 clock values, 1 rebuild | retries, races and late confirmations decide each request once, by the rules |
| `bid_requests` | `DecidedOnce`, `PermitsMatchRequests`, `RateBounded`, `AcksAreTrue` | 3 requests of 2 bidders, 2 permits, 2 clock values, 1 loss or failure | decided once, permits balanced, rates bounded, acknowledgements true, over a cold start |
| `cold_start` (violation) | `SeedIsComplete` | 2 requests, 1 loss at any time | a cold start seeds the engine from PostgreSQL without the decisions Kafka has |
| `hot_lane` | `ProxiesServed`, `ProxyIsFrugal`, `CancelledNeverBids`, `PauseNeedsRivals` | 3 users, a cap of 4 increments, 3 rounds, 2 requests, every set of intents before the start | proxies bid what they should between any two calls of others, and only these can drive a call to the limit |
| `marketplace` | `WinnerIsLast`, `CheckerFindsNothing`, `NarratingStops`, `ActiveEnds` | 1 runner, 1 fault, 2 accepted bids, 4 clock values | the sale is for the last accepted bid, and the auction ends |
| `payments` | `MoneyIsAccounted`, `DepositFollowsOrder`, `OrderIsFinal`, `OrderCloses` | 2 runners, 2 payment keys, 1 fault, 3 clock values | no payment is lost between webhook, expiry and retries; the order closes once |
| `delivery` | `SessionMissesNothing`, `PublishedInOrder`, `EventuallyDelivered` | 2 relays, 2 sessions, 2 events, 2 in all of faults, stalls, signals and connections | published in order, nothing but overtaken events missed while a viewer recovers |
| `commentary` | `EventuallyCommented`, `FinishedStaysFinished` | 2 workers under one id, 2 events, 3 attempts, 2 in all of faults, stalls, changes of the setting and aged events | what is looked for or queued is commented on, a finished job is not reopened |

**Why these bounds.** The orders that matter are between a decision and its
predecessor, a batch of two and a single one, a record and its duplicate, and
two actors: two of each is the least that has them all. One fault may strike at
any call, and one rebuild may come at any point; two faults are allowed where
the states are few enough. `MaxLog` bounds the records of a partition, since
every rebuild lets the relay write the stream again; in `pipeline_resume` it is
a constraint of three records, so that at least one decision is a duplicate.
`MaxAttempts` is 2 so that a retry and a dead letter both happen, and 3 in
`commentary`, the literal of the code. In `hot_engine` the amounts are a normal
step, a jump that needs confirmation, the cap and one above the cap. In
`hot_lane` a cap of four increments lets a proxy answer a bid, be answered by a
second and stop below its maximum; a limit of three rounds is the least with
which an undisturbed call gets through, and a rival that holds a lock or bids
in between drives one to it. `relay` has batches of two so that a call may be cut
and its first piece fail; of three decisions the third must wait for the first.
In `delivery` a relay that stalls past its lease and its lock and then appends
late costs one unit, so that a viewer can connect before, between and after; the
history is as long as the events, and a session that recovers from it, from a
snapshot, or from a rebuild of its own or another's meets the late event. In `bid_requests` three requests are a bid,
its retry and a rival's bid, and two permits are too few for all. In
`marketplace` two bids are one before and one within the fence; the clock has
one step to bid, one extension and one to end.

`settlement` explores four instances under one constraint (`MCSettlement`): two
workers over sales with one fault and one rebuild, two workers over rejections
with one fault, one worker over both with one fault and one rebuild, and one
worker over accepted bids with two faults and two rebuilds. A dead letter takes
two faults; a race of two workers takes one.

Symmetry is used of workers (`settlement`), of users and calls (`hot_engine`)
and of requests and bidders (`bid_requests`, `cold_start`), never together with
a liveness property.

Deadlock checking is off where the bounds let the system stop: after the last
decision, event or request, at the last moment of the clock, or when an auction
is paused and its resumes are used up. It is on in `relay`.

**Fairness.** Only what runs in a loop for as long as its process lives is fair.

- `relay`, `pipeline`: `runPeriodic` calls the relay and `ProcessKafka` again on
  every tick, and every call returns because its client has a timeout, so their
  steps are weakly fair. A duplicate of a record whose first attempt is still
  under way is answered with a transient error and retried until that attempt is
  older than `settlementTerminalGrace`; the step that takes it over is enabled
  again and again but not continuously, hence strong fairness for
  `DuplicateClaims`.
- `marketplace`, `payments`: the clock advances; leases end with their five
  seconds; a runner's handler goes on. A claim is strongly fair because it takes
  the job due first (`ORDER BY run_at`). `SettleAccepted` is strongly fair
  because it waits for the row in PostgreSQL's lock queue: a fence that comes
  back again and again lets it pass.
- `delivery`: a relay's loop goes on, a stopped process is started again, and
  locks and leases nobody works under run out.
- `commentary`: worker loops go on, leases nobody works under run out. Nothing is
  assumed of the gateway's offers, of settlement or of the lookback.

`hot_lane` states safety only. Nothing is assumed of bids, hosts, viewers, payments, faults, rebalances,
reconciles or operators.

**What the exceptions in the properties mean.** Each is a limit of the code,
described in section 5.

- `EventuallySettled` excuses a decision that failed on record, or that comes
  after one that did, or behind a second record of one that did: the code leaves
  these to a person.
- `AckedIsAccounted` counts a row of the decision's epoch and number, or a
  record not yet committed, as an account of it. It excuses only a decision from
  before a rebuild that went on from its number or a later one: a batch of such
  decisions is passed over without a row.
- `NoFalseGap` excuses an auction with a dead letter, or with a number that a
  rebuild gave out a second time.
- The parts of `ReconcilerFindsNothing` about the sale hold until a rebuild
  gives out a number a second time.
- `PendingCovers` holds until a rebuild gives out a number a second time.
- `CheckerFindsNothing` of `Settlement` states two of the checks of the first
  epoch only: they count from 1.
- `WinnerIsLast` and `CheckerFindsNothing` of `AuctionHouse` excuse the three
  ways past the fence (`excused`): a bid and its relay between the fence's read
  and its check, a cold seed of a snapshot older than the end, a pause lifted by
  the host's shortening. The second also excuses a decision settled after the
  host's cancel (`Reopened`).
- `ActiveEnds` excuses a hot hash that shortening left partial, and starts from
  an open end job: a dead job needs an operator.
- `NarratingStops` excuses the two sales at the cap price, which leave the flag
  alone.
- `ProxiesServed` and `PauseNeedsRivals` are stated of calls during which nobody
  else acted; a user who is served late, or an auction that is paused, because
  others acted is not excluded (H26).
- `ProxyIsFrugal` holds a bid to the maximum in force when its round loaded the
  intents. A maximum lowered between that load and the lock is bid over (H25).
- `SessionMissesNothing` is stated as long as no event was dead-lettered. A
  session that recovered from a cached snapshot or from a rebuild it shared may
  lack an event that was published while such a snapshot, read before it, was
  still to be stored (`overtaken`, H38), and only such an event; one that was told
  its state is stale is promised nothing. It needs a history longer than what is
  appended out of turn, and one that does not expire while an old event waits to
  be retried.
- `EventuallyCommented` is stated of the kinds of event that the backfill looks
  for, within its lookback, and of every event that has a job; it excuses a job
  given up and the events it hides. The backfill never finds a bid that moved the
  end: only the gateway's offer queues it.

Every property has a mutant in `PROJECT.json`: a plausible bug in one action
that makes TLC refute it.

## 4. Proofs

Eight modules prove what the runs show on small instances for every value of
the constants: any number of relays, workers, runners, users and requests, any
bounds, any prices, limits and times that the named assumptions allow. The
assumptions say that bounds and times are numbers, that a batch, an increment,
a rate or a number of attempts is positive, that there is a worker, and what
the kinds of decisions are; `MaxBidsAssumption` adds that users are finitely
many numbers. TLC evaluates each of them in a run. Nothing else is assumed, but
for two theorems about a special case: `RedeliveryIsAbsorbed` about one worker,
`SessionsMissNothing` about one relay.

Every safety theorem has the same shape: an inductive invariant that TLC
checked first, a lemma for each operation, a lemma for `Next`, and the theorem
that joins them; the properties of the runs follow from the invariant.

| Module | Theorems | Properties they state |
|---|---|---|
| `LedgerRelayProofs` | `RelayInvariant`, `RelayTypesCorrect`, `RelayHolesAreShort`, `RelayNothingSkipped`, `PendingStaysCovering` | `RelayTypeOK`, `HolesAreShort`, `NothingSkipped`, `PendingCovers` |
| `SettlementProofs` | `SettlementInvariant`, `SettlementTypesCorrect`, `SettlesInOrder`, `CheckpointStaysComplete`, `ReconcilerStaysQuiet`, `CheckerStaysQuiet` | `SettlementTypeOK`, `SettledInOrder`, `CheckpointIsComplete`, `ReconcilerFindsNothing`, `CheckerFindsNothing` |
| `DecisionPipelineProofs` | `PipelineInvariant`, `AckedStaysAccounted`, `RedeliveryIsAbsorbed`, `PipelineImplementsLedger`, `RowsFollowStream` | `AckedIsAccounted`, `NoFalseGap`, the refinement `ImplementsLedger` |
| `HotEngineProofs` | `HotInvariant`, `HotTypesCorrect`, `DecidesOnce`, `StateFollowsLog`, `EndStaysBounded`, `PricesStayFair` | `OneDecisionPerKey`, `StateIsLog`, `EndIsBounded`, `PricesAreFair` |
| `BidRequestsProofs` | `LossyInvariant`, `PermitsStayMatched`, `AcksStayTrue`, `RatesStayBounded`, `DecisionsInvariant`, `DecidesOnceAcrossLosses`, `SeedsAreCompleteOnceSettled` | `PermitsMatchRequests`, `AcksAreTrue`, `RateBounded`, `DecidedOnce` |
| `ProxyBiddingProofs` | `HotLaneInvariant`, `EveryProxyIsServed`, `PausesNeedRivals`, `ProxiesAreFrugal`, `CancelledIntentsAreSilent`, `HotLaneTypesCorrect` | `ProxiesServed`, `PauseNeedsRivals`, the action properties `ProxyIsFrugal`, `CancelledNeverBids` |
| `AuctionHouseProofs`, of the order | `OrdersInvariant`, `MoneyStaysAccounted`, `DepositStaysRight`, `OrderStaysFinal`, `OrderTypesCorrect` | `MoneyIsAccounted`, `DepositFollowsOrder`, the action property `OrderIsFinal` |
| `AuctionHouseProofs`, of the auction | `HouseInvariant`, `WinnerStaysLast`, `HouseCheckerStaysQuiet`, `NarratingStaysOff` | `WinnerIsLast`, `CheckerFindsNothing`, `NarratingStops` |
| `AuctionHouseProofs`, of both together | `MarketInvariant`, `MarketIsSafe`, `MarketOrderStaysFinal`, `HouseTypesCorrect`, `MarketImplementsLedger` | `WinnerIsLast`, `CheckerFindsNothing`, `MoneyIsAccounted`, `DepositFollowsOrder`, `OrderIsFinal`, the refinement of `SettledLedger` |
| `DeliveryProofs` | `DeliveryInvariant`, `DeliveryTypesCorrect`, `EventsEnterInOrder`, `SessionsMissNothing`, `OnlyLateEventsAreMissed`, `OwnRebuildIsComplete` | the action property `PublishedInOrder`, `SessionMissesNothing` |

### Relay

`HolesAreShort` is not inductive: how far a piece runs ahead depends on the
relay that writes it starting no later than where the partition reaches.
`RelayInv` therefore adds, for each relay, that its batch lies within the stream
and that the partition covers everything up to the cursor it read
(`RelayReached`), up to the piece it is at while no piece has failed, and, when
it acknowledges, up to the end; the same holds of the stored cursor and of the
acknowledged entries (`RelayOrder`). A cursor that a slow relay moves back keeps
this, and that is why no lock is needed. A log followed by a piece is an
extension of it (`AppendExtends`), an extension covers what the log covered
(`ExtensionCovers`), one that starts no later than the log reaches also reaches
to its end (`ExtensionReaches`), and one that starts no further behind than a
batch leaves only short holes (`ExtensionInOrder`).

### Settlement

What keeps the bids in order is the comparison with the auctions row inside the
transaction, so `FactsInv` (the tables one transaction writes agree) needs
nothing of the workers. What keeps decisions from being lost does: `WorkerOK`
says of one worker that every record before its reader is in its hands or
`Accounted` (it has a row, or a rebuild went past it), that what it will commit
is accounted for, and that it commits from the left. It is stated of a record,
a length and two sets, and proved for each way a pass can move
(`SeekOK` to `OffsetOK`) without the rest of the state; a step of somebody else
only makes `Accounted` larger (`SameAccounts`, `RowStep`). All the ways to
settle, one decision or a batch, are one run of decisions (`Settles`). `SaleInv`
explains why nothing is accepted after a sale, also over a rebuild, until a
number is given out twice.

### Pipeline

`PipelineInv` is the conjunction of the two invariants. The relay writes the
partition that the workers read, and a resume sets back the engine and the
cursor: `RelayStepInv` and `SignalStepInv` show that each side's steps are steps
of the other side's environment or leave it alone. For the refinement,
`LedgerSteps` with
`DecideRefines`, `RelayStepRefines`, `SettleRefines` map each step to a step of
`SettledLedger` or to a stutter (`StepRefines`). What is settled was durable
before (`SettledIsDurable`), and so, until a number
is given out twice, PostgreSQL holds the first of the engine's decisions and no
others, all of which Kafka has, whatever holes the partition has behind them
(`RowsFollowStream`): that is why a log and two cursors, the one behind the
other, can stand for the whole pipeline in `AuctionHouse`.

`RedeliveryIsAbsorbed` is about one worker, whatever the relays append twice
and however often it starts again. `GapInv` (in `SettlementProofs`) says that
the row of an attempt under way is that record's and open, and that the rows of
settled decisions are terminal. Numbers being given out once, the
decision of an open row is then not among the settled ones, so its number is
the next or a later one and never one the gap check has behind it. A dead letter
takes the second part away, two workers the first.

### Hot engine

`HotInv` ties the state to the log (numbers, price, winner), the records to the
decisions they name, and the end to the extensions counted. `Admitted` reads the
chain of guards once; `Stored` says what a decision adds.

### Bid requests

`RateBounded` follows from `TatCounts`: the stored arrival time is at least one
emission interval per call let through, counted from any moment on. The
clocks may be read in any order. `LossyInv` is proved under `LossySpec` too, so
permits, acknowledgements and rates do not depend on when Redis is lost.
`DecidedOnce` does: `DecisionsInv` adds that without a hot state PostgreSQL has
every decision and that a snapshot about to be seeded is of an auction without
decisions (`SnapshotsAreEmpty`). `SeedIsComplete` is proved under `Spec` and
refuted by the run `cold_start` under `LossySpec`: decisions not yet settled are
the whole cause of that finding.

### Proxy bidding

Prices only rise, so an amount that was fair for what a call has read stays
fair: `FairCall` speaks of the log of hot states and of the maxima the call
itself loaded, not of the present. `LockedCall` and `LocksHold` carry the
status of an intent from the last look at it to the bid. `Undisturbed` says
that a call whose user acted alone finds what it read unchanged; from it and from
what one round computes (`NextStepIs`, `AutoRoundIs`) follows `ProxiesServed`. The
same invariant counts its rounds: the best intent takes the lead in the first,
defends it at most once, and the third finds nothing to do (`Looking`,
`Serving`), so an undisturbed call stays below any limit of three or more and
`PauseNeedsRivals` follows. The rounds at the start of an auction are the same
three (`RoundsExist`, `AutoMaxBidIs`); that the function of rounds exists is an
induction, done with a least counterexample.

### Orders and auction

`OrdersInv` adds to the two properties that a mock payment told of its success
has left the order paid. `HouseInv` numbers the bids from the row's price
(`BidsAreNumbered`), holds the row for one runner at a time, with the hot engine
closed from its pause on and everything settled once it has verified that
(`RowIsLocked`), and keeps a sale as it is (`SaleStands`).

`WinnerIsLast` and `CheckerFindsNothing` excuse an auction whose fence was passed
by, or that was reopened. By themselves they would not say how one gets there, so
`WinnerStaysLast`, `HouseCheckerStaysQuiet` and `MarketIsSafe` also prove
`[][OnlyExceptions]_vars`: a step that makes the excuse true is one of the three
of `PassesFence` (a bid, a seed or a lifted pause while a runner is between its
read and the end), and an auction is reopened only by the settlement of a
decision after its cancel. No other interleaving leads to a wrong winner or a
report; these do, and are limits of the code (section 5).

The two modules are checked apart, because together they are too large for TLC
at the bounds each needs. `MarketSpec` puts them together: every step of a
payment may come between any two of the auction. A payment keeps what the
auction says of its order (`PaymentKeepsSale`), the auction keeps what the
payments wrote down (`HouseLeavesPayments`) and only sells or expires the row
(`HouseMovesOrder`); so both invariants hold together and with them the
properties of both (`MarketIsSafe`, `MarketOrderStaysFinal`), and every variable
of both keeps its type (`HouseTypesCorrect`). The sale's own
events are not waited for there, so that a payment may begin sooner than in the
code. `MarketImplementsLedger` closes the circle: with the log and its cursors
for the pipeline, the auction shows a `SettledLedger`, as the pipeline does.

### Delivery

`PublishedInOrder` speaks of the step that publishes; what makes it true happened
when the relay claimed the row. `HeldInTurn` carries that over: all events before
the one a relay holds are published or have an anomaly, which nothing undoes,
neither an expired lock nor a retried dead letter. `RowsSaySo` says that a row
nobody has to finish is accounted for.

`SessionMissesNothing` relates three places: what the hub was given, what the
history and the snapshot of Redis hold and what the session has. `SessionOK` says of a session
in each phase that it has, has queued or will still be sent every event the hub
was given (`KnowsAll`, `WillKnow`); a session that is subscribed and has not
read yet relies on the history. The heart is `RecoversToTheEnd`: when the
history is in turn (`HistoryInTurn`: sorted, and up to the last event that was
appended), what a viewer reads of it, through the limit and the gap checks,
reaches to its end, so an event fanned out before is in it and one fanned out
later is queued. The events are always appended in turn unless one is late
(`NothingLate`: a relay appends an event only when nothing newer was), which
gives `OnlyLateEventsAreMissed` for any number of relays: only a late event can
make a viewer miss something. A single relay is never late until an event was
given up for dead, since it works on one row at a time, in order, and no row
behind it is open (`Alone`, `AloneIsNeverLate`); that is `SessionsMissNothing`. A session that rebuilt the
state itself needs none of this (`OwnRebuildIsComplete`): what it read in
PostgreSQL is never older than what the hub was given. One that took a stored
snapshot, or another's rebuild, lacks at most what was overtaken: `SnapshotsSaySo`
says so of the snapshot in Redis and of a rebuild under way, and
`PublicationsOvertake` that the publication of an event counts it as overtaken
wherever a snapshot without it is still to be stored (`SnapshotsKept`).

### Only model-checked

- Liveness (`EventuallyDurable`, `EventuallySettled`, `ActiveEnds`,
  `OrderCloses`, `EventuallyDelivered`, `EventuallyCommented`): fairness and
  `ENABLED` are out of the prover's reach.
- `SessionMissesNothing` with several relays and late events: it does not hold
  for every value of the constants there (section 5), so the run checks it with
  a history that is long enough.
- `Commentary`, with `FinishedStaysFinished`.

## 5. Findings and known limits

One run is a disagreement between the code and the documents, quoted in
`PROJECT.json`:

1. `cold_start`: the documents say that a cold start compares checkpoint, Kafka
   and PostgreSQL and pauses when it cannot prove safety. It looks at a marker
   in Redis that nothing writes (`engine.go:1814`), at the pending hash, which
   the relay empties, and at PostgreSQL; never at Kafka. After a loss of Redis
   with decisions relayed and not settled, the price goes back.

What else the models had to take into account. Where one of these would break
a property, the property excepts it and section 3 says so; the exception means
that the property does not catch it.

Relay, settlement, resume:

- The comment at `kafka_ledger.go:226` says that a call is one round trip to the
  broker; line 107 says that the writer splits at its limits. When a piece fails
  and a later one is written, the later decision is read first: every pass ends
  at it (`engine.go:4044`) while the missing record is appended behind it, so
  that it normally ends as a dead letter and pauses the auction.
- A second record of a decision that failed is taken for an attempt under way
  elsewhere (`engine.go:4235`): it ends every pass, and nothing behind it in the
  partition is read. `EventuallySettled` counts what it blocks as left to a person.
- A failed acknowledgement pipeline is not repeated, although the comment at
  `engine.go:2579` says so: the cursor advances (`PendingCovers` allows it).
- The slower of two settlement workers takes the other's work for a gap and
  pauses the auction (`engine.go:4051`); `NoFalseGap` is about one worker.
- A dead letter marks the row FAILED whatever it says (`engine.go:4822`): when
  the commit of a settled record fails and its last attempt is used up, the
  record that comes back finds its decision settled and its row open, and the
  auction is paused for a gap that is none. `NoFalseGap` excuses dead letters.
- A batch of rejections of an epoch before a rebuild stops its partition
  (`engine.go:2645`, 2860); `EventuallySettled` is checked without rebuilds.
- The reconciler's gap check (`engine.go:5012`) and two checks of the invariant
  checker (`invariant/checks.go:516`, 548) count from 1 in each epoch, so they
  raise a false alarm at the first decision after a rebuild at a later number.
- The pending hash is keyed by number (`engine.go:2576`); after a rebuild the
  acknowledgement of an old entry deletes the pending entry of a new one.

Auction and scheduler:

- The fence compares what it read before its pause, and its refusal lifts a
  pause somebody else has set (`engine.go:1983`, 2008-2036).
- A decision settled after a cancel sets the row ACTIVE again, with its end job
  done (`engine.go:4374`).
- Shortening an auction without hot state writes a partial hash, with which no
  fence ever agrees (`gateway/auction_handlers.go:1281`).
- An auction sold at its cap price keeps its narrating flag; an end job that
  used up its attempts leaves the auction open.

Proxy bidding:

- A resolver reads the maxima, then locks the intent and looks at its status
  again, but not at its maximum (`engine.go:1154`, 1260-1269): a maximum that the
  user lowers in between, and is told is lowered, is bid over.
- A call that others disturb may mark an intent exhausted that is not, or leave it
  out of a round, from prices and maxima it read earlier (`engine.go:1131`); and it
  can use up its 100 rounds and pause the auction for everyone
  (`engine.go:1214`). That pause is none of those the worker lifts by itself
  (`engine.go:5521`): an operator has to resume.
- A resolver reads 100 intents, the highest maxima first; with more, the rest wait
  for a later bid.
- The bids a PUT triggers, and those that pre-empt, do not run the resolver
  (`gateway/auction_handlers.go:1411`); pre-emption does not look at the
  challenger's own higher intent (`engine.go:1494`).

Payments:

- A process that dies after the webhook of `PayMock` leaves the key PROCESSING;
  the client's retry marks it FAILED although the order is paid
  (`auction/bid.go:394`, 1334). `MoneyIsAccounted` does not forbid it.
- `HandleProviderWebhook` takes every event for a success
  (`auction/bid.go:503`); the mock provider sends no other.
- The Alipay form skips a readiness check that the mock payment makes
  (`gateway/alipay_handlers.go:315` against `auction/bid.go:1399`), and the
  repair branch of `ReconcileProviderPayments` cannot be reached.

Delivery and commentary:

- A snapshot is rebuilt from PostgreSQL, and stored without a look at what has
  been published meanwhile (`realtime/singleflight.go:25-29`,
  `realtime/server.go:316-332`, 543; the relay's own rebuild in
  `outbox/relay.go`): it may overwrite a newer one. A viewer who is given it, or
  shares the rebuild and subscribed after the event was sent, lacks that event;
  the answer does not say so. A recovery that is stale by its own account does.
- A retried dead letter is published after later events; `PublishedInOrder`
  counts an event with an anomaly as given up.
- A relay that lost its lock appends its old event after newer ones. Once that
  has happened as often as the history has entries (`outbox/relay.go:32`, 4096)
  or a recovery reads (`config/config.go:215`, 300), the newer ones are out of the
  list, and a recovery ends early without a sign of it. `SessionMissesNothing` is
  checked with a history that is longer; with one entry TLC refutes it.
- The same relay may mark its old event failed. When the history expires
  (`outbox/relay.go:33`, 390) before that row is retried, the old event is
  appended to an empty list, and a viewer just before it recovers it alone, with
  no sign of the newer ones. TLC finds this with two relays and three events; the
  run has two. Both take a late append (`OnlyLateEventsAreMissed`).
- A control signal whose relay dies stays PROCESSING (`outbox/relay.go:877`).
- A snapshot the server rebuilds lacks `extend_count`, which the reconcile
  checker reports as drift (`realtime/server.go:543`).
- `docs/03-backend/settlement/03-outbox-publish-retry.md:10` says that attempts
  over the limit enter DEAD; failures that may be retried never do.
- The backfill looks for `bid_accepted` and `auction_sold`
  (`ai/repository.go:710`), while an accepted bid that moves the end is written as
  `auction_extended` (`engine.go:4450`): only the gateway's offer, two seconds in a
  goroutine whose error is dropped (`gateway/auction_handlers.go:982`), queues it,
  and proxies' bids have no offer. An event older than the lookback (24 h,
  `config/config.go:205`) is not looked for either.
- A commentary worker that dies in the third attempt leaves a PENDING job no
  claim takes, and given-up events at the head of the backfill query hide later
  ones (`ai/repository.go:1617`, 685).

## 6. Not modelled

- `PlaceBidPostgresLegacyForTests` and the lane worker serve tests; the guard
  projection (`redis_guard.go`) is called by nothing in the live path.
- Sessions, tickets, authentication, ACL beyond the room's membership, chat,
  leaderboard, live operations, AI listing, sentinel, recap and questions:
  single statements beside the auction's state.
- Editing of drafts, rule versions, rooms with several auctions.
- The admission of confirmations, which is the same code as that of bids.
- The leases of the reconciler's control signals; an operator's manual pause
  during a resume.
- The webhook's refusal of a bad signature or of another provider payment id
  (`auction/bid.go:539`, 568), which leaves the order as it is; the branches of
  settlement for an identity conflict (`engine.go:2685`, 2820, 4240).
- Of `Orders.ConvergenceReady` more than whether an outbox event is open.
- Request decoding, routing, storage, metrics, tracing, load tools, demo data
  and front ends hold no state of the auction.

## 7. What is left to prove

1. `FinishedStaysFinished` of `Commentary`: it needs that a job with an outcome
   has no holder.
2. Liveness, once a prover for fairness and `ENABLED` is at hand. The invariants
   of section 4 hold the safety half of each argument: `RelayOrder` that a cursor
   never passes an entry, `WorkerOK` that a record not accounted for will be read
   again, `HeldInTurn` that an event before the one held is published or given up.
