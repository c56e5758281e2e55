------------------------------- MODULE Settlement -------------------------------
(***************************************************************************)
(* The settlement worker of the bid engine (ProcessKafka and what it calls *)
(* in redisengine/engine.go, the consumer side of kafka_ledger.go): it     *)
(* consumes the decisions of one auction from its Kafka partition and      *)
(* applies them to PostgreSQL.  Every database transaction, every commit   *)
(* of an offset and every error return is a step of its own, so that       *)
(* another worker, a crash or a failed call may come between any two.  The *)
(* reconciler and the operator's resume are here too, because they pause   *)
(* the auction and start the engine again from what PostgreSQL holds.      *)
(*                                                                         *)
(* The engine and the relay are this module's environment: decisions get   *)
(* to the partition in pieces of batches, in any order, some several times *)
(* (LedgerRelay bounds how far out of order).                              *)
(***************************************************************************)
EXTENDS Integers, Sequences, FiniteSets

CONSTANTS
    Kinds,        \* kinds of decision: "accepted", "sold", "rejected", "quiet"
    Workers,      \* settlement workers of the consumer group
    MaxAttempts,  \* maxSettleAttempts
    MaxSeq,       \* bound: decisions the engine takes
    MaxLog,       \* bound: records in the partition
    MaxEpoch,     \* bound: engine epochs, one more than the rebuilds
    MaxFaults     \* bound: failed calls, rebalances and crashes together

ASSUME SettlementAssumption ==
    /\ Kinds \subseteq {"accepted", "sold", "rejected", "quiet"}
    /\ Workers # {}
    /\ MaxAttempts \in Nat \ {0}
    /\ {MaxSeq, MaxLog} \subseteq Nat
    /\ MaxEpoch \in Nat \ {0}
    /\ MaxFaults \in Nat

VARIABLES
    engine,      \* Redis state of the auction: epoch, seq, sold, paused
    stream,      \* the decisions in the order they were taken
    klog,        \* the partition: klog[o] is the stream position of record o
    committed,   \* the group's committed offset: records 1..committed
    owner,       \* the worker the partition is assigned to
    work,        \* per worker: where it is in ProcessKafka
    rows,        \* redis_engine_settlements, by (engine_epoch, engine_seq)
    pg,          \* the auctions row
    bids,        \* the bids table: decisions in the order they were settled
    events,      \* auction_events and the outbox: engine_seq by public seq
    order,       \* the order's winning engine_seq, 0 when there is none
    checkpoint,  \* auction_engine_checkpoints
    resume,      \* the operator's resume: where it is, what it loaded
    faults       \* faults so far

logVars == <<stream, klog>>
pgVars == <<rows, pg, bids, events, order, checkpoint>>
settlementVars ==
    <<engine, stream, klog, committed, owner, work, rows, pg, bids, events, order, checkpoint, resume,
      faults>>

Decision == [epoch: 1..MaxEpoch, seq: 1..MaxSeq, kind: Kinds]
Ids == (1..MaxEpoch) \X (1..MaxSeq)
Terminal == {"SETTLED", "SKIPPED"}
NoResume == [pc |-> "no", seq |-> 0, sold |-> FALSE, paused |-> FALSE]
NoRow == [off |-> 0, status |-> "none", attempts |-> 0, dlq |-> FALSE]

\* A worker with nothing in memory whose reader stands after record n.
Fresh(n) == [pc |-> "idle", next |-> n, unc |-> {}, todo |-> {}, done |-> {},
             now |-> {}, attempts |-> 0, err |-> "none", retrying |-> FALSE]

Lowest(S) == CHOOSE x \in S : \A y \in S : x <= y
Highest(S) == CHOOSE x \in S : \A y \in S : x >= y

\* attempts + 1; the count is only ever compared with MaxAttempts, so it stops there.
OneMore(n) == IF n < MaxAttempts THEN n + 1 ELSE n

Message(o) == stream[klog[o]]
Id(d) == <<d.epoch, d.seq>>
Recorded(n) == \E o \in DOMAIN klog : klog[o] = n
Fault == faults < MaxFaults /\ faults' = faults + 1

Init ==
    /\ engine = [epoch |-> 1, seq |-> 0, sold |-> FALSE, paused |-> FALSE]
    /\ stream = <<>>
    /\ klog = <<>>
    /\ committed = 0
    /\ owner \in Workers
    /\ work = [w \in Workers |-> Fresh(0)]
    /\ rows = [id \in Ids |-> NoRow]
    /\ pg = [epoch |-> 1, seq |-> 0, pub |-> 0, leader |-> 0, sold |-> FALSE, pause |-> "no"]
    /\ bids = <<>>
    /\ events = <<>>
    /\ order = 0
    /\ checkpoint = [epoch |-> 0, seq |-> 0, next |-> 0]
    /\ resume = NoResume
    /\ faults = 0

----------------------------------------------------------------------------
(* The environment: the engine decides, the relay writes *)

\* The Lua script's store_decision, and its guards on paused and status.
Decide(k) ==
    /\ Len(stream) < MaxSeq
    /\ ~engine.paused
    /\ engine.sold => k = "quiet"
    /\ stream' = Append(stream, [epoch |-> engine.epoch, seq |-> engine.seq + 1, kind |-> k])
    /\ engine' = [engine EXCEPT !.seq = @ + 1, !.sold = @ \/ k = "sold"]
    /\ UNCHANGED <<klog, committed, owner, work, pgVars, resume, faults>>

\* A relay writes a piece of a batch of the stream, once or, when its writer
\* retries, twice; the piece before it may have failed.
Relay(from, last) ==
    LET batch == [i \in 1..(last - from) |-> from + i] IN
    /\ from < last
    /\ last <= Len(stream)
    /\ klog' \in {klog \o batch, klog \o batch \o batch}
    /\ Len(klog') <= MaxLog
    /\ UNCHANGED <<engine, stream, committed, owner, work, pgVars, resume, faults>>

----------------------------------------------------------------------------
(* Steps of one worker.  The pass below looks at the first message of its  *)
(* todo set; done holds the messages ready to be committed (commitBatch).  *)

Cur(w) == Lowest(work[w].todo)
Pending(w, pc) == work[w].pc = pc /\ work[w].todo # {}

\* settlePayload returned nil: a first try is collected for the commit at the
\* end of the pass, a retry is committed at once.
Handled(w) ==
    IF work[w].retrying
    THEN [work[w] EXCEPT !.pc = "one", !.now = {Cur(w)}, !.attempts = 0]
    ELSE [work[w] EXCEPT !.pc = "scan", !.done = @ \cup {Cur(w)}, !.todo = @ \ {Cur(w)}, !.attempts = 0]

\* settlePayload returned an error.  ProcessKafka ends the pass on a transient
\* one and hands any other to retryOrDLQ, which looks at every later one too.
Failed(w, kind) ==
    IF kind = "transient" /\ ~work[w].retrying
    THEN [work[w] EXCEPT !.pc = "flush", !.attempts = 0]
    ELSE [work[w] EXCEPT !.pc = "retry", !.attempts = 0, !.err = kind]

\* FetchBatch: what was fetched and is not committed is served again ...
FetchAgain(w) ==
    /\ work[w].pc = "idle"
    /\ work[w].unc # {}
    /\ work' = [work EXCEPT ![w].pc = "scan", ![w].todo = work[w].unc]
    /\ UNCHANGED <<engine, logVars, committed, owner, pgVars, resume, faults>>

\* ... and only when there is none of it does the reader go on.
FetchNew(w) ==
    /\ work[w].pc = "idle"
    /\ work[w].unc = {}
    /\ w = owner
    /\ \E hi \in (work[w].next + 1)..Len(klog) :
          LET new == (work[w].next + 1)..hi
          IN work' = [work EXCEPT ![w].pc = "scan", ![w].next = hi, ![w].unc = new, ![w].todo = new]
    /\ UNCHANGED <<engine, logVars, committed, owner, pgVars, resume, faults>>

----------------------------------------------------------------------------
(* The batch paths: settleRejectedBatchPrefix, settleAcceptedBatchPrefix *)

\* The first k messages are of one class and follow one another, in offset
\* and in engine_seq, within one epoch.
Contiguous(w, k) ==
    LET o == Cur(w) IN
    /\ Message(o).kind \in {"accepted", "quiet"}
    /\ \A i \in 0..(k - 1) :
          /\ o + i \in work[w].todo
          /\ Message(o + i) = [Message(o) EXCEPT !.seq = @ + i]

BatchLen(w) == Highest({0} \cup {k \in 1..Cardinality(work[w].todo) : Contiguous(w, k)})
BatchOf(w) == Cur(w)..(Cur(w) + BatchLen(w) - 1)
HasBatch(w) == Pending(w, "scan") /\ BatchLen(w) >= 2
FirstOf(w) == Message(Cur(w))
LastOf(w) == Message(Cur(w) + BatchLen(w) - 1)

\* The statement that inserts the rows takes over a row of the same record
\* and fails on a row that another record of the same decision has.
Insertable(w) ==
    \A o \in BatchOf(w) : rows[Id(Message(o))] = NoRow \/ rows[Id(Message(o))].off = o

BatchIsNext(w) ==
    /\ FirstOf(w).epoch = pg.epoch
    /\ FirstOf(w).seq = pg.seq + 1
    /\ Insertable(w)

BatchIsOld(w) == FirstOf(w).epoch < pg.epoch /\ LastOf(w).seq <= pg.seq

\* permanentSettlementError of a batch from before a rebuild: it ends the pass
\* of rejections; a pass of accepted bids falls back to the single path.
BatchIsStuck(w) ==
    /\ FirstOf(w).epoch < pg.epoch
    /\ LastOf(w).seq > pg.seq
    /\ FirstOf(w).kind = "quiet"

\* Mutant: quiet rejections get a public event of their own.
BroadcastAll(d) == d.kind \in Kinds

\* shouldBroadcastReject; every acceptance is broadcast.
Broadcast(d) == d.kind # "quiet"

\* What a transaction writes besides the auctions row: bids in the order they
\* are settled, and events (with their outbox rows) under the next public
\* numbers, where a number that is taken keeps its event.
InsertBids(ds) == bids' = bids \o ds
InsertBid(d) == InsertBids(<<d>>)

AppendEvents(ds) ==
    events' = [n \in DOMAIN events \cup (pg.pub + 1)..(pg.pub + Len(ds)) |->
                  IF n \in DOMAIN events THEN events[n] ELSE ds[n - pg.pub].seq]
AppendEvent(d) == AppendEvents(<<d>>)

\* One order per auction, whoever settles a sale.
CreateOrder(d) == order' = IF order = 0 THEN d.seq ELSE order

\* A batch of quiet rejections only advances engine_seq ...
SettleRejectedBatch(ds) ==
    /\ InsertBids(ds)
    /\ pg' = [pg EXCEPT !.seq = ds[Len(ds)].seq]
    /\ UNCHANGED <<events, order>>

\* ... one of accepted bids sets the auctions row from its last ...
SettleAcceptedBatch(ds) ==
    /\ InsertBids(ds)
    /\ AppendEvents(ds)
    /\ LET last == ds[Len(ds)] IN
          pg' = [pg EXCEPT !.seq = last.seq, !.pub = @ + Len(ds), !.leader = last.seq, !.sold = FALSE]
    /\ UNCHANGED order

\* ... and a decision on its own goes through one of these.
SettleRejected(d) ==
    /\ InsertBid(d)
    /\ \/ /\ Broadcast(d)
          /\ AppendEvent(d)
          /\ pg' = [pg EXCEPT !.seq = d.seq, !.pub = @ + 1]
       \/ /\ ~Broadcast(d)
          /\ pg' = [pg EXCEPT !.seq = d.seq]
          /\ UNCHANGED events
    /\ UNCHANGED order

SettleAccepted(d) ==
    /\ InsertBid(d)
    /\ AppendEvent(d)
    /\ pg' = [pg EXCEPT !.seq = d.seq, !.pub = @ + 1, !.leader = d.seq, !.sold = d.kind = "sold"]
    /\ IF d.kind = "sold" THEN CreateOrder(d) ELSE UNCHANGED order

SettleFacts(d) == IF d.kind \in {"accepted", "sold"} THEN SettleAccepted(d) ELSE SettleRejected(d)

\* Mutant: the checkpoint is taken before the auctions row is updated.
CheckpointedEarly(o) == checkpoint' = [epoch |-> pg.epoch, seq |-> pg.seq, next |-> o + 1]

\* upsertEngineCheckpoint in the same transaction, after record o.
Checkpointed(o) == checkpoint' = [epoch |-> pg.epoch, seq |-> pg'.seq, next |-> o + 1]

\* settleRejectedBatch or settleAcceptedBatch: one transaction.
SettleBatch(w) ==
    /\ HasBatch(w)
    /\ BatchIsNext(w)
    /\ LET ds == [i \in 1..BatchLen(w) |-> Message(Cur(w) + i - 1)] IN
          IF FirstOf(w).kind = "quiet" THEN SettleRejectedBatch(ds) ELSE SettleAcceptedBatch(ds)
    /\ rows' = [id \in Ids |->
          IF \E o \in BatchOf(w) : Id(Message(o)) = id
          THEN [rows[id] EXCEPT !.off = CHOOSE o \in BatchOf(w) : Id(Message(o)) = id,
                                !.status = IF @ \in Terminal THEN @ ELSE "SETTLED",
                                !.attempts = IF rows[id].status \in Terminal THEN @ ELSE OneMore(@)]
          ELSE rows[id]]
    /\ Checkpointed(Highest(BatchOf(w)))
    /\ work' = [work EXCEPT ![w].pc = "batch", ![w].now = BatchOf(w)]
    /\ UNCHANGED <<engine, logVars, committed, owner, resume, faults>>

\* skipped_pre_rebuild: nothing is written, the offsets are committed.
SkipBatch(w) ==
    /\ HasBatch(w)
    /\ BatchIsOld(w)
    /\ work' = [work EXCEPT ![w].pc = "batch", ![w].now = BatchOf(w)]
    /\ UNCHANGED <<engine, logVars, committed, owner, pgVars, resume, faults>>

\* The error leaves ProcessKafka at once: what was collected is not committed.
AbandonPass(w) == work' = [work EXCEPT ![w] = [Fresh(@.next) EXCEPT !.unc = work[w].unc]]

RejectedBatchStuck(w) ==
    /\ HasBatch(w)
    /\ BatchIsStuck(w)
    /\ AbandonPass(w)
    /\ UNCHANGED <<engine, logVars, committed, owner, pgVars, resume, faults>>

\* The database fails the transaction.  Rejections end the pass, accepted
\* bids (whose errors are all swallowed) fall back to the single path.
BatchFails(w) ==
    /\ HasBatch(w)
    /\ IF FirstOf(w).kind = "quiet"
       THEN AbandonPass(w)
       ELSE work' = [work EXCEPT ![w].pc = "single"]
    /\ Fault
    /\ UNCHANGED <<engine, logVars, committed, owner, pgVars, resume>>

----------------------------------------------------------------------------
(* The single path: settlePayload *)

Single(w) ==
    \/ Pending(w, "single")
    \/ Pending(w, "scan") /\ (HasBatch(w) => ~(BatchIsNext(w) \/ BatchIsOld(w) \/ BatchIsStuck(w)))

RowOf(w) == rows[Id(Message(Cur(w)))]
SetRow(w, row) == rows' = [rows EXCEPT ![Id(Message(Cur(w)))] = row]

\* Mutant: a row that is settled is not looked at.
RecordAttemptAgain(w) ==
    /\ Single(w)
    /\ RowOf(w) = NoRow \/ RowOf(w).off = Cur(w)
    /\ SetRow(w, [RowOf(w) EXCEPT !.off = Cur(w), !.status = "PROCESSING", !.attempts = OneMore(@)])
    /\ work' = [work EXCEPT ![w].pc = "tx", ![w].attempts = OneMore(RowOf(w).attempts)]
    /\ UNCHANGED <<engine, logVars, committed, owner, pg, bids, events, order, checkpoint, resume, faults>>

\* recordSettlementAttempt, a transaction of its own: a new row, or one more
\* attempt on the row this record has.
RecordAttempt(w) ==
    /\ Single(w)
    /\ RowOf(w) = NoRow \/ RowOf(w).off = Cur(w)
    /\ RowOf(w).status \notin Terminal
    /\ SetRow(w, [RowOf(w) EXCEPT !.off = Cur(w), !.status = "PROCESSING", !.attempts = OneMore(@)])
    /\ work' = [work EXCEPT ![w].pc = "tx", ![w].attempts = OneMore(RowOf(w).attempts)]
    /\ UNCHANGED <<engine, logVars, committed, owner, pg, bids, events, order, checkpoint, resume, faults>>

\* The row's payload is that of this record (payload_sha256).
SameDecision(w) == RowOf(w) # NoRow /\ klog[RowOf(w).off] = klog[Cur(w)]

\* The decision is settled or skipped already, by this record or another one.
AlreadyTerminal(w) ==
    /\ Single(w)
    /\ SameDecision(w)
    /\ RowOf(w).status \in Terminal
    /\ work' = [work EXCEPT ![w] = Handled(w)]
    /\ UNCHANGED <<engine, logVars, committed, owner, pgVars, resume, faults>>

\* markSettlementIdentityConflict: another decision has the number.  Its row
\* fails, settled or not, the auction is paused and the record is committed.
IdentityConflict(w) ==
    /\ Single(w)
    /\ RowOf(w) # NoRow
    /\ ~SameDecision(w)
    /\ SetRow(w, [RowOf(w) EXCEPT !.status = "FAILED"])
    /\ pg' = [pg EXCEPT !.pause = "LASTING"]
    /\ engine' = [engine EXCEPT !.paused = TRUE]
    /\ work' = IF work[w].retrying
                THEN [work EXCEPT ![w].pc = "retry", ![w].err = "plain"]
                ELSE [work EXCEPT ![w].pc = "batch", ![w].done = @ \cup {Cur(w)}, ![w].todo = @ \ {Cur(w)}]
    /\ UNCHANGED <<logVars, committed, owner, bids, events, order, checkpoint, resume, faults>>

IsDuplicate(w) == SameDecision(w) /\ RowOf(w).off # Cur(w) /\ RowOf(w).status \notin Terminal

\* existingSettlementAttempt: another record's attempt is under way or failed.
DuplicateWaits(w) ==
    /\ Single(w)
    /\ IsDuplicate(w)
    /\ work' = [work EXCEPT ![w] = Failed(w, "transient")]
    /\ UNCHANGED <<engine, logVars, committed, owner, pgVars, resume, faults>>

\* ... or under way for so long (settlementTerminalGrace) that it is taken over.
DuplicateClaims(w) ==
    /\ Single(w)
    /\ IsDuplicate(w)
    /\ RowOf(w).status = "PROCESSING"
    /\ SetRow(w, [RowOf(w) EXCEPT !.off = Cur(w), !.attempts = OneMore(@)])
    /\ work' = [work EXCEPT ![w].pc = "tx", ![w].attempts = OneMore(RowOf(w).attempts)]
    /\ UNCHANGED <<engine, logVars, committed, owner, pg, bids, events, order, checkpoint, resume, faults>>

RecordFails(w) ==
    /\ Single(w)
    /\ work' = [work EXCEPT ![w] = Failed(w, "plain")]
    /\ Fault
    /\ UNCHANGED <<engine, logVars, committed, owner, pgVars, resume>>

\* The statements that mark a row find it by its record (stream_id).
Mark(w, status) ==
    SetRow(w, IF RowOf(w).off = Cur(w) THEN [RowOf(w) EXCEPT !.status = status] ELSE RowOf(w))

\* engine_pause_reason is reduced to what is told apart: a ledger gap, the
\* reasons a reconcile may lift later, and all the others.
Pause(reason) == pg' = [pg EXCEPT !.pause = reason]

\* Mutant: the gap check lets through what PostgreSQL has already.
SettleAgain(w) ==
    LET d == Message(Cur(w)) IN
    /\ Pending(w, "tx")
    /\ d.epoch = pg.epoch
    /\ d.seq <= pg.seq + 1
    /\ SettleFacts(d)
    /\ Mark(w, "SETTLED")
    /\ Checkpointed(Cur(w))
    /\ work' = [work EXCEPT ![w] = Handled(w)]
    /\ UNCHANGED <<engine, logVars, committed, owner, resume, faults>>

\* The decision is the next one of the current epoch: apply it.
SettleNext(w) ==
    LET d == Message(Cur(w)) IN
    /\ Pending(w, "tx")
    /\ d.epoch = pg.epoch
    /\ d.seq = pg.seq + 1
    /\ SettleFacts(d)
    /\ Mark(w, "SETTLED")
    /\ Checkpointed(Cur(w))
    /\ work' = [work EXCEPT ![w] = Handled(w)]
    /\ UNCHANGED <<engine, logVars, committed, owner, resume, faults>>

\* An epoch before a rebuild, and the rebuild had the decision.
SkipOldEpoch(w) ==
    LET d == Message(Cur(w)) IN
    /\ Pending(w, "tx")
    /\ d.epoch < pg.epoch
    /\ d.seq <= pg.seq
    /\ Mark(w, "SKIPPED")
    /\ work' = [work EXCEPT ![w] = Handled(w)]
    /\ UNCHANGED <<engine, logVars, committed, owner, pg, bids, events, order, checkpoint, resume, faults>>

\* An epoch before a rebuild, and the rebuild did not have it.
RefuseOldEpoch(w) ==
    LET d == Message(Cur(w)) IN
    /\ Pending(w, "tx")
    /\ d.epoch < pg.epoch
    /\ d.seq > pg.seq
    /\ Mark(w, "FAILED")
    /\ Pause("LASTING")
    /\ work' = [work EXCEPT ![w] = Handled(w)]
    /\ UNCHANGED <<engine, logVars, committed, owner, bids, events, order, checkpoint, resume, faults>>

\* A predecessor is missing: wait for it, and give up after MaxAttempts.
AwaitPredecessor(w) ==
    LET d == Message(Cur(w)) IN
    /\ Pending(w, "tx")
    /\ d.epoch = pg.epoch
    /\ d.seq > pg.seq + 1
    /\ Mark(w, "PROCESSING")
    /\ work' = [work EXCEPT ![w] =
          Failed(w, IF work[w].attempts >= MaxAttempts THEN "permanent" ELSE "transient")]
    /\ UNCHANGED <<engine, logVars, committed, owner, pg, bids, events, order, checkpoint, resume, faults>>

\* PostgreSQL has the decision already although the row did not say so.
RefuseGap(w) ==
    LET d == Message(Cur(w)) IN
    /\ Pending(w, "tx")
    /\ d.epoch = pg.epoch
    /\ d.seq <= pg.seq
    /\ Mark(w, "FAILED")
    /\ Pause("LEDGER_GAP")
    /\ work' = [work EXCEPT ![w] = Handled(w)]
    /\ UNCHANGED <<engine, logVars, committed, owner, bids, events, order, checkpoint, resume, faults>>

SettleFails(w) ==
    /\ Pending(w, "tx")
    /\ work' = [work EXCEPT ![w] = Failed(w, "plain")]
    /\ Fault
    /\ UNCHANGED <<engine, logVars, committed, owner, pgVars, resume>>

----------------------------------------------------------------------------
(* retryOrDLQ *)

Attempts(w) == IF RowOf(w).off = Cur(w) THEN RowOf(w).attempts ELSE 0
Poison(w) == work[w].err = "permanent" \/ Attempts(w) >= MaxAttempts

\* No attempt is on record: the error is made transient.
RetryLater(w) ==
    /\ Pending(w, "retry")
    /\ work[w].err # "permanent"
    /\ Attempts(w) = 0
    /\ work' = [work EXCEPT ![w].pc = "flush", ![w].retrying = FALSE, ![w].err = "none"]
    /\ UNCHANGED <<engine, logVars, committed, owner, pgVars, resume, faults>>

RetryNow(w) ==
    /\ Pending(w, "retry")
    /\ ~Poison(w)
    /\ Attempts(w) > 0
    /\ work' = [work EXCEPT ![w].pc = "single", ![w].retrying = TRUE, ![w].err = "none"]
    /\ UNCHANGED <<engine, logVars, committed, owner, pgVars, resume, faults>>

\* Dead-letter the record and pause the auction, in PostgreSQL and in Redis.
\* The errors of both are ignored: either may have had no effect.
DeadLetter(w) ==
    /\ Pending(w, "retry")
    /\ Poison(w)
    /\ \E marked, paused \in BOOLEAN :
          /\ IF marked /\ RowOf(w).off = Cur(w)
             THEN SetRow(w, [RowOf(w) EXCEPT !.status = "FAILED", !.dlq = TRUE])
             ELSE rows' = rows
          /\ IF paused
             THEN Pause("LASTING") /\ engine' = [engine EXCEPT !.paused = TRUE]
             ELSE UNCHANGED <<pg, engine>>
          /\ IF marked /\ paused THEN faults' = faults ELSE Fault
    /\ work' = [work EXCEPT ![w].pc = "one", ![w].now = {Cur(w)}, ![w].err = "none"]
    /\ UNCHANGED <<logVars, committed, owner, bids, events, order, checkpoint, resume>>

----------------------------------------------------------------------------
(* Commits of offsets *)

\* CommitMessages sets the group's offset; it may move it backwards.
Committing(w, S) == committed' = IF S = {} THEN committed ELSE Highest(S)

\* One message, from retryOrDLQ.
CommitOne(w) ==
    /\ work[w].pc = "one"
    /\ Committing(w, work[w].now)
    /\ work' = [work EXCEPT ![w].pc = "scan", ![w].retrying = FALSE, ![w].now = {},
                             ![w].unc = @ \ work[w].now, ![w].todo = @ \ work[w].now]
    /\ UNCHANGED <<engine, logVars, owner, pgVars, resume, faults>>

\* A settled batch: first what was collected before it, then the batch.
CommitBatch(w) ==
    LET S == IF work[w].done # {} THEN work[w].done ELSE work[w].now IN
    /\ work[w].pc = "batch"
    /\ Committing(w, S)
    /\ work' = IF work[w].done # {}
                THEN [work EXCEPT ![w].unc = @ \ S, ![w].done = {}]
                ELSE [work EXCEPT ![w].pc = "scan", ![w].unc = @ \ S, ![w].todo = @ \ S, ![w].now = {}]
    /\ UNCHANGED <<engine, logVars, owner, pgVars, resume, faults>>

\* Mutant: the end of the pass commits all that was fetched.
FlushAll(w) ==
    /\ work[w].pc = "flush" \/ (work[w].pc = "scan" /\ work[w].todo = {})
    /\ Committing(w, work[w].unc)
    /\ work' = [work EXCEPT ![w] = Fresh(@.next)]
    /\ UNCHANGED <<engine, logVars, owner, pgVars, resume, faults>>

\* commitCollected at the end of the pass, or when an error ends it.
Flush(w) ==
    /\ work[w].pc = "flush" \/ (work[w].pc = "scan" /\ work[w].todo = {})
    /\ Committing(w, work[w].done)
    /\ work' = [work EXCEPT ![w] = [Fresh(@.next) EXCEPT !.unc = work[w].unc \ work[w].done]]
    /\ UNCHANGED <<engine, logVars, owner, pgVars, resume, faults>>

\* The commit fails and its error ends the pass; retryOrDLQ's error is
\* followed by one more commit of what was collected.
CommitFails(w) ==
    /\ \/ work[w].pc \in {"one", "batch"}
       \/ work[w].pc = "flush" /\ work[w].done # {}
       \/ work[w].pc = "scan" /\ work[w].todo = {}
    /\ IF work[w].pc = "one"
       THEN work' = [work EXCEPT ![w].pc = "flush", ![w].retrying = FALSE]
       ELSE AbandonPass(w)
    /\ Fault
    /\ UNCHANGED <<engine, logVars, committed, owner, pgVars, resume>>

----------------------------------------------------------------------------
(* Crashes and rebalances *)

\* The process dies and starts again from the committed offset.
WorkerCrash(w) ==
    /\ work[w] # Fresh(committed)
    /\ work' = [work EXCEPT ![w] = Fresh(committed)]
    /\ Fault
    /\ UNCHANGED <<engine, logVars, committed, owner, pgVars, resume>>

\* The partition is assigned to w, which reads from the committed offset. The
\* worker that had it goes on with what it has in memory.
Rebalance(w) ==
    /\ w # owner
    /\ owner' = w
    /\ work' = [work EXCEPT ![w].next = committed]
    /\ Fault
    /\ UNCHANGED <<engine, logVars, committed, pgVars, resume>>

(* Reconcile, every 30 s and on request, and what it may find wrong *)

DeadLettered == \E id \in Ids : rows[id].dlq
Unfinished == \E id \in Ids : rows[id].status \notin Terminal \cup {"none"}

\* checkSettlementGapless: the rows of the present epoch are to start at 1.
Gapped ==
    \E n \in 2..MaxSeq : rows[<<pg.epoch, n>>] # NoRow /\ rows[<<pg.epoch, n - 1>>] = NoRow

\* checkEngineCheckpoint, once the epoch has a settled row.
CheckpointLags ==
    /\ \E n \in 1..MaxSeq : rows[<<pg.epoch, n>>].status \in Terminal
    /\ checkpoint.epoch # pg.epoch \/ checkpoint.seq # pg.seq \/ checkpoint.next = 0

\* The first violation, or what else it reports.  lag: the stream has entries
\* after the relay cursor that the reconciler could not drain.  An unfinished
\* row counts once it is older than settlementTerminalGrace.  The checks left
\* out compare what one transaction wrote.
Findings(lag) ==
    IF lag THEN {"PENDING", "APPEND_IN_PROGRESS"}
    ELSE IF engine.seq < pg.seq THEN {"REDIS_BEHIND_DB"}
    ELSE IF DeadLettered THEN {"DLQ"}
    ELSE (IF Unfinished THEN {"NOT_TERMINAL"} ELSE {})
         \cup {IF Gapped \/ CheckpointLags THEN "DRIFT"
               ELSE IF engine.seq > pg.seq THEN "DB_BEHIND_REDIS" ELSE "OK"}

\* isRecoverableRedisEnginePause: a later reconcile may lift such a pause.
Recoverable == {"PENDING", "REDIS_BEHIND_DB", "NOT_TERMINAL"}

\* Worker.pause, in PostgreSQL and in Redis.
Paused(finding) ==
    /\ Pause(IF finding \in Recoverable THEN "RECOVERABLE" ELSE "LASTING")
    /\ engine' = [engine EXCEPT !.paused = TRUE]

Unpaused == Pause("no") /\ engine' = [engine EXCEPT !.paused = FALSE]

Reconciled(finding) ==
    \/ finding \in Recoverable \cup {"DLQ", "DRIFT"} /\ Paused(finding)
    \/ finding = "OK" /\ pg.pause = "RECOVERABLE" /\ Unpaused
    \/ finding = "OK" /\ pg.pause # "RECOVERABLE" /\ UNCHANGED <<pg, engine>>
    \/ finding \in {"APPEND_IN_PROGRESS", "DB_BEHIND_REDIS"} /\ UNCHANGED <<pg, engine>>

\* The periodic reconcile, and the one before a resume that it refuses.
Reconcile(lag) ==
    /\ \E finding \in Findings(lag) : Reconciled(finding)
    /\ UNCHANGED <<logVars, committed, owner, work, rows, bids, events, order, checkpoint, resume, faults>>

----------------------------------------------------------------------------
(* resumeRedisEngine, one action per call it makes *)

\* The reconcile before it passes.  Nothing stops bids and settlements after it.
ResumePreflight(lag) ==
    /\ resume.pc = "no"
    /\ pg.epoch < MaxEpoch
    /\ \E finding \in Findings(lag) \cap {"OK", "REDIS_BEHIND_DB"} : Reconciled(finding)
    /\ resume' = [resume EXCEPT !.pc = "checked"]
    /\ UNCHANGED <<logVars, committed, owner, work, rows, bids, events, order, checkpoint, faults>>

\* There is no checkpoint and nothing is settled: the present state is loaded ...
ResumeFirst ==
    /\ resume.pc = "checked"
    /\ checkpoint.epoch = 0
    /\ pg.seq = 0
    /\ resume' = [pc |-> "first", seq |-> 0, sold |-> pg.sold, paused |-> pg.pause # "no"]
    /\ UNCHANGED <<engine, logVars, committed, owner, work, pgVars, faults>>

\* ... and a checkpoint is made of what PostgreSQL holds by then, in the same
\* epoch: a decision taken since the load gets its number a second time.
ResumeFirstCheckpoint ==
    /\ resume.pc = "first"
    /\ checkpoint' = [epoch |-> pg.epoch, seq |-> pg.seq, next |-> 0]
    /\ resume' = [resume EXCEPT !.pc = "ready"]
    /\ UNCHANGED <<engine, logVars, committed, owner, work, rows, pg, bids, events, order, faults>>

\* Mutant: the snapshot forgets that the auction is sold.
ResumeLoadActive ==
    /\ resume.pc = "checked"
    /\ checkpoint.epoch = pg.epoch
    /\ checkpoint.seq = pg.seq
    /\ resume' = [pc |-> "loaded", seq |-> pg.seq, sold |-> FALSE, paused |-> pg.pause # "no"]
    /\ UNCHANGED <<engine, logVars, committed, owner, work, pgVars, faults>>

\* The snapshot is loaded from the auctions row, which the checkpoint matches.
ResumeLoad ==
    /\ resume.pc = "checked"
    /\ checkpoint.epoch = pg.epoch
    /\ checkpoint.seq = pg.seq
    /\ resume' = [pc |-> "loaded", seq |-> pg.seq, sold |-> pg.sold, paused |-> pg.pause # "no"]
    /\ UNCHANGED <<engine, logVars, committed, owner, work, pgVars, faults>>

\* "checkpoint does not match PostgreSQL settlement": the resume fails.
ResumeRefused ==
    /\ resume.pc = "checked"
    /\ checkpoint.epoch # pg.epoch \/ checkpoint.seq # pg.seq
    /\ checkpoint.epoch = 0 => pg.seq > 0
    /\ resume' = NoResume
    /\ UNCHANGED <<engine, logVars, committed, owner, work, pgVars, faults>>

\* The epoch goes up in PostgreSQL, whatever was settled since the load.
ResumeBumpEpoch ==
    /\ resume.pc = "loaded"
    /\ pg' = [pg EXCEPT !.epoch = @ + 1]
    /\ resume' = [resume EXCEPT !.pc = "ready"]
    /\ UNCHANGED <<engine, logVars, committed, owner, work, rows, bids, events, order, checkpoint, faults>>

\* Redis starts again from the snapshot, in the epoch PostgreSQL has now.
ResumeWrite ==
    /\ resume.pc = "ready"
    /\ engine' = [epoch |-> pg.epoch, seq |-> resume.seq, sold |-> resume.sold,
                  paused |-> resume.paused]
    /\ resume' = [NoResume EXCEPT !.pc = "written"]
    /\ UNCHANGED <<logVars, committed, owner, work, pgVars, faults>>

\* The reconcile after it: when it finds nothing wrong any pause is lifted.
ResumePostflight(lag) ==
    /\ resume.pc = "written"
    /\ \E finding \in Findings(lag) : IF finding = "OK" THEN Unpaused ELSE Reconciled(finding)
    /\ resume' = NoResume
    /\ UNCHANGED <<logVars, committed, owner, work, rows, bids, events, order, checkpoint, faults>>

\* A call fails, or the process dies: what is done stays done.
ResumeFails ==
    /\ resume.pc \in {"checked", "first", "loaded", "ready", "written"}
    /\ resume' = NoResume
    /\ Fault
    /\ UNCHANGED <<engine, logVars, committed, owner, work, pgVars>>

Resume(lag) ==
    \/ ResumePreflight(lag)
    \/ ResumeFirst
    \/ ResumeFirstCheckpoint
    \/ ResumeLoad
    \/ ResumeRefused
    \/ ResumeBumpEpoch
    \/ ResumeWrite
    \/ ResumePostflight(lag)
    \/ ResumeFails

\* processSignal: what an operator may ask for.  (Reconcile also runs by itself;
\* the pause an operator may ask for is LedgerRelay's SetPaused.)
Signal(lag) == Reconcile(lag) \/ Resume(lag)

WorkerProgress(w) ==
    \/ FetchAgain(w)
    \/ FetchNew(w)
    \/ SettleBatch(w)
    \/ SkipBatch(w)
    \/ RejectedBatchStuck(w)
    \/ RecordAttempt(w)
    \/ AlreadyTerminal(w)
    \/ IdentityConflict(w)
    \/ DuplicateWaits(w)
    \/ DuplicateClaims(w)
    \/ SettleNext(w)
    \/ SkipOldEpoch(w)
    \/ RefuseOldEpoch(w)
    \/ AwaitPredecessor(w)
    \/ RefuseGap(w)
    \/ RetryLater(w)
    \/ RetryNow(w)
    \/ DeadLetter(w)
    \/ CommitOne(w)
    \/ CommitBatch(w)
    \/ Flush(w)

WorkerFault(w) ==
    \/ BatchFails(w)
    \/ RecordFails(w)
    \/ SettleFails(w)
    \/ CommitFails(w)
    \/ WorkerCrash(w)
    \/ Rebalance(w)

Next ==
    \/ \E k \in Kinds : Decide(k)
    \/ \E from, last \in 0..Len(stream) : Relay(from, last)
    \/ \E w \in Workers : WorkerProgress(w) \/ WorkerFault(w)
    \/ \E lag \in BOOLEAN : Signal(lag)

Spec == Init /\ [][Next]_settlementVars

(***************************************************************************)
(* runPeriodic calls ProcessKafka every 10 ms in every live worker, so a   *)
(* worker keeps taking its steps.  A duplicate that waits is retried until *)
(* the first attempt is old enough to be taken over: strong fairness.      *)
(***************************************************************************)
Fairness ==
    \A w \in Workers :
        /\ WF_settlementVars(WorkerProgress(w))
        /\ SF_settlementVars(DuplicateClaims(w))

FairSpec == Spec /\ Fairness

----------------------------------------------------------------------------
(* Properties *)

Row == [off: Nat, status: {"none", "PROCESSING", "FAILED"} \cup Terminal,
        attempts: 0..MaxAttempts, dlq: BOOLEAN]
WorkerState ==
    [pc: {"idle", "scan", "single", "tx", "retry", "one", "batch", "flush"},
     next: Nat, unc: SUBSET Nat, todo: SUBSET Nat,
     done: SUBSET Nat, now: SUBSET Nat, attempts: 0..MaxAttempts,
     err: {"none", "plain", "transient", "permanent"}, retrying: BOOLEAN]

\* The type of every variable of the settlement.
SettlementTypeOK ==
    /\ engine \in [epoch: 1..MaxEpoch, seq: 0..MaxSeq, sold: BOOLEAN, paused: BOOLEAN]
    /\ stream \in Seq(Decision) /\ Len(stream) <= MaxSeq
    /\ klog \in Seq(1..MaxSeq)
    /\ committed \in Nat
    /\ owner \in Workers
    /\ work \in [Workers -> WorkerState]
    /\ rows \in [Ids -> Row]
    /\ pg \in [epoch: 1..MaxEpoch, seq: 0..MaxSeq, pub: 0..MaxSeq, leader: 0..MaxSeq,
               sold: BOOLEAN,
               pause: {"no", "LEDGER_GAP", "RECOVERABLE", "LASTING"}]
    /\ bids \in Seq(Decision)
    /\ events \in Seq(1..MaxSeq)
    /\ order \in 0..MaxSeq
    /\ checkpoint \in [epoch: 0..MaxEpoch, seq: 0..MaxSeq, next: Nat]
    /\ resume \in [pc: {"no", "checked", "first", "loaded", "ready", "written"}, seq: 0..MaxSeq,
                  sold: BOOLEAN, paused: BOOLEAN]
    /\ faults \in 0..MaxFaults

\* Whatever is redelivered, retried or raced, PostgreSQL holds the decisions
\* 1..engine_seq, each once and in order, and engine_seq counts them.
SettledInOrder ==
    /\ Len(bids) = pg.seq
    /\ \A i \in DOMAIN bids : bids[i].seq = i

Accepted == {n \in DOMAIN bids : bids[n].kind \in {"accepted", "sold"}}

\* checkAcceptedPublicSeqContiguous.
PublicSeqContiguous == \A n \in DOMAIN events : n = 1 \/ n - 1 \in DOMAIN events

\* checkAuctionWinnerPrice: the latest accepted bid by epoch and number leads.
WinnerPrice ==
    \A n \in Accepted :
        (\A m \in Accepted :
            bids[m].epoch < bids[n].epoch \/ (bids[m].epoch = bids[n].epoch /\ bids[m].seq <= bids[n].seq))
        => pg.leader = bids[n].seq

\* No rebuild has given out a number a second time.  One that loaded its
\* snapshot before the last decisions were settled does, and does not know of
\* a sale among them: the engine sells again, and PostgreSQL with it.
NumbersOnce == \A m, n \in DOMAIN stream : stream[m].seq = stream[n].seq => m = n

\* checkSoldOrderUniqueness.
SoldOrderUniqueness ==
    /\ pg.sold => order # 0
    /\ NumbersOnce => Cardinality({id \in Ids : /\ rows[id].status = "SETTLED"
                                                /\ Message(rows[id].off).kind = "sold"}) <= 1

\* Once a sale is settled nothing replaces its winner.
SaleIsFinal == NumbersOnce /\ order # 0 => pg.sold /\ pg.leader = order

\* The checks Reconcile makes of PostgreSQL alone never fail, whatever is
\* redelivered, retried, raced or rebuilt: those of one public sequence and one
\* winner at any time, those of one sale until a rebuild gives out a number
\* again.  And until then a sale stays, which Reconcile does not look at.
ReconcilerFindsNothing ==
    PublicSeqContiguous /\ WinnerPrice /\ SoldOrderUniqueness /\ SaleIsFinal

\* auction_seq_matches_events, of the invariant checker (invariant/checks.go).
AuctionSeqMatchesEvents == pg.pub = Highest({0} \cup DOMAIN events)

\* winner_price_matches_latest_accepted_bid: the latest by public number.
WinnerMatchesLatestAcceptedBid ==
    IF Accepted = {} THEN pg.leader = 0
    ELSE pg.leader = Highest({events[n] : n \in DOMAIN events}
                             \cap {bids[m].seq : m \in Accepted})

\* redis_engine_accepted_settlement_has_bid_event, and only what is broadcast
\* has an event.
EventCoverage ==
    /\ \A id \in Ids :
          rows[id].status = "SETTLED" /\ Message(rows[id].off).kind \in {"accepted", "sold"} =>
              /\ \E n \in Accepted : Id(bids[n]) = id
              /\ \E n \in DOMAIN events : events[n] = id[2]
    /\ \A n \in DOMAIN events : bids[events[n]].kind # "quiet"

SettledOf(epoch) == {n \in 1..MaxSeq : rows[<<epoch, n>>].status = "SETTLED"}

\* redis_engine_settlement_seq_contiguous, of one epoch.
SettlementContiguous(epoch) == \A n \in SettledOf(epoch) : 1..n \subseteq SettledOf(epoch)

\* redis_engine_seq_matches_settlement.
EngineSeqMatchesSettlement == pg.seq > 0 => pg.seq = Highest({0} \cup SettledOf(pg.epoch))

\* A row that says SETTLED is right: the decision is in PostgreSQL.
SettledRowsAreBids ==
    \A id \in Ids : rows[id].status = "SETTLED" =>
        id[2] \in DOMAIN bids /\ Id(bids[id[2]]) = id

\* The invariant checker's audits of the ledger agree with each other at any
\* moment.  The last two count from 1 in the present epoch, so they are right
\* only of an auction whose epoch is the first, while no row is unfinished.
CheckerFindsNothing ==
    /\ AuctionSeqMatchesEvents
    /\ WinnerMatchesLatestAcceptedBid
    /\ EventCoverage
    /\ SettledRowsAreBids
    /\ pg.epoch = 1 /\ ~Unfinished => SettlementContiguous(1) /\ EngineSeqMatchesSettlement

\* A rebuild may start from the checkpoint: it is the state of the auctions
\* row, and no record before its offset is unaccounted for.
CheckpointIsComplete ==
    /\ checkpoint.seq = pg.seq
    /\ \A o \in 1..(checkpoint.next - 1) :
          Message(o).seq <= checkpoint.seq \/ rows[Id(Message(o))] # NoRow

\* Redelivery is absorbed (docs/03-backend/settlement/01-kafka-redelivery-
\* idempotency.md): with one worker a record that is consumed again, after a
\* crash or a retry, is taken for a gap that pauses the auction only where a
\* record was dead-lettered, which marks a settled row FAILED too
\* (engine.go:4822), or a rebuild gave out its number again.
NoFalseGap == pg.pause = "LEDGER_GAP" => DeadLettered \/ ~NumbersOnce

GaveUp(n) ==
    \E m \in 1..n : m \in DOMAIN stream /\
        \/ rows[Id(stream[m])].status = "FAILED"
        \/ rows[Id(stream[m])].attempts >= MaxAttempts

\* A second record of a decision that failed is taken for a first attempt that
\* goes on elsewhere: it ends every pass, and what is behind it is not read.
Blocked == \E o \in (committed + 1)..Len(klog) :
    LET row == rows[Id(Message(o))] IN row.status = "FAILED" /\ row.off # o

OnRecord(n) == n \in DOMAIN stream /\ (pg.seq >= stream[n].seq \/ GaveUp(n) \/ Blocked)

\* A decision in the partition is settled in the end, unless it or one before
\* it failed on record, or one after it that overtook it failed and blocks the
\* partition.  A rebuild does not change that (engine.go:3882-3884): a
\* decision of an older epoch that PostgreSQL lacks is to fail closed.
EventuallySettled == \A n \in 1..MaxSeq : Recorded(n) ~> OnRecord(n)

============================================================================
