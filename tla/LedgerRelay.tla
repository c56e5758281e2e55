------------------------------ MODULE LedgerRelay ------------------------------
(***************************************************************************)
(* The durable relay of the bid engine (redisengine/engine.go): decisions  *)
(* of one auction are appended to a Redis Stream by the Lua script that    *)
(* takes them, and relay goroutines copy the stream to one Kafka partition *)
(* in batches.  Several relays run at once: the trigger goroutine, the     *)
(* periodic control loop and the reconciler of every server process call   *)
(* relayAuctionLogBatch with no lock between them.                         *)
(***************************************************************************)
EXTENDS Integers, Sequences, FiniteSets

CONSTANTS
    Kinds,      \* kinds of decision, a subset of the four below
    Relays,     \* goroutines that run relayAuctionLogBatch for this auction
    BatchMax,   \* relayBatchSize: most entries one XREAD returns
    MaxSeq,     \* bound: decisions the engine takes
    MaxEpoch,   \* bound: engine epochs, one more than the rebuilds
    MaxFaults   \* bound: lost calls, retried calls and crashes together

(***************************************************************************)
(* What the settlement worker tells apart in a decision: an accepted bid,  *)
(* the bid that reaches the cap price, a rejection that is broadcast and a *)
(* quiet one (too low, auction over), which only advances engine_seq.      *)
(***************************************************************************)
DecisionKinds == {"accepted", "sold", "rejected", "quiet"}

ASSUME RelayAssumption ==
    /\ Kinds \subseteq DecisionKinds
    /\ BatchMax \in Nat \ {0}
    /\ MaxSeq \in Nat
    /\ MaxEpoch \in Nat \ {0}
    /\ MaxFaults \in Nat

VARIABLES
    engine,   \* Redis state of the auction: epoch, seq, sold, paused
    stream,   \* bid:{auction}:engine:log, the decisions in the order taken
    pending,  \* the hash of engine_seqs not yet known to be in Kafka
    acked,    \* stream entries whose idempotency record says ACKED
    cursor,   \* the stored relay cursor: last stream entry relayed
    relay,    \* per relay: where it is in relayAuctionLogBatch, and its batch
    klog,     \* the Kafka partition: klog[o] is the stream entry of record o
    faults    \* faults so far

relayVars == <<engine, stream, pending, acked, cursor, relay, klog, faults>>

Decision == [epoch: 1..MaxEpoch, seq: 1..MaxSeq, kind: Kinds]

Idle == [pc |-> "idle", from |-> 0, last |-> 0, sent |-> 0, lost |-> FALSE]
Recorded(n) == \E o \in DOMAIN klog : klog[o] = n
Entries(r) == (relay[r].from + 1)..relay[r].last
Seqs(S) == {stream[n].seq : n \in S}
Fault == faults < MaxFaults /\ faults' = faults + 1

Init ==
    /\ engine = [epoch |-> 1, seq |-> 0, sold |-> FALSE, paused |-> FALSE]
    /\ stream = <<>>
    /\ pending = {}
    /\ acked = {}
    /\ cursor = 0
    /\ relay = [r \in Relays |-> Idle]
    /\ klog = <<>>
    /\ faults = 0

(***************************************************************************)
(* store_decision in the Lua script: in one atomic step the next           *)
(* engine_seq, the pending entry and the stream entry.  A paused engine    *)
(* takes no decision; once the cap price sold the auction the status guard *)
(* turns every bid down quietly.                                           *)
(***************************************************************************)
Decide(k) ==
    /\ Len(stream) < MaxSeq
    /\ ~engine.paused
    /\ engine.sold => k = "quiet"
    /\ stream' = Append(stream, [epoch |-> engine.epoch, seq |-> engine.seq + 1, kind |-> k])
    /\ engine' = [engine EXCEPT !.seq = @ + 1, !.sold = @ \/ k = "sold"]
    /\ pending' = pending \cup {engine.seq + 1}
    /\ UNCHANGED <<acked, cursor, relay, klog, faults>>

\* The settlement worker, the reconciler or an operator pauses the engine
\* (Worker.pause), or a reconcile that finds nothing wrong lifts the pause.
SetPaused ==
    /\ engine' = [engine EXCEPT !.paused = ~engine.paused]
    /\ UNCHANGED <<stream, pending, acked, cursor, relay, klog, faults>>

\* Mutant: the cursor is moved to the end instead of deleted.
RedisRebuildAtEnd ==
    /\ engine' \in [epoch: (engine.epoch + 1)..MaxEpoch, seq: 0..Len(stream),
                   sold: {FALSE, engine.sold}, paused: BOOLEAN]
    /\ cursor' = Len(stream)
    /\ UNCHANGED <<stream, pending, acked, relay, klog, faults>>

(***************************************************************************)
(* writeRedisStateSnapshot: a resume restarts the engine from what         *)
(* PostgreSQL holds, in a new epoch, and deletes the relay cursor.  The    *)
(* stream, the pending hash and the idempotency records stay.  (The first  *)
(* resume of an auction keeps the epoch.  A relay never looks at it; here  *)
(* it counts the rebuilds.)                                                *)
(***************************************************************************)
RedisRebuild ==
    /\ engine' \in [epoch: (engine.epoch + 1)..MaxEpoch, seq: 0..Len(stream),
                   sold: {FALSE, engine.sold}, paused: BOOLEAN]
    /\ cursor' = 0
    /\ UNCHANGED <<stream, pending, acked, relay, klog, faults>>

----------------------------------------------------------------------------
(* relayAuctionLogBatch, one action per call it makes *)

GetCursor(r) ==
    /\ relay[r].pc = "idle"
    /\ relay' = [relay EXCEPT ![r] = [pc |-> "read", from |-> cursor, last |-> cursor,
                                    sent |-> cursor, lost |-> FALSE]]
    /\ UNCHANGED <<engine, stream, pending, acked, cursor, klog, faults>>

\* Nothing after the cursor: the pass returns.
ReadNothing(r) ==
    /\ relay[r].pc = "read"
    /\ relay[r].from >= Len(stream)
    /\ relay' = [relay EXCEPT ![r] = Idle]
    /\ UNCHANGED <<engine, stream, pending, acked, cursor, klog, faults>>

ReadStream(r) ==
    /\ relay[r].pc = "read"
    /\ relay[r].from < Len(stream)
    /\ relay' = [relay EXCEPT ![r].pc = "append",
                              ![r].last = IF relay[r].from + BatchMax < Len(stream)
                                          THEN relay[r].from + BatchMax
                                          ELSE Len(stream)]
    /\ UNCHANGED <<engine, stream, pending, acked, cursor, klog, faults>>

(***************************************************************************)
(* AppendBatch: one call of a writer that the whole process shares.  It    *)
(* cuts what it is given where a broker batch is full (1000 messages or    *)
(* 1 MB), which other relays and auctions fill too, so a call may end up   *)
(* in pieces anywhere.  The pieces go out one after another, each with its *)
(* own retries, and one that fails does not stop the next; the call        *)
(* returns an error when any piece failed.                                 *)
(***************************************************************************)
Piece(r, m) == [i \in 1..(m - relay[r].sent) |-> relay[r].sent + i]

\* The piece up to entry m is done with.  After the last one the call returns:
\* with an error the pass ends and the cursor stays, so a later pass tries again.
Sent(r, m, lost) ==
    relay' = [relay EXCEPT ![r] = IF m < relay[r].last THEN [@ EXCEPT !.sent = m, !.lost = lost]
                                  ELSE IF lost THEN Idle
                                  ELSE [@ EXCEPT !.pc = "ack", !.sent = m]]

\* acks=all: the piece is in the partition.
AppendBatch(r) ==
    /\ relay[r].pc = "append"
    /\ \E m \in (relay[r].sent + 1)..relay[r].last :
          klog' = klog \o Piece(r, m) /\ Sent(r, m, relay[r].lost)
    /\ UNCHANGED <<engine, stream, pending, acked, cursor, faults>>

\* The writer is not idempotent: a retry inside WriteMessages whose first
\* attempt was written but not acknowledged leaves the piece there twice.
AppendTwice(r) ==
    /\ relay[r].pc = "append"
    /\ \E m \in (relay[r].sent + 1)..relay[r].last :
          klog' = klog \o Piece(r, m) \o Piece(r, m) /\ Sent(r, m, relay[r].lost)
    /\ Fault
    /\ UNCHANGED <<engine, stream, pending, acked, cursor>>

\* Mutant: the error of a piece is logged and the call goes on as if written.
AppendErrorIgnored(r) ==
    /\ relay[r].pc = "append"
    /\ \E m \in (relay[r].sent + 1)..relay[r].last :
          klog' \in {klog, klog \o Piece(r, m)} /\ Sent(r, m, relay[r].lost)
    /\ Fault
    /\ UNCHANGED <<engine, stream, pending, acked, cursor>>

\* The writer gives a piece up: it was written or it was not.
AppendError(r) ==
    /\ relay[r].pc = "append"
    /\ \E m \in (relay[r].sent + 1)..relay[r].last :
          klog' \in {klog, klog \o Piece(r, m)} /\ Sent(r, m, TRUE)
    /\ Fault
    /\ UNCHANGED <<engine, stream, pending, acked, cursor>>

\* Mutant: the whole pending hash is deleted.
MarkAckedDropsAll(r) ==
    /\ relay[r].pc = "ack"
    /\ acked' = acked \cup Entries(r)
    /\ pending' = {}
    /\ relay' = [relay EXCEPT ![r].pc = "advance"]
    /\ UNCHANGED <<engine, stream, cursor, klog, faults>>

\* One pipeline marks every record ACKED and drops it from the pending hash.
MarkAcked(r) ==
    /\ relay[r].pc = "ack"
    /\ acked' = acked \cup Entries(r)
    /\ pending' = pending \ Seqs(Entries(r))
    /\ relay' = [relay EXCEPT ![r].pc = "advance"]
    /\ UNCHANGED <<engine, stream, cursor, klog, faults>>

\* The pipeline fails part of the way; the pass goes on all the same.
MarkAckedFails(r) ==
    /\ relay[r].pc = "ack"
    /\ \E m \in relay[r].from..(relay[r].last - 1) :
          LET marked == (relay[r].from + 1)..m
          IN acked' = acked \cup marked /\ pending' = pending \ Seqs(marked)
    /\ relay' = [relay EXCEPT ![r].pc = "advance"]
    /\ Fault
    /\ UNCHANGED <<engine, stream, cursor, klog>>

\* Mutant: the cursor is the next entry to read instead of the last one read.
AdvanceCursorPast(r) ==
    /\ relay[r].pc = "advance"
    /\ cursor' = relay[r].last + 1
    /\ relay' = [relay EXCEPT ![r] = Idle]
    /\ UNCHANGED <<engine, stream, pending, acked, klog, faults>>

\* Mutant: the cursor is set to the end of the stream.
AdvanceCursorToEnd(r) ==
    /\ relay[r].pc = "advance"
    /\ cursor' = Len(stream)
    /\ relay' = [relay EXCEPT ![r] = Idle]
    /\ UNCHANGED <<engine, stream, pending, acked, klog, faults>>

\* SET cursor: unconditional, so a slow relay may move it backwards.
AdvanceCursor(r) ==
    /\ relay[r].pc = "advance"
    /\ cursor' = relay[r].last
    /\ relay' = [relay EXCEPT ![r] = Idle]
    /\ UNCHANGED <<engine, stream, pending, acked, klog, faults>>

AdvanceCursorFails(r) ==
    /\ relay[r].pc = "advance"
    /\ relay' = [relay EXCEPT ![r] = Idle]
    /\ Fault
    /\ UNCHANGED <<engine, stream, pending, acked, cursor, klog>>

\* The process of the relay dies; what it held in memory is gone.
RelayCrash(r) ==
    /\ relay[r].pc # "idle"
    /\ relay' = [relay EXCEPT ![r] = Idle]
    /\ Fault
    /\ UNCHANGED <<engine, stream, pending, acked, cursor, klog>>

RelayStep(r) ==
    \/ GetCursor(r)
    \/ ReadNothing(r)
    \/ ReadStream(r)
    \/ AppendBatch(r)
    \/ AppendTwice(r)
    \/ AppendError(r)
    \/ MarkAcked(r)
    \/ MarkAckedFails(r)
    \/ AdvanceCursor(r)
    \/ AdvanceCursorFails(r)
    \/ RelayCrash(r)

Next ==
    \/ \E k \in Kinds : Decide(k)
    \/ SetPaused
    \/ RedisRebuild
    \/ \E r \in Relays : RelayStep(r)

Spec == Init /\ [][Next]_relayVars

(***************************************************************************)
(* runPeriodic calls the relay on every tick for as long as the process    *)
(* lives and each call returns (client timeouts), so every relay keeps     *)
(* taking its steps.  Faults and decisions are not fair.                   *)
(***************************************************************************)
Progress(r) ==
    \/ GetCursor(r)
    \/ ReadNothing(r)
    \/ ReadStream(r)
    \/ AppendBatch(r)
    \/ MarkAcked(r)
    \/ AdvanceCursor(r)

Fairness == \A r \in Relays : WF_relayVars(Progress(r))

FairSpec == Spec /\ Fairness

----------------------------------------------------------------------------
(* Properties *)

RelayState == [pc: {"idle", "read", "append", "ack", "advance"},
               from: 0..MaxSeq, last: 0..MaxSeq, sent: 0..MaxSeq, lost: BOOLEAN]

\* The type of every variable of the relay.
RelayTypeOK ==
    /\ engine \in [epoch: 1..MaxEpoch, seq: 0..MaxSeq, sold: BOOLEAN, paused: BOOLEAN]
    /\ stream \in Seq(Decision) /\ Len(stream) <= MaxSeq
    /\ pending \subseteq 1..MaxSeq
    /\ acked \subseteq 1..MaxSeq
    /\ cursor \in 0..MaxSeq
    /\ relay \in [Relays -> RelayState]
    /\ klog \in Seq(1..MaxSeq)
    /\ faults \in 0..MaxFaults

\* The partition follows the stream but for holes shorter than one batch: a
\* piece may get there without the piece before it, yet never without what an
\* earlier call was to bring, whatever the relays do to one another, however
\* often they fail or write again.  The settlement worker waits at a hole
\* (AwaitPredecessor), and the relay whose call failed fills it.
HolesAreShort ==
    \A o \in DOMAIN klog :
        /\ klog[o] \in DOMAIN stream
        /\ \A n \in 1..(klog[o] - BatchMax) : \E p \in 1..(o - 1) : klog[p] = n

\* An acknowledgement is never early: a decision the client is told is in
\* Kafka, or that the cursor has passed, is in Kafka.
NothingSkipped ==
    \A n \in DOMAIN stream : (n \in acked \/ n <= cursor) => Recorded(n)

\* A decision that is not in Kafka is in the pending hash, which a cold start
\* must find empty; until a rebuild gives out an engine_seq, the key of the
\* hash, a second time.
PendingCovers ==
    (\A m, n \in DOMAIN stream : stream[m].seq = stream[n].seq => m = n) =>
        \A n \in DOMAIN stream : Recorded(n) \/ stream[n].seq \in pending

\* Every decision gets to Kafka, whatever the faults before: the retry by
\* cursor loses nothing.
EventuallyDurable ==
    \A n \in 1..MaxSeq : (n \in DOMAIN stream) ~> Recorded(n)

============================================================================
