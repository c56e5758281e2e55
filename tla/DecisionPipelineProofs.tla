------------------------- MODULE DecisionPipelineProofs -------------------------
(***************************************************************************)
(* What the bid pipeline guarantees for any number of relays, workers,     *)
(* decisions, rebuilds and faults: it keeps the promise of SettledLedger,  *)
(* no acknowledged decision is lost between Kafka and PostgreSQL, and what *)
(* PostgreSQL has is the beginning of what the engine decided.  The        *)
(* invariants of the relay and of the settlement hold together; each step  *)
(* of one side is a step of its own module and leaves the other side what  *)
(* its invariant is about.                                                 *)
(***************************************************************************)
EXTENDS DecisionPipeline, SequenceTheorems, TLAPS

RP == INSTANCE LedgerRelayProofs
SP == INSTANCE SettlementProofs WITH MaxLog <- 0

\* The inductive invariant.
PipelineInv == RP!RelayInv /\ SP!SettlementInv

----------------------------------------------------------------------------
(* The two modules and this one speak of the same steps *)

\* What the two modules assume of the constants.
LEMMA Assumptions == RP!RelayAssumption /\ SP!SettlementAssumption
BY DecisionPipelineAssumption
   DEF DecisionPipelineAssumption, RP!RelayAssumption, RP!DecisionKinds, SP!SettlementAssumption

\* The start is a start of each.
LEMMA InitIs == Init => RP!Init /\ SP!Init
BY DEF Init, R!Init, S!Init, RP!Init, SP!Init, R!Idle, RP!Idle, S!Fresh, SP!Fresh, S!Ids, SP!Ids,
       S!NoRow, SP!NoRow, S!NoResume, SP!NoResume

\* A decision is a step of each.
LEMMA DecideIs ==
    ASSUME NEW k, Decide(k)
    PROVE  RP!Decide(k) /\ SP!Decide(k) /\ R!Decide(k)
BY DEF Decide, R!Decide, RP!Decide, SP!Decide, settlementOnly, SP!pgVars

\* A relay's step is one of LedgerRelay.
LEMMA RelayStepIs ==
    ASSUME NEW r, RelayStep(r)
    PROVE  RP!RelayStep(r) /\ UNCHANGED settlementOnly
BY DEF RelayStep, R!RelayStep, R!GetCursor, R!ReadNothing, R!ReadStream, R!AppendBatch,
       R!AppendTwice, R!AppendError, R!MarkAcked, R!MarkAckedFails, R!AdvanceCursor,
       R!AdvanceCursorFails, R!RelayCrash, R!Piece, R!Sent, R!Entries, R!Seqs, R!Idle, R!Fault,
       RP!RelayStep, RP!GetCursor, RP!ReadNothing, RP!ReadStream, RP!AppendBatch,
       RP!AppendTwice, RP!AppendError, RP!MarkAcked, RP!MarkAckedFails, RP!AdvanceCursor,
       RP!AdvanceCursorFails, RP!RelayCrash, RP!Piece, RP!Sent, RP!Entries, RP!Seqs, RP!Idle, RP!Fault

\* A worker's step is one of Settlement.
LEMMA WorkerStepIs ==
    ASSUME NEW w, WorkerStep(w)
    PROVE  (SP!WorkerProgress(w) \/ SP!WorkerFault(w)) /\ UNCHANGED relayOnly

BY DEF WorkerStep, S!WorkerProgress, S!WorkerFault, S!FetchAgain, S!FetchNew, S!SettleBatch,
       S!SkipBatch, S!RejectedBatchStuck, S!RecordAttempt, S!AlreadyTerminal, S!IdentityConflict,
       S!DuplicateWaits, S!DuplicateClaims, S!SettleNext, S!SkipOldEpoch, S!RefuseOldEpoch,
       S!AwaitPredecessor, S!RefuseGap, S!RetryLater, S!RetryNow, S!DeadLetter, S!CommitOne,
       S!CommitBatch, S!Flush, S!BatchFails, S!RecordFails, S!SettleFails, S!CommitFails,
       S!WorkerCrash, S!Rebalance, S!Cardinality, S!logVars, S!pgVars, S!Ids, S!Terminal, S!NoRow,
       S!Fresh, S!Lowest, S!Highest, S!OneMore, S!Message, S!Id, S!Fault, S!Cur, S!Pending,
       S!Handled, S!Failed, S!Contiguous, S!BatchLen, S!BatchOf, S!HasBatch, S!FirstOf, S!LastOf,
       S!Insertable, S!BatchIsNext, S!BatchIsOld, S!BatchIsStuck, S!Broadcast, S!InsertBids,
       S!InsertBid, S!AppendEvents, S!AppendEvent, S!CreateOrder, S!SettleRejectedBatch,
       S!SettleAcceptedBatch, S!SettleRejected, S!SettleAccepted, S!SettleFacts, S!Checkpointed,
       S!AbandonPass, S!Single, S!RowOf, S!SetRow, S!SameDecision, S!IsDuplicate, S!Mark, S!Pause,
       S!Attempts, S!Poison, S!Committing, SP!WorkerProgress, SP!WorkerFault, SP!FetchAgain,
       SP!FetchNew, SP!SettleBatch, SP!SkipBatch, SP!RejectedBatchStuck, SP!RecordAttempt,
       SP!AlreadyTerminal, SP!IdentityConflict, SP!DuplicateWaits, SP!DuplicateClaims,
       SP!SettleNext, SP!SkipOldEpoch, SP!RefuseOldEpoch, SP!AwaitPredecessor, SP!RefuseGap,
       SP!RetryLater, SP!RetryNow, SP!DeadLetter, SP!CommitOne, SP!CommitBatch, SP!Flush,
       SP!BatchFails, SP!RecordFails, SP!SettleFails, SP!CommitFails, SP!WorkerCrash,
       SP!Rebalance, SP!Cardinality, SP!logVars, SP!pgVars, SP!Ids, SP!Terminal, SP!NoRow,
       SP!Fresh, SP!Lowest, SP!Highest, SP!OneMore, SP!Message, SP!Id, SP!Fault, SP!Cur,
       SP!Pending, SP!Handled, SP!Failed, SP!Contiguous, SP!BatchLen, SP!BatchOf, SP!HasBatch,
       SP!FirstOf, SP!LastOf, SP!Insertable, SP!BatchIsNext, SP!BatchIsOld, SP!BatchIsStuck,
       SP!Broadcast, SP!InsertBids, SP!InsertBid, SP!AppendEvents, SP!AppendEvent, SP!CreateOrder,
       SP!SettleRejectedBatch, SP!SettleAcceptedBatch, SP!SettleRejected, SP!SettleAccepted,
       SP!SettleFacts, SP!Checkpointed, SP!AbandonPass, SP!Single, SP!RowOf, SP!SetRow,
       SP!SameDecision, SP!IsDuplicate, SP!Mark, SP!Pause, SP!Attempts, SP!Poison, SP!Committing

\* A signal is one of Settlement, and at most deletes the cursor.
LEMMA SignalIs ==
    ASSUME Signal
    PROVE  SP!Signal(Lag) /\ UNCHANGED <<pending, acked, relay>> /\ cursor' \in {cursor, 0}
BY DEF Signal, S!Signal, S!Reconcile, S!Resume, S!ResumePreflight, S!ResumeFirst,
       S!ResumeFirstCheckpoint, S!ResumeLoad, S!ResumeRefused, S!ResumeBumpEpoch, S!ResumeWrite,
       S!ResumePostflight, S!ResumeFails, S!Findings, S!DeadLettered, S!Unfinished, S!Gapped,
       S!CheckpointLags, S!Recoverable, S!Paused, S!Unpaused, S!Reconciled, S!Pause, S!Ids,
       S!Terminal, S!NoRow, S!NoResume, S!Fault, S!logVars, S!pgVars, SP!Signal, SP!Reconcile,
       SP!Resume, SP!ResumePreflight, SP!ResumeFirst, SP!ResumeFirstCheckpoint, SP!ResumeLoad,
       SP!ResumeRefused, SP!ResumeBumpEpoch, SP!ResumeWrite, SP!ResumePostflight, SP!ResumeFails,
       SP!Findings, SP!DeadLettered, SP!Unfinished, SP!Gapped, SP!CheckpointLags, SP!Recoverable,
       SP!Paused, SP!Unpaused, SP!Reconciled, SP!Pause, SP!Ids, SP!Terminal, SP!NoRow,
       SP!NoResume, SP!Fault, SP!logVars, SP!pgVars

\* Nothing moves on either side.
LEMMA StutterIs ==
    ASSUME UNCHANGED pipelineVars
    PROVE  UNCHANGED RP!relayVars /\ UNCHANGED SP!settlementVars
BY DEF pipelineVars, relayOnly, settlementOnly, RP!relayVars, SP!settlementVars


----------------------------------------------------------------------------
(* The inductive invariant *)

\* The engine and the cursor may be set again while the partition stays.
LEMMA RelaySide ==
    ASSUME RP!RelayInv, SP!StreamInv', UNCHANGED <<stream, klog, pending, acked, relay>>,
           cursor' \in {cursor, 0}
    PROVE  RP!RelayInv'
<1>1. /\ engine' \in [epoch: 1..MaxEpoch, seq: 0..MaxSeq, sold: BOOLEAN, paused: BOOLEAN]
      /\ engine'.seq <= Len(stream') /\ faults' \in 0..MaxFaults
  BY DEF SP!StreamInv
<1>2. MaxSeq \in Nat /\ Len(stream) \in Nat
  BY Assumptions DEF RP!RelayAssumption, RP!RelayInv, RP!RelayTypeOK
<1>3. RP!RelayTypeOK'
  BY <1>1, <1>2 DEF RP!RelayInv, RP!RelayTypeOK, RP!Decision
<1>4. \A n : RP!Reached(n)' <=> RP!Reached(n)
  BY DEF RP!Reached, RP!Covers
<1>5. RP!Reached(0)
  BY <1>2 DEF RP!Reached, RP!Covers
<1>6. RP!Reached(cursor)'
  BY <1>4, <1>5 DEF RP!RelayInv, RP!RelayOrder, RP!Reached, RP!Covers
<1>7. (\A n \in acked : RP!Reached(n))' /\ (\A r \in Relays : RP!RelayReached(r))'
  BY DEF RP!RelayInv, RP!RelayOrder, RP!RelayReached, RP!Reached, RP!Covers
<1>8. RP!NearlyInOrder(klog)' /\ (\A o \in 1..Len(klog) : klog[o] <= Len(stream))'
  BY DEF RP!RelayInv, RP!RelayOrder, RP!NearlyInOrder
<1> QED
  BY <1>1, <1>3, <1>6, <1>7, <1>8 DEF RP!RelayInv, RP!RelayOrder

\* A relay only adds to the partition.
LEMMA PartitionGrows ==
    ASSUME RP!RelayInv, NEW r \in Relays, RP!RelayStep(r)
    PROVE  /\ UNCHANGED <<engine, stream>>
           /\ klog \in Seq(1..MaxSeq) /\ Len(klog) <= Len(klog')
           /\ \A o \in DOMAIN klog : o \in DOMAIN klog' /\ klog'[o] = klog[o]
           /\ klog' = klog \/ UNCHANGED acked
           /\ acked \subseteq acked'
<1>1. RP!RelayInv'
  BY Assumptions, RP!RelayStepInv
<1>2. \A o \in DOMAIN klog : o \in DOMAIN klog' /\ klog'[o] = klog[o]
  <2>1. RP!Next
    BY DEF RP!Next
  <2> QED
    BY <2>1, Assumptions, RP!LogsGrow
<1>3. klog \in Seq(1..MaxSeq) /\ klog' \in Seq(1..MaxSeq)
  BY <1>1 DEF RP!RelayInv, RP!RelayTypeOK
<1>4. Len(klog) <= Len(klog')
  <2>1. /\ Len(klog) \in Nat /\ DOMAIN klog = 1..Len(klog)
        /\ Len(klog') \in Nat /\ DOMAIN klog' = 1..Len(klog')
    BY <1>3
  <2>2. CASE Len(klog) = 0
    BY <2>1, <2>2
  <2>3. CASE Len(klog) # 0
    <3>1. Len(klog) \in DOMAIN klog
      BY <2>1, <2>3
    <3>2. Len(klog) \in DOMAIN klog'
      BY <1>2, <3>1
    <3> QED
      BY <2>1, <3>2
  <2> QED
    BY <2>2, <2>3
<1>5. /\ UNCHANGED <<engine, stream>>
      /\ klog' = klog \/ UNCHANGED acked
      /\ acked \subseteq acked'
  BY DEF RP!RelayStep, RP!GetCursor, RP!ReadNothing, RP!ReadStream, RP!AppendBatch, RP!AppendTwice,
         RP!AppendError, RP!MarkAcked, RP!MarkAckedFails, RP!AdvanceCursor,
         RP!AdvanceCursorFails, RP!RelayCrash
<1> QED
  BY <1>2, <1>3, <1>4, <1>5

\* A relay's step, for the settlement: its partition grows.
LEMMA RelayStepInv ==
    ASSUME PipelineInv, NEW r \in Relays, RelayStep(r)
    PROVE  PipelineInv'
<1>1. RP!RelayStep(r) /\ UNCHANGED settlementOnly /\ RP!RelayInv /\ SP!SettlementInv
  BY RelayStepIs DEF PipelineInv
<1>2. RP!RelayInv'
  BY <1>1, Assumptions, RP!RelayStepInv
<1>3. /\ UNCHANGED <<engine, stream>> /\ Len(klog) <= Len(klog')
      /\ \A o \in DOMAIN klog : klog'[o] = klog[o]
  BY <1>1, PartitionGrows
<1>4. SP!StreamInv /\ SP!SaleInv
  BY <1>1 DEF SP!SettlementInv
<1>5. /\ UNCHANGED <<pg, resume, owner, order, committed, work>> /\ UNCHANGED SP!pgVars
  BY <1>1 DEF settlementOnly, SP!pgVars
<1>6. /\ klog' \in Seq(1..MaxSeq) /\ faults' \in 0..MaxFaults
      /\ \A o \in DOMAIN klog' : klog'[o] <= Len(stream')
  <2>1. klog' \in Seq(1..MaxSeq) /\ faults' \in 0..MaxFaults
    BY <1>2 DEF RP!RelayInv, RP!RelayTypeOK
  <2>2. \A o \in 1..Len(klog') : klog'[o] <= Len(stream')
    BY <1>2 DEF RP!RelayInv, RP!RelayOrder
  <2>3. DOMAIN klog' = 1..Len(klog')
    BY <2>1
  <2> QED
    BY <2>1, <2>2, <2>3
<1>7. SP!StreamInv'
  BY <1>3, <1>4, <1>5, <1>6 DEF SP!StreamInv, SP!Decision
<1>8. SP!SaleInv'
  BY <1>3, <1>4, <1>5 DEF SP!SaleInv, SP!NumbersOnce, SP!SaleTaken
<1>9. Len(stream) <= Len(stream') /\ \A n \in DOMAIN stream : stream'[n] = stream[n]
  <2>1. Len(stream) \in Nat
    BY <1>4 DEF SP!StreamInv
  <2> QED
    BY <2>1, <1>3
<1>10. SP!SettlementInv'
  BY <1>1, <1>3, <1>5, <1>7, <1>8, <1>9, Assumptions, SP!LogGrows
<1> QED
  BY <1>2, <1>10 DEF PipelineInv

\* A worker leaves the stream and the partition alone.
LEMMA WorkerLeavesLogs ==
    ASSUME NEW w, SP!WorkerProgress(w) \/ SP!WorkerFault(w)
    PROVE  UNCHANGED <<stream, klog>>
BY DEF SP!WorkerProgress, SP!WorkerFault, SP!FetchAgain, SP!FetchNew, SP!SettleBatch,
       SP!SkipBatch, SP!RejectedBatchStuck, SP!RecordAttempt, SP!AlreadyTerminal,
       SP!IdentityConflict, SP!DuplicateWaits, SP!DuplicateClaims, SP!SettleNext, SP!SkipOldEpoch,
       SP!RefuseOldEpoch, SP!AwaitPredecessor, SP!RefuseGap, SP!RetryLater, SP!RetryNow,
       SP!DeadLetter, SP!CommitOne, SP!CommitBatch, SP!Flush, SP!BatchFails, SP!RecordFails,
       SP!SettleFails, SP!CommitFails, SP!WorkerCrash, SP!Rebalance, SP!logVars

\* A worker's step, for the relays: the engine may be paused.
LEMMA WorkerStepInv ==
    ASSUME PipelineInv, NEW w \in Workers, WorkerStep(w)
    PROVE  PipelineInv'
<1>1. /\ SP!WorkerProgress(w) \/ SP!WorkerFault(w)
      /\ UNCHANGED relayOnly /\ RP!RelayInv /\ SP!SettlementInv
  BY WorkerStepIs DEF PipelineInv
<1>2. SP!SettlementInv'
  BY <1>1, Assumptions, SP!WorkerInv
<1>3. SP!StreamInv' /\ UNCHANGED <<stream, klog, pending, acked, relay>> /\ cursor' = cursor
  BY <1>1, <1>2, WorkerLeavesLogs DEF SP!SettlementInv, relayOnly
<1> QED
  BY <1>1, <1>2, <1>3, RelaySide DEF PipelineInv

\* Neither does a reconcile or a resume touch them, nor what is settled.
LEMMA SignalLeavesLogs ==
    ASSUME NEW lag, SP!Signal(lag)
    PROVE  UNCHANGED <<stream, klog, bids, events>>
BY DEF SP!Signal, SP!Reconcile, SP!Resume, SP!ResumePreflight, SP!ResumeFirst,
       SP!ResumeFirstCheckpoint, SP!ResumeLoad, SP!ResumeRefused, SP!ResumeBumpEpoch,
       SP!ResumeWrite, SP!ResumePostflight, SP!ResumeFails, SP!logVars, SP!pgVars

\* A signal, for the relays: the engine is set again, the cursor may be deleted.
LEMMA SignalStepInv ==
    ASSUME PipelineInv, Signal
    PROVE  PipelineInv'
<1>1. /\ SP!Signal(Lag) /\ UNCHANGED <<pending, acked, relay>> /\ cursor' \in {cursor, 0}
      /\ RP!RelayInv /\ SP!SettlementInv
  BY SignalIs DEF PipelineInv
<1>2. Lag \in BOOLEAN
  BY DEF Lag
<1>3. SP!SettlementInv'
  BY <1>1, <1>2, Assumptions, SP!SignalInv
<1>4. SP!StreamInv' /\ UNCHANGED <<stream, klog>>
  BY <1>1, <1>3, SignalLeavesLogs DEF SP!SettlementInv
<1> QED
  BY <1>1, <1>3, <1>4, RelaySide DEF PipelineInv

\* Both invariants hold at the start.
LEMMA PipelineInit == Init => PipelineInv
BY InitIs, Assumptions, RP!InitInv, SP!SettlementInit DEF PipelineInv

\* The invariant is inductive.
LEMMA PipelineNext == PipelineInv /\ [Next]_pipelineVars => PipelineInv'
<1> SUFFICES ASSUME PipelineInv, [Next]_pipelineVars
             PROVE  PipelineInv'
  OBVIOUS
<1>1. RP!RelayInv /\ SP!SettlementInv
  BY DEF PipelineInv
<1>2. ASSUME NEW k \in Kinds, Decide(k)
      PROVE  PipelineInv'
  <2>1. RP!RelayInv'
    BY <1>1, <1>2, DecideIs, Assumptions, RP!DecideInv
  <2>2. SP!SettlementInv'
    BY <1>1, <1>2, DecideIs, Assumptions, SP!DecideInv
  <2> QED
    BY <2>1, <2>2 DEF PipelineInv
<1>3. ASSUME NEW r \in Relays, RelayStep(r)
      PROVE  PipelineInv'
  BY <1>3, RelayStepInv
<1>4. ASSUME NEW w \in Workers, WorkerStep(w)
      PROVE  PipelineInv'
  BY <1>4, WorkerStepInv
<1>5. CASE Signal
  BY <1>5, SignalStepInv
<1>6. CASE UNCHANGED pipelineVars
  <2>1. UNCHANGED RP!relayVars /\ UNCHANGED SP!settlementVars
    BY <1>6, StutterIs
  <2>2. RP!RelayInv'
    BY <1>1, <2>1, Assumptions, RP!NextInv
  <2>3. SP!SettlementInv'
    BY <1>1, <2>1, Assumptions, SP!StutterInv
  <2> QED
    BY <2>2, <2>3 DEF PipelineInv
<1> QED
  BY <1>2, <1>3, <1>4, <1>5, <1>6 DEF Next

\* In every reachable state the relays and the settlement keep their invariants,
\* the one in the presence of the other.
THEOREM PipelineInvariant == Spec => []PipelineInv
BY PipelineInit, PipelineNext, PTL DEF Spec

----------------------------------------------------------------------------
(* Acknowledged bids *)

\* The settlement commits no offset past a record it has not accounted for, and
\* nothing is acknowledged that is not in the partition.
THEOREM AckedStaysAccounted == Spec => []AckedIsAccounted
<1>1. ASSUME PipelineInv
      PROVE  AckedIsAccounted
  <2> SUFFICES ASSUME NEW n \in acked
               PROVE  \/ rows[S!Id(stream[n])] # S!NoRow
                      \/ \E o \in (committed + 1)..Len(klog) : klog[o] = n
                      \/ stream[n].epoch < pg.epoch /\ stream[n].seq <= pg.seq
    BY DEF AckedIsAccounted
  <2>1. n \in Nat \ {0} /\ RP!Covers(klog, n)
    BY <1>1, Assumptions
       DEF PipelineInv, RP!RelayInv, RP!RelayOrder, RP!RelayTypeOK, RP!Reached, RP!RelayAssumption
  <2>2. PICK o \in 1..Len(klog) : klog[o] = n
    BY <2>1 DEF RP!Covers
  <2>3. committed \in Nat /\ 1..committed \subseteq SP!Accounted
    BY <1>1 DEF PipelineInv, SP!SettlementInv, SP!OffsetsInv
  <2>4. CASE o > committed
    BY <2>2, <2>3, <2>4
  <2>5. CASE o <= committed
    <3>1. o \in SP!Accounted /\ SP!Message(o) = stream[n]
      BY <2>2, <2>3, <2>5 DEF SP!Message
    <3> QED
      BY <3>1 DEF SP!Accounted, SP!Attempted, SP!Id, SP!NoRow, S!Id, S!NoRow
  <2> QED
    BY <2>2, <2>3, <2>4, <2>5
<1> QED
  BY <1>1, PipelineInvariant, PTL

----------------------------------------------------------------------------
(* One worker: redelivery is absorbed *)

\* The engine adds to the stream.
LEMMA StreamGrows ==
    ASSUME PipelineInv, NEW k \in Kinds, SP!Decide(k)
    PROVE  /\ UNCHANGED <<klog, rows, bids, work, pg>>
           /\ DOMAIN stream \subseteq DOMAIN stream' /\ \A n \in DOMAIN stream : stream'[n] = stream[n]
<1>1. UNCHANGED <<klog, rows, bids, work, pg>>
  BY DEF SP!Decide, SP!pgVars
<1>2. PICK d : stream' = Append(stream, d)
  BY DEF SP!Decide
<1>3. \E D : stream \in Seq(D)
  BY DEF PipelineInv, SP!SettlementInv, SP!StreamInv
<1> QED
  BY <1>1, <1>2, <1>3

\* What a single worker knows of its attempt lasts through the steps of the
\* others.
LEMMA AbsorbedNext ==
    ASSUME PipelineInv, SP!GapInv, NEW w \in Workers, SP!Alone(w), [Next]_pipelineVars
    PROVE  SP!GapInv'
<1>1. SP!SettlementInv
  BY DEF PipelineInv
<1>2. ASSUME NEW k \in Kinds, Decide(k)
      PROVE  SP!GapInv'
  <2>1. /\ UNCHANGED <<klog, rows, bids, work, pg>>
        /\ DOMAIN stream \subseteq DOMAIN stream' /\ \A n \in DOMAIN stream : stream'[n] = stream[n]
    BY <1>2, DecideIs, StreamGrows
  <2> QED
    BY <1>1, <2>1, Assumptions, SP!GapAround
<1>3. ASSUME NEW r \in Relays, RelayStep(r)
      PROVE  SP!GapInv'
  <2>1. RP!RelayStep(r) /\ UNCHANGED settlementOnly /\ RP!RelayInv
    BY <1>3, RelayStepIs DEF PipelineInv
  <2>2. /\ UNCHANGED stream
        /\ \A o \in DOMAIN klog : o \in DOMAIN klog' /\ klog'[o] = klog[o]
    BY <2>1, PartitionGrows
  <2>3. UNCHANGED <<rows, bids, work, pg>>
    BY <2>1 DEF settlementOnly
  <2> QED
    BY <1>1, <2>2, <2>3, Assumptions, SP!GapAround
<1>4. ASSUME NEW v \in Workers, WorkerStep(v)
      PROVE  SP!GapInv'
  <2>1. v = w
    BY DEF SP!Alone
  <2> QED
    BY <1>1, <1>4, <2>1, WorkerStepIs, Assumptions, SP!GapWorker
<1>5. CASE Signal
  <2>1. SP!Signal(Lag) /\ Lag \in BOOLEAN
    BY <1>5, SignalIs DEF Lag
  <2> QED
    BY <1>1, <2>1, Assumptions, SP!GapSignal
<1>6. CASE UNCHANGED pipelineVars
  <2>1. UNCHANGED <<stream, klog, rows, bids, work, pg>>
    BY <1>6 DEF pipelineVars, relayOnly, settlementOnly
  <2> QED
    BY <1>1, <2>1, Assumptions, SP!GapAround
<1> QED
  BY <1>2, <1>3, <1>4, <1>5, <1>6 DEF Next

\* With one settlement worker, and whatever the relays append again or the worker
\* reads again, an auction is paused for a gap only where a record was
\* dead-lettered or a rebuild gave a number out again.
THEOREM RedeliveryIsAbsorbed ==
    ASSUME NEW w, Workers = {w}
    PROVE  Spec => []NoFalseGap
<1>1. w \in Workers /\ SP!Alone(w)
  BY DEF SP!Alone
<1>2. Init => SP!GapInv
  BY InitIs, Assumptions, SP!GapInit
<1>3. PipelineInv /\ SP!GapInv /\ [Next]_pipelineVars => SP!GapInv'
  BY <1>1, AbsorbedNext
<1>4. SP!GapInv => NoFalseGap
  BY DEF SP!GapInv, NoFalseGap, S!NoFalseGap, S!NumbersOnce, SP!NumbersOnce, S!DeadLettered,
         SP!DeadLettered, S!Ids, SP!Ids
<1> QED
  BY <1>2, <1>3, <1>4, PipelineInvariant, PTL DEF Spec

----------------------------------------------------------------------------
(* The pipeline keeps the promise of SettledLedger *)

\* The decisions that are durable: those in the partition.
Durable == {klog[o] : o \in DOMAIN klog}

\* They were taken; what was acknowledged is among them, with all before it.
LEMMA DurableIs ==
    PipelineInv =>
        /\ Len(stream) \in Nat /\ Durable \subseteq 1..Len(stream)
        /\ \A n \in acked : 1..n \subseteq Durable
<1> SUFFICES ASSUME PipelineInv
             PROVE  /\ Len(stream) \in Nat /\ Durable \subseteq 1..Len(stream)
                    /\ \A n \in acked : 1..n \subseteq Durable
  OBVIOUS
<1>1. /\ klog \in Seq(1..MaxSeq) /\ Len(stream) \in Nat
      /\ \A o \in 1..Len(klog) : klog[o] <= Len(stream)
      /\ \A n \in acked : RP!Covers(klog, n)
  BY Assumptions DEF PipelineInv, RP!RelayInv, RP!RelayTypeOK, RP!RelayOrder, RP!Reached
<1>2. DOMAIN klog = 1..Len(klog) /\ Len(klog) \in Nat /\ \A o \in DOMAIN klog : klog[o] \in 1..MaxSeq
  BY <1>1, Assumptions, SP!Member
<1>3. Durable \subseteq 1..Len(stream)
  BY <1>1, <1>2 DEF Durable
<1>4. \A n \in acked : 1..n \subseteq Durable
  BY <1>1, <1>2 DEF RP!Covers, Durable
<1> QED
  BY <1>1, <1>3, <1>4

\* The refinement mapping: SettledLedger's actions in the pipeline's variables.
LEMMA LedgerSteps ==
    /\ stream' = stream /\ Durable' = Durable /\ acked' = acked /\ bids' = bids /\ events' = events
       => UNCHANGED Ledger!ledgerVars
    /\ /\ Durable \subseteq Durable' /\ Durable' \subseteq 1..Len(stream)
       /\ UNCHANGED <<stream, acked, bids, events>>
       => Ledger!BecomeDurable
    /\ /\ acked \subseteq acked' /\ Durable' = Durable
       /\ \A n \in acked' : 1..n \subseteq Durable
       /\ UNCHANGED <<stream, bids, events>>
       => Ledger!Acknowledge
BY DEF Durable, Ledger!ledgerVars, Ledger!BecomeDurable, Ledger!Acknowledge

\* A decision of the engine is one of the ledger.
LEMMA DecideRefines ==
    ASSUME PipelineInv, NEW k \in Kinds, Decide(k)
    PROVE  Ledger!Decide
<1> DEFINE d == [epoch |-> engine.epoch, seq |-> engine.seq + 1, kind |-> k]
<1>1. /\ Len(stream) < MaxSeq /\ stream' = Append(stream, d)
      /\ UNCHANGED <<klog, acked, bids, events>>
  BY DecideIs DEF SP!Decide, Decide, R!Decide, settlementOnly
<1>2. /\ engine.epoch \in 1..MaxEpoch /\ engine.seq \in Nat /\ engine.seq <= Len(stream)
      /\ Len(stream) \in Nat /\ MaxSeq \in Nat
  BY Assumptions DEF PipelineInv, SP!SettlementInv, SP!StreamInv, RP!RelayAssumption
<1>3. engine.seq + 1 \in 1..MaxSeq
  BY <1>1, <1>2
<1>4. d \in [epoch: 1..MaxEpoch, seq: 1..MaxSeq, kind: Kinds]
  BY <1>2, <1>3
<1> HIDE DEF d
<1> QED
  BY <1>1, <1>4 DEF Ledger!Decide

\* A relay's step makes decisions durable, or acknowledges durable ones, or
\* shows nothing.
LEMMA RelayStepRefines ==
    ASSUME PipelineInv, NEW r \in Relays, RelayStep(r)
    PROVE  [Ledger!Next]_(Ledger!ledgerVars)
<1>1. PipelineInv'
  BY RelayStepInv
<1>2. /\ UNCHANGED <<stream, bids, events>>
      /\ \A o \in DOMAIN klog : o \in DOMAIN klog' /\ klog'[o] = klog[o]
      /\ klog' = klog \/ UNCHANGED acked
      /\ acked \subseteq acked'
  BY RelayStepIs, PartitionGrows DEF PipelineInv, settlementOnly
<1>3. (/\ Len(stream) \in Nat /\ Durable \subseteq 1..Len(stream)
       /\ \A n \in acked : 1..n \subseteq Durable)'
  BY <1>1, DurableIs, PTL
<1>4. CASE klog' = klog
  <2>1. Durable' = Durable
    BY <1>4 DEF Durable
  <2>2. \A n \in acked' : 1..n \subseteq Durable
    BY <1>3, <2>1
  <2> QED
    BY <1>2, <2>1, <2>2, LedgerSteps DEF Ledger!Next
<1>5. CASE klog' # klog
  <2>1. Durable \subseteq Durable'
    BY <1>2 DEF Durable
  <2>2. Durable' \subseteq 1..Len(stream)
    BY <1>2, <1>3
  <2> QED
    BY <1>2, <1>5, <2>1, <2>2, LedgerSteps DEF Ledger!Next
<1> QED
  BY <1>4, <1>5

\* Of the worker's actions two settle.
LEMMA WorkerSettles ==
    ASSUME NEW w, SP!WorkerProgress(w) \/ SP!WorkerFault(w)
    PROVE  SP!SettleNext(w) \/ SP!SettleBatch(w) \/ UNCHANGED <<bids, events>>
BY DEF SP!WorkerProgress, SP!WorkerFault, SP!FetchAgain, SP!FetchNew,
       SP!SkipBatch, SP!RejectedBatchStuck, SP!RecordAttempt, SP!AlreadyTerminal,
       SP!IdentityConflict, SP!DuplicateWaits, SP!DuplicateClaims, SP!SkipOldEpoch,
       SP!RefuseOldEpoch, SP!AwaitPredecessor, SP!RefuseGap, SP!RetryLater, SP!RetryNow,
       SP!DeadLetter, SP!CommitOne, SP!CommitBatch, SP!Flush, SP!BatchFails, SP!RecordFails,
       SP!SettleFails, SP!CommitFails, SP!WorkerCrash, SP!Rebalance, SP!pgVars

\* The end of a sequence after an append is what was appended.
LEMMA AppendedEnd ==
    ASSUME NEW T, NEW s \in Seq(T), NEW t \in Seq(T)
    PROVE  SubSeq(s \o t, Len(s) + 1, Len(s \o t)) = t
<1> DEFINE u == s \o t
           v == SubSeq(u, Len(s) + 1, Len(u))
<1>1. /\ u \in Seq(T) /\ Len(u) = Len(s) + Len(t) /\ Len(s) \in Nat /\ Len(t) \in Nat
      /\ \A i \in 1..Len(t) : u[Len(s) + i] = t[i]
  OBVIOUS
<1> HIDE DEF u
<1>2. /\ v \in Seq(T) /\ Len(v) = Len(t)
      /\ \A i \in 1..Len(v) : v[i] = u[Len(s) + 1 + i - 1]
  <2>1. Len(s) + 1 \in 1..(Len(u) + 1) /\ Len(u) \in (Len(s) + 1 - 1)..Len(u)
    BY <1>1
  <2> QED
    BY <1>1, <2>1, SubSeqProperties
<1>3. \A i \in 1..Len(t) : v[i] = t[i]
  BY <1>1, <1>2
<1> HIDE DEF v
<1>4. v = t
  BY <1>2, <1>3, SeqEqual
<1> QED
  BY <1>4 DEF u, v

\* A transaction that settles is one step of the ledger.
LEMMA SettleRefines ==
    ASSUME PipelineInv, NEW w \in Workers, SP!SettleNext(w) \/ SP!SettleBatch(w),
           UNCHANGED <<stream, klog, acked>>
    PROVE  Ledger!SettleSome
<1>1. PICK ds : /\ SP!Settles(ds)
                /\ \A i \in DOMAIN ds : \E o \in DOMAIN klog : ds[i] = SP!Message(o)
  BY Assumptions, SP!SettlesRecords DEF PipelineInv
<1>2. /\ bids \in Seq(SP!Decision) /\ Len(bids) = pg.seq
      /\ ds \in Seq(SP!Decision) /\ ds # <<>> /\ bids' = bids \o ds
  BY <1>1 DEF SP!Settles, PipelineInv, SP!SettlementInv, SP!FactsInv
<1>3. Len(ds) \in Nat \ {0} /\ DOMAIN ds = 1..Len(ds)
  BY <1>2
<1>4. SubSeq(bids', Len(bids) + 1, Len(bids')) = ds
  BY <1>2, AppendedEnd
<1>5. Len(bids') > Len(bids)
  BY <1>2, <1>3
<1>6. ASSUME NEW i \in DOMAIN ds
      PROVE  ds[i].seq = Len(bids) + i /\ \E n \in Durable : stream[n] = ds[i]
  <2>1. ds[i].seq = Len(bids) + i
    BY <1>1, <1>2, <1>6 DEF SP!Settles
  <2>2. PICK o \in DOMAIN klog : ds[i] = SP!Message(o)
    BY <1>1, <1>6
  <2> QED
    BY <2>1, <2>2 DEF SP!Message, Durable
<1>7. \/ /\ \A i \in DOMAIN ds : Ledger!IsBroadcast(ds[i])
         /\ events' = events \o [i \in DOMAIN ds |-> ds[i].seq]
      \/ /\ \A i \in DOMAIN ds : ~Ledger!IsBroadcast(ds[i])
         /\ events' = events
  <2>1. \/ (\A i \in DOMAIN ds : ds[i].kind = "quiet") /\ events' = events
        \/ /\ \A i \in DOMAIN ds : ds[i].kind # "quiet"
           /\ events' = events \o [i \in 1..Len(ds) |-> pg.seq + i]
    BY <1>1 DEF SP!Settles
  <2>2. [i \in 1..Len(ds) |-> pg.seq + i] = [i \in DOMAIN ds |-> ds[i].seq]
    BY <1>2, <1>3, <1>6
  <2> QED
    BY <2>1, <2>2 DEF Ledger!IsBroadcast
<1>8. Durable' = Durable
  BY DEF Durable
<1>9. Ledger!Settle(ds)
  BY <1>2, <1>6, <1>7, <1>8 DEF Ledger!Settle, Durable
<1> QED
  BY <1>4, <1>5, <1>9 DEF Ledger!SettleSome

\* A worker settles, or shows nothing.
LEMMA WorkerStepRefines ==
    ASSUME PipelineInv, NEW w \in Workers, WorkerStep(w)
    PROVE  [Ledger!Next]_(Ledger!ledgerVars)
<1>1. (SP!WorkerProgress(w) \/ SP!WorkerFault(w)) /\ UNCHANGED <<stream, klog, acked>>
  BY WorkerStepIs, WorkerLeavesLogs DEF relayOnly
<1>2. CASE SP!SettleNext(w) \/ SP!SettleBatch(w)
  BY <1>1, <1>2, SettleRefines DEF Ledger!Next
<1>3. CASE UNCHANGED <<bids, events>>
  <2>1. Durable' = Durable
    BY <1>1 DEF Durable
  <2> QED
    BY <1>1, <1>3, <2>1, LedgerSteps
<1> QED
  BY <1>1, <1>2, <1>3, WorkerSettles

\* Every step of the pipeline is one of the ledger, or shows nothing.
LEMMA StepRefines == PipelineInv /\ [Next]_pipelineVars => [Ledger!Next]_(Ledger!ledgerVars)
<1> SUFFICES ASSUME PipelineInv, [Next]_pipelineVars
             PROVE  [Ledger!Next]_(Ledger!ledgerVars)
  OBVIOUS
<1>1. ASSUME NEW k \in Kinds, Decide(k)
      PROVE  Ledger!Next
  BY <1>1, DecideRefines DEF Ledger!Next
<1>2. ASSUME UNCHANGED <<stream, klog, acked, bids, events>>
      PROVE  UNCHANGED Ledger!ledgerVars
  BY <1>2 DEF Ledger!ledgerVars
<1>3. CASE Signal
  <2>1. UNCHANGED <<stream, klog, acked, bids, events>>
    BY <1>3, SignalIs, SignalLeavesLogs
  <2> QED
    BY <1>2, <2>1
<1>4. CASE UNCHANGED pipelineVars
  BY <1>2, <1>4 DEF pipelineVars, relayOnly, settlementOnly
<1> QED
  BY <1>1, <1>3, <1>4, RelayStepRefines, WorkerStepRefines DEF Next

\* Relays, workers, offsets, retries, duplicates, rebuilds and resumes show the
\* outside nothing but a ledger: decisions are acknowledged only when they and
\* all before them are durable, and are settled and announced once each in the
\* order of their numbers, none before it is durable.
THEOREM PipelineImplementsLedger == Spec => ImplementsLedger
<1>1. Init => Ledger!Init
  <2> SUFFICES ASSUME Init
               PROVE  Ledger!Init
    OBVIOUS
  <2>1. stream = <<>> /\ klog = <<>> /\ acked = {} /\ bids = <<>> /\ events = <<>> /\ PipelineInv
    BY PipelineInit DEF Init, R!Init, S!Init
  <2>2. Durable = {}
    BY <2>1 DEF Durable
  <2> QED
    BY <2>1, <2>2 DEF Ledger!Init, Durable
<1> QED
  BY <1>1, StepRefines, PipelineInvariant, PTL DEF Spec, ImplementsLedger, Ledger!Spec

----------------------------------------------------------------------------
(* PostgreSQL is a prefix of what the engine decided *)

\* What is settled was durable before.
SettledIsDurable == \A i \in DOMAIN bids : \E n \in Durable : stream[n] = bids[i]

\* A step of the ledger keeps it.
LEMMA DurableFirst ==
    ASSUME PipelineInv, PipelineInv', SettledIsDurable, [Ledger!Next]_(Ledger!ledgerVars)
    PROVE  SettledIsDurable'
<1>1. /\ Len(stream) \in Nat /\ Durable \subseteq 1..Len(stream)
      /\ bids \in Seq(SP!Decision) /\ bids' \in Seq(SP!Decision)
      /\ stream \in Seq(SP!Decision) /\ DOMAIN stream = 1..Len(stream)
  BY DurableIs DEF PipelineInv, SP!SettlementInv, SP!FactsInv, SP!StreamInv
<1> HIDE DEF Durable
<1>2. ASSUME UNCHANGED bids, Durable \subseteq Durable',
             \A n \in Durable : stream'[n] = stream[n]
      PROVE  SettledIsDurable'
  <2> SUFFICES ASSUME NEW i \in DOMAIN bids
               PROVE  \E n \in Durable' : stream'[n] = bids[i]
    BY <1>2 DEF SettledIsDurable
  <2>1. PICK n \in Durable : stream[n] = bids[i]
    BY DEF SettledIsDurable
  <2> QED
    BY <1>1, <1>2, <2>1
<1>3. CASE Ledger!Decide
  <2>1. PICK d : stream' = Append(stream, d)
    BY <1>3 DEF Ledger!Decide
  <2>2. Durable' = Durable /\ UNCHANGED bids
    BY <1>3 DEF Ledger!Decide, Durable
  <2>3. \A n \in Durable : stream'[n] = stream[n]
    BY <1>1, <2>1
  <2> QED
    BY <1>1, <1>2, <2>2, <2>3
<1>4. CASE Ledger!BecomeDurable
  <2>1. Durable \subseteq Durable' /\ UNCHANGED <<stream, bids>>
    BY <1>4 DEF Ledger!BecomeDurable, Durable
  <2> QED
    BY <1>1, <1>2, <2>1
<1>5. CASE Ledger!Acknowledge \/ UNCHANGED Ledger!ledgerVars
  <2>1. Durable' = Durable /\ UNCHANGED <<stream, bids>>
    BY <1>5 DEF Ledger!Acknowledge, Ledger!ledgerVars, Durable
  <2> QED
    BY <1>1, <1>2, <2>1
<1>6. CASE Ledger!SettleSome
  <2> DEFINE ds == SubSeq(bids', Len(bids) + 1, Len(bids'))
  <2>1. Ledger!Settle(ds)
    BY <1>6 DEF Ledger!SettleSome
  <2> HIDE DEF ds
  <2>2. /\ \A i \in DOMAIN ds : \E n \in Durable : stream[n] = ds[i]
        /\ bids' = bids \o ds /\ UNCHANGED stream /\ Durable' = Durable
    BY <2>1 DEF Ledger!Settle, Durable
  <2>3. ds \in Seq(SP!Decision)
    BY <1>1 DEF ds
  <2>4. ASSUME NEW i \in DOMAIN bids'
        PROVE  \/ i \in DOMAIN bids /\ bids'[i] = bids[i]
               \/ \E j \in DOMAIN ds : bids'[i] = ds[j]
    BY <1>1, <2>2, <2>3, <2>4
  <2>5. ASSUME NEW i \in DOMAIN bids'
        PROVE  \E n \in Durable : stream[n] = bids'[i]
    BY <2>2, <2>4 DEF SettledIsDurable
  <2> QED
    BY <2>2, <2>5 DEF SettledIsDurable
<1> QED
  BY <1>3, <1>4, <1>5, <1>6 DEF Ledger!Next

\* The two cursors by which AuctionHouse stands for the whole pipeline: how many
\* decisions are settled, and how many are durable with all before them.
CursorsSuffice ==
    S!NumbersOnce => /\ 1..Len(bids) \subseteq Durable /\ Durable \subseteq 1..Len(stream)
                     /\ \A i \in DOMAIN bids : bids[i] = stream[i]

\* Until a number is given out again, PostgreSQL has the first of the engine's
\* decisions, in their order and no other, and only ones that Kafka has too,
\* whatever holes the partition has: two cursors on the engine's log, the one
\* behind the other, say all of it.
THEOREM RowsFollowStream == Spec => []CursorsSuffice
<1>1. Init => SettledIsDurable
  BY DEF Init, S!Init, SettledIsDurable
<1>2. PipelineInv /\ PipelineInv' /\ SettledIsDurable /\ [Next]_pipelineVars => SettledIsDurable'
  BY StepRefines, DurableFirst
<1>3. ASSUME PipelineInv, SettledIsDurable
      PROVE  CursorsSuffice
  <2> SUFFICES ASSUME S!NumbersOnce
               PROVE  /\ 1..Len(bids) \subseteq Durable /\ Durable \subseteq 1..Len(stream)
                      /\ \A i \in DOMAIN bids : bids[i] = stream[i]
    BY DEF CursorsSuffice
  <2>1. Len(stream) \in Nat /\ Durable \subseteq 1..Len(stream)
    BY <1>3, DurableIs
  <2> HIDE DEF Durable
  <2>2. SP!NumbersOnce
    BY DEF S!NumbersOnce, SP!NumbersOnce
  <2>3. /\ bids \in Seq(SP!Decision) /\ \A i \in DOMAIN bids : bids[i].seq = i
        /\ \A n \in DOMAIN stream : stream[n].seq = n
        /\ DOMAIN stream = 1..Len(stream)
    BY <1>3, <2>2 DEF PipelineInv, SP!SettlementInv, SP!FactsInv, SP!SaleInv, SP!StreamInv
  <2>4. ASSUME NEW i \in DOMAIN bids
        PROVE  i \in Durable /\ bids[i] = stream[i]
    <3>1. PICK n \in Durable : stream[n] = bids[i]
      BY <1>3 DEF SettledIsDurable
    <3>2. n \in DOMAIN stream
      BY <2>1, <2>3
    <3>3. n = i
      BY <2>3, <3>1, <3>2
    <3> QED
      BY <3>1, <3>3
  <2>5. DOMAIN bids = 1..Len(bids)
    BY <2>3
  <2> QED
    BY <2>1, <2>4, <2>5
<1> QED
  BY <1>1, <1>2, <1>3, PipelineInvariant, PTL DEF Spec

============================================================================
