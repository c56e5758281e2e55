--------------------------- MODULE DecisionPipeline ---------------------------
(***************************************************************************)
(* The bid pipeline of one auction: the engine and the relays (LedgerRelay)*)
(* and the settlement workers (Settlement), joined by what they share: the *)
(* engine's state and stream in Redis, and the Kafka partition.            *)
(***************************************************************************)
EXTENDS Integers, Sequences, FiniteSets

CONSTANTS Kinds, Relays, BatchMax, Workers, MaxAttempts, MaxSeq, MaxEpoch, MaxFaults

ASSUME DecisionPipelineAssumption ==
    /\ Kinds \subseteq {"accepted", "sold", "rejected", "quiet"}
    /\ Workers # {}
    /\ {BatchMax, MaxAttempts, MaxEpoch} \subseteq Nat \ {0}
    /\ {MaxSeq, MaxFaults} \subseteq Nat

VARIABLES engine, stream, klog, faults,             \* shared
          pending, acked, cursor, relay,            \* of LedgerRelay
          committed, owner, work, rows, pg, bids,   \* of Settlement
          events, order, checkpoint, resume

relayOnly == <<pending, acked, cursor, relay>>
settlementOnly == <<committed, owner, work, rows, pg, bids, events, order, checkpoint, resume>>
pipelineVars == <<engine, stream, klog, faults, relayOnly, settlementOnly>>

R == INSTANCE LedgerRelay
S == INSTANCE Settlement WITH MaxLog <- 0   \* bounds a step that R takes here

Init == R!Init /\ S!Init

Decide(k) == R!Decide(k) /\ UNCHANGED settlementOnly

RelayStep(r) == R!RelayStep(r) /\ UNCHANGED settlementOnly

WorkerStep(w) == (S!WorkerProgress(w) \/ S!WorkerFault(w)) /\ UNCHANGED relayOnly

\* Stream entries after the relay cursor.
Lag == cursor < Len(stream)

\* The periodic reconcile and the operator's signals; a resume's write to
\* Redis deletes the cursor too.
Signal ==
    /\ S!Signal(Lag)
    /\ cursor' = IF S!ResumeWrite THEN 0 ELSE cursor
    /\ UNCHANGED <<pending, acked, relay>>

Next ==
    \/ \E k \in Kinds : Decide(k)
    \/ \E r \in Relays : RelayStep(r)
    \/ \E w \in Workers : WorkerStep(w)
    \/ Signal

Spec == Init /\ [][Next]_pipelineVars

\* The relay and the worker loops go on; see LedgerRelay and Settlement.
Fairness ==
    /\ \A r \in Relays : WF_pipelineVars(R!Progress(r) /\ UNCHANGED settlementOnly)
    /\ \A w \in Workers :
          /\ WF_pipelineVars(S!WorkerProgress(w) /\ UNCHANGED relayOnly)
          /\ SF_pipelineVars(S!DuplicateClaims(w) /\ UNCHANGED relayOnly)

FairSpec == Spec /\ Fairness

----------------------------------------------------------------------------
(* Properties *)

\* The pipeline keeps the promise of SettledLedger.
Ledger == INSTANCE SettledLedger WITH
    Decisions <- [epoch: 1..MaxEpoch, seq: 1..MaxSeq, kind: Kinds],
    decided <- stream,
    durable <- {klog[o] : o \in DOMAIN klog},
    told <- acked,
    settled <- bids,
    announced <- events
ImplementsLedger == Ledger!Spec

\* No acknowledged bid disappears between the partition and the consumer's
\* committed offset: its decision has a row in PostgreSQL, or one of its records
\* will be consumed again; but for a decision from before a rebuild that went on
\* from its number or a later one, which a batch passes over without a row.
AckedIsAccounted ==
    \A n \in acked :
        \/ rows[S!Id(stream[n])] # S!NoRow
        \/ \E o \in (committed + 1)..Len(klog) : klog[o] = n
        \/ stream[n].epoch < pg.epoch /\ stream[n].seq <= pg.seq

\* With one settlement worker redelivery is absorbed: see Settlement.
NoFalseGap == S!NoFalseGap

\* A decision taken in Redis reaches PostgreSQL unless it, or one before it,
\* failed on record.
EventuallySettled ==
    \A n \in 1..MaxSeq : (n \in DOMAIN stream) ~> S!OnRecord(n)

============================================================================
