---------------------------- MODULE SettlementProofs ----------------------------
(***************************************************************************)
(* What the settlement guarantees for any number of workers, decisions,    *)
(* rebuilds, redeliveries and faults.  What every worker may hold in       *)
(* memory is said of one record and proved without the rest of the state;  *)
(* the decisions that one transaction writes are one run Settles(ds),      *)
(* whether they come from a batch or from the single path.                 *)
(***************************************************************************)
EXTENDS Settlement, FiniteSetTheorems, WellFoundedInduction, TLAPS

----------------------------------------------------------------------------
(* The inductive invariant *)

\* Records of a decision that has a row, and those that are accounted for.
Attempted == {o \in DOMAIN klog : rows[Id(Message(o))] # NoRow}
Accounted ==
    {o \in DOMAIN klog : Message(o).epoch < pg.epoch /\ Message(o).seq <= pg.seq} \cup Attempted

\* All that a worker has to do with in its pass.
Held(x) == x.unc \cup x.done \cup x.now

\* What a worker holds, in a partition of L records of which those of A are
\* accounted for and those of R have a row: it forgets no record that is not
\* accounted for, and it commits from the left.
WorkerOK(x, L, A, R) ==
    /\ x \in WorkerState
    /\ x.next <= L
    /\ x.unc \subseteq 1..L
    /\ x.todo \subseteq x.unc
    /\ x.done \cup x.now \subseteq (1..L) \cap A
    /\ \A p \in x.todo : \A d \in x.done : d < p
    /\ \A p \in x.todo : \A n \in x.now : p \in x.now \/ n < p
    /\ \A p \in 1..L : (p <= x.next \/ \E u \in Held(x) : p <= u) => p \in x.unc \cup A
    /\ x.pc # "idle" => x.unc \ x.todo \subseteq A
    /\ x.pc = "idle" => x.todo = {} /\ x.done = {} /\ x.now = {}
    /\ x.todo # {} /\ (x.pc = "tx" \/ (x.pc = "retry" /\ x.err = "permanent")) => Lowest(x.todo) \in R

WorkersInv ==
    /\ work \in [Workers -> WorkerState]
    /\ \A w \in Workers : WorkerOK(work[w], Len(klog), Accounted, Attempted)

\* Where a rebuild may start, and where a worker may: nothing before is lost.
OffsetsInv ==
    /\ committed \in Nat /\ committed <= Len(klog)
    /\ 1..committed \subseteq Accounted
    /\ checkpoint \in [epoch: 0..MaxEpoch, seq: 0..MaxSeq, next: Nat]
    /\ checkpoint.seq = pg.seq
    /\ checkpoint.next <= Len(klog) + 1
    /\ 1..(checkpoint.next - 1) \subseteq Accounted

\* A row is of a decision in the partition, and says what became of it.
RowOK(id) ==
    rows[id] # NoRow =>
        /\ rows[id].status # "none"
        /\ rows[id].off \in DOMAIN klog
        /\ Id(Message(rows[id].off)) = id
        /\ rows[id].status = "SETTLED" => id[2] \in DOMAIN bids /\ bids[id[2]] = Message(rows[id].off)
        /\ rows[id].status = "SKIPPED" => id[1] < pg.epoch

RowsInv ==
    /\ rows \in [Ids -> Row]
    /\ \A id \in Ids : RowOK(id)
    /\ \A i \in DOMAIN bids : rows[Id(bids[i])] # NoRow

\* Numbers are taken one by one, from where a rebuild put the engine.
StreamInv ==
    /\ engine \in [epoch: 1..MaxEpoch, seq: 0..MaxSeq, sold: BOOLEAN, paused: BOOLEAN]
    /\ stream \in Seq(Decision) /\ Len(stream) <= MaxSeq
    /\ klog \in Seq(1..MaxSeq)
    /\ \A o \in DOMAIN klog : klog[o] <= Len(stream)
    /\ \A n \in DOMAIN stream : stream[n].seq <= n
    /\ engine.seq <= Len(stream)
    /\ pg.seq <= Len(stream)
    /\ resume \in [pc: {"no", "checked", "first", "loaded", "ready", "written"}, seq: 0..MaxSeq,
                  sold: BOOLEAN, paused: BOOLEAN]
    /\ resume.seq <= Len(stream)
    /\ resume.pc \in {"checked", "first", "loaded"} => pg.epoch < MaxEpoch
    /\ owner \in Workers
    /\ faults \in 0..MaxFaults

Sells(d) == d.kind \in {"accepted", "sold"}
SaleTaken == \E n \in DOMAIN stream : stream[n].kind = "sold"

\* Until a number is given out again the engine knows of its sale, also after
\* a rebuild, so that nothing is accepted after it.
SaleInv ==
    NumbersOnce =>
        /\ \A n \in DOMAIN stream : stream[n].seq = n
        /\ \A m, n \in DOMAIN stream : m < n /\ stream[m].kind = "sold" => stream[n].kind = "quiet"
        /\ SaleTaken /\ engine.seq = Len(stream) => engine.sold
        /\ SaleTaken /\ resume.seq = Len(stream) /\ resume.pc \in {"first", "loaded", "ready"} => resume.sold
        /\ order # 0 => pg.sold /\ pg.leader = order

\* The tables that one transaction writes together.
FactsInv ==
    /\ pg \in [epoch: 1..MaxEpoch, seq: 0..MaxSeq, pub: 0..MaxSeq, leader: 0..MaxSeq, sold: BOOLEAN,
               pause: {"no", "LEDGER_GAP", "RECOVERABLE", "LASTING"}]
    /\ bids \in Seq(Decision) /\ Len(bids) = pg.seq
    /\ \A i \in DOMAIN bids :
          /\ bids[i].seq = i
          /\ bids[i].epoch <= pg.epoch
          /\ \E n \in DOMAIN stream : stream[n] = bids[i]
    /\ \A i, j \in DOMAIN bids : i <= j => bids[i].epoch <= bids[j].epoch
    /\ events \in Seq(1..MaxSeq) /\ Len(events) = pg.pub /\ pg.pub <= pg.seq
    /\ \A n \in DOMAIN events : events[n] \in DOMAIN bids /\ bids[events[n]].kind # "quiet"
    /\ \A i \in DOMAIN bids : bids[i].kind # "quiet" => \E n \in DOMAIN events : events[n] = i
    /\ pg.leader # 0 => pg.leader \in DOMAIN bids /\ Sells(bids[pg.leader])
    /\ \A i \in DOMAIN bids : Sells(bids[i]) => i <= pg.leader
    /\ order \in 0..MaxSeq
    /\ order # 0 => order \in DOMAIN bids /\ bids[order].kind = "sold"
    /\ \A i \in DOMAIN bids : bids[i].kind = "sold" => order # 0
    /\ pg.sold => order # 0

SettlementInv == StreamInv /\ SaleInv /\ FactsInv /\ RowsInv /\ WorkersInv /\ OffsetsInv

----------------------------------------------------------------------------
(* Lowest and Highest *)

\* A set of naturals that is not empty has a lowest member.
LEMMA LowestIs ==
    ASSUME NEW S, S \subseteq Nat, S # {}
    PROVE  Lowest(S) \in S /\ \A y \in S : Lowest(S) <= y
<1> DEFINE T == {0..m : m \in S}
<1>1. T \subseteq FiniteSubsetsOf(Nat) /\ T # {}
  <2>1. ASSUME NEW m \in S
        PROVE  0..m \in FiniteSubsetsOf(Nat)
    <3>1. IsFiniteSet(0..m)
      BY FS_Interval
    <3>2. 0..m \subseteq Nat
      OBVIOUS
    <3> QED
      BY <3>1, <3>2 DEF FiniteSubsetsOf
  <2> QED
    BY <2>1
<1>2. PICK t \in T : \A u \in T : ~ (<<u, t>> \in StrictSubsetOrdering(Nat))
  <2> HIDE DEF T
  <2> QED
    BY <1>1, FS_StrictSubsetOrderingWellFounded, WFMin
<1>3. PICK x \in S : t = 0..x
  OBVIOUS
<1>4. ASSUME NEW y \in S
      PROVE  x <= y
  <2>1. ~ (<<0..y, 0..x>> \in StrictSubsetOrdering(Nat))
    BY <1>2, <1>3
  <2>2. ~ (0..y \subseteq 0..x /\ 0..y # 0..x)
    <3>1. 0..x \in SUBSET Nat /\ 0..y \in SUBSET Nat
      OBVIOUS
    <3> QED
      BY <2>1, <3>1 DEF StrictSubsetOrdering
  <2>3. y < x => 0..y \subseteq 0..x /\ x \in 0..x /\ x \notin 0..y
    OBVIOUS
  <2> QED
    BY <2>2, <2>3
<1> QED
  BY <1>4 DEF Lowest

\* A set of naturals that is not empty and has a bound has a highest member.
LEMMA HighestIs ==
    ASSUME NEW L \in Nat, NEW S, S \subseteq 0..L, S # {}
    PROVE  Highest(S) \in S /\ \A y \in S : Highest(S) >= y
<1> DEFINE D == {L - x : x \in S}
<1>1. D \subseteq Nat /\ D # {}
  <2>1. \A x \in S : L - x \in Nat
    OBVIOUS
  <2> QED
    BY <2>1
<1> HIDE DEF D
<1>2. Lowest(D) \in D /\ \A y \in D : Lowest(D) <= y
  BY <1>1, LowestIs
<1>3. PICK x \in S : Lowest(D) = L - x
  BY <1>2 DEF D
<1>4. ASSUME NEW y \in S
      PROVE  x >= y
  <2>1. L - y \in D
    BY DEF D
  <2>2. L - x <= L - y
    BY <2>1, <1>2, <1>3
  <2> QED
    BY <2>2
<1> QED
  BY <1>4 DEF Highest

----------------------------------------------------------------------------
(* What a worker holds, step by step *)

\* The record a pass looks at is one of the partition, the first of its todo.
LEMMA CurIs ==
    ASSUME NEW L \in Nat, NEW A, NEW R, NEW x, WorkerOK(x, L, A, R), x.todo # {}
    PROVE  /\ Lowest(x.todo) \in x.todo
           /\ Lowest(x.todo) \in 1..L
           /\ \A y \in x.todo : Lowest(x.todo) <= y
           /\ \A p \in 1..(Lowest(x.todo) - 1) : p \in x.unc \cup A
           /\ \A p \in 1..(Lowest(x.todo) - 1) : p \notin x.todo
<1>1. x.todo \subseteq 1..L /\ x.todo \subseteq Nat /\ x.todo \subseteq x.unc
  BY DEF WorkerOK, Held
<1>2. Lowest(x.todo) \in x.todo /\ \A y \in x.todo : Lowest(x.todo) <= y
  BY <1>1, LowestIs
<1>3. \A p \in 1..L : (\E u \in x.unc : p <= u) => p \in x.unc \cup A
  BY DEF WorkerOK, Held
<1> QED
  BY <1>1, <1>2, <1>3

\* What others do, which accounts for more records, does not disturb a worker.
LEMMA WorkerKept ==
    ASSUME NEW L \in Nat, NEW M \in Nat, L <= M,
           NEW A, NEW B, A \subseteq B, NEW R, NEW T, R \subseteq T,
           NEW x, WorkerOK(x, L, A, R)
    PROVE  WorkerOK(x, M, B, T)
<1>1. x \in WorkerState /\ x.next \in Nat /\ x.unc \subseteq Nat
  BY DEF WorkerOK, Held, WorkerState
<1>2. x.next <= M /\ x.unc \subseteq 1..M
  BY <1>1 DEF WorkerOK, Held
<1>3. ASSUME NEW p \in 1..M, p <= x.next \/ \E u \in Held(x) : p <= u
      PROVE  p \in x.unc \cup B
  <2>1. p \in 1..L
    BY <1>1, <1>3 DEF WorkerOK, Held
  <2> QED
    BY <1>3, <2>1 DEF WorkerOK, Held
<1> QED
  BY <1>1, <1>2, <1>3 DEF WorkerOK, Held

\* A worker may start after n records that are all accounted for.
LEMMA FreshOK ==
    ASSUME NEW L \in Nat, NEW A, NEW R, NEW n \in Nat, n <= L, 1..n \subseteq A
    PROVE  WorkerOK(Fresh(n), L, A, R)
<1>1. 0 \in 0..MaxAttempts
  BY SettlementAssumption
<1>2. Fresh(n) \in WorkerState
  BY <1>1 DEF Fresh, WorkerState
<1> QED
  BY <1>2 DEF WorkerOK, Held, Fresh

\* Only the pc and what goes with it changes.
LEMMA MovesOK ==
    ASSUME NEW L \in Nat, NEW A, NEW R, NEW x, WorkerOK(x, L, A, R),
           NEW y \in WorkerState, x.pc # "idle", y.pc # "idle",
           y.next = x.next, y.unc = x.unc, y.todo = x.todo, y.done = x.done, y.now = x.now,
           y.todo # {} /\ (y.pc = "tx" \/ (y.pc = "retry" /\ y.err = "permanent"))
               => Lowest(x.todo) \in R
    PROVE  WorkerOK(y, L, A, R)
BY DEF WorkerOK, Held

\* The reader is put elsewhere, after records that are accounted for.
LEMMA SeekOK ==
    ASSUME NEW L \in Nat, NEW A, NEW R, NEW x, WorkerOK(x, L, A, R),
           NEW n \in Nat, n <= L, 1..n \subseteq A,
           NEW y \in WorkerState, y = [x EXCEPT !.next = n]
    PROVE  WorkerOK(y, L, A, R)
<1>1. /\ y.next = n /\ y.unc = x.unc /\ y.todo = x.todo /\ y.done = x.done /\ y.now = x.now
      /\ y.pc = x.pc /\ y.err = x.err
  BY DEF WorkerOK, Held, WorkerState
<1>2. ASSUME NEW p \in 1..L, p <= y.next \/ \E u \in Held(y) : p <= u
      PROVE  p \in y.unc \cup A
  BY <1>1, <1>2 DEF WorkerOK, Held
<1> QED
  BY <1>1, <1>2 DEF WorkerOK, Held

\* The pass starts over with all that is not committed.
LEMMA AgainOK ==
    ASSUME NEW L \in Nat, NEW A, NEW R, NEW x, WorkerOK(x, L, A, R), x.pc = "idle",
           NEW y \in WorkerState, y.pc = "scan", y.next = x.next,
           y.unc = x.unc, y.todo = x.unc, y.done = x.done, y.now = x.now
    PROVE  WorkerOK(y, L, A, R)
BY DEF WorkerOK, Held

\* ... or with what comes next, when all the records before are committed.
LEMMA NewOK ==
    ASSUME NEW L \in Nat, NEW A, NEW R, NEW x, WorkerOK(x, L, A, R), x.pc = "idle", x.unc = {},
           NEW hi \in (x.next + 1)..L,
           NEW y \in WorkerState, y.pc = "scan", y.next = hi, y.unc = (x.next + 1)..hi,
           y.todo = y.unc, y.done = x.done, y.now = x.now
    PROVE  WorkerOK(y, L, A, R)
<1>1. x.next \in Nat /\ y.unc \subseteq 1..L /\ hi <= L /\ Held(y) = (x.next + 1)..hi
  BY DEF WorkerOK, Held, WorkerState
<1>2. ASSUME NEW p \in 1..L, p <= y.next \/ \E u \in Held(y) : p <= u
      PROVE  p \in y.unc \cup A
  <2>1. p <= hi
    BY <1>1, <1>2
  <2>2. p <= x.next => p \in A
    BY DEF WorkerOK, Held
  <2> QED
    BY <1>1, <2>1, <2>2
<1> QED
  BY <1>1, <1>2 DEF WorkerOK, Held

\* The pass ends, and what it had committed by then (S) is no longer held.
LEMMA EndOK ==
    ASSUME NEW L \in Nat, NEW A, NEW R, NEW x, WorkerOK(x, L, A, R),
           NEW S, S \subseteq A,
           NEW y, y = [Fresh(x.next) EXCEPT !.unc = x.unc \ S]
    PROVE  WorkerOK(y, L, A, R)
<1>1. x.next \in Nat /\ x.unc \subseteq Nat /\ 0 \in 0..MaxAttempts
  BY SettlementAssumption DEF WorkerOK, Held, WorkerState
<1>2. /\ y.pc = "idle" /\ y.next = x.next /\ y.unc = x.unc \ S /\ y.todo = {} /\ y.done = {}
      /\ y.now = {} /\ y \in WorkerState
  BY <1>1 DEF Fresh, WorkerState
<1>3. ASSUME NEW p \in 1..L, p <= y.next \/ \E u \in Held(y) : p <= u
      PROVE  p \in y.unc \cup A
  BY <1>2, <1>3 DEF WorkerOK, Held
<1> QED
  BY <1>2, <1>3 DEF WorkerOK, Held

\* The first of the todo set is done with: it is accounted for.
LEMMA CollectOK ==
    ASSUME NEW L \in Nat, NEW A, NEW R, NEW x, WorkerOK(x, L, A, R), x.todo # {},
           Lowest(x.todo) \in A, x.pc # "idle",
           NEW y \in WorkerState, y.pc \in {"scan", "batch"}, y.next = x.next, y.unc = x.unc,
           y.done = x.done \cup {Lowest(x.todo)}, y.todo = x.todo \ {Lowest(x.todo)},
           y.now = x.now
    PROVE  WorkerOK(y, L, A, R)
<1>1. Lowest(x.todo) \in x.todo /\ \A p \in x.todo : Lowest(x.todo) <= p
  BY CurIs
<1>2. x.todo \subseteq Nat
  BY DEF WorkerOK, Held, WorkerState
<1>3. ASSUME NEW p \in y.todo, NEW d \in y.done
      PROVE  d < p
  BY <1>1, <1>2, <1>3 DEF WorkerOK, Held
<1>4. y.unc \ y.todo \subseteq A
  BY DEF WorkerOK, Held
<1> QED
  BY <1>1, <1>3, <1>4 DEF WorkerOK, Held

\* A first part S of the todo set is accounted for and goes to be committed.
LEMMA CommittingOK ==
    ASSUME NEW L \in Nat, NEW A, NEW R, NEW x, WorkerOK(x, L, A, R), x.pc # "idle",
           NEW S, S \subseteq x.todo \cap A, \A p \in x.todo : \A n \in S : p \in S \/ n < p,
           NEW y \in WorkerState, y.pc \in {"one", "batch"}, y.next = x.next, y.unc = x.unc,
           y.done = x.done, y.todo = x.todo, y.now = S
    PROVE  WorkerOK(y, L, A, R)
BY DEF WorkerOK, Held

\* A commit takes what it commits out of everything a worker holds.
LEMMA CommittedOK ==
    ASSUME NEW L \in Nat, NEW A, NEW R, NEW x, WorkerOK(x, L, A, R), x.pc # "idle",
           NEW S \in {x.done, x.now}, NEW y \in WorkerState, y.pc \in {"scan", "batch"},
           y.next = x.next, y.unc = x.unc \ S, y.todo \in {x.todo, x.todo \ S},
           y.todo \subseteq y.unc, y.done \in {{}, x.done}, y.now \in {{}, x.now}
    PROVE  WorkerOK(y, L, A, R)
<1>1. S \subseteq A /\ y.todo \subseteq x.todo /\ y.unc \subseteq x.unc
  BY DEF WorkerOK, Held
<1>2. ASSUME NEW p \in 1..L, p <= y.next \/ \E u \in Held(y) : p <= u
      PROVE  p \in y.unc \cup A
  BY <1>1, <1>2 DEF WorkerOK, Held
<1>3. y.unc \ y.todo \subseteq A
  BY <1>1 DEF WorkerOK, Held
<1>4. /\ \A p \in y.todo : \A d \in y.done : d < p
      /\ \A p \in y.todo : \A n \in y.now : p \in y.now \/ n < p
  <2>1. /\ \A p \in x.todo : \A d \in x.done : d < p
        /\ \A p \in x.todo : \A n \in x.now : p \in x.now \/ n < p
    BY DEF WorkerOK, Held
  <2> QED
    BY <2>1, <1>1
<1>5. /\ y.done \subseteq y.unc \cap A /\ y.now \subseteq y.unc \cap A
      /\ y.next <= L /\ y.unc \subseteq 1..L
  BY <1>1 DEF WorkerOK, Held
<1> QED
  BY <1>2, <1>3, <1>4, <1>5 DEF WorkerOK, Held

\* The offset of a commit is right: all the records up to it are accounted for.
LEMMA OffsetOK ==
    ASSUME NEW L \in Nat, NEW A, NEW R, NEW x, WorkerOK(x, L, A, R), x.pc # "idle",
           NEW S \in {x.done, x.now}, S # {}
    PROVE  Highest(S) \in 1..L /\ 1..Highest(S) \subseteq A
<1>1. S \subseteq Held(x) /\ S \subseteq A /\ S \subseteq 1..L /\ S \subseteq 0..L
  BY DEF WorkerOK, Held
<1>2. Highest(S) \in S /\ \A y \in S : Highest(S) >= y
  BY <1>1, HighestIs
<1>3. ASSUME NEW p \in 1..Highest(S)
      PROVE  p \in A
  <2>1. p \in 1..L /\ p \in x.unc \cup A
    BY <1>1, <1>2 DEF WorkerOK, Held
  <2>2. CASE p \in x.todo
    <3>1. p \in S \/ Highest(S) < p
      BY <1>2, <2>2 DEF WorkerOK, Held
    <3>2. \A h \in 0..L : p \in 1..h => ~ (h < p)
      OBVIOUS
    <3>3. ~ (Highest(S) < p)
      BY <3>2, <1>1, <1>2
    <3> QED
      BY <3>1, <3>3, <1>1
  <2>3. CASE p \in x.unc \ x.todo
    BY <2>3 DEF WorkerOK, Held
  <2> QED
    BY <2>1, <2>2, <2>3
<1> QED
  BY <1>1, <1>2, <1>3

----------------------------------------------------------------------------
(* Steps that leave what is settled alone *)

\* What a sequence holds, and where.
LEMMA Member ==
    ASSUME NEW T, NEW s \in Seq(T), NEW i \in DOMAIN s
    PROVE  s[i] \in T /\ i \in 1..Len(s) /\ Len(s) \in Nat /\ DOMAIN s = 1..Len(s)
OBVIOUS

\* A record holds a decision of the stream.
LEMMA MessageIs ==
    ASSUME StreamInv, NEW o \in DOMAIN klog
    PROVE  /\ klog[o] \in DOMAIN stream
           /\ Message(o) \in Decision
           /\ Message(o) = stream[klog[o]]
           /\ Message(o).seq \in 1..MaxSeq /\ Message(o).seq <= Len(stream)
           /\ Message(o).epoch \in 1..MaxEpoch
           /\ Id(Message(o)) \in Ids
           /\ Id(Message(o))[1] = Message(o).epoch /\ Id(Message(o))[2] = Message(o).seq
<1>1. klog[o] \in 1..MaxSeq /\ klog[o] <= Len(stream)
  <2>1. klog \in Seq(1..MaxSeq) /\ klog[o] <= Len(stream)
    BY DEF StreamInv
  <2> QED
    BY <2>1, Member
<1>2. klog[o] \in DOMAIN stream /\ Len(stream) \in Nat
  BY <1>1 DEF StreamInv
<1>3. Message(o) \in Decision /\ Message(o).seq <= klog[o]
  BY <1>2 DEF StreamInv, Message
<1>4. Message(o).seq \in 1..MaxSeq /\ Message(o).epoch \in 1..MaxEpoch
  BY <1>3 DEF Decision
<1>5. Message(o).seq <= Len(stream)
  BY <1>1, <1>2, <1>3, <1>4
<1> QED
  BY <1>2, <1>3, <1>4, <1>5 DEF Message, Id, Ids

\* The records of a partition are numbered from 1.
LEMMA Records ==
    ASSUME StreamInv
    PROVE  Len(klog) \in Nat /\ DOMAIN klog = 1..Len(klog)
BY DEF StreamInv

\* The bids are decisions, numbered from 1.
LEMMA BidIs ==
    ASSUME FactsInv, NEW i \in DOMAIN bids
    PROVE  /\ bids[i] \in Decision /\ i \in 1..Len(bids) /\ DOMAIN bids = 1..Len(bids)
           /\ bids[i].seq = i /\ bids[i].seq \in 1..MaxSeq /\ bids[i].epoch \in 1..MaxEpoch
           /\ Id(bids[i]) \in Ids /\ Id(bids[i])[1] = bids[i].epoch /\ Id(bids[i])[2] = i
<1>1. bids \in Seq(Decision) /\ bids[i].seq = i
  BY DEF FactsInv
<1>2. bids[i] \in Decision /\ i \in 1..Len(bids) /\ DOMAIN bids = 1..Len(bids)
  BY <1>1, Member
<1>3. bids[i].seq \in 1..MaxSeq /\ bids[i].epoch \in 1..MaxEpoch
  BY <1>2 DEF Decision
<1> QED
  BY <1>1, <1>2, <1>3 DEF Id, Ids

\* While the log, the rows and the number of settled decisions stay, what is
\* accounted for stays.
LEMMA SameAccounts ==
    ASSUME UNCHANGED <<logVars, rows>>, pg'.seq = pg.seq, pg'.epoch = pg.epoch
    PROVE  Attempted' = Attempted /\ Accounted' = Accounted
<1>1. \A o : Message(o)' = Message(o)
  BY DEF logVars, Message
<1> QED
  BY <1>1 DEF logVars, Attempted, Accounted, Id

\* A worker moves in memory, or commits.
LEMMA QuietStep ==
    ASSUME SettlementInv, UNCHANGED <<engine, logVars, pgVars, resume>>,
           owner' \in Workers, faults' \in 0..MaxFaults,
           committed' \in Nat, committed' <= Len(klog), 1..committed' \subseteq Accounted,
           work' \in [Workers -> WorkerState], NEW w \in Workers,
           \A v \in Workers \ {w} : work'[v] = work[v],
           WorkerOK(work'[w], Len(klog), Accounted, Attempted)
    PROVE  SettlementInv'
<1>1. Attempted' = Attempted /\ Accounted' = Accounted
  BY SameAccounts DEF pgVars
<1>2. StreamInv'
  BY DEF SettlementInv, StreamInv, logVars, pgVars
<1>3. SaleInv'
  BY DEF SettlementInv, SaleInv, NumbersOnce, SaleTaken, logVars, pgVars
<1>4. FactsInv'
  BY DEF SettlementInv, FactsInv, Sells, logVars, pgVars
<1>5. RowsInv'
  <2>1. \A o : Message(o)' = Message(o)
    BY DEF logVars, Message
  <2>2. \A id \in Ids : RowOK(id)'
    BY <2>1 DEF SettlementInv, RowsInv, RowOK, logVars, pgVars
  <2> QED
    BY <2>2 DEF SettlementInv, RowsInv, Id, pgVars
<1>6. WorkersInv'
  <2>1. ASSUME NEW v \in Workers
        PROVE  WorkerOK(work'[v], Len(klog), Accounted, Attempted)
    BY DEF SettlementInv, WorkersInv
  <2> QED
    BY <1>1, <2>1 DEF WorkersInv, logVars
<1>7. OffsetsInv'
  BY <1>1 DEF SettlementInv, OffsetsInv, logVars, pgVars
<1> QED
  BY <1>2, <1>3, <1>4, <1>5, <1>6, <1>7 DEF SettlementInv

\* What may become of the row of a decision that is not settled by this step.
RowMove(id, o, row) ==
    /\ row \in Row
    /\ row.status # "none"
    /\ row.off \in DOMAIN klog
    /\ row.off = o \/ row.off = rows[id].off
    /\ row.status \in {"SETTLED", "SKIPPED"} =>
          (row.status = "SKIPPED" /\ id[1] < pg.epoch) \/ row = rows[id]

\* The row of record o moves, or none does; a pause may be set or lifted.
LEMMA RowStep ==
    ASSUME SettlementInv, UNCHANGED <<logVars, bids, events, order, checkpoint, committed, owner, resume>>,
           NEW pause \in {"no", "LEDGER_GAP", "RECOVERABLE", "LASTING"},
           pg' = [pg EXCEPT !.pause = pause],
           NEW paused \in BOOLEAN, engine' = [engine EXCEPT !.paused = paused],
           faults' \in 0..MaxFaults,
           NEW o \in DOMAIN klog, NEW row,
           \/ rows' = rows
           \/ rows' = [rows EXCEPT ![Id(Message(o))] = row] /\ RowMove(Id(Message(o)), o, row),
           work' \in [Workers -> WorkerState], NEW w \in Workers,
           \A v \in Workers \ {w} : work'[v] = work[v],
           WorkerOK(work'[w], Len(klog), Accounted', Attempted')
    PROVE  SettlementInv'
<1> DEFINE id == Id(Message(o))
<1>1. \A p : Message(p)' = Message(p)
  BY DEF logVars, Message
<1>2. StreamInv /\ FactsInv /\ RowsInv /\ SaleInv /\ WorkersInv /\ OffsetsInv
  BY DEF SettlementInv
<1>3. /\ pg' \in [epoch: 1..MaxEpoch, seq: 0..MaxSeq, pub: 0..MaxSeq, leader: 0..MaxSeq, sold: BOOLEAN,
                  pause: {"no", "LEDGER_GAP", "RECOVERABLE", "LASTING"}]
      /\ pg'.epoch = pg.epoch /\ pg'.seq = pg.seq /\ pg'.pub = pg.pub /\ pg'.leader = pg.leader
      /\ pg'.sold = pg.sold
  BY <1>2 DEF FactsInv
<1>4. /\ engine' \in [epoch: 1..MaxEpoch, seq: 0..MaxSeq, sold: BOOLEAN, paused: BOOLEAN]
      /\ engine'.seq = engine.seq /\ engine'.sold = engine.sold
  BY <1>2 DEF StreamInv
<1>5. id \in Ids /\ rows \in [Ids -> Row] /\ rows' \in [Ids -> Row]
  BY <1>2, MessageIs DEF RowsInv, RowMove
<1>6. /\ \A i \in Ids : i # id => rows'[i] = rows[i]
      /\ rows'[id] = rows[id] \/ RowMove(id, o, rows'[id])
  BY <1>5
<1>7. \A i \in Ids : rows[i] # NoRow => rows'[i] # NoRow
  BY <1>6 DEF RowMove, NoRow
<1>8. Attempted \subseteq Attempted' /\ Accounted \subseteq Accounted'
  <2>1. \A p \in DOMAIN klog : Id(Message(p)) \in Ids
    BY <1>2, MessageIs
  <2> QED
    BY <1>1, <1>3, <1>7, <2>1 DEF Attempted, Accounted, logVars, Id
<1>9. StreamInv'
  BY <1>2, <1>3, <1>4 DEF StreamInv, logVars
<1>10. SaleInv'
  BY <1>2, <1>3, <1>4 DEF SaleInv, NumbersOnce, SaleTaken, logVars
<1>11. FactsInv'
  BY <1>2, <1>3 DEF FactsInv, Sells, logVars
<1>12. RowsInv'
  <2>1. ASSUME NEW i \in Ids
        PROVE  RowOK(i)'
    <3>1. RowOK(i)
      BY <1>2 DEF RowsInv
    <3>2. CASE rows'[i] = rows[i]
      BY <3>1, <3>2, <1>1, <1>3 DEF RowOK, logVars
    <3>3. CASE rows'[i] # rows[i]
      <4>1. i = id /\ RowMove(id, o, rows'[id])
        BY <1>6, <3>3
      <4>2. rows'[id].status \in {"SETTLED", "SKIPPED"} =>
               rows'[id].status = "SKIPPED" /\ id[1] < pg.epoch
        BY <4>1, <3>3 DEF RowMove
      <4>3. rows'[id].status # "none" /\ rows'[id].off \in DOMAIN klog
        BY <4>1 DEF RowMove
      <4>4. Id(Message(rows'[id].off)) = id
        <5>1. CASE rows'[id].off = o
          BY <5>1
        <5>2. CASE rows'[id].off = rows[id].off /\ rows[id] # NoRow
          BY <5>2, <3>1, <4>1 DEF RowOK
        <5>3. CASE rows'[id].off = rows[id].off /\ rows[id] = NoRow
          BY <5>3, <4>3, Records, <1>2 DEF NoRow
        <5> QED
          BY <5>1, <5>2, <5>3, <4>1 DEF RowMove
      <4> QED
        BY <4>1, <4>2, <4>3, <4>4, <1>1, <1>3 DEF RowOK, logVars, Id
    <3> QED
      BY <3>2, <3>3
  <2>2. \A i \in DOMAIN bids : Id(bids[i]) \in Ids
    BY <1>2, BidIs
  <2> QED
    BY <2>1, <2>2, <1>2, <1>5, <1>7 DEF RowsInv, Id
<1>13. WorkersInv'
  <2>1. ASSUME NEW v \in Workers
        PROVE  WorkerOK(work'[v], Len(klog), Accounted', Attempted')
    <3>1. CASE v = w
      BY <3>1
    <3>2. CASE v # w
      BY <3>2, <1>2, <1>8, WorkerKept, Records DEF WorkersInv
    <3> QED
      BY <3>1, <3>2
  <2> QED
    BY <2>1 DEF WorkersInv, logVars
<1>14. OffsetsInv'
  <2>1. /\ committed' = committed /\ committed \in Nat /\ committed <= Len(klog)
        /\ 1..committed \subseteq Accounted
    BY <1>2 DEF OffsetsInv
  <2>2. /\ checkpoint' = checkpoint /\ checkpoint \in [epoch: 0..MaxEpoch, seq: 0..MaxSeq, next: Nat]
        /\ checkpoint.seq = pg.seq /\ checkpoint.next <= Len(klog) + 1
        /\ 1..(checkpoint.next - 1) \subseteq Accounted
    BY <1>2 DEF OffsetsInv
  <2> QED
    BY <2>1, <2>2, <1>3, <1>8 DEF OffsetsInv, logVars
<1> QED
  BY <1>9, <1>10, <1>11, <1>12, <1>13, <1>14 DEF SettlementInv

----------------------------------------------------------------------------
(* Steps that settle *)

\* One transaction settles the run ds of decisions.
Settles(ds) ==
    /\ ds \in Seq(Decision) /\ ds # <<>>
    /\ \A i \in DOMAIN ds :
          /\ ds[i].seq = pg.seq + i
          /\ ds[i].epoch = pg.epoch
          /\ \E n \in DOMAIN stream : stream[n] = ds[i]
    /\ bids' = bids \o ds
    /\ pg' \in [epoch: {pg.epoch}, seq: {pg.seq + Len(ds)}, pub: {pg.pub, pg.pub + Len(ds)},
                leader: {pg.leader, pg.seq + Len(ds)}, sold: BOOLEAN, pause: {pg.pause}]
    /\ \/ /\ \A i \in DOMAIN ds : ds[i].kind = "quiet"
          /\ pg'.pub = pg.pub
          /\ events' = events
       \/ /\ \A i \in DOMAIN ds : ds[i].kind # "quiet"
          /\ pg'.pub = pg.pub + Len(ds)
          /\ events' = events \o [i \in 1..Len(ds) |-> pg.seq + i]
    /\ \/ /\ \A i \in DOMAIN ds : ~Sells(ds[i])
          /\ pg'.leader = pg.leader /\ pg'.sold = pg.sold /\ order' = order
       \/ /\ \A i \in DOMAIN ds : ds[i].kind = "accepted"
          /\ pg'.leader = pg'.seq /\ ~pg'.sold /\ order' = order
       \/ /\ Len(ds) = 1 /\ ds[1].kind = "sold"
          /\ pg'.leader = pg'.seq /\ pg'.sold /\ order' = IF order = 0 THEN pg'.seq ELSE order

\* The sequence u has the m elements of s and then the n elements of t.
IsAppend(u, s, m, t, n) ==
    /\ Len(u) = m + n
    /\ DOMAIN u = 1..(m + n)
    /\ \A i \in 1..m : u[i] = s[i]
    /\ \A i \in 1..n : u[m + i] = t[i]
    /\ \A i \in 1..(m + n) : i \in 1..m \/ \E j \in 1..n : i = m + j

\* What a run is appended to keeps its place.
LEMMA Appended ==
    ASSUME NEW T, NEW s \in Seq(T), NEW t \in Seq(T)
    PROVE  s \o t \in Seq(T) /\ IsAppend(s \o t, s, Len(s), t, Len(t))
<1> DEFINE m == Len(s)
           n == Len(t)
<1>1. m \in Nat /\ n \in Nat /\ DOMAIN s = 1..m /\ DOMAIN t = 1..n
  OBVIOUS
<1>2. ASSUME NEW i \in 1..(m + n), i \notin 1..m
      PROVE  \E j \in 1..n : i = m + j
  <2> HIDE DEF m, n
  <2>1. i - m \in 1..n /\ i = m + (i - m)
    BY <1>1, <1>2
  <2> QED
    BY <2>1
<1>3. Len(s \o t) = m + n /\ s \o t \in Seq(T)
  OBVIOUS
<1>4. DOMAIN (s \o t) = 1..(m + n)
  BY <1>3
<1>5. \A i \in 1..m : (s \o t)[i] = s[i]
  BY <1>1
<1>6. \A i \in 1..n : (s \o t)[m + i] = t[i]
  BY <1>1
<1>7. IsAppend(s \o t, s, m, t, n)
  <2> HIDE DEF m, n
  <2> QED
    BY <1>2, <1>3, <1>4, <1>5, <1>6 DEF IsAppend
<1> QED
  BY <1>3, <1>7

\* The bids after a run is settled, and where its numbers are.
LEMMA RunSettled ==
    ASSUME FactsInv, NEW ds, Settles(ds)
    PROVE  /\ Len(ds) \in Nat \ {0} /\ DOMAIN ds = 1..Len(ds)
           /\ pg.seq + Len(ds) \in 1..MaxSeq
           /\ bids' \in Seq(Decision) /\ Len(bids') = pg'.seq /\ pg'.seq = pg.seq + Len(ds)
           /\ DOMAIN bids' = 1..(pg.seq + Len(ds)) /\ DOMAIN bids = 1..pg.seq
           /\ \A i \in 1..pg.seq : bids'[i] = bids[i]
           /\ \A i \in 1..Len(ds) : bids'[pg.seq + i] = ds[i]
           /\ \A i \in 1..(pg.seq + Len(ds)) : i \in 1..pg.seq \/ \E j \in 1..Len(ds) : i = pg.seq + j
<1>1. ds \in Seq(Decision) /\ ds # <<>> /\ bids \in Seq(Decision) /\ Len(bids) = pg.seq
  BY DEF FactsInv, Settles
<1>2. Len(ds) \in Nat \ {0} /\ DOMAIN ds = 1..Len(ds)
  BY <1>1
<1>3. Len(ds) \in DOMAIN ds
  BY <1>2
<1>4. ds[Len(ds)] \in Decision /\ ds[Len(ds)].seq = pg.seq + Len(ds)
  BY <1>1, <1>3, Member DEF Settles
<1>5. pg.seq + Len(ds) \in 1..MaxSeq
  BY <1>4 DEF Decision
<1>6. pg'.seq = pg.seq + Len(ds) /\ bids' = bids \o ds
  BY DEF Settles
<1>7. DOMAIN bids = 1..pg.seq
  BY <1>1
<1>8. /\ bids \o ds \in Seq(Decision)
      /\ Len(bids \o ds) = pg.seq + Len(ds)
      /\ DOMAIN (bids \o ds) = 1..(pg.seq + Len(ds))
      /\ \A i \in 1..pg.seq : (bids \o ds)[i] = bids[i]
      /\ \A i \in 1..Len(ds) : (bids \o ds)[pg.seq + i] = ds[i]
      /\ \A i \in 1..(pg.seq + Len(ds)) : i \in 1..pg.seq \/ \E j \in 1..Len(ds) : i = pg.seq + j
  <2>1. bids \in Seq(Decision) /\ ds \in Seq(Decision)
    BY <1>1
  <2>2. bids \o ds \in Seq(Decision) /\ IsAppend(bids \o ds, bids, Len(bids), ds, Len(ds))
    BY <2>1, Appended
  <2>3. IsAppend(bids \o ds, bids, pg.seq, ds, Len(ds))
    BY <2>2, <1>1
  <2> QED
    BY <2>2, <2>3 DEF IsAppend
<1> DEFINE b == bids \o ds
<1> HIDE DEF b
<1>9. /\ b \in Seq(Decision) /\ Len(b) = pg.seq + Len(ds)
      /\ DOMAIN b = 1..(pg.seq + Len(ds))
      /\ \A i \in 1..pg.seq : b[i] = bids[i]
      /\ \A i \in 1..Len(ds) : b[pg.seq + i] = ds[i]
      /\ bids' = b
  BY <1>6, <1>8 DEF b
<1>10. \A i \in 1..(pg.seq + Len(ds)) : i \in 1..pg.seq \/ \E j \in 1..Len(ds) : i = pg.seq + j
  BY <1>8
<1> QED
  BY <1>2, <1>5, <1>6, <1>7, <1>9, <1>10

\* A run that is settled leaves the tables of one transaction in agreement.
LEMMA SettlesFacts ==
    ASSUME StreamInv, FactsInv, NEW ds, Settles(ds), UNCHANGED logVars
    PROVE  FactsInv'
<1> DEFINE k == Len(ds)
           q == pg.seq
<1>0. bids' \in Seq(Decision) /\ Len(bids') = pg'.seq
  BY RunSettled
<1>1. /\ k \in Nat \ {0} /\ DOMAIN ds = 1..k /\ q + k \in 1..MaxSeq /\ pg'.seq = q + k
      /\ DOMAIN bids' = 1..(q + k) /\ DOMAIN bids = 1..q
      /\ \A i \in 1..q : bids'[i] = bids[i]
      /\ \A i \in 1..k : bids'[q + i] = ds[i]
      /\ \A i \in 1..(q + k) : i \in 1..q \/ \E j \in 1..k : i = q + j
  BY RunSettled
<1>2. /\ pg \in [epoch: 1..MaxEpoch, seq: 0..MaxSeq, pub: 0..MaxSeq, leader: 0..MaxSeq, sold: BOOLEAN,
                 pause: {"no", "LEDGER_GAP", "RECOVERABLE", "LASTING"}]
      /\ q \in Nat /\ pg.pub \in Nat /\ pg.pub <= q /\ MaxSeq \in Nat
      /\ order \in 0..MaxSeq
  BY SettlementAssumption DEF FactsInv
<1>20. events \in Seq(1..MaxSeq) /\ Len(events) = pg.pub /\ DOMAIN events = 1..pg.pub
  BY DEF FactsInv
<1>3. \A i \in 1..k : /\ ds[i].seq = q + i /\ ds[i].epoch = pg.epoch /\ ds[i] \in Decision
                      /\ \E n \in DOMAIN stream : stream[n] = ds[i]
  BY <1>1, Member DEF Settles
<1>4. /\ pg'.epoch = pg.epoch /\ pg'.pause = pg.pause /\ pg'.sold \in BOOLEAN
      /\ pg'.pub \in {pg.pub, pg.pub + k} /\ pg'.leader \in {pg.leader, q + k}
      /\ pg' \in [epoch: {pg.epoch}, seq: {q + k}, pub: {pg.pub, pg.pub + k},
                  leader: {pg.leader, q + k}, sold: BOOLEAN, pause: {pg.pause}]
  BY DEF Settles
<1>5. pg' \in [epoch: 1..MaxEpoch, seq: 0..MaxSeq, pub: 0..MaxSeq, leader: 0..MaxSeq, sold: BOOLEAN,
               pause: {"no", "LEDGER_GAP", "RECOVERABLE", "LASTING"}]
  <2>1. pg.pub + k \in 0..MaxSeq /\ q + k \in 0..MaxSeq
    BY <1>1, <1>2
  <2> QED
    BY <1>2, <1>4, <2>1
<1> HIDE DEF k, q
<1>6. \A i \in 1..q : /\ bids[i].seq = i /\ bids[i].epoch <= pg.epoch
                      /\ bids[i].epoch \in Nat
                      /\ \E n \in DOMAIN stream : stream[n] = bids[i]
  BY <1>1, BidIs DEF FactsInv
<1>7. ASSUME NEW i \in DOMAIN bids'
      PROVE  /\ bids'[i].seq = i
             /\ bids'[i].epoch <= pg'.epoch
             /\ \E n \in DOMAIN stream' : stream'[n] = bids'[i]
  <2>1. stream' = stream /\ pg.epoch \in Nat /\ pg'.epoch = pg.epoch
    BY <1>2, <1>4 DEF logVars
  <2>2. CASE i \in 1..q
    BY <2>1, <2>2, <1>1, <1>6
  <2>3. ASSUME NEW j \in 1..k, i = q + j
        PROVE  bids'[i] = ds[j] /\ ds[j].seq = i /\ ds[j].epoch <= pg.epoch
               /\ \E n \in DOMAIN stream : stream[n] = ds[j]
    BY <2>1, <2>3, <1>1, <1>3
  <2> QED
    BY <2>1, <2>2, <2>3, <1>1
<1>8. ASSUME NEW i \in DOMAIN bids', NEW j \in DOMAIN bids', i <= j
      PROVE  bids'[i].epoch <= bids'[j].epoch
  <2>1. pg.epoch \in Nat /\ pg'.epoch = pg.epoch
    BY <1>2, <1>4
  <2>2. CASE j \in 1..q
    <3>1. i \in 1..q /\ i \in DOMAIN bids /\ j \in DOMAIN bids
      BY <2>2, <1>1, <1>2, <1>8
    <3> QED
      BY <3>1, <1>1, <1>8 DEF FactsInv
  <2>3. ASSUME NEW m \in 1..k, j = q + m
        PROVE  bids'[j].epoch = pg.epoch
    BY <2>3, <1>1, <1>3
  <2>4. bids'[i].epoch <= pg.epoch
    BY <1>7, <2>1
  <2> QED
    BY <2>2, <2>3, <2>4, <1>1
<1>9. /\ events' \in Seq(1..MaxSeq) /\ Len(events') = pg'.pub /\ pg'.pub <= pg'.seq
      /\ \A n \in DOMAIN events' : events'[n] \in DOMAIN bids' /\ bids'[events'[n]].kind # "quiet"
      /\ \A i \in DOMAIN bids' : bids'[i].kind # "quiet" => \E n \in DOMAIN events' : events'[n] = i
  <2>1. /\ DOMAIN events = 1..pg.pub
        /\ \A n \in 1..pg.pub : events[n] \in 1..q /\ bids[events[n]].kind # "quiet"
        /\ \A i \in 1..q : bids[i].kind # "quiet" => \E n \in 1..pg.pub : events[n] = i
    <3>1. /\ \A n \in DOMAIN events : events[n] \in DOMAIN bids /\ bids[events[n]].kind # "quiet"
          /\ \A i \in DOMAIN bids : bids[i].kind # "quiet" => \E n \in DOMAIN events : events[n] = i
      BY DEF FactsInv
    <3> QED
      BY <3>1, <1>1, <1>20
  <2>2. CASE /\ \A i \in DOMAIN ds : ds[i].kind = "quiet"
             /\ pg'.pub = pg.pub /\ events' = events
    <3>1. \A i \in 1..(q + k) : bids'[i].kind # "quiet" => i \in 1..q /\ bids[i].kind # "quiet"
      BY <2>2, <1>1
    <3>2. \A i \in 1..q : i \in 1..(q + k)
      BY <1>1, <1>2
    <3>3. events' \in Seq(1..MaxSeq) /\ Len(events') = pg'.pub
      BY <2>2, <1>20
    <3>4. pg'.pub <= pg'.seq
      BY <2>2, <1>1, <1>2
    <3>5. \A n \in DOMAIN events' : events'[n] \in DOMAIN bids' /\ bids'[events'[n]].kind # "quiet"
      BY <2>1, <2>2, <3>2, <1>1, <1>20
    <3>6. \A i \in DOMAIN bids' : bids'[i].kind # "quiet" => \E n \in DOMAIN events' : events'[n] = i
      BY <2>1, <2>2, <3>1, <1>1, <1>20
    <3> QED
      BY <3>3, <3>4, <3>5, <3>6
  <2>3. CASE /\ \A i \in DOMAIN ds : ds[i].kind # "quiet"
             /\ pg'.pub = pg.pub + k /\ events' = events \o [i \in 1..k |-> q + i]
    <3> DEFINE new == [i \in 1..k |-> q + i]
    <3>1. new \in Seq(1..MaxSeq) /\ Len(new) = k
      <4>1. \A i \in 1..k : q + i \in 1..MaxSeq
        BY <1>1, <1>2
      <4>2. new \in [1..k -> 1..MaxSeq] /\ k \in Nat
        BY <4>1, <1>1
      <4> QED
        BY <4>2
    <3>2. \A i \in 1..k : new[i] = q + i
      OBVIOUS
    <3> HIDE DEF new
    <3>3. /\ events \o new \in Seq(1..MaxSeq)
          /\ Len(events \o new) = pg.pub + k
          /\ DOMAIN (events \o new) = 1..(pg.pub + k)
          /\ \A i \in 1..pg.pub : (events \o new)[i] = events[i]
          /\ \A i \in 1..k : (events \o new)[pg.pub + i] = new[i]
          /\ \A i \in 1..(pg.pub + k) : i \in 1..pg.pub \/ \E j \in 1..k : i = pg.pub + j
      <4>1. events \o new \in Seq(1..MaxSeq) /\ IsAppend(events \o new, events, Len(events), new, Len(new))
        BY <1>20, <3>1, Appended
      <4>2. IsAppend(events \o new, events, pg.pub, new, k)
        BY <4>1, <1>20, <3>1
      <4> QED
        BY <4>1, <4>2 DEF IsAppend
    <3>4. events' = events \o new
      BY <2>3 DEF new
    <3>5. ASSUME NEW n \in DOMAIN events'
          PROVE  events'[n] \in DOMAIN bids' /\ bids'[events'[n]].kind # "quiet"
      <4>1. CASE n \in 1..pg.pub
        <5>1. events'[n] \in 1..q /\ bids[events'[n]].kind # "quiet"
          BY <4>1, <2>1, <3>3, <3>4
        <5>2. events'[n] \in 1..(q + k)
          BY <5>1, <1>1, <1>2
        <5> QED
          BY <5>1, <5>2, <1>1
      <4>2. ASSUME NEW j \in 1..k, n = pg.pub + j
            PROVE  events'[n] = q + j /\ q + j \in 1..(q + k) /\ bids'[q + j].kind # "quiet"
        <5>1. events'[n] = q + j
          BY <4>2, <3>2, <3>3, <3>4
        <5>2. q + j \in 1..(q + k)
          BY <1>1, <1>2
        <5>3. bids'[q + j].kind # "quiet"
          BY <1>1, <2>3
        <5> QED
          BY <5>1, <5>2, <5>3
      <4> QED
        BY <4>1, <4>2, <3>3, <3>4, <1>1
    <3>6. ASSUME NEW i \in DOMAIN bids', bids'[i].kind # "quiet"
          PROVE  \E n \in DOMAIN events' : events'[n] = i
      <4>1. CASE i \in 1..q
        <5>1. PICK n \in 1..pg.pub : events[n] = i
          BY <4>1, <3>6, <2>1, <1>1
        <5>2. n \in 1..(pg.pub + k)
          BY <1>1, <1>2
        <5> QED
          BY <5>1, <5>2, <3>3, <3>4
      <4>2. ASSUME NEW j \in 1..k, i = q + j
            PROVE  pg.pub + j \in 1..(pg.pub + k) /\ events'[pg.pub + j] = i
        <5>1. events'[pg.pub + j] = q + j
          BY <3>2, <3>3, <3>4
        <5>2. pg.pub + j \in 1..(pg.pub + k)
          BY <1>1, <1>2
        <5> QED
          BY <4>2, <5>1, <5>2
      <4>3. DOMAIN events' = 1..(pg.pub + k)
        BY <3>3, <3>4
      <4>4. i \in 1..q \/ \E j \in 1..k : i = q + j
        BY <1>1
      <4> QED
        BY <4>1, <4>2, <4>3, <4>4
    <3>7. pg.pub + k <= q + k
      BY <1>1, <1>2
    <3> QED
      BY <3>3, <3>4, <3>5, <3>6, <3>7, <2>3, <1>1
  <2> QED
    BY <2>2, <2>3 DEF Settles, k, q
<1>10. /\ pg'.leader # 0 => pg'.leader \in DOMAIN bids' /\ Sells(bids'[pg'.leader])
       /\ \A i \in DOMAIN bids' : Sells(bids'[i]) => i <= pg'.leader
  <2>1. /\ pg.leader # 0 => pg.leader \in 1..q /\ Sells(bids[pg.leader])
        /\ \A i \in 1..q : Sells(bids[i]) => i <= pg.leader
    BY <1>1 DEF FactsInv
  <2>2. \A i \in 1..q : i \in 1..(q + k)
    BY <1>1, <1>2
  <2>3. CASE (\A i \in DOMAIN ds : ~Sells(ds[i])) /\ pg'.leader = pg.leader
    <3>1. \A i \in 1..(q + k) : Sells(bids'[i]) => i \in 1..q /\ Sells(bids[i])
      BY <2>3, <1>1
    <3> QED
      BY <2>1, <2>2, <2>3, <3>1, <1>1
  <2>4. CASE (\A i \in DOMAIN ds : Sells(ds[i])) /\ pg'.leader = q + k
    <3>1. q + k \in 1..(q + k) /\ bids'[q + k] = ds[k] /\ k \in DOMAIN ds
      BY <1>1, <1>2
    <3>2. \A i \in 1..(q + k) : i <= q + k
      BY <1>1, <1>2
    <3> QED
      BY <2>4, <3>1, <3>2, <1>1
  <2>5. (\A i \in DOMAIN ds : ds[i].kind = "accepted") => \A i \in DOMAIN ds : Sells(ds[i])
    BY DEF Sells
  <2>6. k = 1 /\ ds[1].kind = "sold" => \A i \in DOMAIN ds : Sells(ds[i])
    BY <1>1 DEF Sells
  <2> QED
    BY <2>3, <2>4, <2>5, <2>6, <1>1 DEF Settles, k, q
<1>11. /\ order' \in 0..MaxSeq
       /\ order' # 0 => order' \in DOMAIN bids' /\ bids'[order'].kind = "sold"
       /\ \A i \in DOMAIN bids' : bids'[i].kind = "sold" => order' # 0
       /\ pg'.sold => order' # 0
  <2>1. /\ order # 0 => order \in 1..q /\ bids[order].kind = "sold"
        /\ \A i \in 1..q : bids[i].kind = "sold" => order # 0
        /\ pg.sold => order # 0
    BY <1>1 DEF FactsInv
  <2>2. \A i \in 1..q : i \in 1..(q + k)
    BY <1>1, <1>2
  <2>3. CASE (\A i \in DOMAIN ds : ds[i].kind # "sold") /\ order' = order /\ (pg'.sold => pg.sold)
    <3>1. \A i \in 1..(q + k) : bids'[i].kind = "sold" => i \in 1..q /\ bids[i].kind = "sold"
      BY <2>3, <1>1
    <3> QED
      BY <2>1, <2>2, <2>3, <3>1, <1>1, <1>2
  <2>4. CASE /\ k = 1 /\ ds[1].kind = "sold"
             /\ order' = IF order = 0 THEN pg'.seq ELSE order
    <3>1. q + k \in 1..(q + k) /\ bids'[q + k] = ds[1] /\ q + k # 0
      BY <2>4, <1>1, <1>2
    <3>2. order' # 0 /\ order' \in 1..(q + k) /\ bids'[order'].kind = "sold"
      BY <2>1, <2>2, <2>4, <3>1, <1>1
    <3> QED
      BY <3>1, <3>2, <2>4, <1>1, <1>2
  <2>5. (\A i \in DOMAIN ds : ds[i].kind = "accepted") => \A i \in DOMAIN ds : ds[i].kind # "sold"
    OBVIOUS
  <2>6. (\A i \in DOMAIN ds : ~Sells(ds[i])) => \A i \in DOMAIN ds : ds[i].kind # "sold"
    BY DEF Sells
  <2> QED
    BY <2>3, <2>4, <2>5, <2>6 DEF Settles, k, q
<1> QED
  BY <1>0, <1>1, <1>5, <1>7, <1>8, <1>9, <1>10, <1>11 DEF FactsInv

\* Under NumbersOnce a bid is the entry of the stream of its number.
LEMMA BidIsEntry ==
    ASSUME StreamInv, SaleInv, NumbersOnce, NEW d, NEW n \in DOMAIN stream, stream[n] = d
    PROVE  d.seq = n /\ n \in 1..Len(stream) /\ \A m \in DOMAIN stream : stream[m].seq = d.seq => m = n
<1>1. stream[n].seq = n /\ \A m \in DOMAIN stream : stream[m].seq = m
  BY DEF SaleInv
<1>2. n \in 1..Len(stream)
  BY DEF StreamInv
<1> QED
  BY <1>1, <1>2

\* Nothing is accepted after a sale, so that settling leaves a sale alone.
LEMMA SettlesSale ==
    ASSUME StreamInv, FactsInv, SaleInv, NEW ds, Settles(ds), UNCHANGED <<engine, logVars, resume>>
    PROVE  SaleInv'
<1>1. ASSUME NumbersOnce, order' # 0
      PROVE  pg'.sold /\ pg'.leader = order'
  <2>1. order # 0 => pg.sold /\ pg.leader = order
    BY <1>1 DEF SaleInv
  <2>2. CASE order = 0
    BY <2>2, <1>1 DEF Settles
  <2>3. CASE order # 0 /\ \E i \in DOMAIN ds : Sells(ds[i])
    <3>1. PICK i \in DOMAIN ds : Sells(ds[i])
      BY <2>3
    <3>2. Len(ds) \in Nat \ {0} /\ DOMAIN ds = 1..Len(ds) /\ DOMAIN bids = 1..pg.seq
      BY RunSettled
    <3>3. PICK n \in DOMAIN stream : stream[n] = ds[i]
      BY DEF Settles
    <3>4. order \in 1..pg.seq /\ bids[order].kind = "sold" /\ bids[order].seq = order
      BY <2>3, <3>2 DEF FactsInv
    <3>5. PICK m \in DOMAIN stream : stream[m] = bids[order]
      BY <3>4, <3>2 DEF FactsInv
    <3>6. m = order /\ n = pg.seq + i
      BY <1>1, <3>3, <3>4, <3>5, BidIsEntry DEF Settles
    <3>7. m < n
      <4>1. pg.seq \in Nat /\ i \in 1..Len(ds)
        BY <3>1, <3>2 DEF FactsInv
      <4> QED
        BY <4>1, <3>2, <3>4, <3>6
    <3>8. stream[n].kind = "quiet"
      BY <1>1, <3>4, <3>5, <3>7 DEF SaleInv
    <3> QED
      BY <3>1, <3>3, <3>8 DEF Sells
  <2>4. CASE order # 0 /\ \A i \in DOMAIN ds : ~Sells(ds[i])
    <3>1. 1 \in DOMAIN ds
      BY RunSettled
    <3>2. ~Sells(ds[1])
      BY <2>4, <3>1
    <3>3. /\ ~ (\A i \in DOMAIN ds : ds[i].kind = "accepted")
          /\ ~ (ds[1].kind = "sold")
      BY <3>1, <3>2 DEF Sells
    <3>4. pg'.leader = pg.leader /\ pg'.sold = pg.sold /\ order' = order
      BY <3>3 DEF Settles
    <3> QED
      BY <2>1, <2>4, <3>4
  <2> QED
    BY <2>2, <2>3, <2>4
<1> QED
  BY <1>1 DEF SaleInv, NumbersOnce, SaleTaken, logVars

\* The rows of the decisions in ds may become SETTLED; the other rows stay.
RowsSettled(ds) ==
    /\ rows' \in [Ids -> Row]
    /\ \A i \in DOMAIN ds : rows'[Id(ds[i])] # NoRow
    /\ \A id \in Ids :
          \/ rows'[id] = rows[id]
          \/ /\ rows'[id].status = "SETTLED"
             /\ rows'[id].off \in DOMAIN klog
             /\ \E i \in DOMAIN ds : Id(ds[i]) = id /\ ds[i] = Message(rows'[id].off)

\* What is settled stays accounted for, and more is.
LEMMA SettlesAccounts ==
    ASSUME SettlementInv, NEW ds, Settles(ds), RowsSettled(ds), UNCHANGED logVars
    PROVE  /\ Attempted \subseteq Attempted' /\ Accounted \subseteq Accounted'
           /\ \A o \in DOMAIN klog : \A i \in DOMAIN ds : Message(o) = ds[i] => o \in Attempted'
<1>1. StreamInv /\ FactsInv
  BY DEF SettlementInv
<1>2. \A p : Message(p)' = Message(p)
  BY DEF logVars, Message
<1>3. \A id \in Ids : rows[id] # NoRow => rows'[id] # NoRow
  BY DEF RowsSettled, NoRow
<1>4. pg.seq \in Nat /\ Len(ds) \in Nat /\ pg'.seq = pg.seq + Len(ds) /\ pg'.epoch = pg.epoch
  <2>1. pg.seq \in Nat
    BY <1>1 DEF FactsInv
  <2>2. pg'.epoch = pg.epoch
    BY DEF Settles
  <2> QED
    BY <2>1, <2>2, <1>1, RunSettled
<1>5. \A o \in DOMAIN klog : Id(Message(o)) \in Ids /\ Message(o).seq \in Nat
  BY <1>1, MessageIs
<1>6. Attempted \subseteq Attempted'
  BY <1>2, <1>3, <1>5 DEF Attempted, logVars, Id
<1>7. Accounted \subseteq Accounted'
  BY <1>2, <1>4, <1>5, <1>6 DEF Accounted, logVars
<1>8. ASSUME NEW o \in DOMAIN klog, NEW i \in DOMAIN ds, Message(o) = ds[i]
      PROVE  o \in Attempted'
  BY <1>2, <1>8 DEF Attempted, logVars, RowsSettled, Id
<1> QED
  BY <1>6, <1>7, <1>8

\* The transaction settles ds, and the worker goes on after record last.
LEMMA SettleStep ==
    ASSUME SettlementInv, NEW ds, Settles(ds), RowsSettled(ds),
           UNCHANGED <<engine, logVars, committed, owner, resume, faults>>,
           NEW last \in DOMAIN klog, 1..last \subseteq Accounted',
           checkpoint' = [epoch |-> pg.epoch, seq |-> pg'.seq, next |-> last + 1],
           work' \in [Workers -> WorkerState], NEW w \in Workers,
           \A v \in Workers \ {w} : work'[v] = work[v],
           WorkerOK(work'[w], Len(klog), Accounted', Attempted')
    PROVE  SettlementInv'
<1>1. StreamInv /\ FactsInv /\ RowsInv /\ SaleInv /\ WorkersInv /\ OffsetsInv
  BY DEF SettlementInv
<1>2. /\ Attempted \subseteq Attempted' /\ Accounted \subseteq Accounted'
  BY SettlesAccounts
<1>3. FactsInv' /\ SaleInv'
  BY <1>1, SettlesFacts, SettlesSale
<1>4. /\ Len(ds) \in Nat \ {0} /\ DOMAIN ds = 1..Len(ds) /\ pg'.seq = pg.seq + Len(ds)
      /\ pg.seq + Len(ds) \in 1..MaxSeq
      /\ DOMAIN bids' = 1..(pg.seq + Len(ds)) /\ DOMAIN bids = 1..pg.seq
      /\ \A i \in 1..pg.seq : bids'[i] = bids[i]
      /\ \A i \in 1..Len(ds) : bids'[pg.seq + i] = ds[i]
      /\ \A i \in 1..(pg.seq + Len(ds)) : i \in 1..pg.seq \/ \E j \in 1..Len(ds) : i = pg.seq + j
  BY <1>1, RunSettled
<1>5. \A p : Message(p)' = Message(p)
  BY DEF logVars, Message
<1>6. /\ pg.seq \in Nat /\ pg.epoch \in 1..MaxEpoch /\ pg'.epoch = pg.epoch
  BY <1>1 DEF FactsInv, Settles
<1>7. StreamInv'
  <2>1. pg'.seq <= Len(stream)
    <3>1. Len(ds) \in DOMAIN ds
      BY <1>4
    <3>2. ds[Len(ds)].seq = pg'.seq /\ \E n \in DOMAIN stream : stream[n] = ds[Len(ds)]
      BY <3>1, <1>4 DEF Settles
    <3>3. PICK n \in DOMAIN stream : stream[n] = ds[Len(ds)]
      BY <3>2
    <3>4. pg'.seq <= n /\ n \in 1..Len(stream) /\ Len(stream) \in Nat
      BY <3>2, <3>3, <1>1 DEF StreamInv
    <3> QED
      BY <3>4, <1>4
  <2> QED
    BY <2>1, <1>1, <1>6 DEF StreamInv, logVars
<1>8. RowsInv'
  <2>1. ASSUME NEW id \in Ids
        PROVE  RowOK(id)'
    <3>1. RowOK(id)
      BY <1>1 DEF RowsInv
    <3>2. CASE rows'[id] = rows[id]
      <4>1. ASSUME id[2] \in DOMAIN bids
            PROVE  id[2] \in DOMAIN bids' /\ bids'[id[2]] = bids[id[2]]
        BY <4>1, <1>4, <1>6
      <4> QED
        BY <3>1, <3>2, <4>1, <1>5, <1>6 DEF RowOK, logVars, Id
    <3>3. CASE rows'[id] # rows[id]
      <4>1. /\ rows'[id].status = "SETTLED" /\ rows'[id].off \in DOMAIN klog
            /\ \E i \in DOMAIN ds : Id(ds[i]) = id /\ ds[i] = Message(rows'[id].off)
        BY <3>3 DEF RowsSettled
      <4>2. PICK i \in DOMAIN ds : Id(ds[i]) = id /\ ds[i] = Message(rows'[id].off)
        BY <4>1
      <4>3. id[2] = pg.seq + i
        BY <4>2 DEF Settles, Id
      <4>4. pg.seq + i \in DOMAIN bids' /\ bids'[pg.seq + i] = ds[i]
        BY <1>4, <1>6
      <4> QED
        BY <4>1, <4>2, <4>3, <4>4, <1>5 DEF RowOK, logVars, Id
    <3> QED
      BY <3>2, <3>3
  <2>2. ASSUME NEW i \in DOMAIN bids'
        PROVE  rows'[Id(bids'[i])] # NoRow
    <3>1. CASE i \in 1..pg.seq
      <4>1. Id(bids[i]) \in Ids /\ rows[Id(bids[i])] # NoRow /\ bids'[i] = bids[i]
        BY <3>1, <1>1, <1>4, BidIs DEF RowsInv
      <4> QED
        BY <4>1 DEF RowsSettled, NoRow
    <3>2. ASSUME NEW j \in 1..Len(ds), i = pg.seq + j
          PROVE  rows'[Id(bids'[i])] # NoRow
      BY <3>2, <1>4 DEF RowsSettled
    <3> QED
      BY <3>1, <3>2, <1>4
  <2> QED
    BY <2>1, <2>2 DEF RowsInv, RowsSettled, Id
<1>9. WorkersInv'
  <2>1. ASSUME NEW v \in Workers
        PROVE  WorkerOK(work'[v], Len(klog), Accounted', Attempted')
    <3>1. CASE v = w
      BY <3>1
    <3>2. CASE v # w
      BY <3>2, <1>1, <1>2, WorkerKept, Records DEF WorkersInv
    <3> QED
      BY <3>1, <3>2
  <2> QED
    BY <2>1 DEF WorkersInv, logVars
<1>10. OffsetsInv'
  <2>1. /\ committed' = committed /\ committed \in Nat /\ committed <= Len(klog)
        /\ 1..committed \subseteq Accounted'
    BY <1>1, <1>2 DEF OffsetsInv
  <2>2. Len(klog) \in Nat /\ last \in 1..Len(klog)
    BY <1>1, Records
  <2>3. /\ checkpoint' \in [epoch: 0..MaxEpoch, seq: 0..MaxSeq, next: Nat]
        /\ checkpoint'.seq = pg'.seq /\ checkpoint'.next = last + 1
    BY <2>2, <1>4, <1>6
  <2>4. checkpoint'.next <= Len(klog) + 1 /\ checkpoint'.next - 1 = last
    BY <2>2, <2>3
  <2> QED
    BY <2>1, <2>3, <2>4 DEF OffsetsInv, logVars
<1> QED
  BY <1>3, <1>7, <1>8, <1>9, <1>10 DEF SettlementInv

----------------------------------------------------------------------------
(* What a worker holds after each of its steps *)

\* The invariant of one worker, and the types its steps need.
LEMMA WorkerFacts ==
    ASSUME SettlementInv, NEW w \in Workers
    PROVE  /\ WorkerOK(work[w], Len(klog), Accounted, Attempted)
           /\ work[w] \in WorkerState /\ work \in [Workers -> WorkerState]
           /\ Len(klog) \in Nat /\ DOMAIN klog = 1..Len(klog)
           /\ committed \in Nat /\ committed <= Len(klog) /\ 1..committed \subseteq Accounted
           /\ owner \in Workers /\ faults \in 0..MaxFaults
           /\ Attempted \subseteq Accounted /\ Accounted \subseteq DOMAIN klog
BY Records DEF SettlementInv, WorkersInv, OffsetsInv, StreamInv, Accounted, Attempted

\* A worker's step changes what that worker holds.
LEMMA WorkSet ==
    ASSUME work \in [Workers -> WorkerState], NEW w \in Workers, NEW y \in WorkerState,
           work' = [work EXCEPT ![w] = y]
    PROVE  /\ work' \in [Workers -> WorkerState] /\ work'[w] = y
           /\ \A v \in Workers \ {w} : work'[v] = work[v]
OBVIOUS

\* A fault is one of those that are left.
LEMMA FaultIs ==
    ASSUME faults \in 0..MaxFaults, Fault
    PROVE  faults' \in 0..MaxFaults
BY SettlementAssumption DEF Fault

\* The attempts counted never exceed the limit.
LEMMA OneMoreIs ==
    ASSUME NEW n \in 0..MaxAttempts
    PROVE  OneMore(n) \in 0..MaxAttempts /\ OneMore(n) # 0
BY SettlementAssumption DEF OneMore

\* A worker moves in memory only: QuietStep for the steps that commit nothing.
LEMMA MoveStep ==
    ASSUME SettlementInv, UNCHANGED <<engine, logVars, pgVars, resume, committed>>,
           owner' \in Workers, faults' \in 0..MaxFaults,
           NEW w \in Workers, NEW y \in WorkerState, work' = [work EXCEPT ![w] = y],
           WorkerOK(y, Len(klog), Accounted, Attempted)
    PROVE  SettlementInv'
<1>1. /\ work' \in [Workers -> WorkerState] /\ work'[w] = y
      /\ \A v \in Workers \ {w} : work'[v] = work[v]
  BY WorkerFacts, WorkSet
<1>2. committed' \in Nat /\ committed' <= Len(klog) /\ 1..committed' \subseteq Accounted
  BY WorkerFacts
<1> QED
  BY <1>1, <1>2, QuietStep

\* The record of a pass, its decision and its row.
LEMMA CurFacts ==
    ASSUME SettlementInv, NEW w \in Workers, work[w].todo # {}
    PROVE  /\ Cur(w) = Lowest(work[w].todo) /\ Cur(w) \in work[w].todo /\ Cur(w) \in DOMAIN klog
           /\ Cur(w) \in Nat \ {0}
           /\ \A p \in work[w].todo : Cur(w) <= p
           /\ \A p \in 1..(Cur(w) - 1) : p \in Accounted
           /\ Message(Cur(w)) \in Decision /\ Id(Message(Cur(w))) \in Ids
           /\ RowOf(w) \in Row /\ RowOf(w) = rows[Id(Message(Cur(w)))]
           /\ RowOf(w) # NoRow <=> Cur(w) \in Attempted
           /\ RowOK(Id(Message(Cur(w))))
<1>1. /\ WorkerOK(work[w], Len(klog), Accounted, Attempted)
      /\ Len(klog) \in Nat /\ DOMAIN klog = 1..Len(klog)
  BY WorkerFacts
<1>2. /\ Cur(w) = Lowest(work[w].todo) /\ Cur(w) \in work[w].todo /\ Cur(w) \in 1..Len(klog)
      /\ \A p \in work[w].todo : Cur(w) <= p
      /\ \A p \in 1..(Cur(w) - 1) : p \in work[w].unc \cup Accounted /\ p \notin work[w].todo
  BY <1>1, CurIs DEF Cur
<1>3. work[w].pc # "idle" => \A p \in 1..(Cur(w) - 1) : p \in Accounted
  BY <1>1, <1>2 DEF WorkerOK
<1>4. work[w].pc = "idle" => FALSE
  BY <1>1 DEF WorkerOK
<1>5. Message(Cur(w)) \in Decision /\ Id(Message(Cur(w))) \in Ids
  BY <1>1, <1>2, MessageIs DEF SettlementInv
<1>6. rows \in [Ids -> Row] /\ RowOK(Id(Message(Cur(w))))
  BY <1>5 DEF SettlementInv, RowsInv
<1> QED
  BY <1>1, <1>2, <1>3, <1>4, <1>5, <1>6 DEF RowOf, Attempted

\* A decision handled with success is accounted for.
LEMMA HandledOK ==
    ASSUME NEW w \in Workers, NEW L \in Nat, NEW A, NEW R, WorkerOK(work[w], L, A, R),
           work[w].todo # {}, Cur(w) \in A
    PROVE  Handled(w) \in WorkerState /\ WorkerOK(Handled(w), L, A, R)
<1> DEFINE x == work[w]
           c == Lowest(x.todo)
<1>1. /\ x \in WorkerState /\ x.pc # "idle" /\ c \in A /\ Cur(w) = c
  BY DEF WorkerOK, Cur
<1>2. c \in x.todo /\ c \in Nat /\ \A p \in x.todo : c <= p
  <2>1. c \in 1..L
    BY CurIs
  <2> QED
    BY <2>1, CurIs
<1>3. 0 \in 0..MaxAttempts
  BY SettlementAssumption
<1>4. x.todo \subseteq Nat
  BY <1>1 DEF WorkerState
<1> HIDE DEF c
<1>5. CASE x.retrying
  <2> DEFINE y == [x EXCEPT !.pc = "one", !.now = {c}, !.attempts = 0]
  <2>1. Handled(w) = y
    BY <1>1, <1>5 DEF Handled
  <2>2. /\ y \in WorkerState /\ y.pc = "one" /\ y.next = x.next /\ y.unc = x.unc /\ y.done = x.done
        /\ y.todo = x.todo /\ y.now = {c}
    BY <1>1, <1>2, <1>3 DEF WorkerState
  <2>3. {c} \subseteq x.todo \cap A /\ \A p \in x.todo : \A n \in {c} : p \in {c} \/ n < p
    BY <1>1, <1>2, <1>4
  <2> HIDE DEF y
  <2> QED
    BY <1>1, <2>1, <2>2, <2>3, CommittingOK
<1>6. CASE ~x.retrying
  <2> DEFINE y == [x EXCEPT !.pc = "scan", !.done = x.done \cup {c}, !.todo = x.todo \ {c}, !.attempts = 0]
  <2>1. Handled(w) = y
    BY <1>1, <1>6 DEF Handled
  <2>2. /\ y \in WorkerState /\ y.pc = "scan" /\ y.next = x.next /\ y.unc = x.unc
        /\ y.done = x.done \cup {c} /\ y.todo = x.todo \ {c} /\ y.now = x.now
    BY <1>1, <1>2, <1>3 DEF WorkerState
  <2> HIDE DEF y
  <2> QED
    BY <1>1, <2>1, <2>2, CollectOK DEF c
<1> QED
  BY <1>5, <1>6

\* A decision that failed is not given up unless it has a row.
LEMMA FailedOK ==
    ASSUME NEW w \in Workers, NEW L \in Nat, NEW A, NEW R, WorkerOK(work[w], L, A, R),
           work[w].todo # {}, NEW kind \in {"plain", "transient", "permanent"},
           kind = "permanent" => Cur(w) \in R
    PROVE  Failed(w, kind) \in WorkerState /\ WorkerOK(Failed(w, kind), L, A, R)
<1> DEFINE x == work[w]
           y == Failed(w, kind)
<1>1. /\ x \in WorkerState /\ x.pc # "idle" /\ 0 \in 0..MaxAttempts /\ Cur(w) = Lowest(x.todo)
  BY SettlementAssumption DEF WorkerOK, Cur
<1>2. /\ y \in WorkerState /\ y.pc \in {"flush", "retry"} /\ y.next = x.next /\ y.unc = x.unc
      /\ y.todo = x.todo /\ y.done = x.done /\ y.now = x.now
      /\ y.pc = "retry" => y.err = kind
  BY <1>1 DEF Failed, WorkerState
<1> HIDE DEF y
<1>3. WorkerOK(y, L, A, R)
  BY <1>1, <1>2, MovesOK
<1> QED
  BY <1>2, <1>3 DEF y

\* A worker fetches again what it has not committed, or what comes next.
LEMMA FetchInv ==
    ASSUME SettlementInv, NEW w \in Workers, FetchAgain(w) \/ FetchNew(w)
    PROVE  SettlementInv'
<1> DEFINE x == work[w]
<1>1. /\ WorkerOK(x, Len(klog), Accounted, Attempted) /\ x \in WorkerState /\ Len(klog) \in Nat
      /\ owner \in Workers /\ faults \in 0..MaxFaults /\ work \in [Workers -> WorkerState]
  BY WorkerFacts
<1>2. CASE FetchAgain(w)
  <2> DEFINE y == [x EXCEPT !.pc = "scan", !.todo = x.unc]
  <2>1. work' = [work EXCEPT ![w] = y]
    BY <1>1, <1>2 DEF FetchAgain
  <2>2. /\ y \in WorkerState /\ y.pc = "scan" /\ y.next = x.next /\ y.unc = x.unc /\ y.todo = x.unc
        /\ y.done = x.done /\ y.now = x.now
    BY <1>1 DEF WorkerState
  <2> HIDE DEF y
  <2>3. WorkerOK(y, Len(klog), Accounted, Attempted)
    BY <1>1, <1>2, <2>2, AgainOK DEF FetchAgain
  <2> QED
    BY <1>1, <1>2, <2>1, <2>2, <2>3, MoveStep DEF FetchAgain
<1>3. CASE FetchNew(w)
  <2>1. PICK hi \in (x.next + 1)..Len(klog) :
           work' = [work EXCEPT ![w].pc = "scan", ![w].next = hi, ![w].unc = (x.next + 1)..hi,
                                ![w].todo = (x.next + 1)..hi]
    BY <1>3 DEF FetchNew
  <2> DEFINE new == (x.next + 1)..hi
             y == [x EXCEPT !.pc = "scan", !.next = hi, !.unc = new, !.todo = new]
  <2>2. work' = [work EXCEPT ![w] = y]
    BY <1>1, <2>1
  <2>3. x.next \in Nat /\ hi \in Nat /\ new \in SUBSET Nat
    BY <1>1 DEF WorkerState
  <2>4. /\ y \in WorkerState /\ y.pc = "scan" /\ y.next = hi /\ y.unc = new /\ y.todo = new
        /\ y.done = x.done /\ y.now = x.now
    BY <1>1, <2>3 DEF WorkerState
  <2> HIDE DEF y
  <2>5. WorkerOK(y, Len(klog), Accounted, Attempted)
    <3>1. x.pc = "idle" /\ x.unc = {} /\ hi \in (x.next + 1)..Len(klog)
      BY <1>3, <2>1 DEF FetchNew
    <3>2. y.unc = (x.next + 1)..hi /\ y.todo = y.unc
      BY <2>4
    <3> QED
      BY <1>1, <2>4, <3>1, <3>2, NewOK
  <2> QED
    BY <1>1, <1>3, <2>2, <2>4, <2>5, MoveStep DEF FetchNew
<1> QED
  BY <1>2, <1>3

\* The error that ends a pass leaves the worker with what it has not committed.
LEMMA AbandonInv ==
    ASSUME SettlementInv, NEW w \in Workers, AbandonPass(w),
           UNCHANGED <<engine, logVars, pgVars, resume, committed, owner>>, faults' \in 0..MaxFaults
    PROVE  SettlementInv'
<1> DEFINE x == work[w]
           y == [Fresh(x.next) EXCEPT !.unc = x.unc]
<1>1. /\ WorkerOK(x, Len(klog), Accounted, Attempted) /\ x \in WorkerState /\ Len(klog) \in Nat
      /\ owner \in Workers
  BY WorkerFacts
<1>2. work' = [work EXCEPT ![w] = y]
  BY WorkerFacts DEF AbandonPass
<1>3. y = [Fresh(x.next) EXCEPT !.unc = x.unc \ {}]
  OBVIOUS
<1> HIDE DEF y
<1>4. WorkerOK(y, Len(klog), Accounted, Attempted)
  BY <1>1, <1>3, EndOK
<1>5. y \in WorkerState
  BY <1>4 DEF WorkerOK
<1> QED
  BY <1>1, <1>2, <1>4, <1>5, MoveStep

\* A worker goes on to the next part of a pass, with the same records.
LEMMA SamePassInv ==
    ASSUME SettlementInv, NEW w \in Workers, NEW y \in WorkerState, work' = [work EXCEPT ![w] = y],
           UNCHANGED <<engine, logVars, pgVars, resume, committed, owner>>, faults' \in 0..MaxFaults,
           work[w].pc # "idle", y.pc # "idle",
           y.next = work[w].next, y.unc = work[w].unc, y.todo = work[w].todo,
           y.done = work[w].done, y.now = work[w].now,
           y.todo # {} /\ (y.pc = "tx" \/ (y.pc = "retry" /\ y.err = "permanent"))
               => Cur(w) \in Attempted
    PROVE  SettlementInv'
<1>1. WorkerOK(work[w], Len(klog), Accounted, Attempted) /\ Len(klog) \in Nat /\ owner \in Workers
  BY WorkerFacts
<1>2. WorkerOK(y, Len(klog), Accounted, Attempted)
  BY <1>1, MovesOK DEF Cur
<1> QED
  BY <1>1, <1>2, MoveStep

\* The steps between the transactions of the single path.
LEMMA SinglePassInv ==
    ASSUME SettlementInv, NEW w \in Workers,
           \/ AlreadyTerminal(w) \/ DuplicateWaits(w) \/ RecordFails(w) \/ SettleFails(w)
           \/ RetryLater(w) \/ RetryNow(w)
    PROVE  SettlementInv'
<1>1. /\ WorkerOK(work[w], Len(klog), Accounted, Attempted) /\ work[w] \in WorkerState
      /\ Len(klog) \in Nat /\ owner \in Workers /\ faults \in 0..MaxFaults
      /\ Attempted \subseteq Accounted
  BY WorkerFacts
<1>2. CASE AlreadyTerminal(w)
  <2>1. work[w].todo # {} /\ RowOf(w) # NoRow
    BY <1>2 DEF AlreadyTerminal, Single, Pending, SameDecision
  <2>2. Cur(w) \in Accounted
    BY <1>1, <2>1, CurFacts
  <2>3. Handled(w) \in WorkerState /\ WorkerOK(Handled(w), Len(klog), Accounted, Attempted)
    BY <1>1, <2>1, <2>2, HandledOK
  <2> QED
    BY <1>1, <1>2, <2>3, MoveStep DEF AlreadyTerminal
<1>3. ASSUME work[w].todo # {}, NEW kind \in {"plain", "transient"},
             work' = [work EXCEPT ![w] = Failed(w, kind)],
             UNCHANGED <<engine, logVars, pgVars, resume, committed, owner>>, faults' \in 0..MaxFaults
      PROVE  SettlementInv'
  <2>1. Failed(w, kind) \in WorkerState /\ WorkerOK(Failed(w, kind), Len(klog), Accounted, Attempted)
    BY <1>1, <1>3, FailedOK
  <2> QED
    BY <1>1, <1>3, <2>1, MoveStep
<1>4. CASE DuplicateWaits(w)
  BY <1>1, <1>3, <1>4 DEF DuplicateWaits, Single, Pending
<1>5. CASE RecordFails(w)
  BY <1>1, <1>3, <1>5, FaultIs DEF RecordFails, Single, Pending
<1>6. CASE SettleFails(w)
  BY <1>1, <1>3, <1>6, FaultIs DEF SettleFails, Pending
<1>7. CASE RetryLater(w)
  <2> DEFINE y == [work[w] EXCEPT !.pc = "flush", !.retrying = FALSE, !.err = "none"]
  <2>1. work' = [work EXCEPT ![w] = y]
    BY <1>7, WorkerFacts DEF RetryLater
  <2>2. /\ y \in WorkerState /\ y.pc = "flush" /\ y.next = work[w].next /\ y.unc = work[w].unc
        /\ y.todo = work[w].todo /\ y.done = work[w].done /\ y.now = work[w].now
    BY <1>1 DEF WorkerState
  <2> HIDE DEF y
  <2> QED
    BY <1>1, <1>7, <2>1, <2>2, SamePassInv DEF RetryLater, Pending
<1>8. CASE RetryNow(w)
  <2> DEFINE y == [work[w] EXCEPT !.pc = "single", !.retrying = TRUE, !.err = "none"]
  <2>1. work' = [work EXCEPT ![w] = y]
    BY <1>8, WorkerFacts DEF RetryNow
  <2>2. /\ y \in WorkerState /\ y.pc = "single" /\ y.next = work[w].next /\ y.unc = work[w].unc
        /\ y.todo = work[w].todo /\ y.done = work[w].done /\ y.now = work[w].now
    BY <1>1 DEF WorkerState
  <2> HIDE DEF y
  <2> QED
    BY <1>1, <1>8, <2>1, <2>2, SamePassInv DEF RetryNow, Pending
<1> QED
  BY <1>2, <1>4, <1>5, <1>6, <1>7, <1>8

\* A batch is the first part of the todo set, of decisions that follow one another.
LEMMA BatchIs ==
    ASSUME SettlementInv, NEW w \in Workers, HasBatch(w)
    PROVE  /\ work[w].pc = "scan" /\ work[w].todo # {}
           /\ BatchLen(w) \in Nat /\ BatchLen(w) >= 2
           /\ Message(Cur(w)).kind \in {"accepted", "quiet"}
           /\ \A i \in 0..(BatchLen(w) - 1) :
                 /\ Cur(w) + i \in work[w].todo
                 /\ Cur(w) + i \in DOMAIN klog
                 /\ Message(Cur(w) + i) = [Message(Cur(w)) EXCEPT !.seq = @ + i]
           /\ BatchOf(w) \subseteq work[w].todo
           /\ \A p \in work[w].todo : \A n \in BatchOf(w) : p \in BatchOf(w) \/ n < p
           /\ \A n \in BatchOf(w) : n - Cur(w) \in 0..(BatchLen(w) - 1) /\ n = Cur(w) + (n - Cur(w))
<1> DEFINE T == work[w].todo
           N == Cardinality(T)
           K == {0} \cup {k \in 1..N : Contiguous(w, k)}
<1>1. /\ WorkerOK(work[w], Len(klog), Accounted, Attempted) /\ work[w] \in WorkerState
      /\ Len(klog) \in Nat /\ DOMAIN klog = 1..Len(klog)
  BY WorkerFacts
<1>2. work[w].pc = "scan" /\ T # {} /\ BatchLen(w) >= 2
  BY DEF HasBatch, Pending
<1>3. Cur(w) \in T /\ Cur(w) \in Nat \ {0} /\ \A p \in T : Cur(w) <= p
  BY <1>2, CurFacts
<1>4. T \subseteq 1..Len(klog)
  BY <1>1 DEF WorkerOK
<1>5. N \in Nat
  <2>1. IsFiniteSet(1..Len(klog))
    BY <1>1, FS_Interval
  <2>2. IsFiniteSet(T)
    BY <1>4, <2>1, FS_Subset
  <2> QED
    BY <2>2, FS_CardinalityType
<1> HIDE DEF N
<1>6. K \subseteq 0..N /\ K # {}
  BY <1>5
<1>7. BatchLen(w) = Highest(K)
  BY DEF BatchLen, N
<1>8. BatchLen(w) \in K
  <2> HIDE DEF K
  <2> QED
    BY <1>5, <1>6, <1>7, HighestIs
<1>9. BatchLen(w) \in Nat /\ Contiguous(w, BatchLen(w))
  BY <1>2, <1>5, <1>8
<1>10. /\ Message(Cur(w)).kind \in {"accepted", "quiet"}
       /\ \A i \in 0..(BatchLen(w) - 1) :
             /\ Cur(w) + i \in T
             /\ Message(Cur(w) + i) = [Message(Cur(w)) EXCEPT !.seq = @ + i]
  BY <1>9 DEF Contiguous
<1> DEFINE k == BatchLen(w)
           c == Cur(w)
<1>11. BatchOf(w) = c..(c + k - 1)
  BY DEF BatchOf
<1> HIDE DEF k, c, T
<1>12. ASSUME NEW n \in BatchOf(w)
       PROVE  n - c \in 0..(k - 1) /\ n = c + (n - c) /\ n \in T
  <2>1. c \in Nat /\ k \in Nat
    BY <1>3, <1>9 DEF c, k
  <2>2. n - c \in 0..(k - 1) /\ n = c + (n - c)
    BY <2>1, <1>11
  <2> QED
    BY <2>2, <1>10 DEF c, k
<1>13. ASSUME NEW p \in T, NEW n \in BatchOf(w), p \notin BatchOf(w)
       PROVE  n < p
  <2>1. c \in Nat /\ k \in Nat /\ p \in Nat /\ c <= p
    BY <1>1, <1>3, <1>4, <1>9 DEF c, k
  <2> QED
    BY <2>1, <1>11, <1>13
<1> QED
  BY <1>1, <1>2, <1>4, <1>9, <1>10, <1>12, <1>13 DEF c, k, T

\* Going to commit the records of S, which are accounted for.
LEMMA ToCommitOK ==
    ASSUME NEW w \in Workers, NEW L \in Nat, NEW A, NEW R, WorkerOK(work[w], L, A, R),
           work[w].pc # "idle", NEW pc \in {"one", "batch"},
           NEW S, S \subseteq work[w].todo \cap A,
           \A p \in work[w].todo : \A n \in S : p \in S \/ n < p,
           NEW y, y = [work[w] EXCEPT !.pc = pc, !.now = S]
    PROVE  y \in WorkerState /\ WorkerOK(y, L, A, R)
<1>1. work[w] \in WorkerState /\ work[w].todo \subseteq Nat
  BY DEF WorkerOK, WorkerState
<1>2. /\ y \in WorkerState /\ y.pc = pc /\ y.next = work[w].next /\ y.unc = work[w].unc
      /\ y.todo = work[w].todo /\ y.done = work[w].done /\ y.now = S
  BY <1>1 DEF WorkerState
<1> QED
  BY <1>2, CommittingOK

\* The steps of a batch that settle nothing.
LEMMA BatchPassInv ==
    ASSUME SettlementInv, NEW w \in Workers,
           SkipBatch(w) \/ RejectedBatchStuck(w) \/ BatchFails(w)
    PROVE  SettlementInv'
<1>1. /\ WorkerOK(work[w], Len(klog), Accounted, Attempted) /\ work[w] \in WorkerState
      /\ Len(klog) \in Nat /\ owner \in Workers /\ faults \in 0..MaxFaults
      /\ work \in [Workers -> WorkerState]
  BY WorkerFacts
<1>2. CASE SkipBatch(w)
  <2>1. HasBatch(w) /\ BatchIsOld(w)
    BY <1>2 DEF SkipBatch
  <2> DEFINE y == [work[w] EXCEPT !.pc = "batch", !.now = BatchOf(w)]
             k == BatchLen(w)
  <2>2. work' = [work EXCEPT ![w] = y]
    BY <1>1, <1>2 DEF SkipBatch
  <2>3. k \in Nat /\ k >= 2
    BY <2>1, BatchIs
  <2>4. ASSUME NEW n \in BatchOf(w)
        PROVE  n \in Accounted
    <3> DEFINE i == n - Cur(w)
    <3>1. i \in 0..(k - 1) /\ n = Cur(w) + i /\ k - 1 \in 0..(k - 1)
      BY <2>1, <2>3, BatchIs
    <3> HIDE DEF i
    <3>2. /\ Message(n) = [Message(Cur(w)) EXCEPT !.seq = @ + i] /\ n \in DOMAIN klog
          /\ Message(Cur(w) + (k - 1)) = [Message(Cur(w)) EXCEPT !.seq = @ + (k - 1)]
      BY <2>1, <3>1, BatchIs
    <3>3. Message(Cur(w)) \in Decision
      BY <2>1, BatchIs, CurFacts
    <3>4. /\ Message(n).seq = Message(Cur(w)).seq + i
          /\ Message(n).epoch = Message(Cur(w)).epoch
          /\ Message(Cur(w) + (k - 1)).seq = Message(Cur(w)).seq + (k - 1)
          /\ Message(Cur(w)).seq \in Nat
      BY <3>2, <3>3 DEF Decision
    <3>5. Cur(w) + (k - 1) = Cur(w) + k - 1
      BY <2>1, <2>3, BatchIs, CurFacts
    <3>6. /\ Message(Cur(w) + (k - 1)).seq <= pg.seq /\ pg.seq \in Nat
          /\ Message(Cur(w)).epoch < pg.epoch
      BY <2>1, <3>5 DEF BatchIsOld, FirstOf, LastOf, SettlementInv, FactsInv
    <3>7. Message(n).seq <= pg.seq
      BY <2>3, <3>1, <3>4, <3>6
    <3> QED
      BY <3>2, <3>4, <3>6, <3>7 DEF Accounted
  <2>5. /\ BatchOf(w) \subseteq work[w].todo \cap Accounted
        /\ \A p \in work[w].todo : \A n \in BatchOf(w) : p \in BatchOf(w) \/ n < p
        /\ work[w].pc # "idle"
    BY <2>1, <2>4, BatchIs
  <2>6. y \in WorkerState /\ WorkerOK(y, Len(klog), Accounted, Attempted)
    BY <1>1, <2>5, ToCommitOK
  <2> HIDE DEF y
  <2> QED
    BY <1>1, <1>2, <2>2, <2>6, MoveStep DEF SkipBatch
<1>3. CASE RejectedBatchStuck(w)
  BY <1>1, <1>3, AbandonInv DEF RejectedBatchStuck
<1>4. CASE BatchFails(w)
  <2>1. faults' \in 0..MaxFaults /\ UNCHANGED <<engine, logVars, pgVars, resume, committed, owner>>
    BY <1>1, <1>4, FaultIs DEF BatchFails
  <2>2. CASE AbandonPass(w)
    BY <2>1, <2>2, AbandonInv
  <2>3. CASE work' = [work EXCEPT ![w].pc = "single"]
    <3> DEFINE y == [work[w] EXCEPT !.pc = "single"]
    <3>1. work' = [work EXCEPT ![w] = y]
      BY <1>1, <2>3
    <3>2. /\ y \in WorkerState /\ y.pc = "single" /\ y.next = work[w].next /\ y.unc = work[w].unc
          /\ y.todo = work[w].todo /\ y.done = work[w].done /\ y.now = work[w].now
      BY <1>1 DEF WorkerState
    <3>3. work[w].pc = "scan"
      BY <1>4 DEF BatchFails, HasBatch, Pending
    <3> HIDE DEF y
    <3> QED
      BY <2>1, <3>1, <3>2, <3>3, SamePassInv
  <2> QED
    BY <1>4, <2>2, <2>3 DEF BatchFails
<1> QED
  BY <1>2, <1>3, <1>4

\* The offset after a commit is right.
LEMMA CommittingIs ==
    ASSUME SettlementInv, NEW w \in Workers, work[w].pc # "idle",
           NEW S \in {work[w].done, work[w].now}, Committing(w, S)
    PROVE  committed' \in Nat /\ committed' <= Len(klog) /\ 1..committed' \subseteq Accounted
<1>1. /\ WorkerOK(work[w], Len(klog), Accounted, Attempted) /\ Len(klog) \in Nat
      /\ committed \in Nat /\ committed <= Len(klog) /\ 1..committed \subseteq Accounted
  BY WorkerFacts
<1>2. CASE S = {}
  BY <1>1, <1>2 DEF Committing
<1>3. CASE S # {}
  <2>1. Highest(S) \in 1..Len(klog) /\ 1..Highest(S) \subseteq Accounted
    BY <1>1, <1>3, OffsetOK
  <2>2. committed' = Highest(S)
    BY <1>3 DEF Committing
  <2> QED
    BY <1>1, <2>1, <2>2
<1> QED
  BY <1>2, <1>3

\* A commit that succeeds.
LEMMA CommitInv ==
    ASSUME SettlementInv, NEW w \in Workers, CommitOne(w) \/ CommitBatch(w) \/ Flush(w)
    PROVE  SettlementInv'
<1> DEFINE x == work[w]
<1>1. /\ WorkerOK(x, Len(klog), Accounted, Attempted) /\ x \in WorkerState
      /\ Len(klog) \in Nat /\ owner \in Workers /\ faults \in 0..MaxFaults
      /\ work \in [Workers -> WorkerState]
  BY WorkerFacts
<1>2. ASSUME x.pc # "idle", NEW S \in {x.done, x.now}, Committing(w, S),
             UNCHANGED <<engine, logVars, owner, pgVars, resume, faults>>,
             NEW y, work' = [work EXCEPT ![w] = y], WorkerOK(y, Len(klog), Accounted, Attempted)
      PROVE  SettlementInv'
  <2>1. y \in WorkerState
    BY <1>2 DEF WorkerOK
  <2>2. /\ work' \in [Workers -> WorkerState] /\ work'[w] = y
        /\ \A v \in Workers \ {w} : work'[v] = work[v]
    BY <1>1, <1>2, <2>1, WorkSet
  <2>3. committed' \in Nat /\ committed' <= Len(klog) /\ 1..committed' \subseteq Accounted
    BY <1>2, CommittingIs
  <2> QED
    BY <1>1, <1>2, <2>2, <2>3, QuietStep
<1>3. x.todo \subseteq x.unc
      /\ x.done \subseteq Accounted /\ x.now \subseteq Accounted
      /\ \A p \in x.todo : p \notin x.done
  <2>1. \A p \in x.todo : \A d \in x.done : d < p
    BY <1>1 DEF WorkerOK
  <2>2. x.todo \subseteq Nat
    BY <1>1 DEF WorkerState
  <2> QED
    BY <1>1, <2>1, <2>2 DEF WorkerOK
<1>4. CASE CommitOne(w)
  <2> DEFINE y == [x EXCEPT !.pc = "scan", !.retrying = FALSE, !.unc = x.unc \ x.now,
                            !.todo = x.todo \ x.now, !.now = {}]
  <2>1. x.pc # "idle" /\ Committing(w, x.now) /\ work' = [work EXCEPT ![w] = y]
    BY <1>1, <1>4 DEF CommitOne
  <2>2. /\ y \in WorkerState /\ y.pc = "scan" /\ y.next = x.next /\ y.unc = x.unc \ x.now
        /\ y.todo = x.todo \ x.now /\ y.done = x.done /\ y.now = {}
    BY <1>1 DEF WorkerState
  <2> HIDE DEF y
  <2>3. y.todo \subseteq y.unc
    BY <1>3, <2>2
  <2>4. WorkerOK(y, Len(klog), Accounted, Attempted)
    BY <1>1, <2>1, <2>2, <2>3, CommittedOK
  <2> QED
    BY <1>2, <1>4, <2>1, <2>4 DEF CommitOne
<1>5. CASE CommitBatch(w)
  <2>1. CASE x.done # {}
    <3> DEFINE y == [x EXCEPT !.unc = x.unc \ x.done, !.done = {}]
    <3>1. x.pc = "batch" /\ Committing(w, x.done) /\ work' = [work EXCEPT ![w] = y]
      BY <1>1, <1>5, <2>1 DEF CommitBatch
    <3>2. /\ y \in WorkerState /\ y.pc = x.pc /\ y.next = x.next /\ y.unc = x.unc \ x.done
          /\ y.todo = x.todo /\ y.done = {} /\ y.now = x.now
      BY <1>1 DEF WorkerState
    <3> HIDE DEF y
    <3>3. WorkerOK(y, Len(klog), Accounted, Attempted)
      BY <1>1, <1>3, <3>1, <3>2, CommittedOK
    <3> QED
      BY <1>2, <1>5, <3>1, <3>3 DEF CommitBatch
  <2>2. CASE x.done = {}
    <3> DEFINE y == [x EXCEPT !.pc = "scan", !.unc = x.unc \ x.now, !.todo = x.todo \ x.now, !.now = {}]
    <3>1. x.pc = "batch" /\ Committing(w, x.now) /\ work' = [work EXCEPT ![w] = y]
      BY <1>1, <1>5, <2>2 DEF CommitBatch
    <3>2. /\ y \in WorkerState /\ y.pc = "scan" /\ y.next = x.next /\ y.unc = x.unc \ x.now
          /\ y.todo = x.todo \ x.now /\ y.done = {} /\ y.now = {}
      BY <1>1, <2>2 DEF WorkerState
    <3> HIDE DEF y
    <3>3. WorkerOK(y, Len(klog), Accounted, Attempted)
      BY <1>1, <1>3, <3>1, <3>2, CommittedOK
    <3> QED
      BY <1>2, <1>5, <3>1, <3>3 DEF CommitBatch
  <2> QED
    BY <2>1, <2>2
<1>6. CASE Flush(w)
  <2> DEFINE y == [Fresh(x.next) EXCEPT !.unc = x.unc \ x.done]
  <2>1. x.pc # "idle" /\ Committing(w, x.done) /\ work' = [work EXCEPT ![w] = y]
    BY <1>1, <1>6 DEF Flush
  <2>2. WorkerOK(y, Len(klog), Accounted, Attempted)
    BY <1>1, <1>3, EndOK
  <2> HIDE DEF y
  <2> QED
    BY <1>2, <1>6, <2>1, <2>2 DEF Flush
<1> QED
  BY <1>4, <1>5, <1>6

\* Commits that fail, crashes and rebalances.
LEMMA BreakInv ==
    ASSUME SettlementInv, NEW w \in Workers, CommitFails(w) \/ WorkerCrash(w) \/ Rebalance(w)
    PROVE  SettlementInv'
<1> DEFINE x == work[w]
<1>1. /\ WorkerOK(x, Len(klog), Accounted, Attempted) /\ x \in WorkerState
      /\ Len(klog) \in Nat /\ owner \in Workers /\ faults \in 0..MaxFaults
      /\ work \in [Workers -> WorkerState]
      /\ committed \in Nat /\ committed <= Len(klog) /\ 1..committed \subseteq Accounted
  BY WorkerFacts
<1>2. CASE CommitFails(w)
  <2>1. faults' \in 0..MaxFaults /\ UNCHANGED <<engine, logVars, pgVars, resume, committed, owner>>
    BY <1>1, <1>2, FaultIs DEF CommitFails
  <2>2. CASE x.pc = "one"
    <3> DEFINE y == [x EXCEPT !.pc = "flush", !.retrying = FALSE]
    <3>1. work' = [work EXCEPT ![w] = y]
      BY <1>1, <1>2, <2>2 DEF CommitFails
    <3>2. /\ y \in WorkerState /\ y.pc = "flush" /\ y.next = x.next /\ y.unc = x.unc
          /\ y.todo = x.todo /\ y.done = x.done /\ y.now = x.now
      BY <1>1 DEF WorkerState
    <3> HIDE DEF y
    <3> QED
      BY <2>1, <2>2, <3>1, <3>2, SamePassInv
  <2>3. CASE x.pc # "one"
    BY <1>2, <2>1, <2>3, AbandonInv DEF CommitFails
  <2> QED
    BY <2>2, <2>3
<1>3. CASE WorkerCrash(w)
  <2>1. WorkerOK(Fresh(committed), Len(klog), Accounted, Attempted)
    BY <1>1, FreshOK
  <2>2. Fresh(committed) \in WorkerState
    BY <2>1 DEF WorkerOK
  <2>3. faults' \in 0..MaxFaults
    BY <1>1, <1>3, FaultIs DEF WorkerCrash
  <2> QED
    BY <1>1, <1>3, <2>1, <2>2, <2>3, MoveStep DEF WorkerCrash
<1>4. CASE Rebalance(w)
  <2> DEFINE y == [x EXCEPT !.next = committed]
  <2>1. work' = [work EXCEPT ![w] = y] /\ owner' = w
    BY <1>1, <1>4 DEF Rebalance
  <2>2. y \in WorkerState
    BY <1>1 DEF WorkerState
  <2>3. WorkerOK(y, Len(klog), Accounted, Attempted)
    BY <1>1, <2>2, SeekOK
  <2>4. faults' \in 0..MaxFaults
    BY <1>1, <1>4, FaultIs DEF Rebalance
  <2> HIDE DEF y
  <2> QED
    BY <1>1, <1>4, <2>1, <2>2, <2>3, <2>4, MoveStep DEF Rebalance
<1> QED
  BY <1>2, <1>3, <1>4

----------------------------------------------------------------------------
(* The transactions of the single path that settle nothing *)

\* A row that moves is never taken away: what was accounted for stays so.
LEMMA RowAccounts ==
    ASSUME SettlementInv, UNCHANGED logVars, pg'.seq = pg.seq, pg'.epoch = pg.epoch,
           NEW w \in Workers, work[w].todo # {}, NEW row,
           \/ rows' = rows
           \/ SetRow(w, row) /\ RowMove(Id(Message(Cur(w))), Cur(w), row)
    PROVE  /\ Attempted \subseteq Attempted' /\ Accounted \subseteq Accounted'
           /\ Attempted' \subseteq Accounted'
           /\ WorkerOK(work[w], Len(klog), Accounted', Attempted')
           /\ SetRow(w, row) /\ row # NoRow => Cur(w) \in Attempted'
<1> DEFINE o == Cur(w)
           id == Id(Message(o))
<1>1. /\ WorkerOK(work[w], Len(klog), Accounted, Attempted) /\ Len(klog) \in Nat
      /\ o \in DOMAIN klog /\ id \in Ids /\ rows \in [Ids -> Row] /\ StreamInv
  BY WorkerFacts, CurFacts DEF SettlementInv, RowsInv
<1>2. \A p : Message(p)' = Message(p)
  BY DEF logVars, Message
<1>3. \A i \in Ids : rows[i] # NoRow => rows'[i] # NoRow
  BY <1>1 DEF SetRow, RowMove, NoRow
<1>4. \A p \in DOMAIN klog : Id(Message(p)) \in Ids
  BY <1>1, MessageIs
<1>5. Attempted \subseteq Attempted' /\ Accounted \subseteq Accounted' /\ Attempted' \subseteq Accounted'
  BY <1>2, <1>3, <1>4 DEF Attempted, Accounted, logVars, Id
<1>6. WorkerOK(work[w], Len(klog), Accounted', Attempted')
  BY <1>1, <1>5, WorkerKept
<1>7. ASSUME SetRow(w, row), row # NoRow
      PROVE  o \in Attempted'
  <2>1. rows'[id] = row
    BY <1>1, <1>7 DEF SetRow
  <2> QED
    BY <1>1, <1>2, <1>7, <2>1 DEF Attempted, logVars, Id
<1> QED
  BY <1>5, <1>6, <1>7

\* A transaction of the single path moves the row of the record the pass looks
\* at, and the worker goes on.
LEMMA PassStep ==
    ASSUME SettlementInv, NEW w \in Workers, work[w].todo # {},
           UNCHANGED <<logVars, bids, events, order, checkpoint, committed, owner, resume>>,
           pg' = pg \/ \E r \in {"LEDGER_GAP", "LASTING"} : Pause(r),
           engine' = engine \/ engine' = [engine EXCEPT !.paused = TRUE],
           faults' \in 0..MaxFaults, NEW row,
           \/ rows' = rows
           \/ SetRow(w, row) /\ RowMove(Id(Message(Cur(w))), Cur(w), row),
           NEW y, work' = [work EXCEPT ![w] = y], WorkerOK(y, Len(klog), Accounted', Attempted')
    PROVE  SettlementInv'
<1>1. /\ Cur(w) \in DOMAIN klog /\ work \in [Workers -> WorkerState] /\ y \in WorkerState
  BY CurFacts, WorkerFacts DEF WorkerOK
<1>2. /\ work' \in [Workers -> WorkerState] /\ work'[w] = y
      /\ \A v \in Workers \ {w} : work'[v] = work[v]
  BY <1>1, WorkSet
<1>3. PICK pause \in {"no", "LEDGER_GAP", "RECOVERABLE", "LASTING"} : pg' = [pg EXCEPT !.pause = pause]
  <2>1. pg.pause \in {"no", "LEDGER_GAP", "RECOVERABLE", "LASTING"} /\ pg = [pg EXCEPT !.pause = pg.pause]
    BY DEF SettlementInv, FactsInv
  <2> QED
    BY <2>1 DEF Pause
<1>4. PICK paused \in BOOLEAN : engine' = [engine EXCEPT !.paused = paused]
  <2>1. engine.paused \in BOOLEAN /\ engine = [engine EXCEPT !.paused = engine.paused]
    BY DEF SettlementInv, StreamInv
  <2> QED
    BY <2>1
<1>5. \/ rows' = rows
      \/ /\ rows' = [rows EXCEPT ![Id(Message(Cur(w)))] = row]
         /\ RowMove(Id(Message(Cur(w))), Cur(w), row)
  BY DEF SetRow
<1> QED
  BY <1>1, <1>2, <1>3, <1>4, <1>5, RowStep

\* The worker goes to its transaction: the record has a row.
LEMMA AttemptInv ==
    ASSUME SettlementInv, NEW w \in Workers, RecordAttempt(w) \/ DuplicateClaims(w)
    PROVE  SettlementInv'
<1> DEFINE x == work[w]
           row == [RowOf(w) EXCEPT !.off = Cur(w), !.status = "PROCESSING",
                                   !.attempts = OneMore(RowOf(w).attempts)]
           y == [x EXCEPT !.pc = "tx", !.attempts = OneMore(RowOf(w).attempts)]
<1>1. /\ x \in WorkerState /\ work \in [Workers -> WorkerState] /\ faults \in 0..MaxFaults
      /\ x.todo # {} /\ x.pc \in {"scan", "single"} /\ Len(klog) \in Nat
  BY WorkerFacts DEF RecordAttempt, DuplicateClaims, Single, Pending
<1>2. /\ Cur(w) \in DOMAIN klog /\ RowOf(w) \in Row /\ Cur(w) \in Nat
      /\ Cur(w) = Lowest(x.todo)
  BY <1>1, CurFacts
<1>3. OneMore(RowOf(w).attempts) \in 0..MaxAttempts
  <2>1. RowOf(w).attempts \in 0..MaxAttempts
    BY <1>2 DEF Row
  <2> QED
    BY <2>1, OneMoreIs
<1>4. row \in Row /\ row.status = "PROCESSING" /\ row.off = Cur(w)
  BY <1>2, <1>3 DEF Row
<1>5. SetRow(w, row) /\ work' = [work EXCEPT ![w] = y]
  <2>1. CASE RecordAttempt(w)
    BY <1>1, <1>2, <2>1 DEF RecordAttempt
  <2>2. CASE DuplicateClaims(w)
    <3>1. row = [RowOf(w) EXCEPT !.off = Cur(w), !.attempts = OneMore(RowOf(w).attempts)]
      BY <1>2, <2>2 DEF DuplicateClaims, Row
    <3> QED
      BY <1>1, <2>2, <3>1 DEF DuplicateClaims
  <2> QED
    BY <2>1, <2>2
<1>6. /\ y \in WorkerState /\ y.pc = "tx" /\ y.next = x.next /\ y.unc = x.unc /\ y.todo = x.todo
      /\ y.done = x.done /\ y.now = x.now
  BY <1>1, <1>3 DEF WorkerState
<1> HIDE DEF row, y
<1>7. RowMove(Id(Message(Cur(w))), Cur(w), row) /\ row # NoRow
  BY <1>2, <1>4 DEF RowMove, NoRow
<1>8. UNCHANGED <<engine, logVars, committed, owner, pg, bids, events, order, checkpoint, resume, faults>>
  BY DEF RecordAttempt, DuplicateClaims
<1>9. WorkerOK(x, Len(klog), Accounted', Attempted') /\ Cur(w) \in Attempted'
  BY <1>1, <1>5, <1>7, <1>8, RowAccounts
<1>10. WorkerOK(y, Len(klog), Accounted', Attempted')
  BY <1>1, <1>2, <1>6, <1>9, MovesOK
<1> QED
  BY <1>1, <1>5, <1>7, <1>8, <1>10, PassStep

\* What Mark makes of the row of a record that has one.
LEMMA MarkIs ==
    ASSUME SettlementInv, NEW w \in Workers, Pending(w, "tx"),
           NEW status \in {"PROCESSING", "FAILED", "SETTLED", "SKIPPED"}
    PROVE  /\ work[w].todo # {} /\ RowOf(w) # NoRow /\ Cur(w) \in Attempted
           /\ \E row \in Row :
                 /\ Mark(w, status) <=> SetRow(w, row)
                 /\ row # NoRow /\ row.off \in DOMAIN klog
                 /\ row = RowOf(w) \/ (row.status = status /\ row.off = Cur(w))
                 /\ \/ status \in {"PROCESSING", "FAILED"}
                    \/ status = "SKIPPED" /\ Message(Cur(w)).epoch < pg.epoch
                    => RowMove(Id(Message(Cur(w))), Cur(w), row)
<1> DEFINE x == work[w]
           row == IF RowOf(w).off = Cur(w) THEN [RowOf(w) EXCEPT !.status = status] ELSE RowOf(w)
<1>1. x.todo # {} /\ x.pc = "tx"
  BY DEF Pending
<1>2. WorkerOK(x, Len(klog), Accounted, Attempted)
  BY WorkerFacts
<1>3. /\ Cur(w) \in DOMAIN klog /\ RowOf(w) \in Row /\ Cur(w) = Lowest(x.todo)
      /\ RowOf(w) = rows[Id(Message(Cur(w)))] /\ RowOK(Id(Message(Cur(w))))
      /\ Id(Message(Cur(w))) \in Ids /\ (RowOf(w) # NoRow <=> Cur(w) \in Attempted)
  BY <1>1, CurFacts
<1>4. Cur(w) \in Attempted /\ RowOf(w) # NoRow
  BY <1>1, <1>2, <1>3 DEF WorkerOK
<1>5. RowOf(w).status # "none" /\ RowOf(w).off \in DOMAIN klog
  BY <1>3, <1>4 DEF RowOK
<1>6. row \in Row /\ row.status # "none" /\ row.off \in DOMAIN klog
  BY <1>3, <1>5 DEF Row, Terminal
<1>7. Mark(w, status) <=> SetRow(w, row)
  BY DEF Mark
<1>8. row = RowOf(w) \/ (row.status = status /\ row.off = Cur(w))
  BY <1>3 DEF Row
<1>9. row # NoRow
  BY <1>6 DEF NoRow
<1> HIDE DEF row
<1>10. Id(Message(Cur(w)))[1] = Message(Cur(w)).epoch
  BY DEF Id
<1>11. ASSUME \/ status \in {"PROCESSING", "FAILED"}
              \/ status = "SKIPPED" /\ Message(Cur(w)).epoch < pg.epoch
       PROVE  RowMove(Id(Message(Cur(w))), Cur(w), row)
  BY <1>3, <1>6, <1>8, <1>10, <1>11 DEF RowMove
<1> QED
  BY <1>1, <1>4, <1>6, <1>7, <1>8, <1>9, <1>11

\* The transactions that mark a row and are done with the decision, or wait.
LEMMA MarkInv ==
    ASSUME SettlementInv, NEW w \in Workers,
           SkipOldEpoch(w) \/ RefuseOldEpoch(w) \/ AwaitPredecessor(w) \/ RefuseGap(w)
    PROVE  SettlementInv'
<1>1. /\ work[w] \in WorkerState /\ work \in [Workers -> WorkerState] /\ faults \in 0..MaxFaults
      /\ Len(klog) \in Nat
  BY WorkerFacts
<1>2. Pending(w, "tx")
  BY DEF SkipOldEpoch, RefuseOldEpoch, AwaitPredecessor, RefuseGap
<1>3. ASSUME NEW status \in {"PROCESSING", "FAILED", "SKIPPED"}, Mark(w, status),
             status = "SKIPPED" => Message(Cur(w)).epoch < pg.epoch,
             UNCHANGED <<engine, logVars, committed, owner, bids, events, order, checkpoint, resume, faults>>,
             pg' = pg \/ \E r \in {"LEDGER_GAP", "LASTING"} : Pause(r),
             \/ work' = [work EXCEPT ![w] = Handled(w)]
             \/ \E kind \in {"permanent", "transient"} : work' = [work EXCEPT ![w] = Failed(w, kind)]
      PROVE  SettlementInv'
  <2>1. PICK row \in Row : /\ Mark(w, status) <=> SetRow(w, row)
                           /\ row # NoRow
                           /\ RowMove(Id(Message(Cur(w))), Cur(w), row)
    BY <1>2, <1>3, MarkIs
  <2>2. work[w].todo # {} /\ Cur(w) \in Attempted
    BY <1>2, MarkIs
  <2>3. pg'.seq = pg.seq /\ pg'.epoch = pg.epoch
    BY <1>3 DEF Pause, SettlementInv, FactsInv
  <2>4. SetRow(w, row)
    BY <1>3, <2>1
  <2>5. /\ WorkerOK(work[w], Len(klog), Accounted', Attempted')
        /\ Cur(w) \in Attempted' /\ Cur(w) \in Accounted'
    BY <1>3, <2>1, <2>2, <2>3, <2>4, RowAccounts
  <2>6. WorkerOK(Handled(w), Len(klog), Accounted', Attempted')
    BY <1>1, <2>2, <2>5, HandledOK
  <2>7. \A kind \in {"permanent", "transient"} : WorkerOK(Failed(w, kind), Len(klog), Accounted', Attempted')
    BY <1>1, <2>2, <2>5, FailedOK
  <2>8. PICK y : work' = [work EXCEPT ![w] = y] /\ WorkerOK(y, Len(klog), Accounted', Attempted')
    BY <1>3, <2>6, <2>7
  <2> QED
    BY <1>1, <1>3, <2>1, <2>2, <2>4, <2>8, PassStep
<1>4. CASE SkipOldEpoch(w)
  BY <1>3, <1>4 DEF SkipOldEpoch
<1>5. CASE RefuseOldEpoch(w)
  BY <1>3, <1>5 DEF RefuseOldEpoch
<1>6. CASE AwaitPredecessor(w)
  BY <1>3, <1>6 DEF AwaitPredecessor
<1>7. CASE RefuseGap(w)
  BY <1>3, <1>7 DEF RefuseGap
<1> QED
  BY <1>4, <1>5, <1>6, <1>7

\* The row of another decision with the same number fails.
LEMMA ConflictInv ==
    ASSUME SettlementInv, NEW w \in Workers, IdentityConflict(w)
    PROVE  SettlementInv'
<1> DEFINE x == work[w]
           c == Cur(w)
           row == [RowOf(w) EXCEPT !.status = "FAILED"]
<1>1. /\ x \in WorkerState /\ work \in [Workers -> WorkerState] /\ faults \in 0..MaxFaults
      /\ Len(klog) \in Nat /\ x.todo # {} /\ x.pc \in {"scan", "single"} /\ RowOf(w) # NoRow
  BY WorkerFacts DEF IdentityConflict, Single, Pending
<1>2. /\ c \in DOMAIN klog /\ RowOf(w) \in Row /\ c \in x.todo /\ c = Lowest(x.todo)
      /\ RowOf(w) = rows[Id(Message(c))] /\ RowOK(Id(Message(c)))
  BY <1>1, CurFacts
<1>3. RowOf(w).off \in DOMAIN klog
  BY <1>1, <1>2 DEF RowOK
<1>4. row \in Row /\ row.status = "FAILED" /\ row.off = RowOf(w).off
  BY <1>2 DEF Row, Terminal
<1>5. SetRow(w, row)
  BY DEF IdentityConflict
<1> HIDE DEF row
<1>6. RowMove(Id(Message(c)), c, row) /\ row # NoRow
  BY <1>2, <1>3, <1>4 DEF RowMove, NoRow
<1>7. /\ UNCHANGED <<logVars, committed, owner, bids, events, order, checkpoint, resume, faults>>
      /\ Pause("LASTING") /\ engine' = [engine EXCEPT !.paused = TRUE]
  BY DEF IdentityConflict, Pause
<1>8. pg'.seq = pg.seq /\ pg'.epoch = pg.epoch
  BY <1>7 DEF Pause, SettlementInv, FactsInv
<1>9. WorkerOK(x, Len(klog), Accounted', Attempted') /\ c \in Accounted'
  BY <1>1, <1>5, <1>6, <1>7, <1>8, RowAccounts
<1>10. PICK y : work' = [work EXCEPT ![w] = y] /\ WorkerOK(y, Len(klog), Accounted', Attempted')
  <2>1. CASE x.retrying
    <3> DEFINE y == [x EXCEPT !.pc = "retry", !.err = "plain"]
    <3>1. work' = [work EXCEPT ![w] = y]
      BY <1>1, <2>1 DEF IdentityConflict
    <3>2. /\ y \in WorkerState /\ y.pc = "retry" /\ y.err = "plain" /\ y.next = x.next /\ y.unc = x.unc
          /\ y.todo = x.todo /\ y.done = x.done /\ y.now = x.now
      BY <1>1 DEF WorkerState
    <3> HIDE DEF y
    <3>3. WorkerOK(y, Len(klog), Accounted', Attempted')
      BY <1>1, <1>9, <3>2, MovesOK
    <3> QED
      BY <3>1, <3>3
  <2>2. CASE ~x.retrying
    <3> DEFINE y == [x EXCEPT !.pc = "batch", !.done = x.done \cup {c}, !.todo = x.todo \ {c}]
    <3>1. work' = [work EXCEPT ![w] = y]
      BY <1>1, <2>2 DEF IdentityConflict
    <3>2. /\ y \in WorkerState /\ y.pc = "batch" /\ y.next = x.next /\ y.unc = x.unc
          /\ y.todo = x.todo \ {c} /\ y.done = x.done \cup {c} /\ y.now = x.now
      <4>1. c \in Nat
        BY <1>1, CurFacts
      <4> QED
        BY <1>1, <4>1 DEF WorkerState
    <3> HIDE DEF y, c
    <3>3. WorkerOK(y, Len(klog), Accounted', Attempted')
      BY <1>1, <1>2, <1>9, <3>2, CollectOK
    <3> QED
      BY <3>1, <3>3
  <2> QED
    BY <2>1, <2>2
<1> QED
  BY <1>1, <1>5, <1>6, <1>7, <1>10, PassStep

\* A record is given up: it has a row, whose mark may fail.
LEMMA DeadLetterInv ==
    ASSUME SettlementInv, NEW w \in Workers, DeadLetter(w)
    PROVE  SettlementInv'
<1> DEFINE x == work[w]
           c == Cur(w)
           row == [RowOf(w) EXCEPT !.status = "FAILED", !.dlq = TRUE]
           y == [x EXCEPT !.pc = "one", !.now = {c}, !.err = "none"]
<1>1. /\ WorkerOK(x, Len(klog), Accounted, Attempted)
      /\ x \in WorkerState /\ work \in [Workers -> WorkerState] /\ faults \in 0..MaxFaults
      /\ Len(klog) \in Nat /\ x.todo # {} /\ x.pc = "retry" /\ Poison(w)
  BY WorkerFacts DEF DeadLetter, Pending
<1>2. /\ c \in DOMAIN klog /\ RowOf(w) \in Row /\ c \in x.todo /\ c = Lowest(x.todo) /\ c \in Nat \ {0}
      /\ \A p \in x.todo : c <= p
      /\ RowOf(w) = rows[Id(Message(c))] /\ RowOK(Id(Message(c)))
      /\ (RowOf(w) # NoRow <=> c \in Attempted)
  BY <1>1, CurFacts
<1>3. c \in Attempted /\ RowOf(w) # NoRow
  <2>1. CASE x.err = "permanent"
    BY <1>1, <1>2, <2>1 DEF WorkerOK
  <2>2. CASE x.err # "permanent"
    <3>1. Attempts(w) >= MaxAttempts /\ MaxAttempts \in Nat \ {0}
      BY <1>1, <2>2, SettlementAssumption DEF Poison
    <3>2. RowOf(w).off = c
      BY <3>1 DEF Attempts
    <3> QED
      BY <1>2, <3>2 DEF NoRow
  <2> QED
    BY <2>1, <2>2
<1>4. row \in Row /\ row.status = "FAILED" /\ row.off = RowOf(w).off
  BY <1>2 DEF Row, Terminal
<1>5. rows' = rows \/ SetRow(w, row)
  BY DEF DeadLetter
<1>6. /\ UNCHANGED <<logVars, committed, owner, bids, events, order, checkpoint, resume>>
      /\ pg' = pg \/ \E r \in {"LEDGER_GAP", "LASTING"} : Pause(r)
      /\ engine' = engine \/ engine' = [engine EXCEPT !.paused = TRUE]
      /\ faults' \in 0..MaxFaults
  BY <1>1, FaultIs DEF DeadLetter
<1>7. /\ y \in WorkerState /\ work' = [work EXCEPT ![w] = y] /\ y.pc = "one" /\ y.next = x.next
      /\ y.unc = x.unc /\ y.done = x.done /\ y.todo = x.todo /\ y.now = {c}
  BY <1>1, <1>2 DEF DeadLetter, WorkerState
<1> HIDE DEF row, y
<1>8. RowMove(Id(Message(c)), c, row)
  <2>1. RowOf(w).off \in DOMAIN klog
    BY <1>2, <1>3 DEF RowOK
  <2> QED
    BY <1>2, <1>4, <2>1 DEF RowMove
<1>9. pg'.seq = pg.seq /\ pg'.epoch = pg.epoch
  BY <1>6 DEF Pause, SettlementInv, FactsInv
<1>10. /\ WorkerOK(x, Len(klog), Accounted', Attempted')
       /\ Attempted \subseteq Attempted' /\ Attempted' \subseteq Accounted'
  BY <1>1, <1>5, <1>6, <1>8, <1>9, RowAccounts
<1>11. WorkerOK(y, Len(klog), Accounted', Attempted')
  <2>1. {c} \subseteq x.todo \cap Accounted'
    BY <1>2, <1>3, <1>10
  <2>2. \A p \in x.todo : \A n \in {c} : p \in {c} \/ n < p
    <3>1. x.todo \subseteq Nat
      BY <1>1 DEF WorkerState
    <3> QED
      BY <1>2, <3>1
  <2> HIDE DEF c
  <2> QED
    BY <1>1, <1>7, <1>10, <2>1, <2>2, CommittingOK
<1> QED
  BY <1>1, <1>5, <1>6, <1>7, <1>8, <1>11, PassStep

----------------------------------------------------------------------------
(* The transactions that settle *)

\* What a step that settles the run ds does to the events.
LEMMA AppendEventsIs ==
    ASSUME FactsInv, NEW ds, ds \in Seq(Decision),
           \A i \in DOMAIN ds : ds[i].seq = pg.seq + i, AppendEvents(ds)
    PROVE  events' = events \o [i \in 1..Len(ds) |-> pg.seq + i]
<1> DEFINE k == Len(ds)
           m == pg.pub
           new == [i \in 1..k |-> pg.seq + i]
<1>1. k \in Nat /\ DOMAIN ds = 1..k /\ m \in Nat
  BY DEF FactsInv
<1>2. /\ events \in Seq(1..MaxSeq) /\ Len(events) = m /\ DOMAIN events = 1..m
  BY DEF FactsInv
<1>3. /\ events' = [n \in DOMAIN events \cup (m + 1)..(m + k) |->
                       IF n \in DOMAIN events THEN events[n] ELSE ds[n - m].seq]
  BY DEF AppendEvents
<1>4. \A i \in 1..k : ds[i].seq = pg.seq + i
  BY <1>1
<1>5. new \in Seq(Int) /\ Len(new) = k /\ \A i \in 1..k : new[i] = pg.seq + i
  <2>1. \A i \in 1..k : pg.seq + i \in Int
    BY DEF FactsInv
  <2> QED
    BY <1>1, <2>1
<1>6. events \in Seq(Int) /\ MaxSeq \in Nat
  BY <1>2, SettlementAssumption
<1> HIDE DEF k, m, new
<1>7. IsAppend(events \o new, events, m, new, k)
  <2>1. IsAppend(events \o new, events, Len(events), new, Len(new))
    BY <1>5, <1>6, Appended
  <2> QED
    BY <2>1, <1>2, <1>5
<1>8. events \o new = [n \in 1..(m + k) |-> (events \o new)[n]]
  <2>1. events \o new \in Seq(Int)
    BY <1>5, <1>6
  <2>2. Len(events \o new) = m + k
    BY <1>7 DEF IsAppend
  <2>3. \A u \in Seq(Int) : u = [n \in 1..Len(u) |-> u[n]]
    OBVIOUS
  <2> QED
    BY <2>1, <2>2, <2>3
<1>9. DOMAIN events \cup (m + 1)..(m + k) = 1..(m + k)
  BY <1>1, <1>2
<1>10. ASSUME NEW n \in 1..(m + k)
       PROVE  (IF n \in DOMAIN events THEN events[n] ELSE ds[n - m].seq) = (events \o new)[n]
  <2>1. CASE n \in 1..m
    BY <2>1, <1>2, <1>7 DEF IsAppend
  <2>2. ASSUME NEW j \in 1..k, n = m + j
        PROVE  (IF n \in DOMAIN events THEN events[n] ELSE ds[n - m].seq) = (events \o new)[n]
    <3>1. (events \o new)[m + j] = new[j]
      BY <1>7 DEF IsAppend
    <3>2. n \notin 1..m /\ n - m = j
      BY <1>1, <2>2
    <3>3. new[j] = ds[j].seq
      BY <1>4, <1>5
    <3> QED
      BY <1>2, <2>2, <3>1, <3>2, <3>3
  <2> QED
    BY <2>1, <2>2, <1>7 DEF IsAppend
<1>11. events' = events \o new
  BY <1>3, <1>8, <1>9, <1>10
<1> QED
  BY <1>11 DEF new, k

\* A record that is the next one of its epoch is a run of one decision ...
LEMMA OneSettles ==
    ASSUME StreamInv, FactsInv, NEW o \in DOMAIN klog, NEW d, d = Message(o),
           d.epoch = pg.epoch, d.seq = pg.seq + 1, SettleFacts(d)
    PROVE  Settles(<<d>>)
<1> DEFINE ds == <<d>>
<1>1. d \in Decision /\ klog[o] \in DOMAIN stream /\ stream[klog[o]] = d
  BY MessageIs
<1>2. /\ ds \in Seq(Decision) /\ ds # <<>> /\ Len(ds) = 1 /\ DOMAIN ds = {1} /\ ds[1] = d
  BY <1>1
<1>3. d.kind \in {"accepted", "sold", "rejected", "quiet"}
  BY <1>1, SettlementAssumption DEF Decision
<1>4. /\ pg \in [epoch: 1..MaxEpoch, seq: 0..MaxSeq, pub: 0..MaxSeq, leader: 0..MaxSeq, sold: BOOLEAN,
                 pause: {"no", "LEDGER_GAP", "RECOVERABLE", "LASTING"}]
  BY DEF FactsInv
<1> HIDE DEF ds
<1>5. AppendEvent(d) => events' = events \o [i \in 1..Len(ds) |-> pg.seq + i]
  <2>1. \A i \in DOMAIN ds : ds[i].seq = pg.seq + i
    BY <1>2
  <2> QED
    BY <1>2, <2>1, AppendEventsIs DEF AppendEvent, ds
<1>6. InsertBid(d) => bids' = bids \o ds
  BY DEF InsertBid, InsertBids, ds
<1>7. /\ \A i \in DOMAIN ds : /\ ds[i].seq = pg.seq + i /\ ds[i].epoch = pg.epoch
                              /\ \E n \in DOMAIN stream : stream[n] = ds[i]
  BY <1>1, <1>2
<1>8. CASE d.kind = "accepted" \/ d.kind = "sold"
  <2>1. SettleAccepted(d)
    BY <1>8 DEF SettleFacts
  <2>2. /\ bids' = bids \o ds /\ events' = events \o [i \in 1..Len(ds) |-> pg.seq + i]
        /\ pg' = [pg EXCEPT !.seq = pg.seq + 1, !.pub = pg.pub + 1, !.leader = pg.seq + 1,
                            !.sold = (d.kind = "sold")]
    BY <1>4, <1>5, <1>6, <2>1 DEF SettleAccepted
  <2>3. /\ pg' \in [epoch: {pg.epoch}, seq: {pg.seq + Len(ds)}, pub: {pg.pub, pg.pub + Len(ds)},
                    leader: {pg.leader, pg.seq + Len(ds)}, sold: BOOLEAN, pause: {pg.pause}]
        /\ pg'.pub = pg.pub + Len(ds) /\ pg'.leader = pg'.seq /\ (pg'.sold <=> d.kind = "sold")
        /\ pg'.seq = d.seq
    BY <1>2, <1>4, <2>2
  <2>4. order' = IF d.kind = "sold" THEN (IF order = 0 THEN pg'.seq ELSE order) ELSE order
    BY <2>1, <2>3 DEF SettleAccepted, CreateOrder
  <2>5. \A i \in DOMAIN ds : ds[i].kind # "quiet"
    BY <1>2, <1>8
  <2>6. CASE d.kind = "accepted"
    <3>1. (\A i \in DOMAIN ds : ds[i].kind = "accepted") /\ ~pg'.sold /\ order' = order
      BY <1>2, <2>3, <2>4, <2>6
    <3> QED
      BY <1>2, <1>7, <2>2, <2>3, <2>5, <3>1 DEF Settles, ds
  <2>7. CASE d.kind = "sold"
    <3>1. Len(ds) = 1 /\ ds[1].kind = "sold" /\ pg'.sold /\ order' = IF order = 0 THEN pg'.seq ELSE order
      BY <1>2, <2>3, <2>4, <2>7
    <3> QED
      BY <1>2, <1>7, <2>2, <2>3, <2>5, <3>1 DEF Settles, ds
  <2> QED
    BY <1>8, <2>6, <2>7
<1>9. CASE d.kind = "rejected" \/ d.kind = "quiet"
  <2>1. SettleRejected(d)
    BY <1>9 DEF SettleFacts
  <2>2. /\ bids' = bids \o ds /\ order' = order
        /\ \/ /\ d.kind = "rejected" /\ events' = events \o [i \in 1..Len(ds) |-> pg.seq + i]
              /\ pg' = [pg EXCEPT !.seq = pg.seq + 1, !.pub = pg.pub + 1]
           \/ /\ d.kind = "quiet" /\ events' = events
              /\ pg' = [pg EXCEPT !.seq = pg.seq + 1]
    BY <1>5, <1>6, <1>9, <2>1 DEF SettleRejected, Broadcast
  <2>3. /\ pg' \in [epoch: {pg.epoch}, seq: {pg.seq + Len(ds)}, pub: {pg.pub, pg.pub + Len(ds)},
                    leader: {pg.leader, pg.seq + Len(ds)}, sold: BOOLEAN, pause: {pg.pause}]
        /\ pg'.leader = pg.leader /\ pg'.sold = pg.sold
        /\ d.kind = "rejected" => pg'.pub = pg.pub + Len(ds)
        /\ d.kind = "quiet" => pg'.pub = pg.pub
    BY <1>2, <1>4, <2>2
  <2>4. \A i \in DOMAIN ds : ~Sells(ds[i])
    BY <1>2, <1>9 DEF Sells
  <2>5. CASE d.kind = "rejected"
    <3>1. \A i \in DOMAIN ds : ds[i].kind # "quiet"
      BY <1>2, <2>5
    <3>2. events' = events \o [i \in 1..Len(ds) |-> pg.seq + i] /\ pg'.pub = pg.pub + Len(ds)
      BY <2>2, <2>3, <2>5
    <3> QED
      BY <1>2, <1>7, <2>2, <2>3, <2>4, <3>1, <3>2 DEF Settles, ds
  <2>6. CASE d.kind = "quiet"
    <3>1. \A i \in DOMAIN ds : ds[i].kind = "quiet"
      BY <1>2, <2>6
    <3>2. events' = events /\ pg'.pub = pg.pub
      BY <2>2, <2>3, <2>6
    <3> QED
      BY <1>2, <1>7, <2>2, <2>3, <2>4, <3>1, <3>2 DEF Settles, ds
  <2> QED
    BY <1>9, <2>5, <2>6
<1> QED
  BY <1>3, <1>8, <1>9

\* ... its row says so ...
LEMMA NextRow ==
    ASSUME SettlementInv, NEW w \in Workers, SettleNext(w)
    PROVE  Settles(<<Message(Cur(w))>>) /\ RowsSettled(<<Message(Cur(w))>>)
<1> DEFINE d == Message(Cur(w))
           ds == <<d>>
           c == Cur(w)
<1>1. /\ Pending(w, "tx") /\ d.epoch = pg.epoch /\ d.seq = pg.seq + 1 /\ SettleFacts(d)
      /\ Mark(w, "SETTLED") /\ Checkpointed(c) /\ work' = [work EXCEPT ![w] = Handled(w)]
      /\ UNCHANGED <<engine, logVars, committed, owner, resume, faults>>
  BY DEF SettleNext
<1>2. StreamInv /\ FactsInv /\ RowsInv
  BY DEF SettlementInv
<1>3. work[w].todo # {} /\ RowOf(w) # NoRow /\ c \in Attempted
  BY <1>1, MarkIs
<1>4. /\ c \in DOMAIN klog /\ Id(d) \in Ids /\ RowOf(w) = rows[Id(d)] /\ d \in Decision
      /\ \A p \in 1..(c - 1) : p \in Accounted
      /\ c \in Nat \ {0}
  BY <1>3, CurFacts
<1>5. Settles(ds)
  BY <1>1, <1>2, <1>4, OneSettles
<1>6. PICK row \in Row : /\ SetRow(w, row)
                         /\ row # NoRow /\ row.off \in DOMAIN klog
                         /\ row = RowOf(w) \/ (row.status = "SETTLED" /\ row.off = c)
  BY <1>1, MarkIs
<1>7. RowsSettled(ds)
  <2>1. rows \in [Ids -> Row] /\ rows' = [rows EXCEPT ![Id(d)] = row]
    BY <1>2, <1>6 DEF RowsInv, SetRow
  <2>2. rows' \in [Ids -> Row] /\ rows'[Id(d)] = row /\ \A id \in Ids : id # Id(d) => rows'[id] = rows[id]
    BY <2>1, <1>4, <1>6
  <2>3. DOMAIN ds = {1} /\ ds[1] = d
    OBVIOUS
  <2> HIDE DEF ds
  <2>4. ASSUME NEW id \in Ids, rows'[id] # rows[id]
        PROVE  /\ rows'[id].status = "SETTLED" /\ rows'[id].off \in DOMAIN klog
               /\ \E i \in DOMAIN ds : Id(ds[i]) = id /\ ds[i] = Message(rows'[id].off)
    <3>1. id = Id(d) /\ row.status = "SETTLED" /\ row.off = c
      BY <2>2, <2>4, <1>4, <1>6
    <3> QED
      BY <3>1, <2>2, <2>3, <1>6
  <2>5. \A i \in DOMAIN ds : rows'[Id(ds[i])] # NoRow
    BY <2>2, <2>3, <1>6
  <2> QED
    BY <2>2, <2>4, <2>5 DEF RowsSettled
<1> QED
  BY <1>5, <1>7

\* ... and settling it is one transaction with its row and the checkpoint.
LEMMA SettleNextInv ==
    ASSUME SettlementInv, NEW w \in Workers, SettleNext(w)
    PROVE  SettlementInv'
<1> DEFINE d == Message(Cur(w))
           ds == <<d>>
           c == Cur(w)
<1>1. /\ Pending(w, "tx") /\ d.epoch = pg.epoch /\ d.seq = pg.seq + 1 /\ SettleFacts(d)
      /\ Mark(w, "SETTLED") /\ Checkpointed(c) /\ work' = [work EXCEPT ![w] = Handled(w)]
      /\ UNCHANGED <<engine, logVars, committed, owner, resume, faults>>
  BY DEF SettleNext
<1>2. StreamInv /\ FactsInv /\ RowsInv
  BY DEF SettlementInv
<1>3. work[w].todo # {} /\ RowOf(w) # NoRow /\ c \in Attempted
  BY <1>1, MarkIs
<1>4. /\ c \in DOMAIN klog /\ Id(d) \in Ids /\ RowOf(w) = rows[Id(d)] /\ d \in Decision
      /\ \A p \in 1..(c - 1) : p \in Accounted
      /\ c \in Nat \ {0}
  BY <1>3, CurFacts
<1>5. Settles(ds) /\ RowsSettled(ds)
  BY NextRow
<1>6. /\ Attempted \subseteq Attempted' /\ Accounted \subseteq Accounted'
  BY <1>1, <1>5, SettlesAccounts
<1>7. /\ WorkerOK(work[w], Len(klog), Accounted, Attempted) /\ Len(klog) \in Nat
      /\ work \in [Workers -> WorkerState] /\ Attempted \subseteq Accounted
  BY WorkerFacts
<1>8. WorkerOK(work[w], Len(klog), Accounted', Attempted')
  BY <1>6, <1>7, WorkerKept
<1>9. c \in Accounted'
  BY <1>3, <1>6, <1>7
<1>10. Handled(w) \in WorkerState /\ WorkerOK(Handled(w), Len(klog), Accounted', Attempted')
  BY <1>3, <1>7, <1>8, <1>9, HandledOK
<1>11. /\ work' \in [Workers -> WorkerState] /\ work'[w] = Handled(w)
       /\ \A v \in Workers \ {w} : work'[v] = work[v]
  BY <1>1, <1>7, <1>10, WorkSet
<1>12. 1..c \subseteq Accounted'
  <2> HIDE DEF c
  <2>1. \A p \in 1..c : p = c \/ p \in 1..(c - 1)
    BY <1>4
  <2> QED
    BY <2>1, <1>4, <1>6, <1>9
<1>13. checkpoint' = [epoch |-> pg.epoch, seq |-> pg'.seq, next |-> c + 1]
  BY <1>1 DEF Checkpointed
<1> QED
  BY <1>1, <1>4, <1>5, <1>10, <1>11, <1>12, <1>13, SettleStep

\* The decisions of a batch, in the order of their records.
BatchRun(w) == [i \in 1..BatchLen(w) |-> Message(Cur(w) + i - 1)]

\* A batch that is next is a run: its decisions follow what is settled.
LEMMA BatchRunIs ==
    ASSUME SettlementInv, NEW w \in Workers, HasBatch(w), BatchIsNext(w)
    PROVE  /\ BatchRun(w) \in Seq(Decision) /\ Len(BatchRun(w)) = BatchLen(w)
           /\ DOMAIN BatchRun(w) = 1..BatchLen(w) /\ BatchLen(w) \in Nat /\ BatchLen(w) >= 2
           /\ \A i \in 1..BatchLen(w) :
                 /\ Cur(w) + i - 1 \in BatchOf(w) /\ Cur(w) + i - 1 \in DOMAIN klog
                 /\ BatchRun(w)[i] = Message(Cur(w) + i - 1)
                 /\ BatchRun(w)[i] = [Message(Cur(w)) EXCEPT !.seq = pg.seq + i]
                 /\ BatchRun(w)[i].seq = pg.seq + i /\ BatchRun(w)[i].epoch = pg.epoch
                 /\ BatchRun(w)[i].kind = Message(Cur(w)).kind
                 /\ \E n \in DOMAIN stream : stream[n] = BatchRun(w)[i]
           /\ \A o \in BatchOf(w) : \E i \in 1..BatchLen(w) : o = Cur(w) + i - 1
<1> DEFINE k == BatchLen(w)
           c == Cur(w)
           d == Message(Cur(w))
<1>1. /\ work[w].pc = "scan" /\ work[w].todo # {} /\ k \in Nat /\ k >= 2
      /\ \A i \in 0..(k - 1) : /\ c + i \in work[w].todo /\ c + i \in DOMAIN klog
                               /\ Message(c + i) = [d EXCEPT !.seq = d.seq + i]
  BY BatchIs
<1>2. c \in Nat \ {0} /\ d \in Decision
  BY <1>1, CurFacts
<1>3. d.epoch = pg.epoch /\ d.seq = pg.seq + 1 /\ pg.seq \in Nat
  BY DEF BatchIsNext, FirstOf, SettlementInv, FactsInv
<1>4. StreamInv
  BY DEF SettlementInv
<1>5. BatchOf(w) = c..(c + k - 1)
  BY DEF BatchOf
<1>6. DOMAIN BatchRun(w) = 1..k /\ \A i \in 1..k : BatchRun(w)[i] = Message(c + i - 1)
  BY DEF BatchRun
<1> HIDE DEF k, c, d
<1>7. ASSUME NEW i \in 1..k
      PROVE  /\ c + i - 1 \in BatchOf(w) /\ c + i - 1 \in DOMAIN klog
             /\ Message(c + i - 1) = [d EXCEPT !.seq = pg.seq + i]
             /\ Message(c + i - 1).seq = pg.seq + i /\ Message(c + i - 1).epoch = pg.epoch
             /\ Message(c + i - 1).kind = d.kind
             /\ \E n \in DOMAIN stream : stream[n] = Message(c + i - 1)
             /\ Message(c + i - 1) \in Decision
  <2>1. i - 1 \in 0..(k - 1) /\ c + (i - 1) = c + i - 1 /\ d.seq + (i - 1) = pg.seq + i
    BY <1>1, <1>2, <1>3
  <2>2. c + i - 1 \in BatchOf(w)
    BY <1>1, <1>2, <1>5
  <2>3. /\ c + i - 1 \in DOMAIN klog /\ Message(c + i - 1) = [d EXCEPT !.seq = pg.seq + i]
    BY <1>1, <2>1
  <2>4. /\ Message(c + i - 1) \in Decision /\ klog[c + i - 1] \in DOMAIN stream
        /\ Message(c + i - 1) = stream[klog[c + i - 1]]
    BY <1>4, <2>3, MessageIs
  <2>5. /\ [d EXCEPT !.seq = pg.seq + i].seq = pg.seq + i
        /\ [d EXCEPT !.seq = pg.seq + i].epoch = d.epoch
        /\ [d EXCEPT !.seq = pg.seq + i].kind = d.kind
    BY <1>2 DEF Decision
  <2> QED
    BY <1>3, <2>2, <2>3, <2>4, <2>5
<1>8. ASSUME NEW o \in BatchOf(w)
      PROVE  \E i \in 1..k : o = c + i - 1
  <2>1. o - c + 1 \in 1..k /\ o = c + (o - c + 1) - 1
    BY <1>1, <1>2, <1>5
  <2> QED
    BY <2>1
<1>9. BatchRun(w) \in Seq(Decision) /\ Len(BatchRun(w)) = k
  <2>1. \A i \in 1..k : Message(c + i - 1) \in Decision
    BY <1>7
  <2>2. k \in Nat /\ BatchRun(w) = [i \in 1..k |-> Message(c + i - 1)]
    BY <1>1 DEF BatchRun, k, c
  <2> QED
    BY <2>1, <2>2
<1> QED
  BY <1>1, <1>6, <1>7, <1>8, <1>9 DEF k, c, d

\* What a batch transaction does to the tables.
LEMMA BatchSettles ==
    ASSUME SettlementInv, NEW w \in Workers, HasBatch(w), BatchIsNext(w),
           IF FirstOf(w).kind = "quiet" THEN SettleRejectedBatch(BatchRun(w))
                                        ELSE SettleAcceptedBatch(BatchRun(w))
    PROVE  Settles(BatchRun(w))
<1> DEFINE ds == BatchRun(w)
           kind == Message(Cur(w)).kind
<1>1. /\ ds \in Seq(Decision) /\ Len(ds) \in Nat /\ Len(ds) >= 2 /\ DOMAIN ds = 1..Len(ds)
      /\ \A i \in 1..Len(ds) :
            /\ ds[i].seq = pg.seq + i /\ ds[i].epoch = pg.epoch /\ ds[i].kind = kind
            /\ \E n \in DOMAIN stream : stream[n] = ds[i]
  BY BatchRunIs
<1>2. kind \in {"accepted", "quiet"}
  BY BatchIs
<1>3. /\ pg \in [epoch: 1..MaxEpoch, seq: 0..MaxSeq, pub: 0..MaxSeq, leader: 0..MaxSeq, sold: BOOLEAN,
                 pause: {"no", "LEDGER_GAP", "RECOVERABLE", "LASTING"}]
      /\ FactsInv
  BY DEF SettlementInv, FactsInv
<1>4. IF kind = "quiet" THEN SettleRejectedBatch(ds) ELSE SettleAcceptedBatch(ds)
  BY DEF FirstOf
<1> HIDE DEF ds, kind
<1>5. ds # <<>>
  BY <1>1
<1>6. ds[Len(ds)].seq = pg.seq + Len(ds)
  BY <1>1
<1>7. ASSUME kind = "quiet"
      PROVE  Settles(ds)
  <2>1. /\ bids' = bids \o ds /\ pg' = [pg EXCEPT !.seq = pg.seq + Len(ds)]
        /\ events' = events /\ order' = order
    BY <1>4, <1>6, <1>7 DEF SettleRejectedBatch, InsertBids
  <2>2. /\ pg' \in [epoch: {pg.epoch}, seq: {pg.seq + Len(ds)}, pub: {pg.pub, pg.pub + Len(ds)},
                    leader: {pg.leader, pg.seq + Len(ds)}, sold: BOOLEAN, pause: {pg.pause}]
        /\ pg'.leader = pg.leader /\ pg'.sold = pg.sold /\ pg'.pub = pg.pub
    BY <1>3, <2>1
  <2>3. (\A i \in DOMAIN ds : ds[i].kind = "quiet") /\ \A i \in DOMAIN ds : ~Sells(ds[i])
    BY <1>1, <1>7 DEF Sells
  <2> QED
    BY <1>1, <1>5, <2>1, <2>2, <2>3 DEF Settles
<1>8. ASSUME kind = "accepted"
      PROVE  Settles(ds)
  <2>1. /\ bids' = bids \o ds /\ order' = order /\ AppendEvents(ds)
        /\ pg' = [pg EXCEPT !.seq = pg.seq + Len(ds), !.pub = pg.pub + Len(ds),
                            !.leader = pg.seq + Len(ds), !.sold = FALSE]
    BY <1>3, <1>4, <1>6, <1>8 DEF SettleAcceptedBatch, InsertBids
  <2>2. events' = events \o [i \in 1..Len(ds) |-> pg.seq + i]
    BY <1>1, <1>3, <2>1, AppendEventsIs
  <2>3. /\ pg' \in [epoch: {pg.epoch}, seq: {pg.seq + Len(ds)}, pub: {pg.pub, pg.pub + Len(ds)},
                    leader: {pg.leader, pg.seq + Len(ds)}, sold: BOOLEAN, pause: {pg.pause}]
        /\ pg'.pub = pg.pub + Len(ds) /\ pg'.leader = pg'.seq /\ ~pg'.sold
    BY <1>3, <2>1
  <2>4. (\A i \in DOMAIN ds : ds[i].kind # "quiet") /\ \A i \in DOMAIN ds : ds[i].kind = "accepted"
    BY <1>1, <1>8
  <2> QED
    BY <1>1, <1>5, <2>1, <2>2, <2>3, <2>4 DEF Settles
<1> QED
  BY <1>2, <1>7, <1>8 DEF ds

\* The rows a batch is settled with.
LEMMA BatchRows ==
    ASSUME SettlementInv, NEW w \in Workers, SettleBatch(w)
    PROVE  /\ RowsSettled(BatchRun(w))
           /\ \A i \in DOMAIN BatchRun(w) : rows'[Id(BatchRun(w)[i])].status = "SETTLED"
           /\ \A id \in Ids : rows'[id].dlq = rows[id].dlq
<1> DEFINE ds == BatchRun(w)
           k == BatchLen(w)
           c == Cur(w)
           B == BatchOf(w)
<1>1. /\ HasBatch(w) /\ BatchIsNext(w)
      /\ rows' = [id \in Ids |->
            IF \E o \in B : Id(Message(o)) = id
            THEN [rows[id] EXCEPT !.off = CHOOSE o \in B : Id(Message(o)) = id,
                                  !.status = IF rows[id].status \in Terminal
                                             THEN rows[id].status ELSE "SETTLED",
                                  !.attempts = IF rows[id].status \in Terminal THEN rows[id].attempts
                                               ELSE OneMore(rows[id].attempts)]
            ELSE rows[id]]
  BY DEF SettleBatch, BatchRun
<1>2. /\ DOMAIN ds = 1..k /\ k \in Nat /\ k >= 2
      /\ \A i \in 1..k : /\ c + i - 1 \in B /\ c + i - 1 \in DOMAIN klog
                         /\ ds[i] = Message(c + i - 1) /\ ds[i].seq = pg.seq + i /\ ds[i].epoch = pg.epoch
      /\ \A o \in B : \E i \in 1..k : o = c + i - 1
  BY <1>1, BatchRunIs
<1>3. StreamInv /\ RowsInv /\ pg.seq \in Nat
  BY DEF SettlementInv, FactsInv
<1>4. /\ WorkerOK(work[w], Len(klog), Accounted, Attempted) /\ Len(klog) \in Nat
      /\ work \in [Workers -> WorkerState] /\ DOMAIN klog = 1..Len(klog)
  BY WorkerFacts
<1>5. Insertable(w)
  BY <1>1 DEF BatchIsNext
<1> HIDE DEF ds, k, c, B
<1>6. ASSUME NEW o \in B
      PROVE  /\ o \in DOMAIN klog /\ Id(Message(o)) \in Ids
             /\ \E i \in 1..k : ds[i] = Message(o)
             /\ rows[Id(Message(o))] = NoRow \/ rows[Id(Message(o))].off = o
             /\ rows[Id(Message(o))] \in Row /\ RowOK(Id(Message(o)))
             /\ Message(o).epoch = pg.epoch
  <2>1. o \in DOMAIN klog /\ \E i \in 1..k : ds[i] = Message(o) /\ ds[i].epoch = pg.epoch
    BY <1>2
  <2>2. Id(Message(o)) \in Ids
    BY <1>3, <2>1, MessageIs
  <2> QED
    BY <1>3, <1>5, <2>1, <2>2 DEF Insertable, B, RowsInv
<1>7. ASSUME NEW id \in Ids, NEW p \in B, Id(Message(p)) = id
      PROVE  /\ rows'[id] \in Row /\ rows'[id].status = "SETTLED" /\ rows'[id].dlq = rows[id].dlq
             /\ rows'[id].off \in B /\ Id(Message(rows'[id].off)) = id
  <2> DEFINE o == CHOOSE o \in B : Id(Message(o)) = id
  <2>1. o \in B /\ Id(Message(o)) = id
    BY <1>7
  <2> HIDE DEF o
  <2>2. rows'[id] = [rows[id] EXCEPT !.off = o,
                       !.status = IF rows[id].status \in Terminal THEN rows[id].status ELSE "SETTLED",
                       !.attempts = IF rows[id].status \in Terminal THEN rows[id].attempts
                                    ELSE OneMore(rows[id].attempts)]
    BY <1>1, <1>7 DEF o
  <2>3. rows[id] \in Row /\ RowOK(id) /\ o \in Nat
    BY <1>4, <1>6, <2>1
  <2>4. rows[id].attempts \in 0..MaxAttempts
    BY <2>3 DEF Row
  <2>5. OneMore(rows[id].attempts) \in 0..MaxAttempts
    BY <2>4, OneMoreIs
  <2>6. rows[id].status # "SKIPPED"
    <3>1. id[1] = pg.epoch /\ pg.epoch \in Nat
      BY <1>6, <2>1 DEF Id, SettlementInv, FactsInv
    <3>2. rows[id].status = "SKIPPED" => id[1] < pg.epoch
      BY <2>3 DEF RowOK, NoRow
    <3> QED
      BY <3>1, <3>2
  <2>7. /\ rows'[id] \in Row /\ rows'[id].status = "SETTLED" /\ rows'[id].off = o
        /\ rows'[id].dlq = rows[id].dlq
    BY <2>2, <2>3, <2>4, <2>5, <2>6 DEF Row, Terminal
  <2> QED
    BY <2>1, <2>7
<1>8. ASSUME NEW id \in Ids, ~ \E o \in B : Id(Message(o)) = id
      PROVE  rows'[id] = rows[id]
  BY <1>1, <1>8
<1>9. rows' \in [Ids -> Row]
  <2>1. \A id \in Ids : rows'[id] \in Row
    BY <1>7, <1>8, <1>3 DEF RowsInv
  <2>2. rows' = [id \in Ids |-> rows'[id]]
    BY <1>1
  <2> QED
    BY <2>1, <2>2
<1>10. ASSUME NEW i \in DOMAIN ds
      PROVE  rows'[Id(ds[i])] # NoRow /\ rows'[Id(ds[i])].status = "SETTLED"
  <2>1. c + i - 1 \in B /\ ds[i] = Message(c + i - 1) /\ Id(Message(c + i - 1)) \in Ids
    BY <1>2, <1>6
  <2>2. rows'[Id(ds[i])].status = "SETTLED"
    BY <2>1, <1>7
  <2> QED
    BY <2>2 DEF NoRow
<1>11. ASSUME NEW id \in Ids, rows'[id] # rows[id]
      PROVE  /\ rows'[id].status = "SETTLED" /\ rows'[id].off \in DOMAIN klog
             /\ \E i \in DOMAIN ds : Id(ds[i]) = id /\ ds[i] = Message(rows'[id].off)
  <2>1. /\ rows'[id].status = "SETTLED"
        /\ rows'[id].off \in B /\ Id(Message(rows'[id].off)) = id
    BY <1>7, <1>8, <1>11
  <2>2. rows'[id].off \in DOMAIN klog /\ \E i \in 1..k : ds[i] = Message(rows'[id].off)
    BY <1>6, <2>1
  <2> QED
    BY <1>2, <2>1, <2>2
<1>12. RowsSettled(ds)
  BY <1>9, <1>10, <1>11 DEF RowsSettled
<1>13. \A id \in Ids : rows'[id].dlq = rows[id].dlq
  BY <1>7, <1>8
<1> QED
  BY <1>10, <1>12, <1>13 DEF ds

\* A batch settles in one transaction, rows and checkpoint included.
LEMMA SettleBatchInv ==
    ASSUME SettlementInv, NEW w \in Workers, SettleBatch(w)
    PROVE  SettlementInv'
<1> DEFINE ds == BatchRun(w)
           k == BatchLen(w)
           c == Cur(w)
           last == c + k - 1
           B == BatchOf(w)
<1>1. /\ HasBatch(w) /\ BatchIsNext(w) /\ Checkpointed(Highest(B))
      /\ IF FirstOf(w).kind = "quiet" THEN SettleRejectedBatch(ds) ELSE SettleAcceptedBatch(ds)
      /\ UNCHANGED <<engine, logVars, committed, owner, resume, faults>>
  BY DEF SettleBatch, BatchRun
<1>2. Settles(ds)
  BY <1>1, BatchSettles
<1>3. /\ DOMAIN ds = 1..k /\ k \in Nat /\ k >= 2
      /\ \A i \in 1..k : /\ c + i - 1 \in B /\ c + i - 1 \in DOMAIN klog
                         /\ ds[i] = Message(c + i - 1) /\ ds[i].seq = pg.seq + i /\ ds[i].epoch = pg.epoch
      /\ \A o \in B : \E i \in 1..k : o = c + i - 1
  BY <1>1, BatchRunIs
<1>4. /\ work[w].pc = "scan" /\ work[w].todo # {} /\ B \subseteq work[w].todo
      /\ \A p \in work[w].todo : \A n \in B : p \in B \/ n < p
  BY <1>1, BatchIs
<1>5. c \in Nat \ {0} /\ \A p \in 1..(c - 1) : p \in Accounted
  BY <1>4, CurFacts
<1>6. StreamInv /\ RowsInv /\ pg.seq \in Nat
  BY DEF SettlementInv, FactsInv
<1>7. /\ WorkerOK(work[w], Len(klog), Accounted, Attempted) /\ Len(klog) \in Nat
      /\ work \in [Workers -> WorkerState] /\ DOMAIN klog = 1..Len(klog)
  BY WorkerFacts
<1>8. work' = [work EXCEPT ![w] = [work[w] EXCEPT !.pc = "batch", !.now = B]]
  BY <1>7 DEF SettleBatch
<1>9. B = c..last
  BY DEF BatchOf
<1> HIDE DEF ds, k, c, B, last
<1>11. last \in DOMAIN klog /\ last \in Nat /\ last \in B /\ last = c + k - 1
  <2>1. k \in 1..k /\ last = c + k - 1
    BY <1>3 DEF last
  <2> QED
    BY <1>3, <1>5, <1>7, <2>1
<1>12. Highest(B) = last
  <2>1. B \subseteq 0..last /\ B # {}
    BY <1>5, <1>9, <1>11
  <2>2. Highest(B) \in B /\ Highest(B) >= last
    BY <2>1, <1>11, HighestIs
  <2> QED
    BY <2>2, <1>5, <1>9, <1>11
<1>13. RowsSettled(ds)
  BY BatchRows DEF ds
<1>14. /\ Attempted \subseteq Attempted' /\ Accounted \subseteq Accounted'
       /\ \A o \in DOMAIN klog : \A i \in DOMAIN ds : Message(o) = ds[i] => o \in Attempted'
  <2>1. UNCHANGED logVars
    BY <1>1
  <2> QED
    BY <2>1, <1>2, <1>13, SettlesAccounts
<1>15. B \subseteq Accounted'
  <2>1. ASSUME NEW o \in B
        PROVE  o \in DOMAIN klog /\ \E i \in DOMAIN ds : Message(o) = ds[i]
    <3>1. PICK i \in 1..k : o = c + i - 1
      BY <1>3
    <3>2. o \in DOMAIN klog /\ ds[i] = Message(o)
      BY <1>3, <3>1
    <3> QED
      BY <1>3, <3>2
  <2>2. Attempted' \subseteq Accounted'
    BY DEF Attempted, Accounted
  <2> QED
    BY <1>14, <2>1, <2>2
<1>16. WorkerOK(work[w], Len(klog), Accounted', Attempted')
  BY <1>7, <1>14, WorkerKept
<1> DEFINE y == [work[w] EXCEPT !.pc = "batch", !.now = B]
<1>17. y \in WorkerState /\ WorkerOK(y, Len(klog), Accounted', Attempted')
  BY <1>4, <1>7, <1>15, <1>16, ToCommitOK
<1>18. work' = [work EXCEPT ![w] = y]
  BY <1>8
<1> HIDE DEF y
<1>19. /\ work' \in [Workers -> WorkerState] /\ work'[w] = y
       /\ \A v \in Workers \ {w} : work'[v] = work[v]
  BY <1>7, <1>17, <1>18, WorkSet
<1>20. 1..last \subseteq Accounted'
  <2>1. \A p \in 1..last : p \in 1..(c - 1) \/ p \in B
    BY <1>5, <1>9, <1>11
  <2> QED
    BY <2>1, <1>5, <1>14, <1>15
<1>21. checkpoint' = [epoch |-> pg.epoch, seq |-> pg'.seq, next |-> last + 1]
  BY <1>1, <1>12 DEF Checkpointed
<1> QED
  BY <1>1, <1>2, <1>11, <1>13, <1>17, <1>19, <1>20, <1>21, SettleStep

----------------------------------------------------------------------------
(* The environment, the reconciler and the resume *)

\* What one transaction settles is in the partition.
LEMMA SettlesRecords ==
    ASSUME SettlementInv, NEW w \in Workers, SettleNext(w) \/ SettleBatch(w)
    PROVE  \E ds : Settles(ds) /\ \A i \in DOMAIN ds : \E o \in DOMAIN klog : ds[i] = Message(o)
<1>1. CASE SettleNext(w)
  <2> DEFINE d == Message(Cur(w))
  <2>1. Pending(w, "tx") /\ d.epoch = pg.epoch /\ d.seq = pg.seq + 1 /\ SettleFacts(d)
    BY <1>1 DEF SettleNext
  <2>2. Cur(w) \in DOMAIN klog /\ StreamInv /\ FactsInv
    BY <2>1, CurFacts DEF Pending, SettlementInv
  <2>3. Settles(<<d>>)
    BY <2>1, <2>2, OneSettles
  <2> DEFINE ds == <<d>>
  <2>4. d = Message(Cur(w))
    OBVIOUS
  <2> HIDE DEF d
  <2>5. \A i \in DOMAIN ds : ds[i] = d
    OBVIOUS
  <2> HIDE DEF ds
  <2>6. \A i \in DOMAIN ds : \E o \in DOMAIN klog : ds[i] = Message(o)
    BY <2>2, <2>4, <2>5
  <2>7. Settles(ds)
    BY <2>3 DEF ds
  <2> QED
    BY <2>6, <2>7
<1>2. CASE SettleBatch(w)
  <2>1. /\ HasBatch(w) /\ BatchIsNext(w)
        /\ IF FirstOf(w).kind = "quiet" THEN SettleRejectedBatch(BatchRun(w))
                                        ELSE SettleAcceptedBatch(BatchRun(w))
    BY <1>2 DEF SettleBatch, BatchRun
  <2>2. Settles(BatchRun(w))
    BY <2>1, BatchSettles
  <2>3. ASSUME NEW i \in DOMAIN BatchRun(w)
        PROVE  \E o \in DOMAIN klog : BatchRun(w)[i] = Message(o)
    <3>1. /\ Cur(w) + i - 1 \in DOMAIN klog
          /\ BatchRun(w)[i] = Message(Cur(w) + i - 1)
      BY <2>1, <2>3, BatchRunIs
    <3> QED
      BY <3>1
  <2> QED
    BY <2>2, <2>3
<1> QED
  BY <1>1, <1>2

\* The stream and the partition grow.
LEMMA LogGrows ==
    ASSUME SettlementInv, UNCHANGED <<committed, owner, work, pgVars>>, StreamInv', SaleInv',
           Len(stream) <= Len(stream'), \A n \in DOMAIN stream : stream'[n] = stream[n],
           Len(klog) <= Len(klog'), \A o \in DOMAIN klog : klog'[o] = klog[o]
    PROVE  SettlementInv'
<1>1. StreamInv /\ FactsInv /\ RowsInv /\ WorkersInv /\ OffsetsInv
  BY DEF SettlementInv
<1>2. /\ Len(klog) \in Nat /\ Len(klog') \in Nat /\ DOMAIN klog = 1..Len(klog)
      /\ DOMAIN klog' = 1..Len(klog')
      /\ Len(stream) \in Nat /\ Len(stream') \in Nat /\ DOMAIN stream = 1..Len(stream)
      /\ DOMAIN stream' = 1..Len(stream')
  BY <1>1 DEF StreamInv
<1>3. DOMAIN klog \subseteq DOMAIN klog' /\ DOMAIN stream \subseteq DOMAIN stream'
  BY <1>2
<1>4. ASSUME NEW o \in DOMAIN klog
      PROVE  Message(o)' = Message(o) /\ Id(Message(o)) \in Ids
  BY <1>1, MessageIs DEF Message
<1>5. Attempted \subseteq Attempted' /\ Accounted \subseteq Accounted'
  BY <1>3, <1>4 DEF Attempted, Accounted, pgVars, Id
<1>6. FactsInv'
  <2>1. \A i \in DOMAIN bids : \E n \in DOMAIN stream' : stream'[n] = bids[i]
    BY <1>1, <1>3 DEF FactsInv
  <2> QED
    BY <2>1, <1>1 DEF FactsInv, Sells, pgVars
<1>7. RowsInv'
  <2>1. ASSUME NEW id \in Ids
        PROVE  RowOK(id)'
    BY <1>1, <1>3, <1>4 DEF RowsInv, RowOK, pgVars, Id
  <2> QED
    BY <2>1, <1>1 DEF RowsInv, pgVars, Id
<1>8. WorkersInv'
  <2>1. ASSUME NEW w \in Workers
        PROVE  WorkerOK(work[w], Len(klog'), Accounted', Attempted')
    BY <1>1, <1>2, <1>5, WorkerKept DEF WorkersInv
  <2> QED
    BY <2>1, <1>1 DEF WorkersInv
<1>9. OffsetsInv'
  BY <1>1, <1>2, <1>5 DEF OffsetsInv, pgVars
<1> QED
  BY <1>6, <1>7, <1>8, <1>9 DEF SettlementInv

\* The engine takes a decision.
LEMMA DecideInv ==
    ASSUME SettlementInv, NEW k \in Kinds, Decide(k)
    PROVE  SettlementInv'
<1> DEFINE L == Len(stream)
           d == [epoch |-> engine.epoch, seq |-> engine.seq + 1, kind |-> k]
<1>1. StreamInv /\ SaleInv
  BY DEF SettlementInv
<1>2. /\ L < MaxSeq /\ stream' = Append(stream, d) /\ (engine.sold => k = "quiet")
      /\ engine' = [engine EXCEPT !.seq = engine.seq + 1, !.sold = engine.sold \/ k = "sold"]
      /\ UNCHANGED <<klog, committed, owner, work, pgVars, resume, faults>>
  BY DEF Decide
<1>3. /\ engine \in [epoch: 1..MaxEpoch, seq: 0..MaxSeq, sold: BOOLEAN, paused: BOOLEAN]
      /\ L \in Nat /\ MaxSeq \in Nat /\ engine.seq <= L /\ stream \in Seq(Decision)
  BY <1>1, SettlementAssumption DEF StreamInv
<1>4. d \in Decision
  BY <1>2, <1>3 DEF Decision
<1>5. /\ stream' \in Seq(Decision) /\ Len(stream') = L + 1 /\ DOMAIN stream' = 1..(L + 1)
      /\ DOMAIN stream = 1..L /\ stream'[L + 1] = d
      /\ \A n \in 1..L : stream'[n] = stream[n]
  <2> HIDE DEF d
  <2> QED
    BY <1>2, <1>3, <1>4
<1>6. /\ engine' \in [epoch: 1..MaxEpoch, seq: 0..MaxSeq, sold: BOOLEAN, paused: BOOLEAN]
      /\ engine'.seq = engine.seq + 1 /\ (engine'.sold <=> engine.sold \/ k = "sold")
  <2> DEFINE sold == engine.sold \/ k = "sold"
  <2>1. sold \in BOOLEAN /\ engine.seq + 1 \in 0..MaxSeq
    BY <1>2, <1>3
  <2>2. engine' = [engine EXCEPT !.seq = engine.seq + 1, !.sold = sold]
    BY <1>2
  <2> HIDE DEF sold
  <2>3. /\ engine' \in [epoch: 1..MaxEpoch, seq: 0..MaxSeq, sold: BOOLEAN, paused: BOOLEAN]
        /\ engine'.seq = engine.seq + 1 /\ engine'.sold = sold
    BY <1>3, <2>1, <2>2
  <2> QED
    BY <2>3 DEF sold
<1>7. d.seq = engine.seq + 1 /\ d.kind = k
  OBVIOUS
<1> HIDE DEF d, L
<1>8. StreamInv'
  <2>1. \A n \in DOMAIN stream' : stream'[n].seq <= n
    <3>1. \A n \in 1..L : stream[n].seq <= n
      BY <1>1, <1>5 DEF StreamInv
    <3>2. \A n \in 1..(L + 1) : n \in 1..L \/ n = L + 1
      BY <1>3
    <3>3. d.seq <= L + 1
      BY <1>3, <1>7
    <3> QED
      BY <1>5, <3>1, <3>2, <3>3
  <2>2. \A o \in DOMAIN klog : klog[o] <= Len(stream')
    <3>1. ASSUME NEW o \in DOMAIN klog
          PROVE  klog[o] <= L + 1
      <4>1. klog \in Seq(1..MaxSeq) /\ klog[o] <= L
        BY <1>1 DEF StreamInv, L
      <4>2. klog[o] \in 1..MaxSeq
        BY <4>1, Member
      <4> QED
        BY <4>1, <4>2, <1>3
    <3> QED
      BY <3>1, <1>5
  <2>3. engine'.seq <= Len(stream')
    BY <1>3, <1>5, <1>6
  <2>4. pg'.seq <= Len(stream') /\ resume'.seq <= Len(stream')
    <3>1. pg.seq <= L /\ resume.seq <= L /\ resume.seq \in Nat /\ pg.seq \in Nat
      BY <1>1 DEF StreamInv, L, SettlementInv, FactsInv
    <3> QED
      BY <3>1, <1>2, <1>3, <1>5 DEF pgVars
  <2>5. Len(stream') <= MaxSeq
    BY <1>2, <1>3, <1>5 DEF L
  <2> QED
    BY <1>1, <1>2, <1>5, <1>6, <2>1, <2>2, <2>3, <2>4, <2>5 DEF StreamInv, pgVars
<1>9. ASSUME NumbersOnce'
      PROVE  /\ NumbersOnce /\ engine.seq = L
  <2>1. NumbersOnce
    <3>1. ASSUME NEW m \in 1..L, NEW n \in 1..L, stream[m].seq = stream[n].seq
          PROVE  m = n
      <4>1. m \in 1..(L + 1) /\ n \in 1..(L + 1)
        BY <1>3
      <4> QED
        BY <1>5, <1>9, <3>1, <4>1 DEF NumbersOnce
    <3> QED
      BY <1>5, <3>1 DEF NumbersOnce
  <2>2. engine.seq = L
    <3>1. SUFFICES ASSUME engine.seq + 1 \in 1..L
                   PROVE  FALSE
      BY <1>3
    <3>2. stream[engine.seq + 1].seq = engine.seq + 1
      BY <2>1, <3>1, <1>1, <1>5 DEF SaleInv
    <3>3. engine.seq + 1 \in 1..(L + 1) /\ L + 1 \in 1..(L + 1) /\ engine.seq + 1 # L + 1
      BY <1>3, <3>1
    <3> QED
      BY <1>5, <1>7, <1>9, <3>1, <3>2, <3>3 DEF NumbersOnce
  <2> QED
    BY <2>1, <2>2
<1>10. SaleInv'
  <2>1. SUFFICES ASSUME NumbersOnce'
                 PROVE  (/\ \A n \in DOMAIN stream : stream[n].seq = n
                         /\ \A m, n \in DOMAIN stream :
                               m < n /\ stream[m].kind = "sold" => stream[n].kind = "quiet"
                         /\ SaleTaken /\ engine.seq = Len(stream) => engine.sold
                         /\ SaleTaken /\ resume.seq = Len(stream)
                              /\ resume.pc \in {"first", "loaded", "ready"} => resume.sold
                         /\ order # 0 => pg.sold /\ pg.leader = order)'
    BY DEF SaleInv
  <2>2. /\ \A n \in 1..L : stream[n].seq = n
        /\ \A m, n \in 1..L : m < n /\ stream[m].kind = "sold" => stream[n].kind = "quiet"
        /\ SaleTaken => engine.sold
        /\ order # 0 => pg.sold /\ pg.leader = order
        /\ engine.seq = L
    BY <1>1, <1>5, <1>9, <2>1 DEF SaleInv, L
  <2>3. \A n \in 1..(L + 1) : n \in 1..L \/ n = L + 1
    BY <1>3
  <2>4. \A n \in DOMAIN stream' : stream'[n].seq = n
    BY <1>5, <1>7, <2>2, <2>3
  <2>5. ASSUME NEW m \in DOMAIN stream', NEW n \in DOMAIN stream', m < n, stream'[m].kind = "sold"
        PROVE  stream'[n].kind = "quiet"
    <3>1. m \in 1..L
      BY <1>3, <1>5, <2>5
    <3>2. stream[m].kind = "sold"
      BY <1>5, <2>5, <3>1
    <3>3. CASE n \in 1..L
      BY <1>5, <2>2, <2>5, <3>1, <3>2, <3>3
    <3>4. CASE n = L + 1
      BY <1>2, <1>5, <1>7, <2>2, <3>1, <3>2, <3>4 DEF SaleTaken
    <3> QED
      BY <1>5, <2>3, <3>3, <3>4
  <2>6. SaleTaken' => engine'.sold
    <3>1. SaleTaken' => SaleTaken \/ k = "sold"
      BY <1>5, <1>7, <2>3 DEF SaleTaken
    <3> QED
      BY <1>6, <2>2, <3>1
  <2>7. resume'.seq # Len(stream')
    <3>1. resume.seq <= L /\ resume.seq \in Nat
      BY <1>1 DEF StreamInv, L
    <3> QED
      BY <3>1, <1>2, <1>3, <1>5
  <2> QED
    BY <1>2, <2>2, <2>4, <2>5, <2>6, <2>7 DEF pgVars
<1>11. Len(stream) <= Len(stream') /\ \A n \in DOMAIN stream : stream'[n] = stream[n]
  BY <1>3, <1>5 DEF L
<1>12. Len(klog) <= Len(klog') /\ \A o \in DOMAIN klog : klog'[o] = klog[o]
  <2>1. Len(klog) \in Nat
    BY <1>1, Records
  <2> QED
    BY <2>1, <1>2
<1> QED
  BY <1>2, <1>8, <1>10, <1>11, <1>12, LogGrows

\* A batch of the stream reaches the partition, once or twice.
LEMMA RelayInv ==
    ASSUME SettlementInv, NEW from \in 0..Len(stream), NEW last \in 0..Len(stream), Relay(from, last)
    PROVE  SettlementInv'
<1> DEFINE batch == [i \in 1..(last - from) |-> from + i]
           k == last - from
<1>1. /\ StreamInv /\ from < last /\ last <= Len(stream) /\ Len(stream) \in Nat
      /\ Len(stream) <= MaxSeq /\ MaxSeq \in Nat
      /\ klog' = klog \o batch \/ klog' = klog \o batch \o batch
      /\ UNCHANGED <<engine, stream, committed, owner, work, pgVars, resume, faults>>
  <2>1. StreamInv
    BY DEF SettlementInv
  <2>2. Len(stream) \in Nat /\ Len(stream) <= MaxSeq /\ MaxSeq \in Nat
    BY <2>1, SettlementAssumption DEF StreamInv
  <2>3. /\ from < last /\ last <= Len(stream)
        /\ klog' = klog \o batch \/ klog' = klog \o batch \o batch
        /\ UNCHANGED <<engine, stream, committed, owner, work, pgVars, resume, faults>>
    BY DEF Relay
  <2> HIDE DEF batch
  <2> QED
    BY <2>1, <2>2, <2>3
<1>2. klog \in Seq(1..MaxSeq) /\ \A o \in DOMAIN klog : klog[o] <= Len(stream)
  BY <1>1 DEF StreamInv
<1> DEFINE T == 1..Len(stream)
<1>3. batch \in Seq(T)
  <2>1. k \in Nat /\ \A i \in 1..k : from + i \in T
    BY <1>1
  <2>2. batch = [i \in 1..k |-> from + i]
    OBVIOUS
  <2> QED
    BY <2>1, <2>2
<1>4. klog \in Seq(T)
  <2>1. \A o \in DOMAIN klog : klog[o] \in T
    <3>1. \A o \in DOMAIN klog : klog[o] \in 1..MaxSeq /\ klog[o] <= Len(stream)
      BY <1>2, Member
    <3> QED
      BY <3>1, <1>1
  <2>2. DOMAIN klog = 1..Len(klog) /\ Len(klog) \in Nat /\ klog = [o \in 1..Len(klog) |-> klog[o]]
    BY <1>2
  <2> QED
    BY <2>1, <2>2
<1> HIDE DEF batch, T
<1>5. /\ klog' \in Seq(T) /\ Len(klog) <= Len(klog') /\ \A o \in DOMAIN klog : klog'[o] = klog[o]
  <2>1. ASSUME NEW s \in Seq(T), NEW t \in Seq(T)
        PROVE  /\ s \o t \in Seq(T) /\ Len(s) <= Len(s \o t) /\ Len(s) \in Nat
               /\ \A o \in DOMAIN s : (s \o t)[o] = s[o] /\ o \in DOMAIN (s \o t)
    OBVIOUS
  <2>2. CASE klog' = klog \o batch
    BY <1>3, <1>4, <2>1, <2>2
  <2>3. CASE klog' = klog \o batch \o batch
    <3> DEFINE s == klog \o batch
    <3>1. s \in Seq(T) /\ Len(klog) <= Len(s) /\ \A o \in DOMAIN klog : s[o] = klog[o] /\ o \in DOMAIN s
      BY <1>3, <1>4, <2>1
    <3>2. klog' = s \o batch
      BY <2>3
    <3> HIDE DEF s
    <3>3. /\ klog' \in Seq(T) /\ Len(s) <= Len(klog') /\ \A o \in DOMAIN s : klog'[o] = s[o]
      BY <1>3, <2>1, <3>1, <3>2
    <3>4. Len(klog) \in Nat /\ Len(s) \in Nat /\ Len(klog') \in Nat
      BY <1>4, <3>1, <3>3
    <3> QED
      BY <3>1, <3>3, <3>4
  <2> QED
    BY <1>1, <2>2, <2>3
<1>6. klog' \in Seq(1..MaxSeq) /\ \A o \in DOMAIN klog' : klog'[o] <= Len(stream)
  <2>1. \A o \in DOMAIN klog' : klog'[o] \in T
    BY <1>5, Member
  <2>2. \A n \in T : n \in 1..MaxSeq /\ n <= Len(stream)
    BY <1>1 DEF T
  <2>3. ASSUME NEW s \in Seq(T), NEW S, \A o \in DOMAIN s : s[o] \in S
        PROVE  s \in Seq(S)
    <3>1. DOMAIN s = 1..Len(s) /\ Len(s) \in Nat /\ s = [o \in 1..Len(s) |-> s[o]]
      OBVIOUS
    <3> QED
      BY <2>3, <3>1
  <2>4. klog' \in Seq(1..MaxSeq)
    BY <1>5, <2>1, <2>2, <2>3
  <2> QED
    BY <2>1, <2>2, <2>4
<1>7. StreamInv'
  BY <1>1, <1>6 DEF StreamInv, pgVars
<1>8. SaleInv'
  BY <1>1 DEF SettlementInv, SaleInv, NumbersOnce, SaleTaken, pgVars
<1>9. Len(stream) <= Len(stream') /\ \A n \in DOMAIN stream : stream'[n] = stream[n]
  BY <1>1
<1> QED
  BY <1>1, <1>5, <1>7, <1>8, <1>9, LogGrows

\* The engine, the auctions row's pause and epoch, or the resume changes.
LEMMA EngineStep ==
    ASSUME SettlementInv, UNCHANGED <<logVars, committed, owner, work, rows, bids, events, order>>,
           StreamInv', SaleInv',
           NEW pause \in {"no", "LEDGER_GAP", "RECOVERABLE", "LASTING"}, NEW epoch \in 1..MaxEpoch,
           pg.epoch <= epoch, pg' = [pg EXCEPT !.pause = pause, !.epoch = epoch],
           checkpoint' \in [epoch: 0..MaxEpoch, seq: {pg.seq}, next: {0, checkpoint.next}]
    PROVE  SettlementInv'
<1>1. StreamInv /\ FactsInv /\ RowsInv /\ WorkersInv /\ OffsetsInv
  BY DEF SettlementInv
<1>2. /\ pg' \in [epoch: 1..MaxEpoch, seq: 0..MaxSeq, pub: 0..MaxSeq, leader: 0..MaxSeq, sold: BOOLEAN,
                  pause: {"no", "LEDGER_GAP", "RECOVERABLE", "LASTING"}]
      /\ pg'.epoch = epoch /\ pg'.seq = pg.seq /\ pg'.pub = pg.pub /\ pg'.leader = pg.leader
      /\ pg'.sold = pg.sold /\ pg.epoch \in Nat /\ epoch \in Nat
  <2>1. /\ pg \in [epoch: 1..MaxEpoch, seq: 0..MaxSeq, pub: 0..MaxSeq, leader: 0..MaxSeq, sold: BOOLEAN,
                    pause: {"no", "LEDGER_GAP", "RECOVERABLE", "LASTING"}]
    BY <1>1 DEF FactsInv
  <2>2. pg.epoch \in Nat /\ epoch \in Nat
    BY <2>1
  <2> QED
    BY <2>1, <2>2
<1>3. Attempted' = Attempted /\ Accounted \subseteq Accounted'
  <2>1. \A o : Message(o)' = Message(o)
    BY DEF logVars, Message
  <2>2. \A o \in DOMAIN klog : Message(o).epoch \in Nat
    BY <1>1, MessageIs
  <2>3. \A o \in DOMAIN klog : Message(o).epoch < pg.epoch => Message(o).epoch < pg'.epoch
    BY <1>2, <2>2
  <2>4. Attempted' = Attempted
    BY <2>1 DEF Attempted, logVars, Id
  <2> QED
    BY <1>2, <2>1, <2>3, <2>4 DEF Accounted, logVars
<1>4. FactsInv'
  <2>1. \A i \in DOMAIN bids : bids[i].epoch <= pg'.epoch
    <3>1. ASSUME NEW i \in DOMAIN bids
          PROVE  bids[i].epoch <= pg'.epoch
      <4>1. bids[i].epoch <= pg.epoch /\ bids[i].epoch \in Nat
        BY <1>1, BidIs DEF FactsInv
      <4> QED
        BY <4>1, <1>2
    <3> QED
      BY <3>1
  <2> QED
    BY <2>1, <1>1, <1>2 DEF FactsInv, Sells, logVars
<1>5. RowsInv'
  <2>1. \A o : Message(o)' = Message(o)
    BY DEF logVars, Message
  <2>2. ASSUME NEW id \in Ids
        PROVE  RowOK(id)'
    <3>1. RowOK(id) /\ id[1] \in Nat
      BY <1>1 DEF RowsInv, Ids
    <3>2. id[1] < pg.epoch => id[1] < pg'.epoch
      BY <3>1, <1>2
    <3> QED
      BY <2>1, <3>1, <3>2 DEF RowOK, logVars, Id
  <2> QED
    BY <2>2, <1>1 DEF RowsInv, Id
<1>6. WorkersInv'
  <2>1. ASSUME NEW w \in Workers
        PROVE  WorkerOK(work[w], Len(klog), Accounted', Attempted')
    BY <1>1, <1>3, WorkerKept, Records DEF WorkersInv
  <2> QED
    BY <2>1, <1>1 DEF WorkersInv, logVars
<1>7. OffsetsInv'
  <2>1. /\ checkpoint' \in [epoch: 0..MaxEpoch, seq: 0..MaxSeq, next: Nat]
        /\ checkpoint'.seq = pg'.seq
        /\ checkpoint'.next = 0 \/ checkpoint'.next = checkpoint.next
    BY <1>1, <1>2 DEF OffsetsInv
  <2>2. checkpoint'.next <= Len(klog) + 1 /\ 1..(checkpoint'.next - 1) \subseteq Accounted
    <3>1. Len(klog) \in Nat
      BY <1>1, Records
    <3>2. checkpoint.next <= Len(klog) + 1 /\ 1..(checkpoint.next - 1) \subseteq Accounted
      BY <1>1 DEF OffsetsInv
    <3>3. CASE checkpoint'.next = 0
      <4>1. 1..(0 - 1) = {}
        OBVIOUS
      <4> QED
        BY <3>1, <3>3, <4>1
    <3>4. CASE checkpoint'.next = checkpoint.next
      BY <3>2, <3>4
    <3> QED
      BY <2>1, <3>3, <3>4
  <2> QED
    BY <1>1, <1>3, <2>1, <2>2 DEF OffsetsInv, logVars
<1> QED
  BY <1>4, <1>5, <1>6, <1>7 DEF SettlementInv

\* What a reconcile may do: it sets or lifts the pause.
LEMMA ReconciledIs ==
    ASSUME SettlementInv, (\E finding : Reconciled(finding)) \/ Unpaused
    PROVE  /\ \E pause \in {"no", "LEDGER_GAP", "RECOVERABLE", "LASTING"} :
                 pg' = [pg EXCEPT !.pause = pause, !.epoch = pg.epoch]
           /\ engine' \in [epoch: 1..MaxEpoch, seq: 0..MaxSeq, sold: BOOLEAN, paused: BOOLEAN]
           /\ engine'.seq = engine.seq /\ engine'.sold = engine.sold
           /\ pg'.epoch = pg.epoch /\ pg'.seq = pg.seq /\ pg'.sold = pg.sold /\ pg'.leader = pg.leader
           /\ pg.epoch \in 1..MaxEpoch /\ pg.epoch <= pg.epoch
<1>1. /\ pg \in [epoch: 1..MaxEpoch, seq: 0..MaxSeq, pub: 0..MaxSeq, leader: 0..MaxSeq, sold: BOOLEAN,
                 pause: {"no", "LEDGER_GAP", "RECOVERABLE", "LASTING"}]
      /\ engine \in [epoch: 1..MaxEpoch, seq: 0..MaxSeq, sold: BOOLEAN, paused: BOOLEAN]
  BY DEF SettlementInv, FactsInv, StreamInv
<1>2. \/ \E r \in {"no", "RECOVERABLE", "LASTING"} : pg' = [pg EXCEPT !.pause = r]
      \/ pg' = pg
  BY DEF Reconciled, Paused, Unpaused, Pause
<1>3. engine' = engine \/ \E b \in BOOLEAN : engine' = [engine EXCEPT !.paused = b]
  BY DEF Reconciled, Paused, Unpaused
<1>4. \E pause \in {"no", "LEDGER_GAP", "RECOVERABLE", "LASTING"} :
         pg' = [pg EXCEPT !.pause = pause, !.epoch = pg.epoch]
  <2>1. pg = [pg EXCEPT !.pause = pg.pause, !.epoch = pg.epoch]
    BY <1>1
  <2>2. \A r : [pg EXCEPT !.pause = r] = [pg EXCEPT !.pause = r, !.epoch = pg.epoch]
    BY <1>1
  <2> QED
    BY <1>1, <1>2, <2>1, <2>2
<1>5. pg'.epoch = pg.epoch /\ pg'.seq = pg.seq /\ pg'.sold = pg.sold /\ pg'.leader = pg.leader
  BY <1>1, <1>2
<1>6. /\ engine' \in [epoch: 1..MaxEpoch, seq: 0..MaxSeq, sold: BOOLEAN, paused: BOOLEAN]
      /\ engine'.seq = engine.seq /\ engine'.sold = engine.sold
  BY <1>1, <1>3
<1>7. pg.epoch \in 1..MaxEpoch /\ pg.epoch <= pg.epoch
  BY <1>1
<1> QED
  BY <1>4, <1>5, <1>6, <1>7

\* Until a number is given out again, what PostgreSQL holds of the whole
\* stream tells whether it has the sale.
LEMMA SaleKnown ==
    ASSUME SettlementInv, NumbersOnce, SaleTaken, pg.seq = Len(stream)
    PROVE  pg.sold
<1>1. StreamInv /\ SaleInv /\ FactsInv
  BY DEF SettlementInv
<1>2. PICK n \in DOMAIN stream : stream[n].kind = "sold"
  BY DEF SaleTaken
<1>3. n \in 1..Len(stream) /\ Len(stream) \in Nat
  BY <1>1, <1>2 DEF StreamInv
<1>4. n \in DOMAIN bids
  BY <1>1, <1>3 DEF FactsInv
<1>5. PICK m \in DOMAIN stream : stream[m] = bids[n]
  BY <1>1, <1>4 DEF FactsInv
<1>6. bids[n].seq = n
  BY <1>1, <1>4 DEF FactsInv
<1>7. m = n
  BY <1>1, <1>2, <1>5, <1>6, BidIsEntry
<1>8. bids[n].kind = "sold" /\ order # 0
  BY <1>1, <1>2, <1>4, <1>5, <1>7 DEF FactsInv
<1> QED
  BY <1>1, <1>8 DEF SaleInv

\* The reconciler and the steps of a resume.
LEMMA SignalInv ==
    ASSUME SettlementInv, NEW lag \in BOOLEAN, Signal(lag)
    PROVE  SettlementInv'
<1>1. /\ StreamInv /\ SaleInv /\ FactsInv /\ OffsetsInv
      /\ MaxSeq \in Nat /\ MaxEpoch \in Nat \ {0}
  BY SettlementAssumption DEF SettlementInv
<1>2. /\ pg \in [epoch: 1..MaxEpoch, seq: 0..MaxSeq, pub: 0..MaxSeq, leader: 0..MaxSeq, sold: BOOLEAN,
                 pause: {"no", "LEDGER_GAP", "RECOVERABLE", "LASTING"}]
      /\ engine \in [epoch: 1..MaxEpoch, seq: 0..MaxSeq, sold: BOOLEAN, paused: BOOLEAN]
      /\ resume \in [pc: {"no", "checked", "first", "loaded", "ready", "written"}, seq: 0..MaxSeq,
                     sold: BOOLEAN, paused: BOOLEAN]
      /\ Len(stream) \in Nat /\ engine.seq <= Len(stream) /\ pg.seq <= Len(stream)
      /\ resume.seq <= Len(stream)
  BY <1>1 DEF FactsInv, StreamInv
<1>3. /\ checkpoint \in [epoch: 0..MaxEpoch, seq: 0..MaxSeq, next: Nat] /\ checkpoint.seq = pg.seq
      /\ checkpoint \in [epoch: 0..MaxEpoch, seq: {pg.seq}, next: {0, checkpoint.next}]
  BY <1>1 DEF OffsetsInv
<1>4. SaleTaken => Len(stream) # 0
  BY <1>1 DEF SaleTaken, StreamInv
<1>5. pg = [pg EXCEPT !.pause = pg.pause, !.epoch = pg.epoch] /\ pg.epoch <= pg.epoch
  <2>1. pg.epoch <= pg.epoch
    BY <1>2
  <2>2. pg = [pg EXCEPT !.pause = pg.pause, !.epoch = pg.epoch]
    BY <1>2
  <2> QED
    BY <2>1, <2>2
<1>none. /\ NoResume \in [pc: {"no", "checked", "first", "loaded", "ready", "written"}, seq: 0..MaxSeq,
                        sold: BOOLEAN, paused: BOOLEAN]
       /\ NoResume.seq = 0 /\ NoResume.pc = "no"
  BY <1>1 DEF NoResume
\* What may change of the engine, the resume and the auctions row.
<1>6. ASSUME UNCHANGED logVars, owner' \in Workers, faults' \in 0..MaxFaults, order' = order,
             engine' \in [epoch: 1..MaxEpoch, seq: 0..MaxSeq, sold: BOOLEAN, paused: BOOLEAN],
             engine'.seq <= Len(stream),
             NumbersOnce /\ SaleTaken /\ engine'.seq = Len(stream) => engine'.sold,
             resume' \in [pc: {"no", "checked", "first", "loaded", "ready", "written"}, seq: 0..MaxSeq,
                          sold: BOOLEAN, paused: BOOLEAN],
             resume'.seq <= Len(stream),
             resume'.pc \in {"checked", "first", "loaded"} => pg'.epoch < MaxEpoch,
             NumbersOnce /\ SaleTaken /\ resume'.seq = Len(stream)
                /\ resume'.pc \in {"first", "loaded", "ready"} => resume'.sold,
             pg'.seq = pg.seq, pg'.sold = pg.sold, pg'.leader = pg.leader
      PROVE  StreamInv' /\ SaleInv'
  <2>1. StreamInv'
    BY <1>1, <1>2, <1>6 DEF StreamInv, logVars
  <2>2. SaleInv'
    BY <1>1, <1>6 DEF SaleInv, NumbersOnce, SaleTaken, logVars
  <2> QED
    BY <2>1, <2>2
<1>7. owner \in Workers /\ faults \in 0..MaxFaults
  BY <1>1 DEF StreamInv
<1>8. /\ NumbersOnce /\ SaleTaken /\ engine.seq = Len(stream) => engine.sold
      /\ NumbersOnce /\ SaleTaken /\ resume.seq = Len(stream)
            /\ resume.pc \in {"first", "loaded", "ready"} => resume.sold
      /\ resume.pc \in {"checked", "first", "loaded"} => pg.epoch < MaxEpoch
  BY <1>1 DEF SaleInv, StreamInv
\* A step that reconciles.
<1>9. ASSUME UNCHANGED <<logVars, committed, owner, work, rows, bids, events, order, checkpoint, faults>>,
             (\E finding : Reconciled(finding)) \/ Unpaused,
             resume' = resume \/ (resume' = NoResume)
                \/ (resume' = [resume EXCEPT !.pc = "checked"] /\ pg.epoch < MaxEpoch)
      PROVE  SettlementInv'
  <2>1. /\ engine' \in [epoch: 1..MaxEpoch, seq: 0..MaxSeq, sold: BOOLEAN, paused: BOOLEAN]
        /\ engine'.seq = engine.seq /\ engine'.sold = engine.sold
        /\ pg'.epoch = pg.epoch /\ pg'.seq = pg.seq /\ pg'.sold = pg.sold /\ pg'.leader = pg.leader
    BY <1>9, ReconciledIs
  <2>2. PICK pause \in {"no", "LEDGER_GAP", "RECOVERABLE", "LASTING"} :
           pg' = [pg EXCEPT !.pause = pause, !.epoch = pg.epoch]
    BY <1>9, ReconciledIs
  <2>3. /\ resume' \in [pc: {"no", "checked", "first", "loaded", "ready", "written"}, seq: 0..MaxSeq,
                        sold: BOOLEAN, paused: BOOLEAN]
        /\ resume'.seq <= Len(stream)
        /\ resume'.pc \in {"checked", "first", "loaded"} => pg.epoch < MaxEpoch
        /\ resume'.pc \in {"first", "loaded", "ready"} => resume' = resume
    <3>1. CASE resume' = resume
      BY <1>2, <1>8, <3>1
    <3>2. CASE resume' = NoResume
      BY <1>2, <1>none, <3>2
    <3>3. CASE resume' = [resume EXCEPT !.pc = "checked"] /\ pg.epoch < MaxEpoch
      BY <1>2, <3>3
    <3> QED
      BY <1>9, <3>1, <3>2, <3>3
  <2>4. UNCHANGED logVars /\ owner' \in Workers /\ faults' \in 0..MaxFaults /\ order' = order
    BY <1>7, <1>9
  <2>5. StreamInv' /\ SaleInv'
    BY <1>2, <1>6, <1>8, <2>1, <2>3, <2>4
  <2> QED
    BY <1>2, <1>3, <1>5, <1>9, <2>2, <2>5, EngineStep
\* A step of the resume that moves only the resume, and may take a checkpoint.
<1>10. ASSUME UNCHANGED <<engine, logVars, committed, owner, work, rows, pg, bids, events, order>>,
              faults' \in 0..MaxFaults,
              checkpoint' \in [epoch: 0..MaxEpoch, seq: {pg.seq}, next: {0, checkpoint.next}],
              resume' \in [pc: {"no", "checked", "first", "loaded", "ready", "written"}, seq: 0..MaxSeq,
                          sold: BOOLEAN, paused: BOOLEAN],
              resume'.seq <= Len(stream),
              resume'.pc \in {"checked", "first", "loaded"} => pg.epoch < MaxEpoch,
              NumbersOnce /\ SaleTaken /\ resume'.seq = Len(stream)
                 /\ resume'.pc \in {"first", "loaded", "ready"} => resume'.sold
       PROVE  SettlementInv'
  <2>1. StreamInv' /\ SaleInv'
    BY <1>2, <1>6, <1>7, <1>8, <1>10
  <2>2. pg' = [pg EXCEPT !.pause = pg.pause, !.epoch = pg.epoch]
    BY <1>5, <1>10
  <2> QED
    BY <1>2, <1>3, <1>5, <1>10, <2>1, <2>2, EngineStep
<1>12. CASE Reconcile(lag)
  BY <1>9, <1>12 DEF Reconcile
<1>13. CASE ResumePreflight(lag)
  BY <1>9, <1>13 DEF ResumePreflight
<1>14. CASE ResumeFirst
  <2>1. /\ resume' \in [pc: {"no", "checked", "first", "loaded", "ready", "written"}, seq: 0..MaxSeq,
                        sold: BOOLEAN, paused: BOOLEAN]
        /\ resume'.seq = 0 /\ resume.pc = "checked"
    BY <1>1, <1>2, <1>14 DEF ResumeFirst
  <2> QED
    BY <1>2, <1>3, <1>4, <1>7, <1>8, <1>10, <1>14, <2>1 DEF ResumeFirst, pgVars
<1>15. CASE ResumeFirstCheckpoint
  <2>1. /\ resume' \in [pc: {"no", "checked", "first", "loaded", "ready", "written"}, seq: 0..MaxSeq,
                        sold: BOOLEAN, paused: BOOLEAN]
        /\ resume'.seq = resume.seq /\ resume'.sold = resume.sold /\ resume'.pc = "ready"
        /\ resume.pc = "first"
    BY <1>2, <1>15 DEF ResumeFirstCheckpoint
  <2>2. checkpoint' \in [epoch: 0..MaxEpoch, seq: {pg.seq}, next: {0, checkpoint.next}]
    BY <1>2, <1>15 DEF ResumeFirstCheckpoint
  <2> QED
    BY <1>2, <1>7, <1>8, <1>10, <1>15, <2>1, <2>2 DEF ResumeFirstCheckpoint
<1>16. CASE ResumeLoad
  <2>1. /\ resume' \in [pc: {"no", "checked", "first", "loaded", "ready", "written"}, seq: 0..MaxSeq,
                        sold: BOOLEAN, paused: BOOLEAN]
        /\ resume'.seq = pg.seq /\ resume'.sold = pg.sold /\ resume.pc = "checked"
    <3>1. (pg.pause # "no") \in BOOLEAN
      OBVIOUS
    <3> DEFINE paused == pg.pause # "no"
    <3>2. resume' = [pc |-> "loaded", seq |-> pg.seq, sold |-> pg.sold, paused |-> paused]
          /\ resume.pc = "checked"
      BY <1>16 DEF ResumeLoad
    <3> HIDE DEF paused
    <3> QED
      BY <1>2, <3>1, <3>2 DEF paused
  <2>2. NumbersOnce /\ SaleTaken /\ pg.seq = Len(stream) => pg.sold
    BY SaleKnown
  <2> QED
    BY <1>2, <1>3, <1>7, <1>8, <1>10, <1>16, <2>1, <2>2 DEF ResumeLoad, pgVars
<1>17. CASE ResumeRefused
  BY <1>2, <1>3, <1>7, <1>10, <1>none, <1>17 DEF ResumeRefused, pgVars
<1>18. CASE ResumeBumpEpoch
  <2>1. /\ resume' \in [pc: {"no", "checked", "first", "loaded", "ready", "written"}, seq: 0..MaxSeq,
                        sold: BOOLEAN, paused: BOOLEAN]
        /\ resume'.seq = resume.seq /\ resume'.sold = resume.sold /\ resume'.pc = "ready"
        /\ resume.pc = "loaded"
    BY <1>2, <1>18 DEF ResumeBumpEpoch
  <2>2. /\ pg.epoch + 1 \in 1..MaxEpoch /\ pg.epoch <= pg.epoch + 1
    BY <1>1, <1>2, <1>8, <2>1
  <2>3. /\ pg' = [pg EXCEPT !.pause = pg.pause, !.epoch = pg.epoch + 1]
        /\ pg'.seq = pg.seq /\ pg'.sold = pg.sold /\ pg'.leader = pg.leader
    BY <1>2, <1>18 DEF ResumeBumpEpoch
  <2>4. UNCHANGED <<engine, logVars, committed, owner, work, rows, bids, events, order, checkpoint, faults>>
    BY <1>18 DEF ResumeBumpEpoch
  <2>5. StreamInv' /\ SaleInv'
    BY <1>2, <1>6, <1>7, <1>8, <2>1, <2>3, <2>4
  <2> QED
    BY <1>2, <1>3, <2>2, <2>3, <2>4, <2>5, EngineStep
<1>19. CASE ResumeWrite
  <2>1. /\ engine' \in [epoch: 1..MaxEpoch, seq: 0..MaxSeq, sold: BOOLEAN, paused: BOOLEAN]
        /\ engine'.seq = resume.seq /\ engine'.sold = resume.sold /\ resume.pc = "ready"
    BY <1>2, <1>19 DEF ResumeWrite
  <2>2. /\ resume' \in [pc: {"no", "checked", "first", "loaded", "ready", "written"}, seq: 0..MaxSeq,
                        sold: BOOLEAN, paused: BOOLEAN]
        /\ resume'.seq = 0 /\ resume'.pc = "written"
    <3>1. resume' = [NoResume EXCEPT !.pc = "written"]
      BY <1>19 DEF ResumeWrite
    <3> QED
      BY <1>none, <3>1
  <2>3. UNCHANGED <<logVars, committed, owner, work, pgVars, faults>>
    BY <1>19 DEF ResumeWrite
  <2>4. StreamInv' /\ SaleInv'
    BY <1>2, <1>6, <1>7, <1>8, <2>1, <2>2, <2>3 DEF pgVars
  <2>5. pg' = [pg EXCEPT !.pause = pg.pause, !.epoch = pg.epoch]
    BY <1>5, <2>3 DEF pgVars
  <2> QED
    BY <1>2, <1>3, <1>5, <2>3, <2>4, <2>5, EngineStep DEF pgVars
<1>20. CASE ResumePostflight(lag)
  BY <1>9, <1>20 DEF ResumePostflight
<1>21. CASE ResumeFails
  <2>1. faults' \in 0..MaxFaults
    BY <1>7, <1>21, FaultIs DEF ResumeFails
  <2> QED
    BY <1>2, <1>3, <1>10, <1>none, <1>21, <2>1 DEF ResumeFails, pgVars
<1> QED
  BY <1>12, <1>13, <1>14, <1>15, <1>16, <1>17, <1>18, <1>19, <1>20, <1>21 DEF Signal, Resume

----------------------------------------------------------------------------
(* The invariant *)

\* Nothing is decided yet, and every worker starts at the first record.
LEMMA SettlementInit ==
    ASSUME Init
    PROVE  SettlementInv
<1>1. /\ MaxSeq \in Nat /\ MaxEpoch \in Nat \ {0} /\ MaxFaults \in Nat /\ MaxAttempts \in Nat \ {0}
  BY SettlementAssumption
<1>2. /\ stream = <<>> /\ klog = <<>> /\ bids = <<>> /\ events = <<>> /\ order = 0 /\ committed = 0
      /\ faults = 0 /\ owner \in Workers
      /\ engine = [epoch |-> 1, seq |-> 0, sold |-> FALSE, paused |-> FALSE]
      /\ resume = [pc |-> "no", seq |-> 0, sold |-> FALSE, paused |-> FALSE]
      /\ pg = [epoch |-> 1, seq |-> 0, pub |-> 0, leader |-> 0, sold |-> FALSE, pause |-> "no"]
      /\ checkpoint = [epoch |-> 0, seq |-> 0, next |-> 0]
      /\ rows = [id \in Ids |-> NoRow] /\ work = [w \in Workers |-> Fresh(0)]
  BY DEF Init, NoResume
<1>3. /\ Len(stream) = 0 /\ Len(klog) = 0 /\ Len(bids) = 0 /\ Len(events) = 0
      /\ DOMAIN stream = {} /\ DOMAIN klog = {} /\ DOMAIN bids = {} /\ DOMAIN events = {}
  BY <1>2
<1>4. /\ stream \in Seq(Decision) /\ klog \in Seq(1..MaxSeq) /\ bids \in Seq(Decision)
      /\ events \in Seq(1..MaxSeq)
  BY <1>2
<1>5. 1..0 = {} /\ 1..(0 - 1) = {} /\ 0 \in 0..MaxSeq /\ 1 \in 1..MaxEpoch /\ 0 \in 0..MaxEpoch
  BY <1>1
<1>6. StreamInv
  BY <1>1, <1>2, <1>3, <1>4, <1>5 DEF StreamInv
<1>7. SaleInv
  BY <1>2, <1>3 DEF SaleInv, SaleTaken
<1>8. FactsInv
  BY <1>1, <1>2, <1>3, <1>4, <1>5 DEF FactsInv, Sells
<1>9. RowsInv
  <2>1. NoRow \in Row
    BY <1>1 DEF NoRow, Row
  <2> QED
    BY <2>1, <1>2, <1>3 DEF RowsInv, RowOK
<1>10. WorkersInv
  <2>1. WorkerOK(Fresh(0), Len(klog), Accounted, Attempted)
    BY <1>3, <1>5, FreshOK
  <2>2. Fresh(0) \in WorkerState
    BY <2>1 DEF WorkerOK
  <2> QED
    BY <2>1, <2>2, <1>2 DEF WorkersInv
<1>11. OffsetsInv
  BY <1>1, <1>2, <1>3, <1>5 DEF OffsetsInv
<1> QED
  BY <1>6, <1>7, <1>8, <1>9, <1>10, <1>11 DEF SettlementInv

\* A worker's step keeps the invariant.
LEMMA WorkerInv ==
    ASSUME SettlementInv, NEW w \in Workers, WorkerProgress(w) \/ WorkerFault(w)
    PROVE  SettlementInv'
<1>1. CASE FetchAgain(w) \/ FetchNew(w)
  BY <1>1, FetchInv
<1>2. CASE SettleBatch(w)
  BY <1>2, SettleBatchInv
<1>3. CASE SkipBatch(w) \/ RejectedBatchStuck(w) \/ BatchFails(w)
  BY <1>3, BatchPassInv
<1>4. CASE RecordAttempt(w) \/ DuplicateClaims(w)
  BY <1>4, AttemptInv
<1>5. CASE \/ AlreadyTerminal(w) \/ DuplicateWaits(w) \/ RecordFails(w) \/ SettleFails(w)
           \/ RetryLater(w) \/ RetryNow(w)
  BY <1>5, SinglePassInv
<1>6. CASE IdentityConflict(w)
  BY <1>6, ConflictInv
<1>7. CASE SettleNext(w)
  BY <1>7, SettleNextInv
<1>8. CASE SkipOldEpoch(w) \/ RefuseOldEpoch(w) \/ AwaitPredecessor(w) \/ RefuseGap(w)
  BY <1>8, MarkInv
<1>9. CASE DeadLetter(w)
  BY <1>9, DeadLetterInv
<1>10. CASE CommitOne(w) \/ CommitBatch(w) \/ Flush(w)
  BY <1>10, CommitInv
<1>11. CASE CommitFails(w) \/ WorkerCrash(w) \/ Rebalance(w)
  BY <1>11, BreakInv
<1> QED
  BY <1>1, <1>2, <1>3, <1>4, <1>5, <1>6, <1>7, <1>8, <1>9, <1>10, <1>11 DEF WorkerProgress, WorkerFault

\* A step that changes nothing of the settlement keeps the invariant.
LEMMA StutterInv ==
    ASSUME SettlementInv, UNCHANGED settlementVars
    PROVE  SettlementInv'
<1>1. PICK w \in Workers : TRUE
  BY SettlementAssumption
<1>2. UNCHANGED <<engine, logVars, pgVars, resume, committed, owner, work, faults>>
  BY DEF settlementVars, logVars, pgVars
<1> QED
  BY <1>1, <1>2, WorkerFacts, QuietStep

\* The inductive invariant of the settlement.
THEOREM SettlementInvariant == Spec => []SettlementInv
<1>1. Init => SettlementInv
  BY SettlementInit
<1>2. SettlementInv /\ [Next]_settlementVars => SettlementInv'
  <2> SUFFICES ASSUME SettlementInv, [Next]_settlementVars
               PROVE  SettlementInv'
    OBVIOUS
  <2>1. CASE UNCHANGED settlementVars
    BY <2>1, StutterInv
  <2>2. ASSUME NEW k \in Kinds, Decide(k)
        PROVE  SettlementInv'
    BY <2>2, DecideInv
  <2>3. ASSUME NEW from \in 0..Len(stream), NEW last \in 0..Len(stream), Relay(from, last)
        PROVE  SettlementInv'
    BY <2>3, RelayInv
  <2>4. ASSUME NEW w \in Workers, WorkerProgress(w) \/ WorkerFault(w)
        PROVE  SettlementInv'
    BY <2>4, WorkerInv
  <2>5. ASSUME NEW lag \in BOOLEAN, Signal(lag)
        PROVE  SettlementInv'
    BY <2>5, SignalInv
  <2> QED
    BY <2>1, <2>2, <2>3, <2>4, <2>5 DEF Next
<1> QED
  BY <1>1, <1>2, PTL DEF Spec

----------------------------------------------------------------------------
(* What the runs look at, for every value of the constants *)

\* The variables of the settlement have their types.
THEOREM SettlementTypesCorrect == Spec => []SettlementTypeOK
<1>1. SettlementInv => SettlementTypeOK
  BY DEF SettlementInv, StreamInv, FactsInv, RowsInv, WorkersInv, OffsetsInv, SettlementTypeOK
<1> QED
  BY <1>1, SettlementInvariant, PTL

\* Whatever is redelivered, retried, raced or rebuilt, by any number of workers,
\* PostgreSQL holds the decisions 1..engine_seq, each once and in order.
THEOREM SettlesInOrder == Spec => []SettledInOrder
<1>1. SettlementInv => SettledInOrder
  BY DEF SettlementInv, FactsInv, SettledInOrder
<1> QED
  BY <1>1, SettlementInvariant, PTL

\* A rebuild may start from the checkpoint at any moment: it is the state of the
\* auctions row and no record before it is forgotten.
THEOREM CheckpointStaysComplete == Spec => []CheckpointIsComplete
<1>1. ASSUME SettlementInv
      PROVE  CheckpointIsComplete
  <2>1. checkpoint.seq = pg.seq /\ 1..(checkpoint.next - 1) \subseteq Accounted
    BY <1>1 DEF SettlementInv, OffsetsInv
  <2> QED
    BY <2>1 DEF CheckpointIsComplete, Accounted, Attempted
<1> QED
  BY <1>1, SettlementInvariant, PTL

\* Until a number is given out again there is one sale in the stream.
LEMMA OneSale ==
    ASSUME SettlementInv, NumbersOnce, NEW i \in DOMAIN bids, NEW j \in DOMAIN bids,
           bids[i].kind = "sold", bids[j].kind = "sold"
    PROVE  i = j
<1>1. StreamInv /\ SaleInv /\ FactsInv
  BY DEF SettlementInv
<1>2. PICK m \in DOMAIN stream : stream[m] = bids[i]
  BY <1>1 DEF FactsInv
<1>3. PICK n \in DOMAIN stream : stream[n] = bids[j]
  BY <1>1 DEF FactsInv
<1>4. m = i /\ n = j
  BY <1>1, <1>2, <1>3, BidIsEntry, BidIs
<1>5. ~ (m < n) /\ ~ (n < m)
  BY <1>1, <1>2, <1>3 DEF SaleInv
<1>6. m \in Nat /\ n \in Nat
  BY <1>1 DEF StreamInv
<1> QED
  BY <1>4, <1>5, <1>6

\* The reconciler's checks of PostgreSQL: one public sequence, one winner, one
\* order of one sale, which stays.
LEMMA ReconcilerAgrees ==
    ASSUME SettlementInv
    PROVE  ReconcilerFindsNothing
<1>1. StreamInv /\ SaleInv /\ FactsInv /\ RowsInv
  BY DEF SettlementInv
<1>2. /\ pg.pub \in Nat /\ pg.leader \in Nat /\ DOMAIN events = 1..pg.pub /\ DOMAIN bids = 1..Len(bids)
      /\ Len(bids) \in Nat
  BY <1>1 DEF FactsInv
<1>3. PublicSeqContiguous
  BY <1>2 DEF PublicSeqContiguous
<1>4. WinnerPrice
  <2>1. SUFFICES ASSUME NEW n \in Accepted,
                        \A m \in Accepted :
                            \/ bids[m].epoch < bids[n].epoch
                            \/ bids[m].epoch = bids[n].epoch /\ bids[m].seq <= bids[n].seq
                 PROVE  pg.leader = bids[n].seq
    BY DEF WinnerPrice
  <2>2. n \in DOMAIN bids /\ Sells(bids[n])
    BY <2>1 DEF Accepted, Sells
  <2>3. n <= pg.leader /\ bids[n].seq = n /\ n \in 1..Len(bids)
    BY <1>1, <2>2, BidIs DEF FactsInv
  <2>4. pg.leader \in DOMAIN bids /\ Sells(bids[pg.leader])
    BY <1>1, <1>2, <2>3 DEF FactsInv
  <2>5. pg.leader \in Accepted
    BY <2>4 DEF Accepted, Sells
  <2>6. /\ bids[pg.leader].epoch \in Nat /\ bids[n].epoch \in Nat /\ bids[pg.leader].seq = pg.leader
    BY <1>1, <2>2, <2>4, BidIs
  <2>7. bids[n].epoch <= bids[pg.leader].epoch
    BY <1>1, <2>2, <2>3, <2>4 DEF FactsInv
  <2>8. \/ bids[pg.leader].epoch < bids[n].epoch
        \/ bids[pg.leader].seq <= bids[n].seq
    BY <2>1, <2>5
  <2> QED
    BY <1>2, <2>3, <2>6, <2>7, <2>8
<1>5. SoldOrderUniqueness
  <2> DEFINE S == {id \in Ids : rows[id].status = "SETTLED" /\ Message(rows[id].off).kind = "sold"}
  <2>1. ASSUME NumbersOnce
        PROVE  Cardinality(S) <= 1
    <3>1. ASSUME NEW id \in S
          PROVE  id[2] \in DOMAIN bids /\ bids[id[2]].kind = "sold" /\ id = Id(bids[id[2]])
      BY <1>1 DEF RowsInv, RowOK, NoRow
    <3>2. ASSUME NEW a \in S, NEW b \in S
          PROVE  a = b
      <4>1. /\ a[2] \in DOMAIN bids /\ bids[a[2]].kind = "sold" /\ a = Id(bids[a[2]])
            /\ b[2] \in DOMAIN bids /\ bids[b[2]].kind = "sold" /\ b = Id(bids[b[2]])
        BY <3>1
      <4>2. a[2] = b[2]
        BY <2>1, <4>1, OneSale
      <4>3. Id(bids[a[2]]) = Id(bids[b[2]])
        BY <4>2
      <4> QED
        BY <4>1, <4>3
    <3> HIDE DEF S
    <3>3. CASE S = {}
      BY <3>3, FS_EmptySet
    <3>4. CASE S # {}
      <4>1. PICK a \in S : TRUE
        BY <3>4
      <4>2. S = {a}
        BY <3>2, <4>1
      <4>3. Cardinality(S) = 1
        BY <4>2, FS_Singleton
      <4> QED
        BY <4>3
    <3> QED
      BY <3>3, <3>4
  <2>2. pg.sold => order # 0
    BY <1>1 DEF FactsInv
  <2> QED
    BY <2>1, <2>2 DEF SoldOrderUniqueness
<1>6. SaleIsFinal
  BY <1>1 DEF SaleIsFinal, SaleInv
<1> QED
  BY <1>3, <1>4, <1>5, <1>6 DEF ReconcilerFindsNothing

\* The reconciler never finds anything wrong in PostgreSQL.
THEOREM ReconcilerStaysQuiet == Spec => []ReconcilerFindsNothing
BY ReconcilerAgrees, SettlementInvariant, PTL

\* The highest number of an initial part of the naturals, or of one with 0.
LEMMA HighestOf ==
    ASSUME NEW n \in Nat, NEW S, S \subseteq 1..n, n # 0 => n \in S
    PROVE  Highest({0} \cup S) = n
<1>1. {0} \cup S \subseteq 0..n /\ {0} \cup S # {} /\ n \in {0} \cup S
  OBVIOUS
<1>2. Highest({0} \cup S) \in {0} \cup S /\ Highest({0} \cup S) >= n
  BY <1>1, HighestIs
<1>3. \A h \in 0..n : h >= n => h = n
  OBVIOUS
<1> QED
  BY <1>1, <1>2, <1>3

\* The audits of the invariant checker agree with what one transaction wrote.
LEMMA CheckerAgrees ==
    ASSUME SettlementInv
    PROVE  CheckerFindsNothing
<1>1. StreamInv /\ FactsInv /\ RowsInv
  BY DEF SettlementInv
<1>2. /\ pg.pub \in Nat /\ pg.leader \in Nat /\ pg.seq \in Nat /\ DOMAIN events = 1..pg.pub
      /\ DOMAIN bids = 1..pg.seq /\ pg.epoch \in 1..MaxEpoch
  BY <1>1 DEF FactsInv
<1>3. AuctionSeqMatchesEvents
  <2>1. 1..pg.pub \subseteq 1..pg.pub /\ (pg.pub # 0 => pg.pub \in 1..pg.pub)
    BY <1>2
  <2> QED
    BY <1>2, <2>1, HighestOf DEF AuctionSeqMatchesEvents
<1>4. \A i \in DOMAIN bids : bids[i].seq = i
  BY <1>1 DEF FactsInv
<1>5. \A n : n \in Accepted <=> n \in DOMAIN bids /\ Sells(bids[n])
  BY DEF Accepted, Sells
<1>6. WinnerMatchesLatestAcceptedBid
  <2>1. CASE Accepted = {}
    <3>1. pg.leader = 0
      BY <1>1, <1>5, <2>1 DEF FactsInv
    <3> QED
      BY <2>1, <3>1 DEF WinnerMatchesLatestAcceptedBid
  <2>2. CASE Accepted # {}
    <3> DEFINE S == {events[n] : n \in DOMAIN events} \cap {bids[m].seq : m \in Accepted}
    <3>1. S \subseteq 1..pg.leader
      <4>1. ASSUME NEW m \in Accepted
            PROVE  bids[m].seq \in 1..pg.leader
        <5>1. m \in DOMAIN bids /\ m <= pg.leader /\ bids[m].seq = m
          BY <1>1, <1>4, <1>5 DEF FactsInv
        <5> QED
          BY <5>1, <1>2
      <4> QED
        BY <4>1
    <3>2. pg.leader # 0 /\ pg.leader \in S
      <4>1. PICK m \in Accepted : TRUE
        BY <2>2
      <4>2. m \in 1..pg.seq /\ m <= pg.leader
        BY <1>1, <1>2, <1>5 DEF FactsInv
      <4>3. pg.leader # 0
        BY <1>2, <4>2
      <4>4. pg.leader \in DOMAIN bids /\ Sells(bids[pg.leader]) /\ pg.leader \in Accepted
        BY <1>1, <1>5, <4>3 DEF FactsInv
      <4>5. bids[pg.leader].kind # "quiet"
        BY <4>4 DEF Sells
      <4>6. \E n \in DOMAIN events : events[n] = pg.leader
        BY <1>1, <4>4, <4>5 DEF FactsInv
      <4> QED
        BY <1>4, <4>3, <4>4, <4>6
    <3> HIDE DEF S
    <3>3. S \subseteq 0..pg.leader /\ S # {}
      BY <1>2, <3>1, <3>2
    <3>4. Highest(S) \in 1..pg.leader /\ Highest(S) >= pg.leader
      BY <1>2, <3>1, <3>2, <3>3, HighestIs
    <3>5. Highest(S) = pg.leader
      BY <1>2, <3>4
    <3> QED
      BY <2>2, <3>5 DEF WinnerMatchesLatestAcceptedBid, S
  <2> QED
    BY <2>1, <2>2
<1>7. ASSUME NEW id \in Ids, rows[id].status = "SETTLED"
      PROVE  /\ id[2] \in DOMAIN bids /\ Id(bids[id[2]]) = id
             /\ bids[id[2]] = Message(rows[id].off)
  BY <1>1, <1>7 DEF RowsInv, RowOK, NoRow
<1>8. EventCoverage
  <2>1. ASSUME NEW id \in Ids, rows[id].status = "SETTLED",
               Message(rows[id].off).kind \in {"accepted", "sold"}
        PROVE  /\ \E n \in Accepted : Id(bids[n]) = id
               /\ \E n \in DOMAIN events : events[n] = id[2]
    <3>1. /\ id[2] \in DOMAIN bids /\ Id(bids[id[2]]) = id
          /\ bids[id[2]].kind \in {"accepted", "sold"}
      BY <1>7, <2>1
    <3>2. id[2] \in Accepted /\ bids[id[2]].kind # "quiet"
      BY <3>1 DEF Accepted
    <3> QED
      BY <1>1, <3>1, <3>2 DEF FactsInv
  <2>2. \A n \in DOMAIN events : bids[events[n]].kind # "quiet"
    BY <1>1 DEF FactsInv
  <2> QED
    BY <2>1, <2>2 DEF EventCoverage
<1>9. SettledRowsAreBids
  BY <1>7 DEF SettledRowsAreBids
<1>10. ASSUME pg.epoch = 1, ~Unfinished
       PROVE  SettlementContiguous(1) /\ EngineSeqMatchesSettlement
  <2>1. ASSUME NEW i \in 1..pg.seq
        PROVE  i \in SettledOf(1)
    <3>1. /\ i \in DOMAIN bids /\ bids[i].epoch \in 1..MaxEpoch /\ bids[i].seq = i /\ i \in 1..MaxSeq
          /\ bids[i].epoch <= pg.epoch /\ Id(bids[i]) \in Ids
      BY <1>1, <1>2, BidIs DEF FactsInv
    <3>2. Id(bids[i]) = <<1, i>> /\ <<1, i>> \in Ids
      BY <1>10, <3>1 DEF Id
    <3>3. rows[<<1, i>>] # NoRow /\ RowOK(<<1, i>>)
      BY <1>1, <3>1, <3>2 DEF RowsInv
    <3>4. rows[<<1, i>>].status \in Terminal
      BY <1>10, <3>2, <3>3 DEF Unfinished, RowOK
    <3>5. rows[<<1, i>>].status # "SKIPPED"
      BY <1>10, <3>3 DEF RowOK
    <3> QED
      BY <3>1, <3>4, <3>5 DEF SettledOf, Terminal
  <2>2. ASSUME NEW n \in SettledOf(1)
        PROVE  n \in 1..pg.seq
    <3>1. n \in 1..MaxSeq /\ rows[<<1, n>>].status = "SETTLED" /\ <<1, n>> \in Ids
      BY SettlementAssumption DEF SettledOf, Ids
    <3> QED
      BY <1>2, <1>7, <3>1
  <2>3. SettledOf(1) = 1..pg.seq
    BY <2>1, <2>2
  <2>4. SettlementContiguous(1)
    <3>1. ASSUME NEW n \in 1..pg.seq
          PROVE  1..n \subseteq 1..pg.seq
      BY <1>2
    <3> QED
      BY <2>3, <3>1 DEF SettlementContiguous
  <2>5. Highest({0} \cup 1..pg.seq) = pg.seq
    <3>1. 1..pg.seq \subseteq 1..pg.seq /\ (pg.seq # 0 => pg.seq \in 1..pg.seq)
      BY <1>2
    <3> QED
      BY <1>2, <3>1, HighestOf
  <2> QED
    BY <1>10, <2>3, <2>4, <2>5 DEF EngineSeqMatchesSettlement
<1> QED
  BY <1>3, <1>6, <1>8, <1>9, <1>10 DEF CheckerFindsNothing

\* The invariant checker's audits of the ledger agree at any moment.
THEOREM CheckerStaysQuiet == Spec => []CheckerFindsNothing
BY CheckerAgrees, SettlementInvariant, PTL

----------------------------------------------------------------------------
(* One worker: redelivery is not taken for a gap *)

\* There is no second worker.
Alone(w) == Workers = {w}

\* The row of a settled decision says so.
SettledRows == \A i \in DOMAIN bids : rows[Id(bids[i])].status \in Terminal

\* A worker that is about to settle has the row of the decision, and it is open.
AttemptOpen(w) == Pending(w, "tx") => RowOf(w).off = Cur(w) /\ RowOf(w).status \notin Terminal

\* Why a single worker finds a decision settled when its row is: only a dead
\* letter or a number given out again part the two.
GapInv ==
    /\ \A w \in Workers : AttemptOpen(w)
    /\ NumbersOnce /\ ~DeadLettered => pg.pause # "LEDGER_GAP" /\ SettledRows

\* A step that leaves rows and bids, sets no gap pause and begins no attempt.
LEMMA GapKept ==
    ASSUME GapInv, UNCHANGED <<rows, bids>>, NumbersOnce' => NumbersOnce,
           pg'.pause = pg.pause \/ pg'.pause # "LEDGER_GAP",
           \A w \in Workers : AttemptOpen(w)'
    PROVE  GapInv'
<1>1. DeadLettered' = DeadLettered /\ SettledRows' = SettledRows
  BY DEF DeadLettered, SettledRows
<1> QED
  BY <1>1 DEF GapInv

\* Where the steps of the pass lead that settle nothing.
LEMMA PassLeads ==
    ASSUME NEW w \in Workers, work[w] \in WorkerState
    PROVE  /\ Handled(w).pc # "tx"
           /\ \A kind : Failed(w, kind).pc # "tx"
           /\ \A n : Fresh(n).pc # "tx" /\ \A S : [Fresh(n) EXCEPT !.unc = S].pc # "tx"
BY DEF Handled, Failed, Fresh, WorkerState

\* Of its steps, those that touch neither rows nor bids ...
Passive(w) ==
    \/ FetchAgain(w) \/ FetchNew(w) \/ SkipBatch(w) \/ RejectedBatchStuck(w)
    \/ AlreadyTerminal(w) \/ DuplicateWaits(w) \/ RetryLater(w) \/ RetryNow(w)
    \/ CommitOne(w) \/ CommitBatch(w) \/ Flush(w)
    \/ BatchFails(w) \/ RecordFails(w) \/ SettleFails(w) \/ CommitFails(w)
    \/ WorkerCrash(w) \/ Rebalance(w)

\* ... begin no attempt.
LEMMA GapPassive ==
    ASSUME SettlementInv, GapInv, NEW w \in Workers, Alone(w), Passive(w)
    PROVE  GapInv'
<1> DEFINE x == work[w]
<1>1. x \in WorkerState /\ work \in [Workers -> WorkerState]
  BY WorkerFacts
<1>2. ~Rebalance(w)
  BY WorkerFacts DEF Rebalance, Alone
<1>3. UNCHANGED <<stream, rows, bids, pg>>
  <2>1. CASE FetchAgain(w) \/ SkipBatch(w) \/ RejectedBatchStuck(w)
    BY <2>1 DEF FetchAgain, SkipBatch, RejectedBatchStuck, logVars, pgVars
  <2>2. CASE FetchNew(w)
    BY <2>2 DEF FetchNew, logVars, pgVars
  <2>3. CASE AlreadyTerminal(w) \/ DuplicateWaits(w) \/ RetryLater(w) \/ RetryNow(w)
    BY <2>3 DEF AlreadyTerminal, DuplicateWaits, RetryLater, RetryNow, logVars, pgVars
  <2>4. CASE CommitOne(w) \/ CommitBatch(w) \/ Flush(w)
    BY <2>4 DEF CommitOne, CommitBatch, Flush, logVars, pgVars
  <2>5. CASE BatchFails(w) \/ RecordFails(w) \/ SettleFails(w) \/ CommitFails(w) \/ WorkerCrash(w)
    BY <2>5 DEF BatchFails, RecordFails, SettleFails, CommitFails, WorkerCrash, logVars, pgVars
  <2> QED
    BY <1>2, <2>1, <2>2, <2>3, <2>4, <2>5 DEF Passive
<1>4. work'[w].pc # "tx"
  <2>1. AbandonPass(w) => work'[w].pc # "tx"
    BY <1>1, PassLeads DEF AbandonPass
  <2>2. CASE FetchAgain(w)
    BY <1>1, <2>2 DEF FetchAgain, WorkerState
  <2>3. CASE FetchNew(w)
    <3>1. PICK hi \in (x.next + 1)..Len(klog) :
             work' = [work EXCEPT ![w].pc = "scan", ![w].next = hi, ![w].unc = (x.next + 1)..hi,
                                  ![w].todo = (x.next + 1)..hi]
      BY <2>3 DEF FetchNew
    <3> DEFINE y == [x EXCEPT !.pc = "scan", !.next = hi, !.unc = (x.next + 1)..hi,
                              !.todo = (x.next + 1)..hi]
    <3>2. work' = [work EXCEPT ![w] = y]
      BY <1>1, <3>1
    <3>3. y.pc = "scan"
      BY <1>1 DEF WorkerState
    <3> QED
      BY <1>1, <3>2, <3>3
  <2>4. CASE SkipBatch(w) \/ RejectedBatchStuck(w) \/ BatchFails(w)
    BY <1>1, <2>1, <2>4 DEF SkipBatch, RejectedBatchStuck, BatchFails, WorkerState
  <2>5. CASE AlreadyTerminal(w) \/ DuplicateWaits(w) \/ RecordFails(w) \/ SettleFails(w)
    <3>1. \/ work' = [work EXCEPT ![w] = Handled(w)]
          \/ \E kind : work' = [work EXCEPT ![w] = Failed(w, kind)]
      BY <2>5 DEF AlreadyTerminal, DuplicateWaits, RecordFails, SettleFails
    <3> QED
      BY <1>1, <3>1, PassLeads
  <2>6. CASE RetryLater(w) \/ RetryNow(w) \/ CommitOne(w)
    BY <1>1, <2>6 DEF RetryLater, RetryNow, CommitOne, WorkerState
  <2>7. CASE CommitBatch(w)
    BY <1>1, <2>7 DEF CommitBatch, WorkerState
  <2>8. CASE Flush(w) \/ WorkerCrash(w)
    <3>1. \/ work' = [work EXCEPT ![w] = [Fresh(x.next) EXCEPT !.unc = x.unc \ x.done]]
          \/ work' = [work EXCEPT ![w] = Fresh(committed)]
      BY <2>8 DEF Flush, WorkerCrash
    <3>2. Fresh(committed).pc # "tx" /\ [Fresh(x.next) EXCEPT !.unc = x.unc \ x.done].pc # "tx"
      BY DEF Fresh
    <3> QED
      BY <1>1, <3>1, <3>2
  <2>9. CASE CommitFails(w)
    BY <1>1, <2>1, <2>9 DEF CommitFails, WorkerState
  <2> QED
    BY <1>2, <2>2, <2>3, <2>4, <2>5, <2>6, <2>7, <2>8, <2>9 DEF Passive
<1>5. AttemptOpen(w)'
  BY <1>4 DEF AttemptOpen, Pending
<1>6. NumbersOnce' = NumbersOnce
  BY <1>3 DEF NumbersOnce
<1> QED
  BY <1>3, <1>5, <1>6, GapKept DEF Alone

\* One row moves and stays a dead letter if it was: what is settled keeps a
\* terminal row unless the record is dead-lettered or the number is used again.
LEMMA GapRow ==
    ASSUME SettlementInv, GapInv, NEW id \in Ids, NEW row, rows' = [rows EXCEPT ![id] = row],
           rows[id].dlq => row.dlq, UNCHANGED <<stream, bids>>,
           NumbersOnce /\ ~DeadLettered => pg'.pause # "LEDGER_GAP",
           \/ row.dlq \/ row.status \in Terminal \/ rows[id].status \notin Terminal,
           \A w \in Workers : AttemptOpen(w)'
    PROVE  GapInv'
<1>1. NumbersOnce' = NumbersOnce
  BY DEF NumbersOnce
<1>2. /\ rows \in [Ids -> Row] /\ rows'[id] = row
      /\ \A other \in Ids \ {id} : rows'[other] = rows[other]
  BY DEF SettlementInv, RowsInv
<1>3. ASSUME NumbersOnce, ~DeadLettered'
      PROVE  ~DeadLettered /\ SettledRows'
  <2>1. ~row.dlq /\ ~DeadLettered
    BY <1>2, <1>3 DEF DeadLettered
  <2>2. SettledRows
    BY <1>3, <2>1 DEF GapInv
  <2>3. ASSUME NEW i \in DOMAIN bids
        PROVE  rows'[Id(bids[i])].status \in Terminal
    <3>1. Id(bids[i]) \in Ids /\ rows[Id(bids[i])].status \in Terminal
      BY <2>2, BidIs DEF SettledRows, SettlementInv
    <3> QED
      BY <1>2, <2>1, <3>1
  <2> QED
    BY <2>1, <2>3 DEF SettledRows, Id
<1> QED
  BY <1>1, <1>3 DEF GapInv

\* An attempt begins on a row that is open.
LEMMA GapAttempt ==
    ASSUME SettlementInv, GapInv, NEW w \in Workers, Alone(w), RecordAttempt(w) \/ DuplicateClaims(w)
    PROVE  GapInv'
<1> DEFINE x == work[w]
           id == Id(Message(Cur(w)))
           row == [RowOf(w) EXCEPT !.off = Cur(w), !.status = "PROCESSING",
                                   !.attempts = OneMore(RowOf(w).attempts)]
           y == [x EXCEPT !.pc = "tx", !.attempts = OneMore(RowOf(w).attempts)]
<1>1. /\ x \in WorkerState /\ work \in [Workers -> WorkerState] /\ x.todo # {}
      /\ RowOf(w).status \notin Terminal /\ UNCHANGED <<stream, klog, bids, pg>>
  BY WorkerFacts DEF RecordAttempt, DuplicateClaims, IsDuplicate, Single, Pending, logVars
<1>2. id \in Ids /\ RowOf(w) \in Row /\ RowOf(w) = rows[id] /\ Cur(w) = Lowest(x.todo)
  BY <1>1, CurFacts
<1>3. rows' = [rows EXCEPT ![id] = row] /\ work' = [work EXCEPT ![w] = y]
  <2>1. CASE RecordAttempt(w)
    BY <1>1, <1>2, <2>1 DEF RecordAttempt, SetRow
  <2>2. CASE DuplicateClaims(w)
    <3>1. row = [RowOf(w) EXCEPT !.off = Cur(w), !.attempts = OneMore(RowOf(w).attempts)]
      BY <1>2, <2>2 DEF DuplicateClaims, Row
    <3> QED
      BY <1>1, <2>2, <3>1 DEF DuplicateClaims, SetRow
  <2> QED
    BY <2>1, <2>2
<1>4. row.off = Cur(w) /\ row.status = "PROCESSING" /\ row.dlq = RowOf(w).dlq /\ y.todo = x.todo
  BY <1>1, <1>2 DEF Row, WorkerState
<1> HIDE DEF row, y, id
<1>5. rows \in [Ids -> Row]
  BY DEF SettlementInv, RowsInv
<1>6. AttemptOpen(w)'
  <2>1. work'[w] = y /\ rows'[id] = row
    BY <1>1, <1>2, <1>3, <1>5
  <2>2. Cur(w)' = Cur(w) /\ Message(Cur(w))' = Message(Cur(w))
    BY <1>1, <1>4, <2>1 DEF Cur, Message
  <2>3. RowOf(w)' = row
    BY <2>1, <2>2 DEF RowOf, Id, id
  <2> QED
    BY <1>4, <2>2, <2>3 DEF AttemptOpen, Terminal
<1>7. NumbersOnce /\ ~DeadLettered => pg'.pause # "LEDGER_GAP"
  BY <1>1 DEF GapInv
<1> QED
  BY <1>1, <1>2, <1>3, <1>4, <1>6, <1>7, GapRow DEF Alone

\* With every number given out once, a decision has one place in the stream, and
\* if it is settled it is the one settled under its number.
LEMMA OneDecision ==
    ASSUME SettlementInv, NumbersOnce, NEW o \in DOMAIN klog, NEW p \in DOMAIN klog
    PROVE  /\ Message(o).seq = Message(p).seq => klog[o] = klog[p]
           /\ Message(o).seq <= pg.seq =>
                 Message(o).seq \in DOMAIN bids /\ bids[Message(o).seq] = Message(o)
<1>1. /\ klog[o] \in DOMAIN stream /\ Message(o) = stream[klog[o]] /\ Message(o).seq \in 1..MaxSeq
      /\ klog[p] \in DOMAIN stream /\ Message(p) = stream[klog[p]]
  BY MessageIs DEF SettlementInv
<1>2. Message(o).seq = Message(p).seq => klog[o] = klog[p]
  BY <1>1 DEF NumbersOnce
<1>3. ASSUME Message(o).seq <= pg.seq
      PROVE  Message(o).seq \in DOMAIN bids /\ bids[Message(o).seq] = Message(o)
  <2> DEFINE i == Message(o).seq
  <2>1. i \in DOMAIN bids
    <3>1. bids \in Seq(Decision) /\ Len(bids) = pg.seq
      BY DEF SettlementInv, FactsInv
    <3> QED
      BY <1>1, <1>3, <3>1
  <2>2. PICK n \in DOMAIN stream : stream[n] = bids[i]
    BY <2>1 DEF SettlementInv, FactsInv
  <2>3. bids[i].seq = i
    BY <2>1 DEF SettlementInv, FactsInv
  <2>4. n = klog[o]
    BY <1>1, <2>2, <2>3 DEF NumbersOnce
  <2> QED
    BY <1>1, <2>1, <2>2, <2>4
<1> QED
  BY <1>2, <1>3

\* The transactions that mark an open row and settle nothing.
LEMMA GapMark ==
    ASSUME SettlementInv, GapInv, NEW w \in Workers, Alone(w),
           SkipOldEpoch(w) \/ RefuseOldEpoch(w) \/ AwaitPredecessor(w) \/ RefuseGap(w)
    PROVE  GapInv'
<1> DEFINE id == Id(Message(Cur(w)))
<1>1. /\ Pending(w, "tx") /\ UNCHANGED <<stream, bids>>
      /\ \E status \in {"SKIPPED", "FAILED", "PROCESSING"} : Mark(w, status)
      /\ \/ work' = [work EXCEPT ![w] = Handled(w)]
         \/ \E kind : work' = [work EXCEPT ![w] = Failed(w, kind)]
  BY DEF SkipOldEpoch, RefuseOldEpoch, AwaitPredecessor, RefuseGap, logVars
<1>2. /\ RowOf(w).off = Cur(w) /\ RowOf(w).status \notin Terminal /\ work[w].todo # {}
      /\ work[w] \in WorkerState
  BY <1>1, WorkerFacts DEF GapInv, AttemptOpen, Pending
<1>3. id \in Ids /\ RowOf(w) \in Row /\ RowOf(w) = rows[id] /\ Cur(w) \in DOMAIN klog
  BY <1>2, CurFacts
<1>4. PICK row : rows' = [rows EXCEPT ![id] = row] /\ row.dlq = rows[id].dlq
  <2>1. PICK status \in {"SKIPPED", "FAILED", "PROCESSING"} : Mark(w, status)
    BY <1>1
  <2>2. rows' = [rows EXCEPT ![id] = [RowOf(w) EXCEPT !.status = status]]
    BY <1>2, <2>1 DEF Mark, SetRow
  <2>3. [RowOf(w) EXCEPT !.status = status].dlq = rows[id].dlq
    BY <1>3 DEF Row
  <2> QED
    BY <2>2, <2>3
<1>5. AttemptOpen(w)'
  <2>1. work'[w].pc # "tx"
    BY <1>1, <1>2, WorkerFacts, PassLeads
  <2> QED
    BY <2>1 DEF AttemptOpen, Pending
<1>6. ASSUME NumbersOnce, ~DeadLettered
      PROVE  pg'.pause # "LEDGER_GAP"
  <2>1. ~RefuseGap(w)
    <3>1. SUFFICES ASSUME Message(Cur(w)).seq <= pg.seq
                   PROVE  FALSE
      BY DEF RefuseGap
    <3>2. Message(Cur(w)).seq \in DOMAIN bids /\ bids[Message(Cur(w)).seq] = Message(Cur(w))
      BY <1>3, <1>6, <3>1, OneDecision
    <3>3. rows[id].status \in Terminal
      BY <1>6, <3>2 DEF GapInv, SettledRows
    <3> QED
      BY <1>2, <1>3, <3>3
  <2>2. pg' = pg \/ Pause("LASTING")
    BY <2>1 DEF SkipOldEpoch, RefuseOldEpoch, AwaitPredecessor
  <2>3. pg'.pause = pg.pause \/ pg'.pause = "LASTING"
    BY <2>2 DEF Pause, SettlementInv, FactsInv
  <2> QED
    BY <1>6, <2>3 DEF GapInv
<1> HIDE DEF id
<1> QED
  BY <1>1, <1>2, <1>3, <1>4, <1>5, <1>6, GapRow DEF Alone

\* The other steps that fail a row: a conflict of two decisions is one of two
\* numbers that are the same, and a dead letter shows.
LEMMA GapFails ==
    ASSUME SettlementInv, GapInv, NEW w \in Workers, Alone(w), IdentityConflict(w) \/ DeadLetter(w)
    PROVE  GapInv'
<1> DEFINE id == Id(Message(Cur(w)))
<1>1. work[w] \in WorkerState /\ work[w].todo # {} /\ work \in [Workers -> WorkerState]
  BY WorkerFacts DEF IdentityConflict, DeadLetter, Single, Pending
<1>2. /\ id \in Ids /\ RowOf(w) \in Row /\ RowOf(w) = rows[id] /\ RowOK(id) /\ Cur(w) \in DOMAIN klog
      /\ Message(Cur(w)) \in Decision
  BY <1>1, CurFacts
<1>3. CASE IdentityConflict(w)
  <2>1. ~NumbersOnce
    <3>1. RowOf(w) # NoRow /\ klog[RowOf(w).off] # klog[Cur(w)]
      BY <1>3 DEF IdentityConflict, SameDecision
    <3>2. RowOf(w).off \in DOMAIN klog /\ Id(Message(RowOf(w).off)) = id
      BY <1>2, <3>1 DEF RowOK
    <3>3. Message(RowOf(w).off).seq = Message(Cur(w)).seq
      BY <3>2 DEF Id
    <3> QED
      BY <1>2, <3>1, <3>2, <3>3, OneDecision
  <2>2. ~NumbersOnce'
    BY <1>3, <2>1 DEF IdentityConflict, NumbersOnce, logVars
  <2>3. work'[w].pc # "tx"
    BY <1>1, <1>3 DEF IdentityConflict, WorkerState
  <2> QED
    BY <2>2, <2>3 DEF GapInv, AttemptOpen, Pending, Alone
<1>4. CASE DeadLetter(w)
  <2> DEFINE row == [RowOf(w) EXCEPT !.status = "FAILED", !.dlq = TRUE]
  <2>1. /\ rows' = rows \/ rows' = [rows EXCEPT ![id] = row]
        /\ pg' = pg \/ Pause("LASTING")
        /\ UNCHANGED <<stream, bids>>
    BY <1>4 DEF DeadLetter, SetRow, logVars
  <2>2. work'[w].pc # "tx"
    BY <1>1, <1>4 DEF DeadLetter, WorkerState
  <2>3. AttemptOpen(w)'
    BY <2>2 DEF AttemptOpen, Pending
  <2>4. pg'.pause = pg.pause \/ pg'.pause = "LASTING"
    BY <2>1 DEF Pause, SettlementInv, FactsInv
  <2>5. row.dlq
    BY <1>2 DEF Row
  <2>6. NumbersOnce' = NumbersOnce
    BY <2>1 DEF NumbersOnce
  <2> HIDE DEF row, id
  <2>7. CASE rows' = rows
    BY <2>1, <2>3, <2>4, <2>6, <2>7, GapKept DEF Alone
  <2>8. CASE rows' = [rows EXCEPT ![id] = row]
    BY <1>2, <2>1, <2>3, <2>4, <2>5, <2>8, GapRow DEF GapInv, Alone
  <2> QED
    BY <2>1, <2>7, <2>8
<1> QED
  BY <1>3, <1>4

\* A run is settled with its rows.
LEMMA GapSettles ==
    ASSUME SettlementInv, GapInv, UNCHANGED stream, NEW ds, Settles(ds), RowsSettled(ds),
           \A i \in DOMAIN ds : rows'[Id(ds[i])].status \in Terminal,
           \A id \in Ids : rows[id].dlq => rows'[id].dlq,
           \A w \in Workers : AttemptOpen(w)'
    PROVE  GapInv'
<1>1. NumbersOnce' = NumbersOnce
  BY DEF NumbersOnce
<1>2. pg'.pause = pg.pause
  BY DEF Settles
<1>3. ASSUME NumbersOnce, ~DeadLettered'
      PROVE  ~DeadLettered /\ SettledRows'
  <2>1. ~DeadLettered
    BY <1>3 DEF DeadLettered
  <2>2. SettledRows
    BY <1>3, <2>1 DEF GapInv
  <2>3. ASSUME NEW i \in DOMAIN bids'
        PROVE  rows'[Id(bids'[i])].status \in Terminal
    <3>1. bids \in Seq(Decision) /\ ds \in Seq(Decision) /\ bids' = bids \o ds
      BY DEF SettlementInv, FactsInv, Settles
    <3>2. \/ i \in DOMAIN bids /\ bids'[i] = bids[i]
          \/ \E j \in DOMAIN ds : bids'[i] = ds[j]
      <4>1. i \in 1..(Len(bids) + Len(ds)) /\ Len(bids) \in Nat /\ Len(ds) \in Nat
        BY <3>1
      <4>2. CASE i <= Len(bids)
        BY <3>1, <4>1, <4>2
      <4>3. CASE i > Len(bids)
        <5>1. i - Len(bids) \in DOMAIN ds /\ bids'[i] = ds[i - Len(bids)]
          BY <3>1, <4>1, <4>3
        <5> QED
          BY <5>1
      <4> QED
        BY <4>1, <4>2, <4>3
    <3>3. CASE i \in DOMAIN bids /\ bids'[i] = bids[i]
      <4>1. Id(bids[i]) \in Ids /\ rows[Id(bids[i])].status \in Terminal
        BY <2>2, <3>3, BidIs DEF SettledRows, SettlementInv
      <4>2. rows'[Id(bids[i])] = rows[Id(bids[i])] \/ rows'[Id(bids[i])].status = "SETTLED"
        BY <4>1 DEF RowsSettled
      <4> QED
        BY <3>3, <4>1, <4>2 DEF Terminal
    <3> QED
      BY <3>2, <3>3
  <2> QED
    BY <2>1, <2>3 DEF SettledRows
<1> QED
  BY <1>1, <1>2, <1>3 DEF GapInv


\* One decision settles with its row.
LEMMA GapSettleNext ==
    ASSUME SettlementInv, GapInv, NEW w \in Workers, Alone(w), SettleNext(w)
    PROVE  GapInv'
<1> DEFINE id == Id(Message(Cur(w)))
           ds == <<Message(Cur(w))>>
           row == [RowOf(w) EXCEPT !.status = "SETTLED"]
<1>1. /\ Pending(w, "tx") /\ Mark(w, "SETTLED") /\ UNCHANGED stream
      /\ work' = [work EXCEPT ![w] = Handled(w)]
  BY DEF SettleNext, logVars
<1>2. Settles(ds) /\ RowsSettled(ds)
  BY NextRow
<1>3. RowOf(w).off = Cur(w) /\ work[w].todo # {} /\ work[w] \in WorkerState
  BY <1>1, WorkerFacts DEF GapInv, AttemptOpen, Pending
<1>4. id \in Ids /\ RowOf(w) \in Row /\ RowOf(w) = rows[id]
  BY <1>3, CurFacts
<1>5. rows' = [rows EXCEPT ![id] = row]
  BY <1>1, <1>3 DEF Mark, SetRow
<1>6. row.status = "SETTLED" /\ row.dlq = rows[id].dlq
  BY <1>4 DEF Row
<1> HIDE DEF row
<1>7. rows'[id].status \in Terminal /\ \A other \in Ids : rows[other].dlq => rows'[other].dlq
  BY <1>4, <1>5, <1>6 DEF SettlementInv, RowsInv, Terminal
<1>8. \A i \in DOMAIN ds : rows'[Id(ds[i])].status \in Terminal
  BY <1>7
<1>9. AttemptOpen(w)'
  <2>1. work'[w].pc # "tx"
    BY <1>1, <1>3, WorkerFacts, PassLeads
  <2> QED
    BY <2>1 DEF AttemptOpen, Pending
<1> HIDE DEF ds, id
<1> QED
  BY <1>1, <1>2, <1>7, <1>8, <1>9, GapSettles DEF Alone

\* A batch settles with its rows.
LEMMA GapSettleBatch ==
    ASSUME SettlementInv, GapInv, NEW w \in Workers, Alone(w), SettleBatch(w)
    PROVE  GapInv'
<1> DEFINE ds == BatchRun(w)
<1>1. /\ HasBatch(w) /\ BatchIsNext(w) /\ UNCHANGED stream
      /\ IF FirstOf(w).kind = "quiet" THEN SettleRejectedBatch(ds) ELSE SettleAcceptedBatch(ds)
      /\ work' = [work EXCEPT ![w].pc = "batch", ![w].now = BatchOf(w)]
  BY DEF SettleBatch, BatchRun, logVars
<1>2. Settles(ds)
  BY <1>1, BatchSettles
<1>3. /\ RowsSettled(ds) /\ \A i \in DOMAIN ds : rows'[Id(ds[i])].status \in Terminal
      /\ \A id \in Ids : rows[id].dlq => rows'[id].dlq
  BY BatchRows DEF Terminal
<1>4. AttemptOpen(w)'
  <2>1. work' = [work EXCEPT ![w] = [work[w] EXCEPT !.pc = "batch", !.now = BatchOf(w)]]
    BY <1>1, WorkerFacts
  <2>2. [work[w] EXCEPT !.pc = "batch", !.now = BatchOf(w)].pc = "batch"
    BY WorkerFacts DEF WorkerState
  <2>3. work'[w].pc # "tx"
    BY <2>1, <2>2, WorkerFacts
  <2> QED
    BY <2>3 DEF AttemptOpen, Pending
<1> HIDE DEF ds
<1> QED
  BY <1>1, <1>2, <1>3, <1>4, GapSettles DEF Alone

\* The engine, the relay, the reconciler and the resume: the logs may grow.
LEMMA GapAround ==
    ASSUME SettlementInv, GapInv, UNCHANGED <<rows, bids, work>>,
           DOMAIN stream \subseteq DOMAIN stream', DOMAIN klog \subseteq DOMAIN klog',
           \A n \in DOMAIN stream : stream'[n] = stream[n],
           \A o \in DOMAIN klog : klog'[o] = klog[o],
           pg'.pause = pg.pause \/ pg'.pause # "LEDGER_GAP"
    PROVE  GapInv'
<1>1. NumbersOnce' => NumbersOnce
  BY DEF NumbersOnce
<1>2. ASSUME NEW w \in Workers
      PROVE  AttemptOpen(w)'
  <2> SUFFICES ASSUME Pending(w, "tx")
               PROVE  RowOf(w)' = RowOf(w) /\ Cur(w)' = Cur(w)
    BY DEF GapInv, AttemptOpen, Pending
  <2>1. Cur(w)' = Cur(w)
    BY DEF Cur
  <2>2. Cur(w) \in DOMAIN klog
    BY CurFacts, WorkerFacts DEF Pending
  <2>3. klog[Cur(w)] \in DOMAIN stream
    BY <2>2, MessageIs DEF SettlementInv
  <2>4. Message(Cur(w))' = Message(Cur(w))
    BY <2>1, <2>2, <2>3 DEF Message
  <2> QED
    BY <2>1, <2>4 DEF RowOf, Id
<1> QED
  BY <1>1, <1>2, GapKept

\* No step of a single worker takes a redelivery for a gap.
LEMMA GapWorker ==
    ASSUME SettlementInv, GapInv, NEW w \in Workers, Alone(w), WorkerProgress(w) \/ WorkerFault(w)
    PROVE  GapInv'
<1>1. CASE RecordAttempt(w) \/ DuplicateClaims(w)
  BY <1>1, GapAttempt
<1>2. CASE SettleBatch(w)
  BY <1>2, GapSettleBatch
<1>3. CASE SettleNext(w)
  BY <1>3, GapSettleNext
<1>4. CASE SkipOldEpoch(w) \/ RefuseOldEpoch(w) \/ AwaitPredecessor(w) \/ RefuseGap(w)
  BY <1>4, GapMark
<1>5. CASE IdentityConflict(w) \/ DeadLetter(w)
  BY <1>5, GapFails
<1>6. CASE Passive(w)
  BY <1>6, GapPassive
<1> QED
  BY <1>1, <1>2, <1>3, <1>4, <1>5, <1>6 DEF WorkerProgress, WorkerFault, Passive

\* A reconcile or a resume sets a pause of its own, or lifts one.
LEMMA GapSignal ==
    ASSUME SettlementInv, GapInv, NEW lag \in BOOLEAN, Signal(lag)
    PROVE  GapInv'
<1>1. UNCHANGED <<stream, klog, rows, bids, work>>
  BY DEF Signal, Reconcile, Resume, ResumePreflight, ResumeFirst, ResumeFirstCheckpoint, ResumeLoad,
         ResumeRefused, ResumeBumpEpoch, ResumeWrite, ResumePostflight, ResumeFails, logVars, pgVars
<1>2. pg'.pause = pg.pause \/ pg'.pause # "LEDGER_GAP"
  <2>1. pg \in [epoch: 1..MaxEpoch, seq: 0..MaxSeq, pub: 0..MaxSeq, leader: 0..MaxSeq, sold: BOOLEAN,
                pause: {"no", "LEDGER_GAP", "RECOVERABLE", "LASTING"}]
    BY DEF SettlementInv, FactsInv
  <2>2. ASSUME NEW finding, Reconciled(finding)
        PROVE  pg'.pause = pg.pause \/ pg'.pause # "LEDGER_GAP"
    BY <2>1, <2>2 DEF Reconciled, Pause, Paused, Unpaused
  <2>3. Unpaused => pg'.pause = pg.pause \/ pg'.pause # "LEDGER_GAP"
    BY <2>1 DEF Unpaused, Pause
  <2>4. ResumeBumpEpoch => pg'.pause = pg.pause
    BY <2>1 DEF ResumeBumpEpoch
  <2>5. \/ \E finding \in Findings(lag) : Reconciled(finding) \/ Unpaused
        \/ ResumeBumpEpoch
        \/ pg' = pg
    BY DEF Signal, Reconcile, Resume, ResumePreflight, ResumeFirst, ResumeFirstCheckpoint, ResumeLoad,
           ResumeRefused, ResumeWrite, ResumePostflight, ResumeFails, pgVars
  <2> QED
    BY <2>2, <2>3, <2>4, <2>5
<1> QED
  BY <1>1, <1>2, GapAround

\* At the start nothing is settled, paused or attempted.
LEMMA GapInit ==
    ASSUME Init
    PROVE  GapInv
<1>1. pg.pause # "LEDGER_GAP" /\ DOMAIN bids = {} /\ \A w \in Workers : work[w].pc # "tx"
  BY DEF Init, Fresh
<1> QED
  BY <1>1 DEF GapInv, SettledRows, AttemptOpen, Pending

================================================================================
