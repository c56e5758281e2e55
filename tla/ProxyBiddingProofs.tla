--------------------------- MODULE ProxyBiddingProofs ---------------------------
(***************************************************************************)
(* What holds of proxy bidding for any number of users, requests and calls *)
(* at once, and for any maxima: the proxies bid what they should, no more, *)
(* and not after a cancellation, and a manual bid left alone ends within    *)
(* three rounds.                                                           *)
(***************************************************************************)
EXTENDS ProxyBidding, FiniteSetTheorems, WellFoundedInduction, TLAPS

Anyone == Users \cup {Nobody}
IntentRow == [status : {"none", "ACTIVE", "CANCELLED", "EXHAUSTED", "TERMINAL"}, max : 0 .. Cap]
Rows == [Users -> IntentRow]
HotState == [status : {"ACTIVE", "SOLD"}, price : 0 .. Cap, leader : Anyone, auto : BOOLEAN]
Step == [who : Anyone, amount : 0 .. Cap, exhausted : SUBSET Users]

Answering == {"preempt", "preempt load", "preempt lock", "preempt bid", "lua"}
Resolving == {"read", "load", "mark", "bid"}
Triggering == {"trigger read", "trigger lock", "trigger bid"}
Bidding == {"preempt bid", "bid", "trigger bid"}
Call == [pc : Places, ask : 0 .. Cap, price : 0 .. Cap, leader : Anyone, known : [Users -> 0 .. Cap],
         rounds : 0 .. MaxRounds, step : Step]

LaneTypes ==
  /\ log \in Seq(HotState)
  /\ settled \in 0 .. Len(log)
  /\ intent \in Rows
  /\ births \in Seq(Nat)
  /\ lock \in [Users -> Anyone]
  /\ call \in [Users -> Call]
  /\ requests \in 0 .. MaxRequests
  /\ paused \in BOOLEAN
  /\ disturbed \in BOOLEAN
  /\ log = <<>> => Quiet /\ ~paused /\ ~disturbed /\ \A u \in Users : lock[u] = Nobody
  /\ log # <<>> => settled >= 1

\* Of two hot states the later has the higher price; at the cap there is no next one.
PricesRise ==
  /\ \A i, j \in DOMAIN log : i < j => log[i].price < log[j].price
  /\ \A i \in DOMAIN log : log[i].status = "ACTIVE" => log[i].price < Cap

\* Every intent has its place in the order of creation.
BornIn(rows) == \A u \in Users : rows[u].status # "none" => \E i \in DOMAIN births : births[i] = u

\* An amount the call y of user c may bid for user u: within the maximum it knows, and
\* one increment over another user's price or close to what another has shown.
FairIn(states, y, c, u, amount) ==
  /\ u \in Users /\ amount <= y.known[u]
  /\ \/ \E i \in DOMAIN states : states[i].price + 1 = amount /\ states[i].leader # u
     \/ \E r \in Users \ {u} : y.known[r] >= amount - 1 \/ (r = c /\ y.ask >= amount - 1)

\* What a call y of user c has read and chosen so far.
FairCall(y, c, states) ==
  /\ y.pc \in Answering => y.rounds = 0
  /\ y.pc = "trigger read" => y.ask <= y.known[c]
  /\ y.pc = "load" =>
       \E i \in DOMAIN states : states[i].price = y.price /\ states[i].leader = y.leader
  /\ y.pc \in {"preempt lock", "preempt bid", "bid", "trigger lock", "trigger bid"} =>
       FairIn(states, y, c, y.step.who, y.step.amount)
  /\ y.pc = "mark" /\ y.step.who # Nobody =>
       FairIn(states, y, c, y.step.who, y.step.amount) /\ y.step.who \notin y.step.exhausted
  /\ y.pc \in {"load", "mark", "bid"} => y.rounds < MaxRounds

\* A call y that is about to bid for user u.
BidsFor(y, u) == y.pc \in Bidding /\ y.step.who = u

\* A call that is about to bid for a user holds the lock of that user's intent.
LockedCall(y, c, locks) ==
  /\ y.pc \in Bidding => locks[y.step.who] = c
  /\ y.pc \in {"trigger lock", "trigger bid"} => y.step.who = c

\* An intent that is locked has not been cancelled, and the lock is held to bid for it.
LocksHold ==
  \A u \in Users : lock[u] # Nobody =>
    intent[u].status # "CANCELLED" /\ lock[u] \in Users /\ BidsFor(call[lock[u]], u)

\* Nobody is left outbid who would bid more.
Served(state, rows) == \A u \in ActiveIn(rows) : u = state.leader \/ rows[u].max <= state.price

\* The first of the intents is in the lead, or nobody is left to outbid the leader.
Leads(state, rows) ==
  \/ Served(state, rows)
  \/ /\ state.leader \in ActiveIn(rows)
     /\ \A u \in ActiveIn(rows) \ {state.leader} : Beats(rows, state.leader, u)

\* The choice to bid for the first of the intents, and an amount that
\* none of the others goes over.
Chosen(rows, who) ==
  who \in ActiveIn(rows) /\ \A u \in ActiveIn(rows) \ {who} : Beats(rows, who, u)
Closing(rows, who, amount) == \A u \in ActiveIn(rows) \ {who} : rows[u].max <= amount

\* In an auction that runs, a call nobody disturbs finds what it read unchanged, and
\* is one round closer to the end with every bid.
Looking(y, state, rows) ==
  /\ y.pc \in Answering => Served(state, rows)
  /\ y.pc = "preempt load" => y.ask > state.price
  /\ y.pc \in {"preempt lock", "preempt bid"} => y.step.who = state.leader
  /\ y.pc \in {"read", "load"} /\ y.rounds = 1 => Leads(state, rows)
  /\ y.pc \in {"read", "load"} /\ y.rounds = 2 => Served(state, rows)
  /\ y.pc = "load" => y.price = state.price /\ y.leader = state.leader
  /\ y.pc = "mark" /\ y.step.who = Nobody => Served(state, rows)
  /\ y.pc = "bid" \/ (y.pc = "mark" /\ y.step.who # Nobody) =>
       /\ y.step.amount > state.price /\ y.rounds <= 1
       /\ Chosen(rows, y.step.who)
       /\ y.rounds = 1 => Closing(rows, y.step.who, y.step.amount)

\* What a call that nobody disturbs is about.
Serving(y, state, rows) ==
  /\ y.pc \in Answering \cup Resolving
  /\ y.rounds <= 2
  /\ y.pc \in {"load", "mark", "bid"} => state.status = "ACTIVE"
  /\ state.status = "ACTIVE" => Looking(y, state, rows)

\* What a call leaves behind, or still has to do, when nobody disturbs it.
Outcome(y, state, rows) ==
  IF y = Idle THEN state.status = "ACTIVE" => Served(state, rows) ELSE Serving(y, state, rows)

Undisturbed ==
  Started /\ ~disturbed =>
    /\ ~paused
    /\ Quiet /\ Hot.status = "ACTIVE" => Served(Hot, intent)
    /\ \A c \in Users : call[c] # Idle =>
         Serving(call[c], Hot, intent) /\ \A u \in Users \ {c} : call[u] = Idle

LaneInv ==
  /\ LaneTypes
  /\ PricesRise
  /\ BornIn(intent)
  /\ \A c \in Users : FairCall(call[c], c, log) /\ LockedCall(call[c], c, lock)
  /\ LocksHold
  /\ Undisturbed

-----------------------------------------------------------------------------
(* Least, and the order of the intents *)

\* Least is what its name says.
LEMMA LeastIs ==
  ASSUME NEW S, S \subseteq Nat, S # {}
  PROVE  Least(S) \in S /\ \A y \in S : Least(S) <= y
<1> DEFINE T == {0 .. m : m \in S}
<1>1. T \subseteq FiniteSubsetsOf(Nat) /\ T # {}
  <2>1. ASSUME NEW m \in S
        PROVE  0 .. m \in FiniteSubsetsOf(Nat)
    <3>1. IsFiniteSet(0 .. m) /\ 0 .. m \subseteq Nat
      BY FS_Interval
    <3> QED
      BY <3>1 DEF FiniteSubsetsOf
  <2> QED
    BY <2>1
<1>2. PICK t \in T : \A u \in T : ~ (<<u, t>> \in StrictSubsetOrdering(Nat))
  <2> HIDE DEF T
  <2> QED
    BY <1>1, FS_StrictSubsetOrderingWellFounded, WFMin
<1>3. PICK x \in S : t = 0 .. x
  OBVIOUS
<1>4. ASSUME NEW y \in S
      PROVE  x <= y
  <2>1. x \in Nat /\ y \in Nat
    OBVIOUS
  <2>2. CASE y < x
    <3>1. 0 .. y \in T
      OBVIOUS
    <3>2. 0 .. y \subseteq 0 .. x /\ 0 .. y # 0 .. x /\ 0 .. x \subseteq Nat
      BY <2>1, <2>2
    <3>3. <<0 .. y, t>> \in StrictSubsetOrdering(Nat)
      BY <1>3, <3>2 DEF StrictSubsetOrdering
    <3> QED
      BY <1>2, <3>1, <3>3
  <2> QED
    BY <2>1, <2>2
<1> QED
  BY <1>4 DEF Least

\* A defender stays within its maximum, the cap, and one increment over the
\* challenge; it meets the challenge if it can, and goes over any price that all
\* three go over.
LEMMA DefendingAmountIs ==
  ASSUME NEW max \in 0 .. Cap, NEW challenge \in 0 .. Cap
  PROVE  /\ DefendingAmount(max, challenge) \in 0 .. Cap
         /\ DefendingAmount(max, challenge) <= max
         /\ DefendingAmount(max, challenge) <= challenge + 1
         /\ challenge <= max => challenge <= DefendingAmount(max, challenge)
         /\ \A p \in Nat : p < max /\ p < challenge /\ p < Cap => p < DefendingAmount(max, challenge)
<1> DEFINE a == IF max > challenge THEN challenge + 1 ELSE challenge
           S == {a, max, Cap}
<1>1. Cap \in Nat /\ max \in Nat /\ challenge \in Nat /\ max <= Cap
  BY MaxBidsAssumption
<1>2. a \in Nat /\ a <= challenge + 1 /\ a >= challenge
  BY <1>1
<1> HIDE DEF a
<1>3. Least(S) \in S /\ \A y \in S : Least(S) <= y
  BY <1>1, <1>2, LeastIs
<1>4. DefendingAmount(max, challenge) = Least(S)
  BY DEF DefendingAmount, a
<1> QED
  BY <1>1, <1>2, <1>3, <1>4

\* An intent that was created has its place.
LEMMA BornIs ==
  ASSUME births \in Seq(Nat), NEW rows, BornIn(rows), NEW u \in Users, rows[u].status # "none"
  PROVE  Born(u) \in Nat /\ births[Born(u)] = u
<1>1. \E i \in DOMAIN births : births[i] = u
  BY DEF BornIn
<1>2. Born(u) \in DOMAIN births /\ births[Born(u)] = u
  BY <1>1 DEF Born
<1> QED
  BY <1>2

\* Of some intents one comes before all the others.
LEMMA FirstIs ==
  ASSUME births \in Seq(Nat), NEW rows \in Rows, BornIn(rows),
         NEW us \in SUBSET Users, us # {}, \A u \in us : rows[u].status # "none"
  PROVE  First(rows, us) \in us /\ \A v \in us \ {First(rows, us)} : Beats(rows, First(rows, us), v)
<1>1. Cap \in Nat /\ \A u \in us : rows[u].max \in 0 .. Cap
  BY MaxBidsAssumption DEF Rows, IntentRow
<1>2. \A u \in us : Born(u) \in Nat /\ births[Born(u)] = u
  BY BornIs
<1> DEFINE M == {Cap - rows[u].max : u \in us}
<1>3. M \subseteq Nat /\ M # {}
  BY <1>1
<1>4. PICK top \in us : \A v \in us : rows[v].max <= rows[top].max
  <2>1. Least(M) \in M /\ \A y \in M : Least(M) <= y
    <3> HIDE DEF M
    <3> QED
      BY <1>3, LeastIs
  <2>2. PICK top \in us : Least(M) = Cap - rows[top].max
    BY <2>1
  <2>3. \A v \in us : Cap - rows[top].max <= Cap - rows[v].max
    BY <2>1, <2>2
  <2>4. \A v \in us : rows[v].max <= rows[top].max
    BY <1>1, <2>3
  <2> QED
    BY <2>4
<1> HIDE DEF M
<1> DEFINE T == {u \in us : rows[u].max = rows[top].max}
           B == {Born(u) : u \in T}
<1>5. B \subseteq Nat /\ B # {}
  BY <1>2
<1>6. PICK w \in T : \A v \in T : Born(w) <= Born(v)
  <2>1. Least(B) \in B /\ \A y \in B : Least(B) <= y
    <3> HIDE DEF B
    <3> QED
      BY <1>5, LeastIs
  <2>2. PICK w \in T : Least(B) = Born(w)
    BY <2>1
  <2> QED
    BY <2>1, <2>2
<1>7. ASSUME NEW v \in us \ {w}
      PROVE  Beats(rows, w, v)
  <2>1. rows[v].max \in Nat /\ rows[w].max \in Nat /\ rows[v].max <= rows[w].max
    BY <1>1, <1>4, <1>6
  <2>2. CASE rows[v].max = rows[w].max
    <3>1. Born(w) <= Born(v)
      BY <1>6, <2>2
    <3>2. Born(w) # Born(v)
      BY <1>2, <1>6, <1>7
    <3>3. Born(w) \in Nat /\ Born(v) \in Nat
      BY <1>2, <1>6, <1>7
    <3> QED
      BY <2>2, <3>1, <3>2, <3>3 DEF Beats
  <2> QED
    BY <2>1, <2>2 DEF Beats
<1>8. w \in us
  BY <1>6
<1> QED
  BY <1>7, <1>8 DEF First
\* Of two intents that were created one comes first, and the order is transitive.
LEMMA BeatsIs ==
  ASSUME births \in Seq(Nat), NEW rows \in Rows, BornIn(rows)
  PROVE  /\ \A u, v \in ActiveIn(rows) : u # v => Beats(rows, u, v) \/ Beats(rows, v, u)
         /\ \A u, v \in ActiveIn(rows) : Beats(rows, u, v) => rows[v].max <= rows[u].max
         /\ \A u, v, w \in ActiveIn(rows) : Beats(rows, u, v) /\ Beats(rows, v, w) => Beats(rows, u, w)
<1>1. \A u \in ActiveIn(rows) : u \in Users /\ rows[u].status # "none"
  BY DEF ActiveIn
<1>2. \A u \in ActiveIn(rows) : Born(u) \in Nat /\ births[Born(u)] = u
  BY <1>1, BornIs
<1>3. \A u \in ActiveIn(rows) : rows[u].max \in Nat
  <2>1. Cap \in Nat /\ \A u \in Users : rows[u] \in IntentRow
    BY MaxBidsAssumption DEF Rows
  <2>2. \A u \in Users : rows[u].max \in Nat
    BY <2>1 DEF IntentRow
  <2> QED
    BY <1>1, <2>2, Zenon
<1>4. \A u, v \in ActiveIn(rows) : u # v => Born(u) # Born(v)
  BY <1>2
<1>5. ASSUME NEW u \in ActiveIn(rows), NEW v \in ActiveIn(rows)
      PROVE  /\ u # v => Beats(rows, u, v) \/ Beats(rows, v, u)
             /\ Beats(rows, u, v) => rows[v].max <= rows[u].max
  <2>1. /\ Born(u) \in Nat /\ Born(v) \in Nat /\ rows[u].max \in Nat /\ rows[v].max \in Nat
        /\ u # v => Born(u) # Born(v)
    BY <1>2, <1>3, <1>4
  <2> QED
    BY <2>1 DEF Beats
<1>6. ASSUME NEW u \in ActiveIn(rows), NEW v \in ActiveIn(rows), NEW w \in ActiveIn(rows),
             Beats(rows, u, v), Beats(rows, v, w)
      PROVE  Beats(rows, u, w)
  <2>1. /\ Born(u) \in Nat /\ Born(v) \in Nat /\ Born(w) \in Nat
        /\ rows[u].max \in Nat /\ rows[v].max \in Nat /\ rows[w].max \in Nat
    BY <1>2, <1>3
  <2> QED
    BY <1>6, <2>1 DEF Beats
<1> QED
  BY <1>5, <1>6

\* What a step of nextAutoMaxBidStep that bids comes to.
StepBids(s, rows, step) ==
  /\ ~Served(s, rows)
  /\ step.who \in Users /\ step.who \notin step.exhausted
  /\ Chosen(rows, step.who)
  /\ Leads(s, rows) => Closing(rows, step.who, step.amount)
  /\ step.amount <= rows[step.who].max
  /\ s.price < Cap => step.amount > s.price
  /\ \/ step.amount = s.price + 1 /\ step.who # s.leader
     \/ \E r \in ActiveIn(rows) \ {step.who} : rows[r].max >= step.amount - 1

\* What nextAutoMaxBidStep decides: a bid for the first of the intents that is
\* executable, within the maximum, and no higher than it has to be; or none, when
\* nobody is left who would bid.
LEMMA NextStepIs ==
  ASSUME births \in Seq(Nat), NEW rows \in Rows, BornIn(rows),
         NEW s, s.price \in 0 .. Cap, s.leader \in Anyone
  PROVE  /\ NextStep(s, rows) \in Step
         /\ NextStep(s, rows).who = Nobody => Served(s, rows)
         /\ NextStep(s, rows).who # Nobody => StepBids(s, rows, NextStep(s, rows))
<1> DEFINE rivals == ActiveIn(rows) \ {s.leader}
           top == First(rows, rivals)
           step == NextStep(s, rows)
           amount == DefendingAmount(rows[s.leader].max, rows[top].max)
<1>1. /\ Cap \in Nat /\ s.price \in Nat /\ s.price <= Cap
      /\ \A u \in Users : rows[u].max \in 0 .. Cap /\ rows[u].max \in Nat /\ rows[u].max <= Cap
      /\ Nobody \notin Users
  BY MaxBidsAssumption DEF Rows, IntentRow, Nobody
<1>2. rivals \in SUBSET Users /\ \A u \in rivals : rows[u].status # "none"
  BY DEF ActiveIn
<1>3. CASE rivals = {}
  <2>1. step = NoStep({})
    BY <1>3 DEF NextStep
  <2>2. Served(s, rows)
    BY <1>3 DEF Served
  <2> QED
    BY <1>1, <2>1, <2>2 DEF NoStep, Step, Anyone
<1>4. CASE rivals # {}
  <2>1. top \in rivals /\ \A v \in rivals \ {top} : Beats(rows, top, v)
    <3> HIDE DEF rivals
    <3> QED
      BY <1>2, <1>4, FirstIs
  <2>2. top \in ActiveIn(rows) /\ top \in Users /\ top # s.leader
    BY <2>1 DEF ActiveIn
  <2> HIDE DEF top
  <2>2a. rows[top].max > s.price => ~Served(s, rows)
    BY <1>1, <2>2 DEF Served
  <2>2b. \A v \in rivals : rows[v].max <= rows[top].max
    <3>1. \A v \in rivals : v \in ActiveIn(rows)
      OBVIOUS
    <3>2. ASSUME NEW v \in rivals PROVE rows[v].max <= rows[top].max
      <4>1. CASE v = top
        BY <1>1, <2>2, <4>1
      <4>2. CASE v # top
        <5>1. Beats(rows, top, v) /\ v \in ActiveIn(rows)
          BY <2>1, <3>1, <4>2
        <5> QED
          BY <2>2, <5>1, BeatsIs
      <4> QED
        BY <4>1, <4>2
    <3> QED
      BY <3>2
  <2>3. CASE rows[top].max <= s.price
    <3>1. step = NoStep(rivals)
      BY <1>4, <2>3 DEF NextStep, top
    <3>2. \A v \in rivals : rows[v].max <= s.price
      BY <1>1, <1>2, <2>2, <2>2b, <2>3
    <3>3. Served(s, rows)
      BY <3>2 DEF Served
    <3> QED
      BY <1>1, <1>2, <3>1, <3>3 DEF NoStep, Step, Anyone
  <2>4. CASE rows[top].max > s.price /\ s.leader \in ActiveIn(rows) /\ Beats(rows, s.leader, top)
    <3>1. step = [who |-> s.leader, amount |-> amount, exhausted |-> {top}]
      BY <1>1, <1>4, <2>2, <2>4 DEF NextStep, top
    <3>2. s.leader \in Users
      BY <2>4 DEF ActiveIn
    <3>3. rows[s.leader].max >= rows[top].max
      BY <2>2, <2>4, BeatsIs
    <3>4. /\ amount \in 0 .. Cap /\ amount <= rows[s.leader].max /\ amount <= rows[top].max + 1
          /\ amount >= rows[top].max /\ (s.price < Cap => amount > s.price)
      <4>1. rows[s.leader].max \in 0 .. Cap /\ rows[top].max \in 0 .. Cap
        BY <1>1, <2>2, <3>2
      <4>2. s.price < rows[s.leader].max /\ s.price < rows[top].max
        BY <1>1, <2>2, <2>4, <3>2, <3>3
      <4>3. \A p \in Nat : p < rows[s.leader].max /\ p < rows[top].max /\ p < Cap => p < amount
        BY <4>1, DefendingAmountIs
      <4>4. amount \in 0 .. Cap /\ amount <= rows[s.leader].max /\ amount <= rows[top].max + 1
        BY <4>1, DefendingAmountIs
      <4>5. rows[top].max <= amount
        BY <3>3, <4>1, DefendingAmountIs
      <4> HIDE DEF amount
      <4> QED
        BY <1>1, <4>2, <4>3, <4>4, <4>5
    <3> HIDE DEF amount
    <3>5. rows[top].max >= amount - 1
      BY <1>1, <2>2, <3>4
    <3>6. /\ step \in Step /\ step.who = s.leader /\ step.amount = amount /\ step.exhausted = {top}
          /\ step.who # Nobody
      BY <1>1, <2>2, <3>1, <3>2, <3>4 DEF Step, Anyone
    <3>7. \A u \in rivals : Beats(rows, s.leader, u)
      <4>1. ASSUME NEW u \in rivals PROVE Beats(rows, s.leader, u)
        <5>1. u \in ActiveIn(rows) /\ (u = top \/ Beats(rows, top, u))
          BY <2>1
        <5> QED
          BY <2>2, <2>4, <5>1, BeatsIs
      <4> QED
        BY <4>1
    <3>8. Chosen(rows, s.leader)
      BY <2>4, <3>7 DEF Chosen
    <3>9. Closing(rows, s.leader, amount)
      <4>1. ASSUME NEW u \in rivals PROVE rows[u].max <= amount
        <5>1. rows[u].max \in Nat /\ rows[top].max \in Nat /\ amount \in Nat
          BY <1>1, <1>2, <2>2, <3>4
        <5> QED
          BY <2>2b, <3>4, <5>1
      <4> QED
        BY <4>1 DEF Closing
    <3> HIDE DEF step
    <3>10. StepBids(s, rows, step)
      BY <1>1, <2>2, <2>2a, <2>4, <3>2, <3>4, <3>5, <3>6, <3>8, <3>9 DEF StepBids
    <3> QED
      BY <3>6, <3>10 DEF step
  <2>5. CASE rows[top].max > s.price /\ ~(s.leader \in ActiveIn(rows) /\ Beats(rows, s.leader, top))
    <3> DEFINE next == s.price + 1
    <3>1. step = [who |-> top, amount |-> next, exhausted |-> {}]
      BY <1>1, <1>4, <2>2, <2>5 DEF NextStep, top
    <3>2. next \in 0 .. Cap /\ next <= rows[top].max /\ next > s.price
      BY <1>1, <2>2, <2>5
    <3>3. next = s.price + 1
      OBVIOUS
    <3> HIDE DEF next
    <3>4. /\ step \in Step /\ step.who = top /\ step.amount = next /\ step.exhausted = {}
          /\ step.who # Nobody
      BY <1>1, <2>2, <3>1, <3>2 DEF Step, Anyone
    <3>5. Chosen(rows, top)
      <4>1. ASSUME NEW u \in ActiveIn(rows) \ {top} PROVE Beats(rows, top, u)
        <5>1. CASE u = s.leader
          BY <2>2, <2>5, <5>1, BeatsIs
        <5>2. CASE u # s.leader
          BY <2>1, <5>2
        <5> QED
          BY <5>1, <5>2
      <4> QED
        BY <2>2, <4>1 DEF Chosen
    <3>6. ~Leads(s, rows)
      BY <2>2, <2>2a, <2>5 DEF Leads
    <3> HIDE DEF step
    <3>7. StepBids(s, rows, step)
      BY <1>1, <2>2, <2>2a, <2>5, <3>2, <3>3, <3>4, <3>5, <3>6 DEF StepBids
    <3> QED
      BY <3>4, <3>7 DEF step
  <2> QED
    BY <1>1, <2>2, <2>3, <2>4, <2>5
<1> QED
  BY <1>3, <1>4


-----------------------------------------------------------------------------
(* The bids at the start of the auction *)

\* Marking changes the status of active intents, and nothing else.
LEMMA MarkIs ==
  ASSUME NEW rows \in Rows, NEW us, NEW status \in {"EXHAUSTED", "TERMINAL"}
  PROVE  /\ Mark(rows, us, status) \in Rows
         /\ \A u \in Users : /\ Mark(rows, us, status)[u].max = rows[u].max
                             /\ Mark(rows, us, status)[u].status = "none" <=> rows[u].status = "none"
                             /\ Mark(rows, us, status)[u].status = "CANCELLED" <=> rows[u].status = "CANCELLED"
         /\ ActiveIn(Mark(rows, us, status)) = ActiveIn(rows) \ us
<1> DEFINE new(u) == IF u \in us /\ rows[u].status = "ACTIVE" THEN [rows[u] EXCEPT !.status = status]
                     ELSE rows[u]
<1>1. ASSUME NEW u \in Users
      PROVE  /\ new(u) \in IntentRow /\ new(u).max = rows[u].max
             /\ new(u).status = "none" <=> rows[u].status = "none"
             /\ new(u).status = "CANCELLED" <=> rows[u].status = "CANCELLED"
             /\ new(u).status = "ACTIVE" <=> rows[u].status = "ACTIVE" /\ u \notin us
  <2>1. rows[u] \in IntentRow
    BY DEF Rows
  <2>2. CASE u \in us /\ rows[u].status = "ACTIVE"
    BY <2>1, <2>2 DEF IntentRow
  <2>3. CASE ~(u \in us /\ rows[u].status = "ACTIVE")
    BY <2>1, <2>3 DEF IntentRow
  <2> QED
    BY <2>2, <2>3
<1>2. Mark(rows, us, status) = [u \in Users |-> new(u)]
  BY DEF Mark
<1> HIDE DEF new
<1> QED
  BY <1>1, <1>2 DEF Rows, ActiveIn

\* The hot state t after a bid on s.
IsAccepted(t, s, u, amount) ==
  /\ t \in HotState /\ t.price = amount /\ t.leader = u
  /\ t.status = "ACTIVE" => amount < Cap

\* An accepted bid is the hot state.
LEMMA AcceptIs ==
  ASSUME NEW s \in HotState, NEW u \in Users, NEW amount \in 0 .. Cap
  PROVE  /\ IsAccepted(Accept(s, u, amount, TRUE), s, u, amount)
         /\ IsAccepted(Accept(s, u, amount, FALSE), s, u, amount)
         /\ ~Accept(s, u, amount, FALSE).auto
<1>1. Cap \in Nat /\ amount <= Cap /\ amount \in Nat
  BY MaxBidsAssumption
<1>2. s.status \in {"ACTIVE", "SOLD"} /\ u \in Anyone
  BY DEF HotState, Anyone
<1>3. IsAccepted(Accept(s, u, amount, TRUE), s, u, amount)
  BY <1>1, <1>2 DEF IsAccepted, Accept, HotState
<1>4. IsAccepted(Accept(s, u, amount, FALSE), s, u, amount)
  BY <1>1, <1>2 DEF IsAccepted, Accept, HotState
<1> QED
  BY <1>3, <1>4 DEF Accept

\* A bid for the first of the intents puts it in the lead, whoever is exhausted by
\* then; one that closes leaves nobody who would bid more.
LEMMA BidLeads ==
  ASSUME NEW rows \in Rows, NEW more \in Rows, \A u \in Users : more[u].max = rows[u].max,
         ActiveIn(more) \subseteq ActiveIn(rows),
         NEW t, t.leader \in ActiveIn(more), Chosen(rows, t.leader)
  PROVE  Leads(t, more) /\ (Closing(rows, t.leader, t.price) => Served(t, more))
<1>1. \A u \in ActiveIn(more) : u \in Users /\ u \in ActiveIn(rows) /\ more[u].max = rows[u].max
  BY DEF ActiveIn
<1>2. \A u \in ActiveIn(more) \ {t.leader} : Beats(more, t.leader, u)
  BY <1>1 DEF Chosen, Beats
<1>3. Closing(rows, t.leader, t.price) => Served(t, more)
  BY <1>1 DEF Closing, Served
<1> QED
  BY <1>2, <1>3 DEF Leads

\* The rounds are over when the auction is sold or everyone is served.
Finished(x) == x.state.status # "ACTIVE" \/ Served(x.state, x.rows)

\* What every round leaves as it was, and when it is the last.
RoundOK(x, rows) ==
  /\ x \in [state : HotState, rows : Rows, done : BOOLEAN]
  /\ x.state.status = "ACTIVE" => x.state.price < Cap
  /\ \A u \in Users : /\ x.rows[u].max = rows[u].max
                      /\ x.rows[u].status = "none" <=> rows[u].status = "none"
  /\ x.done => Finished(x)

\* One round is enough to take the lead.
Ahead(x) == Finished(x) \/ Leads(x.state, x.rows)

\* A round of applyAutoMaxBid: the lead is taken, then the auction is closed, then
\* nobody bids.
LEMMA AutoRoundIs ==
  ASSUME births \in Seq(Nat), NEW rows \in Rows, BornIn(rows), NEW x, RoundOK(x, rows)
  PROVE  /\ RoundOK(AutoRound(x), rows)
         /\ Ahead(AutoRound(x))
         /\ Ahead(x) => Finished(AutoRound(x))
         /\ Finished(x) => AutoRound(x).done
<1> DEFINE step == NextStep(x.state, x.rows)
           y == AutoRound(x)
<1>1. /\ Cap \in Nat /\ x.state \in HotState /\ x.rows \in Rows /\ BornIn(x.rows) /\ x.done \in BOOLEAN
      /\ x.state.price \in 0 .. Cap /\ x.state.leader \in Anyone /\ Nobody \notin Users
  BY MaxBidsAssumption DEF RoundOK, BornIn, HotState, Nobody
<1>2. CASE x.done
  <2>1. y = x
    BY <1>2 DEF AutoRound
  <2> QED
    BY <1>2, <2>1 DEF RoundOK, Ahead
<1>3. CASE ~x.done /\ x.state.status # "ACTIVE"
  <2> DEFINE marked == Mark(x.rows, Users, "TERMINAL")
  <2>1. y = [x EXCEPT !.rows = marked, !.done = TRUE]
    BY <1>3 DEF AutoRound
  <2>2. marked \in Rows /\ \A u \in Users : /\ marked[u].max = x.rows[u].max
                                            /\ marked[u].status = "none" <=> x.rows[u].status = "none"
    BY <1>1, MarkIs
  <2> HIDE DEF marked
  <2>3. /\ y \in [state : HotState, rows : Rows, done : BOOLEAN]
        /\ y.state = x.state /\ y.rows = marked /\ y.done
    BY <1>1, <2>1, <2>2 DEF RoundOK
  <2> HIDE DEF y
  <2>4. Finished(y)
    BY <1>3, <2>3 DEF Finished
  <2> QED
    BY <1>3, <2>2, <2>3, <2>4 DEF y, RoundOK, Ahead
<1>4. CASE ~x.done /\ x.state.status = "ACTIVE" /\ step.who = Nobody
  <2> DEFINE us == step.exhausted \cup {u \in Users : x.rows[u].max <= x.state.price}
             marked == Mark(x.rows, us, "EXHAUSTED")
  <2>1. y = [x EXCEPT !.rows = marked, !.done = TRUE]
    BY <1>4 DEF AutoRound
  <2>2. marked \in Rows /\ \A u \in Users : /\ marked[u].max = x.rows[u].max
                                            /\ marked[u].status = "none" <=> x.rows[u].status = "none"
    BY <1>1, MarkIs
  <2>3. ActiveIn(marked) \subseteq ActiveIn(x.rows)
    BY <1>1, MarkIs
  <2>4. Served(x.state, x.rows)
    BY <1>1, <1>4, NextStepIs
  <2> HIDE DEF marked
  <2>5. /\ y \in [state : HotState, rows : Rows, done : BOOLEAN]
        /\ y.state = x.state /\ y.rows = marked /\ y.done
    BY <1>1, <2>1, <2>2 DEF RoundOK
  <2> HIDE DEF y
  <2>6. Finished(y)
    BY <2>2, <2>3, <2>4, <2>5 DEF Served, ActiveIn, Finished
  <2>7. RoundOK(y, rows)
    BY <2>2, <2>5, <2>6 DEF RoundOK
  <2> QED
    BY <2>5, <2>6, <2>7 DEF y, Ahead
<1>5. CASE ~x.done /\ x.state.status = "ACTIVE" /\ step.who # Nobody
  <2> DEFINE marked == Mark(x.rows, step.exhausted, "EXHAUSTED")
             sold == Accept(x.state, step.who, step.amount, TRUE)
  <2>1. y = [state |-> sold, rows |-> marked, done |-> FALSE]
    BY <1>5 DEF AutoRound
  <2>2. /\ marked \in Rows
        /\ \A u \in Users : /\ marked[u].max = x.rows[u].max
                            /\ marked[u].status = "none" <=> x.rows[u].status = "none"
        /\ ActiveIn(marked) = ActiveIn(x.rows) \ step.exhausted
    BY <1>1, MarkIs
  <2>3. StepBids(x.state, x.rows, step) /\ step \in Step
    BY <1>1, <1>5, NextStepIs
  <2> HIDE DEF step
  <2>4. step.who \in Users /\ step.amount \in 0 .. Cap /\ ~Served(x.state, x.rows)
    BY <2>3 DEF StepBids, Step
  <2>5. IsAccepted(sold, x.state, step.who, step.amount)
    <3> DEFINE who == step.who
               amount == step.amount
    <3>1. who \in Users /\ amount \in 0 .. Cap
      BY <2>4
    <3> HIDE DEF who, amount
    <3>2. IsAccepted(Accept(x.state, who, amount, TRUE), x.state, who, amount)
      BY <1>1, <3>1, AcceptIs
    <3> QED
      BY <3>2 DEF who, amount
  <2> HIDE DEF sold, marked
  <2>6. /\ sold \in HotState /\ sold.price = step.amount /\ sold.leader = step.who
        /\ sold.status = "ACTIVE" => step.amount < Cap
    BY <2>5 DEF IsAccepted
  <2>7. sold.leader \in ActiveIn(marked) /\ Chosen(x.rows, sold.leader)
    BY <2>2, <2>3, <2>6 DEF StepBids, Chosen
  <2>8. Leads(sold, marked) /\ (Closing(x.rows, sold.leader, sold.price) => Served(sold, marked))
    BY <1>1, <2>2, <2>7, BidLeads
  <2>9. /\ y \in [state : HotState, rows : Rows, done : BOOLEAN]
        /\ y.state = sold /\ y.rows = marked /\ ~y.done
    BY <2>1, <2>2, <2>6
  <2> HIDE DEF y
  <2>10. RoundOK(y, rows)
    BY <2>2, <2>6, <2>9 DEF RoundOK
  <2>11. Ahead(x) => Finished(y)
    BY <1>5, <2>3, <2>4, <2>6, <2>8, <2>9 DEF Ahead, Finished, StepBids
  <2>12. ~Finished(x) /\ Ahead(y)
    BY <1>5, <2>4, <2>8, <2>9 DEF Finished, Ahead
  <2> QED
    BY <2>10, <2>11, <2>12 DEF y
<1> QED
  BY <1>1, <1>2, <1>3, <1>4, <1>5

\* The results of the first k rounds from x on.
Rounds(f, x, k) == f = [n \in 0 .. k |-> IF n = 0 THEN x ELSE AutoRound(f[n - 1])]

\* There are as many rounds as one likes.
LEMMA RoundsExist ==
  ASSUME NEW x, NEW k \in Nat
  PROVE  \E f : Rounds(f, x, k)
<1> DEFINE Bad == {j \in Nat : ~ \E f : Rounds(f, x, j)}
<1>1. SUFFICES Bad = {}
  BY DEF Bad
<1>2. SUFFICES ASSUME Bad # {}
               PROVE  FALSE
  OBVIOUS
<1> DEFINE j == Least(Bad)
<1>3. j \in Bad /\ \A i \in Bad : j <= i
  <2>1. Bad \subseteq Nat
    OBVIOUS
  <2> HIDE DEF Bad
  <2> QED
    BY <1>2, <2>1, LeastIs
<1>4. j \in Nat /\ ~ \E f : Rounds(f, x, j)
  BY <1>3
<1> HIDE DEF j
<1>5. CASE j = 0
  <2> DEFINE f == [n \in 0 .. 0 |-> x]
  <2>1. Rounds(f, x, 0)
    BY DEF Rounds
  <2> QED
    BY <1>4, <1>5, <2>1
<1>6. CASE j # 0
  <2>1. j - 1 \in Nat /\ j - 1 \notin Bad
    BY <1>3, <1>4, <1>6
  <2>2. PICK g : Rounds(g, x, j - 1)
    BY <2>1
  <2> DEFINE f == [n \in 0 .. j |-> IF n = j THEN AutoRound(g[j - 1]) ELSE g[n]]
  <2>3. ASSUME NEW n \in 0 .. j
        PROVE  f[n] = IF n = 0 THEN x ELSE AutoRound(f[n - 1])
    <3>1. CASE n = j
      <4>1. f[n] = AutoRound(g[j - 1]) /\ f[n - 1] = g[j - 1] /\ n # 0
        BY <1>4, <1>6, <3>1
      <4> QED
        BY <3>1, <4>1
    <3>2. CASE n # j /\ n # 0
      <4>1. n \in 0 .. (j - 1) /\ n - 1 \in 0 .. (j - 1) /\ n - 1 # j /\ n - 1 \in 0 .. j
        BY <1>4, <3>2
      <4>2. f[n] = g[n] /\ f[n - 1] = g[n - 1]
        BY <3>2, <4>1
      <4>3. g[n] = AutoRound(g[n - 1])
        BY <2>2, <3>2, <4>1 DEF Rounds
      <4> QED
        BY <3>2, <4>2, <4>3
    <3>3. CASE n = 0
      <4>1. n \in 0 .. (j - 1) /\ n # j
        BY <1>4, <1>6, <3>3
      <4> QED
        BY <2>2, <3>3, <4>1 DEF Rounds
    <3> QED
      BY <3>1, <3>2, <3>3
  <2>4. Rounds(f, x, j)
    BY <2>3 DEF Rounds
  <2> QED
    BY <1>4, <2>4
<1> QED
  BY <1>5, <1>6

\* applyAutoMaxBid at the start of an auction: the rounds it may take are enough to
\* serve everyone or to sell, for every set of maxima.
LEMMA AutoMaxBidIs ==
  ASSUME births \in Seq(Nat), NEW rows \in Rows, BornIn(rows),
         NEW s \in HotState, s.status = "ACTIVE", s.price = 0
  PROVE  /\ RoundOK(AutoMaxBid(s, rows), rows) /\ Finished(AutoMaxBid(s, rows))
         /\ AutoMaxBid(s, rows).done
<1> DEFINE x == [state |-> s, rows |-> rows, done |-> FALSE]
           N == MaxRounds
           after == CHOOSE f : f = [n \in 0 .. N |-> IF n = 0 THEN x ELSE AutoRound(f[n - 1])]
<1>1. Cap \in Nat \ {0} /\ N \in Nat /\ N >= 3
  BY MaxBidsAssumption
<1>2. AutoMaxBid(s, rows) = after[N]
  BY DEF AutoMaxBid
<1>3. RoundOK(x, rows)
  BY <1>1 DEF RoundOK
<1> HIDE DEF x, N
<1>4. after = [n \in 0 .. N |-> IF n = 0 THEN x ELSE AutoRound(after[n - 1])]
  <2>1. \E f : Rounds(f, x, N)
    BY <1>1, RoundsExist
  <2>2. Rounds(CHOOSE f : Rounds(f, x, N), x, N)
    BY <2>1
  <2> QED
    BY <2>2 DEF Rounds
<1> HIDE DEF after
<1> DEFINE Good(n) == /\ RoundOK(after[n], rows)
                      /\ n >= 1 => Ahead(after[n])
                      /\ n >= 2 => Finished(after[n])
                      /\ n >= 3 => after[n].done
           Bad == {n \in 0 .. N : ~Good(n)}
<1>5. Bad = {}
  <2> SUFFICES ASSUME Bad # {}
               PROVE  FALSE
    OBVIOUS
  <2> DEFINE j == Least(Bad)
  <2>1. j \in Bad /\ \A i \in Bad : j <= i
    <3>1. Bad \subseteq Nat
      OBVIOUS
    <3> HIDE DEF Bad
    <3> QED
      BY <3>1, LeastIs
  <2>2. j \in 0 .. N /\ ~Good(j)
    BY <2>1
  <2> HIDE DEF j
  <2>3. CASE j = 0
    <3>1. after[0] = x
      BY <1>1, <1>4
    <3> QED
      BY <1>3, <2>2, <2>3, <3>1
  <2>4. CASE j # 0
    <3>1. j - 1 \in 0 .. N /\ j - 1 \notin Bad
      BY <1>1, <2>1, <2>2, <2>4
    <3>2. Good(j - 1)
      BY <3>1
    <3>3. after[j] = AutoRound(after[j - 1])
      BY <1>4, <2>2, <2>4
    <3>4. /\ RoundOK(after[j], rows)
          /\ Ahead(after[j])
          /\ Ahead(after[j - 1]) => Finished(after[j])
          /\ Finished(after[j - 1]) => after[j].done
      BY <3>2, <3>3, AutoRoundIs
    <3>5. j \in Nat /\ (j >= 2 => j - 1 >= 1) /\ (j >= 3 => j - 1 >= 2)
      BY <2>2
    <3> QED
      BY <2>2, <3>2, <3>4, <3>5
  <2> QED
    BY <2>3, <2>4
<1>6. Good(N)
  BY <1>1, <1>5
<1> QED
  BY <1>1, <1>2, <1>6


-----------------------------------------------------------------------------
(* Steps of one call *)

\* Types of what is used most.
LEMMA LaneFacts ==
  ASSUME LaneInv
  PROVE  /\ Cap \in Nat \ {0} /\ Nobody \notin Users /\ Nobody = 0
         /\ MaxRounds \in Nat /\ MaxRounds >= 3 /\ MaxRequests \in Nat
         /\ log \in Seq(HotState) /\ Len(log) \in Nat /\ DOMAIN log = 1 .. Len(log)
         /\ \A i \in DOMAIN log : /\ log[i] \in HotState /\ log[i].price \in 0 .. Cap
                                  /\ log[i].leader \in Anyone
         /\ intent \in Rows /\ births \in Seq(Nat) /\ BornIn(intent)
         /\ \A u \in Users : intent[u] \in IntentRow /\ intent[u].max \in 0 .. Cap
         /\ lock \in [Users -> Anyone] /\ call \in [Users -> Call]
         /\ requests \in 0 .. MaxRequests /\ paused \in BOOLEAN /\ disturbed \in BOOLEAN
         /\ LocksHold
         /\ \A c \in Users : FairCall(call[c], c, log) /\ LockedCall(call[c], c, lock)
         /\ \A c \in Users : call[c] \in Call
<1>1. LaneTypes /\ BornIn(intent) /\ LocksHold
  BY DEF LaneInv
<1>2. /\ Cap \in Nat \ {0} /\ Nobody \notin Users /\ Nobody = 0
      /\ MaxRounds \in Nat /\ MaxRounds >= 3 /\ MaxRequests \in Nat
  BY MaxBidsAssumption, ProxyBiddingAssumption DEF Nobody
<1>3. log \in Seq(HotState) /\ Len(log) \in Nat /\ DOMAIN log = 1 .. Len(log)
  BY <1>1 DEF LaneTypes
<1>4. \A i \in DOMAIN log : log[i] \in HotState
  BY <1>3
<1>5. \A i \in DOMAIN log : log[i].price \in 0 .. Cap /\ log[i].leader \in Anyone
  BY <1>4 DEF HotState
<1>6. /\ intent \in Rows /\ births \in Seq(Nat) /\ lock \in [Users -> Anyone] /\ call \in [Users -> Call]
      /\ requests \in 0 .. MaxRequests /\ paused \in BOOLEAN /\ disturbed \in BOOLEAN
  BY <1>1 DEF LaneTypes
<1>7. \A u \in Users : intent[u] \in IntentRow /\ intent[u].max \in 0 .. Cap
  BY <1>6 DEF Rows, IntentRow
<1>8. \A c \in Users : FairCall(call[c], c, log) /\ LockedCall(call[c], c, lock)
  BY DEF LaneInv
<1> QED
  BY <1>1, <1>2, <1>3, <1>4, <1>5, <1>6, <1>7, <1>8

\* The hot state of a started auction.
LEMMA HotIs ==
  ASSUME LaneInv, Started
  PROVE  /\ Len(log) \in DOMAIN log /\ Hot \in HotState /\ Hot = log[Len(log)]
         /\ Hot.price \in 0 .. Cap /\ Hot.leader \in Anyone
         /\ Hot.status = "ACTIVE" => Hot.price < Cap
         /\ \A i \in DOMAIN log : i # Len(log) => log[i].price < Hot.price
<1>1. log \in Seq(HotState) /\ Len(log) \in Nat /\ DOMAIN log = 1 .. Len(log)
  BY LaneFacts
<1>2. Len(log) \in DOMAIN log
  BY <1>1 DEF Started
<1>3. Hot \in HotState /\ Hot = log[Len(log)] /\ Hot.price \in 0 .. Cap /\ Hot.leader \in Anyone
  BY <1>2, LaneFacts DEF Hot
<1>4. Hot.status = "ACTIVE" => Hot.price < Cap
  BY <1>2, <1>3 DEF LaneInv, PricesRise
<1>5. \A i \in DOMAIN log : i # Len(log) => i < Len(log)
  BY <1>1
<1>6. \A i \in DOMAIN log : i # Len(log) => log[i].price < Hot.price
  BY <1>2, <1>3, <1>5 DEF LaneInv, PricesRise
<1> QED
  BY <1>2, <1>3, <1>4, <1>6

\* A bid becomes the hot state, and the prices rise.
LEMMA BidIs ==
  ASSUME LaneInv, Started, NEW t \in HotState, log' = Append(log, t),
         t.price > Hot.price, t.status = "ACTIVE" => t.price < Cap
  PROVE  /\ log' \in Seq(HotState) /\ log' # <<>> /\ Len(log') = Len(log) + 1 /\ Hot' = t
         /\ \A i \in DOMAIN log : i \in DOMAIN log' /\ log'[i] = log[i]
         /\ PricesRise'
<1>1. /\ log \in Seq(HotState) /\ Len(log) \in Nat /\ DOMAIN log = 1 .. Len(log)
      /\ \A i \in DOMAIN log : log[i].price \in Nat
  BY LaneFacts
<1>2. /\ log' \in Seq(HotState) /\ Len(log') = Len(log) + 1 /\ DOMAIN log' = 1 .. (Len(log) + 1)
      /\ log'[Len(log) + 1] = t
  BY <1>1
<1>3. \A i \in 1 .. Len(log) : log'[i] = log[i]
  BY <1>1
<1>4. Hot' = t
  BY <1>2 DEF Hot
<1>5. \A i \in DOMAIN log : i \in DOMAIN log' /\ log'[i] = log[i]
  BY <1>1, <1>2, <1>3
<1>6. \A i \in DOMAIN log' : i \in DOMAIN log \/ (i = Len(log) + 1 /\ \A j \in DOMAIN log : j < i)
  BY <1>1, <1>2
<1>7. t.price \in Nat /\ \A i \in DOMAIN log : log[i].price < t.price
  <2>1. Hot.price \in Nat /\ t.price \in Nat
    BY HotIs, LaneFacts DEF HotState
  <2>2. ASSUME NEW i \in DOMAIN log PROVE log[i].price < t.price
    <3>1. log[i].price <= Hot.price
      <4>1. log[i].price \in Nat
        BY <1>1
      <4> QED
        BY <2>1, <4>1, HotIs
    <3> QED
      BY <1>1, <2>1, <3>1
  <2> QED
    BY <2>1, <2>2
<1>8. ASSUME NEW i \in DOMAIN log', NEW j \in DOMAIN log', i < j
      PROVE  log'[i].price < log'[j].price
  <2>1. CASE j \in DOMAIN log
    <3>1. i \in DOMAIN log
      BY <1>1, <1>2, <1>8, <2>1
    <3> QED
      BY <1>5, <1>8, <2>1, <3>1 DEF LaneInv, PricesRise
  <2>2. CASE j \notin DOMAIN log
    <3>1. j = Len(log) + 1 /\ i \in DOMAIN log
      BY <1>1, <1>2, <1>8, <2>2
    <3> QED
      BY <1>2, <1>5, <1>7, <3>1
  <2> QED
    BY <2>1, <2>2
<1>9. ASSUME NEW i \in DOMAIN log', log'[i].status = "ACTIVE"
      PROVE  log'[i].price < Cap
  <2>1. CASE i \in DOMAIN log
    BY <1>5, <1>9, <2>1 DEF LaneInv, PricesRise
  <2>2. CASE i \notin DOMAIN log
    BY <1>2, <1>6, <1>9, <2>2
  <2> QED
    BY <2>1, <2>2
<1>10. PricesRise'
  BY <1>8, <1>9 DEF PricesRise
<1> QED
  BY <1>2, <1>4, <1>5, <1>10

\* The log is extended.
Grows(states) == \A i \in DOMAIN log : i \in DOMAIN states /\ states[i] = log[i]

\* What a call has read and chosen stays fair.
LEMMA CallKept ==
  ASSUME NEW states, Grows(states), NEW c, NEW y, FairCall(y, c, log)
  PROVE  FairCall(y, c, states)
<1>1. ASSUME NEW u, NEW amount, FairIn(log, y, c, u, amount)
      PROVE  FairIn(states, y, c, u, amount)
  <2>1. CASE \E i \in DOMAIN log : log[i].price + 1 = amount /\ log[i].leader # u
    <3>1. \E i \in DOMAIN states : states[i].price + 1 = amount /\ states[i].leader # u
      BY <2>1 DEF Grows
    <3> QED
      BY <1>1, <3>1 DEF FairIn
  <2>2. CASE ~\E i \in DOMAIN log : log[i].price + 1 = amount /\ log[i].leader # u
    BY <1>1, <2>2 DEF FairIn
  <2> QED
    BY <2>1, <2>2
<1>2. y.pc = "load" =>
        \E i \in DOMAIN states : states[i].price = y.price /\ states[i].leader = y.leader
  BY DEF FairCall, Grows
<1> QED
  BY <1>1, <1>2 DEF FairCall

\* In an auction in which nobody disturbs the call of c, the others are idle.
LEMMA AloneIs ==
  ASSUME LaneInv, Started, ~disturbed, NEW c \in Users, call[c] # Idle
  PROVE  ~paused /\ Serving(call[c], Hot, intent) /\ \A u \in Users \ {c} : call[u] = Idle
BY DEF LaneInv, Undisturbed

\* The locks after a step of the call of c, which becomes y: the others keep theirs,
\* and c holds one only to bid.
KeepsLocks(c, y, locks, rows) ==
  /\ locks \in [Users -> Anyone]
  /\ \A u \in Users : \A d \in Users \ {c} : lock[u] = d => locks[u] = d
  /\ \A u \in Users : locks[u] # Nobody =>
       /\ rows[u].status # "CANCELLED"
       /\ (locks[u] = c /\ BidsFor(y, u)) \/ (locks[u] = lock[u] /\ lock[u] # c)

\* What a call leaves behind that nobody disturbed.
Leaves(c, y) ==
  ~disturbed' =>
    ~paused' /\ Outcome(y, Hot', intent') /\ \A u \in Users \ {c} : call[u] = Idle

\* The order of the intents is the order of their creation.
LEMMA BeatsKept ==
  ASSUME births' = births
  PROVE  \A u, v : Beats(intent, u, v)' <=> Beats(intent', u, v)
<1>1. \A u : Born(u)' = Born(u)
  BY DEF Born
<1> QED
  BY <1>1 DEF Beats

\* What a call is about after a step that creates no intent.
LEMMA ServingNext ==
  ASSUME births' = births, NEW c \in Users, NEW y, call'[c] = y, Serving(y, Hot', intent')
  PROVE  Serving(call[c], Hot, intent)'
BY BeatsKept DEF Serving, Looking, Leads, Chosen, Closing, Served

\* A step of the call of c, which becomes y: what it must leave for LaneInv to hold.
LEMMA CallStepKeeps ==
  ASSUME LaneInv, Started, NEW c \in Users, NEW y \in Call, call' = [call EXCEPT ![c] = y],
         log' \in Seq(HotState), log' # <<>>, Len(log') >= Len(log), PricesRise', Grows(log'),
         intent' \in Rows, births' \in Seq(Nat), BornIn(intent)',
         KeepsLocks(c, y, lock', intent'), FairCall(y, c, log'), LockedCall(y, c, lock'),
         settled' = settled, requests' \in 0 .. MaxRequests, paused' \in BOOLEAN,
         disturbed' \in BOOLEAN, Leaves(c, y), disturbed' \/ births' = births
  PROVE  LaneInv'
<1>1. /\ call \in [Users -> Call] /\ \A d \in Users : call[d] \in Call
      /\ Len(log) \in Nat /\ settled \in 0 .. Len(log) /\ settled >= 1 /\ Nobody \notin Users
  BY LaneFacts DEF LaneInv, LaneTypes, Started
<1>2. call' \in [Users -> Call] /\ call'[c] = y /\ \A d \in Users \ {c} : call'[d] = call[d]
  BY <1>1
<1>3. LaneTypes'
  <2>1. Len(log') \in Nat
    OBVIOUS
  <2>2. settled' \in 0 .. Len(log') /\ settled' >= 1
    BY <1>1, <2>1
  <2>3. lock' \in [Users -> Anyone]
    BY DEF KeepsLocks
  <2> QED
    BY <1>2, <2>2, <2>3 DEF LaneTypes
<1>4. ASSUME NEW d \in Users
      PROVE  FairCall(call'[d], d, log') /\ LockedCall(call'[d], d, lock')
  <2>1. CASE d = c
    BY <1>2, <2>1
  <2>2. CASE d # c
    <3>1. call'[d] = call[d] /\ LockedCall(call[d], d, lock) /\ FairCall(call[d], d, log)
      BY <1>2, <2>2, LaneFacts
    <3>2. FairCall(call[d], d, log')
      BY <3>1, CallKept
    <3>3. call[d].pc \in Bidding => call[d].step.who \in Users
      BY <3>1 DEF FairCall, FairIn, Bidding
    <3>4. \A u \in Users : lock[u] = d => lock'[u] = d
      BY <2>2 DEF KeepsLocks
    <3>5. LockedCall(call[d], d, lock')
      BY <3>1, <3>3, <3>4 DEF LockedCall, Bidding
    <3> QED
      BY <3>1, <3>2, <3>5
  <2> QED
    BY <2>1, <2>2
<1>5. LocksHold'
  <2> SUFFICES ASSUME NEW u \in Users, lock'[u] # Nobody
               PROVE  /\ intent'[u].status # "CANCELLED" /\ lock'[u] \in Users
                      /\ BidsFor(call'[lock'[u]], u)
    BY DEF LocksHold, BidsFor
  <2>1. intent'[u].status # "CANCELLED"
    BY DEF KeepsLocks
  <2>2. CASE lock'[u] = c /\ BidsFor(y, u)
    BY <1>2, <2>1, <2>2
  <2>3. CASE lock'[u] = lock[u] /\ lock[u] # c
    <3>1. lock[u] \in Users /\ BidsFor(call[lock[u]], u)
      BY <2>3, LaneFacts DEF LocksHold
    <3> QED
      BY <1>2, <2>1, <2>3, <3>1
  <2> QED
    BY <2>2, <2>3 DEF KeepsLocks
<1>6. Undisturbed'
  <2> SUFFICES ASSUME Started', ~disturbed'
               PROVE  (/\ ~paused
                       /\ Quiet /\ Hot.status = "ACTIVE" => Served(Hot, intent)
                       /\ \A d \in Users : call[d] # Idle =>
                            Serving(call[d], Hot, intent) /\ \A u \in Users \ {d} : call[u] = Idle)'
    BY Zenon DEF Undisturbed
  <2>1. ~paused' /\ Outcome(y, Hot', intent') /\ \A u \in Users \ {c} : call'[u] = Idle
    BY <1>2 DEF Leaves
  <2>2. CASE y = Idle
    <3>1. (Hot'.status = "ACTIVE" => Served(Hot', intent')) /\ \A d \in Users : call'[d] = Idle
      BY <1>2, <2>1, <2>2 DEF Outcome
    <3> QED
      BY <2>1, <3>1
  <2>3. CASE y # Idle
    <3>1. ~Quiet' /\ Serving(y, Hot', intent')
      BY <1>2, <2>1, <2>3 DEF Quiet, Outcome
    <3>2. Serving(call[c], Hot, intent)' /\ \A d \in Users : call'[d] # Idle => d = c
      BY <1>2, <2>1, <3>1, ServingNext
    <3>3. (Quiet /\ Hot.status = "ACTIVE" => Served(Hot, intent))'
      BY <3>1
    <3>4. (\A d \in Users : call[d] # Idle =>
             Serving(call[d], Hot, intent) /\ \A u \in Users \ {d} : call[u] = Idle)'
      BY <2>1, <3>2, Zenon
    <3>5. (~paused)'
      BY <2>1
    <3> QED
      BY <3>3, <3>4, <3>5
  <2> QED
    BY <2>2, <2>3
<1> QED
  BY <1>3, <1>4, <1>5, <1>6 DEF LaneInv

\* A step of a call that may bid, or leaves the log as it is.
BidsOrNot ==
  \/ log' = log
  \/ \E t \in HotState : /\ log' = Append(log, t) /\ t.price > Hot.price
                         /\ t.status = "ACTIVE" => t.price < Cap

\* Intents that have at most lost their being active.
OnlyMarked ==
  /\ intent' \in Rows
  /\ \A u \in Users : /\ intent'[u].max = intent[u].max
                      /\ intent'[u].status = "none" <=> intent[u].status = "none"
                      /\ intent'[u].status = "CANCELLED" <=> intent[u].status = "CANCELLED"

\* The same for a step that may bid, mark intents and take or release a lock.
LEMMA CallBids ==
  ASSUME LaneInv, Started, NEW c \in Users, NEW y \in Call, call' = [call EXCEPT ![c] = y],
         BidsOrNot, OnlyMarked, UNCHANGED <<births, settled, requests>>,
         paused' \in BOOLEAN, disturbed' \in BOOLEAN,
         KeepsLocks(c, y, lock', intent),
         FairCall(y, c, log), LockedCall(y, c, lock'), Leaves(c, y)
  PROVE  LaneInv'
<1>1. births' = births /\ settled' = settled /\ requests' = requests
  OBVIOUS
<1>2. /\ log \in Seq(HotState) /\ log # <<>> /\ Len(log) \in Nat
      /\ births \in Seq(Nat) /\ requests \in 0 .. MaxRequests
  BY LaneFacts DEF Started
<1>3. /\ log' \in Seq(HotState) /\ log' # <<>> /\ Len(log') >= Len(log) /\ PricesRise'
      /\ \A i \in DOMAIN log : i \in DOMAIN log' /\ log'[i] = log[i]
  <2>1. CASE log' = log
    <3>1. PricesRise
      BY DEF LaneInv
    <3> QED
      BY <1>2, <2>1, <3>1 DEF PricesRise
  <2>2. CASE log' # log
    <3>1. PICK t \in HotState : /\ log' = Append(log, t) /\ t.price > Hot.price
                                /\ t.status = "ACTIVE" => t.price < Cap
      BY <2>2 DEF BidsOrNot
    <3> QED
      BY <1>2, <3>1, BidIs
  <2> QED
    BY <2>1, <2>2
<1>4. Grows(log')
  BY <1>3 DEF Grows
<1>5. FairCall(y, c, log')
  BY <1>4, CallKept
<1>6. BornIn(intent)' /\ KeepsLocks(c, y, lock', intent') /\ intent' \in Rows
  <2>1. BornIn(intent)
    BY LaneFacts
  <2> QED
    BY <1>1, <2>1 DEF BornIn, KeepsLocks, OnlyMarked
<1>7. births' \in Seq(Nat) /\ requests' \in 0 .. MaxRequests
  BY <1>1, <1>2
<1> QED
  BY <1>1, <1>3, <1>4, <1>5, <1>6, <1>7, CallStepKeeps

\* A call that is not about to bid holds no lock.
LEMMA SameLocks ==
  ASSUME LaneInv, NEW c \in Users, NEW y, call[c].pc \notin Bidding
  PROVE  KeepsLocks(c, y, lock, intent)
<1>1. lock \in [Users -> Anyone] /\ LocksHold
  BY LaneFacts
<1> QED
  BY <1>1 DEF KeepsLocks, LocksHold, BidsFor

\* The same when nothing but the call changes.
LEMMA CallMoves ==
  ASSUME LaneInv, Started, NEW c \in Users, call[c] # Idle, call[c].pc \notin Bidding,
         NEW y \in Call, call' = [call EXCEPT ![c] = y],
         UNCHANGED <<log, intent, births, settled, lock, sideVars>>,
         FairCall(y, c, log), LockedCall(y, c, lock),
         Serving(call[c], Hot, intent) /\ ~paused => Outcome(y, Hot, intent)
  PROVE  LaneInv'
<1>1. /\ log' = log /\ intent' = intent /\ births' = births /\ settled' = settled /\ lock' = lock
      /\ requests' = requests /\ paused' = paused /\ disturbed' = disturbed
  BY DEF sideVars
<1>2. intent \in Rows /\ disturbed \in BOOLEAN /\ paused \in BOOLEAN
  BY LaneFacts
<1>3. Hot' = Hot
  BY <1>1 DEF Hot
<1>4. Leaves(c, y)
  <2>1. ~disturbed => ~paused /\ Outcome(y, Hot, intent) /\ \A u \in Users \ {c} : call[u] = Idle
    BY AloneIs
  <2> QED
    BY <1>1, <1>3, <2>1 DEF Leaves
<1>5. UNCHANGED <<births, settled, requests>> /\ BidsOrNot /\ OnlyMarked
  BY <1>1, <1>2 DEF BidsOrNot, OnlyMarked
<1>6. KeepsLocks(c, y, lock', intent)
  BY <1>1, SameLocks
<1> QED
  BY <1>1, <1>2, <1>4, <1>5, <1>6, CallBids

\* An idle call owes nothing.
LEMMA IdleIs ==
  /\ Idle \in Call /\ Idle.pc = "idle"
  /\ \A c, states, locks : FairCall(Idle, c, states) /\ LockedCall(Idle, c, locks)
<1>1. Cap \in Nat /\ MaxRounds \in Nat
  BY MaxBidsAssumption
<1>2. NoStep({}) \in Step
  BY <1>1 DEF NoStep, Step, Anyone, Nobody
<1>3. Idle \in Call /\ Idle.pc = "idle"
  BY <1>1, <1>2 DEF Idle, Call, Anyone, Places
<1> QED
  BY <1>3 DEF FairCall, LockedCall, Answering, Bidding

\* A call that is under way belongs to an auction that has started.
LEMMA BusyIs ==
  ASSUME LaneInv, NEW c \in Users, call[c].pc # "idle"
  PROVE  /\ Started /\ call[c] # Idle /\ call[c] \in Call
         /\ call[c].ask \in 0 .. Cap /\ call[c].price \in 0 .. Cap /\ call[c].leader \in Anyone
         /\ call[c].known \in [Users -> 0 .. Cap] /\ call[c].rounds \in 0 .. MaxRounds
         /\ call[c].step \in Step /\ call[c].step.who \in Anyone /\ call[c].step.amount \in 0 .. Cap
         /\ call[c].step.exhausted \subseteq Users
<1>1. call[c] \in Call
  BY LaneFacts
<1>2. call[c] # Idle
  BY IdleIs
<1>3. Started
  BY <1>2 DEF LaneInv, LaneTypes, Quiet, Started
<1>4. call[c].step \in Step
  BY <1>1 DEF Call
<1> QED
  BY <1>1, <1>2, <1>3, <1>4 DEF Call, Step

\* The call of c becomes y, which differs from it in the place of the handler only, or
\* begins another round.
MovedTo(y, c, pc, rounds) ==
  /\ call' = [call EXCEPT ![c] = y] /\ y.pc = pc /\ y.rounds = rounds
  /\ y.ask = call[c].ask /\ y.price = call[c].price /\ y.leader = call[c].leader
  /\ y.known = call[c].known /\ y.step = call[c].step

\* Going to another place of the handler changes nothing else of the call.
LEMMA GoesIs ==
  ASSUME call \in [Users -> Call], NEW c \in Users, NEW pc, pc \in Places, Goes(c, pc)
  PROVE  \E y \in Call : MovedTo(y, c, pc, call[c].rounds)
<1> DEFINE y == [call[c] EXCEPT !.pc = pc]
<1>1. call[c] \in Call
  OBVIOUS
<1>2. y \in Call /\ y.pc = pc /\ y.rounds = call[c].rounds
  BY <1>1 DEF Call
<1>3. /\ y.ask = call[c].ask /\ y.price = call[c].price /\ y.leader = call[c].leader
      /\ y.known = call[c].known /\ y.step = call[c].step
  BY <1>1 DEF Call
<1>4. call' = [call EXCEPT ![c] = y]
  BY <1>1 DEF Goes
<1>5. MovedTo(y, c, pc, call[c].rounds)
  BY <1>2, <1>3, <1>4 DEF MovedTo
<1> QED
  BY <1>2, <1>5

\* Going on to the next round.
LEMMA GoesOnIs ==
  ASSUME LaneInv, NEW c \in Users, call[c].rounds < MaxRounds, GoesOn(c)
  PROVE  \E y \in Call : MovedTo(y, c, "read", call[c].rounds + 1)
<1> DEFINE next == call[c].rounds + 1
           y == [call[c] EXCEPT !.pc = "read", !.rounds = next]
<1>1. call[c] \in Call /\ MaxRounds \in Nat /\ call \in [Users -> Call]
  BY LaneFacts
<1>2. next \in 0 .. MaxRounds
  <2>1. call[c].rounds \in 0 .. MaxRounds
    BY <1>1 DEF Call
  <2> QED
    BY <1>1, <2>1
<1>3. call' = [call EXCEPT ![c] = y]
  BY <1>1 DEF GoesOn
<1>4. next = call[c].rounds + 1
  OBVIOUS
<1> HIDE DEF next
<1>5. y \in Call /\ y.pc = "read" /\ y.rounds = next
  BY <1>1, <1>2 DEF Call, Places
<1>6. /\ y.ask = call[c].ask /\ y.price = call[c].price /\ y.leader = call[c].leader
      /\ y.known = call[c].known /\ y.step = call[c].step
  BY <1>1 DEF Call
<1>7. MovedTo(y, c, "read", next)
  BY <1>3, <1>5, <1>6 DEF MovedTo
<1> QED
  BY <1>4, <1>5, <1>7

\* An answered call is idle.
LEMMA AnsweredMoves ==
  ASSUME LaneInv, NEW c \in Users, call[c].pc # "idle", call[c].pc \notin Bidding, Answered(c),
         UNCHANGED <<log, intent, births, settled, lock, sideVars>>,
         Serving(call[c], Hot, intent) /\ ~paused /\ Hot.status = "ACTIVE" => Served(Hot, intent)
  PROVE  LaneInv'
<1>1. call' = [call EXCEPT ![c] = Idle]
  BY DEF Answered
<1> QED
  BY <1>1, IdleIs, BusyIs, CallMoves DEF Outcome

\* A challenger that no proxy pre-empts goes to the Lua script.
LEMMA LuaMoves ==
  ASSUME LaneInv, NEW c \in Users, call[c].pc \in Answering \ Bidding, Goes(c, "lua"),
         UNCHANGED <<log, intent, births, settled, lock, sideVars>>
  PROVE  LaneInv'
<1>1. /\ call \in [Users -> Call] /\ FairCall(call[c], c, log)
      /\ Started /\ call[c] # Idle /\ "lua" \in Places
  BY LaneFacts, BusyIs DEF Answering, Places
<1>2. PICK y \in Call : MovedTo(y, c, "lua", call[c].rounds)
  BY <1>1, GoesIs
<1> USE DEF MovedTo
<1>3. FairCall(y, c, log) /\ LockedCall(y, c, lock)
  BY <1>1, <1>2 DEF FairCall, LockedCall, Answering, Bidding
<1>4. Serving(call[c], Hot, intent) => Outcome(y, Hot, intent)
  BY <1>2, IdleIs DEF Outcome, Serving, Looking, Answering, Resolving
<1> QED
  BY <1>1, <1>2, <1>3, <1>4, CallMoves

\* The maxima a call loads.
LEMMA LoadedIs ==
  ASSUME LaneInv
  PROVE  /\ Loaded \in [Users -> 0 .. Cap]
         /\ \A u \in ActiveIn(intent) : Loaded[u] = intent[u].max
<1>1. \A u \in Users : intent[u].max \in 0 .. Cap /\ 0 \in 0 .. Cap
  BY LaneFacts
<1> QED
  BY <1>1 DEF Loaded, ActiveIn

\* A step that takes or releases a lock, and changes nothing else but the call.
LEMMA CallLocks ==
  ASSUME LaneInv, Started, NEW c \in Users, call[c] # Idle,
         NEW y \in Call, call' = [call EXCEPT ![c] = y],
         UNCHANGED <<log, intent, births, settled, sideVars>>, KeepsLocks(c, y, lock', intent),
         FairCall(y, c, log), LockedCall(y, c, lock'),
         Serving(call[c], Hot, intent) => Outcome(y, Hot, intent)
  PROVE  LaneInv'
<1>1. /\ log' = log /\ intent' = intent /\ births' = births /\ settled' = settled
      /\ requests' = requests /\ paused' = paused /\ disturbed' = disturbed
  BY DEF sideVars
<1>2. intent \in Rows /\ disturbed \in BOOLEAN /\ paused \in BOOLEAN
  BY LaneFacts
<1>3. Hot' = Hot
  BY <1>1 DEF Hot
<1>4. Leaves(c, y)
  BY <1>1, <1>3, AloneIs DEF Leaves
<1>5. UNCHANGED <<births, settled, requests>> /\ BidsOrNot /\ OnlyMarked
  BY <1>1, <1>2 DEF BidsOrNot, OnlyMarked
<1> QED
  BY <1>1, <1>2, <1>4, <1>5, CallBids

\* preemptHotProxyChallenger, the read of the hot state.
LEMMA PreemptReadKeeps ==
  ASSUME LaneInv, NEW c \in Users, PreemptRead(c)
  PROVE  LaneInv'
<1>1. /\ call[c].pc = "preempt" /\ UNCHANGED <<log, intent, births, settled, lock, sideVars>>
      /\ call \in [Users -> Call] /\ FairCall(call[c], c, log) /\ call[c].pc \notin Bidding
  BY LaneFacts DEF PreemptRead, Bidding
<1>2. Started /\ call[c] \in Call /\ call[c] # Idle
  BY <1>1, BusyIs
<1> DEFINE meets == ~paused /\ Hot.status = "ACTIVE" /\ Hot.leader # c /\ call[c].ask > Hot.price
<1>3. CASE meets
  <2> DEFINE y == [call[c] EXCEPT !.pc = "preempt load", !.price = Hot.price, !.leader = Hot.leader]
  <2>1. call' = [call EXCEPT ![c] = y]
    BY <1>1, <1>2, <1>3 DEF PreemptRead
  <2>2. Hot.price \in 0 .. Cap /\ Hot.leader \in Anyone
    BY <1>2, HotIs
  <2>3. y \in Call /\ y.pc = "preempt load" /\ y.ask = call[c].ask /\ y.rounds = call[c].rounds
    BY <1>2, <2>2 DEF Call, Places
  <2> HIDE DEF y
  <2>4. FairCall(y, c, log) /\ LockedCall(y, c, lock)
    BY <1>1, <2>3 DEF FairCall, LockedCall, Answering, Bidding
  <2>5. Serving(call[c], Hot, intent) => Outcome(y, Hot, intent)
    BY <1>1, <1>3, <2>3, IdleIs DEF Outcome, Serving, Looking, Answering, Resolving
  <2> QED
    BY <1>1, <1>2, <2>1, <2>3, <2>4, <2>5, CallMoves
<1>4. CASE ~meets
  <2>1. Goes(c, "lua")
    BY <1>4 DEF PreemptRead
  <2> QED
    BY <1>1, <2>1, LuaMoves DEF Answering
<1> QED
  BY <1>3, <1>4

\* ... and the choice of the defender: undisturbed, it is the leader.
LEMMA PreemptLoadKeeps ==
  ASSUME LaneInv, NEW c \in Users, PreemptLoad(c)
  PROVE  LaneInv'
<1> DEFINE able == {u \in ActiveIn(intent) \ {c} : intent[u].max >= call[c].ask}
           who == First(intent, able)
           amount == DefendingAmount(intent[who].max, call[c].ask)
<1>1. /\ call[c].pc = "preempt load" /\ UNCHANGED <<log, intent, births, settled, lock, sideVars>>
      /\ call \in [Users -> Call] /\ FairCall(call[c], c, log) /\ call[c].pc \notin Bidding
  BY LaneFacts DEF PreemptLoad, Bidding
<1>2. Started /\ call[c] \in Call /\ call[c] # Idle /\ call[c].ask \in 0 .. Cap
  BY <1>1, BusyIs
<1>3. CASE able = {}
  <2>1. Goes(c, "lua")
    BY <1>3 DEF PreemptLoad
  <2> HIDE DEF able, who, amount
  <2> QED
    BY <1>1, <2>1, LuaMoves DEF Answering
<1>4. CASE able # {}
  <2>1. who \in able
    <3>1. able \in SUBSET Users /\ \A u \in able : intent[u].status # "none"
      BY DEF ActiveIn
    <3> HIDE DEF able
    <3> QED
      BY <1>4, <3>1, LaneFacts, FirstIs
  <2>2. /\ who \in Users /\ who # c /\ who \in ActiveIn(intent) /\ intent[who].max >= call[c].ask
        /\ intent[who].status = "ACTIVE"
    BY <2>1 DEF ActiveIn
  <2>3. call' = [call EXCEPT ![c].pc = "preempt lock", ![c].known = Loaded,
                   ![c].step = [who |-> who, amount |-> amount, exhausted |-> {}]]
    BY <1>4 DEF PreemptLoad
  <2> HIDE DEF who
  <2>4. amount \in 0 .. Cap /\ amount <= intent[who].max /\ amount <= call[c].ask + 1
    BY <1>2, <2>2, LaneFacts, DefendingAmountIs
  <2> HIDE DEF amount
  <2> DEFINE step == [who |-> who, amount |-> amount, exhausted |-> {}]
             y == [call[c] EXCEPT !.pc = "preempt lock", !.known = Loaded, !.step = step]
  <2>5. step \in Step /\ step.who = who /\ step.amount = amount
    BY <2>2, <2>4 DEF Step, Anyone
  <2>6. call' = [call EXCEPT ![c] = y]
    BY <1>1, <1>2, <2>3
  <2> HIDE DEF step
  <2>7. Loaded \in [Users -> 0 .. Cap] /\ Loaded[who] = intent[who].max
    BY <2>2, LoadedIs
  <2>8. /\ y \in Call /\ y.pc = "preempt lock" /\ y.ask = call[c].ask /\ y.step = step
        /\ y.known = Loaded /\ y.rounds = call[c].rounds
    BY <1>2, <2>5, <2>7 DEF Call, Places
  <2> HIDE DEF y
  <2>9. FairIn(log, y, c, who, amount)
    <3>1. intent[who].max \in Nat /\ call[c].ask \in Nat /\ amount \in Nat
      BY <1>2, <2>2, <2>4, LaneFacts
    <3>2. y.known[who] = intent[who].max /\ y.ask = call[c].ask
      BY <2>7, <2>8
    <3>3. amount <= y.known[who] /\ y.ask >= amount - 1
      <4>1. amount <= intent[who].max /\ amount <= call[c].ask + 1
        BY <2>4
      <4> QED
        BY <3>1, <3>2, <4>1
    <3> QED
      BY <2>2, <3>3 DEF FairIn
  <2>10. FairCall(y, c, log) /\ LockedCall(y, c, lock)
    BY <1>1, <2>5, <2>8, <2>9 DEF FairCall, LockedCall, Answering, Bidding
  <2>11. ASSUME Serving(call[c], Hot, intent)
         PROVE  Outcome(y, Hot, intent)
    <3>1. Hot.status = "ACTIVE" => Served(Hot, intent) /\ call[c].ask > Hot.price
      BY <1>1, <2>11 DEF Serving, Looking, Answering
    <3>2. Hot.status = "ACTIVE" => intent[who].max > Hot.price
      BY <1>2, <2>2, <3>1, LaneFacts, HotIs
    <3>3. Hot.status = "ACTIVE" => who = Hot.leader
      BY <1>2, <2>2, <3>1, <3>2, LaneFacts, HotIs DEF Served
    <3> QED
      BY <1>1, <2>5, <2>8, <2>11, <3>1, <3>3, IdleIs DEF Outcome, Serving, Looking, Answering, Resolving
  <2> QED
    BY <1>1, <1>2, <2>6, <2>8, <2>10, <2>11, CallMoves
<1> QED
  BY <1>3, <1>4

\* lockActiveHotProxyIntent takes a lock that is free, on an intent that is not cancelled.
LEMMA LockIs ==
  ASSUME LaneInv, NEW c \in Users, call[c].pc \notin Bidding, NEW who \in Users, NEW y, BidsFor(y, who),
         Lockable(who), lock' = [lock EXCEPT ![who] = c]
  PROVE  KeepsLocks(c, y, lock', intent) /\ lock'[who] = c
<1>1. lock \in [Users -> Anyone] /\ Nobody \notin Users
  BY LaneFacts
<1>2. lock[who] = Nobody /\ intent[who].status = "ACTIVE"
  BY DEF Lockable
<1>3. KeepsLocks(c, y, lock, intent)
  BY SameLocks
<1> QED
  BY <1>1, <1>2, <1>3 DEF Anyone, KeepsLocks

\* Closing the connection releases the locks of this call, and no others.
LEMMA UnlockIs ==
  ASSUME LaneInv, NEW c \in Users, NEW y, Unlock(c)
  PROVE  KeepsLocks(c, y, lock', intent)
<1>1. lock \in [Users -> Anyone] /\ LocksHold
  BY LaneFacts
<1> QED
  BY <1>1 DEF Unlock, Anyone, LocksHold, KeepsLocks

\* An accepted bid of a proxy.
LEMMA AutoBidIs ==
  ASSUME LaneInv, NEW c \in Users, call[c].pc # "idle", call[c].step.who \in Users,
         AutoAccepted(call[c].step.amount), AutoBid(c)
  PROVE  /\ BidsOrNot /\ OnlyMarked
         /\ Hot' = log'[Len(log')] /\ Len(log') = Len(log) + 1
         /\ Hot'.price = call[c].step.amount /\ Hot'.leader = call[c].step.who
         /\ Hot.status = "ACTIVE" /\ Hot'.price > Hot.price
         /\ Hot'.status = "ACTIVE" => intent' = intent
<1> DEFINE who == call[c].step.who
           amount == call[c].step.amount
           t == Accept(Hot, who, amount, TRUE)
<1>1. Started /\ amount \in 0 .. Cap /\ who \in Users
  BY BusyIs
<1>2. Hot \in HotState /\ Hot.status = "ACTIVE" /\ amount > Hot.price
  BY <1>1, HotIs DEF AutoAccepted, Executable
<1>3. log' = Append(log, t) /\ intent' = IF log'[Len(log')].status = "SOLD" THEN Mark(intent, Users, "TERMINAL")
                                        ELSE intent
  BY DEF AutoBid
<1> HIDE DEF amount, who
<1>4a. IsAccepted(t, Hot, who, amount)
  BY <1>1, <1>2, AcceptIs
<1> HIDE DEF t
<1>4. t \in HotState /\ t.price = amount /\ t.leader = who /\ (t.status = "ACTIVE" => t.price < Cap)
  BY <1>4a DEF IsAccepted
<1>5. Hot' = t /\ Len(log') = Len(log) + 1
  BY <1>1, <1>2, <1>3, <1>4, BidIs
<1>6. Hot' = log'[Len(log')]
  BY DEF Hot
<1>7. t.status = "ACTIVE" => intent' = intent
  BY <1>3, <1>5, <1>6
<1>8. OnlyMarked
  <2>1. intent \in Rows
    BY LaneFacts
  <2>2. CASE intent' = intent
    BY <2>1, <2>2 DEF OnlyMarked
  <2>3. CASE intent' = Mark(intent, Users, "TERMINAL")
    BY <2>1, <2>3, MarkIs DEF OnlyMarked
  <2> QED
    BY <1>3, <2>2, <2>3
<1>9. BidsOrNot
  BY <1>2, <1>3, <1>4 DEF BidsOrNot
<1> QED
  BY <1>2, <1>4, <1>5, <1>6, <1>7, <1>8, <1>9 DEF amount, who

\* The proxy that meets a challenger takes the lock of its intent.
LEMMA PreemptLockKeeps ==
  ASSUME LaneInv, NEW c \in Users, PreemptLock(c)
  PROVE  LaneInv'
<1>1. /\ call[c].pc = "preempt lock" /\ UNCHANGED <<log, intent, births, settled, sideVars>>
      /\ call \in [Users -> Call] /\ FairCall(call[c], c, log) /\ call[c].pc \notin Bidding
  BY LaneFacts DEF PreemptLock, Bidding
<1>2. Started /\ call[c] \in Call /\ call[c] # Idle
  BY <1>1, BusyIs
<1>3. CASE Lockable(call[c].step.who)
  <2>1. /\ Goes(c, "preempt bid") /\ lock' = [lock EXCEPT ![call[c].step.who] = c]
        /\ "preempt bid" \in Places
    BY <1>3 DEF PreemptLock, Places
  <2>2. call[c].step.who \in Users
    BY <1>1 DEF FairCall, FairIn
  <2>3. PICK y \in Call : MovedTo(y, c, "preempt bid", call[c].rounds)
    BY <1>1, <2>1, GoesIs
  <2> USE DEF MovedTo
  <2>4. BidsFor(y, call[c].step.who)
    BY <2>3 DEF BidsFor, Bidding
  <2>5. KeepsLocks(c, y, lock', intent) /\ lock'[call[c].step.who] = c
    BY <1>1, <1>3, <2>1, <2>2, <2>4, LockIs
  <2>6. FairCall(y, c, log) /\ LockedCall(y, c, lock')
    BY <1>1, <2>3, <2>5 DEF FairCall, LockedCall, Answering, Bidding, FairIn
  <2>7. Serving(call[c], Hot, intent) => Outcome(y, Hot, intent)
    BY <1>1, <2>3, IdleIs DEF Outcome, Serving, Looking, Answering, Resolving
  <2> QED
    BY <1>1, <1>2, <2>3, <2>5, <2>6, <2>7, CallLocks
<1>4. CASE ~Lockable(call[c].step.who)
  <2>1. Goes(c, "lua") /\ UNCHANGED <<log, intent, births, settled, lock, sideVars>>
    BY <1>1, <1>4 DEF PreemptLock
  <2> QED
    BY <1>1, <2>1, LuaMoves DEF Answering
<1> QED
  BY <1>3, <1>4

\* The bid that pre-empts a challenger: undisturbed, the leader raises its own price,
\* and serves who was served before.
LEMMA PreemptBidKeeps ==
  ASSUME LaneInv, NEW c \in Users, PreemptBid(c)
  PROVE  LaneInv'
<1>1. /\ call[c].pc = "preempt bid" /\ Unlock(c) /\ UNCHANGED <<births, settled, requests>>
      /\ disturbed' = disturbed /\ paused' = paused
      /\ call \in [Users -> Call] /\ FairCall(call[c], c, log)
      /\ intent \in Rows /\ disturbed \in BOOLEAN /\ paused \in BOOLEAN
  BY LaneFacts DEF PreemptBid, sideVars
<1>2. Started /\ call[c] \in Call /\ call[c] # Idle /\ call[c].step.who \in Users
  BY <1>1, BusyIs DEF FairCall, FairIn
<1>3. CASE AutoAccepted(call[c].step.amount)
  <2>1. call' = [call EXCEPT ![c] = Idle] /\ AutoBid(c)
    BY <1>3 DEF PreemptBid, Answered
  <2>2. /\ BidsOrNot /\ OnlyMarked
        /\ Hot'.price = call[c].step.amount /\ Hot'.leader = call[c].step.who
        /\ Hot.status = "ACTIVE" /\ Hot'.price > Hot.price
        /\ Hot'.status = "ACTIVE" => intent' = intent
    BY <1>1, <1>2, <1>3, <2>1, AutoBidIs
  <2>3. ASSUME ~disturbed', Hot'.status = "ACTIVE"
        PROVE  Served(Hot', intent')
    <3>1. Served(Hot, intent) /\ call[c].step.who = Hot.leader
      BY <1>1, <1>2, <2>2, <2>3, AloneIs DEF Serving, Looking, Answering
    <3>2. Hot'.price \in Nat /\ Hot.price \in Nat /\ \A u \in Users : intent[u].max \in Nat
      <4>1. call[c].step.amount \in 0 .. Cap /\ Hot.price \in 0 .. Cap
        BY <1>1, <1>2, BusyIs, HotIs
      <4> QED
        BY <2>2, <4>1, LaneFacts
    <3> QED
      BY <2>2, <2>3, <3>1, <3>2 DEF Served, ActiveIn
  <2>4. Leaves(c, Idle)
    BY <1>1, <1>2, <2>3, AloneIs DEF Outcome, Leaves
  <2>5. KeepsLocks(c, Idle, lock', intent)
    BY <1>1, UnlockIs
  <2> QED
    BY <1>1, <1>2, <2>1, <2>2, <2>4, <2>5, IdleIs, CallBids
<1>4. CASE ~AutoAccepted(call[c].step.amount)
  <2>1. Goes(c, "lua") /\ log' = log /\ intent' = intent /\ Hot' = Hot /\ "lua" \in Places
    BY <1>4 DEF PreemptBid, Hot, Places
  <2>2. PICK y \in Call : MovedTo(y, c, "lua", call[c].rounds)
    BY <1>1, <2>1, GoesIs
  <2> USE DEF MovedTo
  <2>3. FairCall(y, c, log) /\ LockedCall(y, c, lock')
    BY <1>1, <2>2 DEF FairCall, LockedCall, Answering, Bidding
  <2>4. Serving(call[c], Hot, intent) => Outcome(y, Hot, intent)
    BY <1>1, <2>2, IdleIs DEF Outcome, Serving, Looking, Answering, Resolving
  <2>5. KeepsLocks(c, y, lock', intent)
    BY <1>1, UnlockIs
  <2> QED
    BY <1>1, <1>2, <2>1, <2>2, <2>3, <2>4, <2>5, CallLocks DEF sideVars
<1> QED
  BY <1>3, <1>4

\* The Lua script on the manual bid: accepted, the proxies have yet to answer it.
LEMMA ManualBidKeeps ==
  ASSUME LaneInv, NEW c \in Users, ManualBid(c)
  PROVE  LaneInv'
<1>1. /\ call[c].pc = "lua" /\ UNCHANGED <<births, settled, requests>>
      /\ intent' = intent /\ lock' = lock /\ paused' = paused
      /\ call \in [Users -> Call] /\ FairCall(call[c], c, log) /\ call[c].pc \notin Bidding
      /\ intent \in Rows /\ disturbed \in BOOLEAN /\ paused \in BOOLEAN
  BY LaneFacts DEF ManualBid, Bidding
<1>2. Started /\ call[c] \in Call /\ call[c] # Idle /\ call[c].ask \in 0 .. Cap
  BY <1>1, BusyIs
<1> DEFINE accepted == ~paused /\ Hot.status = "ACTIVE" /\ Hot.leader # c /\ Executable(Hot, call[c].ask)
<1>3. CASE accepted
  <2> DEFINE t == Accept(Hot, c, call[c].ask, FALSE)
  <2>1. /\ log' = Append(log, t) /\ Goes(c, "read") /\ "read" \in Places
        /\ disturbed' = \E u \in Users \ {c} : call[u] # Idle
    BY <1>3 DEF ManualBid, Places
  <2>1a. Hot \in HotState /\ call[c].ask > Hot.price
    BY <1>2, <1>3, HotIs DEF Executable
  <2>1b. IsAccepted(t, Hot, c, call[c].ask)
    <3> DEFINE ask == call[c].ask
    <3>1. ask \in 0 .. Cap
      BY <1>2
    <3> HIDE DEF ask
    <3>2. IsAccepted(Accept(Hot, c, ask, FALSE), Hot, c, ask)
      BY <2>1a, <3>1, AcceptIs
    <3> QED
      BY <3>2 DEF ask
  <2> HIDE DEF t
  <2>2. t \in HotState /\ t.price > Hot.price /\ (t.status = "ACTIVE" => t.price < Cap)
    BY <2>1a, <2>1b DEF IsAccepted
  <2>3. PICK y \in Call : MovedTo(y, c, "read", call[c].rounds)
    BY <1>1, <2>1, GoesIs
  <2> USE DEF MovedTo
  <2>4. y.rounds = 0 /\ y.pc = "read"
    BY <1>1, <2>3 DEF FairCall, Answering
  <2>5. FairCall(y, c, log) /\ LockedCall(y, c, lock')
    BY <2>4 DEF FairCall, LockedCall, Answering, Bidding
  <2>6. Outcome(y, Hot', intent')
    BY <2>4, IdleIs DEF Outcome, Serving, Looking, Answering, Resolving
  <2>7. disturbed' \in BOOLEAN /\ Leaves(c, y)
    BY <1>1, <1>3, <2>1, <2>6 DEF Leaves
  <2>8. BidsOrNot /\ OnlyMarked
    BY <1>1, <2>1, <2>2 DEF BidsOrNot, OnlyMarked
  <2>9. KeepsLocks(c, y, lock', intent)
    BY <1>1, SameLocks
  <2> QED
    BY <1>1, <1>2, <2>3, <2>5, <2>7, <2>8, <2>9, CallBids
<1>4. CASE ~accepted
  <2>1. Answered(c) /\ UNCHANGED <<log, intent, births, settled, lock, sideVars>>
    BY <1>1, <1>4 DEF ManualBid, sideVars
  <2>2. Serving(call[c], Hot, intent) /\ Hot.status = "ACTIVE" => Served(Hot, intent)
    BY <1>1 DEF Serving, Looking, Answering
  <2> QED
    BY <1>1, <2>1, <2>2, AnsweredMoves
<1> QED
  BY <1>3, <1>4

\* resolveHotMaxBids, the read of the hot state.
LEMMA ResolveReadKeeps ==
  ASSUME LaneInv, NEW c \in Users, ResolveRead(c)
  PROVE  LaneInv'
<1>1. /\ call[c].pc = "read" /\ UNCHANGED <<log, intent, births, settled, lock, sideVars>>
      /\ call \in [Users -> Call] /\ call[c].pc \notin Bidding /\ call[c].rounds < MaxRounds
  BY LaneFacts DEF ResolveRead, Bidding
<1>2. Started /\ call[c] \in Call /\ call[c] # Idle
  BY <1>1, BusyIs
<1>3. CASE ~paused /\ Hot.status = "ACTIVE"
  <2> DEFINE y == [call[c] EXCEPT !.pc = "load", !.price = Hot.price, !.leader = Hot.leader]
  <2>1. call' = [call EXCEPT ![c] = y]
    BY <1>1, <1>2, <1>3 DEF ResolveRead
  <2>2. Hot.price \in 0 .. Cap /\ Hot.leader \in Anyone /\ Len(log) \in DOMAIN log /\ Hot = log[Len(log)]
    BY <1>2, HotIs
  <2>3. /\ y \in Call /\ y.pc = "load" /\ y.price = Hot.price /\ y.leader = Hot.leader
        /\ y.rounds = call[c].rounds
    BY <1>2, <2>2 DEF Call, Places
  <2> HIDE DEF y
  <2>4. FairCall(y, c, log) /\ LockedCall(y, c, lock)
    BY <1>1, <2>2, <2>3 DEF FairCall, LockedCall, Answering, Bidding
  <2>5. Serving(call[c], Hot, intent) => Outcome(y, Hot, intent)
    BY <1>1, <1>3, <2>3, IdleIs DEF Outcome, Serving, Looking, Answering, Resolving
  <2> QED
    BY <1>1, <1>2, <2>1, <2>3, <2>4, <2>5, CallMoves
<1>4. CASE ~(~paused /\ Hot.status = "ACTIVE")
  <2>1. Answered(c)
    BY <1>4 DEF ResolveRead
  <2> QED
    BY <1>1, <1>4, <2>1, AnsweredMoves
<1> QED
  BY <1>3, <1>4

\* ... the choice of the next bid by nextAutoMaxBidStep, on the intents of now and
\* the hot state read before: undisturbed, the second choice closes, and the third
\* finds everyone served.
LEMMA ResolveLoadKeeps ==
  ASSUME LaneInv, NEW c \in Users, ResolveLoad(c)
  PROVE  LaneInv'
<1>1. /\ call[c].pc = "load" /\ UNCHANGED <<log, intent, births, settled, lock, sideVars>>
      /\ call \in [Users -> Call] /\ FairCall(call[c], c, log) /\ call[c].pc \notin Bidding
  BY LaneFacts DEF ResolveLoad, Bidding
<1>2. /\ Started /\ call[c] \in Call /\ call[c] # Idle
      /\ call[c].price \in 0 .. Cap /\ call[c].leader \in Anyone /\ call[c].rounds \in 0 .. MaxRounds
  BY <1>1, BusyIs
<1>3. CASE ActiveIn(intent) = {}
  <2>1. Answered(c) /\ Served(Hot, intent)
    BY <1>3 DEF ResolveLoad, Served
  <2> QED
    BY <1>1, <2>1, AnsweredMoves
<1>4. CASE ActiveIn(intent) # {}
  <2> DEFINE saw == Saw(c)
             step == NextStep(saw, intent)
             y == [call[c] EXCEPT !.pc = "mark", !.known = Loaded, !.step = step]
  <2>1. call' = [call EXCEPT ![c].pc = "mark", ![c].known = Loaded, ![c].step = step]
    BY <1>4 DEF ResolveLoad
  <2>2. saw.price = call[c].price /\ saw.leader = call[c].leader
    BY DEF Saw
  <2> HIDE DEF saw
  <2>3. saw.price \in 0 .. Cap /\ saw.leader \in Anyone
    BY <1>2, <2>2
  <2>4. /\ step \in Step
        /\ step.who = Nobody => Served(saw, intent)
        /\ step.who # Nobody => StepBids(saw, intent, step)
    BY <2>3, LaneFacts, NextStepIs
  <2> HIDE DEF step
  <2>5. call' = [call EXCEPT ![c] = y]
    BY <1>1, <1>2, <2>1
  <2>6. Loaded \in [Users -> 0 .. Cap] /\ \A u \in ActiveIn(intent) : Loaded[u] = intent[u].max
    BY LoadedIs
  <2>7. y \in Call /\ y.pc = "mark" /\ y.step = step /\ y.known = Loaded /\ y.rounds = call[c].rounds
    BY <1>2, <2>4, <2>6 DEF Call, Places
  <2> HIDE DEF y
  <2>8. ASSUME step.who # Nobody
        PROVE  FairIn(log, y, c, step.who, step.amount)
    <3>1. step.who \in Users /\ step.who \in ActiveIn(intent) /\ step.amount <= intent[step.who].max
      BY <2>4, <2>8 DEF StepBids, Chosen
    <3>2. step.amount <= y.known[step.who]
      BY <2>6, <2>7, <3>1
    <3>3. CASE step.amount = saw.price + 1 /\ step.who # saw.leader
      <4>1. PICK i \in DOMAIN log : log[i].price = call[c].price /\ log[i].leader = call[c].leader
        BY <1>1 DEF FairCall
      <4>2. log[i].price + 1 = step.amount /\ log[i].leader # step.who
        BY <2>2, <3>3, <4>1
      <4> QED
        BY <3>1, <3>2, <4>2 DEF FairIn
    <3>4. CASE \E r \in ActiveIn(intent) \ {step.who} : intent[r].max >= step.amount - 1
      <4>1. PICK r \in ActiveIn(intent) \ {step.who} : intent[r].max >= step.amount - 1
        BY <3>4
      <4>2. r \in Users \ {step.who} /\ y.known[r] >= step.amount - 1
        BY <2>6, <2>7, <4>1 DEF ActiveIn
      <4> QED
        BY <3>1, <3>2, <4>2 DEF FairIn
    <3> QED
      BY <2>4, <2>8, <3>3, <3>4 DEF StepBids
  <2>9. FairCall(y, c, log) /\ LockedCall(y, c, lock)
    <3>1. step.who # Nobody => step.who \notin step.exhausted
      BY <2>4 DEF StepBids
    <3> QED
      BY <1>1, <2>7, <2>8, <3>1 DEF FairCall, LockedCall, Answering, Bidding
  <2>10. ASSUME Serving(call[c], Hot, intent)
         PROVE  Outcome(y, Hot, intent)
    <3>1. Hot.status = "ACTIVE" /\ Looking(call[c], Hot, intent) /\ call[c].rounds <= 2
      BY <1>1, <2>10 DEF Serving
    <3>2. saw.price = Hot.price /\ saw.leader = Hot.leader /\ Hot.price < Cap
      BY <1>1, <1>2, <2>2, <3>1, HotIs DEF Looking
    <3>3. /\ Served(saw, intent) <=> Served(Hot, intent)
          /\ Leads(saw, intent) <=> Leads(Hot, intent)
      BY <3>2 DEF Served, Leads
    <3>4. step.who = Nobody => Served(Hot, intent)
      BY <2>4, <3>3
    <3>5. ASSUME step.who # Nobody
          PROVE  /\ step.amount > Hot.price /\ call[c].rounds <= 1
                 /\ Chosen(intent, step.who)
                 /\ call[c].rounds = 1 => Closing(intent, step.who, step.amount)
      <4>1. /\ step.amount > Hot.price /\ Chosen(intent, step.who) /\ ~Served(Hot, intent)
            /\ Leads(Hot, intent) => Closing(intent, step.who, step.amount)
        BY <2>4, <3>2, <3>3, <3>5 DEF StepBids
      <4>2. call[c].rounds # 2 /\ (call[c].rounds = 1 => Leads(Hot, intent))
        BY <1>1, <3>1, <4>1 DEF Looking
      <4>3. call[c].rounds \in Nat
        BY <1>2, LaneFacts
      <4> QED
        BY <3>1, <4>1, <4>2, <4>3
    <3>6. Looking(y, Hot, intent)
      BY <2>7, <3>4, <3>5 DEF Looking, Answering
    <3> QED
      BY <2>7, <3>1, <3>6, IdleIs DEF Outcome, Serving, Answering, Resolving
  <2> QED
    BY <1>1, <1>2, <2>5, <2>7, <2>9, <2>10, CallMoves
<1> QED
  BY <1>3, <1>4

\* ... the marks of the exhausted, and the lock of the one that bids: undisturbed it
\* is to be had.
LEMMA ResolveMarkKeeps ==
  ASSUME LaneInv, NEW c \in Users, ResolveMark(c)
  PROVE  LaneInv'
<1> DEFINE who == call[c].step.who
           marked == Mark(intent, call[c].step.exhausted, "EXHAUSTED")
<1>1. /\ call[c].pc = "mark" /\ UNCHANGED <<births, settled, requests>>
      /\ log' = log /\ disturbed' = disturbed /\ paused' = paused /\ Hot' = Hot /\ intent' = marked
      /\ FairCall(call[c], c, log) /\ call[c].pc \notin Bidding
      /\ disturbed \in BOOLEAN /\ paused \in BOOLEAN
  BY LaneFacts DEF ResolveMark, sideVars, Hot, Bidding
<1>2. call \in [Users -> Call] /\ Nobody \notin Users
  BY LaneFacts
<1>3. Started /\ call[c] # Idle /\ who \in Anyone
  BY <1>1, BusyIs
<1>4. /\ marked \in Rows
      /\ \A u \in Users : /\ marked[u].max = intent[u].max
                          /\ marked[u].status = "none" <=> intent[u].status = "none"
                          /\ marked[u].status = "CANCELLED" <=> intent[u].status = "CANCELLED"
      /\ ActiveIn(marked) = ActiveIn(intent) \ call[c].step.exhausted
  BY LaneFacts, MarkIs
<1> HIDE DEF marked
<1>5. OnlyMarked /\ BidsOrNot
  BY <1>1, <1>4 DEF OnlyMarked, BidsOrNot
<1>6. Served(Hot, intent) => Served(Hot, marked)
  BY <1>4 DEF Served, ActiveIn
<1>7. CASE who = Nobody
  <2>1. call' = [call EXCEPT ![c] = Idle] /\ lock' = lock
    BY <1>7 DEF ResolveMark, Answered
  <2>2. Leaves(c, Idle)
    <3>1. ASSUME Serving(call[c], Hot, intent), Hot.status = "ACTIVE" PROVE Served(Hot, intent)
      BY <1>1, <1>7, <3>1 DEF Serving, Looking
    <3> QED
      BY <1>1, <1>3, <1>6, <3>1, AloneIs DEF Outcome, Leaves
  <2>3. KeepsLocks(c, Idle, lock', intent)
    BY <1>1, <2>1, SameLocks
  <2> QED
    BY <1>1, <1>3, <1>5, <2>1, <2>2, <2>3, IdleIs, CallBids
<1>8. CASE who # Nobody /\ Lockable(who)
  <2>1. who \in Users
    BY <1>3, <1>8 DEF Anyone
  <2>2. Goes(c, "bid") /\ lock' = [lock EXCEPT ![who] = c] /\ "bid" \in Places
    BY <1>8 DEF ResolveMark, Places
  <2>3. PICK y \in Call : MovedTo(y, c, "bid", call[c].rounds)
    BY <1>2, <2>2, GoesIs
  <2>4. /\ call' = [call EXCEPT ![c] = y] /\ y.pc = "bid" /\ y.rounds = call[c].rounds
        /\ y.step = call[c].step /\ y.known = call[c].known /\ y.ask = call[c].ask /\ y.step.who = who
    BY <2>3 DEF MovedTo
  <2>5. BidsFor(y, who)
    BY <2>4 DEF BidsFor, Bidding
  <2> HIDE DEF who
  <2>6. KeepsLocks(c, y, lock', intent) /\ lock'[who] = c
    BY <1>1, <1>8, <2>1, <2>2, <2>5, LockIs
  <2>7. FairCall(y, c, log) /\ LockedCall(y, c, lock')
    BY <1>1, <1>8, <2>4, <2>6 DEF FairCall, LockedCall, Answering, Bidding, FairIn, who
  <2>8. ASSUME Serving(call[c], Hot, intent)
        PROVE  Outcome(y, Hot, marked)
    <3>1. /\ Hot.status = "ACTIVE" /\ call[c].rounds <= 1 /\ call[c].step.amount > Hot.price
          /\ Chosen(intent, who)
          /\ call[c].rounds = 1 => Closing(intent, who, call[c].step.amount)
      BY <1>1, <1>8, <2>8 DEF Serving, Looking, who
    <3>2. who \notin call[c].step.exhausted
      BY <1>1, <1>8 DEF FairCall, who
    <3>3. /\ Chosen(marked, who)
          /\ call[c].rounds = 1 => Closing(marked, who, call[c].step.amount)
      <4>1. \A u \in ActiveIn(marked) : u \in ActiveIn(intent) /\ u \in Users
        BY <1>4 DEF ActiveIn
      <4>2. \A u \in Users : marked[u].max = intent[u].max
        BY <1>4
      <4>3. Chosen(marked, who)
        BY <1>4, <2>1, <3>1, <3>2, <4>1, <4>2 DEF Chosen, Beats
      <4> QED
        BY <3>1, <4>1, <4>2, <4>3 DEF Closing
    <3>4. call[c].rounds <= 2
      <4>1. call[c].rounds \in Nat
        BY <1>1, BusyIs, LaneFacts
      <4> QED
        BY <3>1, <4>1
    <3> QED
      BY <2>4, <3>1, <3>3, <3>4, IdleIs DEF Outcome, Serving, Looking, Answering, Resolving
  <2>9. Leaves(c, y)
    BY <1>1, <1>3, <2>8, AloneIs DEF Leaves
  <2> QED
    BY <1>1, <1>3, <1>5, <2>4, <2>6, <2>7, <2>9, CallBids
<1>9. CASE who # Nobody /\ ~Lockable(who)
  <2>1. GoesOn(c) /\ lock' = lock
    BY <1>9 DEF ResolveMark
  <2>2. PICK y \in Call : MovedTo(y, c, "read", call[c].rounds + 1)
    BY <1>1, <2>1, GoesOnIs DEF FairCall
  <2> USE DEF MovedTo
  <2>3. FairCall(y, c, log) /\ LockedCall(y, c, lock')
    BY <2>2 DEF FairCall, LockedCall, Answering, Bidding
  <2>4. disturbed
    <3> SUFFICES ASSUME ~disturbed
                 PROVE  FALSE
      OBVIOUS
    <3>1. Serving(call[c], Hot, intent) /\ \A u \in Users \ {c} : call[u] = Idle
      BY <1>3, AloneIs
    <3>2. Chosen(intent, who)
      BY <1>1, <1>9, <3>1 DEF Serving, Looking
    <3>3. who \in Users /\ intent[who].status = "ACTIVE"
      BY <3>2 DEF Chosen, ActiveIn
    <3>4. lock[who] \in Users /\ call[lock[who]].pc \in Bidding
      BY <1>9, <3>3, LaneFacts DEF Lockable, LocksHold, BidsFor
    <3>5. lock[who] # c
      BY <1>1, <3>4
    <3> QED
      BY <3>1, <3>4, <3>5, IdleIs DEF Bidding
  <2>5. Leaves(c, y)
    BY <1>1, <2>4 DEF Leaves
  <2>6. KeepsLocks(c, y, lock', intent)
    BY <1>1, <2>1, SameLocks
  <2> QED
    BY <1>1, <1>3, <1>5, <2>2, <2>3, <2>5, <2>6, CallBids
<1> QED
  BY <1>7, <1>8, <1>9

\* ... and the bid: undisturbed, the first takes the lead, the second leaves everyone
\* served.
LEMMA ResolveBidKeeps ==
  ASSUME LaneInv, NEW c \in Users, ResolveBid(c)
  PROVE  LaneInv'
<1>1. /\ call[c].pc = "bid" /\ Unlock(c) /\ UNCHANGED <<births, settled, requests>>
      /\ disturbed' = disturbed /\ paused' = paused /\ FairCall(call[c], c, log)
      /\ intent \in Rows /\ disturbed \in BOOLEAN /\ paused \in BOOLEAN
  BY LaneFacts DEF ResolveBid, sideVars
<1>2. call \in [Users -> Call] /\ Cap \in Nat /\ MaxRounds \in Nat
  BY LaneFacts
<1>3. /\ Started /\ call[c] # Idle /\ call[c].step.who \in Users /\ call[c].step.amount \in 0 .. Cap
      /\ call[c].rounds \in 0 .. MaxRounds
  BY <1>1, BusyIs DEF FairCall, FairIn
<1>4. CASE AutoAccepted(call[c].step.amount)
  <2>1. GoesOn(c) /\ AutoBid(c)
    BY <1>4 DEF ResolveBid
  <2>2. PICK y \in Call : MovedTo(y, c, "read", call[c].rounds + 1)
    BY <1>1, <2>1, GoesOnIs DEF FairCall
  <2> USE DEF MovedTo
  <2>3. /\ BidsOrNot /\ OnlyMarked /\ Hot.status = "ACTIVE"
        /\ Hot'.price = call[c].step.amount /\ Hot'.leader = call[c].step.who
        /\ Hot'.status = "ACTIVE" => intent' = intent
    BY <1>1, <1>3, <1>4, <2>1, AutoBidIs
  <2>4. FairCall(y, c, log) /\ LockedCall(y, c, lock')
    BY <2>2 DEF FairCall, LockedCall, Answering, Bidding
  <2>5. ASSUME Serving(call[c], Hot, intent)
        PROVE  Outcome(y, Hot', intent')
    <3>1. /\ call[c].rounds <= 1 /\ Chosen(intent, call[c].step.who)
          /\ call[c].rounds = 1 => Closing(intent, call[c].step.who, call[c].step.amount)
      BY <1>1, <2>3, <2>5 DEF Serving, Looking
    <3>2. y.rounds <= 2 /\ (y.rounds = 1 => call[c].rounds = 0) /\ (y.rounds = 2 => call[c].rounds = 1)
          /\ y.pc = "read"
      BY <1>2, <1>3, <2>2, <3>1
    <3>3. ASSUME Hot'.status = "ACTIVE"
          PROVE  Leads(Hot', intent') /\ (call[c].rounds = 1 => Served(Hot', intent'))
      <4> DEFINE t == Hot'
      <4>1. /\ intent' = intent /\ t.leader = call[c].step.who /\ t.price = call[c].step.amount
            /\ t.leader \in ActiveIn(intent)
        BY <2>3, <3>1, <3>3 DEF Chosen
      <4> HIDE DEF t
      <4>2. Leads(t, intent) /\ (Closing(intent, t.leader, t.price) => Served(t, intent))
        BY <1>1, <3>1, <4>1, BidLeads
      <4>3. Leads(t, intent') /\ (call[c].rounds = 1 => Served(t, intent'))
        BY <3>1, <4>1, <4>2
      <4> QED
        BY <4>3 DEF t
    <3>4. Hot'.status = "ACTIVE" => Looking(y, Hot', intent')
      BY <3>2, <3>3 DEF Looking, Answering
    <3> QED
      BY <3>2, <3>4, IdleIs DEF Outcome, Serving, Resolving
  <2>6. Leaves(c, y)
    BY <1>1, <1>3, <2>5, AloneIs DEF Leaves
  <2>7. KeepsLocks(c, y, lock', intent)
    BY <1>1, UnlockIs
  <2> QED
    BY <1>1, <1>3, <2>2, <2>3, <2>4, <2>6, <2>7, CallBids
<1>5. CASE ~AutoAccepted(call[c].step.amount)
  <2>1. call' = [call EXCEPT ![c] = Idle] /\ log' = log /\ intent' = intent
    BY <1>5 DEF ResolveBid, Answered
  <2>2. disturbed
    <3> SUFFICES ASSUME ~disturbed
                 PROVE  FALSE
      OBVIOUS
    <3>1. ~paused /\ Serving(call[c], Hot, intent)
      BY <1>3, AloneIs
    <3>2. Hot.status = "ACTIVE" /\ call[c].step.amount > Hot.price
      BY <1>1, <3>1 DEF Serving, Looking
    <3>3. call[c].step.amount <= Cap
      BY <1>2, <1>3
    <3> QED
      BY <1>5, <3>1, <3>2, <3>3 DEF AutoAccepted, Executable
  <2>3. Leaves(c, Idle) /\ BidsOrNot /\ OnlyMarked
    BY <1>1, <2>1, <2>2 DEF Leaves, BidsOrNot, OnlyMarked
  <2>4. KeepsLocks(c, Idle, lock', intent)
    BY <1>1, UnlockIs
  <2> QED
    BY <1>1, <1>3, <2>1, <2>3, <2>4, IdleIs, CallBids
<1> QED
  BY <1>4, <1>5

\* The pause after the last round: a call nobody disturbs is answered before it.
LEMMA ResolveExceededKeeps ==
  ASSUME LaneInv, NEW c \in Users, ResolveExceeded(c)
  PROVE  LaneInv'
<1>1. /\ call[c].pc = "read" /\ call[c].rounds = MaxRounds /\ paused' = TRUE
      /\ call' = [call EXCEPT ![c] = Idle]
      /\ log' = log /\ intent' = intent /\ births' = births /\ settled' = settled /\ lock' = lock
      /\ requests' = requests /\ disturbed' = disturbed
      /\ call[c].pc \notin Bidding /\ intent \in Rows /\ disturbed \in BOOLEAN
  BY LaneFacts DEF ResolveExceeded, Answered, Bidding
<1>2. Started /\ call[c] # Idle
  BY <1>1, BusyIs
<1>3. disturbed
  <2> SUFFICES ASSUME ~disturbed
               PROVE  FALSE
    OBVIOUS
  <2>1. call[c].rounds <= 2
    BY <1>2, AloneIs DEF Serving
  <2> QED
    BY <1>1, <2>1, LaneFacts
<1>4. Leaves(c, Idle) /\ BidsOrNot /\ OnlyMarked
  BY <1>1, <1>3 DEF Leaves, BidsOrNot, OnlyMarked
<1>5. KeepsLocks(c, Idle, lock', intent)
  BY <1>1, SameLocks
<1> QED
  BY <1>1, <1>2, <1>4, <1>5, IdleIs, CallBids

\* triggerMaxBidIntentNow: one increment over the price of the auctions row.
LEMMA TriggerReadKeeps ==
  ASSUME LaneInv, NEW c \in Users, TriggerRead(c)
  PROVE  LaneInv'
<1>1. /\ call[c].pc = "trigger read" /\ UNCHANGED <<log, intent, births, settled, lock, sideVars>>
      /\ call \in [Users -> Call] /\ FairCall(call[c], c, log) /\ call[c].pc \notin Bidding
  BY LaneFacts DEF TriggerRead, Bidding
<1>2. /\ Started /\ call[c] \in Call /\ call[c] # Idle /\ call[c].ask \in 0 .. Cap
      /\ call[c].known \in [Users -> 0 .. Cap] /\ call[c].ask <= call[c].known[c]
  BY <1>1, BusyIs DEF FairCall
<1>3. ~Serving(call[c], Hot, intent)
  BY <1>1 DEF Serving, Answering, Resolving
<1>4. CASE Pg.status # "ACTIVE" \/ Pg.leader = c \/ call[c].ask <= Pg.price
  <2>1. Answered(c)
    BY <1>4 DEF TriggerRead
  <2> QED
    BY <1>1, <1>3, <2>1, AnsweredMoves
<1>5. CASE ~(Pg.status # "ACTIVE" \/ Pg.leader = c \/ call[c].ask <= Pg.price)
  <2>1. settled \in DOMAIN log /\ Pg = log[settled] /\ Pg.price \in Nat /\ Cap \in Nat
    <3>1. settled \in 0 .. Len(log) /\ settled >= 1
      BY <1>2 DEF LaneInv, LaneTypes, Started
    <3> QED
      BY <3>1, LaneFacts DEF Pg
  <2>2. Pg.status = "ACTIVE" /\ Pg.leader # c /\ call[c].ask > Pg.price /\ Pg.price < Cap
    BY <1>2, <1>5, <2>1 DEF LaneInv, PricesRise
  <2> DEFINE next == Pg.price + 1
             amount == Least({next, Cap})
             step == [who |-> c, amount |-> amount, exhausted |-> {}]
             y == [call[c] EXCEPT !.pc = "trigger lock", !.step = step]
  <2>3. call' = [call EXCEPT ![c].pc = "trigger lock", ![c].step = step]
    BY <1>5 DEF TriggerRead
  <2>4. next \in Nat /\ next <= Cap /\ next = Pg.price + 1
    BY <2>1, <2>2
  <2> HIDE DEF next
  <2>5. amount = next
    <3>1. Least({next, Cap}) \in {next, Cap} /\ \A z \in {next, Cap} : Least({next, Cap}) <= z
      BY <2>1, <2>4, LeastIs
    <3> QED
      BY <2>1, <2>4, <3>1
  <2> HIDE DEF amount
  <2>6. amount \in 0 .. Cap /\ amount <= call[c].known[c]
    <3>1. call[c].known[c] \in 0 .. Cap
      BY <1>2
    <3> QED
      BY <1>2, <2>1, <2>2, <2>4, <2>5, <3>1
  <2>7. step \in Step /\ step.who = c /\ step.amount = amount
    BY <2>6 DEF Step, Anyone
  <2>8. call' = [call EXCEPT ![c] = y]
    BY <1>1, <1>2, <2>3
  <2> HIDE DEF step
  <2>9. y \in Call /\ y.pc = "trigger lock" /\ y.known = call[c].known /\ y.step = step
    BY <1>2, <2>7 DEF Call, Places
  <2> HIDE DEF y
  <2>10. FairIn(log, y, c, c, amount)
    BY <2>1, <2>2, <2>4, <2>5, <2>6, <2>9 DEF FairIn
  <2>11. FairCall(y, c, log) /\ LockedCall(y, c, lock)
    BY <1>2, <2>7, <2>9, <2>10 DEF FairCall, LockedCall, Answering, Bidding
  <2> QED
    BY <1>1, <1>2, <1>3, <2>8, <2>9, <2>11, CallMoves
<1> QED
  BY <1>4, <1>5

\* PlaceActiveMaxBidIntent takes the lock ...
LEMMA TriggerLockKeeps ==
  ASSUME LaneInv, NEW c \in Users, TriggerLock(c)
  PROVE  LaneInv'
<1>1. /\ call[c].pc = "trigger lock" /\ UNCHANGED <<log, intent, births, settled, sideVars>>
      /\ FairCall(call[c], c, log) /\ LockedCall(call[c], c, lock) /\ call[c].pc \notin Bidding
  BY LaneFacts DEF TriggerLock, Bidding
<1>2. Started /\ call[c] # Idle /\ call[c].step.who = c
  BY <1>1, BusyIs DEF LockedCall
<1>3. ~Serving(call[c], Hot, intent)
  BY <1>1 DEF Serving, Answering, Resolving
<1>4. CASE Lockable(c)
  <2>1. Goes(c, "trigger bid") /\ lock' = [lock EXCEPT ![c] = c] /\ "trigger bid" \in Places
    BY <1>4 DEF TriggerLock, Places
  <2>2. call \in [Users -> Call]
    BY LaneFacts
  <2>3. PICK y \in Call : MovedTo(y, c, "trigger bid", call[c].rounds)
    BY <2>1, <2>2, GoesIs
  <2> USE DEF MovedTo
  <2>4. BidsFor(y, c)
    BY <1>2, <2>3 DEF BidsFor, Bidding
  <2>5. KeepsLocks(c, y, lock', intent) /\ lock'[c] = c
    BY <1>1, <1>4, <2>1, <2>4, LockIs
  <2>6. FairCall(y, c, log) /\ LockedCall(y, c, lock')
    BY <1>1, <1>2, <2>3, <2>5 DEF FairCall, LockedCall, Answering, Bidding, FairIn
  <2> QED
    BY <1>1, <1>2, <1>3, <2>3, <2>5, <2>6, CallLocks
<1>5. CASE ~Lockable(c)
  <2>1. Answered(c) /\ UNCHANGED <<log, intent, births, settled, lock, sideVars>>
    BY <1>1, <1>5 DEF TriggerLock
  <2> QED
    BY <1>1, <1>3, <2>1, AnsweredMoves
<1> QED
  BY <1>4, <1>5

\* ... and bids.
LEMMA TriggerBidKeeps ==
  ASSUME LaneInv, NEW c \in Users, TriggerBid(c)
  PROVE  LaneInv'
<1> DEFINE t == Accept(Hot, c, call[c].step.amount, TRUE)
<1>1. /\ call[c].pc = "trigger bid" /\ Unlock(c) /\ UNCHANGED <<births, settled, requests>>
      /\ disturbed' = disturbed /\ paused' = paused /\ intent' = intent /\ call' = [call EXCEPT ![c] = Idle]
      /\ log' = IF AutoAccepted(call[c].step.amount) THEN Append(log, t) ELSE log
      /\ intent \in Rows /\ disturbed \in BOOLEAN /\ paused \in BOOLEAN
  BY LaneFacts DEF TriggerBid, Answered, sideVars
<1>2. Started /\ call[c] # Idle /\ call[c].step.amount \in 0 .. Cap
  BY <1>1, BusyIs
<1>3. KeepsLocks(c, Idle, lock', intent) /\ OnlyMarked
  BY <1>1, UnlockIs DEF OnlyMarked
<1>4. Leaves(c, Idle)
  <2>1. ~Serving(call[c], Hot, intent)
    BY <1>1 DEF Serving, Answering, Resolving
  <2> QED
    BY <1>1, <1>2, <2>1, AloneIs DEF Leaves
<1>5. BidsOrNot
  <2>1. CASE AutoAccepted(call[c].step.amount)
    <3> DEFINE amount == call[c].step.amount
    <3>1. amount \in 0 .. Cap
      BY <1>2
    <3>2. Hot \in HotState /\ amount > Hot.price
      BY <1>2, <2>1, HotIs DEF AutoAccepted, Executable
    <3>3. IsAccepted(t, Hot, c, amount)
      <4> HIDE DEF amount
      <4>1. IsAccepted(Accept(Hot, c, amount, TRUE), Hot, c, amount)
        BY <3>1, <3>2, AcceptIs
      <4> QED
        BY <4>1 DEF amount
    <3> HIDE DEF t
    <3>4. t \in HotState /\ log' = Append(log, t) /\ t.price > Hot.price /\ (t.status = "ACTIVE" => t.price < Cap)
      BY <1>1, <2>1, <3>2, <3>3 DEF IsAccepted
    <3> QED
      BY <3>4 DEF BidsOrNot
  <2>2. CASE ~AutoAccepted(call[c].step.amount)
    BY <1>1, <2>2 DEF BidsOrNot
  <2> QED
    BY <2>1, <2>2
<1> QED
  BY <1>1, <1>2, <1>3, <1>4, <1>5, IdleIs, CallBids

-----------------------------------------------------------------------------
(* Requests, and what happens around the calls *)

\* A request: the log and the locks are as they were.
LEMMA RequestKeeps ==
  ASSUME LaneInv, Started, NEW c \in Users, call[c] = Idle,
         NEW y \in Call, call' = [call EXCEPT ![c] = y],
         UNCHANGED <<log, settled, lock, paused>>, requests < MaxRequests, requests' = requests + 1,
         intent' \in Rows, births' \in Seq(Nat), BornIn(intent)',
         \A u \in Users : lock[u] # Nobody => intent'[u].status # "CANCELLED",
         FairCall(y, c, log), LockedCall(y, c, lock),
         disturbed' \in BOOLEAN, Leaves(c, y), disturbed' \/ births' = births
  PROVE  LaneInv'
<1>1. log' = log /\ settled' = settled /\ lock' = lock /\ paused' = paused
  OBVIOUS
<1>2. /\ log' \in Seq(HotState) /\ log' # <<>> /\ Len(log') >= Len(log)
      /\ requests' \in 0 .. MaxRequests /\ paused' \in BOOLEAN
  BY <1>1, LaneFacts DEF Started
<1>3. PricesRise'
  <2>1. PricesRise
    BY DEF LaneInv
  <2> QED
    BY <1>1, <2>1 DEF PricesRise
<1>4. Grows(log')
  BY <1>1 DEF Grows
<1>5. KeepsLocks(c, y, lock', intent')
  <2>1. call[c].pc \notin Bidding
    BY IdleIs DEF Bidding
  <2>2. KeepsLocks(c, y, lock, intent)
    BY <2>1, SameLocks
  <2> QED
    BY <1>1, <2>2 DEF KeepsLocks
<1>6. FairCall(y, c, log') /\ LockedCall(y, c, lock')
  BY <1>1
<1> QED
  BY <1>1, <1>2, <1>3, <1>4, <1>5, <1>6, CallStepKeeps

\* A manual bid starts where everybody is served, or is not the first to disturb.
LEMMA PlaceBidKeeps ==
  ASSUME LaneInv, NEW c \in Users, NEW amount \in 1 .. Cap, PlaceBid(c, amount)
  PROVE  LaneInv'
<1> DEFINE y == [call[c] EXCEPT !.pc = "preempt", !.ask = amount]
<1>1. /\ Started /\ call[c] = Idle /\ requests < MaxRequests /\ requests' = requests + 1
      /\ disturbed' = (disturbed \/ ~Quiet)
      /\ UNCHANGED <<log, settled, lock, paused>> /\ intent' = intent /\ births' = births /\ paused' = paused
      /\ call' = [call EXCEPT ![c].pc = "preempt", ![c].ask = amount]
  BY DEF PlaceBid, Request
<1>2. /\ call \in [Users -> Call] /\ call[c] \in Call /\ intent \in Rows /\ births \in Seq(Nat)
      /\ BornIn(intent) /\ disturbed \in BOOLEAN /\ LocksHold /\ Cap \in Nat
  BY LaneFacts
<1>3. call' = [call EXCEPT ![c] = y]
  BY <1>1, <1>2
<1>4. y \in Call /\ y.pc = "preempt" /\ y.ask = amount /\ y.rounds = 0
  <2>1. amount \in 0 .. Cap
    BY <1>2
  <2>2. call[c].rounds = 0
    BY <1>1 DEF Idle
  <2> QED
    BY <1>2, <2>1, <2>2 DEF Call, Places
<1> HIDE DEF y
<1>5. FairCall(y, c, log) /\ LockedCall(y, c, lock)
  BY <1>4 DEF FairCall, LockedCall, Answering, Bidding
<1>6. Leaves(c, y)
  <2>1. Hot' = Hot
    BY <1>1 DEF Hot
  <2>2. ~disturbed' => ~paused /\ Quiet /\ (Hot.status = "ACTIVE" => Served(Hot, intent))
    BY <1>1 DEF LaneInv, Undisturbed
  <2>3. (Hot.status = "ACTIVE" => Served(Hot, intent)) => Outcome(y, Hot, intent)
    BY <1>4, IdleIs, LaneFacts DEF Outcome, Serving, Looking, Answering, Resolving
  <2> QED
    BY <1>1, <2>1, <2>2, <2>3 DEF Leaves, Quiet
<1>7. BornIn(intent)' /\ intent' \in Rows /\ births' \in Seq(Nat) /\ disturbed' \in BOOLEAN
  BY <1>1, <1>2 DEF BornIn
<1>8. \A u \in Users : lock[u] # Nobody => intent'[u].status # "CANCELLED"
  BY <1>1, <1>2 DEF LocksHold
<1> QED
  BY <1>1, <1>3, <1>4, <1>5, <1>6, <1>7, <1>8, RequestKeeps

\* A maximum that is put, and the call that bids on it.
LEMMA PutMaxBidIntentKeeps ==
  ASSUME LaneInv, NEW c \in Users, NEW max \in 1 .. Cap, PutMaxBidIntent(c, max)
  PROVE  LaneInv'
<1> DEFINE y == [Idle EXCEPT !.pc = "trigger read", !.ask = max, !.known[c] = max]
           row == [status |-> "ACTIVE", max |-> max]
<1>1. /\ Started /\ call[c] = Idle /\ requests < MaxRequests /\ requests' = requests + 1
      /\ lock[c] = Nobody
      /\ disturbed' = (disturbed \/ TRUE \/ ~Quiet)
      /\ UNCHANGED <<log, settled, lock, paused>>
      /\ intent' = [intent EXCEPT ![c] = row]
      /\ births' = IF intent[c].status = "none" THEN Append(births, c) ELSE births
      /\ call' = [call EXCEPT ![c] = y]
  BY DEF PutMaxBidIntent, Request
<1>2. /\ intent \in Rows /\ births \in Seq(Nat)
      /\ BornIn(intent) /\ disturbed \in BOOLEAN /\ LocksHold /\ Cap \in Nat
  BY LaneFacts
<1>3. y \in Call /\ y.pc = "trigger read" /\ y.ask <= y.known[c]
  <2>1. max \in 0 .. Cap /\ max <= max /\ Idle \in Call
    BY <1>2, IdleIs
  <2> DEFINE known == [Idle.known EXCEPT ![c] = max]
  <2>2. known \in [Users -> 0 .. Cap] /\ known[c] = max
    BY <2>1 DEF Call
  <2>3. y = [Idle EXCEPT !.pc = "trigger read", !.ask = max, !.known = known]
    BY <2>1 DEF Call
  <2> HIDE DEF known
  <2> QED
    <3>1. y.pc = "trigger read" /\ y.ask = max /\ y.known = known
      BY <2>1, <2>3 DEF Call
    <3>2. y \in Call
      BY <2>1, <2>2, <2>3 DEF Call, Places
    <3>3. y.ask <= y.known[c]
      BY <2>1, <2>2, <3>1
    <3> QED
      BY <3>1, <3>2, <3>3
<1> HIDE DEF y
<1>4. row \in IntentRow /\ row.status = "ACTIVE"
  BY <1>2 DEF IntentRow
<1> HIDE DEF row
<1>5. intent' \in Rows /\ intent'[c] = row /\ \A u \in Users \ {c} : intent'[u] = intent[u]
  BY <1>1, <1>2, <1>4 DEF Rows
<1>6. FairCall(y, c, log) /\ LockedCall(y, c, lock)
  BY <1>3 DEF FairCall, LockedCall, Answering, Bidding
<1>7. \A u \in Users : lock[u] # Nobody => intent'[u].status # "CANCELLED"
  BY <1>1, <1>2, <1>5 DEF LocksHold
<1>8. births' \in Seq(Nat) /\ BornIn(intent)'
  <2>1. c \in Nat
    BY MaxBidsAssumption
  <2>2. CASE intent[c].status = "none"
    <3>1. births' = Append(births, c)
      BY <1>1, <2>2
    <3>2. births' \in Seq(Nat) /\ Len(births) \in Nat
      BY <1>2, <2>1, <3>1
    <3>3. Len(births) + 1 \in DOMAIN births' /\ births'[Len(births) + 1] = c
      BY <1>2, <2>1, <3>1
    <3>4. \A i \in DOMAIN births : i \in DOMAIN births' /\ births'[i] = births[i]
      BY <1>2, <2>1, <3>1
    <3>5. BornIn(intent)'
      BY <1>2, <1>5, <3>3, <3>4 DEF BornIn
    <3> QED
      BY <3>2, <3>5
  <2>3. CASE intent[c].status # "none"
    <3>1. births' = births
      BY <1>1, <2>3
    <3> QED
      BY <1>2, <1>5, <2>3, <3>1 DEF BornIn
  <2> QED
    BY <2>2, <2>3
<1>9. disturbed' \in BOOLEAN /\ disturbed' /\ Leaves(c, y)
  BY <1>1, <1>2 DEF Leaves
<1> QED
  BY <1>1, <1>3, <1>5, <1>6, <1>7, <1>8, <1>9, RequestKeeps

\* A cancellation finds the intent unlocked.
LEMMA DeleteMaxBidIntentKeeps ==
  ASSUME LaneInv, NEW c \in Users, DeleteMaxBidIntent(c)
  PROVE  LaneInv'
<1>1. /\ Started /\ call[c] = Idle /\ requests < MaxRequests /\ requests' = requests + 1
      /\ lock[c] = Nobody
      /\ disturbed' = (disturbed \/ TRUE \/ ~Quiet) /\ intent[c].status = "ACTIVE"
      /\ UNCHANGED <<log, settled, lock, paused>> /\ births' = births /\ call' = call
      /\ intent' = [intent EXCEPT ![c].status = "CANCELLED"]
  BY DEF DeleteMaxBidIntent, Request
<1>2. /\ call \in [Users -> Call] /\ intent \in Rows /\ births \in Seq(Nat)
      /\ BornIn(intent) /\ disturbed \in BOOLEAN /\ LocksHold
  BY LaneFacts
<1>3. call' = [call EXCEPT ![c] = Idle]
  BY <1>1, <1>2
<1>4. intent[c] \in IntentRow
  BY <1>2 DEF Rows
<1> DEFINE row == [intent[c] EXCEPT !.status = "CANCELLED"]
<1>5. row \in IntentRow /\ row.status = "CANCELLED"
  BY <1>4 DEF IntentRow
<1>6. intent' = [intent EXCEPT ![c] = row]
  BY <1>1, <1>2 DEF Rows
<1> HIDE DEF row
<1>7. intent' \in Rows /\ intent'[c] = row /\ \A u \in Users \ {c} : intent'[u] = intent[u]
  BY <1>2, <1>5, <1>6 DEF Rows
<1>8. \A u \in Users : lock[u] # Nobody => intent'[u].status # "CANCELLED"
  BY <1>1, <1>2, <1>7 DEF LocksHold
<1>9. BornIn(intent)' /\ births' \in Seq(Nat)
  BY <1>1, <1>2, <1>7 DEF BornIn
<1>10. disturbed' \in BOOLEAN /\ disturbed' /\ Leaves(c, Idle)
  BY <1>1, <1>2 DEF Leaves
<1> QED
  BY <1>1, <1>3, <1>7, <1>8, <1>9, <1>10, IdleIs, RequestKeeps

\* A client that goes away, or a process that dies, leaves no lock and disturbs.
LEMMA AbandonKeeps ==
  ASSUME LaneInv, NEW c \in Users, Abandon(c)
  PROVE  LaneInv'
<1>1. /\ call[c] # Idle /\ call' = [call EXCEPT ![c] = Idle] /\ Unlock(c) /\ disturbed' = TRUE
      /\ log' = log /\ intent' = intent /\ UNCHANGED <<births, settled, requests>> /\ paused' = paused
      /\ intent \in Rows /\ paused \in BOOLEAN
  BY LaneFacts DEF Abandon, Answered
<1>2. Started
  BY <1>1 DEF LaneInv, LaneTypes, Quiet, Started
<1>3. KeepsLocks(c, Idle, lock', intent)
  BY <1>1, UnlockIs
<1>4. Leaves(c, Idle) /\ BidsOrNot /\ OnlyMarked /\ disturbed' \in BOOLEAN
  BY <1>1 DEF Leaves, BidsOrNot, OnlyMarked
<1> QED
  BY <1>1, <1>2, <1>3, <1>4, IdleIs, CallBids

\* The calls, the locks and the intents as they were.
LEMMA CallsStay ==
  ASSUME LaneInv, UNCHANGED <<log, intent, births, lock, call, disturbed>>
  PROVE  /\ PricesRise' /\ BornIn(intent)' /\ LocksHold'
         /\ \A c \in Users : FairCall(call'[c], c, log') /\ LockedCall(call'[c], c, lock')
         /\ ~paused' \/ paused' = paused => Undisturbed'
<1>1. /\ log' = log /\ intent' = intent /\ births' = births /\ lock' = lock /\ call' = call
      /\ disturbed' = disturbed
  OBVIOUS
<1>2. /\ PricesRise /\ BornIn(intent) /\ LocksHold /\ Undisturbed
      /\ \A c \in Users : FairCall(call[c], c, log) /\ LockedCall(call[c], c, lock)
  BY DEF LaneInv
<1>3. PricesRise' /\ BornIn(intent)' /\ LocksHold'
  BY <1>1, <1>2 DEF PricesRise, BornIn, LocksHold, BidsFor
<1>4. \A c \in Users : FairCall(call'[c], c, log') /\ LockedCall(call'[c], c, lock')
  BY <1>1, <1>2
<1>5. ASSUME ~paused' \/ paused' = paused
      PROVE  Undisturbed'
  <2> SUFFICES ASSUME Started', ~disturbed'
               PROVE  (/\ ~paused
                       /\ Quiet /\ Hot.status = "ACTIVE" => Served(Hot, intent)
                       /\ \A d \in Users : call[d] # Idle =>
                            Serving(call[d], Hot, intent) /\ \A u \in Users \ {d} : call[u] = Idle)'
    BY Zenon DEF Undisturbed
  <2>1. Started /\ ~disturbed /\ Hot' = Hot
    BY <1>1 DEF Started, Hot
  <2>2. (~paused)'
    BY <1>2, <1>5, <2>1 DEF Undisturbed
  <2>3. (Quiet /\ Hot.status = "ACTIVE" => Served(Hot, intent))'
    BY <1>1, <1>2, <2>1 DEF Undisturbed, Served, Quiet
  <2>4. ASSUME NEW d \in Users, (call[d] # Idle)'
        PROVE  Serving(call[d], Hot, intent)' /\ (\A u \in Users \ {d} : call[u] = Idle)'
    <3>1. Serving(call[d], Hot', intent') /\ \A u \in Users \ {d} : call[u] = Idle
      BY <1>1, <1>2, <2>1, <2>4 DEF Undisturbed
    <3>2. Serving(call[d], Hot, intent)'
      <4> DEFINE y == call[d]
      <4>1. call'[d] = y /\ births' = births /\ Serving(y, Hot', intent')
        BY <1>1, <3>1
      <4> HIDE DEF y
      <4> QED
        BY <4>1, ServingNext
    <3> QED
      BY <1>1, <3>1, <3>2
  <2> QED
    BY <2>2, <2>3, <2>4
<1> QED
  BY <1>3, <1>4, <1>5

\* The settlement follows the log.
LEMMA SettleKeeps ==
  ASSUME LaneInv, Settle
  PROVE  LaneInv'
<1>1. /\ settled < Len(log) /\ settled' = settled + 1
      /\ log' = log /\ intent' = intent /\ births' = births /\ lock' = lock /\ call' = call
      /\ requests' = requests /\ paused' = paused /\ disturbed' = disturbed
  BY DEF Settle, sideVars
<1>2. LaneTypes /\ Len(log) \in Nat
  BY LaneFacts DEF LaneInv
<1>3. settled' \in 0 .. Len(log) /\ settled' >= 1
  BY <1>1, <1>2 DEF LaneTypes
<1>4. LaneTypes'
  BY <1>1, <1>2, <1>3 DEF LaneTypes, Quiet
<1> QED
  BY <1>1, <1>4, CallsStay DEF LaneInv

\* The operator resumes.
LEMMA ResumeKeeps ==
  ASSUME LaneInv, Resume
  PROVE  LaneInv'
<1>1. /\ paused' = FALSE /\ settled' = settled
      /\ log' = log /\ intent' = intent /\ births' = births /\ lock' = lock /\ call' = call
      /\ requests' = requests /\ disturbed' = disturbed
  BY DEF Resume
<1>2. LaneTypes
  BY DEF LaneInv
<1>3. LaneTypes'
  BY <1>1, <1>2 DEF LaneTypes, Quiet
<1> QED
  BY <1>1, <1>3, CallsStay DEF LaneInv

\* The start of the auction: the first hot state is what the rounds of the intents
\* laid before it come to.
LEMMA StartKeeps ==
  ASSUME LaneInv, Start, settled' = 1, UNCHANGED <<lock, call, sideVars>>
  PROVE  LaneInv'
<1> DEFINE s == [status |-> "ACTIVE", price |-> 0, leader |-> Nobody, auto |-> FALSE]
           opening == AutoMaxBid(s, intent)
<1>1. /\ log = <<>> /\ log' = <<opening.state>> /\ intent' = opening.rows /\ births' = births
      /\ opening.done
      /\ lock' = lock /\ call' = call /\ requests' = requests /\ paused' = paused /\ disturbed' = disturbed
  BY DEF Start, sideVars
<1>2. LaneTypes /\ Quiet /\ ~paused /\ ~disturbed /\ \A u \in Users : lock[u] = Nobody
  BY <1>1 DEF LaneInv, LaneTypes
<1>3. Cap \in Nat \ {0} /\ intent \in Rows /\ births \in Seq(Nat) /\ BornIn(intent)
  BY LaneFacts
<1>4. s \in HotState /\ s.status = "ACTIVE" /\ s.price = 0
  BY <1>3 DEF HotState, Anyone
<1> HIDE DEF s
<1>5. RoundOK(opening, intent) /\ Finished(opening)
  BY <1>3, <1>4, AutoMaxBidIs
<1> HIDE DEF opening
<1>6. /\ opening.state \in HotState /\ opening.rows \in Rows
      /\ opening.state.status = "ACTIVE" => opening.state.price < Cap
      /\ \A u \in Users : intent'[u].status = "none" <=> intent[u].status = "none"
  BY <1>1, <1>5 DEF RoundOK
<1>7. log' \in Seq(HotState) /\ Len(log') = 1 /\ DOMAIN log' = 1 .. 1 /\ log'[1] = opening.state /\ log' # <<>>
  BY <1>1, <1>6
<1>8. LaneTypes'
  <2>1. settled' \in 0 .. Len(log') /\ settled' >= 1
    BY <1>7
  <2> QED
    BY <1>1, <1>2, <1>6, <1>7, <2>1 DEF LaneTypes
<1>9. PricesRise'
  <2>1. \A i \in DOMAIN log' : i = 1
    BY <1>7
  <2> QED
    BY <1>6, <1>7, <2>1 DEF PricesRise
<1>10. BornIn(intent)' /\ LocksHold'
  BY <1>1, <1>2, <1>3, <1>6 DEF BornIn, LocksHold
<1>11. \A c \in Users : call'[c] = Idle /\ FairCall(call'[c], c, log') /\ LockedCall(call'[c], c, lock')
  <2>1. \A c \in Users : call'[c] = Idle
    BY <1>1, <1>2 DEF Quiet
  <2> QED
    BY <2>1, IdleIs
<1>12. Undisturbed'
  <2>1. Hot' = opening.state
    BY <1>7 DEF Hot
  <2>2. Hot'.status = "ACTIVE" => Served(Hot', intent')
    BY <1>1, <1>5, <2>1 DEF Finished
  <2>3. (~paused)' /\ (Quiet /\ Hot.status = "ACTIVE" => Served(Hot, intent))'
    BY <1>1, <1>2, <2>2
  <2> QED
    BY <1>11, <2>3, Zenon DEF Undisturbed
<1> QED
  BY <1>8, <1>9, <1>10, <1>11, <1>12 DEF LaneInv

\* Before the auction starts nobody has a call, and no lock is held.
LEMMA HotLaneInitOK == HotLaneInit => LaneInv
<1> SUFFICES ASSUME HotLaneInit
             PROVE  LaneInv
  OBVIOUS
<1>1. /\ log = <<>> /\ settled = 0 /\ lock = [u \in Users |-> Nobody] /\ call = [u \in Users |-> Idle]
      /\ requests = 0 /\ paused = FALSE /\ disturbed = FALSE
  BY DEF HotLaneInit
<1>2. Cap \in Nat /\ IsFiniteSet(Users) /\ Users \subseteq Nat \ {0} /\ MaxRequests \in Nat
  BY MaxBidsAssumption, ProxyBiddingAssumption
<1>3. PICK n \in 0 .. Cardinality(Users) : births = [i \in 1 .. n |-> i]
  BY DEF HotLaneInit
<1>4. n \in Nat
  BY <1>2, <1>3, FS_CardinalityType
<1>5. births \in Seq(Nat) /\ Len(births) = n /\ DOMAIN births = 1 .. n
  BY <1>3, <1>4
<1>6. PICK max \in [Users -> 1 .. Cap] :
        intent = [u \in Users |-> IF u <= Len(births) THEN [status |-> "ACTIVE", max |-> max[u]] ELSE NoIntent]
  BY DEF HotLaneInit
<1>7. ASSUME NEW u \in Users
      PROVE  intent[u] \in IntentRow /\ (intent[u].status # "none" => u \in 1 .. n)
  <2>1. max[u] \in 0 .. Cap /\ u \in Nat \ {0}
    BY <1>2, <1>6
  <2>2. CASE u <= n
    <3>1. intent[u] = [status |-> "ACTIVE", max |-> max[u]]
      BY <1>5, <1>6, <2>2
    <3>2. u \in 1 .. n
      BY <1>4, <2>1, <2>2
    <3> QED
      BY <2>1, <3>1, <3>2 DEF IntentRow
  <2>3. CASE ~(u <= n)
    <3>1. intent[u] = NoIntent
      BY <1>5, <1>6, <2>3
    <3> QED
      BY <1>2, <3>1 DEF IntentRow, NoIntent
  <2> QED
    BY <2>2, <2>3
<1>8. intent \in Rows
  <2>1. intent \in [Users -> IntentRow]
    BY <1>6, <1>7
  <2> QED
    BY <2>1 DEF Rows
<1>9. LaneTypes
  <2>1. call \in [Users -> Call] /\ Quiet
    BY <1>1, IdleIs DEF Quiet
  <2>2. lock \in [Users -> Anyone] /\ \A u \in Users : lock[u] = Nobody
    BY <1>1 DEF Anyone
  <2>3. log \in Seq(HotState) /\ Len(log) = 0
    BY <1>1
  <2>4. settled \in 0 .. Len(log) /\ requests \in 0 .. MaxRequests
    BY <1>1, <1>2, <2>3
  <2>5. paused \in BOOLEAN /\ disturbed \in BOOLEAN /\ ~paused /\ ~disturbed
    BY <1>1
  <2> QED
    BY <1>1, <1>5, <1>8, <2>1, <2>2, <2>3, <2>4, <2>5 DEF LaneTypes
<1>10. PricesRise
  <2>1. DOMAIN log = {}
    BY <1>1
  <2> QED
    BY <2>1 DEF PricesRise
<1>11. BornIn(intent)
  <2>1. \A i \in 1 .. n : i \in DOMAIN births /\ births[i] = i
    BY <1>3, <1>5
  <2> QED
    BY <1>7, <2>1 DEF BornIn
<1>12. /\ LocksHold /\ Undisturbed
       /\ \A c \in Users : FairCall(call[c], c, log) /\ LockedCall(call[c], c, lock)
  BY <1>1, IdleIs DEF LocksHold, Undisturbed, Started
<1> QED
  BY <1>9, <1>10, <1>11, <1>12 DEF LaneInv

\* Every step keeps the invariant.
LEMMA HotLaneNextOK == LaneInv /\ [HotLaneNext]_vars => LaneInv'
<1> SUFFICES ASSUME LaneInv, [HotLaneNext]_vars
             PROVE  LaneInv'
  OBVIOUS
<1>1. CASE Start /\ settled' = 1 /\ UNCHANGED <<lock, call, sideVars>>
  BY <1>1, StartKeeps
<1>2. ASSUME NEW c \in Users, NEW amount \in 1 .. Cap, PlaceBid(c, amount)
      PROVE  LaneInv'
  BY <1>2, PlaceBidKeeps
<1>3. ASSUME NEW c \in Users, NEW amount \in 1 .. Cap, PutMaxBidIntent(c, amount)
      PROVE  LaneInv'
  BY <1>3, PutMaxBidIntentKeeps
<1>4. ASSUME NEW c \in Users, DeleteMaxBidIntent(c)
      PROVE  LaneInv'
  BY <1>4, DeleteMaxBidIntentKeeps
<1>5. ASSUME NEW c \in Users, CallStep(c)
      PROVE  LaneInv'
  BY <1>5, PreemptReadKeeps, PreemptLoadKeeps, PreemptLockKeeps, PreemptBidKeeps, ManualBidKeeps,
     ResolveReadKeeps, ResolveLoadKeeps, ResolveMarkKeeps, ResolveBidKeeps, ResolveExceededKeeps,
     TriggerReadKeeps, TriggerLockKeeps, TriggerBidKeeps DEF CallStep
<1>6. ASSUME NEW c \in Users, Abandon(c)
      PROVE  LaneInv'
  BY <1>6, AbandonKeeps
<1>7. CASE Settle
  BY <1>7, SettleKeeps
<1>8. CASE Resume
  BY <1>8, ResumeKeeps
<1>9. CASE UNCHANGED vars
  <2>1. /\ log' = log /\ intent' = intent /\ births' = births /\ settled' = settled /\ lock' = lock
        /\ call' = call /\ requests' = requests /\ paused' = paused /\ disturbed' = disturbed
    BY <1>9 DEF vars, sideVars
  <2>2. LaneTypes'
    BY <2>1 DEF LaneInv, LaneTypes, Quiet
  <2> QED
    BY <2>1, <2>2, CallsStay DEF LaneInv
<1> QED
  BY <1>1, <1>2, <1>3, <1>4, <1>5, <1>6, <1>7, <1>8, <1>9 DEF HotLaneNext

-----------------------------------------------------------------------------
(* The theorems *)

\* What is read, chosen and locked on the way to a bid fits together in every
\* interleaving of the calls.
THEOREM HotLaneInvariant == HotLaneSpec => []LaneInv
BY HotLaneInitOK, HotLaneNextOK, PTL DEF HotLaneSpec

\* The rounds of the proxies come to the end they should: when the auction starts,
\* and after a manual bid that nobody disturbed, nobody who would bid more is left outbid.
THEOREM EveryProxyIsServed == HotLaneSpec => []ProxiesServed
<1>1. LaneInv => ProxiesServed
  BY DEF LaneInv, Undisturbed, Served, ProxiesServed
<1> QED
  BY <1>1, HotLaneInvariant, PTL

\* The limit on the rounds, which pauses the auction for everyone, is met only by calls
\* that others disturbed: a manual bid left alone is through after two bids of proxies.
THEOREM PausesNeedRivals == HotLaneSpec => []PauseNeedsRivals
<1>1. LaneInv => PauseNeedsRivals
  BY DEF LaneInv, LaneTypes, Undisturbed, Started, PauseNeedsRivals
<1> QED
  BY <1>1, HotLaneInvariant, PTL

\* The last entry of the log after a bid.
LEMMA LastBidIs ==
  ASSUME LaneInv, Started, NEW u \in Users, NEW amount \in 0 .. Cap
  PROVE  /\ log' = Append(log, Accept(Hot, u, amount, TRUE)) =>
              log'[Len(log')].price = amount /\ log'[Len(log')].leader = u
         /\ log' = Append(log, Accept(Hot, u, amount, FALSE)) => ~log'[Len(log')].auto
<1>1. log \in Seq(HotState) /\ Hot \in HotState
  BY LaneFacts, HotIs
<1>2. ASSUME NEW t \in HotState
      PROVE  log' = Append(log, t) => log'[Len(log')] = t
  BY <1>1
<1>3. /\ IsAccepted(Accept(Hot, u, amount, TRUE), Hot, u, amount)
      /\ IsAccepted(Accept(Hot, u, amount, FALSE), Hot, u, amount)
      /\ ~Accept(Hot, u, amount, FALSE).auto
  BY <1>1, AcceptIs
<1> QED
  BY <1>2, <1>3 DEF IsAccepted

\* A bid of a proxy is the step of one call, at one of the three places a proxy bids,
\* with the lock it took there.
LEMMA ProxyBids ==
  ASSUME LaneInv, HotLaneNext, ByProxy
  PROVE  \E c \in Users : /\ call[c].pc \in Bidding /\ Bids(c)
                          /\ log'[Len(log')].leader = call[c].step.who
                          /\ log'[Len(log')].price = call[c].step.amount
                          /\ call[c].step.amount > Hot.price
<1>1. Len(log) \in Nat /\ log \in Seq(HotState) /\ Len(log') > Len(log) /\ log # <<>> /\ log'[Len(log')].auto
  BY LaneFacts DEF ByProxy
<1>2. log' # log
  BY <1>1
<1>3. PICK c \in Users : PreemptBid(c) \/ ManualBid(c) \/ ResolveBid(c) \/ TriggerBid(c)
  <2>1. ~Start /\ ~Settle /\ ~Resume
    BY <1>1, <1>2 DEF Start, Settle, Resume
  <2>2. ASSUME NEW c \in Users, NEW amount \in 1 .. Cap
        PROVE  ~PlaceBid(c, amount) /\ ~PutMaxBidIntent(c, amount)
    BY <1>2 DEF PlaceBid, PutMaxBidIntent
  <2>3. ASSUME NEW c \in Users
        PROVE  ~DeleteMaxBidIntent(c) /\ ~Abandon(c)
    BY <1>2 DEF DeleteMaxBidIntent, Abandon
  <2>4. PICK c \in Users : CallStep(c)
    BY <2>1, <2>2, <2>3 DEF HotLaneNext
  <2>5. ~PreemptRead(c) /\ ~PreemptLoad(c) /\ ~PreemptLock(c)
    BY <1>2 DEF PreemptRead, PreemptLoad, PreemptLock
  <2>6. ~ResolveRead(c) /\ ~ResolveLoad(c) /\ ~ResolveMark(c) /\ ~ResolveExceeded(c)
    BY <1>2 DEF ResolveRead, ResolveLoad, ResolveMark, ResolveExceeded
  <2>7. ~TriggerRead(c) /\ ~TriggerLock(c)
    BY <1>2 DEF TriggerRead, TriggerLock
  <2> QED
    BY <2>4, <2>5, <2>6, <2>7 DEF CallStep
<1>4. FairCall(call[c], c, log) /\ LockedCall(call[c], c, lock) /\ call \in [Users -> Call]
  BY LaneFacts
<1> DEFINE who == call[c].step.who
           amount == call[c].step.amount
<1>5. CASE PreemptBid(c) \/ ResolveBid(c)
  <2>1. call[c].pc \in {"preempt bid", "bid"} /\ AutoAccepted(amount) /\ AutoBid(c)
    BY <1>2, <1>5 DEF PreemptBid, ResolveBid
  <2>2. call[c].step.who \in Users /\ call[c].pc # "idle"
    BY <1>4, <2>1 DEF FairCall, FairIn
  <2>3. Hot' = log'[Len(log')] /\ Hot'.price = amount /\ Hot'.leader = who /\ Hot'.price > Hot.price
    BY <2>1, <2>2, AutoBidIs
  <2>4. call'[c].pc \in {"idle", "read"}
    <3>1. CASE PreemptBid(c)
      <4>1. call' = [call EXCEPT ![c] = Idle]
        BY <2>1, <3>1 DEF PreemptBid, Answered
      <4> QED
        BY <1>4, <4>1, IdleIs
    <3>2. CASE ResolveBid(c)
      <4>1. GoesOn(c) /\ call[c].rounds < MaxRounds
        BY <1>4, <2>1, <3>2 DEF ResolveBid, FairCall
      <4>2. PICK y \in Call : MovedTo(y, c, "read", call[c].rounds + 1)
        BY <4>1, GoesOnIs
      <4>3. call' = [call EXCEPT ![c] = y] /\ y.pc = "read"
        BY <4>2 DEF MovedTo
      <4> QED
        BY <1>4, <4>3
    <3> QED
      BY <1>5, <3>1, <3>2
  <2>5. call'[c] # call[c]
    BY <2>1, <2>4
  <2> QED
    BY <2>1, <2>3, <2>5 DEF Bids, Bidding
<1>6. CASE TriggerBid(c)
  <2>1. /\ call[c].pc = "trigger bid" /\ AutoAccepted(amount) /\ who = c
        /\ log' = Append(log, Accept(Hot, c, amount, TRUE)) /\ call' = [call EXCEPT ![c] = Idle]
    BY <1>2, <1>4, <1>6 DEF TriggerBid, LockedCall, Answered
  <2>2. Started /\ amount \in 0 .. Cap
    BY <2>1, BusyIs
  <2>3. amount > Hot.price
    BY <2>1 DEF AutoAccepted, Executable
  <2>4. Bids(c) /\ call[c].pc \in Bidding
    BY <1>4, <2>1, IdleIs DEF Bids, Bidding
  <2> HIDE DEF amount, who
  <2>5. log'[Len(log')].price = amount /\ log'[Len(log')].leader = c
    BY <2>1, <2>2, LastBidIs
  <2> QED
    BY <2>1, <2>3, <2>4, <2>5 DEF amount, who
<1>7. CASE ManualBid(c)
  <2>1. log' = Append(log, Accept(Hot, c, call[c].ask, FALSE))
    BY <1>2, <1>7 DEF ManualBid
  <2>2. call[c].pc # "idle"
    BY <1>7 DEF ManualBid
  <2> DEFINE ask == call[c].ask
  <2>3. Started /\ ask \in 0 .. Cap /\ log' = Append(log, Accept(Hot, c, ask, FALSE))
    BY <2>1, <2>2, BusyIs
  <2> HIDE DEF ask
  <2>4. ~log'[Len(log')].auto
    BY <2>3, LastBidIs
  <2> QED
    BY <1>1, <2>4
<1> QED
  BY <1>3, <1>5, <1>6, <1>7

\* A proxy never pays more than it has to, however its call interleaves with the others:
\* it stays within the maximum that was in force when its round loaded the intents, and
\* goes over the next increment only where a rival of that round has shown the amount
\* just below it.
THEOREM ProxiesAreFrugal == HotLaneSpec => ProxyIsFrugal
<1>1. LaneInv /\ [HotLaneNext]_vars =>
        [ByProxy =>
           LET u == log'[Len(log')].leader  amount == log'[Len(log')].price IN
           \E c \in Users :
             /\ Bids(c) /\ call[c].step.who = u
             /\ amount <= call[c].known[u]
             /\ \/ amount = Hot.price + 1 /\ Hot.leader # u
                \/ \E r \in Users \ {u} :
                     call[c].known[r] >= amount - 1 \/ (r = c /\ call[c].ask >= amount - 1)]_log
  <2> DEFINE u == log'[Len(log')].leader
             amount == log'[Len(log')].price
  <2> SUFFICES ASSUME LaneInv, HotLaneNext, ByProxy
               PROVE  \E c \in Users :
                        /\ Bids(c) /\ call[c].step.who = u
                        /\ amount <= call[c].known[u]
                        /\ \/ amount = Hot.price + 1 /\ Hot.leader # u
                           \/ \E r \in Users \ {u} :
                                call[c].known[r] >= amount - 1 \/ (r = c /\ call[c].ask >= amount - 1)
    BY DEF vars
  <2>1. PICK c \in Users : /\ call[c].pc \in Bidding /\ Bids(c)
                           /\ u = call[c].step.who /\ amount = call[c].step.amount
                           /\ call[c].step.amount > Hot.price
    BY ProxyBids
  <2> HIDE DEF u, amount
  <2>2. FairIn(log, call[c], c, u, amount) /\ amount > Hot.price
    BY <2>1, LaneFacts DEF FairCall, Bidding
  <2>3. amount \in Nat /\ Started
    <3>1. call[c].pc # "idle"
      BY <2>1 DEF Bidding
    <3>2. Started /\ call[c].step.amount \in 0 .. Cap
      BY <3>1, BusyIs
    <3>3. amount \in 0 .. Cap
      BY <2>1, <3>2
    <3>4. Cap \in Nat
      BY MaxBidsAssumption
    <3> QED
      BY <3>2, <3>3, <3>4
  <2>4. ASSUME NEW i \in DOMAIN log, log[i].price + 1 = amount
        PROVE  i = Len(log)
    <3>1. log[i].price \in Nat /\ Hot.price \in Nat /\ (i # Len(log) => log[i].price < Hot.price)
      BY <2>3, LaneFacts, HotIs
    <3> QED
      BY <2>2, <2>4, <3>1
  <2>5. /\ amount <= call[c].known[u]
        /\ \/ amount = Hot.price + 1 /\ Hot.leader # u
           \/ \E r \in Users \ {u} :
                call[c].known[r] >= amount - 1 \/ (r = c /\ call[c].ask >= amount - 1)
    BY <2>2, <2>4 DEF FairIn, Hot
  <2> QED
    BY <2>1, <2>5
<1> QED
  BY <1>1, HotLaneInvariant, PTL DEF HotLaneSpec, ProxyIsFrugal

\* An intent that its user cancelled does not bid, however late the call that had chosen
\* it: the call holds the lock that a cancellation needs.
THEOREM CancelledIntentsAreSilent == HotLaneSpec => CancelledNeverBids
<1>1. LaneInv /\ [HotLaneNext]_vars =>
        [ByProxy => intent[log'[Len(log')].leader].status # "CANCELLED"]_log
  <2> SUFFICES ASSUME LaneInv, HotLaneNext, ByProxy
               PROVE  intent[log'[Len(log')].leader].status # "CANCELLED"
    BY DEF vars
  <2>1. PICK c \in Users : call[c].pc \in Bidding /\ log'[Len(log')].leader = call[c].step.who
    BY ProxyBids
  <2>2. /\ FairCall(call[c], c, log) /\ LockedCall(call[c], c, lock) /\ Nobody \notin Users
        /\ LocksHold
    BY LaneFacts
  <2>3. call[c].step.who \in Users /\ lock[call[c].step.who] = c
    BY <2>1, <2>2 DEF FairCall, FairIn, LockedCall, Bidding
  <2>4. intent[call[c].step.who].status # "CANCELLED"
    BY <2>2, <2>3 DEF LocksHold
  <2> QED
    BY <2>1, <2>4
<1> QED
  BY <1>1, HotLaneInvariant, PTL DEF HotLaneSpec, CancelledNeverBids

\* HotLaneTypeOK: every variable keeps its type, what a call holds and the limit on its
\* rounds included.
THEOREM HotLaneTypesCorrect == HotLaneSpec => []HotLaneTypeOK
<1>1. LaneInv => HotLaneTypeOK
  BY DEF LaneInv, LaneTypes, HotLaneTypeOK, HotState, Anyone, Rows, IntentRow, Call, Step
<1> QED
  BY <1>1, HotLaneInvariant, PTL

=============================================================================
