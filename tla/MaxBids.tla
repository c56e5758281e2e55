-------------------------------- MODULE MaxBids --------------------------------
(***************************************************************************)
(* Max-bid intents ("bid for me up to ...") and the rules by which they bid *)
(* for their users, as PostgreSQL applies them when an auction starts       *)
(* (auction/bid.go 1023-1214, auction/max_bid_intent.go, auction/rules.go). *)
(* Amounts are multiples of the increment above the start price, so the     *)
(* price starts at 0 and the increment is 1.                                *)
(***************************************************************************)
EXTENDS Integers, Sequences, FiniteSets

CONSTANTS
  Users,          \* the bidders: positive numbers
  Cap,            \* cap_price_cents, in increments
  MaxRounds       \* the limit on the rounds of proxy bids; 100 in the code

ASSUME MaxBidsAssumption ==
  /\ Users \subseteq Nat \ {0} /\ IsFiniteSet(Users)
  /\ Cap \in Nat \ {0}
  /\ MaxRounds \in Nat /\ MaxRounds >= 3

VARIABLES
  log,            \* the successive hot states, each with who bid it and how
  intent,         \* max_bid_intents, by user
  births          \* the users with an intent, in the order of created_at

Nobody == 0
NoIntent == [status |-> "none", max |-> 0]

Born(u) == CHOOSE i \in DOMAIN births : births[i] = u
ActiveIn(rows) == {u \in Users : rows[u].status = "ACTIVE"}

(* ClassifyBidAmount, on a grid of increments: the bid is neither too low nor above the cap. *)
Executable(s, amount) == amount > s.price /\ amount <= Cap

(* An accepted bid: at the cap it sells the auction. *)
Accept(s, u, amount, auto) ==
  [status |-> IF amount = Cap THEN "SOLD" ELSE s.status, price |-> amount, leader |-> u, auto |-> auto]

(* defenderBeatsOrTies: the greater maximum, or the older intent. *)
Beats(rows, u, v) ==
  \/ rows[u].max > rows[v].max
  \/ rows[u].max = rows[v].max /\ Born(u) < Born(v)

(* ORDER BY max_amount_cents DESC, created_at ASC: the first of some users. *)
First(rows, us) == CHOOSE u \in us : \A v \in us \ {u} : Beats(rows, u, v)

Least(S) == CHOOSE x \in S : \A y \in S : x <= y

(* Mutant: the defender shows its maximum at once. *)
DefendingAtMax(max, challenge) == Least({max, Cap})

(* defendingBidAmount: one increment over the challenge, if the maximum allows it. *)
DefendingAmount(max, challenge) ==
  Least({IF max > challenge THEN challenge + 1 ELSE challenge, max, Cap})

(* nextAutoMaxBidStep: who bids how much next, and which intents are exhausted. *)
NoStep(exhausted) == [who |-> Nobody, amount |-> 0, exhausted |-> exhausted]
NextStep(s, rows) ==
  LET rivals == ActiveIn(rows) \ {s.leader}
      top == First(rows, rivals)
  IN  IF rivals = {} THEN NoStep({})
      ELSE IF rows[top].max <= s.price THEN NoStep(rivals)
      ELSE IF s.leader \in ActiveIn(rows) /\ Beats(rows, s.leader, top)
      THEN [who |-> s.leader, amount |-> DefendingAmount(rows[s.leader].max, rows[top].max),
            exhausted |-> {top}]
      ELSE [who |-> top, amount |-> s.price + 1, exhausted |-> {}]

Mark(rows, us, status) ==
  [u \in Users |-> IF u \in us /\ rows[u].status = "ACTIVE" THEN [rows[u] EXCEPT !.status = status]
                   ELSE rows[u]]

(* One round of applyAutoMaxBid on the locked row; the one that bids no more is the last. *)
AutoRound(x) ==
  LET step == NextStep(x.state, x.rows) IN
  IF x.done THEN x
  ELSE IF x.state.status # "ACTIVE"
  THEN [x EXCEPT !.rows = Mark(x.rows, Users, "TERMINAL"), !.done = TRUE]
  ELSE IF step.who = Nobody
  THEN [x EXCEPT !.rows = Mark(x.rows, step.exhausted \cup {u \in Users : x.rows[u].max <= x.state.price},
                               "EXHAUSTED"),
                 !.done = TRUE]
  ELSE [state |-> Accept(x.state, step.who, step.amount, TRUE),
        rows |-> Mark(x.rows, step.exhausted, "EXHAUSTED"), done |-> FALSE]

(* applyAutoMaxBid: the rounds up to the limit. *)
AutoMaxBid(s, rows) ==
  LET after[n \in 0 .. MaxRounds] ==
        IF n = 0 THEN [state |-> s, rows |-> rows, done |-> FALSE] ELSE AutoRound(after[n - 1])
  IN  after[MaxRounds]

(* Start: the auction is ACTIVE, and the intents laid before it bid at once.  At the *)
(* limit the transaction is rolled back, and the auction does not start.             *)
Start ==
  /\ log = <<>>
  /\ LET opening == AutoMaxBid([status |-> "ACTIVE", price |-> 0, leader |-> Nobody, auto |-> FALSE], intent)
     IN  opening.done /\ log' = <<opening.state>> /\ intent' = opening.rows
  /\ UNCHANGED births
=============================================================================
