---------------------------- MODULE HotEngineProofs ----------------------------
(***************************************************************************)
(* What the hot bid engine guarantees for any number of bidders, keys and  *)
(* calls, and for any rules of the auction: a key is decided once, the     *)
(* state is what the log says, prices are fair and the end is bounded.     *)
(***************************************************************************)
EXTENDS HotEngine, TLAPS

----------------------------------------------------------------------------
(* The inductive invariant *)

\* A call under way has a key.
CallsHaveKeys == \A c \in Calls : calls[c].op # "idle" => calls[c].key \in AllKeys

\* The record of a key that was decided names the decision.
RecordsAreDecisions == \A n \in DOMAIN log : idem[log[n].key] = n

\* Every extension is counted.
EndIsCounted == state.end <= FirstEnd + state.extends * ExtendBy

\* The counters of the state are those of the log.
NumbersAreLog ==
    /\ state.seq = Len(log)
    /\ state.count <= Len(log)
    /\ \A n \in DOMAIN log : log[n].seq = n

\* The last acceptance is n, and the state shows it.
Shows(n) ==
    /\ n \in Accepted
    /\ \A m \in Accepted : m <= n
    /\ state.price = log[n].amount
    /\ state.winner = log[n].user

\* Price and winner are those of the last acceptance, and no acceptance was
\* higher; after a sale the auction is not open.
PriceIsLog ==
    /\ state.count = 0 => Accepted = {} /\ state.winner = NoUser
    /\ state.count > 0 => \E n \in Accepted : Shows(n)
    /\ \A n \in Accepted : /\ log[n].amount <= state.price
                           /\ log[n].kind = "sold" => state.status # "ACTIVE"

HotInv ==
    /\ HotTypeOK
    /\ CallsHaveKeys
    /\ RecordsAreDecisions
    /\ EndIsCounted
    /\ NumbersAreLog
    /\ PriceIsLog
    /\ PricesAreFair

----------------------------------------------------------------------------
(* Lemmas about the scripts *)

\* A bid that no guard of the scripts refuses passed each of them.
LEMMA Admitted ==
    ASSUME NEW c, Reason(c) = "none"
    PROVE  /\ state.status = "ACTIVE"
           /\ ~(calls[c].now > state.end)
           /\ ~(Cap > 0 /\ Amount(c) > Cap)
           /\ ~(Amount(c) < Base + Increment)
<1> DEFINE guards == << [fails |-> state.status # "ACTIVE", why |-> "AUCTION_NOT_ACTIVE"],
                     [fails |-> calls[c].now > state.end, why |-> "AUCTION_ENDED"],
                     [fails |-> state.winner = Bidder(c) /\ calls[c].op # "auto", why |-> "REJECTED_SELF_LEADING"],
                     [fails |-> Cap > 0 /\ Amount(c) > Cap, why |-> "BID_ABOVE_CAP"],
                     [fails |-> Amount(c) < Base + Increment, why |-> "BID_TOO_LOW"],
                     [fails |-> (Amount(c) - Base) % Increment # 0, why |-> "BID_INCREMENT_MISMATCH"],
                     [fails |-> TRUE, why |-> "none"] >>
           Fails(i) == guards[i].fails /\ \A j \in 1..(i - 1) : ~guards[j].fails
           first == CHOOSE i \in DOMAIN guards : Fails(i)
<1>1. DOMAIN guards = 1..7
  OBVIOUS
<1>2. \E i \in 1..7 : Fails(i)
  <2>1. guards[7].fails
    OBVIOUS
  <2> HIDE DEF guards
  <2> QED
    BY <2>1
<1>3. first \in 1..7 /\ Fails(first)
  <2> HIDE DEF guards
  <2> QED
    BY <1>1, <1>2
<1>4. guards[first].why = "none"
  BY DEF Reason
<1>5. first = 7
  <2> HIDE DEF first
  <2> QED
    BY <1>3, <1>4
<1>6. \A j \in 1..6 : ~guards[j].fails
  <2> HIDE DEF guards, first
  <2> QED
    BY <1>3, <1>5
<1>7. ~guards[1].fails /\ ~guards[2].fails /\ ~guards[4].fails /\ ~guards[5].fails
  <2> HIDE DEF guards
  <2> QED
    BY <1>6
<1>8. guards[1].fails = (state.status # "ACTIVE")
  OBVIOUS
<1>9. guards[2].fails = (calls[c].now > state.end)
  OBVIOUS
<1>10. guards[4].fails = (Cap > 0 /\ Amount(c) > Cap)
  OBVIOUS
<1>11. guards[5].fails = (Amount(c) < Base + Increment)
  OBVIOUS
<1> QED
  <2> HIDE DEF guards
  <2> QED
    BY <1>7, <1>8, <1>9, <1>10, <1>11

\* What a call that may decide works on: its request, and a key without decision.
LEMMA DeciderTypes ==
    ASSUME HotInv, NEW c \in Calls, MayDecide(c)
    PROVE  /\ calls[c].key \in AllKeys
           /\ calls[c].op \in {"bid", "auto", "confirm"}
           /\ calls[c].now \in 0..MaxTime
           /\ Bidder(c) \in Users
           /\ Amount(c) \in Amounts /\ Amount(c) \in Nat
           /\ Base \in Nat
           /\ idem[calls[c].key] \in {Absent, Asked}
           /\ Len(log) \in Nat /\ Len(log) < MaxSeq
           /\ \A n \in DOMAIN log : log[n].key # calls[c].key
<1>1. calls[c].op \in {"bid", "auto", "confirm"} /\ idem[calls[c].key] \in {Absent, Asked}
  BY DEF MayDecide, FreshBid, LiveConfirm
<1>2. calls[c].key \in AllKeys /\ calls[c].now \in 0..MaxTime
  BY <1>1 DEF HotInv, CallsHaveKeys, HotTypeOK
<1>3. Bidder(c) \in Users /\ Amount(c) \in Amounts /\ Amount(c) \in Nat
  BY <1>2, HotAssumption DEF HotInv, HotTypeOK, Bidder, Amount
<1>4. Base \in Nat
  BY HotAssumption DEF HotInv, HotTypeOK, Base
<1>5. Len(log) \in Nat /\ Len(log) < MaxSeq
  BY DEF HotInv, HotTypeOK, MayDecide
<1>6. ASSUME NEW n \in DOMAIN log, log[n].key = calls[c].key
      PROVE  FALSE
  <2>1. log \in Seq(HotDecision)
    BY DEF HotInv, HotTypeOK
  <2>2. n \in Nat /\ n > 0
    BY <2>1
  <2>3. idem[calls[c].key] = n
    BY <1>6 DEF HotInv, RecordsAreDecisions
  <2> QED
    BY <1>1, <2>2, <2>3 DEF Absent, Asked
<1> QED
  BY <1>1, <1>2, <1>3, <1>4, <1>5, <1>6

\* The entry the call c stores as kind.
Entry(c, kind) ==
    [seq |-> state.seq + 1, key |-> calls[c].key, user |-> Bidder(c),
     amount |-> Amount(c), kind |-> kind, op |-> calls[c].op]

\* store_decision keeps all decisions, adds one, and its record names it.
LEMMA Stored ==
    ASSUME HotInv, NEW c \in Calls, MayDecide(c),
           NEW kind \in {"accepted", "sold", "rejected", "quiet"}, Store(c, kind)
    PROVE  /\ log' \in Seq(HotDecision) /\ Len(log') = Len(log) + 1 /\ Len(log') <= MaxSeq
           /\ DOMAIN log' = 1..(Len(log) + 1) /\ DOMAIN log = 1..Len(log)
           /\ \A n \in 1..Len(log) : log'[n] = log[n]
           /\ log'[Len(log) + 1] = Entry(c, kind)
           /\ idem' \in [AllKeys -> {Absent, Asked} \cup 1..MaxSeq]
           /\ token' \in [AllKeys -> 0..(MaxTime + TokenTTL) \cup {NoToken}]
           /\ calls' \in [Calls -> [op: {"idle", "bid", "auto", "confirm"},
                                   key: AllKeys \cup {"none"}, now: 0..MaxTime]]
           /\ CallsHaveKeys'
           /\ RecordsAreDecisions'
<1> DEFINE k == calls[c].key
           e == Entry(c, kind)
<1>1. /\ k \in AllKeys /\ idem[k] \in {Absent, Asked}
      /\ Len(log) \in Nat /\ Len(log) < MaxSeq
      /\ \A n \in DOMAIN log : log[n].key # k
  BY DeciderTypes
<1>2. MaxSeq \in Nat /\ MaxTime \in Nat /\ state.seq = Len(log)
  BY HotAssumption DEF HotInv, NumbersAreLog
<1>3. e \in HotDecision
  BY DeciderTypes, <1>1, <1>2 DEF HotDecision, Entry
<1>4. e.key = k
  BY DEF Entry
<1>5. log \in Seq(HotDecision) /\ log' = Append(log, e)
  BY DEF HotInv, HotTypeOK, Store, Entry
<1> HIDE DEF e
<1>6. /\ log' \in Seq(HotDecision) /\ Len(log') = Len(log) + 1
      /\ DOMAIN log' = 1..(Len(log) + 1) /\ DOMAIN log = 1..Len(log)
      /\ \A n \in 1..Len(log) : log'[n] = log[n]
      /\ log'[Len(log) + 1] = e
  BY <1>3, <1>5
<1>7. idem' = [idem EXCEPT ![k] = Len(log) + 1] /\ token' = [token EXCEPT ![k] = NoToken]
      /\ calls' = [calls EXCEPT ![c] = NoCall]
  BY DEF Store, Done
<1> HIDE DEF k
<1>8. idem' \in [AllKeys -> {Absent, Asked} \cup 1..MaxSeq]
  BY <1>1, <1>2, <1>7 DEF HotInv, HotTypeOK
<1>9. token' \in [AllKeys -> 0..(MaxTime + TokenTTL) \cup {NoToken}]
  BY <1>7 DEF HotInv, HotTypeOK
<1>10. calls' \in [Calls -> [op: {"idle", "bid", "auto", "confirm"},
                            key: AllKeys \cup {"none"}, now: 0..MaxTime]]
  BY <1>2, <1>7 DEF HotInv, HotTypeOK, NoCall
<1>11. CallsHaveKeys'
  BY <1>7 DEF HotInv, HotTypeOK, CallsHaveKeys, NoCall
<1>12. RecordsAreDecisions'
  <2>1. SUFFICES ASSUME NEW n \in DOMAIN log'
                 PROVE  idem'[log'[n].key] = n
    BY DEF RecordsAreDecisions
  <2>2. idem \in [AllKeys -> {Absent, Asked} \cup 1..MaxSeq]
    BY DEF HotInv, HotTypeOK
  <2>3. CASE n = Len(log) + 1
    BY <2>2, <2>3, <1>1, <1>4, <1>6, <1>7
  <2>4. CASE n # Len(log) + 1
    <3>1. n \in DOMAIN log /\ log'[n] = log[n] /\ log[n].key # k
      BY <2>4, <1>1, <1>6
    <3>2. log[n] \in HotDecision
      BY <3>1, <1>5
    <3>3. log[n].key \in AllKeys
      BY <3>2 DEF HotDecision
    <3>4. idem[log[n].key] = n
      BY <3>1 DEF HotInv, RecordsAreDecisions
    <3> QED
      BY <3>1, <3>3, <3>4, <2>2, <1>7
  <2> QED
    BY <2>3, <2>4
<1> QED
  BY <1>1, <1>2, <1>6, <1>8, <1>9, <1>10, <1>11, <1>12 DEF e

\* The type of state.
StateType ==
    [status: Statuses, price: Nat, winner: Users \cup {NoUser}, count: 0..MaxSeq,
     end: Nat, extends: 0..MaxExtend, ceiling: Nat, seq: 0..MaxSeq,
     epoch: 1..MaxEpoch, paused: BOOLEAN]

\* Extensions by a natural number end at a natural number.
LEMMA NatExtended == \A f, a, b \in Nat : f + a * b \in Nat /\ a * b \in Nat
OBVIOUS

\* More extensions end no earlier.
LEMMA ExtendedRises == \A f, a, b, c \in Nat : a <= b => f + a * c <= f + b * c
OBVIOUS

\* The constants a step computes with are numbers.
LEMMA ConstantTypes ==
    /\ Increment \in Nat /\ StartPrice \in Nat /\ Cap \in Nat /\ Threshold \in Nat
    /\ FirstEnd \in Nat /\ ExtendWindow \in Nat /\ ExtendBy \in Nat /\ MaxExtend \in Nat
    /\ TokenTTL \in Nat /\ MaxTime \in Nat /\ MaxSeq \in Nat /\ MaxEpoch \in Nat
BY HotAssumption

----------------------------------------------------------------------------
(* The invariant holds at first and is kept by every step *)

\* The engine as it is seeded.
LEMMA HotInitInv == Init => HotInv
<1> SUFFICES ASSUME Init
             PROVE  HotInv
  OBVIOUS
<1> USE DEF Init
<1>1. log = <<>> /\ Accepted = {} /\ Len(log) = 0 /\ DOMAIN log = {}
  BY DEF Accepted
<1>2. Ceiling \in Nat
  <2>1. FirstEnd + MaxExtend * ExtendBy \in Nat
    BY ConstantTypes, NatExtended
  <2> QED
    BY <2>1 DEF Ceiling
<1>3. HotTypeOK
  <2>1. state \in StateType
    BY <1>2, HotAssumption DEF StateType, Statuses
  <2>2. log \in Seq(HotDecision)
    BY <1>1
  <2>3. calls \in [Calls -> [op: {"idle", "bid", "auto", "confirm"}, key: AllKeys \cup {"none"}, now: 0..MaxTime]]
    BY HotAssumption DEF NoCall
  <2> QED
    BY <1>1, <2>1, <2>2, <2>3, HotAssumption DEF HotTypeOK, StateType, Absent, NoToken
<1>4. CallsHaveKeys
  BY DEF CallsHaveKeys, NoCall
<1>5. EndIsCounted
  BY HotAssumption DEF EndIsCounted
<1>6. RecordsAreDecisions /\ NumbersAreLog /\ PriceIsLog /\ PricesAreFair
  BY <1>1 DEF RecordsAreDecisions, NumbersAreLog, PriceIsLog, PricesAreFair, PricesRise, BigJumpsConfirmed
<1> QED
  BY <1>3, <1>4, <1>5, <1>6 DEF HotInv

\* What leaves the state, the log and the records alone keeps the invariant.
LEMMA QuietStepInv ==
    ASSUME HotInv, UNCHANGED <<state, request, idem, log>>,
           clock' \in 0..MaxTime,
           token' \in [AllKeys -> 0..(MaxTime + TokenTTL) \cup {NoToken}],
           calls' \in [Calls -> [op: {"idle", "bid", "auto", "confirm"},
                                key: AllKeys \cup {"none"}, now: 0..MaxTime]],
           CallsHaveKeys'
    PROVE  HotInv'
BY DEF HotInv, HotTypeOK, RecordsAreDecisions, EndIsCounted, NumbersAreLog, PriceIsLog, Shows,
       PricesAreFair, PricesRise, BigJumpsConfirmed, Accepted

\* A call that starts or ends is well formed.
LEMMA CallStepTypes ==
    ASSUME HotInv, NEW c \in Calls,
           NEW new \in [op: {"idle", "bid", "auto", "confirm"}, key: AllKeys \cup {"none"}, now: 0..MaxTime],
           new.op # "idle" => new.key \in AllKeys,
           calls' = [calls EXCEPT ![c] = new]
    PROVE  /\ calls' \in [Calls -> [op: {"idle", "bid", "auto", "confirm"},
                                   key: AllKeys \cup {"none"}, now: 0..MaxTime]]
           /\ CallsHaveKeys'
BY DEF HotInv, HotTypeOK, CallsHaveKeys

\* What a script that takes no decision leaves behind.
LEMMA DoneTypes ==
    ASSUME HotInv, NEW c \in Calls, Done(c)
    PROVE  /\ calls' \in [Calls -> [op: {"idle", "bid", "auto", "confirm"},
                                   key: AllKeys \cup {"none"}, now: 0..MaxTime]]
           /\ CallsHaveKeys'
<1>1. NoCall \in [op: {"idle", "bid", "auto", "confirm"}, key: AllKeys \cup {"none"}, now: 0..MaxTime]
  BY HotAssumption DEF NoCall
<1>2. NoCall.op = "idle"
  BY DEF NoCall
<1> QED
  BY <1>1, <1>2, CallStepTypes DEF Done

\* A request that starts.
LEMMA StartInv ==
    ASSUME HotInv, NEW c \in Calls, NEW op \in {"bid", "auto", "confirm"}, NEW k \in AllKeys,
           Start(c, op, k)
    PROVE  HotInv'
<1> DEFINE new == [op |-> op, key |-> k, now |-> clock]
<1>1. new \in [op: {"idle", "bid", "auto", "confirm"}, key: AllKeys \cup {"none"}, now: 0..MaxTime]
  BY DEF HotInv, HotTypeOK
<1>2. new.key \in AllKeys /\ calls' = [calls EXCEPT ![c] = new]
  BY DEF Start
<1> HIDE DEF new
<1>3. /\ calls' \in [Calls -> [op: {"idle", "bid", "auto", "confirm"},
                              key: AllKeys \cup {"none"}, now: 0..MaxTime]]
      /\ CallsHaveKeys'
  BY <1>1, <1>2, CallStepTypes
<1> QED
  BY <1>3, QuietStepInv DEF Start, HotInv, HotTypeOK

\* A step of the state that leaves the log, the price and the winner alone:
\* SetPaused, FenceAuction and Rebuild.
LEMMA StateStepInv ==
    ASSUME HotInv, UNCHANGED <<clock, request, idem, token, log, calls>>,
           state' \in StateType,
           state'.price = state.price, state'.winner = state.winner, state'.count = state.count,
           state'.end = state.end, state'.extends = state.extends, state'.seq = state.seq,
           state.status # "ACTIVE" => state'.status # "ACTIVE"
    PROVE  HotInv'
<1>1. HotTypeOK'
  BY DEF HotInv, HotTypeOK, StateType
<1>2. CallsHaveKeys' /\ RecordsAreDecisions'
  BY DEF HotInv, CallsHaveKeys, RecordsAreDecisions
<1>3. EndIsCounted' /\ NumbersAreLog'
  BY DEF HotInv, EndIsCounted, NumbersAreLog
<1>4. Accepted' = Accepted
  BY DEF Accepted
<1>5. PriceIsLog'
  BY <1>4 DEF HotInv, PriceIsLog, Shows
<1>6. PricesAreFair'
  BY <1>4 DEF HotInv, PricesAreFair, PricesRise, BigJumpsConfirmed
<1> QED
  BY <1>1, <1>2, <1>3, <1>5, <1>6 DEF HotInv

\* A rejection takes a number and changes nothing else of the state.
LEMMA RejectInv ==
    ASSUME HotInv, NEW c \in Calls, Reject(c)
    PROVE  HotInv'
<1> DEFINE kind == IF Reason(c) \in Quiet THEN "quiet" ELSE "rejected"
           last == Len(log) + 1
<1>1. /\ kind \in {"accepted", "sold", "rejected", "quiet"} /\ kind \notin Wins
      /\ MayDecide(c) /\ Store(c, kind) /\ UNCHANGED <<clock, request>>
      /\ state' = [state EXCEPT !.seq = @ + 1]
  BY DEF Reject, Wins
<1> HIDE DEF kind
<1>2. /\ log' \in Seq(HotDecision) /\ Len(log') = Len(log) + 1 /\ Len(log') <= MaxSeq
      /\ DOMAIN log' = 1..(Len(log) + 1) /\ DOMAIN log = 1..Len(log)
      /\ \A n \in 1..Len(log) : log'[n] = log[n]
      /\ log'[last] = Entry(c, kind)
      /\ idem' \in [AllKeys -> {Absent, Asked} \cup 1..MaxSeq]
      /\ token' \in [AllKeys -> 0..(MaxTime + TokenTTL) \cup {NoToken}]
      /\ calls' \in [Calls -> [op: {"idle", "bid", "auto", "confirm"},
                              key: AllKeys \cup {"none"}, now: 0..MaxTime]]
      /\ CallsHaveKeys' /\ RecordsAreDecisions'
  BY <1>1, Stored
<1>3. state \in StateType /\ state.seq = Len(log) /\ Len(log) \in Nat
  BY DEF HotInv, HotTypeOK, StateType, NumbersAreLog
<1>4. state' \in StateType
  <2>1. Len(log) + 1 \in 0..MaxSeq
    BY <1>2, <1>3, HotAssumption
  <2> QED
    BY <1>1, <1>3, <2>1 DEF StateType
<1>5. /\ state'.seq = Len(log) + 1 /\ state'.status = state.status /\ state'.price = state.price
      /\ state'.winner = state.winner /\ state'.count = state.count
      /\ state'.end = state.end /\ state'.extends = state.extends
  BY <1>1, <1>3 DEF StateType
<1>6. HotTypeOK'
  BY <1>1, <1>2, <1>4 DEF HotInv, HotTypeOK, StateType
<1>7. log'[last].kind = kind /\ log'[last].seq = last
  BY <1>2, <1>3 DEF Entry
<1>8. EndIsCounted'
  BY <1>5 DEF HotInv, EndIsCounted
<1>9. NumbersAreLog'
  <2>1. state'.seq = Len(log') /\ state'.count <= Len(log')
    BY <1>2, <1>3, <1>5 DEF HotInv, NumbersAreLog, StateType
  <2>2. ASSUME NEW n \in DOMAIN log' PROVE log'[n].seq = n
    BY <1>2, <1>3, <1>7 DEF HotInv, NumbersAreLog
  <2> QED
    BY <2>1, <2>2 DEF NumbersAreLog
<1>10. Accepted' = Accepted /\ Accepted \subseteq 1..Len(log)
  BY <1>1, <1>2, <1>3, <1>7 DEF Accepted
<1>11. \A n \in Accepted : log'[n] = log[n]
  BY <1>2, <1>10
<1>12. PriceIsLog'
  BY <1>5, <1>10, <1>11 DEF HotInv, PriceIsLog, Shows
<1>13. PricesAreFair'
  BY <1>10, <1>11 DEF HotInv, PricesAreFair, PricesRise, BigJumpsConfirmed
<1> QED
  BY <1>2, <1>6, <1>8, <1>9, <1>12, <1>13 DEF HotInv

\* The soft close moves the end only forward, by at most one counted extension.
LEMMA SoftCloseCounts ==
    ASSUME HotInv, NEW c \in Calls
    PROVE  /\ SoftClose(c).end \in Nat
           /\ SoftClose(c).extends \in 0..MaxExtend
           /\ SoftClose(c).end <= FirstEnd + SoftClose(c).extends * ExtendBy
<1> DEFINE candidate == state.end + ExtendBy
           end == IF state.ceiling > 0 /\ candidate > state.ceiling THEN state.ceiling ELSE candidate
           moves == /\ calls[c].op # "auto"
                    /\ state.extends < MaxExtend
                    /\ state.end - calls[c].now <= ExtendWindow
                    /\ end > state.end
<1>1. /\ state.end \in Nat /\ state.extends \in 0..MaxExtend /\ state.ceiling \in Nat
      /\ state.end <= FirstEnd + state.extends * ExtendBy
      /\ ExtendBy \in Nat /\ MaxExtend \in Nat /\ FirstEnd \in Nat
  BY HotAssumption DEF HotInv, HotTypeOK, EndIsCounted
<1>2. end \in Nat /\ end <= candidate
  BY <1>1
<1>3. CASE moves
  <2>1. SoftClose(c).end = end /\ SoftClose(c).extends = state.extends + 1
    BY <1>3 DEF SoftClose
  <2>2. state.extends + 1 \in 0..MaxExtend
    BY <1>1, <1>3
  <2>3. (state.extends + 1) * ExtendBy = state.extends * ExtendBy + ExtendBy
    BY <1>1
  <2>4. state.extends * ExtendBy \in Nat
    BY <1>1, NatExtended
  <2> QED
    BY <1>1, <1>2, <2>1, <2>2, <2>3, <2>4
<1>4. CASE ~moves
  <2>1. SoftClose(c).end = state.end /\ SoftClose(c).extends = state.extends
    BY <1>4 DEF SoftClose
  <2> QED
    BY <1>1, <2>1
<1> QED
  BY <1>3, <1>4

\* An acceptance beats the price, becomes the price, and after a sale there is
\* no other.
LEMMA AcceptInv ==
    ASSUME HotInv, NEW c \in Calls, Accept(c)
    PROVE  HotInv'
<1> DEFINE close == IF IsCap(c) THEN [end |-> state.end, extends |-> state.extends] ELSE SoftClose(c)
           kind == IF IsCap(c) THEN "sold" ELSE "accepted"
           status == IF IsCap(c) THEN "SOLD" ELSE "ACTIVE"
           last == Len(log) + 1
<1>1. /\ MayDecide(c) /\ Reason(c) = "none" /\ ~BigJump(c)
      /\ Store(c, kind) /\ UNCHANGED <<clock, request>>
      /\ state' = [state EXCEPT !.status = status, !.price = Amount(c), !.winner = Bidder(c),
                               !.count = @ + 1, !.seq = @ + 1,
                               !.end = close.end, !.extends = close.extends]
  BY DEF Accept
<1>2. /\ close.end \in Nat /\ close.extends \in 0..MaxExtend
      /\ close.end <= FirstEnd + close.extends * ExtendBy
  <2>1. CASE IsCap(c)
    <3>1. close.end = state.end /\ close.extends = state.extends
      BY <2>1
    <3> QED
      BY <3>1 DEF HotInv, HotTypeOK, EndIsCounted
  <2>2. CASE ~IsCap(c)
    <3>1. close = SoftClose(c)
      BY <2>2
    <3> QED
      BY <3>1, SoftCloseCounts
  <2> QED
    BY <2>1, <2>2
<1>3. /\ kind \in Wins /\ kind \in {"accepted", "sold", "rejected", "quiet"} /\ status \in Statuses
      /\ kind = "sold" => status # "ACTIVE"
  BY DEF Wins, Statuses
<1> HIDE DEF close, kind, status
<1>4. /\ log' \in Seq(HotDecision) /\ Len(log') = Len(log) + 1 /\ Len(log') <= MaxSeq
      /\ DOMAIN log' = 1..(Len(log) + 1) /\ DOMAIN log = 1..Len(log)
      /\ \A n \in 1..Len(log) : log'[n] = log[n]
      /\ log'[last] = Entry(c, kind)
      /\ idem' \in [AllKeys -> {Absent, Asked} \cup 1..MaxSeq]
      /\ token' \in [AllKeys -> 0..(MaxTime + TokenTTL) \cup {NoToken}]
      /\ calls' \in [Calls -> [op: {"idle", "bid", "auto", "confirm"},
                              key: AllKeys \cup {"none"}, now: 0..MaxTime]]
      /\ CallsHaveKeys' /\ RecordsAreDecisions'
  BY <1>1, <1>3, Stored
<1>5. /\ state \in StateType /\ state.seq = Len(log) /\ Len(log) \in Nat
      /\ state.count <= Len(log) /\ state.count \in Nat
  BY DEF HotInv, HotTypeOK, StateType, NumbersAreLog
<1>6. Bidder(c) \in Users /\ Amount(c) \in Nat /\ Base \in Nat
  BY <1>1, DeciderTypes
<1>7. /\ state' \in StateType
      /\ state'.seq = last /\ state'.count = state.count + 1 /\ state'.status = status
      /\ state'.price = Amount(c) /\ state'.winner = Bidder(c)
      /\ state'.end = close.end /\ state'.extends = close.extends
  <2>1. state.count + 1 \in 0..MaxSeq /\ last \in 0..MaxSeq
    BY <1>4, <1>5, ConstantTypes
  <2> QED
    BY <1>1, <1>2, <1>3, <1>5, <1>6, <2>1 DEF StateType
<1>8. HotTypeOK'
  BY <1>1, <1>4, <1>7 DEF HotInv, HotTypeOK, StateType
<1>9. EndIsCounted'
  BY <1>2, <1>7 DEF EndIsCounted
<1>10. /\ log'[last].kind = kind /\ log'[last].seq = last /\ log'[last].amount = Amount(c)
       /\ log'[last].user = Bidder(c) /\ log'[last].op = calls[c].op
  BY <1>5, <1>4 DEF Entry
<1>11. NumbersAreLog'
  <2>1. state'.seq = Len(log') /\ state'.count <= Len(log')
    BY <1>4, <1>5, <1>7
  <2>2. ASSUME NEW n \in DOMAIN log' PROVE log'[n].seq = n
    BY <1>4, <1>5, <1>10 DEF HotInv, NumbersAreLog
  <2> QED
    BY <2>1, <2>2 DEF NumbersAreLog
<1>12. /\ Accepted' = Accepted \cup {last} /\ Accepted \subseteq 1..Len(log)
       /\ \A n \in Accepted : n < last
  BY <1>3, <1>4, <1>5, <1>10 DEF Accepted
<1>13. \A n \in Accepted : log'[n] = log[n]
  BY <1>4, <1>12
<1>14. /\ state.status = "ACTIVE" /\ ~(Cap > 0 /\ Amount(c) > Cap)
       /\ Amount(c) >= Base + Increment
  BY <1>1, <1>6, Admitted, HotAssumption
\* Every earlier acceptance is below the base by which the bid was judged.
<1>15. ASSUME NEW n \in Accepted
       PROVE  /\ log[n].amount <= Base /\ log[n].amount \in Nat
              /\ log[n].kind # "sold" /\ state.count # 0
  <2>1. state.count # 0 /\ log[n].amount <= state.price /\ log[n].kind # "sold"
    BY <1>14, <1>5 DEF HotInv, PriceIsLog
  <2>2. log[n] \in HotDecision
    BY <1>12, <1>4 DEF HotInv, HotTypeOK
  <2> QED
    BY <2>1, <2>2, HotAssumption DEF Base, HotDecision
<1>16. PriceIsLog'
  <2>1. state'.count > 0
    BY <1>5, <1>7
  <2>2. /\ last \in Accepted' /\ \A m \in Accepted' : m <= last
        /\ state'.price = log'[last].amount /\ state'.winner = log'[last].user
    BY <1>5, <1>7, <1>10, <1>12
  <2>3. \E n \in Accepted' : Shows(n)'
    BY <2>2 DEF Shows
  <2>4. ASSUME NEW n \in Accepted'
        PROVE  log'[n].amount <= state'.price /\ (log'[n].kind = "sold" => state'.status # "ACTIVE")
    <3>1. CASE n = last
      BY <3>1, <1>3, <1>6, <1>7, <1>10
    <3>2. CASE n \in Accepted
      BY <3>2, <1>6, <1>7, <1>13, <1>14, <1>15, ConstantTypes
    <3> QED
      BY <3>1, <3>2, <1>12
  <2> QED
    BY <2>1, <2>3, <2>4, <1>5, <1>7 DEF PriceIsLog
<1>17. PricesRise'
  <2>1. SUFFICES ASSUME NEW i \in Accepted', NEW j \in Accepted', i < j
                 PROVE  /\ log'[i].kind # "sold"
                        /\ log'[j].amount >= log'[i].amount + Increment
                        /\ Cap > 0 => log'[j].amount <= Cap
    BY DEF PricesRise
  <2>2. i \in Accepted
    BY <2>1, <1>12, <1>5
  <2>3. CASE j = last
    <3>1. log'[i] = log[i] /\ log[i].kind # "sold" /\ log[i].amount <= Base /\ log[i].amount \in Nat
      BY <2>2, <1>13, <1>15
    <3> QED
      BY <3>1, <2>3, <1>6, <1>10, <1>14, ConstantTypes
  <2>4. CASE j \in Accepted
    BY <2>1, <2>2, <2>4, <1>13 DEF HotInv, PricesAreFair, PricesRise
  <2> QED
    BY <2>3, <2>4, <1>12
<1>18. BigJumpsConfirmed'
  <2>1. SUFFICES ASSUME NEW j \in Accepted', log'[j].op = "bid", Threshold > 0
                 PROVE  \/ \E i \in Accepted' : i < j /\ log'[j].amount - log'[i].amount < Threshold
                        \/ log'[j].amount - StartPrice < Threshold
    BY DEF BigJumpsConfirmed
  <2>2. CASE j = last
    <3>1. Amount(c) - Base < Threshold
      BY <2>1, <2>2, <1>1, <1>6, <1>10, HotAssumption DEF BigJump
    <3>2. CASE state.count = 0
      BY <3>1, <3>2, <2>2, <1>10 DEF Base
    <3>3. CASE state.count # 0
      <4>1. PICK n \in Accepted : Shows(n)
        BY <3>3, <1>5 DEF HotInv, PriceIsLog
      <4>2. Base = log'[n].amount
        BY <3>3, <4>1, <1>13 DEF Base, Shows
      <4> QED
        BY <3>1, <4>2, <2>2, <1>10, <1>12
    <3> QED
      BY <3>2, <3>3
  <2>3. CASE j \in Accepted
    <3>1. \/ \E i \in Accepted : i < j /\ log[j].amount - log[i].amount < Threshold
          \/ log[j].amount - StartPrice < Threshold
      BY <2>1, <2>3, <1>13 DEF HotInv, PricesAreFair, BigJumpsConfirmed
    <3> QED
      BY <3>1, <2>3, <1>12, <1>13
  <2> QED
    BY <2>2, <2>3, <1>12
<1> QED
  BY <1>4, <1>8, <1>9, <1>11, <1>16, <1>17, <1>18 DEF HotInv, PricesAreFair

\* A jump that is not confirmed yet leaves a token and asks.
LEMMA AskConfirmInv ==
    ASSUME HotInv, NEW c \in Calls, AskConfirm(c)
    PROVE  HotInv'
<1> DEFINE k == calls[c].key
<1>1. /\ k \in AllKeys /\ calls[c].now \in 0..MaxTime
      /\ \A n \in DOMAIN log : log[n].key # k
  BY DeciderTypes DEF AskConfirm
<1>2. /\ idem' = [idem EXCEPT ![k] = Asked] /\ token' = [token EXCEPT ![k] = calls[c].now + TokenTTL]
      /\ Done(c) /\ UNCHANGED <<clock, state, request, log>>
  BY DEF AskConfirm
<1> HIDE DEF k
<1>3. calls' \in [Calls -> [op: {"idle", "bid", "auto", "confirm"},
                           key: AllKeys \cup {"none"}, now: 0..MaxTime]]
      /\ CallsHaveKeys'
  BY <1>2, DoneTypes
<1>4. calls[c].now + TokenTTL \in 0..(MaxTime + TokenTTL)
  BY <1>1, ConstantTypes
<1>5. HotTypeOK'
  BY <1>1, <1>2, <1>3, <1>4 DEF HotInv, HotTypeOK
<1>6. RecordsAreDecisions'
  BY <1>1, <1>2 DEF HotInv, HotTypeOK, RecordsAreDecisions
<1>7. EndIsCounted' /\ NumbersAreLog'
  BY <1>2 DEF HotInv, EndIsCounted, NumbersAreLog
<1>8. Accepted' = Accepted
  BY <1>2 DEF Accepted
<1>9. PriceIsLog'
  BY <1>2, <1>8 DEF HotInv, PriceIsLog, Shows
<1>10. PricesAreFair'
  BY <1>2, <1>8 DEF HotInv, PricesAreFair, PricesRise, BigJumpsConfirmed
<1> QED
  BY <1>3, <1>5, <1>6, <1>7, <1>9, <1>10 DEF HotInv

\* Every step keeps the invariant.
LEMMA HotNextInv == HotInv /\ [Next]_hotVars => HotInv'
<1> SUFFICES ASSUME HotInv, [Next]_hotVars
             PROVE  HotInv'
  OBVIOUS
<1> DEFINE CallType == [op: {"idle", "bid", "auto", "confirm"}, key: AllKeys \cup {"none"}, now: 0..MaxTime]
           TokenType == 0..(MaxTime + TokenTTL) \cup {NoToken}
<1>1. /\ clock \in 0..MaxTime /\ token \in [AllKeys -> TokenType] /\ calls \in [Calls -> CallType]
      /\ CallsHaveKeys /\ Keys \subseteq AllKeys /\ AutoKeys \subseteq AllKeys
      /\ state \in StateType
  BY DEF HotInv, HotTypeOK, StateType, AllKeys
<1>2. CASE Tick
  <2>1. clock' \in 0..MaxTime
    BY <1>1, <1>2, ConstantTypes DEF Tick
  <2>2. CallsHaveKeys'
    BY <1>1, <1>2 DEF Tick, CallsHaveKeys
  <2> QED
    BY <1>1, <1>2, <2>1, <2>2, QuietStepInv DEF Tick
<1>3. ASSUME NEW c \in Calls, CallStep(c)
      PROVE  HotInv'
  <2>1. CASE StartBid(c)
    BY <1>1, <2>1, StartInv DEF StartBid
  <2>2. CASE StartAuto(c)
    BY <1>1, <2>2, StartInv DEF StartAuto
  <2>3. CASE StartConfirm(c)
    BY <1>1, <2>3, StartInv DEF StartConfirm
  <2>4. CASE GiveUp(c) \/ Answered(c) \/ ConfirmAnswered(c)
    <3>1. Done(c) /\ UNCHANGED <<clock, state, request, idem, token, log>>
      BY <2>4 DEF GiveUp, Answered, ConfirmAnswered
    <3> QED
      BY <1>1, <3>1, DoneTypes, QuietStepInv
  <2>5. CASE Reject(c)
    BY <2>5, RejectInv
  <2>6. CASE AskConfirm(c)
    BY <2>6, AskConfirmInv
  <2>7. CASE Accept(c)
    BY <2>7, AcceptInv
  <2> QED
    BY <1>3, <2>1, <2>2, <2>3, <2>4, <2>5, <2>6, <2>7 DEF CallStep
<1>4. ASSUME NEW k \in AllKeys, ExpireToken(k)
      PROVE  HotInv'
  <2>1. token' \in [AllKeys -> TokenType] /\ UNCHANGED <<clock, state, request, idem, log, calls>>
    BY <1>1, <1>4 DEF ExpireToken
  <2>2. CallsHaveKeys'
    BY <1>1, <2>1 DEF CallsHaveKeys
  <2> QED
    BY <1>1, <2>1, <2>2, QuietStepInv
<1>5. CASE SetPaused
  <2>1. state' = [state EXCEPT !.paused = ~@] /\ UNCHANGED <<clock, request, idem, token, log, calls>>
    BY <1>5 DEF SetPaused
  <2>2. state' \in StateType
    BY <1>1, <2>1 DEF StateType
  <2> QED
    BY <1>1, <2>1, <2>2, StateStepInv DEF StateType
<1>6. CASE FenceAuction
  <2>1. /\ state' = [state EXCEPT !.status = "CLOSED", !.paused = TRUE]
        /\ UNCHANGED <<clock, request, idem, token, log, calls>>
    BY <1>6 DEF FenceAuction
  <2>2. state' \in StateType
    BY <1>1, <2>1 DEF StateType, Statuses
  <2> QED
    BY <1>1, <2>1, <2>2, StateStepInv DEF StateType
<1>7. CASE Rebuild
  <2> DEFINE left == IF state.extends < MaxExtend THEN MaxExtend - state.extends ELSE 0
             ceiling == state.end + (left + state.extends) * ExtendBy
  <2>1. /\ state.epoch < MaxEpoch
        /\ state' = [state EXCEPT !.epoch = @ + 1, !.paused = FALSE, !.ceiling = ceiling]
        /\ UNCHANGED <<clock, request, idem, token, log, calls>>
    BY <1>7 DEF Rebuild
  <2>2. state.end \in Nat /\ state.extends \in Nat /\ left + state.extends \in Nat
    BY <1>1, ConstantTypes DEF StateType
  <2>3. ceiling \in Nat
    BY <2>2, ConstantTypes, NatExtended
  <2> HIDE DEF ceiling
  <2>4. state.epoch + 1 \in 1..MaxEpoch
    BY <1>1, <2>1, ConstantTypes DEF StateType
  <2>5. state' \in StateType
    BY <1>1, <2>1, <2>3, <2>4 DEF StateType
  <2> QED
    BY <1>1, <2>1, <2>5, StateStepInv DEF StateType
<1>8. CASE UNCHANGED hotVars
  <2>1. CallsHaveKeys'
    BY <1>1, <1>8 DEF hotVars, CallsHaveKeys
  <2> QED
    BY <1>1, <1>8, <2>1, QuietStepInv DEF hotVars
<1> QED
  BY <1>2, <1>3, <1>4, <1>5, <1>6, <1>7, <1>8 DEF Next

----------------------------------------------------------------------------
(* Theorems *)

\* The inductive invariant holds in every reachable state.
THEOREM HotInvariant == Spec => []HotInv
BY HotInitInv, HotNextInv, PTL DEF Spec

\* HotTypeOK: every variable keeps its type, whatever the rules and the calls.
THEOREM HotTypesCorrect == Spec => []HotTypeOK
<1>1. HotInv => HotTypeOK
  BY DEF HotInv
<1> QED
  BY <1>1, HotInvariant, PTL

\* OneDecisionPerKey: a request that is sent, confirmed or raced any number of
\* times is decided at most once.
THEOREM DecidesOnce == Spec => []OneDecisionPerKey
<1>1. HotInv => OneDecisionPerKey
  <2> SUFFICES ASSUME HotInv, NEW i \in DOMAIN log, NEW j \in DOMAIN log, log[i].key = log[j].key
               PROVE  i = j
    BY DEF OneDecisionPerKey
  <2> QED
    BY DEF HotInv, RecordsAreDecisions
<1> QED
  BY <1>1, HotInvariant, PTL

\* StateIsLog: the state in Redis is what the settlement rebuilds from the log.
THEOREM StateFollowsLog == Spec => []StateIsLog
<1>1. HotInv => StateIsLog
  <2> SUFFICES ASSUME HotInv
               PROVE  StateIsLog
    OBVIOUS
  <2>1. state.seq = Len(log) /\ \A n \in DOMAIN log : log[n].seq = n
    BY DEF HotInv, NumbersAreLog
  <2>2. state.count \in Nat
    BY DEF HotInv, HotTypeOK
  <2>3. Accepted = {} => state.count = 0 /\ state.winner = NoUser
    BY <2>2 DEF HotInv, PriceIsLog
  <2>4. ASSUME NEW n \in Accepted, \A m \in Accepted : m <= n
        PROVE  /\ state.price = log[n].amount /\ state.winner = log[n].user
               /\ log[n].kind = "sold" => state.status # "ACTIVE"
    <3>1. PICK m \in Accepted : Shows(m)
      BY <2>2 DEF HotInv, PriceIsLog
    <3>2. log \in Seq(HotDecision) /\ Accepted \subseteq DOMAIN log
      BY DEF HotInv, HotTypeOK, Accepted
    <3>3. m = n
      BY <3>1, <3>2, <2>4 DEF Shows
    <3> QED
      BY <3>1, <3>3 DEF Shows, HotInv, PriceIsLog
  <2> QED
    BY <2>1, <2>3, <2>4 DEF StateIsLog
<1> QED
  BY <1>1, HotInvariant, PTL

\* EndIsBounded: no sequence of bids, pauses and rebuilds keeps an auction open
\* past all its extensions.
THEOREM EndStaysBounded == Spec => []EndIsBounded
<1>1. HotInv => EndIsBounded
  <2> SUFFICES ASSUME HotInv
               PROVE  EndIsBounded
    OBVIOUS
  <2>1. /\ state.end \in Nat /\ state.extends \in Nat /\ state.extends <= MaxExtend
        /\ state.end <= FirstEnd + state.extends * ExtendBy
    BY ConstantTypes DEF HotInv, HotTypeOK, EndIsCounted
  <2>2. FirstEnd + state.extends * ExtendBy <= FirstEnd + MaxExtend * ExtendBy
    BY <2>1, ConstantTypes, ExtendedRises
  <2>3. FirstEnd + state.extends * ExtendBy \in Nat /\ FirstEnd + MaxExtend * ExtendBy \in Nat
    BY <2>1, ConstantTypes, NatExtended
  <2> QED
    BY <2>1, <2>2, <2>3 DEF EndIsBounded, Ceiling
<1> QED
  BY <1>1, HotInvariant, PTL

\* PricesAreFair: accepted prices rise by the increment, stop at the cap, and
\* jump far only when confirmed.
THEOREM PricesStayFair == Spec => []PricesAreFair
<1>1. HotInv => PricesAreFair
  BY DEF HotInv
<1> QED
  BY <1>1, HotInvariant, PTL

============================================================================
