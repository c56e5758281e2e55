------------------------------- MODULE HotEngine -------------------------------
(***************************************************************************)
(* The hot bid engine of one auction: the two Lua scripts of               *)
(* redisengine/engine.go (ledgerRunner takes a bid, confirmLedgerRunner a  *)
(* confirmed one) and the Go calls around them.  A script is one atomic    *)
(* step in Redis; what is not atomic is a call: it reads the clock, and    *)
(* for a confirmation the idempotency record, before it runs the script,   *)
(* and clients send the same request again while the first is under way.   *)
(***************************************************************************)
EXTENDS Integers, Sequences

CONSTANTS
    Users, NoUser,          \* bidders, and the winner of an auction without bids
    Keys, AutoKeys,         \* idempotency keys of clients and of the proxy resolver
    Calls,                  \* calls under way at once
    Amounts,                \* amounts that are bid
    StartPrice, Increment,
    Cap, Threshold,         \* cap price and fat-finger threshold, 0 for none
    FirstEnd,               \* end_at when the auction starts
    ExtendWindow, ExtendBy, MaxExtend,
    TokenTTL,               \* life of a confirm token
    MaxTime,                \* bound: the clock
    MaxSeq,                 \* bound: decisions
    MaxEpoch                \* bound: engine epochs, one more than the rebuilds

ASSUME HotAssumption ==
    /\ NoUser \notin Users
    /\ Keys \cap AutoKeys = {}
    /\ Amounts \subseteq Nat
    /\ Increment \in Nat \ {0}      \* the rules refuse any other (INVALID_AUCTION_RULE)
    /\ {StartPrice, Cap, Threshold} \subseteq Nat
    /\ {FirstEnd, ExtendWindow, ExtendBy, MaxExtend, TokenTTL, MaxTime, MaxSeq} \subseteq Nat
    /\ MaxEpoch \in Nat \ {0}

VARIABLES
    clock,   \* server time
    state,   \* bid:{auction}:engine:state
    request, \* what each key is used for: a bidder and an amount
    idem,    \* idempotency records by key: Absent, Asked or the number of a decision
    token,   \* expires_at_ms of the pending confirmation by key, or NoToken
    log,     \* bid:{auction}:engine:log, the decisions in the order taken
    calls    \* the calls under way: their key and the time they read

hotVars == <<clock, state, request, idem, token, log, calls>>

AllKeys == Keys \cup AutoKeys
Absent == -1
Asked == 0      \* FAT_FINGER_CONFIRM_REQUIRED was answered
NoToken == -1
NoCall == [op |-> "idle", key |-> "none", now |-> 0]
Wins == {"accepted", "sold"}
Accepted == {n \in DOMAIN log : log[n].kind \in Wins}

\* absolute_end_ms: where the soft close stops.
Ceiling == FirstEnd + MaxExtend * ExtendBy

\* The engine is seeded from the auctions row at the first bid.
Init ==
    /\ clock = 0
    /\ state = [status |-> "ACTIVE", price |-> StartPrice, winner |-> NoUser, count |-> 0,
                end |-> FirstEnd, extends |-> 0, ceiling |-> Ceiling,
                seq |-> 0, epoch |-> 1, paused |-> FALSE]
    /\ request \in [AllKeys -> [user: Users, amount: Amounts]]
    /\ idem = [k \in AllKeys |-> Absent]
    /\ token = [k \in AllKeys |-> NoToken]
    /\ log = <<>>
    /\ calls = [c \in Calls |-> NoCall]

Tick ==
    /\ clock < MaxTime
    /\ clock' = clock + 1
    /\ UNCHANGED <<state, request, idem, token, log, calls>>

----------------------------------------------------------------------------
(* The calls up to the script: the clock is read (nowMS), then anything may *)
(* happen before Redis runs the script.                                     *)

Done(c) == calls' = [calls EXCEPT ![c] = NoCall]

Start(c, op, k) ==
    /\ calls[c].op = "idle"
    /\ calls' = [calls EXCEPT ![c] = [op |-> op, key |-> k, now |-> clock]]
    /\ UNCHANGED <<clock, state, request, idem, token, log>>

\* A client may send its request any number of times.
StartBid(c) == \E k \in Keys : Start(c, "bid", k)

\* PlaceAutoMaxBid: the key is made for this one bid.
StartAuto(c) ==
    \E k \in AutoKeys :
        /\ idem[k] = Absent
        /\ \A d \in Calls : calls[d].key # k
        /\ Start(c, "auto", k)

\* ConfirmBid takes the amount from the record, which must still ask for it.
StartConfirm(c) == \E k \in Keys : idem[k] = Asked /\ Start(c, "confirm", k)

\* The call ends without a decision: the process dies or the call is lost
\* before the script runs, or the script returns an error and changes nothing
\* (paused, reconciling, no room membership, a token that is wrong or expired).
GiveUp(c) ==
    /\ calls[c].op # "idle"
    /\ Done(c)
    /\ UNCHANGED <<clock, state, request, idem, token, log>>

----------------------------------------------------------------------------
(* The scripts *)

\* The first lines of both: a key that has a decision is answered with it (or
\* with an error, for another request), and one that asks for a confirmation
\* is asked again.
Answered(c) ==
    /\ calls[c].op \in {"bid", "auto"}
    /\ idem[calls[c].key] # Absent
    /\ Done(c)
    /\ UNCHANGED <<clock, state, request, idem, token, log>>

ConfirmAnswered(c) ==
    /\ calls[c].op = "confirm"
    /\ idem[calls[c].key] > 0
    /\ Done(c)
    /\ UNCHANGED <<clock, state, request, idem, token, log>>

Bidder(c) == request[calls[c].key].user
Amount(c) == request[calls[c].key].amount

FreshBid(c) == calls[c].op \in {"bid", "auto"} /\ idem[calls[c].key] = Absent

\* Mutant: a confirmation does not look for the decision of its key.
LiveConfirmAgain(c) ==
    /\ calls[c].op = "confirm"
    /\ calls[c].now <= token[calls[c].key] \/ idem[calls[c].key] > 0

\* The confirmation finds its token, in time.
LiveConfirm(c) ==
    /\ calls[c].op = "confirm"
    /\ idem[calls[c].key] = Asked
    /\ token[calls[c].key] # NoToken
    /\ calls[c].now <= token[calls[c].key]

MayDecide(c) == (FreshBid(c) \/ LiveConfirm(c)) /\ ~state.paused /\ Len(log) < MaxSeq

Base == IF state.count = 0 THEN StartPrice ELSE state.price

\* The guards in the order of the scripts: the first that fails is the reason.
Reason(c) ==
    LET guards == << [fails |-> state.status # "ACTIVE", why |-> "AUCTION_NOT_ACTIVE"],
                     [fails |-> calls[c].now > state.end, why |-> "AUCTION_ENDED"],
                     [fails |-> state.winner = Bidder(c) /\ calls[c].op # "auto", why |-> "REJECTED_SELF_LEADING"],
                     [fails |-> Cap > 0 /\ Amount(c) > Cap, why |-> "BID_ABOVE_CAP"],
                     [fails |-> Amount(c) < Base + Increment, why |-> "BID_TOO_LOW"],
                     [fails |-> (Amount(c) - Base) % Increment # 0, why |-> "BID_INCREMENT_MISMATCH"],
                     [fails |-> TRUE, why |-> "none"] >>
        first == CHOOSE i \in DOMAIN guards :
                    guards[i].fails /\ \A j \in 1..(i - 1) : ~guards[j].fails
    IN guards[first].why
Quiet == {"BID_TOO_LOW", "AUCTION_ENDED", "AUCTION_NOT_ACTIVE"}

\* Mutant: the threshold itself is no jump.
BigJumpOver(c) ==
    /\ calls[c].op = "bid"
    /\ Threshold > 0
    /\ Amount(c) - Base > Threshold

BigJump(c) ==
    /\ calls[c].op = "bid"
    /\ Threshold > 0
    /\ Amount(c) - Base >= Threshold

\* store_decision: the record, the pending entry and the stream entry.
Store(c, kind) ==
    LET k == calls[c].key IN
    /\ log' = Append(log, [seq |-> state.seq + 1, key |-> k, user |-> Bidder(c),
                           amount |-> Amount(c), kind |-> kind, op |-> calls[c].op])
    /\ idem' = [idem EXCEPT ![k] = Len(log) + 1]
    /\ token' = [token EXCEPT ![k] = NoToken]
    /\ Done(c)

\* Mutant: a rejection takes no number.
RejectUnnumbered(c) ==
    /\ MayDecide(c)
    /\ Reason(c) # "none"
    /\ state' = state
    /\ Store(c, IF Reason(c) \in Quiet THEN "quiet" ELSE "rejected")
    /\ UNCHANGED <<clock, request>>

Reject(c) ==
    /\ MayDecide(c)
    /\ Reason(c) # "none"
    /\ state' = [state EXCEPT !.seq = @ + 1]
    /\ Store(c, IF Reason(c) \in Quiet THEN "quiet" ELSE "rejected")
    /\ UNCHANGED <<clock, request>>

\* A jump of a manual bid that is not confirmed yet.
AskConfirm(c) ==
    /\ MayDecide(c)
    /\ Reason(c) = "none"
    /\ BigJump(c)
    /\ idem' = [idem EXCEPT ![calls[c].key] = Asked]
    /\ token' = [token EXCEPT ![calls[c].key] = calls[c].now + TokenTTL]
    /\ Done(c)
    /\ UNCHANGED <<clock, state, request, log>>

\* Mutant: only the ceiling stops the extensions.
SoftCloseUncounted(c) ==
    LET candidate == state.end + ExtendBy
        end == IF state.ceiling > 0 /\ candidate > state.ceiling THEN state.ceiling ELSE candidate
    IN IF /\ calls[c].op # "auto"
          /\ state.end - calls[c].now <= ExtendWindow
          /\ end > state.end
       THEN [end |-> end, extends |-> state.extends]
       ELSE [end |-> state.end, extends |-> state.extends]

\* The soft close: a manual bid in the last ExtendWindow moves the end.
SoftClose(c) ==
    LET candidate == state.end + ExtendBy
        end == IF state.ceiling > 0 /\ candidate > state.ceiling THEN state.ceiling ELSE candidate
    IN IF /\ calls[c].op # "auto"
          /\ state.extends < MaxExtend
          /\ state.end - calls[c].now <= ExtendWindow
          /\ end > state.end
       THEN [end |-> end, extends |-> state.extends + 1]
       ELSE [end |-> state.end, extends |-> state.extends]

IsCap(c) == Cap > 0 /\ Amount(c) = Cap

Accept(c) ==
    LET close == IF IsCap(c) THEN [end |-> state.end, extends |-> state.extends] ELSE SoftClose(c) IN
    /\ MayDecide(c)
    /\ Reason(c) = "none"
    /\ ~BigJump(c)
    /\ state' = [state EXCEPT !.status = IF IsCap(c) THEN "SOLD" ELSE "ACTIVE",
                              !.price = Amount(c), !.winner = Bidder(c),
                              !.count = @ + 1, !.seq = @ + 1,
                              !.end = close.end, !.extends = close.extends]
    /\ Store(c, IF IsCap(c) THEN "sold" ELSE "accepted")
    /\ UNCHANGED <<clock, request>>

\* PEXPIRE of the pending confirmation.
ExpireToken(k) ==
    /\ token[k] # NoToken
    /\ clock > token[k]
    /\ token' = [token EXCEPT ![k] = NoToken]
    /\ UNCHANGED <<clock, state, request, idem, log, calls>>

----------------------------------------------------------------------------
(* What else writes the state *)

\* pause and the lifting of a pause.
SetPaused ==
    /\ state' = [state EXCEPT !.paused = ~@]
    /\ UNCHANGED <<clock, request, idem, token, log, calls>>

\* FenceAuction, when the host cancels or the scheduler ends the auction, with
\* no look at the state: CLOSED stands for the status it writes.
FenceAuction ==
    /\ state' = [state EXCEPT !.status = "CLOSED", !.paused = TRUE]
    /\ UNCHANGED <<clock, request, idem, token, log, calls>>

\* A resume writes back what PostgreSQL settled, here all of the log and the
\* same status, in a new epoch; loadSnapshotForRedisState works the ceiling
\* out again.
Rebuild ==
    LET left == IF state.extends < MaxExtend THEN MaxExtend - state.extends ELSE 0 IN
    /\ state.epoch < MaxEpoch
    /\ state' = [state EXCEPT !.epoch = @ + 1, !.paused = FALSE,
                              !.ceiling = state.end + (left + state.extends) * ExtendBy]
    /\ UNCHANGED <<clock, request, idem, token, log, calls>>

CallStep(c) ==
    \/ StartBid(c)
    \/ StartAuto(c)
    \/ StartConfirm(c)
    \/ GiveUp(c)
    \/ Answered(c)
    \/ ConfirmAnswered(c)
    \/ Reject(c)
    \/ AskConfirm(c)
    \/ Accept(c)

Next ==
    \/ Tick
    \/ \E c \in Calls : CallStep(c)
    \/ \E k \in AllKeys : ExpireToken(k)
    \/ SetPaused
    \/ FenceAuction
    \/ Rebuild

Spec == Init /\ [][Next]_hotVars

----------------------------------------------------------------------------
(* Properties *)

Statuses == {"ACTIVE", "SOLD", "CLOSED"}
HotDecision == [seq: 1..MaxSeq, key: AllKeys, user: Users, amount: Amounts,
                kind: {"accepted", "sold", "rejected", "quiet"}, op: {"bid", "auto", "confirm"}]

\* The type of every variable of the hot engine.
HotTypeOK ==
    /\ clock \in 0..MaxTime
    /\ state \in [status: Statuses, price: Nat, winner: Users \cup {NoUser}, count: 0..MaxSeq,
                  end: Nat, extends: 0..MaxExtend, ceiling: Nat, seq: 0..MaxSeq,
                  epoch: 1..MaxEpoch, paused: BOOLEAN]
    /\ request \in [AllKeys -> [user: Users, amount: Amounts]]
    /\ idem \in [AllKeys -> {Absent, Asked} \cup 1..MaxSeq]
    /\ token \in [AllKeys -> 0..(MaxTime + TokenTTL) \cup {NoToken}]
    /\ log \in Seq(HotDecision) /\ Len(log) <= MaxSeq
    /\ calls \in [Calls -> [op: {"idle", "bid", "auto", "confirm"}, key: AllKeys \cup {"none"}, now: 0..MaxTime]]

\* However often a request is sent again, confirmed again or raced with
\* itself, at most one decision is taken for its idempotency key.
OneDecisionPerKey ==
    \A i, j \in DOMAIN log : log[i].key = log[j].key => i = j

\* The settlement rebuilds the auction from the log alone, so the state in
\* Redis must be what the log says: numbers, price, winner, and not open
\* when the log has a sale.
StateIsLog ==
    /\ state.seq = Len(log)
    /\ \A n \in DOMAIN log : log[n].seq = n
    /\ Accepted = {} => state.count = 0 /\ state.winner = NoUser
    /\ \A n \in Accepted : (\A m \in Accepted : m <= n) =>
          /\ state.price = log[n].amount
          /\ state.winner = log[n].user
          /\ log[n].kind = "sold" => state.status # "ACTIVE"

\* The soft close cannot keep an auction open for ever: the end stays within
\* all the extensions, also after a rebuild worked the ceiling out again.
EndIsBounded == state.end <= Ceiling

\* Accepted prices rise by at least the increment and stop at the cap: the
\* sale is the last acceptance, whatever was asked, confirmed late or rebuilt.
PricesRise ==
    \A i, j \in Accepted : i < j =>
        /\ log[i].kind # "sold"
        /\ log[j].amount >= log[i].amount + Increment
        /\ Cap > 0 => log[j].amount <= Cap

\* A manual bid far above the price it beats was confirmed by its bidder.
BigJumpsConfirmed ==
    \A j \in Accepted : log[j].op = "bid" /\ Threshold > 0 =>
        \/ \E i \in Accepted : i < j /\ log[j].amount - log[i].amount < Threshold
        \/ log[j].amount - StartPrice < Threshold

\* What validate and the confirmation are for: an accepted price beats the one
\* before it, and by a big jump only when its bidder said so twice.
PricesAreFair == PricesRise /\ BigJumpsConfirmed

============================================================================
