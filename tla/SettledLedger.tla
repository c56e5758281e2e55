----------------------------- MODULE SettledLedger -----------------------------
(***************************************************************************)
(* What the bid pipeline promises, seen from the outside: decisions are    *)
(* taken, become durable, in any order, are acknowledged only when they and *)
(* all before them are durable, and are settled in the order of their      *)
(* numbers, each number once and none before it is durable; the public is  *)
(* told of every settled decision that is broadcast, in that order.        *)
(* Redis, Kafka, relays, workers, rows, offsets, retries and duplicates    *)
(* are not part of the promise.                                            *)
(***************************************************************************)
EXTENDS Integers, Sequences

CONSTANT Decisions      \* records with at least a seq and a kind

VARIABLES
    decided,    \* the decisions in the order they were taken
    durable,    \* which of them are, by their place
    told,       \* the ones acknowledged to their bidders as durable
    settled,    \* the decisions in the order they were settled
    announced   \* the numbers the public was told of

ledgerVars == <<decided, durable, told, settled, announced>>

IsBroadcast(d) == d.kind # "quiet"

Init ==
    /\ decided = <<>>
    /\ durable = {}
    /\ told = {}
    /\ settled = <<>>
    /\ announced = <<>>

Decide ==
    /\ \E d \in Decisions : decided' = Append(decided, d)
    /\ UNCHANGED <<durable, told, settled, announced>>

BecomeDurable ==
    /\ durable \subseteq durable'
    /\ durable' \subseteq 1..Len(decided)
    /\ UNCHANGED <<decided, told, settled, announced>>

Acknowledge ==
    /\ told \subseteq told'
    /\ \A n \in told' : 1..n \subseteq durable
    /\ UNCHANGED <<decided, durable, settled, announced>>

\* A run ds of durable decisions with the next numbers, one or a batch.
Settle(ds) ==
    /\ \A i \in DOMAIN ds :
          /\ ds[i].seq = Len(settled) + i
          /\ \E n \in durable : decided[n] = ds[i]
    /\ settled' = settled \o ds
    /\ \/ /\ \A i \in DOMAIN ds : IsBroadcast(ds[i])
          /\ announced' = announced \o [i \in DOMAIN ds |-> ds[i].seq]
       \/ /\ \A i \in DOMAIN ds : ~IsBroadcast(ds[i])
          /\ announced' = announced
    /\ UNCHANGED <<decided, durable, told>>

\* The run that was settled is read off the next state.
SettleSome ==
    /\ Len(settled') > Len(settled)
    /\ Settle(SubSeq(settled', Len(settled) + 1, Len(settled')))

Next == Decide \/ BecomeDurable \/ Acknowledge \/ SettleSome

Spec == Init /\ [][Next]_ledgerVars

============================================================================
