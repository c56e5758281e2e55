---- MODULE MCSettlement ----
(* Settlement on a small instance; workers are interchangeable. *)
EXTENDS Settlement, TLC

Symmetric == Permutations(Workers)

AllOf(kinds) == \A n \in DOMAIN stream : stream[n].kind \in kinds
OneWorker == \E w \in Workers : w # owner /\ work[w] = Fresh(0)

(* Four bounds in one instance: two workers with one fault over a sale, once
   rebuilt, or over rejections, never rebuilt (but for a first resume, which
   keeps the epoch); one worker with one fault and one rebuild; and one worker
   over accepted bids with two faults (a dead letter takes two) and two
   rebuilds. *)
SaleRaced == AllOf({"sold"}) /\ faults <= 1 /\ pg.epoch <= 2
RejectionsRaced == AllOf({"quiet"}) /\ faults <= 1 /\ pg.epoch = 1
Rebuilt == AllOf({"sold", "quiet"}) /\ faults <= 1 /\ pg.epoch <= 2 /\ OneWorker
TwoFaults == AllOf({"accepted"}) /\ OneWorker

Bound == SaleRaced \/ RejectionsRaced \/ Rebuilt \/ TwoFaults
====
