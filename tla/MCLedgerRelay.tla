---- MODULE MCLedgerRelay ----
(* LedgerRelay on a small instance.  Three decisions with one fault, or two
   with two faults or with a rebuild and one: what is cut off are steps that
   no fairness asks for. *)
EXTENDS LedgerRelay

Bound ==
    \/ Len(stream) = 3 /\ engine.epoch = 1 /\ ~engine.paused /\ faults <= 1
    \/ Len(stream) <= 2 /\ (engine.epoch = 1 \/ faults <= 1)
====
