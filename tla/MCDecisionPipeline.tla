---- MODULE MCDecisionPipeline ----
(* DecisionPipeline on a small instance. *)
EXTENDS DecisionPipeline
====
