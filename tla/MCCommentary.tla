----------------------------- MODULE MCCommentary -----------------------------
(* Two servers, under one worker id as deployed with a common              *)
(* AI_COMMENTARY_WORKER_ID.                                                *)
EXTENDS Commentary

SharedId == [w \in Workers |-> "ai-commentary-worker"]

=============================================================================
