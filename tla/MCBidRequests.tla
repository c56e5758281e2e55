---------------------------- MODULE MCBidRequests ----------------------------
(* A bid, its retry and a competing bid.  Neither the requests nor the     *)
(* bidders are told apart by the specification or the properties.          *)
EXTENDS BidRequests, TLC

Symmetry == Permutations(Requests) \cup Permutations(Bidders)

=============================================================================
