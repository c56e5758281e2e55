------------------------------ MODULE MCDelivery ------------------------------
(***************************************************************************)
(* Instances of Delivery: the relay of the API server and one of another   *)
(* process.                                                                *)
(***************************************************************************)
EXTENDS Delivery

=============================================================================
