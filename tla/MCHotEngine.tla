---- MODULE MCHotEngine ----
(* HotEngine on a small instance; bidders, keys and calls are interchangeable. *)
EXTENDS HotEngine, TLC

Symmetric == Permutations(Users) \cup Permutations(Calls) \cup Permutations(Keys)
====
