-------------------------- MODULE MCRequestGuards --------------------------
(* TLC instance of RequestGuards. *)
EXTENDS RequestGuards, TLC

Symmetry == Permutations(Clients) \cup Permutations(Callers)
=============================================================================
