------------------------------ MODULE MCWsHub ------------------------------
(* TLC instances of WsHub. *)
EXTENDS WsHub, TLC

ClientSymmetry == Permutations(Clients)
===========================================================================
