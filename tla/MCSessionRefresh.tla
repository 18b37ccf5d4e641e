------------------------- MODULE MCSessionRefresh -------------------------
(* TLC instances of SessionRefresh. *)
EXTENDS SessionRefresh, TLC

\* Bound: the last tick, past the leeway, is only for who asks the verifier about a banned
\* user: status goes by the expiry, which a tick less reaches.
LastTickIsForBans ==
  now = MaxTime =>
    bannedAt # Never /\ \A r \in Requests : pc[r] # "idle" => req[r].kind = "api"

RequestSymmetry == Permutations(Requests)
===========================================================================
