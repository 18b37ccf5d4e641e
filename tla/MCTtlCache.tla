----------------------------- MODULE MCTtlCache -----------------------------
EXTENDS TtlCache, TLC

CallerSymmetry == Permutations(Callers)
===========================================================================
