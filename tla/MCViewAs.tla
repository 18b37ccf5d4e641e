----------------------------- MODULE MCViewAs -----------------------------
EXTENDS ViewAs, TLC

TokenSymmetry == Permutations(Tokens)
===========================================================================
