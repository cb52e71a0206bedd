-------------------------- MODULE MCCongressSample --------------------------
EXTENDS CongressSample, TLC

Symmetry == Permutations(Groups)
=============================================================================
