--------------------------- MODULE MCPendingSink ---------------------------
EXTENDS PendingSink, TLC

Symmetry == Permutations(Threads)
=============================================================================
