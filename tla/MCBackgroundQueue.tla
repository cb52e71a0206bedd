------------------------- MODULE MCBackgroundQueue -------------------------
(* Model-checking instances of BackgroundQueue.                            *)
EXTENDS BackgroundQueue, TLC

(* Appenders are interchangeable. *)
Symmetry == Permutations(Appenders)
=============================================================================
