--------------------------- MODULE MCCwLogsStream ---------------------------
EXTENDS CwLogsStream

(* Against limits of 10 bytes and 2 events and an overhead of 2: an event of *)
(* 8 fills a batch exactly; one of 11 is no event at all; three of 1 would   *)
(* fit by size but not by number.                                            *)
MixedSizes == {1, 8, 11}

(* Besides, an event of 9 is within its own limit but not, with its overhead, *)
(* within the batch's.                                                        *)
EdgeSizes == {1, 5, 8, 9, 11}
=============================================================================
