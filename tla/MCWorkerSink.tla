---------------------------- MODULE MCWorkerSink ----------------------------
EXTENDS WorkerSink

CONSTANTS e1, e2, e3

(* The load has the key of two of the watched entries. *)
TwoKeys == [e \in {e1, e2, e3, Load} |-> IF e = e3 THEN "b" ELSE "a"]
=============================================================================
