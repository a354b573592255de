--------------------------- MODULE MCWorkerLease ---------------------------
(* Small instances of WorkerLease: one task, whose tools return evidence e1. *)
EXTENDS WorkerLease, TLC

CONSTANTS t1, e1

OneCase == t1 :> {e1}

WorkerSymmetry == Permutations(Worker)
=============================================================================
