------------------------- MODULE MCExecutionLifecycle -------------------------
(* Two workers that may come to run the same execution. *)
EXTENDS ExecutionLifecycle, TLC

CONSTANTS w1, w2

MCWorkers == {w1, w2}
WorkerSymmetry == Permutations(MCWorkers)
=============================================================================
