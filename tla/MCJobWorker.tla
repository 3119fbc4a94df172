------------------------------ MODULE MCJobWorker -----------------------------
(***************************************************************************)
(* An instance of JobWorker for TLC: one job, which two workers may hold   *)
(* one after the other or, after a stall, at once.  w2 is supervised.      *)
(***************************************************************************)
EXTENDS JobWorker

CONSTANTS j1, w1, w2

MCJobs       == {j1}
MCWorkers    == {w1, w2}
MCSupervised == {w2}
=============================================================================
