----------------------------- MODULE MCReaperAudit ----------------------------
(* Three jobs, interchangeable. *)
EXTENDS ReaperAudit, TLC

CONSTANTS j1, j2, j3

MCJobs == {j1, j2, j3}
JobSymmetry == Permutations(MCJobs)
=============================================================================
