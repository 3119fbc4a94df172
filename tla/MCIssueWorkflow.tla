--------------------------- MODULE MCIssueWorkflow ----------------------------
(***************************************************************************)
(* Two data stewards, each with every role, and two requests at a time: a  *)
(* user's own stale request may meet what the same user did since.         *)
(***************************************************************************)
EXTENDS IssueWorkflow, TLC

CONSTANTS u1, u2, c1, c2

MCRequests == {c1, c2}
MCUsers    == {u1, u2}

Symmetry == Permutations(MCRequests) \cup Permutations(MCUsers)
=============================================================================
