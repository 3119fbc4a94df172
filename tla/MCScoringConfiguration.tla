------------------------ MODULE MCScoringConfiguration ------------------------
(***************************************************************************)
(* Configurations of two scopes, decided by two people: whether both can   *)
(* be in force.                                                            *)
(***************************************************************************)
EXTENDS ScoringConfiguration, TLC

CONSTANTS k1, k2, u1, u2, c1, c2

MCConfigurations == {k1, k2}
MCScopes         == {"global", "dataset"}
MCActors         == {u1, u2}
MCDecisions      == {c1, c2}

Symmetry == Permutations(MCConfigurations) \cup Permutations(MCActors) \cup Permutations(MCDecisions)
=============================================================================
