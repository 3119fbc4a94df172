------------------------------- MODULE MCScores -------------------------------
(***************************************************************************)
(* Two rules of a dataset, in different dimensions: an official execution  *)
(* of one and a shadow execution of the other.                             *)
(***************************************************************************)
EXTENDS ScorePublication

MCRules      == {"ra", "rb"}
MCDatasetOf  == [r \in MCRules |-> "d"]
MCDimension  == ("ra" :> "VALIDITY") @@ ("rb" :> "ACCURACY")
MCWeight     == [r \in MCRules |-> 1]
MCSourceOf   == "d" :> "source"
MCThresholds == <<5000, 7000, 9000>>

Success(r, result) == [status |-> "SUCCESS", covers |-> {r}, results |-> r :> result]

MCExecutions == {"official", "shadow"}
MCEndings ==
  [e \in MCExecutions |->
     IF e = "official" THEN {Success("ra", [passed |-> 2, evaluated |-> 3, eligible |-> TRUE])}
     ELSE {Success("rb", [passed |-> 0, evaluated |-> 1, eligible |-> FALSE])}]
MCPeriods == {"today"}
=============================================================================
