-------------------------- MODULE ScoringConfiguration --------------------------
(***************************************************************************)
(* The configuration scores are computed with is put in force by a second  *)
(* person: ScoringConfigurationService over PostgreSQLScoreRepository.     *)
(*                                                                         *)
(* The database runs READ COMMITTED: a transaction selects a row, and      *)
(* others commit before it writes.  What a transaction writes after that   *)
(* is one step here, because it locks the rows and the index entries it    *)
(* meets until it ends; one that had to wait for them may fail instead.    *)
(***************************************************************************)
EXTENDS Naturals, FiniteSets

CONSTANTS
  Configurations, \* configurations that are submitted
  Scopes,         \* dataset_id of a configuration; "global" stands for NULL
  ScoringActors,
  ScoringDecisions \* decisions under way at a time

ASSUME ScoringAssumption ==
  IsFiniteSet(Configurations) /\ "global" \in Scopes /\ "default" \notin Configurations

VARIABLES
  config,      \* scoring_configurations with their approvals
  inForce,     \* configurations with is_active
  submissions, \* how many configurations have been given a created_at
  decider      \* where each decision is

scoringVars == <<config, inForce, submissions, decider>>

NoConfig == [status |-> "none"]
Waiting  == [step |-> "none"]

\* The configuration that the migration inserts.
Default == [status |-> "APPROVED", scope |-> "global", maker |-> "system", checker |-> "system", at |-> 0]

ScoringInit ==
  /\ config = [k \in Configurations \cup {"default"} |-> IF k = "default" THEN Default ELSE NoConfig]
  /\ inForce = {"default"}
  /\ submissions = 0
  /\ decider = [c \in ScoringDecisions |-> Waiting]

Rows == {k \in DOMAIN config : config[k].status \notin {"none", "PREPARED"}}

LatestConfiguration == CHOOSE k \in Rows : \A other \in Rows : config[other].at <= config[k].at

\* create_and_submit reads the clock, ...
PrepareConfiguration(k, u, scope) ==
  /\ config[k] = NoConfig
  /\ submissions' = submissions + 1
  /\ config' = [config EXCEPT ![k] = [status |-> "PREPARED", scope |-> scope, maker |-> u,
                                      checker |-> "none", at |-> submissions + 1]]
  /\ UNCHANGED <<inForce, decider>>

\* ... and then inserts the configuration together with its approval.
SubmitConfiguration(k) ==
  /\ config[k].status = "PREPARED"
  /\ config' = [config EXCEPT ![k].status = "PENDING"]
  /\ UNCHANGED <<inForce, submissions, decider>>

Decides(c, step) == decider' = [decider EXCEPT ![c] = step]

DecideConfiguration(c, k, u, verdict) ==
  /\ decider[c] = Waiting
  /\ config[k].status = "PENDING" /\ config[k].maker # u /\ LatestConfiguration = k
  /\ Decides(c, [step |-> "latest", of |-> k, by |-> u, to |-> verdict])
  /\ UNCHANGED <<config, inForce, submissions>>

\* The first statement of the transaction.
SelectLatest(c) ==
  /\ decider[c].step = "latest"
  /\ Decides(c, IF LatestConfiguration = decider[c].of THEN [decider[c] EXCEPT !.step = "decide"] ELSE Waiting)
  /\ UNCHANGED <<config, inForce, submissions>>

\* What stays active when a configuration of the scope is activated.
Remaining(scope) == {k \in inForce : config[k].scope # scope}

\* uq_scoring_config_one_active allows one active row in the table, whatever its scope.
MayActivate(scope) == Remaining(scope) = {}

CommitConfiguration(c) ==
  /\ decider[c].step = "decide"
  /\ LET d == decider[c]  k == d.of
         Decided == config' = [config EXCEPT ![k].status = d.to, ![k].checker = d.by]
     IN CASE config[k].status # "PENDING" ->
               Decides(c, Waiting) /\ UNCHANGED <<config, inForce>>
          [] config[k].status = "PENDING" /\ d.to = "REJECTED" ->
               Decided /\ Decides(c, Waiting) /\ UNCHANGED inForce
          [] config[k].status = "PENDING" /\ d.to = "APPROVED" /\ MayActivate(config[k].scope) ->
               /\ Decided /\ Decides(c, Waiting)
               /\ inForce' = Remaining(config[k].scope) \cup {k}
          [] OTHER -> Decides(c, [step |-> "refused"]) /\ UNCHANGED <<config, inForce>>
  /\ UNCHANGED submissions

\* The answer to a decision that the index refused, or one that is lost on the way.
EndDecision(c) ==
  /\ decider[c] # Waiting
  /\ Decides(c, Waiting)
  /\ UNCHANGED <<config, inForce, submissions>>

ScoringNext ==
  \/ \E k \in Configurations :
       \/ \E u \in ScoringActors, scope \in Scopes : PrepareConfiguration(k, u, scope)
       \/ SubmitConfiguration(k)
  \/ \E c \in ScoringDecisions :
       \/ SelectLatest(c) \/ CommitConfiguration(c) \/ EndDecision(c)
       \/ \E k \in Configurations, u \in ScoringActors, verdict \in {"APPROVED", "REJECTED"} :
            DecideConfiguration(c, k, u, verdict)

ScoringSpec == ScoringInit /\ [][ScoringNext]_scoringVars

-----------------------------------------------------------------------------
(* Properties *)

ConfigRow == [status : {"PREPARED", "PENDING", "APPROVED", "REJECTED"}, scope : Scopes, at : Nat,
              maker : ScoringActors \cup {"system"}, checker : ScoringActors \cup {"system", "none"}]

ScoringTypeOK ==
  /\ \A k \in DOMAIN config : config[k] = NoConfig \/ config[k] \in ConfigRow
  /\ inForce \subseteq Rows
  /\ submissions \in 0..Cardinality(Configurations)
  /\ \A c \in ScoringDecisions : decider[c].step \in {"none", "latest", "decide", "refused"}

\* Scores are always computed with one configuration, and one that was approved by somebody
\* other than who prepared it: concurrent decisions leave neither none nor two in force.
OneConfigurationInForce ==
  /\ Cardinality(inForce) = 1
  /\ \A k \in inForce \ {"default"} :
       config[k].status = "APPROVED" /\ config[k].checker # config[k].maker

\* scoring/postgresql_repository.py:609, "close only the active configuration of the same dataset
\* scope": a configuration of one scope can be put in force beside that of another.
ScopesAreIndependent == \A c \in ScoringDecisions : decider[c].step # "refused"
=============================================================================
