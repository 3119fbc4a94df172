------------------------------ MODULE MCApprovals ------------------------------
(***************************************************************************)
(* What takes a second person: issues and their verification, governance   *)
(* requests, critical rules and scoring configurations; the scores that    *)
(* become official, the files a resolution rests on and the runs of the    *)
(* generator; and the sessions all of it is done in.  Two users have every *)
(* role and two commands are under way at a time, so a user's own stale    *)
(* command may meet what the same user did since.                          *)
(*                                                                         *)
(* The parts share no variable and no row, so each is explored by itself:  *)
(* "part" says which one a behaviour is about, and the others stay in an   *)
(* initial state of theirs.                                                *)
(***************************************************************************)
EXTENDS IssueWorkflow, GovernanceApproval, RuleApproval, ScoringConfiguration,
        ScorePublication, Sessions, EvidenceFiles, SyntheticRuns

CONSTANTS u1, u2, v1, v2, c1, c2, r1, r2

MCUsers    == {u1, u2}
MCCheckers == {v1, v2}
MCCommands == {c1, c2}
MCRequests == {r1, r2}
MCScopes   == {"global", "dataset"}
MCPeriods  == {"today", "tomorrow"}
MCClients  == {"client"}

\* Two rules of a dataset and one of a dataset of another source; what executions leave of
\* them: values that round, no data, a shadow result and a partial execution.
MCRules      == {"ra", "rb", "rc"}
MCDatasetOf  == ("ra" :> "d1") @@ ("rb" :> "d1") @@ ("rc" :> "d2")
MCDimension  == ("ra" :> "VALIDITY") @@ ("rb" :> "ACCURACY") @@ ("rc" :> "VALIDITY")
MCWeight     == ("ra" :> 1) @@ ("rb" :> 2) @@ ("rc" :> 1)
MCSourceOf   == ("d1" :> "s1") @@ ("d2" :> "s2")
MCThresholds == <<5000, 7000, 9000>>

Some(n)   == [passed |-> n, evaluated |-> 3, eligible |-> TRUE]
None      == [passed |-> 0, evaluated |-> 0, eligible |-> TRUE]
Shadow(x) == [x EXCEPT !.eligible = FALSE]
Success(results) == [status |-> "SUCCESS", covers |-> DOMAIN results, results |-> results]

MCScored  == {"one", "other", "all"}
MCEndings ==
  ("one"   :> {Success("ra" :> Some(1)), Success("ra" :> None),
               [status |-> "PARTIAL", covers |-> {"ra", "rc"}, results |-> "ra" :> Shadow(Some(1))]}) @@
  ("other" :> {Success("rb" :> Some(2)), Success("rb" :> Shadow(Some(2)))}) @@
  ("all"   :> {Success(("ra" :> Some(2)) @@ ("rb" :> None) @@ ("rc" :> Some(3)))})

\* One file, uploaded up to twice; a run for which two policies overlap.
MCFiles      == {"file"}
MCRuns       == {"run"}
MCOutputs    == {"good", "bad", "short"}
MCSize       == ("good" :> 2) @@ ("bad" :> 2) @@ ("short" :> 1)
MCGood       == {"good"}
MCPolicies   == {"old", "new", "closed"}
MCPermissive == {"old", "new"}
MCFrom       == ("old" :> 0) @@ ("new" :> 1) @@ ("closed" :> 3)
MCTo         == ("old" :> 2) @@ ("new" :> 3) @@ ("closed" :> 4)

Symmetry == Permutations(MCCheckers) \cup Permutations(MCCommands) \cup Permutations(MCRequests)

VARIABLE part

ApprovalsInit ==
  /\ part \in {"issue", "governance", "rule", "scoring", "publication", "throttle", "session",
             "evidence", "synthetic"}
  /\ IssueInit /\ GovernanceInit /\ RuleInit /\ ScoringInit /\ PublicationInit
  /\ SessionsInit /\ EvidenceInit /\ SyntheticInit
  /\ issue.assignee = u1 /\ versions[1].preparer = u1
  /\ part # "rule" => ~ versions[1].critical
  /\ IF part = "governance" THEN object.value \in MCUsers => object.value = u1
                            ELSE type = "start"

otherVars == <<sessionVars, evidenceVars, syntheticVars>>

ApprovalsNext ==
  /\ UNCHANGED part
  /\ \/ /\ part = "issue" /\ IssueNext
        /\ UNCHANGED <<governanceVars, ruleVars, scoringVars, publicationVars, otherVars>>
     \/ /\ part = "governance" /\ GovernanceNext
        /\ type = "cancel" => dataset' = dataset   \* a bound: no edit under requests to cancel
        /\ UNCHANGED <<issueVars, ruleVars, scoringVars, publicationVars, otherVars>>
     \/ /\ part = "rule" /\ RuleNext
        /\ UNCHANGED <<issueVars, governanceVars, scoringVars, publicationVars, otherVars>>
     \/ /\ part = "scoring" /\ ScoringNext
        /\ UNCHANGED <<issueVars, governanceVars, ruleVars, publicationVars, otherVars>>
     \/ /\ part = "publication" /\ PublicationNext
        /\ UNCHANGED <<issueVars, governanceVars, ruleVars, scoringVars, otherVars>>
     \/ /\ \/ part = "throttle" /\ ThrottlingNext
           \/ part = "session" /\ OpeningNext
        /\ UNCHANGED <<issueVars, governanceVars, ruleVars, scoringVars, publicationVars,
                       evidenceVars, syntheticVars>>
     \/ /\ part = "evidence" /\ EvidenceNext
        /\ UNCHANGED <<issueVars, governanceVars, ruleVars, scoringVars, publicationVars,
                       sessionVars, syntheticVars>>
     \/ /\ part = "synthetic" /\ SyntheticNext
        /\ UNCHANGED <<issueVars, governanceVars, ruleVars, scoringVars, publicationVars,
                       sessionVars, evidenceVars>>

ApprovalsSpec ==
  /\ ApprovalsInit
  /\ [][ApprovalsNext]_<<part, issueVars, governanceVars, ruleVars, scoringVars, publicationVars,
                         otherVars>>

-----------------------------------------------------------------------------
\* Every variable of the parts has its type.
ApprovalsTypeOK ==
  IssueTypeOK /\ GovernanceTypeOK /\ RuleTypeOK /\ ScoringTypeOK /\ PublicationTypeOK
  /\ SessionsTypeOK /\ EvidenceTypeOK /\ SyntheticTypeOK

\* Nothing takes effect on the word of one user: no resolution passes, no governed object
\* changes and no critical rule is activated by the user who asked for it.
TwoPeople == FourEyes /\ ChangesAreApproved /\ ActivationWasCleared

\* What is decided or done once is not done again: a resolution gets one verdict, a
\* governance request changes its target at most once, and a user whose credentials are
\* rejected has as many attempts as the limit and the requests under way allow.  What a
\* generator run stores is stored once, with its audit event.
OnceEach ==
  OneVerdictPerResolution /\ ChangedOnce /\ AttemptsAreBounded /\ SyntheticRowsAreAudited

\* What takes effect rests on what was found: scores on the results their publication had to go
\* by, which for other rules of a dataset are the last ones, shadow results included;
\* resolutions on files that passed their scan; generator runs on what the oracle said of the
\* records it was given.
ResultsAreGrounded ==
  /\ ScoresAreGrounded
  /\ OnlyCleanFilesAreSent /\ ResolutionsKeepTheirEvidence
  /\ CompletionsAreGrounded

\* Of what there may be one at a time, concurrent commands leave one in force: one scoring
\* configuration, approved by a second person, one publication of a period and one session
\* of a user.
OneInForce == OneConfigurationInForce /\ PeriodKeepsCurrent /\ OneSessionPerUser

\* What a command judged before it wrote is still so when it writes: the guards of the
\* issue commands hold of the issue that changes, and a request is accepted within the
\* lifetime and the idle timeout of its session.
GuardsHold == GuardsStillHold /\ AcceptedIsTimely

\* Decisions stand: no command that judged an older row overwrites what a governance or a
\* rule request has become, approving a rule request activates the rule in that step, and
\* no request revives a session that has ended.
DecisionsAreFinal == DecisionsStand /\ ApprovalActivates /\ EndedSessionsStayEnded
=============================================================================
