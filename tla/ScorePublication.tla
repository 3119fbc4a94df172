---------------------------- MODULE ScorePublication ----------------------------
(***************************************************************************)
(* The scores of an execution become the official ones of a period:        *)
(* ScorePublicationService over PostgreSQLScoreRepository, called by the   *)
(* job of the execution once that has ended.  What executions have left    *)
(* and what is published of it is all the publications know of them.       *)
(*                                                                         *)
(* The database runs READ COMMITTED: the transaction selects the current   *)
(* publication of the period, and others commit before it writes.  What    *)
(* it writes then is one step here, because it locks the rows and the      *)
(* index entries it meets until it ends.                                   *)
(***************************************************************************)
EXTENDS ScoreAggregation, Sequences, SequencesExt

CONSTANTS
  ScoredExecutions, \* executions that end with SUCCESS or PARTIAL
  Endings,          \* of each execution, the contents it may end with
  Periods           \* days

ASSUME PublicationAssumption ==
  \A e \in ScoredExecutions : \A x \in Endings[e] : IsEnded(x)

VARIABLES
  ended,        \* what the ended executions left, in their order: <<execution, contents>>
  publication,  \* the rows of score_publications, by execution; "known" is history: what had
                \* ended when the scores were computed
  publisher     \* where the publication of each execution is

publicationVars == <<ended, publication, publisher>>

Unpublished == [status |-> "none"]

PublicationInit ==
  /\ ended = <<>>
  /\ publication = [e \in ScoredExecutions |-> Unpublished]
  /\ publisher = [e \in ScoredExecutions |-> [step |-> "none"]]

Publishes(e, step) == publisher' = [publisher EXCEPT ![e] = step]

HasEnded(e) == \E i \in DOMAIN ended : ended[i].execution = e
Contents(e) == ended[CHOOSE i \in DOMAIN ended : ended[i].execution = e].contents

ExecutionEnds(e) ==
  /\ ~ HasEnded(e)
  /\ \E x \in Endings[e] : ended' = Append(ended, [execution |-> e, contents |-> x])
  /\ UNCHANGED <<publication, publisher>>

\* Of a rule, the results in SUCCESS executions.
ResultsOf(r) == {i \in DOMAIN ended : ended[i].contents.status = "SUCCESS" /\ r \in ended[i].contents.covers}

\* list_latest_results_for_rule_versions
LatestResults ==
  [r \in {s \in Rules : ResultsOf(s) # {}} |->
     LET last == ended[Max(ResultsOf(r))]
     IN [from |-> last.execution, result |-> last.contents.results[r]]]

\* publish_execution finds no publication of the execution, and computes the scores.
PublishRead(e, p) ==
  /\ HasEnded(e) /\ publisher[e].step = "none" /\ publication[e] = Unpublished
  /\ LET scores == FullScoreSet(Contents(e), LatestResults)
     IN Publishes(e, IF Publishable(scores)
                     THEN [step |-> "select", period |-> p, scores |-> scores, known |-> ended]
                     ELSE [step |-> "done"])
  /\ UNCHANGED <<ended, publication>>

CurrentOf(p) == {e \in ScoredExecutions : publication[e].status = "PUBLISHED" /\ publication[e].period = p}

SelectCurrent(e) ==
  /\ publisher[e].step = "select"
  /\ LET p == publisher[e]
     IN Publishes(e, [step |-> "write", period |-> p.period, scores |-> p.scores, known |-> p.known,
                      found |-> CurrentOf(p.period)])
  /\ UNCHANGED <<ended, publication>>

\* Mutant: the index on the current publication of a period is missing.
MayBeCurrent_Any(e) == TRUE

\* uq_publication_period_current, after the publication that was found has been superseded.
MayBeCurrent(e) == CurrentOf(publisher[e].period) \subseteq publisher[e].found

\* The rest of _atomic_publish.  A publication that fails is logged, and never tried again:
\* the job of the execution succeeds all the same.
AtomicPublish(e) ==
  /\ publisher[e].step = "write"
  /\ LET p == publisher[e]
     IN publication' = IF ~MayBeCurrent(e) THEN publication
                       ELSE [x \in ScoredExecutions |->
                               IF x = e THEN [status |-> "PUBLISHED", period |-> p.period,
                                              scores |-> p.scores, known |-> p.known]
                               ELSE IF x \in p.found THEN [publication[x] EXCEPT !.status = "SUPERSEDED"]
                               ELSE publication[x]]
  /\ Publishes(e, [step |-> "done"])
  /\ UNCHANGED ended

\* The worker dies or the transaction fails; the execution is over and is not run again.
PublishStops(e) ==
  /\ publisher[e].step \in {"select", "write"}
  /\ Publishes(e, [step |-> "done"])
  /\ UNCHANGED <<ended, publication>>

PublicationNext ==
  \E e \in ScoredExecutions :
    \/ \E p \in Periods : PublishRead(e, p)
    \/ ExecutionEnds(e) \/ SelectCurrent(e) \/ AtomicPublish(e) \/ PublishStops(e)

PublicationSpec == PublicationInit /\ [][PublicationNext]_publicationVars

-----------------------------------------------------------------------------
(* Properties *)

PublicationTypeOK ==
  /\ \A i \in DOMAIN ended : ended[i].execution \in ScoredExecutions /\ IsEnded(ended[i].contents)
  /\ \A e \in ScoredExecutions :
       /\ publication[e] # Unpublished =>
            /\ publication[e].status \in {"PUBLISHED", "SUPERSEDED"}
            /\ publication[e].period \in Periods
            /\ Publishable(publication[e].scores)
       /\ publisher[e].step \in {"none", "select", "write", "done"}

\* A period that has publications has exactly one current one, however many executions are
\* published in it at a time: superseding it and its successor come together or not at all.
PeriodKeepsCurrent ==
  \A p \in Periods :
    (\E e \in ScoredExecutions : publication[e] # Unpublished /\ publication[e].period = p) =>
      Cardinality(CurrentOf(p)) = 1

\* The results the scores of e may go by, when the executions in "known" had ended: of a rule e
\* covers, its own if it was eligible for official scoring; of another rule, the last one any
\* SUCCESS execution has left of it, eligible or not.
HasResult(known, i, r) == known[i].contents.status = "SUCCESS" /\ r \in known[i].contents.covers

GoesBy(e, known, i, r) ==
  /\ HasResult(known, i, r) /\ ~ NoData(known[i].contents.results[r])
  /\ \/ known[i].execution = e /\ known[i].contents.results[r].eligible
     \/ \A j \in DOMAIN known : /\ known[j].execution = e => r \notin known[j].contents.covers
                                /\ HasResult(known, j, r) => j <= i

Measured(e, known, rules) ==
  UNION {{Percentage(known[i].contents.results[r]) : r \in {r \in rules : GoesBy(e, known, i, r)}} :
           i \in DOMAIN known}

\* The value of an official score lies between two measurements.
Grounded(score, measured) ==
  score.official => \E lo, hi \in measured : lo <= score.value /\ score.value <= hi

SetIsGrounded(set, e, known) ==
  LET own  == DOMAIN set.rules
      near == {r \in Rules : DatasetOf[r] \in DOMAIN set.datasets}
  IN /\ \A r \in own : Grounded(set.rules[r], Measured(e, known, {r}))
     /\ \A d \in DOMAIN set.datasets :
          Grounded(set.datasets[d], Measured(e, known, {r \in Rules : DatasetOf[r] = d}))
     /\ \A m \in DOMAIN set.dimensions :
          Grounded(set.dimensions[m], Measured(e, known, {r \in own : DimensionOf[r] = m}))
     /\ \A s \in DOMAIN set.sources :
          Grounded(set.sources[s], Measured(e, known, {r \in near : SourceOf[DatasetOf[r]] = s}))
     /\ Grounded(set.enterprise, Measured(e, known, near))

\* Every published score is grounded in what was measured with the rules it is about when it
\* was computed, by this execution or, of the datasets it touches, last by another: a rule
\* without data, a partial execution, a result that has been succeeded and an aggregate without
\* value neither raise nor lower any score (calculate_full_score_set,
\* _gather_supplementary_rule_scores).
ScoresAreGrounded ==
  \A e \in ScoredExecutions :
    publication[e] # Unpublished => SetIsGrounded(publication[e].scores, e, publication[e].known)

\* "shadow result is labeled and excluded from official consumers": what a published dataset
\* score takes in from other executions was eligible for official scoring.
ShadowStaysOut ==
  \A e \in ScoredExecutions :
    publication[e] # Unpublished =>
      \A d \in DOMAIN publication[e].scores.siblings :
        LET siblings == publication[e].scores.siblings[d]
        IN \A r \in DOMAIN siblings :
             siblings[r].score.official => Contents(siblings[r].from).results[r].eligible

=============================================================================
