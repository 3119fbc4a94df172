---------------------------- MODULE ScoreAggregation ----------------------------
(***************************************************************************)
(* How the results of an execution become scores: ScoringService, as       *)
(* calculate_full_score_set calls it for a publication.  Rules are scored  *)
(* from their counts, datasets and dimensions from their rules, sources    *)
(* from their datasets and the enterprise from its sources; a dataset also *)
(* takes in its other active rules, by the latest results other            *)
(* executions have left of them.                                           *)
(*                                                                         *)
(* A score is a Decimal with two places, here a number of hundredths.      *)
(* Rules stay active and at their version.                                 *)
(***************************************************************************)
EXTENDS Integers, FiniteSetsExt

CONSTANTS
  Rules,
  DatasetOf, DimensionOf, Weight, \* of each rule
  SourceOf,                       \* of each dataset
  Thresholds                      \* the upper bounds of the levels below GOOD, ascending

Datasets   == {DatasetOf[r] : r \in Rules}
Dimensions == {DimensionOf[r] : r \in Rules}
Sources    == {SourceOf[d] : d \in Datasets}

ASSUME AggregationAssumption ==
  /\ IsFiniteSet(Rules)
  /\ Weight \in [Rules -> Nat \ {0}]
  /\ Datasets \subseteq DOMAIN SourceOf
  /\ Thresholds \in [1..3 -> 1..10000]
  /\ Thresholds[1] < Thresholds[2] /\ Thresholds[2] < Thresholds[3]

Results == [passed : Nat, evaluated : Nat, eligible : BOOLEAN]

\* An execution that ended [status, covers, results]: results of the rules it covers, of all
\* of them if it is a SUCCESS.  A rule that found nothing to evaluate has NO_DATA.
IsEnded(x) ==
  /\ x.status \in {"SUCCESS", "PARTIAL"}
  /\ x.covers \subseteq Rules /\ DOMAIN x.results \subseteq x.covers
  /\ x.status = "SUCCESS" => DOMAIN x.results = x.covers
  /\ \A r \in DOMAIN x.results : x.results[r] \in Results /\ x.results[r].passed <= x.results[r].evaluated

NoData(result) == result.evaluated = 0

-----------------------------------------------------------------------------
(* One score *)

\* quantize(0.01, ROUND_HALF_UP) of n / d
HalfUp(n, d) == (2 * n + d) \div (2 * d)

\* calculate_rule_score
Percentage(result) == HalfUp(10000 * result.passed, result.evaluated)

\* classify_score
Level(value) == Cardinality({i \in 1..3 : value >= Thresholds[i]})

Unscored(status) == [status |-> status, official |-> FALSE]
Scored(value) == [status |-> "CALCULATED", official |-> TRUE, value |-> value, level |-> Level(value)]

Official(scores) == {k \in DOMAIN scores : scores[k].official}

-----------------------------------------------------------------------------
(* Rules *)

\* Mutant: a rule without data scores zero.
RuleScore_NoDataIsZero(x, r) ==
  IF x.status = "PARTIAL" \/ ~ x.results[r].eligible THEN Unscored("PARTIAL")
  ELSE IF NoData(x.results[r]) THEN Scored(0)
  ELSE Scored(Percentage(x.results[r]))

\* _score_rule, without a decision of a policy for partial scores
RuleScore(x, r) ==
  IF x.status = "PARTIAL" \/ ~ x.results[r].eligible THEN Unscored("PARTIAL")
  ELSE IF NoData(x.results[r]) THEN Unscored("NO_DATA")
  ELSE Scored(Percentage(x.results[r]))

RuleScores(x) == [r \in x.covers |-> RuleScore(x, r)]

\* The score a dataset takes in for a rule x does not cover, whatever the result was
\* eligible for.
SiblingScore(result) ==
  IF NoData(result) THEN Unscored("NOT_CALCULATED") ELSE Scored(Percentage(result))

\* _gather_supplementary_rule_scores; latest has the newest result of each rule, and the
\* execution it is from.
Siblings(x, d, latest) ==
  [r \in {s \in DOMAIN latest : DatasetOf[s] = d /\ s \notin x.covers} |->
     [from |-> latest[r].from, score |-> SiblingScore(latest[r].result)]]

-----------------------------------------------------------------------------
(* Aggregates *)

WeightedScore(scores, weights) ==
  HalfUp(MapThenSumSet(LAMBDA k : scores[k].value * weights[k], Official(scores)),
         MapThenSumSet(LAMBDA k : weights[k], Official(scores)))

EmptyStatus(scores) ==
  IF \A k \in DOMAIN scores : scores[k].status = "NO_DATA" THEN "NO_DATA" ELSE "PARTIAL"

Aggregate(scores, weights) ==
  IF Official(scores) = {} THEN Unscored(EmptyStatus(scores))
  ELSE Scored(WeightedScore(scores, weights))

EqualWeights(scores) == [k \in DOMAIN scores |-> 1]

Touched(x) == {DatasetOf[r] : r \in x.covers}

DatasetParts(x, latest, d) ==
  LET own      == {r \in x.covers : DatasetOf[r] = d}
      siblings == Siblings(x, d, latest)
  IN  [r \in own \cup DOMAIN siblings |-> IF r \in own THEN RuleScore(x, r) ELSE siblings[r].score]

DatasetScores(x, latest) ==
  [d \in Touched(x) |-> Aggregate(DatasetParts(x, latest, d), Weight)]

\* Dimensions take in no siblings.
DimensionScores(x) ==
  [m \in {DimensionOf[r] : r \in x.covers} |->
     Aggregate([r \in {s \in x.covers : DimensionOf[s] = m} |-> RuleScore(x, r)], Weight)]

SourceScores(x, datasets) ==
  [s \in {SourceOf[d] : d \in DOMAIN datasets} |->
     LET own == [d \in {e \in DOMAIN datasets : SourceOf[e] = s} |-> datasets[d]]
     IN Aggregate(own, EqualWeights(own))]

\* calculate_full_score_set
FullScoreSet(x, latest) ==
  LET datasets == DatasetScores(x, latest)
      sources  == SourceScores(x, datasets)
  IN [rules      |-> RuleScores(x),
      siblings   |-> [d \in Touched(x) |-> Siblings(x, d, latest)],
      datasets   |-> datasets,
      dimensions |-> DimensionScores(x),
      sources    |-> sources,
      enterprise |-> Aggregate(sources, EqualWeights(sources))]

\* publish_execution refuses a set without any official score.
Publishable(set) ==
  \/ set.enterprise.official
  \/ \E part \in {"rules", "datasets", "dimensions", "sources"} : Official(set[part]) # {}

=============================================================================
