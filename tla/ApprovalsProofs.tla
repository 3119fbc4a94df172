--------------------------- MODULE ApprovalsProofs ---------------------------
(***************************************************************************)
(* Proofs about MCApprovals, for any number of users, commands, requests,  *)
(* rows, files, runs and instants: two persons, once each, one in force,   *)
(* and the steps that may not happen.                                      *)
(*                                                                         *)
(* Each part has an inductive invariant of its own; those of the decisions *)
(* are in DecisionProofs, those of publications, sessions, evidence files  *)
(* and synthetic runs are here.  That a published score lies between what  *)
(* was measured needs an induction over the sets that are summed; it is    *)
(* made by the least number of members that would fail.                    *)
(***************************************************************************)
EXTENDS MCApprovals, DecisionProofs, FiniteSetTheorems,
        WellFoundedInduction, TLAPS

-----------------------------------------------------------------------------
(* Publications *)

EndedExecution == [execution : ScoredExecutions, contents : UNION {Endings[e] : e \in ScoredExecutions}]

PublicationRow(row) ==
  /\ \E S, K : row \in [status : {"PUBLISHED", "SUPERSEDED"}, period : Periods, scores : S, known : K]
  /\ Publishable(row.scores)

IsPublished(e) == PublicationRow(publication[e])

InPeriod(e, p) == IsPublished(e) /\ publication[e].period = p

\* What the publication of an execution carries to its end.
PublisherCarries(e, m) ==
  /\ m.step \in {"none", "select", "write", "done"}
  /\ m.step \in {"select", "write"} =>
       publication[e] = Unpublished /\ m.period \in Periods /\ Publishable(m.scores)
  /\ m.step = "write" => \A x \in m.found : x \in ScoredExecutions /\ InPeriod(x, m.period)

OneCurrent(p) == \E e \in ScoredExecutions : CurrentOf(p) = {e}

PublicationInv ==
  /\ ended \in Seq(EndedExecution)
  /\ DOMAIN publication = ScoredExecutions /\ DOMAIN publisher = ScoredExecutions
  /\ \A e \in ScoredExecutions : publication[e] = Unpublished \/ IsPublished(e)
  /\ \A e \in ScoredExecutions : PublisherCarries(e, publisher[e])
  /\ \A p \in Periods : (\E e \in ScoredExecutions : InPeriod(e, p)) => OneCurrent(p)

LEMMA PublicationShapes ==
  ASSUME NEW row, PublicationRow(row)
  PROVE  row # Unpublished /\ row.status \in {"PUBLISHED", "SUPERSEDED"} /\ row.period \in Periods
<1>1. PICK S, K : row \in [status : {"PUBLISHED", "SUPERSEDED"}, period : Periods, scores : S, known : K]
  BY DEF PublicationRow
<1>2. row.status \in {"PUBLISHED", "SUPERSEDED"} /\ row.period \in Periods
  BY <1>1
<1> QED BY <1>2 DEF Unpublished

LEMMA PublicationInitInv == PublicationInit => PublicationInv
<1> SUFFICES ASSUME PublicationInit PROVE PublicationInv
  OBVIOUS
<1>1. ended \in Seq(EndedExecution) /\ DOMAIN publication = ScoredExecutions /\ DOMAIN publisher = ScoredExecutions
  BY DEF PublicationInit
<1>2. \A e \in ScoredExecutions : publication[e] = Unpublished /\ publisher[e].step = "none"
  BY DEF PublicationInit
<1>3. \A e \in ScoredExecutions : PublisherCarries(e, publisher[e])
  BY <1>2 DEF PublisherCarries
<1>4. \A e \in ScoredExecutions : ~ IsPublished(e)
  BY <1>2, PublicationShapes DEF IsPublished
<1> QED BY <1>1, <1>2, <1>3, <1>4 DEF PublicationInv, InPeriod

\* A publication moves on while the rows stay.
LEMMA PublisherMoves ==
  ASSUME PublicationInv, NEW e \in ScoredExecutions, NEW m, Publishes(e, m), PublisherCarries(e, m),
         UNCHANGED <<ended, publication>>
  PROVE  PublicationInv'
<1>1. /\ DOMAIN publisher' = ScoredExecutions /\ publisher'[e] = m
      /\ \A x \in ScoredExecutions \ {e} : publisher'[x] = publisher[x]
  BY DEF Publishes, PublicationInv
<1>2. ASSUME NEW x \in ScoredExecutions PROVE PublisherCarries(x, publisher[x])'
  <2>1. PICK n : n = publisher'[x]
    OBVIOUS
  <2>2. PublisherCarries(x, n)
    BY <1>1, <2>1 DEF PublicationInv
  <2>3. PublisherCarries(x, n)'
    BY <2>2 DEF PublisherCarries, InPeriod, IsPublished
  <2> QED BY <2>1, <2>3
<1> QED BY <1>1, <1>2 DEF PublicationInv, InPeriod, IsPublished, OneCurrent, CurrentOf

LEMMA DoneCarries == ASSUME NEW e PROVE PublisherCarries(e, [step |-> "done"])
BY DEF PublisherCarries

LEMMA ExecutionEndsInv ==
  ASSUME PublicationInv, NEW e \in ScoredExecutions, ExecutionEnds(e)
  PROVE  PublicationInv'
<1>1. PICK x \in Endings[e] : ended' = Append(ended, [execution |-> e, contents |-> x])
  BY DEF ExecutionEnds
<1>2. [execution |-> e, contents |-> x] \in EndedExecution
  BY DEF EndedExecution
<1>3. ended' \in Seq(EndedExecution)
  BY <1>1, <1>2 DEF PublicationInv
<1>4. UNCHANGED <<publication, publisher>>
  BY DEF ExecutionEnds
<1> QED BY <1>3, <1>4 DEF PublicationInv, PublisherCarries, InPeriod, IsPublished, OneCurrent,
           CurrentOf

LEMMA PublishReadInv ==
  ASSUME PublicationInv, NEW e \in ScoredExecutions, NEW p \in Periods, PublishRead(e, p)
  PROVE  PublicationInv'
<1>1. PICK scores : scores = FullScoreSet(Contents(e), LatestResults)
  OBVIOUS
<1>2. CASE Publishable(scores)
  <2>1. PICK m : m = [step |-> "select", period |-> p, scores |-> scores, known |-> ended]
    BY Zenon
  <2>2. Publishes(e, m)
    BY <1>1, <1>2, <2>1 DEF PublishRead
  <2>3. m.step = "select" /\ m.period = p /\ m.scores = scores
    BY <2>1
  <2>4. PublisherCarries(e, m)
    BY <1>2, <2>3 DEF PublisherCarries, PublishRead
  <2> QED BY <2>2, <2>4, PublisherMoves DEF PublishRead
<1>3. CASE ~ Publishable(scores)
  <2>1. Publishes(e, [step |-> "done"])
    BY <1>1, <1>3 DEF PublishRead
  <2> QED BY <2>1, DoneCarries, PublisherMoves DEF PublishRead
<1> QED BY <1>2, <1>3

LEMMA SelectCurrentInv ==
  ASSUME PublicationInv, NEW e \in ScoredExecutions, SelectCurrent(e)
  PROVE  PublicationInv'
<1>1. PICK p, scores, known, found :
        /\ p = publisher[e].period /\ scores = publisher[e].scores /\ known = publisher[e].known
        /\ found = CurrentOf(p)
  OBVIOUS
<1>2. PICK m : m = [step |-> "write", period |-> p, scores |-> scores, known |-> known, found |-> found]
  BY Zenon
<1>3. publication[e] = Unpublished /\ p \in Periods /\ Publishable(scores)
  BY <1>1 DEF SelectCurrent, PublicationInv, PublisherCarries
<1>4. \A x \in found : x \in ScoredExecutions /\ InPeriod(x, p)
  <2>1. ASSUME NEW x \in found PROVE x \in ScoredExecutions /\ InPeriod(x, p)
    <3>1. x \in ScoredExecutions /\ publication[x].status = "PUBLISHED" /\ publication[x].period = p
      BY <1>1 DEF CurrentOf
    <3> QED BY <3>1 DEF PublicationInv, InPeriod, Unpublished
  <2> QED BY <2>1
<1>5. m.step = "write" /\ m.period = p /\ m.scores = scores /\ m.found = found
  BY <1>2
<1>6. PublisherCarries(e, m)
  BY <1>3, <1>4, <1>5 DEF PublisherCarries
<1>7. Publishes(e, m)
  BY <1>1, <1>2 DEF SelectCurrent
<1> QED BY <1>6, <1>7, PublisherMoves DEF SelectCurrent

LEMMA PublishStopsInv ==
  ASSUME PublicationInv, NEW e \in ScoredExecutions, PublishStops(e)
  PROVE  PublicationInv'
BY DoneCarries, PublisherMoves DEF PublishStops

\* The new row and what it supersedes.
LEMMA AtomicPublishInv ==
  ASSUME PublicationInv, NEW e \in ScoredExecutions, AtomicPublish(e)
  PROVE  PublicationInv'
<1>1. PICK p, scores, known, found :
        /\ p = publisher[e].period /\ scores = publisher[e].scores /\ known = publisher[e].known
        /\ found = publisher[e].found
  BY Zenon
<1>2. CASE ~MayBeCurrent(e)
  <2>1. Publishes(e, [step |-> "done"]) /\ UNCHANGED <<ended, publication>>
    BY <1>2 DEF AtomicPublish
  <2> QED BY <2>1, DoneCarries, PublisherMoves
<1>3. CASE MayBeCurrent(e)
  <2>1. /\ publication[e] = Unpublished /\ p \in Periods /\ Publishable(scores)
        /\ \A x \in found : x \in ScoredExecutions /\ InPeriod(x, p)
        /\ CurrentOf(p) \subseteq found
    BY <1>1, <1>3 DEF AtomicPublish, PublicationInv, PublisherCarries, MayBeCurrent
  <2>2. PICK row : row = [status |-> "PUBLISHED", period |-> p, scores |-> scores, known |-> known]
    BY Zenon
  <2>3. row.status = "PUBLISHED" /\ row.period = p /\ PublicationRow(row)
    BY <2>1, <2>2, Zenon DEF PublicationRow
  <2>4. publication' = [x \in ScoredExecutions |->
                          IF x = e THEN row
                          ELSE IF x \in found THEN [publication[x] EXCEPT !.status = "SUPERSEDED"]
                          ELSE publication[x]]
    BY <1>1, <1>3, <2>2 DEF AtomicPublish
  <2>5. e \notin found
    BY <2>1, PublicationShapes DEF InPeriod, IsPublished
  <2>6. ASSUME NEW x \in found
        PROVE  InPeriod(x, p)' /\ publication'[x].status = "SUPERSEDED"
    <3>1. PICK old : old = publication[x]
      OBVIOUS
    <3>2. PublicationRow(old) /\ old.period = p /\ x \in ScoredExecutions
      BY <2>1, <3>1 DEF InPeriod, IsPublished
    <3>3. PICK S, K : old \in [status : {"PUBLISHED", "SUPERSEDED"}, period : Periods, scores : S, known : K]
      BY <3>2 DEF PublicationRow
    <3>4. PICK new : new = [old EXCEPT !.status = "SUPERSEDED"]
      BY Zenon
    <3>5. /\ new \in [status : {"PUBLISHED", "SUPERSEDED"}, period : Periods, scores : S, known : K]
          /\ new.status = "SUPERSEDED" /\ new.period = old.period /\ new.scores = old.scores
      BY <3>3, <3>4
    <3>6. PublicationRow(new)
      BY <3>2, <3>5 DEF PublicationRow
    <3>7. publication'[x] = new
      BY <2>4, <2>5, <3>1, <3>2, <3>4
    <3> QED BY <3>2, <3>5, <3>6, <3>7 DEF InPeriod, IsPublished
  <2>7. /\ publication'[e] = row /\ DOMAIN publication' = ScoredExecutions
        /\ \A x \in ScoredExecutions \ (found \cup {e}) : publication'[x] = publication[x]
    BY <2>4
  <2>8. InPeriod(e, p)'
    BY <2>3, <2>7 DEF InPeriod, IsPublished
  <2>9. ASSUME NEW x \in ScoredExecutions PROVE publication'[x] = Unpublished \/ IsPublished(x)'
    BY <2>6, <2>7, <2>8 DEF PublicationInv, InPeriod, IsPublished
  <2>10. ASSUME NEW x \in ScoredExecutions, NEW q \in Periods
         PROVE  (InPeriod(x, q) => InPeriod(x, q)') /\ (InPeriod(x, q)' => InPeriod(x, q) \/ x = e)
    <3>1. CASE x \in found
      BY <2>1, <2>6, <3>1 DEF InPeriod
    <3>2. CASE x = e
      BY <2>1, <3>2, PublicationShapes DEF InPeriod, IsPublished
    <3>3. CASE x \notin found \cup {e}
      BY <2>7, <3>3 DEF InPeriod, IsPublished
    <3> QED BY <3>1, <3>2, <3>3
  <2>11. /\ DOMAIN publisher' = ScoredExecutions /\ publisher'[e] = [step |-> "done"]
         /\ \A x \in ScoredExecutions \ {e} : publisher'[x] = publisher[x]
    BY DEF AtomicPublish, Publishes, PublicationInv
  <2>12. ASSUME NEW x \in ScoredExecutions PROVE PublisherCarries(x, publisher[x])'
    <3>1. CASE x = e
      <4>1. (PublisherCarries(e, [step |-> "done"]))'
        BY DEF PublisherCarries
      <4> QED BY <2>11, <3>1, <4>1
    <3>2. CASE x # e
      <4>1. PICK n : n = publisher'[x]
        OBVIOUS
      <4>2. PublisherCarries(x, n)
        BY <2>11, <3>2, <4>1 DEF PublicationInv
      <4>3. n.step \in {"select", "write"} => publication'[x] = Unpublished
        <5>1. n.step \in {"select", "write"} => x \notin found
          BY <2>1, <4>2, PublicationShapes DEF PublisherCarries, InPeriod, IsPublished
        <5> QED BY <2>7, <3>2, <4>2, <5>1 DEF PublisherCarries
      <4>4. n.step = "write" => n.period \in Periods
        BY <4>2 DEF PublisherCarries
      <4>5. n.step = "write" => \A y \in n.found : y \in ScoredExecutions /\ InPeriod(y, n.period)'
        BY <2>10, <4>2, <4>4 DEF PublisherCarries
      <4>6. PublisherCarries(x, n)'
        BY <4>2, <4>3, <4>5 DEF PublisherCarries
      <4> QED BY <4>1, <4>6
    <3> QED BY <3>1, <3>2
  <2>13. ASSUME NEW q \in Periods, NEW x \in ScoredExecutions, InPeriod(x, q)' PROVE OneCurrent(q)'
    <3>1. CASE q = p
      <4>1. \A y \in ScoredExecutions : publication'[y].status = "PUBLISHED" /\ publication'[y].period = p => y = e
        <5>1. ASSUME NEW y \in ScoredExecutions, y # e, publication'[y].status = "PUBLISHED",
                     publication'[y].period = p
              PROVE  FALSE
          <6>1. y \notin found
            BY <2>6, <5>1
          <6>2. publication[y].status = "PUBLISHED" /\ publication[y].period = p
            BY <2>7, <5>1, <6>1
          <6> QED BY <2>1, <6>1, <6>2 DEF CurrentOf
        <5> QED BY <5>1
      <4>2. publication'[e].status = "PUBLISHED" /\ publication'[e].period = p
        BY <2>3, <2>7
      <4>3. CurrentOf(p)' = {e}
        BY <4>1, <4>2 DEF CurrentOf
      <4> QED BY <3>1, <4>3 DEF OneCurrent
    <3>2. CASE q # p
      <4>1. x # e
        BY <2>8, <3>2, <2>13 DEF InPeriod
      <4>2. PICK y \in ScoredExecutions : CurrentOf(q) = {y}
        BY <2>10, <2>13, <4>1 DEF PublicationInv, OneCurrent
      <4>3. ASSUME NEW z \in ScoredExecutions
            PROVE  (publication'[z].status = "PUBLISHED" /\ publication'[z].period = q)
                     <=> (publication[z].status = "PUBLISHED" /\ publication[z].period = q)
        <5>1. CASE z = e
          <6>1. publication[e].status # "PUBLISHED"
            BY <2>1 DEF Unpublished
          <6> QED BY <2>3, <2>7, <3>2, <5>1, <6>1
        <5>2. CASE z \in found
          <6>1. publication[z].period = p
            BY <2>1, <5>2 DEF InPeriod
          <6> QED BY <2>6, <3>2, <5>2, <6>1
        <5>3. CASE z \notin found \cup {e}
          BY <2>7, <5>3
        <5> QED BY <5>1, <5>2, <5>3
      <4>4. CurrentOf(q)' = CurrentOf(q)
        BY <4>3 DEF CurrentOf
      <4> QED BY <4>2, <4>4 DEF OneCurrent
    <3> QED BY <3>1, <3>2
  <2>14. ended' \in Seq(EndedExecution)
    BY DEF AtomicPublish, PublicationInv
  <2> QED BY <2>7, <2>9, <2>11, <2>12, <2>13, <2>14 DEF PublicationInv
<1> QED BY <1>2, <1>3

LEMMA PublicationNextInv == PublicationInv /\ [PublicationNext]_publicationVars => PublicationInv'
<1> SUFFICES ASSUME PublicationInv, [PublicationNext]_publicationVars PROVE PublicationInv'
  OBVIOUS
<1>1. ASSUME UNCHANGED publicationVars PROVE PublicationInv'
  BY <1>1 DEF publicationVars, PublicationInv, PublisherCarries, InPeriod, IsPublished, OneCurrent,
     CurrentOf
<1> QED BY <1>1, ExecutionEndsInv, PublishReadInv, SelectCurrentInv, AtomicPublishInv,
           PublishStopsInv
    DEF PublicationNext

LEMMA PublicationInvSafe == PublicationInv => PublicationTypeOK /\ PeriodKeepsCurrent
<1> SUFFICES ASSUME PublicationInv PROVE PublicationTypeOK /\ PeriodKeepsCurrent
  OBVIOUS
<1>1. ASSUME NEW i \in DOMAIN ended
      PROVE  ended[i].execution \in ScoredExecutions /\ IsEnded(ended[i].contents)
  <2>1. ended[i] \in EndedExecution
    BY DEF PublicationInv
  <2>2. ended[i].execution \in ScoredExecutions /\ \E e \in ScoredExecutions : ended[i].contents \in Endings[e]
    BY <2>1 DEF EndedExecution
  <2> QED BY <2>2, PublicationAssumption
<1>2. ASSUME NEW e \in ScoredExecutions
      PROVE  /\ publication[e] # Unpublished =>
                  /\ publication[e].status \in {"PUBLISHED", "SUPERSEDED"}
                  /\ publication[e].period \in Periods
                  /\ Publishable(publication[e].scores)
             /\ publisher[e].step \in {"none", "select", "write", "done"}
  <2>1. publication[e] # Unpublished => PublicationRow(publication[e])
    BY DEF PublicationInv, IsPublished
  <2>2. PublicationRow(publication[e]) => Publishable(publication[e].scores)
    BY DEF PublicationRow
  <2>3. publisher[e].step \in {"none", "select", "write", "done"}
    BY DEF PublicationInv, PublisherCarries
  <2> QED BY <2>1, <2>2, <2>3, PublicationShapes
<1>3. ASSUME NEW p \in Periods, NEW e \in ScoredExecutions, publication[e] # Unpublished,
             publication[e].period = p
      PROVE  Cardinality(CurrentOf(p)) = 1
  <2>1. OneCurrent(p)
    BY <1>3 DEF PublicationInv, InPeriod
  <2> QED BY <2>1, FS_Singleton, Zenon DEF OneCurrent
<1> QED BY <1>1, <1>2, <1>3 DEF PublicationTypeOK, PeriodKeepsCurrent

-----------------------------------------------------------------------------
(* Sums and means *)

\* A set of numbers has a least member: induction, by the least number that fails.
LEMMA LeastOf == ASSUME NEW S \in SUBSET Nat, S # {} PROVE \E m \in S : \A x \in S : m <= x
<1>1. PICK m \in S : \A x \in S : ~ (<<x, m>> \in OpToRel(<, Nat))
  BY WFMin, NatLessThanWellFounded, Zenon
<1>2. \A x \in S : <<x, m>> \in OpToRel(<, Nat) <=> x < m
  BY Zenon DEF OpToRel
<1>3. \A x \in S : ~ (x < m)
  BY <1>1, <1>2
<1> QED BY <1>3

\* The member that a sum takes first.
Picked(s) == CHOOSE x \in s : TRUE
Others(s) == s \ {Picked(s)}

LEMMA PickedAndOthers ==
  ASSUME NEW S, IsFiniteSet(S), NEW s \in SUBSET S
  PROVE  /\ IsFiniteSet(s) /\ Cardinality(s) \in Nat /\ (Cardinality(s) = 0 <=> s = {})
         /\ s # {} => /\ Picked(s) \in s /\ Others(s) \in SUBSET S
                      /\ Cardinality(Others(s)) = Cardinality(s) - 1
<1>1. IsFiniteSet(s)
  BY FS_Subset
<1>2. Cardinality(s) \in Nat /\ (Cardinality(s) = 0 <=> s = {})
  BY <1>1, FS_CardinalityType, FS_EmptySet
<1>3. s # {} => Picked(s) \in s
  BY DEF Picked
<1>4. s # {} => Cardinality(Others(s)) = Cardinality(s) - 1
  BY <1>1, <1>3, FS_RemoveElement DEF Others
<1>5. Others(s) \in SUBSET S
  BY DEF Others
<1> QED BY <1>1, <1>2, <1>3, <1>4, <1>5

\* The subsets of at most n members, and what it means for g to sum f over them.
Small(S, n) == {s \in SUBSET S : Cardinality(s) <= n}
SumsUp(D, f, g) == g = [s \in D |-> IF s = {} THEN 0 ELSE f[Picked(s)] + g[Others(s)]]

LEMMA SumsStart == ASSUME NEW S, IsFiniteSet(S), NEW f PROVE \E g : SumsUp(Small(S, 0), f, g)
<1>1. PICK g : g = [s \in Small(S, 0) |-> 0]
  OBVIOUS
<1>2. \A s \in Small(S, 0) : s = {}
  BY PickedAndOthers DEF Small
<1>3. SumsUp(Small(S, 0), f, g)
  BY <1>1, <1>2 DEF SumsUp
<1> QED BY <1>3

LEMMA SumsGoOn ==
  ASSUME NEW S, IsFiniteSet(S), NEW f, NEW n \in Nat, NEW g, SumsUp(Small(S, n), f, g)
  PROVE  \E h : SumsUp(Small(S, n + 1), f, h)
<1>1. PICK h : h = [s \in Small(S, n + 1) |-> IF s = {} THEN 0 ELSE f[Picked(s)] + g[Others(s)]]
  OBVIOUS
<1>2. \A s \in Small(S, n) : s \in Small(S, n + 1)
  BY PickedAndOthers DEF Small
<1>3. \A s \in Small(S, n + 1) : s # {} => Others(s) \in Small(S, n)
  BY PickedAndOthers DEF Small
<1>4. \A s \in Small(S, n) : g[s] = IF s = {} THEN 0 ELSE f[Picked(s)] + g[Others(s)]
  BY DEF SumsUp
<1>5. \A s \in Small(S, n) : h[s] = g[s]
  BY <1>1, <1>2, <1>4
<1>6. \A s \in Small(S, n + 1) : s # {} => h[Others(s)] = g[Others(s)]
  BY <1>3, <1>5
<1>7. h = [s \in Small(S, n + 1) |-> IF s = {} THEN 0 ELSE f[Picked(s)] + h[Others(s)]]
  BY <1>1, <1>6
<1> QED BY <1>7 DEF SumsUp

\* So the recursion of the fold has a solution over all subsets of a finite set.
LEMMA SumsExist == ASSUME NEW S, IsFiniteSet(S), NEW f PROVE \E g : SumsUp(SUBSET S, f, g)
<1> DEFINE Bad == {n \in Nat : ~ \E g : SumsUp(Small(S, n), f, g)}
<1>1. Bad = {}
  <2> SUFFICES ASSUME Bad # {} PROVE FALSE
    OBVIOUS
  <2>1. PICK n \in Bad : \A x \in Bad : n <= x
    BY LeastOf
  <2>2. n \in Nat /\ ~ \E g : SumsUp(Small(S, n), f, g)
    BY <2>1
  <2>3. n # 0
    BY <2>2, SumsStart
  <2>4. n - 1 \in Nat /\ (n - 1) + 1 = n /\ ~ (n <= n - 1)
    BY <2>2, <2>3
  <2>5. \E g : SumsUp(Small(S, n - 1), f, g)
    BY <2>1, <2>4
  <2> HIDE DEF Bad
  <2> QED BY <2>2, <2>4, <2>5, SumsGoOn
<1>2. Cardinality(S) \in Nat
  BY FS_CardinalityType
<1>3. Small(S, Cardinality(S)) = SUBSET S
  BY FS_Subset DEF Small
<1> QED BY <1>1, <1>2, <1>3

\* The sums of a weighted mean, one member at a time.
ValueSum(S, scores, weights) == MapThenSumSet(LAMBDA k : scores[k].value * weights[k], S)
WeightSum(S, weights) == MapThenSumSet(LAMBDA k : weights[k], S)

MeanOf(S, scores, weights, v, w) ==
  /\ ValueSum(S, scores, weights) = v[S]
  /\ WeightSum(S, weights) = w[S]
  /\ v[{}] = 0 /\ w[{}] = 0
  /\ \A s \in SUBSET S : s # {} =>
       /\ v[s] = scores[Picked(s)].value * weights[Picked(s)] + v[Others(s)]
       /\ w[s] = weights[Picked(s)] + w[Others(s)]

LEMMA MeanSums ==
  ASSUME NEW S, IsFiniteSet(S), NEW scores, NEW weights
  PROVE  \E v, w : MeanOf(S, scores, weights, v, w)
<1> DEFINE ValueTerms  == [k \in S |-> scores[k].value * weights[k]]
           WeightTerms == [k \in S |-> weights[k]]
<1>1. PICK f : f = ValueTerms
  OBVIOUS
<1>2. PICK a : SumsUp(SUBSET S, f, a)
  BY SumsExist
<1>3. PICK h : h = WeightTerms
  OBVIOUS
<1>4. PICK b : SumsUp(SUBSET S, h, b)
  BY SumsExist
<1>5. \A s \in SUBSET S : s # {} => Picked(s) \in S
  BY DEF Picked
<1>6. \A s \in SUBSET S : s # {} => f[Picked(s)] = scores[Picked(s)].value * weights[Picked(s)]
                                     /\ h[Picked(s)] = weights[Picked(s)]
  BY <1>1, <1>3, <1>5
<1>7. \E v : /\ v = [s \in SUBSET S |-> IF s = {} THEN 0
                                          ELSE scores[Picked(s)].value * weights[Picked(s)] + v[Others(s)]]
             /\ ValueSum(S, scores, weights) = v[S]
  <2>1. a = [s \in SUBSET S |-> IF s = {} THEN 0
                                  ELSE scores[Picked(s)].value * weights[Picked(s)] + a[Others(s)]]
    BY <1>2, <1>6 DEF SumsUp
  <2> QED BY <2>1 DEF ValueSum, WeightSum, MapThenSumSet, MapThenFoldSet, Picked, Others
<1>8. \E w : /\ w = [s \in SUBSET S |-> IF s = {} THEN 0 ELSE weights[Picked(s)] + w[Others(s)]]
             /\ WeightSum(S, weights) = w[S]
  <2>1. b = [s \in SUBSET S |-> IF s = {} THEN 0 ELSE weights[Picked(s)] + b[Others(s)]]
    BY <1>4, <1>6 DEF SumsUp
  <2> QED BY <2>1 DEF ValueSum, WeightSum, MapThenSumSet, MapThenFoldSet, Picked, Others
<1>9. PICK v : /\ v = [s \in SUBSET S |-> IF s = {} THEN 0
                                  ELSE scores[Picked(s)].value * weights[Picked(s)] + v[Others(s)]]
               /\ ValueSum(S, scores, weights) = v[S]
  BY <1>7, Zenon
<1>10. PICK w : /\ w = [s \in SUBSET S |-> IF s = {} THEN 0 ELSE weights[Picked(s)] + w[Others(s)]]
                /\ WeightSum(S, weights) = w[S]
  BY <1>8, Zenon
<1>11. /\ v[{}] = 0
       /\ \A s \in SUBSET S : s # {} =>
            v[s] = scores[Picked(s)].value * weights[Picked(s)] + v[Others(s)]
  <2>1. {} \in SUBSET S
    OBVIOUS
  <2>2. \A s \in SUBSET S : v[s] = IF s = {} THEN 0
                                   ELSE scores[Picked(s)].value * weights[Picked(s)] + v[Others(s)]
    BY <1>9, Zenon
  <2> QED BY <2>1, <2>2
<1>12. /\ w[{}] = 0
       /\ \A s \in SUBSET S : s # {} => w[s] = weights[Picked(s)] + w[Others(s)]
  <2>1. {} \in SUBSET S
    OBVIOUS
  <2>2. \A s \in SUBSET S : w[s] = IF s = {} THEN 0 ELSE weights[Picked(s)] + w[Others(s)]
    BY <1>10, Zenon
  <2> QED BY <2>1, <2>2
<1>13. MeanOf(S, scores, weights, v, w)
  BY <1>9, <1>10, <1>11, <1>12 DEF MeanOf
<1> QED BY <1>13, Zenon

\* One member more: the mean stays between the least and the greatest value.
LEMMA Products ==
  ASSUME NEW a \in Nat, NEW b \in Nat, NEW n \in Nat, a <= b
  PROVE  a * n \in Nat /\ b * n \in Nat /\ a * n <= b * n
<1>1. PICK c \in Nat : b = a + c
  <2>1. b - a \in Nat /\ b = a + (b - a)
    OBVIOUS
  <2> QED BY <2>1
<1>2. a * n \in Nat /\ c * n \in Nat /\ b * n = a * n + c * n
  BY <1>1
<1> QED BY <1>2

LEMMA MeanGoesOn ==
  ASSUME NEW x \in Nat, NEW k \in Nat, NEW low \in Nat, NEW high \in Nat, NEW V \in Nat, NEW W \in Nat,
         low * W <= V, V <= high * W, NEW a \in Nat, a <= x, a <= low, NEW b \in Nat, x <= b, high <= b
  PROVE  a * (k + W) <= x * k + V /\ x * k + V <= b * (k + W)
<1>1. a * (k + W) = a * k + a * W /\ b * (k + W) = b * k + b * W
  OBVIOUS
<1>2. /\ a * k \in Nat /\ x * k \in Nat /\ b * k \in Nat /\ a * k <= x * k /\ x * k <= b * k
  BY Products
<1>3. /\ a * W \in Nat /\ low * W \in Nat /\ high * W \in Nat /\ b * W \in Nat
      /\ a * W <= low * W /\ high * W <= b * W
  BY Products
<1> QED BY <1>1, <1>2, <1>3

\* Of the sums v and w over s, the mean lies between two of the values.
Between(s, scores, v, w) ==
  /\ v[s] \in Nat /\ w[s] \in Nat
  /\ s # {} => /\ w[s] >= 1
               /\ \E low, high \in s : scores[low].value * w[s] <= v[s] /\ v[s] <= scores[high].value * w[s]

LEMMA MeanStep ==
  ASSUME NEW S, IsFiniteSet(S), NEW scores, NEW weights, NEW v, NEW w,
         \A k \in S : scores[k].value \in Nat /\ weights[k] \in Nat \ {0},
         v[{}] = 0, w[{}] = 0, NEW s \in SUBSET S, s # {},
         v[s] = scores[Picked(s)].value * weights[Picked(s)] + v[Others(s)],
         w[s] = weights[Picked(s)] + w[Others(s)],
         Between(Others(s), scores, v, w)
  PROVE  Between(s, scores, v, w)
<1>1. Picked(s) \in s /\ Picked(s) \in S /\ Others(s) \subseteq s
  BY DEF Picked, Others
<1>2. PICK x, k : x = scores[Picked(s)].value /\ k = weights[Picked(s)]
  OBVIOUS
<1>3. PICK V, W : V = v[Others(s)] /\ W = w[Others(s)]
  OBVIOUS
<1>4. x \in Nat /\ k \in Nat /\ k >= 1 /\ V \in Nat /\ W \in Nat
  BY <1>1, <1>2, <1>3 DEF Between
<1>5. v[s] = x * k + V /\ w[s] = k + W
  BY <1>2, <1>3
<1>6. x * k \in Nat
  BY <1>4
<1>7. v[s] \in Nat /\ w[s] \in Nat /\ w[s] >= 1
  BY <1>4, <1>5, <1>6
<1>8. CASE Others(s) = {}
  <2>1. V = 0 /\ W = 0
    BY <1>3, <1>8
  <2>2. x * w[s] = v[s]
    BY <1>4, <1>5, <2>1
  <2>3. scores[Picked(s)].value * w[s] <= v[s] /\ v[s] <= scores[Picked(s)].value * w[s]
    BY <1>2, <1>7, <2>2
  <2> QED BY <1>1, <1>7, <2>3 DEF Between
<1>9. CASE Others(s) # {}
  <2>1. PICK low \in Others(s), high \in Others(s) :
          scores[low].value * W <= V /\ V <= scores[high].value * W
    BY <1>3, <1>9 DEF Between
  <2>2. PICK l, h : l = scores[low].value /\ h = scores[high].value
    OBVIOUS
  <2>3. l \in Nat /\ h \in Nat /\ l * W <= V /\ V <= h * W /\ low \in s /\ high \in s
    BY <1>1, <2>1, <2>2
  <2>4. \E a \in s : scores[a].value * w[s] <= v[s]
    <3>1. CASE x <= l
      <4>1. x * (k + W) <= x * k + V
        BY <1>4, <2>3, <3>1, x + h \in Nat, x <= x + h, h <= x + h, MeanGoesOn
      <4> QED BY <1>1, <1>2, <1>5, <4>1
    <3>2. CASE l <= x
      <4>1. l * (k + W) <= x * k + V
        BY <1>4, <2>3, <3>2, x + h \in Nat, x <= x + h, h <= x + h, MeanGoesOn
      <4> QED BY <1>5, <2>2, <2>3, <4>1
    <3> QED BY <1>4, <2>3, <3>1, <3>2
  <2>5. \E b \in s : v[s] <= scores[b].value * w[s]
    <3>1. CASE h <= x
      <4>1. x * k + V <= x * (k + W)
        BY <1>4, <2>3, <3>1, 0 <= x, 0 <= l, MeanGoesOn
      <4> QED BY <1>1, <1>2, <1>5, <4>1
    <3>2. CASE x <= h
      <4>1. x * k + V <= h * (k + W)
        BY <1>4, <2>3, <3>2, 0 <= x, 0 <= l, MeanGoesOn
      <4> QED BY <1>5, <2>2, <2>3, <4>1
    <3> QED BY <1>4, <2>3, <3>1, <3>2
  <2> QED BY <1>7, <2>4, <2>5 DEF Between
<1> QED BY <1>8, <1>9

\* A weighted mean lies between two of its values.
LEMMA MeanIsBetween ==
  ASSUME NEW S, IsFiniteSet(S), S # {}, NEW scores, NEW weights,
         \A k \in S : scores[k].value \in Nat /\ weights[k] \in Nat \ {0}
  PROVE  \E V \in Nat, W \in Nat \ {0} :
           /\ V = ValueSum(S, scores, weights)
           /\ W = WeightSum(S, weights)
           /\ \E low, high \in S : scores[low].value * W <= V /\ V <= scores[high].value * W
<1>1. PICK v, w : MeanOf(S, scores, weights, v, w)
  BY MeanSums
<1> DEFINE Bad == {n \in Nat : \E s \in SUBSET S : Cardinality(s) = n /\ ~ Between(s, scores, v, w)}
<1>2. Bad = {}
  <2> SUFFICES ASSUME Bad # {} PROVE FALSE
    OBVIOUS
  <2>1. PICK n \in Bad : \A x \in Bad : n <= x
    BY LeastOf
  <2>2. PICK s \in SUBSET S : Cardinality(s) = n /\ ~ Between(s, scores, v, w)
    BY <2>1
  <2>3. s # {}
    <3>1. v[{}] = 0 /\ w[{}] = 0
      BY <1>1 DEF MeanOf
    <3>2. Between({}, scores, v, w)
      BY <3>1 DEF Between
    <3> QED BY <2>2, <3>2
  <2>4. Others(s) \in SUBSET S /\ Cardinality(Others(s)) = n - 1 /\ n \in Nat /\ n - 1 \in Nat
    <3>1. n \in Nat /\ n # 0
      BY <2>1, <2>2, <2>3, PickedAndOthers
    <3> QED BY <2>2, <2>3, <3>1, PickedAndOthers
  <2>5. ~ (n - 1 \in Bad)
    BY <2>1, <2>4
  <2>6. Between(Others(s), scores, v, w)
    BY <2>4, <2>5
  <2>7. /\ v[s] = scores[Picked(s)].value * weights[Picked(s)] + v[Others(s)]
        /\ w[s] = weights[Picked(s)] + w[Others(s)]
    BY <1>1, <2>3 DEF MeanOf
  <2>8. Between(s, scores, v, w)
    BY <1>1, <2>3, <2>6, <2>7, MeanStep DEF MeanOf
  <2> QED BY <2>2, <2>8
<1>3. Between(S, scores, v, w)
  BY <1>2, FS_CardinalityType
<1>4. v[S] \in Nat /\ w[S] \in Nat \ {0} /\
      \E low, high \in S : scores[low].value * w[S] <= v[S] /\ v[S] <= scores[high].value * w[S]
  BY <1>3 DEF Between
<1> QED BY <1>1, <1>4, Zenon DEF MeanOf

\* Products of a factor with successive numbers.
LEMMA NextMultiple ==
  ASSUME NEW n \in Nat, NEW x \in Nat, NEW y \in Nat, x < y
  PROVE  /\ n * x \in Nat /\ n * y \in Nat /\ n * x + n <= n * y
<1>1. PICK k \in Nat : y = x + 1 + k
  <2>1. y - x - 1 \in Nat /\ y = x + 1 + (y - x - 1)
    OBVIOUS
  <2> QED BY <2>1
<1>2. n * (x + 1 + k) = n * x + n + n * k
  OBVIOUS
<1>3. n * x \in Nat /\ n * k \in Nat
  OBVIOUS
<1> QED BY <1>1, <1>2, <1>3

\* Half up, a quotient between two numbers stays between them.
LEMMA HalfUpIsBetween ==
  ASSUME NEW V \in Nat, NEW W \in Nat \ {0}, NEW low \in Nat, NEW high \in Nat,
         low * W <= V, V <= high * W
  PROVE  HalfUp(V, W) \in Nat /\ low <= HalfUp(V, W) /\ HalfUp(V, W) <= high
<1>1. PICK n, d, q : n = 2 * V + W /\ d = 2 * W /\ q = n \div d
  OBVIOUS
<1>2. n \in Nat /\ d \in Nat /\ d >= 1 /\ q \in Nat
  BY <1>1
<1>3. d * q <= n /\ n < d * q + d
  <2>1. q = n \div d
    BY <1>1
  <2> QED BY <1>2, <2>1
<1>4. d * low <= n
  <2>1. d * low = 2 * (low * W) /\ low * W \in Nat
    BY <1>1
  <2> QED BY <1>1, <2>1
<1>5. n < d * high + d
  <2>1. d * high = 2 * (high * W) /\ high * W \in Nat
    BY <1>1
  <2> QED BY <1>1, <2>1
<1>6. low <= q
  <2>1. CASE q < low
    <3>1. d * q + d <= d * low
      BY <1>2, <2>1, NextMultiple
    <3> QED BY <1>2, <1>3, <1>4, <3>1
  <2> QED BY <1>2, <2>1
<1>7. q <= high
  <2>1. CASE high < q
    <3>1. d * high + d <= d * q
      BY <1>2, <2>1, NextMultiple
    <3> QED BY <1>2, <1>3, <1>5, <3>1
  <2> QED BY <1>2, <2>1
<1> QED BY <1>1, <1>2, <1>6, <1>7 DEF HalfUp

-----------------------------------------------------------------------------
(* Scores *)

EndingsAreRight ==
  /\ \A i \in DOMAIN ended : IsEnded(ended[i].contents)
  /\ \A i, j \in DOMAIN ended : ended[i].execution = ended[j].execution => i = j

\* A score without value, or one between two of the measurements.
ScoreStands(score, measured) == score.official => score.value \in Nat /\ Grounded(score, measured)

LEMMA IsMeasured ==
  ASSUME NEW e, NEW i \in DOMAIN ended, NEW rules, NEW r \in rules, GoesBy(e, ended, i, r)
  PROVE  Percentage(ended[i].contents.results[r]) \in Measured(e, ended, rules)
<1>1. Percentage(ended[i].contents.results[r])
        \in {Percentage(ended[i].contents.results[q]) : q \in {q \in rules : GoesBy(e, ended, i, q)}}
  OBVIOUS
<1> QED BY <1>1 DEF Measured

LEMMA MeasurementOf ==
  ASSUME NEW e, NEW rules, NEW m \in Measured(e, ended, rules)
  PROVE  \E i \in DOMAIN ended : \E r \in rules :
           GoesBy(e, ended, i, r) /\ m = Percentage(ended[i].contents.results[r])
BY DEF Measured

LEMMA PercentageIsNumber ==
  ASSUME NEW result \in Results, ~ NoData(result) PROVE Percentage(result) \in Nat
<1>1. PICK n, d : n = 10000 * result.passed /\ d = result.evaluated
  OBVIOUS
<1>2. n \in Nat /\ d \in Nat /\ d >= 1
  BY <1>1 DEF Results, NoData
<1>3. (2 * n + d) \div (2 * d) \in Nat
  BY <1>2
<1> QED BY <1>1, <1>3 DEF Percentage, HalfUp

LEMMA ResultOf ==
  ASSUME EndingsAreRight, NEW i \in DOMAIN ended, ended[i].contents.status = "SUCCESS",
         NEW r \in ended[i].contents.covers
  PROVE  ended[i].contents.results[r] \in Results /\ r \in Rules
BY DEF EndingsAreRight, IsEnded

LEMMA MeasuredNumbers ==
  ASSUME EndingsAreRight, NEW e, NEW rules PROVE Measured(e, ended, rules) \in SUBSET Nat
BY MeasurementOf, ResultOf, PercentageIsNumber DEF GoesBy, HasResult

LEMMA MeasuredWiden ==
  ASSUME NEW e, NEW rules, NEW more, rules \subseteq more
  PROVE  Measured(e, ended, rules) \subseteq Measured(e, ended, more)
BY MeasurementOf, IsMeasured

\* What one result gives for its rule.
LEMMA MeasuredStands ==
  ASSUME EndingsAreRight, NEW e, NEW i \in DOMAIN ended, NEW r, GoesBy(e, ended, i, r)
  PROVE  ScoreStands(Scored(Percentage(ended[i].contents.results[r])), Measured(e, ended, {r}))
<1>1. PICK m : m = Percentage(ended[i].contents.results[r])
  OBVIOUS
<1>2. m \in Measured(e, ended, {r}) /\ m \in Nat
  BY <1>1, IsMeasured, MeasuredNumbers
<1>3. Scored(m).value = m
  BY DEF Scored
<1>4. m <= m
  BY <1>2
<1> QED BY <1>1, <1>2, <1>3, <1>4 DEF ScoreStands, Grounded

LEMMA UnscoredStands == ASSUME NEW status, NEW measured PROVE ScoreStands(Unscored(status), measured)
BY DEF ScoreStands, Unscored

LEMMA RuleStands ==
  ASSUME EndingsAreRight, NEW i \in DOMAIN ended, NEW r \in ended[i].contents.covers
  PROVE  ScoreStands(RuleScore(ended[i].contents, r), Measured(ended[i].execution, ended, {r}))
<1>1. PICK x : x = ended[i].contents
  OBVIOUS
<1>2. x.status \in {"SUCCESS", "PARTIAL"}
  BY <1>1 DEF EndingsAreRight, IsEnded
<1>3. CASE x.status = "PARTIAL" \/ ~ x.results[r].eligible
  BY <1>1, <1>3, UnscoredStands DEF RuleScore
<1>4. CASE ~ (x.status = "PARTIAL" \/ ~ x.results[r].eligible) /\ NoData(x.results[r])
  BY <1>1, <1>4, UnscoredStands DEF RuleScore
<1>5. CASE ~ (x.status = "PARTIAL" \/ ~ x.results[r].eligible) /\ ~ NoData(x.results[r])
  <2>1. x.status = "SUCCESS"
    BY <1>2, <1>5
  <2>2. GoesBy(ended[i].execution, ended, i, r)
    BY <1>1, <1>5, <2>1 DEF GoesBy, HasResult
  <2>3. ScoreStands(Scored(Percentage(x.results[r])), Measured(ended[i].execution, ended, {r}))
    BY <1>1, <2>2, MeasuredStands
  <2> QED BY <1>1, <1>5, <2>3 DEF RuleScore
<1> QED BY <1>3, <1>4, <1>5

\* What a dataset takes in of a rule the execution does not cover is the rule's last result.
LEMMA LatestStands ==
  ASSUME EndingsAreRight, ended \in Seq(EndedExecution), NEW k \in DOMAIN ended,
         NEW r \in DOMAIN LatestResults, r \notin ended[k].contents.covers
  PROVE  /\ r \in Rules
         /\ ScoreStands(SiblingScore(LatestResults[r].result), Measured(ended[k].execution, ended, {r}))
<1>1. r \in Rules /\ ResultsOf(r) # {}
  BY DEF LatestResults
<1>2. ResultsOf(r) \in SUBSET (1..Len(ended)) /\ Len(ended) \in Nat
  BY DEF ResultsOf
<1>3. /\ Max(ResultsOf(r)) \in ResultsOf(r)
      /\ \A j \in ResultsOf(r) : j <= Max(ResultsOf(r))
  <2> DEFINE Above == {Len(ended) - i : i \in ResultsOf(r)}
  <2>1. Above \in SUBSET Nat /\ Above # {}
    BY <1>1, <1>2
  <2>2. PICK m \in Above : \A x \in Above : m <= x
    BY <2>1, LeastOf
  <2>3. PICK i \in ResultsOf(r) : m = Len(ended) - i
    BY <2>2
  <2>4. \A j \in ResultsOf(r) : m <= Len(ended) - j
    BY <2>2
  <2>5. \A j \in ResultsOf(r) : i >= j
    BY <1>2, <2>3, <2>4
  <2>6. /\ Max(ResultsOf(r)) \in ResultsOf(r)
        /\ \A j \in ResultsOf(r) : Max(ResultsOf(r)) >= j
    BY <2>5 DEF Max
  <2> QED BY <1>2, <2>6
<1>4. PICK i : i = Max(ResultsOf(r))
  OBVIOUS
<1>5. i \in DOMAIN ended /\ HasResult(ended, i, r)
  BY <1>3, <1>4 DEF ResultsOf, HasResult
<1>6. LatestResults[r].result = ended[i].contents.results[r]
  BY <1>1, <1>4 DEF LatestResults
<1>7. CASE NoData(LatestResults[r].result)
  BY <1>1, <1>7, UnscoredStands DEF SiblingScore
<1>8. CASE ~ NoData(LatestResults[r].result)
  <2>1. ASSUME NEW j \in DOMAIN ended
        PROVE  /\ ended[j].execution = ended[k].execution => r \notin ended[j].contents.covers
               /\ HasResult(ended, j, r) => j <= i
    BY <1>3, <1>4 DEF EndingsAreRight, HasResult, ResultsOf
  <2>2. GoesBy(ended[k].execution, ended, i, r)
    BY <1>5, <1>6, <1>8, <2>1 DEF GoesBy
  <2> QED BY <1>1, <1>5, <1>6, <1>8, <2>2, MeasuredStands DEF SiblingScore
<1> QED BY <1>7, <1>8

LEMMA WiderStands ==
  ASSUME NEW score, NEW measured, NEW more, measured \subseteq more, ScoreStands(score, measured)
  PROVE  ScoreStands(score, more)
BY DEF ScoreStands, Grounded

\* An aggregate of scores that stand stands.
LEMMA AggregateStands ==
  ASSUME NEW scores, IsFiniteSet(DOMAIN scores), NEW weights, NEW measured \in SUBSET Nat,
         \A k \in DOMAIN scores : weights[k] \in Nat \ {0} /\ ScoreStands(scores[k], measured)
  PROVE  ScoreStands(Aggregate(scores, weights), measured)
<1>1. CASE Official(scores) = {}
  BY <1>1, UnscoredStands DEF Aggregate
<1>2. CASE Official(scores) # {}
  <2>1. IsFiniteSet(Official(scores))
    BY FS_Subset DEF Official
  <2>2. \A k \in Official(scores) :
          /\ scores[k].value \in Nat /\ weights[k] \in Nat \ {0}
          /\ \E lo, hi \in measured : lo <= scores[k].value /\ scores[k].value <= hi
    BY DEF Official, ScoreStands, Grounded
  <2>3. PICK V \in Nat, W \in Nat \ {0} :
          /\ V = ValueSum(Official(scores), scores, weights)
          /\ W = WeightSum(Official(scores), weights)
          /\ \E low, high \in Official(scores) : scores[low].value * W <= V /\ V <= scores[high].value * W
    BY <1>2, <2>1, <2>2, MeanIsBetween
  <2>4. PICK low \in Official(scores), high \in Official(scores) :
          scores[low].value * W <= V /\ V <= scores[high].value * W
    BY <2>3
  <2>5. PICK l, h, m : l = scores[low].value /\ h = scores[high].value /\ m = HalfUp(V, W)
    OBVIOUS
  <2>6. l \in Nat /\ h \in Nat
    BY <2>2, <2>5
  <2>7. m \in Nat /\ l <= m /\ m <= h
    BY <2>4, <2>5, <2>6, HalfUpIsBetween
  <2>8. PICK lo \in measured, hi \in measured : lo <= l /\ h <= hi
    BY <2>2, <2>5
  <2>9. lo \in Nat /\ hi \in Nat
    OBVIOUS
  <2>10. lo <= m /\ m <= hi
    BY <2>6, <2>7, <2>8, <2>9
  <2>11. Aggregate(scores, weights) = Scored(m)
    BY <1>2, <2>3, <2>5 DEF Aggregate, WeightedScore, ValueSum, WeightSum
  <2>12. Scored(m).value = m
    BY DEF Scored
  <2> QED BY <2>7, <2>8, <2>10, <2>11, <2>12 DEF ScoreStands, Grounded
<1> QED BY <1>1, <1>2

LEMMA FiniteImage ==
  ASSUME NEW S, IsFiniteSet(S), NEW f, NEW T, T = {f[x] : x \in S} PROVE IsFiniteSet(T)
<1>1. PICK g : g = [x \in S |-> f[x]]
  OBVIOUS
<1>2. g \in Surjection(S, T)
  BY <1>1 DEF Surjection
<1> QED BY <1>2, FS_Surjection

LEMMA RulesWeigh == IsFiniteSet(Rules) /\ \A r \in Rules : Weight[r] \in Nat \ {0}
BY AggregationAssumption

LEMMA DatasetStands ==
  ASSUME EndingsAreRight, ended \in Seq(EndedExecution), NEW i \in DOMAIN ended, NEW d
  PROVE  ScoreStands(Aggregate(DatasetParts(ended[i].contents, LatestResults, d), Weight),
                     Measured(ended[i].execution, ended, {r \in Rules : DatasetOf[r] = d}))
<1>1. PICK x, e, latest : x = ended[i].contents /\ e = ended[i].execution /\ latest = LatestResults
  OBVIOUS
<1>2. PICK own, siblings : own = {r \in x.covers : DatasetOf[r] = d} /\ siblings = Siblings(x, d, latest)
  OBVIOUS
<1>3. PICK parts : parts = [r \in own \cup DOMAIN siblings |->
                              IF r \in own THEN RuleScore(x, r) ELSE siblings[r].score]
  OBVIOUS
<1>4. DatasetParts(x, latest, d) = parts
  BY <1>2, <1>3 DEF DatasetParts
<1>5. own \subseteq Rules /\ \A r \in own : DatasetOf[r] = d /\ ScoreStands(parts[r], Measured(e, ended, {r}))
  BY <1>1, <1>2, <1>3, RuleStands DEF EndingsAreRight, IsEnded
<1>6. \A r \in DOMAIN siblings : /\ r \in DOMAIN latest /\ DatasetOf[r] = d /\ r \notin x.covers
                                 /\ siblings[r].score = SiblingScore(latest[r].result)
  BY <1>2 DEF Siblings
<1>7. \A r \in DOMAIN siblings : r \in Rules /\ ScoreStands(siblings[r].score, Measured(e, ended, {r}))
  BY <1>1, <1>6, LatestStands
<1>8. DOMAIN parts \subseteq Rules
  BY <1>3, <1>5, <1>7
<1>9. IsFiniteSet(DOMAIN parts)
  BY <1>8, RulesWeigh, FS_Subset
<1>10. \A r \in DOMAIN parts : DatasetOf[r] = d /\ ScoreStands(parts[r], Measured(e, ended, {r}))
  BY <1>3, <1>5, <1>6, <1>7
<1>11. PICK measured : measured = Measured(e, ended, {q \in Rules : DatasetOf[q] = d})
  OBVIOUS
<1>12. \A r \in DOMAIN parts : Measured(e, ended, {r}) \subseteq measured
  <2>1. \A r \in DOMAIN parts : {r} \subseteq {q \in Rules : DatasetOf[q] = d}
    BY <1>8, <1>10
  <2> QED BY <1>11, <2>1, MeasuredWiden
<1>13. \A r \in DOMAIN parts : ScoreStands(parts[r], measured)
  BY <1>10, <1>12, WiderStands
<1>14. measured \in SUBSET Nat
  BY <1>11, MeasuredNumbers
<1>15. ScoreStands(Aggregate(parts, Weight), measured)
  BY <1>8, <1>9, <1>13, <1>14, RulesWeigh, AggregateStands
<1> QED BY <1>1, <1>4, <1>11, <1>15

DimensionParts(x, m) == [r \in {s \in x.covers : DimensionOf[s] = m} |-> RuleScore(x, r)]

LEMMA DimensionStands ==
  ASSUME EndingsAreRight, NEW i \in DOMAIN ended, NEW m
  PROVE  ScoreStands(Aggregate(DimensionParts(ended[i].contents, m), Weight),
                     Measured(ended[i].execution, ended,
                              {r \in ended[i].contents.covers : DimensionOf[r] = m}))
<1>1. PICK x, e : x = ended[i].contents /\ e = ended[i].execution
  OBVIOUS
<1>2. PICK own : own = {s \in x.covers : DimensionOf[s] = m}
  OBVIOUS
<1>3. PICK parts : parts = [r \in own |-> RuleScore(x, r)]
  OBVIOUS
<1>4. DOMAIN parts = own /\ own \subseteq Rules
  BY <1>1, <1>2, <1>3 DEF EndingsAreRight, IsEnded
<1>5. IsFiniteSet(DOMAIN parts)
  BY <1>4, RulesWeigh, FS_Subset
<1>6. \A r \in DOMAIN parts : ScoreStands(parts[r], Measured(e, ended, {r}))
  BY <1>1, <1>2, <1>3, RuleStands
<1>7. PICK measured : measured = Measured(e, ended, own)
  OBVIOUS
<1>8. \A r \in DOMAIN parts : Measured(e, ended, {r}) \subseteq measured
  <2>1. \A r \in DOMAIN parts : {r} \subseteq own
    BY <1>4
  <2> QED BY <1>7, <2>1, MeasuredWiden
<1>9. \A r \in DOMAIN parts : ScoreStands(parts[r], measured)
  BY <1>6, <1>8, WiderStands
<1>10. measured \in SUBSET Nat
  BY <1>7, MeasuredNumbers
<1>11. ScoreStands(Aggregate(parts, Weight), measured)
  BY <1>4, <1>5, <1>9, <1>10, RulesWeigh, AggregateStands
<1> QED BY <1>1, <1>2, <1>3, <1>7, <1>11 DEF DimensionParts

\* Scores with equal weights.
LEMMA EqualStands ==
  ASSUME NEW scores, IsFiniteSet(DOMAIN scores), NEW measured \in SUBSET Nat,
         \A k \in DOMAIN scores : ScoreStands(scores[k], measured)
  PROVE  ScoreStands(Aggregate(scores, EqualWeights(scores)), measured)
<1>1. PICK weights : weights = EqualWeights(scores)
  OBVIOUS
<1>2. \A k \in DOMAIN scores : weights[k] \in Nat \ {0}
  BY <1>1 DEF EqualWeights
<1> QED BY <1>1, <1>2, AggregateStands

\* All that a score set names stands, on what e could go by.
Near(set) == {r \in Rules : DatasetOf[r] \in DOMAIN set.datasets}

SetStands(set, e, known) ==
  /\ \A r \in DOMAIN set.rules : ScoreStands(set.rules[r], Measured(e, known, {r}))
  /\ \A d \in DOMAIN set.datasets :
       ScoreStands(set.datasets[d], Measured(e, known, {r \in Rules : DatasetOf[r] = d}))
  /\ \A m \in DOMAIN set.dimensions :
       ScoreStands(set.dimensions[m], Measured(e, known, {r \in DOMAIN set.rules : DimensionOf[r] = m}))
  /\ \A s \in DOMAIN set.sources :
       ScoreStands(set.sources[s], Measured(e, known, {r \in Near(set) : SourceOf[DatasetOf[r]] = s}))
  /\ ScoreStands(set.enterprise, Measured(e, known, Near(set)))

LEMMA FullSetStands ==
  ASSUME EndingsAreRight, ended \in Seq(EndedExecution), NEW i \in DOMAIN ended
  PROVE  SetStands(FullScoreSet(ended[i].contents, LatestResults), ended[i].execution, ended)
<1>1. PICK x, e, latest : x = ended[i].contents /\ e = ended[i].execution /\ latest = LatestResults
  OBVIOUS
<1>2. PICK datasets : datasets = DatasetScores(x, latest)
  OBVIOUS
<1>3. PICK sources : sources = SourceScores(x, datasets)
  OBVIOUS
<1>4. PICK set : set = FullScoreSet(x, latest)
  OBVIOUS
<1>5. /\ set.datasets = datasets /\ set.sources = sources /\ set.dimensions = DimensionScores(x)
      /\ set.enterprise = Aggregate(sources, EqualWeights(sources))
      /\ set.rules = [r \in x.covers |-> RuleScore(x, r)]
  BY <1>2, <1>3, <1>4 DEF FullScoreSet, RuleScores
<1>6. x.covers \subseteq Rules /\ IsFiniteSet(x.covers)
  BY <1>1, RulesWeigh, FS_Subset DEF EndingsAreRight, IsEnded
<1>7. DOMAIN set.rules = x.covers /\ \A r \in DOMAIN set.rules : ScoreStands(set.rules[r], Measured(e, ended, {r}))
  BY <1>1, <1>5, RuleStands
<1>8. /\ DOMAIN datasets = Touched(x)
      /\ \A d \in DOMAIN datasets :
           ScoreStands(datasets[d], Measured(e, ended, {r \in Rules : DatasetOf[r] = d}))
  <2>1. /\ DOMAIN datasets = Touched(x)
        /\ \A d \in Touched(x) : datasets[d] = Aggregate(DatasetParts(x, latest, d), Weight)
    BY <1>2 DEF DatasetScores
  <2> QED BY <1>1, <2>1, DatasetStands
<1>9. \A m \in DOMAIN set.dimensions :
        ScoreStands(set.dimensions[m], Measured(e, ended, {r \in DOMAIN set.rules : DimensionOf[r] = m}))
  <2>1. \A m \in DOMAIN set.dimensions :
          set.dimensions[m] = Aggregate(DimensionParts(x, m), Weight)
    BY <1>5 DEF DimensionScores, DimensionParts
  <2> QED BY <1>1, <1>7, <2>1, DimensionStands
<1>10. IsFiniteSet(DOMAIN datasets)
  BY <1>6, <1>8, FiniteImage DEF Touched
<1>11. PICK near : near = Near(set)
  OBVIOUS
<1>12. \A s \in DOMAIN sources :
         ScoreStands(sources[s], Measured(e, ended, {r \in near : SourceOf[DatasetOf[r]] = s}))
  <2> SUFFICES ASSUME NEW s \in DOMAIN sources
               PROVE  ScoreStands(sources[s], Measured(e, ended, {r \in near : SourceOf[DatasetOf[r]] = s}))
    OBVIOUS
  <2>1. PICK own : own = [d \in {f \in DOMAIN datasets : SourceOf[f] = s} |-> datasets[d]]
    OBVIOUS
  <2>2. sources[s] = Aggregate(own, EqualWeights(own))
    BY <1>3, <2>1 DEF SourceScores
  <2>3. DOMAIN own \subseteq DOMAIN datasets
    BY <2>1
  <2>4. IsFiniteSet(DOMAIN own)
    BY <1>10, <2>3, FS_Subset
  <2>5. PICK measured : measured = Measured(e, ended, {r \in near : SourceOf[DatasetOf[r]] = s})
    OBVIOUS
  <2>6. ASSUME NEW d \in DOMAIN own PROVE ScoreStands(own[d], measured)
    <3>1. ScoreStands(own[d], Measured(e, ended, {r \in Rules : DatasetOf[r] = d})) /\ SourceOf[d] = s
      BY <1>8, <2>1
    <3>2. {r \in Rules : DatasetOf[r] = d} \subseteq {r \in near : SourceOf[DatasetOf[r]] = s}
      BY <1>5, <1>11, <2>3, <3>1 DEF Near
    <3>3. Measured(e, ended, {r \in Rules : DatasetOf[r] = d}) \subseteq measured
      BY <2>5, <3>2, MeasuredWiden
    <3> QED BY <3>1, <3>3, WiderStands
  <2>7. measured \in SUBSET Nat
    BY <2>5, MeasuredNumbers
  <2>8. ScoreStands(Aggregate(own, EqualWeights(own)), measured)
    BY <2>4, <2>6, <2>7, EqualStands
  <2> QED BY <2>2, <2>5, <2>8
<1>13. IsFiniteSet(DOMAIN sources)
  <2>1. DOMAIN sources = {SourceOf[d] : d \in DOMAIN datasets}
    BY <1>3 DEF SourceScores
  <2> QED BY <1>10, <2>1, FiniteImage
<1>14. PICK measured : measured = Measured(e, ended, near)
  OBVIOUS
<1>15. \A s \in DOMAIN sources : ScoreStands(sources[s], measured)
  <2>1. \A s \in DOMAIN sources : {r \in near : SourceOf[DatasetOf[r]] = s} \subseteq near
    OBVIOUS
  <2>2. \A s \in DOMAIN sources :
          Measured(e, ended, {r \in near : SourceOf[DatasetOf[r]] = s}) \subseteq measured
    BY <1>14, <2>1, MeasuredWiden
  <2> QED BY <1>12, <2>2, WiderStands
<1>16. measured \in SUBSET Nat
  BY <1>14, MeasuredNumbers
<1>17. ScoreStands(set.enterprise, measured)
  BY <1>5, <1>13, <1>15, <1>16, EqualStands
<1>18. /\ \A d \in DOMAIN set.datasets :
            ScoreStands(set.datasets[d], Measured(e, ended, {r \in Rules : DatasetOf[r] = d}))
       /\ \A s \in DOMAIN set.sources :
            ScoreStands(set.sources[s], Measured(e, ended, {r \in near : SourceOf[DatasetOf[r]] = s}))
  BY <1>5, <1>8, <1>12
<1>19. SetStands(set, e, ended)
  BY <1>7, <1>9, <1>11, <1>14, <1>17, <1>18 DEF SetStands
<1> QED BY <1>1, <1>4, <1>19

-----------------------------------------------------------------------------
(* Published scores *)

\* The scores that are published, and those that are about to be.
EndedOnce == \A i, j \in DOMAIN ended : ended[i].execution = ended[j].execution => i = j

ScoresInv ==
  /\ PublicationInv /\ EndedOnce
  /\ \A e \in ScoredExecutions :
       /\ publication[e] # Unpublished => SetStands(publication[e].scores, e, publication[e].known)
       /\ publisher[e].step \in {"select", "write"} => SetStands(publisher[e].scores, e, publisher[e].known)

LEMMA EndingsRight ==
  ASSUME PublicationInv, EndedOnce PROVE EndingsAreRight /\ ended \in Seq(EndedExecution)
BY PublicationInvSafe DEF PublicationTypeOK, EndingsAreRight, EndedOnce, PublicationInv

LEMMA EndedOnceStays ==
  ASSUME PublicationInv, EndedOnce, [PublicationNext]_publicationVars PROVE EndedOnce'
<1>1. CASE UNCHANGED ended
  BY <1>1 DEF EndedOnce
<1>2. CASE \E e \in ScoredExecutions : ExecutionEnds(e)
  <2>1. PICK e \in ScoredExecutions : ExecutionEnds(e)
    BY <1>2
  <2>2. PICK row : ended' = Append(ended, row) /\ row.execution = e
    BY <2>1 DEF ExecutionEnds
  <2>3. ended \in Seq(EndedExecution) /\ \A i \in DOMAIN ended : ended[i].execution # e
    BY <2>1 DEF PublicationInv, ExecutionEnds, HasEnded
  <2>4. /\ DOMAIN ended' = 1..Len(ended) + 1 /\ DOMAIN ended = 1..Len(ended) /\ Len(ended) \in Nat
        /\ ended'[Len(ended) + 1] = row /\ \A i \in DOMAIN ended : ended'[i] = ended[i]
    BY <2>2, <2>3
  <2> QED BY <2>2, <2>3, <2>4 DEF EndedOnce
<1> QED BY <1>1, <1>2 DEF PublicationNext, publicationVars, PublishRead, SelectCurrent,
           AtomicPublish, PublishStops

LEMMA ScoresNextInv == ScoresInv /\ [PublicationNext]_publicationVars => ScoresInv'
<1> SUFFICES ASSUME ScoresInv, [PublicationNext]_publicationVars PROVE ScoresInv'
  OBVIOUS
<1>1. PublicationInv /\ PublicationInv'
  BY PublicationNextInv DEF ScoresInv
<1>2. DOMAIN publication = ScoredExecutions /\ DOMAIN publisher = ScoredExecutions
  BY <1>1 DEF PublicationInv
<1>3. EndedOnce /\ EndedOnce'
  BY <1>1, EndedOnceStays DEF ScoresInv
<1>4. ASSUME NEW f \in ScoredExecutions, publication'[f] # Unpublished
      PROVE  SetStands(publication'[f].scores, f, publication'[f].known)
  <2>1. CASE publication'[f] = publication[f]
    BY <1>4, <2>1 DEF ScoresInv
  <2>2. CASE publication'[f] # publication[f]
    <3>1. PICK e \in ScoredExecutions : AtomicPublish(e) /\ MayBeCurrent(e)
      BY <1>4, <2>2 DEF PublicationNext, publicationVars, PublishRead, ExecutionEnds, SelectCurrent,
         AtomicPublish, PublishStops
    <3>2. PICK set, known, found : /\ set = publisher[e].scores /\ known = publisher[e].known
                                   /\ found = publisher[e].found
      BY Zenon
    <3>3. SetStands(set, e, known) /\ \A x \in found : x \in ScoredExecutions /\ IsPublished(x)
      BY <1>1, <3>1, <3>2 DEF ScoresInv, AtomicPublish, PublicationInv, PublisherCarries, InPeriod
    <3>4. CASE f = e
      <4>1. publication'[f] = [status |-> "PUBLISHED", period |-> publisher[e].period,
                               scores |-> set, known |-> known]
        BY <3>1, <3>2, <3>4 DEF AtomicPublish
      <4>2. publication'[f].scores = set /\ publication'[f].known = known
        BY <4>1
      <4> QED BY <3>3, <3>4, <4>2
    <3>5. CASE f # e
      <4>1. f \in found /\ publication'[f] = [publication[f] EXCEPT !.status = "SUPERSEDED"]
        BY <2>2, <3>1, <3>2, <3>5 DEF AtomicPublish
      <4>2. PICK row, new : row = publication[f] /\ new = publication'[f]
        OBVIOUS
      <4>3. PublicationRow(row) /\ row # Unpublished /\ new = [row EXCEPT !.status = "SUPERSEDED"]
        BY <3>3, <4>1, <4>2, PublicationShapes DEF IsPublished
      <4>4. PICK S, K : row \in [status : {"PUBLISHED", "SUPERSEDED"}, period : Periods, scores : S, known : K]
        BY <4>3 DEF PublicationRow
      <4>5. new.scores = row.scores /\ new.known = row.known
        BY <4>3, <4>4
      <4> QED BY <4>2, <4>3, <4>5 DEF ScoresInv
    <3> QED BY <3>4, <3>5
  <2> QED BY <2>1, <2>2
<1>5. ASSUME NEW f \in ScoredExecutions, publisher'[f].step \in {"select", "write"}
      PROVE  SetStands(publisher'[f].scores, f, publisher'[f].known)
  <2>1. CASE publisher'[f] = publisher[f]
    BY <1>5, <2>1 DEF ScoresInv
  <2>2. CASE publisher'[f] # publisher[f]
    <3>1. (\E p \in Periods : PublishRead(f, p)) \/ SelectCurrent(f)
      <4>1. PICK e \in ScoredExecutions :
              (\E p \in Periods : PublishRead(e, p)) \/ SelectCurrent(e) \/ AtomicPublish(e) \/ PublishStops(e)
        BY <2>2 DEF PublicationNext, publicationVars, ExecutionEnds
      <4>2. f = e
        BY <1>2, <2>2, <4>1 DEF PublishRead, SelectCurrent, AtomicPublish, PublishStops, Publishes
      <4>3. ~ AtomicPublish(f) /\ ~ PublishStops(f)
        BY <1>2, <1>5 DEF AtomicPublish, PublishStops, Publishes
      <4> QED BY <4>1, <4>2, <4>3
    <3>2. ASSUME NEW p \in Periods, PublishRead(f, p)
          PROVE  SetStands(publisher'[f].scores, f, publisher'[f].known)
      <4>1. PICK scores : scores = FullScoreSet(Contents(f), LatestResults)
        OBVIOUS
      <4>2. publisher'[f] = [step |-> "select", period |-> p, scores |-> scores, known |-> ended]
        BY <1>2, <1>5, <3>2, <4>1 DEF PublishRead, Publishes
      <4>3. \E i \in DOMAIN ended : Contents(f) = ended[i].contents /\ ended[i].execution = f
        BY <3>2 DEF PublishRead, HasEnded, Contents
      <4>4. SetStands(scores, f, ended)
        BY <1>1, <1>3, <4>1, <4>3, EndingsRight, FullSetStands
      <4>5. publisher'[f].scores = scores /\ publisher'[f].known = ended
        BY <4>2
      <4> QED BY <4>4, <4>5
    <3>3. CASE SelectCurrent(f)
      <4>1. /\ publisher'[f].scores = publisher[f].scores /\ publisher[f].step = "select"
            /\ publisher'[f].known = publisher[f].known
        BY <1>2, <3>3 DEF SelectCurrent, Publishes
      <4> QED BY <4>1 DEF ScoresInv
    <3> QED BY <3>1, <3>2, <3>3
  <2> QED BY <2>1, <2>2
<1> QED BY <1>1, <1>3, <1>4, <1>5, Zenon DEF ScoresInv, Unpublished

LEMMA ScoresInitInv == PublicationInit => ScoresInv
<1> SUFFICES ASSUME PublicationInit PROVE ScoresInv
  OBVIOUS
<1>1. \A e \in ScoredExecutions : publication[e] = Unpublished /\ publisher[e].step = "none"
  BY DEF PublicationInit
<1>2. EndedOnce
  BY DEF PublicationInit, EndedOnce
<1> QED BY <1>1, <1>2, PublicationInitInv DEF ScoresInv

LEMMA ScoresInvSafe == ScoresInv => PublicationTypeOK /\ PeriodKeepsCurrent /\ ScoresAreGrounded
<1> SUFFICES ASSUME ScoresInv PROVE ScoresAreGrounded
  BY PublicationInvSafe DEF ScoresInv
<1>1. ASSUME NEW set, NEW e, NEW known, SetStands(set, e, known) PROVE SetIsGrounded(set, e, known)
  <2>1. \A score, measured : ScoreStands(score, measured) => Grounded(score, measured)
    BY DEF ScoreStands, Grounded
  <2> QED BY <1>1, <2>1, Zenon DEF SetStands, SetIsGrounded, Near
<1> QED BY <1>1, Zenon DEF ScoresInv, ScoresAreGrounded

-----------------------------------------------------------------------------
(* Sessions and the throttle *)

Instants == 0..MaxClock
ThrottleRow == [failures : Nat \ {0}, since : Instants, until : Nat]
DirectoryCall == [step : {"directory"}, user : Principals, client : Clients, at : Instants]

\* What a request carries between its transactions.
CallCarries(m) ==
  /\ m.step \in {"none", "directory", "authenticated", "opened", "resolved", "late", "logout"}
  /\ m.step = "directory" => m \in DirectoryCall
  /\ m.step = "authenticated" => m.user \in Principals
  /\ m.step \in {"opened", "late", "logout"} => m.session \in SessionIds
  /\ m.step = "resolved" =>
       /\ m.session \in SessionIds /\ session[m.session] # NoSession /\ m.at \in Instants
       /\ m.at < session[m.session].expires /\ m.at < interacted[m.session] + IdleTimeout

SessionRows ==
  /\ wall \in Instants
  /\ session \in [SessionIds -> SessionRow \cup {NoSession}]
  /\ interacted \in [SessionIds -> Instants]
  /\ \A s \in SessionIds : session[s] # NoSession => session[s].active <= interacted[s]
  /\ OneSessionPerUser

\* The attempts that a key of theirs may still see rejected.
Attempts(k) == {c \in Callers : call[c].step = "directory" /\ k \in OfCall(c)}

ThrottleRows ==
  /\ DOMAIN throttle = Keys /\ \A k \in Keys : throttle[k] = Clear \/ throttle[k] \in ThrottleRow
  /\ refused \in [Keys -> Nat]
  /\ \A k \in Keys :
       /\ throttle[k].failures < MaxFailures => refused[k] <= throttle[k].failures
       /\ refused[k] + Cardinality(Attempts(k)) <= MaxFailures + Cardinality(Callers) - 1

CallsCarry == DOMAIN call = Callers /\ \A c \in Callers : CallCarries(call[c])

SessionsInv == SessionRows /\ ThrottleRows /\ CallsCarry

LEMMA SessionShapes ==
  /\ NoSession.status = "none" /\ NoCall.step = "none" /\ Clear.failures = 0
  /\ \A row \in SessionRow : /\ row # NoSession /\ row.status \in {"ACTIVE", "EXPIRED", "REVOKED"}
                             /\ row.expires \in Nat /\ row.active \in Instants
  /\ \A row \in ThrottleRow : row # Clear /\ row.failures \in Nat \ {0} /\ row.since \in Instants
<1>1. NoSession.status = "none" /\ NoCall.step = "none" /\ Clear.failures = 0
  BY DEF NoSession, NoCall, Clear
<1>2. \A row \in SessionRow : /\ row.status \in {"ACTIVE", "EXPIRED", "REVOKED"}
                              /\ row.expires \in Nat /\ row.active \in Instants
  BY DEF SessionRow, Instants, Ended
<1>3. \A row \in ThrottleRow : row.failures \in Nat \ {0} /\ row.since \in Instants
  BY DEF ThrottleRow
<1> QED BY <1>1, <1>2, <1>3

LEMMA AttemptsFinite ==
  ASSUME NEW k
  PROVE  /\ IsFiniteSet(Attempts(k)) /\ Cardinality(Attempts(k)) \in Nat
         /\ Cardinality(Callers) \in Nat /\ Cardinality(Attempts(k)) <= Cardinality(Callers)
<1>1. IsFiniteSet(Callers) /\ Attempts(k) \subseteq Callers
  BY SessionsAssumption DEF Attempts
<1>2. IsFiniteSet(Attempts(k)) /\ Cardinality(Attempts(k)) <= Cardinality(Callers)
  BY <1>1, FS_Subset
<1> QED BY <1>1, <1>2, FS_CardinalityType

LEMMA SessionsInitInv == SessionsInit => SessionsInv
<1> SUFFICES ASSUME SessionsInit PROVE SessionsInv
  OBVIOUS
<1>1. 0 \in Instants
  BY SessionsAssumption DEF Instants
<1>2. SessionRows
  BY <1>1, SessionShapes DEF SessionsInit, SessionRows, OneSessionPerUser
<1>3. \A c \in Callers : call[c].step = "none"
  BY SessionShapes DEF SessionsInit
<1>4. CallsCarry
  BY <1>3 DEF SessionsInit, CallsCarry, CallCarries
<1>5. ASSUME NEW k \in Keys
      PROVE  refused[k] + Cardinality(Attempts(k)) <= MaxFailures + Cardinality(Callers) - 1
  <2>1. Attempts(k) = {}
    BY <1>3 DEF Attempts
  <2>2. refused[k] = 0 /\ Cardinality(Attempts(k)) = 0
    BY <2>1, FS_EmptySet DEF SessionsInit
  <2> QED BY <2>2, AttemptsFinite, SessionsAssumption
<1>6. ThrottleRows
  BY <1>5, SessionShapes, SessionsAssumption DEF SessionsInit, ThrottleRows
<1> QED BY <1>2, <1>4, <1>6 DEF SessionsInv

-----------------------------------------------------------------------------
(* A request moves on *)

\* Rows stay rows, their lifetimes stay, and users' interactions are never taken back.
RowsGrow ==
  \A s \in SessionIds : session[s] # NoSession =>
    /\ session'[s] # NoSession /\ session'[s].expires = session[s].expires
    /\ interacted'[s] \in Instants /\ interacted[s] <= interacted'[s]

LEMMA InstantsAreNumbers == Instants \subseteq Int
BY DEF Instants

LEMMA InteractedTyped ==
  ASSUME SessionsInv, NEW s \in SessionIds
  PROVE  interacted[s] \in Instants /\ interacted[s] \in Int
<1>1. interacted[s] \in Instants
  BY DEF SessionsInv, SessionRows
<1> QED BY <1>1, InstantsAreNumbers, Zenon

LEMMA RowsStay == ASSUME SessionsInv, UNCHANGED <<session, interacted>> PROVE RowsGrow
<1>1. \A s \in SessionIds : interacted[s] \in Instants /\ interacted[s] <= interacted[s]
  BY InteractedTyped
<1> QED BY <1>1 DEF RowsGrow

LEMMA CarriesOn ==
  ASSUME SessionsInv, RowsGrow, NEW m, CallCarries(m)
  PROVE  CallCarries(m)'
<1>1. ASSUME m.step = "resolved"
      PROVE  /\ session'[m.session] # NoSession
             /\ m.at < session'[m.session].expires /\ m.at < interacted'[m.session] + IdleTimeout
  <2>1. /\ m.session \in SessionIds /\ session[m.session] # NoSession /\ m.at \in Instants
        /\ m.at < session[m.session].expires /\ m.at < interacted[m.session] + IdleTimeout
    BY <1>1 DEF CallCarries
  <2>2. /\ session'[m.session] # NoSession /\ session'[m.session].expires = session[m.session].expires
        /\ interacted'[m.session] \in Instants /\ interacted[m.session] <= interacted'[m.session]
    BY <2>1 DEF RowsGrow
  <2>3. /\ interacted[m.session] \in Int /\ interacted'[m.session] \in Int /\ m.at \in Int
        /\ IdleTimeout \in Int
    <3>1. IdleTimeout \in Int
      BY SessionsAssumption
    <3>2. interacted'[m.session] \in Int /\ m.at \in Int
      BY <2>1, <2>2, InstantsAreNumbers, Zenon
    <3>3. interacted[m.session] \in Int
      BY <2>1, InteractedTyped
    <3> QED BY <3>1, <3>2, <3>3
  <2>4. m.at < interacted'[m.session] + IdleTimeout
    BY <2>1, <2>2, <2>3
  <2> QED BY <2>1, <2>2, <2>4
<1> QED BY <1>1 DEF CallCarries

LEMMA CallMoves ==
  ASSUME SessionsInv, RowsGrow, NEW c \in Callers, NEW m, call' = [call EXCEPT ![c] = m], CallCarries(m)'
  PROVE  CallsCarry'
<1>1. /\ DOMAIN call' = Callers /\ call'[c] = m
      /\ \A d \in Callers \ {c} : call'[d] = call[d]
  BY DEF SessionsInv, CallsCarry
<1>2. ASSUME NEW d \in Callers PROVE CallCarries(call[d])'
  <2>1. PICK n : n = call'[d]
    OBVIOUS
  <2>2. n = m \/ CallCarries(n)
    BY <1>1, <2>1 DEF SessionsInv, CallsCarry
  <2>3. CallCarries(n)'
    BY <2>2, CarriesOn
  <2> QED BY <2>1, <2>3
<1> QED BY <1>1, <1>2 DEF CallsCarry

\* A request that is not on its way to the directory any more counts no longer.
LEMMA AttemptsShrink ==
  ASSUME SessionsInv, NEW c \in Callers, NEW m, call' = [call EXCEPT ![c] = m], m.step # "directory", NEW k
  PROVE  /\ Cardinality(Attempts(k)') \in Nat
         /\ Cardinality(Attempts(k)') <= Cardinality(Attempts(k))
         /\ c \in Attempts(k) => Cardinality(Attempts(k)') = Cardinality(Attempts(k)) - 1
<1>1. /\ call'[c] = m /\ \A d \in Callers \ {c} : call'[d] = call[d]
  BY DEF SessionsInv, CallsCarry
<1>2. Attempts(k)' = Attempts(k) \ {c}
  BY <1>1 DEF Attempts, OfCall
<1>3. IsFiniteSet(Attempts(k)) /\ Cardinality(Attempts(k)) \in Nat
  BY AttemptsFinite
<1>4. Cardinality(Attempts(k)') = IF c \in Attempts(k) THEN Cardinality(Attempts(k)) - 1
                                  ELSE Cardinality(Attempts(k))
  BY <1>2, <1>3, FS_RemoveElement, Zenon
<1>5. IsFiniteSet(Attempts(k)') /\ Cardinality(Attempts(k)') \in Nat
  <2>1. IsFiniteSet(Attempts(k) \ {c})
    BY <1>3, FS_RemoveElement
  <2> QED BY <1>2, <2>1, FS_CardinalityType
<1> QED BY <1>3, <1>4, <1>5

LEMMA ThrottleStays ==
  ASSUME SessionsInv, NEW c \in Callers, NEW m, call' = [call EXCEPT ![c] = m], m.step # "directory",
         UNCHANGED <<throttle, refused>>
  PROVE  ThrottleRows'
<1>1. ASSUME NEW k \in Keys
      PROVE  refused[k] + Cardinality(Attempts(k)') <= MaxFailures + Cardinality(Callers) - 1
  <2>1. /\ refused[k] + Cardinality(Attempts(k)) <= MaxFailures + Cardinality(Callers) - 1
        /\ refused[k] \in Nat
    BY DEF SessionsInv, ThrottleRows
  <2>2. /\ Cardinality(Attempts(k)') \in Nat /\ Cardinality(Attempts(k)) \in Nat
        /\ Cardinality(Callers) \in Nat /\ Cardinality(Attempts(k)') <= Cardinality(Attempts(k))
    BY AttemptsFinite, AttemptsShrink, Zenon
  <2> QED BY <2>1, <2>2, SessionsAssumption
<1> QED BY <1>1 DEF SessionsInv, ThrottleRows

\* A request moves on, and the rows stay.
LEMMA OnlyTheCallMoves ==
  ASSUME SessionsInv, NEW c \in Callers, NEW m, call' = [call EXCEPT ![c] = m], m.step # "directory",
         CallCarries(m), UNCHANGED <<wall, session, throttle, interacted, refused>>
  PROVE  SessionsInv'
<1>1. SessionRows'
  BY DEF SessionsInv, SessionRows, OneSessionPerUser
<1>2. ThrottleRows'
  BY ThrottleStays, Zenon
<1>3. RowsGrow
  BY RowsStay
<1>4. CallsCarry'
  BY <1>3, CarriesOn, CallMoves, Zenon
<1> QED BY <1>1, <1>2, <1>4 DEF SessionsInv

LEMMA NoCallCarries == CallCarries(NoCall) /\ NoCall.step # "directory"
BY SessionShapes DEF CallCarries

LEMMA DeniedInv == ASSUME SessionsInv, NEW c \in Callers, Denied(c) PROVE SessionsInv'
BY NoCallCarries, OnlyTheCallMoves, Zenon DEF Denied

LEMMA TimePassesInv == ASSUME SessionsInv, TimePasses PROVE SessionsInv'
<1>1. wall' \in Instants
  BY SessionsAssumption DEF TimePasses, SessionsInv, SessionRows, Instants
<1>2. UNCHANGED <<session, throttle, call, interacted, refused>>
  BY DEF TimePasses
<1> QED BY <1>1, <1>2 DEF SessionsInv, SessionRows, OneSessionPerUser, ThrottleRows, CallsCarry,
           CallCarries, Attempts, OfCall

-----------------------------------------------------------------------------
(* The throttle *)

LEMMA ReadRow ==
  ASSUME NEW row, row = Clear \/ row \in ThrottleRow, NEW moment
  PROVE  ReadActive(row, moment) = Clear \/ ReadActive(row, moment) = row
BY DEF ReadActive

LEMMA ClearIsFree == ASSUME NEW moment PROVE ~ BlockedAt(Clear, moment)
BY DEF BlockedAt

LEMMA IncrementedRow ==
  ASSUME NEW row, row = Clear \/ row \in ThrottleRow, NEW moment \in Instants
  PROVE  /\ Incremented(row, moment) \in ThrottleRow
         /\ ReadActive(row, moment) = Clear => Incremented(row, moment).failures = 1
         /\ ReadActive(row, moment) # Clear =>
              \/ Incremented(row, moment).failures = row.failures + 1
              \/ row.failures >= MaxFailures /\ Incremented(row, moment).failures >= MaxFailures
<1>1. PICK read : read = ReadActive(row, moment)
  OBVIOUS
<1>2. PICK new : new = [failures |-> read.failures + 1,
                        since    |-> IF read = Clear THEN moment ELSE read.since,
                        until    |-> IF read.failures + 1 >= MaxFailures THEN moment + BlockDuration ELSE 0]
  BY Zenon
<1>3. Incremented(row, moment) = IF BlockedAt(read, moment) THEN read ELSE new
  BY <1>1, <1>2 DEF Incremented
<1>4. read = Clear \/ read = row
  BY <1>1, ReadRow
<1>5. /\ read.failures \in Nat
      /\ read # Clear => read.since \in Instants /\ read \in ThrottleRow /\ read = row
  BY <1>4, SessionShapes
<1>6. /\ new.failures = read.failures + 1 /\ new.failures \in Nat \ {0} /\ new.since \in Instants
      /\ new.until \in Nat
  BY <1>2, <1>5, SessionsAssumption DEF Instants
<1>7. new \in ThrottleRow
  BY <1>2, <1>6 DEF ThrottleRow
<1>8. CASE BlockedAt(read, moment)
  <2>1. read # Clear /\ read.failures >= MaxFailures
    BY <1>8 DEF BlockedAt
  <2> QED BY <1>1, <1>3, <1>5, <1>8, <2>1
<1>9. CASE ~ BlockedAt(read, moment)
  BY <1>1, <1>3, <1>4, <1>6, <1>7, <1>9, SessionShapes
<1> QED BY <1>8, <1>9

LEMMA RecordFailureInv == ASSUME SessionsInv, NEW c \in Callers, RecordFailure(c) PROVE SessionsInv'
<1>1. /\ call[c] \in DirectoryCall /\ call[c].step = "directory"
      /\ call' = [call EXCEPT ![c] = NoCall] /\ UNCHANGED <<wall, session, interacted>>
  BY DEF RecordFailure, Proceeds, SessionsInv, CallsCarry, CallCarries
<1>2. PICK moment \in Instants : moment = call[c].at
  BY <1>1 DEF DirectoryCall
<1>3. DOMAIN throttle' = Keys /\ DOMAIN refused' = Keys
  BY DEF RecordFailure
<1>4. ASSUME NEW k \in Keys
      PROVE  /\ throttle'[k] = Clear \/ throttle'[k] \in ThrottleRow
             /\ refused'[k] \in Nat
             /\ throttle'[k].failures < MaxFailures => refused'[k] <= throttle'[k].failures
             /\ refused'[k] + Cardinality(Attempts(k)') <= MaxFailures + Cardinality(Callers) - 1
  <2>1. PICK row : row = throttle[k]
    OBVIOUS
  <2>2. /\ row = Clear \/ row \in ThrottleRow
        /\ row.failures \in Nat /\ refused[k] \in Nat
        /\ row.failures < MaxFailures => refused[k] <= row.failures
        /\ refused[k] + Cardinality(Attempts(k)) <= MaxFailures + Cardinality(Callers) - 1
    BY <2>1, SessionShapes DEF SessionsInv, ThrottleRows
  <2>3. /\ Cardinality(Attempts(k)') \in Nat /\ Cardinality(Attempts(k)) \in Nat
        /\ Cardinality(Callers) \in Nat /\ Cardinality(Attempts(k)) <= Cardinality(Callers)
        /\ Cardinality(Attempts(k)') <= Cardinality(Attempts(k))
        /\ c \in Attempts(k) => Cardinality(Attempts(k)') = Cardinality(Attempts(k)) - 1
    BY <1>1, AttemptsFinite, AttemptsShrink, NoCallCarries, Zenon
  <2>4. CASE k \notin OfCall(c)
    <3>1. throttle'[k] = row /\ refused'[k] = refused[k]
      BY <2>1, <2>4 DEF RecordFailure
    <3> QED BY <2>2, <2>3, <3>1, SessionsAssumption
  <2>5. CASE k \in OfCall(c)
    <3>1. c \in Attempts(k)
      BY <1>1, <2>5 DEF Attempts
    <3>2. throttle'[k] = Incremented(row, moment)
      BY <1>2, <2>1, <2>5 DEF RecordFailure
    <3>3. refused'[k] = IF ReadActive(row, moment) = Clear THEN 1 ELSE refused[k] + 1
      BY <1>2, <2>1, <2>5 DEF RecordFailure
    <3>4. throttle'[k] \in ThrottleRow
      BY <2>2, <3>2, IncrementedRow
    <3>5. CASE ReadActive(row, moment) = Clear
      <4>1. throttle'[k].failures = 1 /\ refused'[k] = 1
        BY <2>2, <3>2, <3>3, <3>5, IncrementedRow
      <4> QED BY <2>3, <3>1, <3>4, <4>1, SessionsAssumption
    <3>6. CASE ReadActive(row, moment) # Clear
      <4>1. /\ refused'[k] = refused[k] + 1
            /\ \/ throttle'[k].failures = row.failures + 1
               \/ row.failures >= MaxFailures /\ throttle'[k].failures >= MaxFailures
        BY <2>2, <3>2, <3>3, <3>6, IncrementedRow
      <4>2. throttle'[k].failures \in Nat
        BY <3>4, SessionShapes
      <4> QED BY <2>2, <2>3, <3>1, <3>4, <4>1, <4>2, SessionsAssumption
    <3> QED BY <3>5, <3>6
  <2> QED BY <2>4, <2>5
<1>5. refused' \in [Keys -> Nat]
  BY <1>4 DEF RecordFailure
<1>6. ThrottleRows'
  BY <1>3, <1>4, <1>5 DEF ThrottleRows
<1>7. SessionRows'
  BY <1>1 DEF SessionsInv, SessionRows, OneSessionPerUser
<1>8. RowsGrow
  BY <1>1, RowsStay
<1>9. CallsCarry'
  BY <1>1, <1>8, NoCallCarries, CarriesOn, CallMoves, Zenon
<1> QED BY <1>6, <1>7, <1>9 DEF SessionsInv

LEMMA ResetThrottleInv == ASSUME SessionsInv, NEW c \in Callers, ResetThrottle(c) PROVE SessionsInv'
<1>1. PICK m : m = [call[c] EXCEPT !.step = "authenticated"]
  BY Zenon
<1>2. call[c] \in DirectoryCall
  BY DEF ResetThrottle, Proceeds, SessionsInv, CallsCarry, CallCarries
<1>3. m.step = "authenticated" /\ m.user \in Principals
  BY <1>1, <1>2 DEF DirectoryCall
<1>4. CallCarries(m) /\ m.step # "directory"
  BY <1>3 DEF CallCarries
<1>5. call' = [call EXCEPT ![c] = m] /\ UNCHANGED <<wall, session, interacted>>
  BY <1>1 DEF ResetThrottle, Proceeds
<1>6. ASSUME NEW k \in Keys
      PROVE  /\ throttle'[k] = Clear \/ throttle'[k] \in ThrottleRow
             /\ refused'[k] \in Nat
             /\ throttle'[k].failures < MaxFailures => refused'[k] <= throttle'[k].failures
             /\ refused'[k] + Cardinality(Attempts(k)') <= MaxFailures + Cardinality(Callers) - 1
  <2>1. /\ throttle[k] = Clear \/ throttle[k] \in ThrottleRow
        /\ refused[k] \in Nat
        /\ throttle[k].failures < MaxFailures => refused[k] <= throttle[k].failures
        /\ refused[k] + Cardinality(Attempts(k)) <= MaxFailures + Cardinality(Callers) - 1
    BY DEF SessionsInv, ThrottleRows
  <2>2. /\ Cardinality(Attempts(k)') \in Nat /\ Cardinality(Attempts(k)) \in Nat
        /\ Cardinality(Callers) \in Nat /\ Cardinality(Attempts(k)) <= Cardinality(Callers)
        /\ Cardinality(Attempts(k)') <= Cardinality(Attempts(k))
    BY <1>4, <1>5, AttemptsFinite, AttemptsShrink, Zenon
  <2>3. \/ throttle'[k] = Clear /\ refused'[k] = 0
        \/ throttle'[k] = throttle[k] /\ refused'[k] = refused[k]
    BY DEF ResetThrottle
  <2> QED BY <2>1, <2>2, <2>3, SessionShapes, SessionsAssumption
<1>7. ThrottleRows'
  <2>1. DOMAIN throttle' = Keys /\ refused' \in [Keys -> Nat]
    BY <1>6 DEF ResetThrottle
  <2> QED BY <1>6, <2>1 DEF ThrottleRows
<1>8. SessionRows'
  BY <1>5 DEF SessionsInv, SessionRows, OneSessionPerUser
<1>9. RowsGrow
  BY <1>5, RowsStay
<1>10. CallsCarry'
  BY <1>4, <1>5, <1>9, CarriesOn, CallMoves, Zenon
<1> QED BY <1>7, <1>8, <1>10 DEF SessionsInv

\* A key that blocks nobody has seen fewer rejections than the limit, so that whoever is let
\* through fits in.
LEMMA EvaluateInv ==
  ASSUME SessionsInv, NEW c \in Callers, NEW u \in Principals, NEW p \in Clients, Evaluate(c, u, p)
  PROVE  SessionsInv'
<1>1. PICK read : read = [k \in Keys |-> IF k \in {u, p} THEN ReadActive(throttle[k], wall) ELSE throttle[k]]
  BY Zenon
<1>2. PICK m : m = [step |-> "directory", user |-> u, client |-> p, at |-> wall]
  BY Zenon
<1>3. /\ throttle' = read /\ UNCHANGED <<wall, session, interacted>> /\ call[c] = NoCall
      /\ refused' = [k \in Keys |-> IF read[k] = Clear \/ (k \in {u, p} /\ ~BlockedAt(read[k], wall)
                                                          /\ read[k].failures >= MaxFailures)
                                   THEN 0 ELSE refused[k]]
      /\ call' = IF \E k \in {u, p} : BlockedAt(read[k], wall) THEN call ELSE [call EXCEPT ![c] = m]
  BY <1>1, <1>2 DEF Evaluate
<1>4. m \in DirectoryCall /\ m.step = "directory"
  BY <1>2 DEF DirectoryCall, SessionsInv, SessionRows
<1>5. CallCarries(m)
  BY <1>4 DEF CallCarries
<1>6. \A k \in Keys : read[k] = Clear \/ read[k] = throttle[k]
  BY <1>1, ReadRow DEF SessionsInv, ThrottleRows
<1>7. ASSUME NEW k \in Keys
      PROVE  /\ throttle'[k] = Clear \/ throttle'[k] \in ThrottleRow
             /\ refused'[k] \in Nat
             /\ throttle'[k].failures < MaxFailures => refused'[k] <= throttle'[k].failures
             /\ refused'[k] + Cardinality(Attempts(k)') <= MaxFailures + Cardinality(Callers) - 1
  <2>1. /\ throttle[k] = Clear \/ throttle[k] \in ThrottleRow
        /\ refused[k] \in Nat
        /\ throttle[k].failures < MaxFailures => refused[k] <= throttle[k].failures
        /\ refused[k] + Cardinality(Attempts(k)) <= MaxFailures + Cardinality(Callers) - 1
    BY DEF SessionsInv, ThrottleRows
  <2>2. /\ throttle'[k] = Clear \/ throttle'[k] = throttle[k]
        /\ refused'[k] = 0 \/ (refused'[k] = refused[k] /\ throttle'[k] # Clear)
    BY <1>3, <1>6
  <2>3. refused'[k] \in Nat /\ refused'[k] <= refused[k]
    BY <2>1, <2>2
  <2>4. /\ Cardinality(Attempts(k)) \in Nat /\ Cardinality(Callers) \in Nat
        /\ Cardinality(Attempts(k)) <= Cardinality(Callers)
    BY AttemptsFinite
  <2>5. /\ throttle'[k] = Clear \/ throttle'[k] \in ThrottleRow
        /\ throttle'[k].failures \in Nat
        /\ throttle'[k].failures < MaxFailures => refused'[k] <= throttle'[k].failures
    BY <2>1, <2>2, <2>3, SessionShapes
  <2>6. refused'[k] + Cardinality(Attempts(k)') <= MaxFailures + Cardinality(Callers) - 1
    <3>1. CASE Attempts(k)' = Attempts(k)
      BY <2>1, <2>3, <2>4, <3>1, SessionsAssumption
    <3>2. CASE Attempts(k)' # Attempts(k)
      <4>1. call' # call
        BY <3>2 DEF Attempts, OfCall
      <4>2. call' = [call EXCEPT ![c] = m] /\ ~ BlockedAt(read[u], wall) /\ ~ BlockedAt(read[p], wall)
        BY <1>3, <4>1
      <4>3. call'[c] = m /\ \A d \in Callers \ {c} : call'[d] = call[d]
        BY <4>2 DEF SessionsInv, CallsCarry
      <4>4. k \in {u, p}
        <5>1. ASSUME k \notin {u, p} PROVE Attempts(k)' = Attempts(k)
          <6>1. c \notin Attempts(k)'
            BY <1>2, <4>3, <5>1 DEF Attempts, OfCall
          <6>2. c \notin Attempts(k)
            BY <1>3, NoCallCarries DEF Attempts, NoCall
          <6>3. \A d \in Callers \ {c} : d \in Attempts(k)' <=> d \in Attempts(k)
            BY <4>3 DEF Attempts, OfCall
          <6> QED BY <6>1, <6>2, <6>3 DEF Attempts
        <5> QED BY <3>2, <5>1
      <4>5. refused'[k] = 0 \/ (throttle'[k].failures < MaxFailures)
        BY <1>3, <2>5, <4>2, <4>4, SessionsAssumption
      <4>6. refused'[k] <= MaxFailures - 1
        BY <2>3, <2>5, <4>5, SessionsAssumption
      <4>7. Cardinality(Attempts(k)') \in Nat /\ Cardinality(Attempts(k)') <= Cardinality(Callers)
        <5>1. IsFiniteSet(Callers) /\ Attempts(k)' \subseteq Callers
          BY SessionsAssumption DEF Attempts
        <5>2. IsFiniteSet(Attempts(k)') /\ Cardinality(Attempts(k)') <= Cardinality(Callers)
          BY <5>1, FS_Subset
        <5> QED BY <5>2, FS_CardinalityType
      <4> QED BY <2>3, <2>4, <4>6, <4>7, SessionsAssumption
    <3> QED BY <3>1, <3>2
  <2> QED BY <2>3, <2>5, <2>6
<1>8. ThrottleRows'
  <2>1. DOMAIN throttle' = Keys /\ refused' \in [Keys -> Nat]
    BY <1>1, <1>3, <1>7
  <2> QED BY <1>7, <2>1 DEF ThrottleRows
<1>9. SessionRows'
  BY <1>3 DEF SessionsInv, SessionRows, OneSessionPerUser
<1>10. RowsGrow
  BY <1>3, RowsStay
<1>11. CallsCarry'
  <2>1. CASE call' = call
    <3>1. \A d \in Callers : CallCarries(call[d])
      BY DEF SessionsInv, CallsCarry
    <3>2. \A d \in Callers : CallCarries(call[d])'
      BY <1>3, <2>1, <3>1 DEF CallCarries
    <3> QED BY <2>1, <3>2 DEF CallsCarry, SessionsInv
  <2>2. CASE call' = [call EXCEPT ![c] = m]
    BY <1>5, <1>10, <2>2, CarriesOn, CallMoves, Zenon
  <2> QED BY <1>3, <2>1, <2>2
<1> QED BY <1>8, <1>9, <1>11 DEF SessionsInv

-----------------------------------------------------------------------------
(* The sessions *)

\* One row changes its status or its activity; what is active has been.
LEMMA SessionRowMoves ==
  ASSUME SessionsInv, NEW c \in Callers, call' = [call EXCEPT ![c] = NoCall],
         NEW s \in SessionIds, NEW row \in SessionRow, session' = [session EXCEPT ![s] = row],
         session[s].status = "ACTIVE", row.actor = session[s].actor, row.expires = session[s].expires,
         interacted' \in [SessionIds -> Instants], \A t \in SessionIds : interacted[t] <= interacted'[t],
         row.active <= interacted'[s], UNCHANGED <<wall, throttle, refused>>
  PROVE  SessionsInv'
<1>1. /\ session' \in [SessionIds -> SessionRow \cup {NoSession}] /\ session'[s] = row
      /\ \A t \in SessionIds \ {s} : session'[t] = session[t]
      /\ session[s] # NoSession
  BY SessionShapes DEF SessionsInv, SessionRows
<1>2. OneSessionPerUser'
  BY <1>1 DEF SessionsInv, SessionRows, OneSessionPerUser
<1>3. ASSUME NEW t \in SessionIds, session'[t] # NoSession PROVE session'[t].active <= interacted'[t]
  <2>1. CASE t = s
    BY <1>1, <2>1
  <2>2. CASE t # s
    <3>1. session[t].active <= interacted[t] /\ session[t] \in SessionRow
      BY <1>1, <1>3, <2>2 DEF SessionsInv, SessionRows
    <3>2. session[t].active \in Int /\ interacted[t] \in Int /\ interacted'[t] \in Int
      BY <3>1, SessionShapes, InteractedTyped, InstantsAreNumbers, Zenon
    <3> QED BY <1>1, <2>2, <3>1, <3>2
  <2> QED BY <2>1, <2>2
<1>4. SessionRows'
  BY <1>1, <1>2, <1>3 DEF SessionsInv, SessionRows
<1>5. RowsGrow
  BY <1>1, SessionShapes DEF RowsGrow
<1>6. CallsCarry'
  BY <1>5, NoCallCarries, CarriesOn, CallMoves, Zenon
<1>7. ThrottleRows'
  BY NoCallCarries, ThrottleStays, Zenon
<1> QED BY <1>4, <1>6, <1>7 DEF SessionsInv

\* The row ends.
LEMMA EndsInv ==
  ASSUME SessionsInv, NEW c \in Callers, call' = [call EXCEPT ![c] = NoCall], NEW s \in SessionIds,
         NEW status \in Ended, session[s].status = "ACTIVE", session' = Ends(s, status),
         UNCHANGED <<wall, throttle, interacted, refused>>
  PROVE  SessionsInv'
<1>1. session[s] \in SessionRow
  BY SessionShapes DEF SessionsInv, SessionRows
<1>2. PICK row : row = [session[s] EXCEPT !.status = status]
  BY Zenon
<1>3. /\ row \in SessionRow /\ row.actor = session[s].actor /\ row.expires = session[s].expires
      /\ row.active = session[s].active
  BY <1>1, <1>2 DEF SessionRow
<1>4. session' = [session EXCEPT ![s] = row]
  BY <1>2 DEF Ends, SessionsInv, SessionRows
<1>5. /\ interacted' \in [SessionIds -> Instants] /\ row.active <= interacted'[s]
      /\ \A t \in SessionIds : interacted[t] <= interacted'[t]
  <2>1. interacted \in [SessionIds -> Instants] /\ interacted' = interacted
    BY DEF SessionsInv, SessionRows
  <2>2. session[s].active <= interacted[s]
    BY <1>1, SessionShapes DEF SessionsInv, SessionRows
  <2>3. \A t \in SessionIds : interacted[t] <= interacted[t]
    BY InteractedTyped
  <2> QED BY <1>3, <2>1, <2>2, <2>3
<1> QED BY <1>3, <1>4, <1>5, SessionRowMoves, Zenon

LEMMA ExpireInv == ASSUME SessionsInv, NEW c \in Callers, Expire(c) \/ Logout(c) PROVE SessionsInv'
<1>1. PICK s \in SessionIds : s = call[c].session
  BY DEF Expire, Logout, Proceeds, SessionsInv, CallsCarry, CallCarries
<1>2. CASE session[s].status = "ACTIVE"
  <2>1. session' = Ends(s, "EXPIRED") \/ session' = Ends(s, "REVOKED")
    BY <1>1, <1>2 DEF Expire, Logout
  <2>2. call' = [call EXCEPT ![c] = NoCall] /\ UNCHANGED <<wall, throttle, interacted, refused>>
    BY DEF Expire, Logout, Proceeds
  <2>3. "EXPIRED" \in Ended /\ "REVOKED" \in Ended
    BY DEF Ended
  <2> QED BY <1>2, <2>1, <2>2, <2>3, EndsInv, Zenon
<1>3. CASE session[s].status # "ACTIVE"
  <2>1. /\ call' = [call EXCEPT ![c] = NoCall]
        /\ UNCHANGED <<wall, session, throttle, interacted, refused>>
    BY <1>1, <1>3 DEF Expire, Logout, Proceeds
  <2> QED BY <2>1, NoCallCarries, OnlyTheCallMoves, Zenon
<1> QED BY <1>2, <1>3

LEMMA GrantSessionInv ==
  ASSUME SessionsInv, NEW c \in Callers, NEW recorded, GrantSession(c, recorded)
  PROVE  SessionsInv'
<1>1. PICK s \in SessionIds : s = call[c].session
  BY DEF GrantSession, Proceeds, SessionsInv, CallsCarry, CallCarries
<1>2. call' = [call EXCEPT ![c] = NoCall] /\ UNCHANGED <<wall, throttle, interacted, refused>>
  BY DEF GrantSession, Proceeds
<1>3. CASE recorded \/ session[s].status # "ACTIVE"
  <2>1. session' = session
    BY <1>1, <1>3 DEF GrantSession
  <2> QED BY <1>2, <2>1, NoCallCarries, OnlyTheCallMoves, Zenon
<1>4. CASE ~ (recorded \/ session[s].status # "ACTIVE")
  <2>1. session' = Ends(s, "REVOKED") /\ "REVOKED" \in Ended
    BY <1>1, <1>4 DEF GrantSession, Ended
  <2> QED BY <1>2, <1>4, <2>1, EndsInv, Zenon
<1> QED BY <1>3, <1>4

LEMMA AcceptInv == ASSUME SessionsInv, NEW c \in Callers, Accept(c) PROVE SessionsInv'
<1>1. PICK s, moment : s = call[c].session /\ moment = call[c].at
  OBVIOUS
<1>2. s \in SessionIds /\ session[s] # NoSession /\ moment \in Instants
  BY <1>1 DEF Accept, Proceeds, SessionsInv, CallsCarry, CallCarries
<1>3. call' = [call EXCEPT ![c] = NoCall] /\ UNCHANGED <<wall, throttle, refused>>
  BY DEF Accept, Proceeds
<1>4. CASE call[c].activity # "USER_INTERACTION"
  <2>1. UNCHANGED <<session, interacted>>
    BY <1>4 DEF Accept
  <2> QED BY <1>3, <2>1, NoCallCarries, OnlyTheCallMoves, Zenon
<1>5. CASE call[c].activity = "USER_INTERACTION"
  <2>1. /\ interacted' = [interacted EXCEPT ![s] = Later(interacted[s], moment)]
        /\ session' = IF session[s].status = "ACTIVE"
                      THEN [session EXCEPT ![s].active = moment] ELSE session
    BY <1>1, <1>5 DEF Accept
  <2>2. interacted \in [SessionIds -> Instants] /\ Instants \subseteq Int
    BY DEF SessionsInv, SessionRows, Instants
  <2>3. /\ Later(interacted[s], moment) \in Instants
        /\ moment <= Later(interacted[s], moment) /\ interacted[s] <= Later(interacted[s], moment)
    <3>1. interacted[s] \in Instants /\ interacted[s] \in Int /\ moment \in Instants /\ moment \in Int
      BY <1>2, InteractedTyped, InstantsAreNumbers
    <3> QED BY <3>1 DEF Later
  <2>4. /\ interacted' \in [SessionIds -> Instants] /\ moment <= interacted'[s]
        /\ \A t \in SessionIds : interacted[t] <= interacted'[t]
    BY <1>2, <2>1, <2>2, <2>3
  <2>5. CASE session[s].status = "ACTIVE"
    <3>1. session[s] \in SessionRow
      BY <1>2 DEF SessionsInv, SessionRows
    <3>2. PICK row : row = [session[s] EXCEPT !.active = moment]
      BY Zenon
    <3>3. /\ row \in SessionRow /\ row.actor = session[s].actor /\ row.expires = session[s].expires
          /\ row.active = moment
      BY <1>2, <3>1, <3>2 DEF SessionRow, Instants
    <3>4. session' = [session EXCEPT ![s] = row]
      BY <2>1, <2>5, <3>2 DEF SessionsInv, SessionRows
    <3> QED BY <1>2, <1>3, <2>4, <2>5, <3>3, <3>4, SessionRowMoves, Zenon
  <2>6. CASE session[s].status # "ACTIVE"
    <3>1. session' = session
      BY <2>1, <2>6
    <3>2. ASSUME NEW t \in SessionIds, session[t] # NoSession PROVE session[t].active <= interacted'[t]
      <4>1. session[t].active <= interacted[t] /\ session[t] \in SessionRow
        BY <3>2 DEF SessionsInv, SessionRows
      <4>2. session[t].active \in Int /\ interacted[t] \in Int /\ interacted'[t] \in Int
        BY <2>2, <2>4, <4>1, SessionShapes, Zenon
      <4> QED BY <2>4, <4>1, <4>2
    <3>3. SessionRows'
      BY <1>3, <2>4, <3>1, <3>2 DEF SessionsInv, SessionRows, OneSessionPerUser
    <3>4. RowsGrow
      BY <2>4, <3>1 DEF RowsGrow
    <3>5. CallsCarry'
      BY <1>3, <3>4, NoCallCarries, CarriesOn, CallMoves, Zenon
    <3>6. ThrottleRows'
      BY <1>3, NoCallCarries, ThrottleStays, Zenon
    <3> QED BY <3>3, <3>5, <3>6 DEF SessionsInv
  <2> QED BY <2>5, <2>6
<1> QED BY <1>4, <1>5

LEMMA OpenSessionInv ==
  ASSUME SessionsInv, NEW c \in Callers, NEW s \in SessionIds, OpenSession(c, s)
  PROVE  SessionsInv'
<1>1. PICK u, m : u = call[c].user /\ m = [step |-> "opened", session |-> s]
  BY Zenon
<1>2. PICK row : row = [status |-> "ACTIVE", actor |-> u, expires |-> wall + AbsoluteTimeout, active |-> wall]
  BY Zenon
<1>3. /\ u \in Principals /\ session[s] = NoSession /\ call' = [call EXCEPT ![c] = m]
      /\ interacted' = [interacted EXCEPT ![s] = wall] /\ UNCHANGED <<wall, throttle, refused>>
      /\ session' = [t \in SessionIds |->
                       IF t = s THEN row
                       ELSE IF session[t].status = "ACTIVE" /\ session[t].actor = u
                            THEN [session[t] EXCEPT !.status = "REVOKED"]
                       ELSE session[t]]
  BY <1>1, <1>2 DEF OpenSession, ReplaceActive, Proceeds, SessionsInv, CallsCarry, CallCarries
<1>4. wall \in Instants /\ wall \in Nat /\ wall + AbsoluteTimeout \in Nat /\ interacted \in [SessionIds -> Instants]
  BY SessionsAssumption DEF SessionsInv, SessionRows, Instants
<1>5. row \in SessionRow /\ row.active = wall /\ row.actor = u /\ row.status = "ACTIVE"
  BY <1>2, <1>3, <1>4 DEF SessionRow, Instants
<1>6. session'[s] = row /\ interacted'[s] = wall /\ interacted' \in [SessionIds -> Instants]
  BY <1>3, <1>4
<1>7. ASSUME NEW t \in SessionIds \ {s}
      PROVE  /\ interacted'[t] = interacted[t]
             /\ session'[t] \in SessionRow \cup {NoSession}
             /\ session[t] = NoSession <=> session'[t] = NoSession
             /\ session[t] # NoSession =>
                  /\ session'[t].expires = session[t].expires /\ session'[t].active = session[t].active
                  /\ session'[t].actor = session[t].actor
             /\ session'[t].status = "ACTIVE" => session'[t] = session[t] /\ session[t].actor # u
  <2>1. PICK old : old = session[t]
    OBVIOUS
  <2>2. old \in SessionRow \cup {NoSession} /\ interacted'[t] = interacted[t]
    BY <1>3, <2>1 DEF SessionsInv, SessionRows
  <2>3. CASE old.status = "ACTIVE" /\ old.actor = u
    <3>1. old \in SessionRow
      BY <2>2, <2>3, SessionShapes
    <3>2. PICK new : new = [old EXCEPT !.status = "REVOKED"]
      BY Zenon
    <3>3. /\ new \in SessionRow /\ new.status = "REVOKED" /\ new.expires = old.expires
          /\ new.active = old.active /\ new.actor = old.actor
      BY <3>1, <3>2 DEF SessionRow, Ended
    <3>4. session'[t] = new
      BY <1>3, <2>1, <2>3, <3>2
    <3> QED BY <2>1, <2>2, <3>1, <3>3, <3>4, SessionShapes
  <2>4. CASE ~ (old.status = "ACTIVE" /\ old.actor = u)
    <3>1. session'[t] = old
      BY <1>3, <2>1, <2>4
    <3> QED BY <2>1, <2>2, <2>4, <3>1
  <2> QED BY <2>3, <2>4
<1>8. SessionRows'
  <2>1. \A t \in SessionIds : session'[t] \in SessionRow \cup {NoSession}
    BY <1>5, <1>6, <1>7
  <2>2. session' \in [SessionIds -> SessionRow \cup {NoSession}]
    BY <1>3, <2>1
  <2>3. \A t \in SessionIds : session'[t] # NoSession => session'[t].active <= interacted'[t]
    BY <1>4, <1>5, <1>6, <1>7 DEF SessionsInv, SessionRows
  <2>4. OneSessionPerUser'
    BY <1>5, <1>6, <1>7 DEF SessionsInv, SessionRows, OneSessionPerUser
  <2> QED BY <1>3, <1>4, <1>6, <2>2, <2>3, <2>4 DEF SessionRows
<1>9. RowsGrow
  <2>1. Instants \subseteq Int
    BY DEF Instants
  <2> QED BY <1>3, <1>4, <1>6, <1>7, <2>1 DEF RowsGrow
<1>10. m.step = "opened" /\ m.session = s
  BY <1>1
<1>11. CallCarries(m)' /\ m.step # "directory"
  BY <1>10 DEF CallCarries
<1>12. CallsCarry'
  BY <1>3, <1>9, <1>11, CallMoves, Zenon
<1>13. ThrottleRows'
  BY <1>3, <1>11, ThrottleStays, Zenon
<1> QED BY <1>8, <1>12, <1>13 DEF SessionsInv

LEMMA ResolveSessionInv ==
  ASSUME SessionsInv, NEW c \in Callers, NEW s \in SessionIds, NEW activity,
         ResolveSession(c, s, activity)
  PROVE  SessionsInv'
<1>1. PICK m : m = [step |-> IF Timely(s, wall) THEN "resolved" ELSE "late",
                    session |-> s, at |-> wall, activity |-> activity]
  BY Zenon
<1>2. /\ call' = [call EXCEPT ![c] = m] /\ session[s].status = "ACTIVE"
      /\ UNCHANGED <<wall, session, throttle, interacted, refused>>
  BY <1>1 DEF ResolveSession, Enters
<1>3. /\ session[s] \in SessionRow /\ session[s] # NoSession /\ session[s].active <= interacted[s]
      /\ session[s].active \in Int /\ interacted[s] \in Int /\ wall \in Instants /\ wall \in Int
      /\ session[s].expires \in Nat
  BY <1>2, SessionShapes DEF SessionsInv, SessionRows, Instants
<1>4. m.session = s /\ m.at = wall /\ m.step \in {"resolved", "late"} /\ (m.step = "resolved" => Timely(s, wall))
  BY <1>1
<1>5. Timely(s, wall) => wall < session[s].expires /\ wall < interacted[s] + IdleTimeout
  BY <1>3, SessionsAssumption DEF Timely
<1>6. CallCarries(m)
  BY <1>3, <1>4, <1>5 DEF CallCarries
<1> QED BY <1>2, <1>4, <1>6, OnlyTheCallMoves, Zenon

LEMMA LogoutReadInv ==
  ASSUME SessionsInv, NEW c \in Callers, NEW s \in SessionIds, LogoutRead(c, s)
  PROVE  SessionsInv'
<1>1. PICK m : m = [step |-> "logout", session |-> s]
  BY Zenon
<1>2. m.step = "logout" /\ m.session = s
  BY <1>1
<1>3. CallCarries(m) /\ m.step # "directory"
  BY <1>2 DEF CallCarries
<1> QED BY <1>1, <1>3, OnlyTheCallMoves, Zenon DEF LogoutRead, Enters

LEMMA SessionsNextInv == SessionsInv /\ [SessionsNext]_sessionVars => SessionsInv'
<1> SUFFICES ASSUME SessionsInv, [SessionsNext]_sessionVars PROVE SessionsInv'
  OBVIOUS
<1>1. ASSUME UNCHANGED sessionVars PROVE SessionsInv'
  BY <1>1 DEF sessionVars, SessionsInv, SessionRows, OneSessionPerUser, ThrottleRows, CallsCarry,
     CallCarries, Attempts, OfCall
<1>2. ASSUME NEW c \in Callers, SigningIn(c) PROVE SessionsInv'
  BY <1>2, ResetThrottleInv, DeniedInv, EvaluateInv DEF SigningIn
<1>3. ASSUME NEW c \in Callers, UsingSessions(c) PROVE SessionsInv'
  BY <1>3, ExpireInv, AcceptInv, OpenSessionInv, LogoutReadInv, ResolveSessionInv, GrantSessionInv
     DEF UsingSessions
<1> QED BY <1>1, <1>2, <1>3, TimePassesInv, RecordFailureInv DEF SessionsNext, ThrottlingNext,
           OpeningNext

LEMMA SessionsInvSafe == SessionsInv => SessionsTypeOK /\ OneSessionPerUser /\ AttemptsAreBounded
<1> SUFFICES ASSUME SessionsInv PROVE SessionsTypeOK /\ OneSessionPerUser /\ AttemptsAreBounded
  OBVIOUS
<1>1. SessionsTypeOK
  BY DEF SessionsTypeOK, SessionsInv, SessionRows, ThrottleRows, CallsCarry, CallCarries, Instants,
     ThrottleRow
<1>2. ASSUME NEW k \in Keys PROVE refused[k] <= MaxFailures + Cardinality(Callers) - 1
  <2>1. /\ refused[k] + Cardinality(Attempts(k)) <= MaxFailures + Cardinality(Callers) - 1
        /\ refused[k] \in Nat
    BY DEF SessionsInv, ThrottleRows
  <2> QED BY <2>1, AttemptsFinite, SessionsAssumption
<1> QED BY <1>1, <1>2 DEF SessionsInv, SessionRows, AttemptsAreBounded

LEMMA AcceptedIsTimelyStep ==
  ASSUME SessionsInv, NEW c \in Callers, call[c].step = "resolved", Accept(c)
  PROVE  /\ call[c].at < session[call[c].session].expires
         /\ call[c].at < interacted[call[c].session] + IdleTimeout
BY DEF SessionsInv, CallsCarry, CallCarries

\* Only active rows are written.
LEMMA EndedSessionsStep ==
  ASSUME SessionsInv, [SessionsNext]_sessionVars, NEW s \in SessionIds, session[s].status \in Ended
  PROVE  session'[s] = session[s]
<1>1. session[s].status # "ACTIVE" /\ session[s] # NoSession
  BY SessionShapes DEF Ended
<1>2. session \in [SessionIds -> SessionRow \cup {NoSession}]
  BY DEF SessionsInv, SessionRows
<1>3. ASSUME NEW t, session[t].status = "ACTIVE", NEW row,
             session' = [session EXCEPT ![t] = row]
      PROVE  session'[s] = session[s]
  BY <1>1, <1>2, <1>3
<1>4. ASSUME NEW c \in Callers, Expire(c) \/ Logout(c) \/ \E recorded \in BOOLEAN : GrantSession(c, recorded)
      PROVE  session'[s] = session[s]
  <2>1. \/ session' = session
        \/ /\ session[call[c].session].status = "ACTIVE"
           /\ session' = Ends(call[c].session, "EXPIRED") \/ session' = Ends(call[c].session, "REVOKED")
    BY <1>4 DEF Expire, Logout, GrantSession
  <2> QED BY <1>3, <2>1 DEF Ends
<1>5. ASSUME NEW c \in Callers, Accept(c) PROVE session'[s] = session[s]
  <2>1. \/ session' = session
        \/ /\ session[call[c].session].status = "ACTIVE"
           /\ session' = [session EXCEPT ![call[c].session].active = call[c].at]
    BY <1>5 DEF Accept
  <2> QED BY <1>1, <1>2, <2>1
<1>6. ASSUME NEW c \in Callers, NEW t \in SessionIds, OpenSession(c, t) PROVE session'[s] = session[s]
  <2>1. s # t /\ session' = ReplaceActive(call[c].user, t)
    BY <1>1, <1>6 DEF OpenSession
  <2> QED BY <1>1, <2>1 DEF ReplaceActive
<1>7. ASSUME NEW c \in Callers, SigningIn(c) \/ RecordFailure(c) PROVE session' = session
  BY <1>7, Zenon DEF SigningIn, ResetThrottle, Denied, Evaluate, RecordFailure
<1>8. ASSUME NEW c \in Callers, UsingSessions(c) PROVE session'[s] = session[s]
  <2>1. ASSUME NEW t \in SessionIds, LogoutRead(c, t) \/ \E activity \in Activities : ResolveSession(c, t, activity)
        PROVE  session' = session
    BY <2>1, Zenon DEF LogoutRead, ResolveSession
  <2> QED BY <1>4, <1>5, <1>6, <1>8, <2>1 DEF UsingSessions
<1> QED BY <1>7, <1>8 DEF SessionsNext, ThrottlingNext, OpeningNext, TimePasses, sessionVars

-----------------------------------------------------------------------------
(* Evidence files *)

\* A copy of the row of a file: it names the object of the file, and one that says AVAILABLE
\* names an object that is.
Copies(f, row) ==
  /\ f \in Files /\ Recorded(f) /\ row \in FileRow /\ row.object = fileRow[f].object
  /\ stored[row.object].place # "none"
  /\ row.status = "AVAILABLE" => row.place = "available" /\ stored[row.object].place = "available"

Unnamed(o) == \A f \in Files : Recorded(f) => fileRow[f].object # o

\* What a request carries between its transactions.
RequestHolds(m) ==
  /\ m.step \in {"idle", "store", "delete", "resolve", "download"}
  /\ m.step = "store" => /\ m.file \in Files /\ m.object \in ObjectIds
                         /\ stored[m.object].place = "quarantine" /\ Unnamed(m.object)
  /\ m.step = "delete" => Copies(m.file, m.row)
  /\ m.step = "resolve" => /\ m.file \in Files /\ Recorded(m.file)
                           /\ stored[fileRow[m.file].object].place = "available"
  /\ m.step = "download" => m.row.status = "AVAILABLE" /\ \E f \in Files : Copies(f, m.row)

\* What a background task carries.
ScanHolds(m) ==
  /\ m.step \in {"idle", "begin", "open", "promote", "write"}
  /\ m.step # "idle" => m.file \in Files
  /\ m.step = "open" => m \in [step : {"open"}, file : Files, row : FileRow]
  /\ m.step \in {"open", "promote", "write"} => Copies(m.file, m.row)
  /\ m.step = "promote" => stored[m.row.object].clean

\* Objects are numbered as they are written, and only clean ones become available.
Storage ==
  /\ stored \in [ObjectIds -> Object]
  /\ \E n \in 0..MaxUploads : \A o \in ObjectIds : stored[o].place # "none" <=> o <= n
  /\ \A o \in ObjectIds : stored[o].place = "available" => stored[o].clean

OwnObjects ==
  \A c, d \in EvidenceCallers :
    c # d /\ evidenceCall[c].step = "store" /\ evidenceCall[d].step = "store" =>
      evidenceCall[c].object # evidenceCall[d].object

RequestsHold == DOMAIN evidenceCall = EvidenceCallers /\ \A c \in EvidenceCallers : RequestHolds(evidenceCall[c])
ScansHold == DOMAIN scan = Scanners /\ \A s \in Scanners : ScanHolds(scan[s])

FileRows ==
  /\ fileRow \in [Files -> FileRow \cup {NoFileRow}]
  /\ \A f \in Files : Recorded(f) => Copies(f, fileRow[f])

Resolutions ==
  /\ resolvedWith \subseteq Files
  /\ \A f \in resolvedWith : Recorded(f) /\ stored[fileRow[f].object].place = "available"

EvidenceCounters == issueOpen \in BOOLEAN /\ reopened \in 0..MaxReopenings /\ evidenceCrashes \in 0..MaxEvidenceCrashes

EvidenceInv ==
  EvidenceCounters /\ Storage /\ FileRows /\ Resolutions /\ RequestsHold /\ ScansHold /\ OwnObjects

LEMMA EvidenceShapes ==
  /\ IdleRequest.step = "idle" /\ IdleScan.step = "idle" /\ NoFileRow.status = "ABSENT"
  /\ \A row \in FileRow : row # NoFileRow /\ row.status # "ABSENT" /\ row.object \in ObjectIds
<1>1. IdleRequest.step = "idle" /\ IdleScan.step = "idle" /\ NoFileRow.status = "ABSENT"
  BY DEF IdleRequest, IdleScan, NoFileRow
<1>2. \A row \in FileRow : row.status \in {"PENDING_SCAN", "AVAILABLE", "REJECTED", "SCAN_FAILED"}
                           /\ row.object \in ObjectIds
  BY DEF FileRow, Verdicts
<1> QED BY <1>1, <1>2

LEMMA IdleHolds == RequestHolds(IdleRequest) /\ ScanHolds(IdleScan)
BY EvidenceShapes DEF RequestHolds, ScanHolds

LEMMA EvidenceInitInv == EvidenceInit => EvidenceInv
<1> SUFFICES ASSUME EvidenceInit PROVE EvidenceInv
  OBVIOUS
<1>1. EvidenceCounters
  <2>1. issueOpen \in BOOLEAN
    BY DEF EvidenceInit
  <2>2. reopened \in 0..MaxReopenings /\ evidenceCrashes \in 0..MaxEvidenceCrashes
    BY EvidenceAssumption DEF EvidenceInit
  <2> QED BY <2>1, <2>2 DEF EvidenceCounters
<1>2. Storage
  <2>1. [place |-> "none", clean |-> FALSE] \in Object
    BY DEF Object
  <2>2. /\ stored \in [ObjectIds -> Object]
        /\ \A o \in ObjectIds : stored[o] = [place |-> "none", clean |-> FALSE]
    BY <2>1 DEF EvidenceInit
  <2>3. \A o \in ObjectIds : stored[o].place = "none"
    BY <2>2
  <2>4. 0 \in 0..MaxUploads /\ \A o \in ObjectIds : stored[o].place # "none" <=> o <= 0
    BY <2>3, EvidenceAssumption DEF ObjectIds
  <2> QED BY <2>2, <2>3, <2>4 DEF Storage
<1>3. FileRows
  BY EvidenceShapes DEF EvidenceInit, FileRows, Recorded
<1>4. Resolutions
  BY DEF EvidenceInit, Resolutions
<1>5. RequestsHold /\ ScansHold
  BY IdleHolds DEF EvidenceInit, RequestsHold, ScansHold
<1>6. OwnObjects
  BY EvidenceShapes DEF EvidenceInit, OwnObjects
<1> QED BY <1>1, <1>2, <1>3, <1>4, <1>5, <1>6 DEF EvidenceInv

-----------------------------------------------------------------------------
(* What stands while rows and objects change *)

\* A row keeps its object.
RowsKept ==
  \A f \in Files : Recorded(f) => fileRow'[f] # NoFileRow /\ fileRow'[f].object = fileRow[f].object

\* An object that is there stays as clean as it is, and an available one stays.
ObjectsKept ==
  \A o \in ObjectIds :
    /\ stored[o].place # "none" => stored'[o].place # "none" /\ stored'[o].clean = stored[o].clean
    /\ stored[o].place = "available" => stored'[o].place = "available"

LEMMA RecordedObject ==
  ASSUME EvidenceInv, NEW f \in Files, Recorded(f)
  PROVE  fileRow[f] \in FileRow /\ fileRow[f].object \in ObjectIds
BY EvidenceShapes DEF EvidenceInv, FileRows, Recorded

LEMMA CopiesStand ==
  ASSUME EvidenceInv, RowsKept, ObjectsKept, NEW f, NEW row, Copies(f, row)
  PROVE  Copies(f, row)'
<1>1. f \in Files /\ Recorded(f) /\ row \in FileRow /\ row.object = fileRow[f].object /\ row.object \in ObjectIds
  BY EvidenceShapes DEF Copies
<1>2. fileRow'[f] # NoFileRow /\ row.object = fileRow'[f].object
  BY <1>1 DEF RowsKept
<1>3. /\ stored'[row.object].place # "none"
      /\ row.status = "AVAILABLE" => row.place = "available" /\ stored'[row.object].place = "available"
  BY <1>1 DEF ObjectsKept, Copies
<1> QED BY <1>1, <1>2, <1>3 DEF Copies, Recorded

\* What a store call reserved is still in quarantine, and still nobody's.
Reserved(m) ==
  m.step = "store" => /\ stored'[m.object].place = "quarantine"
                      /\ \A f \in Files : fileRow'[f] # NoFileRow => fileRow'[f].object # m.object

LEMMA RequestStands ==
  ASSUME EvidenceInv, RowsKept, ObjectsKept, NEW m, RequestHolds(m), Reserved(m)
  PROVE  RequestHolds(m)'
<1>1. m.step = "store" => /\ m.file \in Files /\ m.object \in ObjectIds
                          /\ stored'[m.object].place = "quarantine" /\ Unnamed(m.object)'
  BY DEF RequestHolds, Reserved, Unnamed, Recorded
<1>2. m.step = "delete" => Copies(m.file, m.row)'
  BY CopiesStand DEF RequestHolds
<1>3. ASSUME m.step = "resolve"
      PROVE  m.file \in Files /\ Recorded(m.file)' /\ stored'[fileRow'[m.file].object].place = "available"
  <2>1. m.file \in Files /\ Recorded(m.file) /\ stored[fileRow[m.file].object].place = "available"
    BY <1>3 DEF RequestHolds
  <2>2. fileRow[m.file].object \in ObjectIds /\ fileRow'[m.file].object = fileRow[m.file].object
    BY <2>1, RecordedObject DEF RowsKept
  <2> QED BY <2>1, <2>2 DEF RowsKept, ObjectsKept, Recorded
<1>4. ASSUME m.step = "download"
      PROVE  m.row.status = "AVAILABLE" /\ \E f \in Files : Copies(f, m.row)'
  BY <1>4, CopiesStand DEF RequestHolds
<1> QED BY <1>1, <1>2, <1>3, <1>4 DEF RequestHolds

LEMMA ScanStands ==
  ASSUME EvidenceInv, RowsKept, ObjectsKept, NEW m, ScanHolds(m)
  PROVE  ScanHolds(m)'
<1>1. m.step \in {"open", "promote", "write"} => Copies(m.file, m.row)'
  BY CopiesStand DEF ScanHolds
<1>2. ASSUME m.step = "promote" PROVE stored'[m.row.object].clean
  <2>1. m.row.object \in ObjectIds /\ stored[m.row.object].clean /\ stored[m.row.object].place # "none"
    BY <1>2, EvidenceShapes DEF ScanHolds, Copies
  <2> QED BY <2>1 DEF ObjectsKept
<1> QED BY <1>1, <1>2 DEF ScanHolds

\* Requests and scans move on: those that stay where they are stand.
LEMMA RequestsStand ==
  ASSUME EvidenceInv, RowsKept, ObjectsKept, DOMAIN evidenceCall' = EvidenceCallers,
         \A c \in EvidenceCallers :
           \/ RequestHolds(evidenceCall[c])'
           \/ evidenceCall'[c] = evidenceCall[c] /\ Reserved(evidenceCall[c])
  PROVE  RequestsHold'
<1>1. ASSUME NEW c \in EvidenceCallers PROVE RequestHolds(evidenceCall[c])'
  <2>1. CASE evidenceCall'[c] = evidenceCall[c] /\ Reserved(evidenceCall[c])
    <3>1. PICK n : n = evidenceCall'[c]
      OBVIOUS
    <3>2. RequestHolds(n) /\ Reserved(n)
      BY <2>1, <3>1 DEF EvidenceInv, RequestsHold
    <3>3. RequestHolds(n)'
      BY <3>2, RequestStands
    <3> QED BY <3>1, <3>3
  <2>2. CASE RequestHolds(evidenceCall[c])'
    BY <2>2
  <2> QED BY <2>1, <2>2
<1> QED BY <1>1 DEF RequestsHold

\* The same of the scans.
LEMMA ScansStand ==
  ASSUME EvidenceInv, RowsKept, ObjectsKept, DOMAIN scan' = Scanners,
         \A s \in Scanners : ScanHolds(scan[s])' \/ scan'[s] = scan[s] \/ scan'[s] = IdleScan
  PROVE  ScansHold'
<1>1. ASSUME NEW s \in Scanners PROVE ScanHolds(scan[s])'
  <2>1. CASE scan'[s] = scan[s] \/ scan'[s] = IdleScan
    <3>1. PICK n : n = scan'[s]
      OBVIOUS
    <3>2. ScanHolds(n)
      BY <2>1, <3>1, IdleHolds DEF EvidenceInv, ScansHold
    <3>3. ScanHolds(n)'
      BY <3>2, ScanStands
    <3> QED BY <3>1, <3>3
  <2>2. CASE ScanHolds(scan[s])'
    BY <2>2
  <2> QED BY <2>1, <2>2
<1> QED BY <1>1 DEF ScansHold

LEMMA ResolutionsStand ==
  ASSUME EvidenceInv, RowsKept, ObjectsKept, UNCHANGED resolvedWith
  PROVE  Resolutions'
<1>1. ASSUME NEW f \in resolvedWith
      PROVE  f \in Files /\ Recorded(f)' /\ stored'[fileRow'[f].object].place = "available"
  <2>1. f \in Files /\ Recorded(f) /\ stored[fileRow[f].object].place = "available"
    BY DEF EvidenceInv, Resolutions
  <2>2. fileRow[f].object \in ObjectIds /\ fileRow'[f].object = fileRow[f].object
    BY <2>1, RecordedObject DEF RowsKept
  <2> QED BY <2>1, <2>2 DEF RowsKept, ObjectsKept, Recorded
<1> QED BY <1>1 DEF Resolutions

LEMMA CountersStand ==
  ASSUME EvidenceInv, UNCHANGED <<issueOpen, reopened, evidenceCrashes>>
  PROVE  EvidenceCounters'
BY DEF EvidenceInv, EvidenceCounters

LEMMA RowsUnchanged ==
  ASSUME EvidenceInv, UNCHANGED <<fileRow, stored>>
  PROVE  /\ RowsKept /\ ObjectsKept /\ Storage' /\ FileRows'
         /\ \A c \in EvidenceCallers : Reserved(evidenceCall[c])
<1>1. RowsKept /\ ObjectsKept
  BY DEF RowsKept, ObjectsKept, Recorded
<1>2. Storage'
  BY DEF EvidenceInv, Storage
<1>3. FileRows'
  BY DEF EvidenceInv, FileRows, Copies, Recorded
<1>4. \A c \in EvidenceCallers : Reserved(evidenceCall[c])
  BY DEF EvidenceInv, RequestsHold, RequestHolds, Reserved, Unnamed, Recorded
<1> QED BY <1>1, <1>2, <1>3, <1>4

\* A request moves on while the rows and the objects stay.
LEMMA RequestMoves ==
  ASSUME EvidenceInv, NEW c \in EvidenceCallers, NEW m, evidenceCall' = [evidenceCall EXCEPT ![c] = m],
         RequestHolds(m), m.step # "store", UNCHANGED <<fileRow, stored, scan>>,
         Resolutions', EvidenceCounters'
  PROVE  EvidenceInv'
<1>1. /\ DOMAIN evidenceCall' = EvidenceCallers /\ evidenceCall'[c] = m
      /\ \A d \in EvidenceCallers \ {c} : evidenceCall'[d] = evidenceCall[d]
  BY DEF EvidenceInv, RequestsHold
<1>2. RowsKept /\ ObjectsKept /\ Storage' /\ FileRows' /\ \A d \in EvidenceCallers : Reserved(evidenceCall[d])
  BY RowsUnchanged
<1>3. RequestHolds(m)'
  BY <1>2, RequestStands DEF Reserved
<1>4. RequestHolds(evidenceCall[c])'
  BY <1>1, <1>3
<1>5. RequestsHold'
  BY <1>1, <1>2, <1>4, RequestsStand
<1>6. ScansHold'
  BY <1>2, ScansStand DEF EvidenceInv, ScansHold
<1>7. OwnObjects'
  BY <1>1 DEF EvidenceInv, OwnObjects
<1> QED BY <1>2, <1>5, <1>6, <1>7 DEF EvidenceInv

\* So does a scan.
LEMMA ScanMoves ==
  ASSUME EvidenceInv, NEW s \in Scanners, NEW m, scan' = [scan EXCEPT ![s] = m], ScanHolds(m),
         UNCHANGED <<fileRow, stored, evidenceCall, resolvedWith, issueOpen, reopened, evidenceCrashes>>
  PROVE  EvidenceInv'
<1>1. /\ DOMAIN scan' = Scanners /\ scan'[s] = m
      /\ \A t \in Scanners \ {s} : scan'[t] = scan[t]
  BY DEF EvidenceInv, ScansHold
<1>2. RowsKept /\ ObjectsKept /\ Storage' /\ FileRows' /\ \A d \in EvidenceCallers : Reserved(evidenceCall[d])
  BY RowsUnchanged
<1>3. ScanHolds(m)'
  BY <1>2, ScanStands
<1>4. ScanHolds(scan[s])'
  BY <1>1, <1>3
<1>5. ScansHold'
  BY <1>1, <1>2, <1>4, ScansStand
<1>6. RequestsHold'
  BY <1>2, RequestsStand DEF EvidenceInv, RequestsHold
<1>7. OwnObjects'
  BY DEF EvidenceInv, OwnObjects
<1> QED BY <1>2, <1>5, <1>6, <1>7, ResolutionsStand, CountersStand DEF EvidenceInv

-----------------------------------------------------------------------------
(* The actions *)

LEMMA BeginHolds ==
  ASSUME NEW f \in Files
  PROVE  ScanHolds([step |-> "begin", file |-> f])
<1>1. PICK m : m = [step |-> "begin", file |-> f]
  BY Zenon
<1>2. m.step = "begin" /\ m.file = f
  BY <1>1
<1>3. ScanHolds(m)
  BY <1>2 DEF ScanHolds
<1> QED BY <1>1, <1>3

LEMMA UploadAgainInv ==
  ASSUME EvidenceInv, NEW c, NEW f \in Files, UploadAgain(c, f)
  PROVE  EvidenceInv'
BY BeginHolds, ScanMoves, Zenon DEF UploadAgain, AddScan

LEMMA ScanBeginsInv == ASSUME EvidenceInv, NEW s \in Scanners, ScanBegins(s) PROVE EvidenceInv'
<1>1. PICK f, row : f = scan[s].file /\ row = fileRow[f]
  OBVIOUS
<1>2. f \in Files
  BY <1>1 DEF ScanBegins, EvidenceInv, ScansHold, ScanHolds
<1>3. UNCHANGED <<fileRow, stored, evidenceCall, resolvedWith, issueOpen, reopened, evidenceCrashes>>
  BY DEF ScanBegins
<1>4. CASE Present(f) /\ fileRow[f].status = "PENDING_SCAN"
  <2>1. PICK m : m = [step |-> "open", file |-> f, row |-> row]
    BY Zenon
  <2>2. Copies(f, row)
    BY <1>1, <1>2, <1>4 DEF Present, EvidenceInv, FileRows
  <2>3. m.step = "open" /\ m.file = f /\ m.row = row /\ m \in [step : {"open"}, file : Files, row : FileRow]
    BY <1>2, <2>1, <2>2 DEF Copies
  <2>4. ScanHolds(m)
    BY <1>2, <2>2, <2>3 DEF ScanHolds
  <2>5. scan' = [scan EXCEPT ![s] = m]
    BY <1>1, <1>4, <2>1 DEF ScanBegins, Scanned
  <2> QED BY <1>3, <2>4, <2>5, ScanMoves, Zenon
<1>5. CASE ~ (Present(f) /\ fileRow[f].status = "PENDING_SCAN")
  <2>1. scan' = [scan EXCEPT ![s] = IdleScan]
    BY <1>1, <1>5 DEF ScanBegins, ScanEnds, Scanned
  <2> QED BY <1>3, <2>1, IdleHolds, ScanMoves, Zenon
<1> QED BY <1>4, <1>5

LEMMA FileReadsInv ==
  ASSUME EvidenceInv, NEW c \in EvidenceCallers, NEW f \in Files,
         DeleteRead(c, f) \/ ResolveRead(c, f) \/ DownloadRead(c, f)
  PROVE  EvidenceInv'
<1>1. PICK row : row = fileRow[f]
  OBVIOUS
<1>2. Copies(f, row) /\ Recorded(f)
  BY <1>1 DEF DeleteRead, ResolveRead, DownloadRead, Present, EvidenceInv, FileRows
<1>3. ASSUME NEW m, RequestHolds(m), m.step # "store", Asks(c, m),
             UNCHANGED <<fileRow, stored, issueOpen, reopened, resolvedWith, scan, evidenceCrashes>>
      PROVE  EvidenceInv'
  <2>1. RowsKept /\ ObjectsKept
    BY <1>3, RowsUnchanged
  <2>2. Resolutions' /\ EvidenceCounters'
    BY <1>3, <2>1, ResolutionsStand, CountersStand
  <2> QED BY <1>3, <2>2, RequestMoves, Zenon DEF Asks
<1>4. CASE DeleteRead(c, f)
  <2>1. PICK m : m = [step |-> "delete", file |-> f, row |-> row]
    BY Zenon
  <2>2. m.step = "delete" /\ m.file = f /\ m.row = row
    BY <2>1
  <2>3. RequestHolds(m)
    BY <1>2, <2>2 DEF RequestHolds
  <2> QED BY <1>1, <1>3, <1>4, <2>1, <2>2, <2>3 DEF DeleteRead
<1>5. CASE ResolveRead(c, f)
  <2>1. PICK m : m = [step |-> "resolve", file |-> f, version |-> reopened]
    BY Zenon
  <2>2. m.step = "resolve" /\ m.file = f
    BY <2>1
  <2>3. row.status = "AVAILABLE"
    BY <1>1, <1>5 DEF ResolveRead
  <2>4. RequestHolds(m)
    BY <1>1, <1>2, <2>2, <2>3 DEF RequestHolds, Copies
  <2> QED BY <1>3, <1>5, <2>1, <2>2, <2>4 DEF ResolveRead
<1>6. CASE DownloadRead(c, f)
  <2>1. PICK m : m = [step |-> "download", row |-> row]
    BY Zenon
  <2>2. m.step = "download" /\ m.row = row
    BY <2>1
  <2>3. row.status = "AVAILABLE"
    BY <1>1, <1>6 DEF DownloadRead
  <2>4. RequestHolds(m)
    BY <1>2, <2>2, <2>3 DEF RequestHolds
  <2> QED BY <1>1, <1>3, <1>6, <2>1, <2>2, <2>4 DEF DownloadRead
<1> QED BY <1>4, <1>5, <1>6

LEMMA ResolveWriteInv == ASSUME EvidenceInv, NEW c \in EvidenceCallers, ResolveWrite(c) PROVE EvidenceInv'
<1>1. PICK f : f = evidenceCall[c].file
  OBVIOUS
<1>2. f \in Files /\ Recorded(f) /\ stored[fileRow[f].object].place = "available"
  BY <1>1 DEF ResolveWrite, EvidenceInv, RequestsHold, RequestHolds
<1>3. /\ resolvedWith' \in {resolvedWith, resolvedWith \cup {f}} /\ issueOpen' \in {issueOpen, FALSE}
      /\ UNCHANGED <<fileRow, stored, reopened, scan, evidenceCrashes>>
      /\ evidenceCall' = [evidenceCall EXCEPT ![c] = IdleRequest]
  BY <1>1, Zenon DEF ResolveWrite, Answered
<1>4. Resolutions'
  BY <1>2, <1>3 DEF EvidenceInv, Resolutions, Recorded
<1>5. EvidenceCounters'
  <2>1. issueOpen' \in BOOLEAN
    BY <1>3, Zenon DEF EvidenceInv, EvidenceCounters
  <2> QED BY <1>3, <2>1 DEF EvidenceInv, EvidenceCounters
<1> QED BY <1>3, <1>4, <1>5, IdleHolds, EvidenceShapes, RequestMoves, Zenon

LEMMA DownloadSendsInv == ASSUME EvidenceInv, NEW c \in EvidenceCallers, DownloadSends(c) PROVE EvidenceInv'
<1>1. /\ evidenceCall' = [evidenceCall EXCEPT ![c] = IdleRequest]
      /\ UNCHANGED <<fileRow, stored, issueOpen, reopened, resolvedWith, scan, evidenceCrashes>>
  BY DEF DownloadSends, Answered
<1>2. Resolutions' /\ EvidenceCounters'
  BY <1>1, RowsUnchanged, ResolutionsStand, CountersStand
<1> QED BY <1>1, <1>2, IdleHolds, EvidenceShapes, RequestMoves, Zenon

LEMMA ReopenInv == ASSUME EvidenceInv, ReopenIssue PROVE EvidenceInv'
<1>1. UNCHANGED <<fileRow, stored, resolvedWith, evidenceCall, scan, evidenceCrashes>>
  BY DEF ReopenIssue
<1>2. EvidenceCounters'
  <2>1. issueOpen' \in BOOLEAN
    BY DEF ReopenIssue
  <2>2. reopened' \in 0..MaxReopenings
    BY EvidenceAssumption DEF ReopenIssue, EvidenceInv, EvidenceCounters
  <2> QED BY <1>1, <2>1, <2>2 DEF EvidenceInv, EvidenceCounters
<1>3. RowsKept /\ ObjectsKept /\ Storage' /\ FileRows' /\ \A d \in EvidenceCallers : Reserved(evidenceCall[d])
  BY <1>1, RowsUnchanged
<1>4. RequestsHold' /\ ScansHold'
  BY <1>1, <1>3, RequestsStand, ScansStand DEF EvidenceInv, RequestsHold, ScansHold
<1>5. OwnObjects'
  BY <1>1 DEF EvidenceInv, OwnObjects
<1> QED BY <1>1, <1>2, <1>3, <1>4, <1>5, ResolutionsStand DEF EvidenceInv

LEMMA ProcessDiesInv == ASSUME EvidenceInv, EvidenceProcessDies PROVE EvidenceInv'
<1>1. /\ UNCHANGED <<fileRow, stored, issueOpen, reopened, resolvedWith>>
      /\ DOMAIN evidenceCall' = EvidenceCallers /\ DOMAIN scan' = Scanners
      /\ \A c \in EvidenceCallers : evidenceCall'[c] = IdleRequest
      /\ \A s \in Scanners : scan'[s] = IdleScan
  BY DEF EvidenceProcessDies
<1>2. EvidenceCounters'
  <2>1. evidenceCrashes' \in 0..MaxEvidenceCrashes
    BY EvidenceAssumption DEF EvidenceProcessDies, EvidenceInv, EvidenceCounters
  <2> QED BY <1>1, <2>1 DEF EvidenceInv, EvidenceCounters
<1>3. RowsKept /\ ObjectsKept /\ Storage' /\ FileRows'
  BY <1>1, RowsUnchanged
<1>4. ScansHold'
  BY <1>1, <1>3, ScansStand
<1>5. ASSUME NEW c \in EvidenceCallers PROVE RequestHolds(evidenceCall[c])'
  <2>1. PICK n : n = evidenceCall'[c]
    OBVIOUS
  <2>2. n.step = "idle"
    BY <1>1, <2>1, EvidenceShapes
  <2>3. RequestHolds(n)'
    BY <2>2 DEF RequestHolds
  <2> QED BY <2>1, <2>3
<1>6. RequestsHold'
  BY <1>1, <1>5 DEF RequestsHold
<1>7. OwnObjects'
  BY <1>1, EvidenceShapes DEF OwnObjects
<1> QED BY <1>1, <1>2, <1>3, <1>4, <1>6, <1>7, ResolutionsStand DEF EvidenceInv

\* A copy is written back: the row keeps its object.
LEMMA RowWritten ==
  ASSUME EvidenceInv, NEW f, NEW row, Copies(f, row), fileRow' = [fileRow EXCEPT ![f] = row], UNCHANGED stored
  PROVE  /\ RowsKept /\ ObjectsKept /\ Storage' /\ FileRows'
         /\ \A c \in EvidenceCallers : Reserved(evidenceCall[c])
<1>1. f \in Files /\ Recorded(f) /\ row \in FileRow /\ row # NoFileRow /\ row.object = fileRow[f].object
  BY EvidenceShapes DEF Copies
<1>2. /\ fileRow' \in [Files -> FileRow \cup {NoFileRow}] /\ fileRow'[f] = row
      /\ \A g \in Files \ {f} : fileRow'[g] = fileRow[g]
  BY <1>1 DEF EvidenceInv, FileRows
<1>3. RowsKept
  BY <1>1, <1>2 DEF RowsKept, Recorded
<1>4. ObjectsKept
  BY DEF ObjectsKept
<1>5. Storage'
  BY DEF EvidenceInv, Storage
<1>6. ASSUME NEW g \in Files, Recorded(g)' PROVE Copies(g, fileRow[g])'
  <2>1. PICK new : new = fileRow'[g]
    OBVIOUS
  <2>2. Copies(g, new)
    BY <1>2, <1>6, <2>1 DEF EvidenceInv, FileRows, Recorded
  <2>3. Copies(g, new)'
    BY <1>3, <1>4, <2>2, CopiesStand
  <2> QED BY <2>1, <2>3
<1>7. ASSUME NEW c \in EvidenceCallers PROVE Reserved(evidenceCall[c])
  <2>1. RequestHolds(evidenceCall[c])
    BY DEF EvidenceInv, RequestsHold
  <2>2. \A g \in Files : fileRow'[g] # NoFileRow => Recorded(g) /\ fileRow'[g].object = fileRow[g].object
    BY <1>1, <1>2 DEF Recorded
  <2> QED BY <2>1, <2>2 DEF RequestHolds, Reserved, Unnamed
<1> QED BY <1>2, <1>3, <1>4, <1>5, <1>6, <1>7 DEF FileRows

LEMMA ScanWritesInv == ASSUME EvidenceInv, NEW s \in Scanners, ScanWrites(s) PROVE EvidenceInv'
<1>1. PICK f, row : f = scan[s].file /\ row = scan[s].row
  OBVIOUS
<1>2. Copies(f, row)
  BY <1>1 DEF ScanWrites, EvidenceInv, ScansHold, ScanHolds
<1>3. /\ fileRow' = [fileRow EXCEPT ![f] = row] /\ scan' = [scan EXCEPT ![s] = IdleScan]
      /\ UNCHANGED <<stored, issueOpen, reopened, resolvedWith, evidenceCall, evidenceCrashes>>
  BY <1>1 DEF ScanWrites, ScanEnds, Scanned
<1>4. RowsKept /\ ObjectsKept /\ Storage' /\ FileRows' /\ \A c \in EvidenceCallers : Reserved(evidenceCall[c])
  BY <1>2, <1>3, RowWritten, Zenon
<1>5. RequestsHold'
  BY <1>3, <1>4, RequestsStand DEF EvidenceInv, RequestsHold
<1>6. DOMAIN scan' = Scanners /\ \A t \in Scanners : scan'[t] = scan[t] \/ scan'[t] = IdleScan
  BY <1>3 DEF EvidenceInv, ScansHold
<1>7. ScansHold'
  BY <1>4, <1>6, ScansStand
<1>8. OwnObjects'
  BY <1>3 DEF EvidenceInv, OwnObjects
<1> QED BY <1>3, <1>4, <1>5, <1>7, <1>8, ResolutionsStand, CountersStand DEF EvidenceInv

\* A request has been answered: it holds nothing.
LEMMA RequestAnswered ==
  ASSUME EvidenceInv, RowsKept, ObjectsKept, NEW c \in EvidenceCallers, Answered(c),
         \A d \in EvidenceCallers \ {c} : Reserved(evidenceCall[d])
  PROVE  RequestsHold' /\ OwnObjects'
<1>1. /\ DOMAIN evidenceCall' = EvidenceCallers /\ evidenceCall'[c] = IdleRequest
      /\ \A d \in EvidenceCallers \ {c} : evidenceCall'[d] = evidenceCall[d]
  BY DEF EvidenceInv, RequestsHold, Answered
<1>2. RequestHolds(evidenceCall[c])'
  <2>1. PICK n : n = evidenceCall'[c]
    OBVIOUS
  <2>2. n.step = "idle"
    BY <1>1, <2>1, EvidenceShapes
  <2>3. RequestHolds(n)'
    BY <2>2 DEF RequestHolds
  <2> QED BY <2>1, <2>3
<1>3. RequestsHold'
  BY <1>1, <1>2, RequestsStand
<1>4. OwnObjects'
  BY <1>1, EvidenceShapes DEF EvidenceInv, OwnObjects
<1> QED BY <1>3, <1>4

LEMMA DeleteWriteInv == ASSUME EvidenceInv, NEW c \in EvidenceCallers, DeleteWrite(c) PROVE EvidenceInv'
<1>1. PICK f, old : f = evidenceCall[c].file /\ old = evidenceCall[c].row
  OBVIOUS
<1>2. Copies(f, old)
  BY <1>1 DEF DeleteWrite, EvidenceInv, RequestsHold, RequestHolds
<1>3. PICK row : row = [old EXCEPT !.deleted = TRUE]
  BY Zenon
<1>4. row.object = old.object /\ row.status = old.status /\ row.place = old.place /\ row \in FileRow
  BY <1>2, <1>3, Zenon DEF Copies, FileRow
<1>5. Copies(f, row)
  BY <1>2, <1>4 DEF Copies
<1>6. /\ fileRow' = [fileRow EXCEPT ![f] = row] /\ Answered(c)
      /\ UNCHANGED <<stored, issueOpen, reopened, resolvedWith, scan, evidenceCrashes>>
  BY <1>1, <1>3 DEF DeleteWrite
<1>7. RowsKept /\ ObjectsKept /\ Storage' /\ FileRows' /\ \A d \in EvidenceCallers : Reserved(evidenceCall[d])
  BY <1>5, <1>6, RowWritten, Zenon
<1>8. RequestsHold' /\ OwnObjects'
  BY <1>6, <1>7, RequestAnswered
<1>9. ScansHold'
  BY <1>6, <1>7, ScansStand DEF EvidenceInv, ScansHold
<1> QED BY <1>6, <1>7, <1>8, <1>9, ResolutionsStand, CountersStand DEF EvidenceInv

LEMMA RowsOnObjects ==
  ASSUME EvidenceInv, ObjectsKept, UNCHANGED fileRow
  PROVE  RowsKept /\ FileRows'
<1>1. RowsKept
  BY DEF RowsKept, Recorded
<1>2. ASSUME NEW f \in Files, Recorded(f)' PROVE Copies(f, fileRow[f])'
  <2>1. PICK row : row = fileRow[f]
    OBVIOUS
  <2>2. Copies(f, row)
    BY <1>2, <2>1 DEF EvidenceInv, FileRows, Recorded
  <2>3. Copies(f, row)'
    BY <1>1, <2>2, CopiesStand
  <2> QED BY <2>1, <2>3
<1> QED BY <1>1, <1>2 DEF EvidenceInv, FileRows

\* An object of a row is moved: removed if it is infected, made available if it is clean.
LEMMA ObjectMoved ==
  ASSUME EvidenceInv, NEW f, NEW row, Copies(f, row), NEW place,
         stored' = [stored EXCEPT ![row.object].place = place], UNCHANGED fileRow,
         \/ place = "removed" /\ ~ stored[row.object].clean
         \/ place = "available" /\ stored[row.object].clean
  PROVE  /\ RowsKept /\ ObjectsKept /\ Storage' /\ FileRows'
         /\ stored'[row.object].place = place
         /\ \A c \in EvidenceCallers : Reserved(evidenceCall[c])
<1>1. PICK o : o = row.object
  OBVIOUS
<1>2. o \in ObjectIds /\ f \in Files /\ Recorded(f) /\ o = fileRow[f].object /\ stored[o].place # "none"
  BY <1>1, EvidenceShapes DEF Copies
<1>3. PICK copy : copy = [stored[o] EXCEPT !.place = place]
  BY Zenon
<1>4. stored[o] \in Object
  BY <1>2 DEF EvidenceInv, Storage
<1>5. copy \in Object /\ copy.place = place /\ copy.clean = stored[o].clean
  BY <1>3, <1>4 DEF Object
<1>6. stored' = [stored EXCEPT ![o] = copy]
  BY <1>1, <1>3 DEF EvidenceInv, Storage
<1>7. /\ stored' \in [ObjectIds -> Object] /\ stored'[o] = copy
      /\ \A p \in ObjectIds \ {o} : stored'[p] = stored[p]
  BY <1>2, <1>5, <1>6, Zenon DEF EvidenceInv, Storage
<1>8. stored[o].place = "available" => stored[o].clean
  BY <1>2 DEF EvidenceInv, Storage
<1>9. ObjectsKept
  BY <1>1, <1>2, <1>5, <1>7, <1>8 DEF ObjectsKept
<1>10. Storage'
  <2>1. PICK n \in 0..MaxUploads : \A p \in ObjectIds : stored[p].place # "none" <=> p <= n
    BY DEF EvidenceInv, Storage
  <2>2. \A p \in ObjectIds : stored'[p].place # "none" <=> p <= n
    BY <1>2, <1>5, <1>7, <2>1, Zenon
  <2>3. \A p \in ObjectIds : stored'[p].place = "available" => stored'[p].clean
    BY <1>1, <1>5, <1>7 DEF EvidenceInv, Storage
  <2> QED BY <1>7, <2>1, <2>2, <2>3 DEF Storage
<1>11. ASSUME NEW c \in EvidenceCallers PROVE Reserved(evidenceCall[c])
  <2>1. RequestHolds(evidenceCall[c])
    BY DEF EvidenceInv, RequestsHold
  <2>2. evidenceCall[c].step = "store" => evidenceCall[c].object \in ObjectIds \ {o}
    BY <1>2, <2>1 DEF RequestHolds, Unnamed
  <2> QED BY <1>7, <2>1, <2>2, Zenon DEF RequestHolds, Reserved, Unnamed, Recorded
<1> QED BY <1>1, <1>5, <1>7, <1>9, <1>10, <1>11, RowsOnObjects

\* The object has moved, and the scan that moved it carries on.
LEMMA ScanActs ==
  ASSUME EvidenceInv, NEW s \in Scanners, NEW m, scan' = [scan EXCEPT ![s] = m], ScanHolds(m)',
         RowsKept, ObjectsKept, Storage', FileRows', \A c \in EvidenceCallers : Reserved(evidenceCall[c]),
         UNCHANGED <<issueOpen, reopened, resolvedWith, evidenceCall, evidenceCrashes>>
  PROVE  EvidenceInv'
<1>1. /\ DOMAIN scan' = Scanners /\ scan'[s] = m /\ \A t \in Scanners \ {s} : scan'[t] = scan[t]
  BY DEF EvidenceInv, ScansHold
<1>2. ScanHolds(scan[s])'
  BY <1>1
<1>3. ScansHold'
  BY <1>1, <1>2, ScansStand
<1>4. RequestsHold'
  BY RequestsStand DEF EvidenceInv, RequestsHold
<1>5. OwnObjects'
  BY DEF EvidenceInv, OwnObjects
<1> QED BY <1>3, <1>4, <1>5, ResolutionsStand, CountersStand DEF EvidenceInv

\* The row a scan will write.
LEMMA WriteHolds ==
  ASSUME NEW f, NEW row, Copies(f, row)
  PROVE  ScanHolds([step |-> "write", file |-> f, row |-> row])
<1>1. PICK m : m = [step |-> "write", file |-> f, row |-> row]
  BY Zenon
<1>2. m.step = "write" /\ m.file = f /\ m.row = row /\ f \in Files
  BY <1>1 DEF Copies
<1>3. ScanHolds(m)
  BY <1>2 DEF ScanHolds
<1> QED BY <1>1, <1>3

LEMMA JudgedRow ==
  ASSUME EvidenceInv, NEW f, NEW old, Copies(f, old), NEW status \in {"REJECTED", "SCAN_FAILED"}
  PROVE  Copies(f, [old EXCEPT !.status = status])
<1>1. PICK row : row = [old EXCEPT !.status = status]
  BY Zenon
<1>2. row \in FileRow /\ row.object = old.object /\ row.status = status
  BY <1>1 DEF Copies, FileRow, Verdicts
<1>3. Copies(f, row)
  BY <1>2 DEF Copies
<1> QED BY <1>1, <1>3

LEMMA ScanReadsInv == ASSUME EvidenceInv, NEW s \in Scanners, ScanReads(s) PROVE EvidenceInv'
<1>1. PICK f, old : f = scan[s].file /\ old = scan[s].row
  OBVIOUS
<1>2. Copies(f, old) /\ scan[s] \in [step : {"open"}, file : Files, row : FileRow]
  BY <1>1 DEF ScanReads, EvidenceInv, ScansHold, ScanHolds
<1>3. UNCHANGED <<fileRow, issueOpen, reopened, resolvedWith, evidenceCall, evidenceCrashes>>
  BY DEF ScanReads
<1>4. CASE stored[old.object].clean /\ Scanned(s, [scan[s] EXCEPT !.step = "promote"]) /\ UNCHANGED stored
  <2>1. PICK m : m = [scan[s] EXCEPT !.step = "promote"]
    BY Zenon
  <2>2. m.step = "promote" /\ m.file = f /\ m.row = old
    BY <1>1, <1>2, <2>1
  <2>3. ScanHolds(m)
    BY <1>2, <1>4, <2>2 DEF ScanHolds, Copies
  <2> QED BY <1>3, <1>4, <2>1, <2>3, ScanMoves, Zenon DEF Scanned
<1>5. CASE /\ ~ stored[old.object].clean
           /\ Concludes(s, [old EXCEPT !.status = "REJECTED"]) /\ Removes(old.object)
  <2>1. PICK row : row = [old EXCEPT !.status = "REJECTED"]
    BY Zenon
  <2>2. Copies(f, row)
    BY <1>2, <2>1, JudgedRow, Zenon
  <2>3. /\ RowsKept /\ ObjectsKept /\ Storage' /\ FileRows'
        /\ \A c \in EvidenceCallers : Reserved(evidenceCall[c])
    BY <1>2, <1>3, <1>5, ObjectMoved, Zenon DEF Removes
  <2>4. PICK m : m = [step |-> "write", file |-> f, row |-> row]
    BY Zenon
  <2>5. ScanHolds(m)
    BY <2>2, <2>4, WriteHolds
  <2>6. ScanHolds(m)'
    BY <2>3, <2>5, ScanStands
  <2>7. scan' = [scan EXCEPT ![s] = m]
    BY <1>1, <1>5, <2>1, <2>4 DEF Concludes, Scanned
  <2> QED BY <1>3, <2>3, <2>6, <2>7, ScanActs, Zenon
<1>6. CASE Concludes(s, [old EXCEPT !.status = "SCAN_FAILED"]) /\ UNCHANGED stored
  <2>1. PICK row : row = [old EXCEPT !.status = "SCAN_FAILED"]
    BY Zenon
  <2>2. PICK m : m = [step |-> "write", file |-> f, row |-> row]
    BY Zenon
  <2>3. ScanHolds(m)
    BY <1>2, <2>1, <2>2, JudgedRow, WriteHolds, Zenon
  <2>4. scan' = [scan EXCEPT ![s] = m]
    BY <1>1, <1>6, <2>1, <2>2 DEF Concludes, Scanned
  <2> QED BY <1>3, <1>6, <2>3, <2>4, ScanMoves, Zenon
<1> QED BY <1>1, <1>4, <1>5, <1>6 DEF ScanReads

LEMMA ScanPromotesInv == ASSUME EvidenceInv, NEW s \in Scanners, ScanPromotes(s) PROVE EvidenceInv'
<1>1. PICK f, old : f = scan[s].file /\ old = scan[s].row
  OBVIOUS
<1>2. Copies(f, old) /\ stored[old.object].clean
  BY <1>1 DEF ScanPromotes, EvidenceInv, ScansHold, ScanHolds
<1>3. UNCHANGED <<fileRow, issueOpen, reopened, resolvedWith, evidenceCall, evidenceCrashes>>
  BY DEF ScanPromotes
<1>4. CASE /\ stored' = [stored EXCEPT ![old.object].place = "available"]
           /\ Concludes(s, [old EXCEPT !.status = "AVAILABLE", !.place = "available"])
  <2>1. PICK row : row = [old EXCEPT !.status = "AVAILABLE", !.place = "available"]
    OBVIOUS
  <2>2. row \in FileRow /\ row.object = old.object /\ row.status = "AVAILABLE" /\ row.place = "available"
    BY <1>2, <2>1, Zenon DEF Copies, FileRow, Verdicts
  <2>3. /\ RowsKept /\ ObjectsKept /\ Storage' /\ FileRows'
        /\ stored'[old.object].place = "available"
        /\ \A c \in EvidenceCallers : Reserved(evidenceCall[c])
    BY <1>2, <1>3, <1>4, ObjectMoved, Zenon
  <2>4. Copies(f, row)'
    BY <1>2, <1>3, <2>2, <2>3 DEF Copies, Recorded
  <2>5. PICK m : m = [step |-> "write", file |-> f, row |-> row]
    BY Zenon
  <2>6. m.step = "write" /\ m.file = f /\ m.row = row /\ f \in Files
    BY <1>2, <2>5 DEF Copies
  <2>7. ScanHolds(m)'
    BY <2>4, <2>6 DEF ScanHolds
  <2>8. scan' = [scan EXCEPT ![s] = m]
    BY <1>1, <1>4, <2>1, <2>5 DEF Concludes, Scanned
  <2> QED BY <1>3, <2>3, <2>7, <2>8, ScanActs, Zenon
<1>5. CASE Concludes(s, [old EXCEPT !.status = "SCAN_FAILED"]) /\ UNCHANGED stored
  <2>1. PICK row : row = [old EXCEPT !.status = "SCAN_FAILED"]
    BY Zenon
  <2>2. PICK m : m = [step |-> "write", file |-> f, row |-> row]
    BY Zenon
  <2>3. ScanHolds(m)
    BY <1>2, <2>1, <2>2, JudgedRow, WriteHolds, Zenon
  <2>4. scan' = [scan EXCEPT ![s] = m]
    BY <1>1, <1>5, <2>1, <2>2 DEF Concludes, Scanned
  <2> QED BY <1>3, <1>5, <2>3, <2>4, ScanMoves, Zenon
<1> QED BY <1>1, <1>4, <1>5 DEF ScanPromotes

\* The objects written so far are the first ones.
LEMMA UploadsCounted ==
  ASSUME EvidenceInv
  PROVE  Uploads \in 0..MaxUploads /\ \A o \in ObjectIds : stored[o].place # "none" <=> o <= Uploads
<1>1. PICK n \in 0..MaxUploads : \A o \in ObjectIds : stored[o].place # "none" <=> o <= n
  BY DEF EvidenceInv, Storage
<1>2. MaxUploads \in Nat /\ n \in Nat
  BY <1>1, EvidenceAssumption
<1>3. {o \in ObjectIds : stored[o].place # "none"} = 1..n
  BY <1>1, <1>2 DEF ObjectIds
<1>4. Cardinality(1..n) = n
  BY <1>2, FS_Interval
<1>5. Uploads = n
  BY <1>3, <1>4, Zenon DEF Uploads
<1> QED BY <1>1, <1>5

LEMMA UploadNewInv ==
  ASSUME EvidenceInv, NEW c \in EvidenceCallers, NEW f \in Files, UploadNew(c, f)
  PROVE  EvidenceInv'
<1>1. PICK o, isNew : o = Uploads + 1 /\ isNew = ~ Recorded(f)
  OBVIOUS
<1>2. PICK copy : copy \in Object /\ copy.place = "quarantine" /\ stored' = [stored EXCEPT ![o] = copy]
  <2>1. PICK clean \in BOOLEAN : stored' = [stored EXCEPT ![o] = [place |-> "quarantine", clean |-> clean]]
    BY <1>1, Zenon DEF UploadNew
  <2>2. [place |-> "quarantine", clean |-> clean] \in Object
    BY DEF Object
  <2> QED BY <2>1, <2>2, Zenon
<1>3. /\ o \in ObjectIds /\ o \in Nat /\ stored[o].place = "none"
      /\ \A p \in ObjectIds : stored[p].place # "none" <=> p <= o - 1
  <2>1. Uploads \in 0..MaxUploads /\ Uploads < MaxUploads /\ MaxUploads \in Nat
    BY UploadsCounted, EvidenceAssumption DEF UploadNew
  <2>2. o \in ObjectIds /\ o \in Nat /\ o - 1 = Uploads
    BY <1>1, <2>1 DEF ObjectIds
  <2> QED BY <2>1, <2>2, UploadsCounted
<1>4. /\ stored' \in [ObjectIds -> Object] /\ stored'[o] = copy
      /\ \A p \in ObjectIds \ {o} : stored'[p] = stored[p]
  BY <1>2, <1>3 DEF EvidenceInv, Storage
<1>5. ObjectsKept
  BY <1>3, <1>4 DEF ObjectsKept
<1>6. UNCHANGED <<fileRow, issueOpen, reopened, resolvedWith, scan, evidenceCrashes>>
  BY DEF UploadNew
<1>7. RowsKept /\ FileRows'
  BY <1>5, <1>6, RowsOnObjects
<1>8. Storage'
  <2>1. o \in 0..MaxUploads
    BY <1>3 DEF ObjectIds
  <2>2. \A p \in ObjectIds : stored'[p].place # "none" <=> p <= o
    <3>1. \A p \in ObjectIds : p \in Nat
      BY EvidenceAssumption DEF ObjectIds
    <3> QED BY <1>2, <1>3, <1>4, <3>1
  <2>3. \A p \in ObjectIds : stored'[p].place = "available" => stored'[p].clean
    BY <1>2, <1>4 DEF EvidenceInv, Storage
  <2> QED BY <1>4, <2>1, <2>2, <2>3 DEF Storage
<1>9. PICK m : m = [step |-> "store", file |-> f, object |-> o, isNew |-> isNew]
  BY Zenon
<1>10. m.step = "store" /\ m.file = f /\ m.object = o
  BY <1>9
<1>11. \A g \in Files : Recorded(g) => fileRow[g].object # o
  <2>1. \A g \in Files : Recorded(g) => stored[fileRow[g].object].place # "none"
    BY DEF EvidenceInv, FileRows, Copies
  <2> QED BY <1>3, <2>1
<1>12. RequestHolds(m)'
  BY <1>2, <1>3, <1>4, <1>6, <1>10, <1>11 DEF RequestHolds, Unnamed, Recorded
<1>13. evidenceCall' = [evidenceCall EXCEPT ![c] = m]
  BY <1>1, <1>9 DEF UploadNew, Asks
<1>14. /\ DOMAIN evidenceCall' = EvidenceCallers /\ evidenceCall'[c] = m
       /\ \A d \in EvidenceCallers \ {c} : evidenceCall'[d] = evidenceCall[d]
  BY <1>13 DEF EvidenceInv, RequestsHold
<1>15. ASSUME NEW d \in EvidenceCallers
       PROVE  /\ Reserved(evidenceCall[d])
              /\ evidenceCall[d].step = "store" => evidenceCall[d].object # o
  <2>1. RequestHolds(evidenceCall[d])
    BY DEF EvidenceInv, RequestsHold
  <2>2. evidenceCall[d].step = "store" => evidenceCall[d].object \in ObjectIds \ {o}
    BY <1>3, <2>1 DEF RequestHolds
  <2> QED BY <1>4, <1>6, <2>1, <2>2 DEF RequestHolds, Reserved, Unnamed, Recorded
<1>16. RequestHolds(evidenceCall[c])'
  BY <1>12, <1>14
<1>17. RequestsHold'
  BY <1>5, <1>7, <1>14, <1>15, <1>16, RequestsStand
<1>18. OwnObjects'
  BY <1>10, <1>14, <1>15 DEF EvidenceInv, OwnObjects
<1>19. ScansHold'
  BY <1>5, <1>6, <1>7, ScansStand DEF EvidenceInv, ScansHold
<1> QED BY <1>5, <1>6, <1>7, <1>8, <1>17, <1>18, <1>19, ResolutionsStand, CountersStand
           DEF EvidenceInv

LEMMA AddScanHolds ==
  ASSUME EvidenceInv, RowsKept, ObjectsKept, NEW f \in Files, AddScan(f) \/ UNCHANGED scan
  PROVE  ScansHold'
<1>1. CASE UNCHANGED scan
  BY <1>1, ScansStand DEF EvidenceInv, ScansHold
<1>2. CASE AddScan(f)
  <2>1. PICK m : m = [step |-> "begin", file |-> f]
    BY Zenon
  <2>2. PICK s \in Scanners : scan' = [scan EXCEPT ![s] = m]
    BY <1>2, <2>1, Zenon DEF AddScan
  <2>3. /\ DOMAIN scan' = Scanners /\ scan'[s] = m /\ \A t \in Scanners \ {s} : scan'[t] = scan[t]
    BY <2>2 DEF EvidenceInv, ScansHold
  <2>4. ScanHolds(m)'
    BY <2>1, BeginHolds, ScanStands
  <2>5. ScanHolds(scan[s])'
    BY <2>3, <2>4
  <2> QED BY <2>3, <2>5, ScansStand
<1> QED BY <1>1, <1>2

LEMMA UploadStoredInv == ASSUME EvidenceInv, NEW c \in EvidenceCallers, UploadStored(c) PROVE EvidenceInv'
<1>1. PICK f, o : f = evidenceCall[c].file /\ o = evidenceCall[c].object
  OBVIOUS
<1>2. f \in Files /\ o \in ObjectIds /\ stored[o].place = "quarantine" /\ Unnamed(o)
  BY <1>1 DEF UploadStored, EvidenceInv, RequestsHold, RequestHolds
<1>3. Answered(c) /\ UNCHANGED <<issueOpen, reopened, resolvedWith, evidenceCrashes>>
  BY DEF UploadStored
<1>4. ASSUME NEW d \in EvidenceCallers \ {c}, evidenceCall[d].step = "store"
      PROVE  /\ evidenceCall[d].object \in ObjectIds \ {o}
             /\ stored[evidenceCall[d].object].place = "quarantine" /\ Unnamed(evidenceCall[d].object)
  <2>1. evidenceCall[d].object # o
    BY <1>1, <1>4 DEF UploadStored, EvidenceInv, OwnObjects
  <2>2. RequestHolds(evidenceCall[d])
    BY DEF EvidenceInv, RequestsHold
  <2> QED BY <1>4, <2>1, <2>2 DEF RequestHolds
<1>5. ASSUME RowsKept, ObjectsKept, Storage', FileRows', AddScan(f) \/ UNCHANGED scan,
             \A d \in EvidenceCallers \ {c} : Reserved(evidenceCall[d])
      PROVE  EvidenceInv'
  <2>1. RequestsHold' /\ OwnObjects'
    BY <1>3, <1>5, RequestAnswered
  <2>2. ScansHold'
    BY <1>2, <1>5, AddScanHolds
  <2> QED BY <1>3, <1>5, <2>1, <2>2, ResolutionsStand, CountersStand DEF EvidenceInv
<1>6. CASE /\ ~ Recorded(f) /\ fileRow' = [fileRow EXCEPT ![f] = NewFileRow(o)]
           /\ AddScan(f) /\ UNCHANGED stored
  <2>1. PICK row : row = NewFileRow(o)
    OBVIOUS
  <2>2. row \in FileRow /\ row.object = o /\ row.status = "PENDING_SCAN" /\ row # NoFileRow
    BY <1>2, <2>1 DEF NewFileRow, FileRow, NoFileRow
  <2>3. /\ fileRow' \in [Files -> FileRow \cup {NoFileRow}] /\ fileRow'[f] = row
        /\ \A g \in Files \ {f} : fileRow'[g] = fileRow[g]
    BY <1>2, <1>6, <2>1, <2>2 DEF EvidenceInv, FileRows
  <2>4. RowsKept
    BY <1>6, <2>3 DEF RowsKept, Recorded
  <2>5. ObjectsKept
    BY <1>6 DEF ObjectsKept
  <2>6. Storage'
    BY <1>6 DEF EvidenceInv, Storage
  <2>7. ASSUME NEW g \in Files, Recorded(g)' PROVE Copies(g, fileRow[g])'
    <3>1. PICK new : new = fileRow'[g]
      OBVIOUS
    <3>2. CASE g = f
      <4>1. Copies(f, row)'
        BY <1>2, <1>6, <2>2, <2>3 DEF Copies, Recorded
      <4> QED BY <2>3, <3>2, <4>1
    <3>3. CASE g # f
      <4>1. Copies(g, new)
        BY <2>3, <2>7, <3>1, <3>3 DEF EvidenceInv, FileRows, Recorded
      <4>2. Copies(g, new)'
        BY <2>4, <2>5, <4>1, CopiesStand
      <4> QED BY <3>1, <4>2
    <3> QED BY <3>2, <3>3
  <2>8. FileRows'
    BY <2>3, <2>7 DEF FileRows
  <2>9. \A d \in EvidenceCallers \ {c} : Reserved(evidenceCall[d])
    BY <1>4, <1>6, <2>2, <2>3 DEF Reserved, Unnamed, Recorded
  <2> QED BY <1>5, <1>6, <2>4, <2>5, <2>6, <2>8, <2>9
<1>7. CASE Removes(o) /\ (AddScan(f) \/ UNCHANGED scan) /\ UNCHANGED fileRow
  <2>1. PICK copy : copy = [stored[o] EXCEPT !.place = "removed"]
    BY Zenon
  <2>2. stored[o] \in Object
    BY <1>2 DEF EvidenceInv, Storage
  <2>3. copy \in Object /\ copy.place = "removed" /\ copy.clean = stored[o].clean
    BY <2>1, <2>2 DEF Object
  <2>4. stored' = [stored EXCEPT ![o] = copy]
    BY <1>7, <2>1 DEF Removes, EvidenceInv, Storage
  <2>5. /\ stored' \in [ObjectIds -> Object] /\ stored'[o] = copy
        /\ \A p \in ObjectIds \ {o} : stored'[p] = stored[p]
    BY <1>2, <2>3, <2>4 DEF EvidenceInv, Storage
  <2>6. ObjectsKept
    BY <1>2, <2>3, <2>5 DEF ObjectsKept
  <2>7. RowsKept /\ FileRows'
    BY <1>7, <2>6, RowsOnObjects
  <2>8. Storage'
    <3>1. PICK n \in 0..MaxUploads : \A p \in ObjectIds : stored[p].place # "none" <=> p <= n
      BY DEF EvidenceInv, Storage
    <3>2. \A p \in ObjectIds : stored'[p].place # "none" <=> p <= n
      BY <1>2, <2>3, <2>5, <3>1
    <3>3. \A p \in ObjectIds : stored'[p].place = "available" => stored'[p].clean
      BY <2>3, <2>5 DEF EvidenceInv, Storage
    <3> QED BY <2>5, <3>1, <3>2, <3>3 DEF Storage
  <2>9. \A d \in EvidenceCallers \ {c} : Reserved(evidenceCall[d])
    BY <1>4, <1>7, <2>5 DEF Reserved, Unnamed, Recorded
  <2> QED BY <1>5, <1>7, <2>6, <2>7, <2>8, <2>9
<1> QED BY <1>1, <1>6, <1>7 DEF UploadStored

LEMMA EvidenceNextInv == EvidenceInv /\ [EvidenceNext]_evidenceVars => EvidenceInv'
<1> SUFFICES ASSUME EvidenceInv, [EvidenceNext]_evidenceVars PROVE EvidenceInv'
  OBVIOUS
<1>1. ASSUME UNCHANGED evidenceVars PROVE EvidenceInv'
  <2>1. UNCHANGED <<fileRow, stored, issueOpen, reopened, resolvedWith, evidenceCall, scan, evidenceCrashes>>
    BY <1>1 DEF evidenceVars
  <2>2. RowsKept /\ ObjectsKept /\ Storage' /\ FileRows' /\ \A c \in EvidenceCallers : Reserved(evidenceCall[c])
    BY <2>1, RowsUnchanged
  <2>3. RequestsHold' /\ ScansHold'
    BY <2>1, <2>2, RequestsStand, ScansStand DEF EvidenceInv, RequestsHold, ScansHold
  <2>4. OwnObjects'
    BY <2>1 DEF EvidenceInv, OwnObjects
  <2> QED BY <2>1, <2>2, <2>3, <2>4, ResolutionsStand, CountersStand DEF EvidenceInv
<1>2. ASSUME NEW c \in EvidenceCallers, NEW f \in Files,
             \/ UploadAgain(c, f) \/ UploadNew(c, f) \/ DeleteRead(c, f)
             \/ ResolveRead(c, f) \/ DownloadRead(c, f)
      PROVE  EvidenceInv'
  BY <1>2, UploadAgainInv, UploadNewInv, FileReadsInv
<1>3. ASSUME NEW c \in EvidenceCallers,
             UploadStored(c) \/ DeleteWrite(c) \/ ResolveWrite(c) \/ DownloadSends(c)
      PROVE  EvidenceInv'
  BY <1>3, UploadStoredInv, DeleteWriteInv, ResolveWriteInv, DownloadSendsInv
<1>4. ASSUME NEW s \in Scanners, ScanBegins(s) \/ ScanReads(s) \/ ScanPromotes(s) \/ ScanWrites(s)
      PROVE  EvidenceInv'
  BY <1>4, ScanBeginsInv, ScanReadsInv, ScanPromotesInv, ScanWritesInv
<1> QED BY <1>1, <1>2, <1>3, <1>4, ReopenInv, ProcessDiesInv DEF EvidenceNext

LEMMA EvidenceInvSafe ==
  EvidenceInv => EvidenceTypeOK /\ OnlyCleanFilesAreSent /\ ResolutionsKeepTheirEvidence
<1> SUFFICES ASSUME EvidenceInv PROVE EvidenceTypeOK /\ OnlyCleanFilesAreSent /\ ResolutionsKeepTheirEvidence
  OBVIOUS
<1>1. EvidenceTypeOK
  <2>1. /\ fileRow \in [Files -> FileRow \cup {NoFileRow}] /\ stored \in [ObjectIds -> Object]
        /\ resolvedWith \subseteq Files /\ DOMAIN evidenceCall = EvidenceCallers /\ DOMAIN scan = Scanners
    BY DEF EvidenceInv, FileRows, Storage, Resolutions, RequestsHold, ScansHold
  <2>2. issueOpen \in BOOLEAN /\ reopened \in 0..MaxReopenings /\ evidenceCrashes \in 0..MaxEvidenceCrashes
    BY DEF EvidenceInv, EvidenceCounters
  <2> QED BY <2>1, <2>2 DEF EvidenceTypeOK
<1>2. ASSUME NEW f, NEW row, Copies(f, row), row.status = "AVAILABLE"
      PROVE  At(row) /\ stored[row.object].clean
  <2>1. row.object \in ObjectIds /\ row.place = "available" /\ stored[row.object].place = "available"
    BY <1>2, EvidenceShapes DEF Copies
  <2> QED BY <2>1 DEF At, EvidenceInv, Storage
<1>3. OnlyCleanFilesAreSent
  <2>1. ASSUME NEW f \in Files, fileRow[f].status = "AVAILABLE" PROVE Copies(f, fileRow[f])
    <3>1. Recorded(f)
      BY <2>1, EvidenceShapes DEF Recorded
    <3> QED BY <3>1 DEF EvidenceInv, FileRows
  <2>2. ASSUME NEW c \in EvidenceCallers, evidenceCall[c].step = "download"
        PROVE  evidenceCall[c].row.status = "AVAILABLE" /\ \E f \in Files : Copies(f, evidenceCall[c].row)
    BY <2>2 DEF EvidenceInv, RequestsHold, RequestHolds
  <2> QED BY <1>2, <2>1, <2>2 DEF OnlyCleanFilesAreSent
<1>4. ResolutionsKeepTheirEvidence
  <2>1. ASSUME NEW f \in resolvedWith
        PROVE  /\ Recorded(f) /\ stored[fileRow[f].object].place = "available"
               /\ fileRow[f].object \in ObjectIds
    BY RecordedObject DEF EvidenceInv, Resolutions
  <2> QED BY <2>1 DEF ResolutionsKeepTheirEvidence, EvidenceInv, Storage
<1> QED BY <1>1, <1>3, <1>4

-----------------------------------------------------------------------------
(* Synthetic runs *)

ValidationRow == [output : Outputs, judged : Outputs, status : {"PASS", "BLOCKED"}]
CompletionRow == [output : Outputs, status : {"COMPLETED", "BLOCKED"}]

\* The verdict of the oracle on the records it was given.
Judged(row) == row.status = "PASS" <=> row.judged \in GoodOutputs

\* The end of a run follows its validation.
EndsAsJudged(row, of) ==
  /\ of # NotYet /\ of.output = row.output /\ Size[of.judged] = Size[row.output]
  /\ row.status = "COMPLETED" <=> of.judged \in GoodOutputs

SyntheticCarries(m) ==
  /\ m.step \in {"idle", "request", "validation", "completion"}
  /\ m.step = "request" => m.policy \in Policies
  /\ m.step = "validation" =>
       m.run \in Runs /\ m.row \in ValidationRow /\ Judged(m.row)
  /\ m.step = "completion" =>
       m.run \in Runs /\ m.row \in CompletionRow /\ EndsAsJudged(m.row, validation[m.run])

SyntheticInv ==
  /\ SyntheticTypeOK
  /\ \A r \in Runs : validation[r] # NotYet => Judged(validation[r])
  /\ \A c \in SyntheticCallers : SyntheticCarries(syntheticCall[c])
  /\ CompletionsAreGrounded /\ SyntheticRowsAreAudited

LEMMA SyntheticShapes ==
  /\ NoAction.step = "idle" /\ NotYet.status = "none"
  /\ \A row \in ValidationRow \cup CompletionRow : row # NotYet
<1>1. NoAction.step = "idle" /\ NotYet.status = "none"
  BY DEF NoAction, NotYet
<1>2. \A row \in ValidationRow \cup CompletionRow : row.status \in {"PASS", "COMPLETED", "BLOCKED"}
  BY DEF ValidationRow, CompletionRow
<1> QED BY <1>1, <1>2

LEMMA SyntheticInitInv == SyntheticInit => SyntheticInv
<1> SUFFICES ASSUME SyntheticInit PROVE SyntheticInv
  OBVIOUS
<1>1. SyntheticTypeOK
  BY SyntheticAssumption DEF SyntheticInit, SyntheticTypeOK
<1>2. \A c \in SyntheticCallers : SyntheticCarries(syntheticCall[c])
  BY SyntheticShapes DEF SyntheticInit, SyntheticCarries
<1>3. SyntheticRowsAreAudited
  BY DEF SyntheticInit, SyntheticRowsAreAudited, StoredKinds
<1> QED BY <1>1, <1>2, <1>3 DEF SyntheticInit, SyntheticInv, CompletionsAreGrounded

\* A call moves on while the rows stay.
LEMMA SyntheticCallMoves ==
  ASSUME SyntheticInv, NEW c \in SyntheticCallers, NEW m,
         syntheticCall' = [syntheticCall EXCEPT ![c] = m], SyntheticCarries(m),
         policies' \subseteq Policies, day' \in 0..MaxDay,
         UNCHANGED <<runPolicy, validation, completion, audited>>
  PROVE  SyntheticInv'
<1>1. /\ DOMAIN syntheticCall' = SyntheticCallers /\ syntheticCall'[c] = m
      /\ \A d \in SyntheticCallers \ {c} : syntheticCall'[d] = syntheticCall[d]
  BY DEF SyntheticInv, SyntheticTypeOK
<1>2. ASSUME NEW d \in SyntheticCallers PROVE SyntheticCarries(syntheticCall[d])'
  <2>1. PICK n : n = syntheticCall'[d]
    OBVIOUS
  <2>2. SyntheticCarries(n)
    BY <1>1, <2>1 DEF SyntheticInv
  <2>3. SyntheticCarries(n)'
    BY <2>2 DEF SyntheticCarries, Judged, EndsAsJudged
  <2> QED BY <2>1, <2>3
<1>3. SyntheticTypeOK'
  BY <1>1 DEF SyntheticInv, SyntheticTypeOK
<1> QED BY <1>2, <1>3 DEF SyntheticInv, CompletionsAreGrounded, SyntheticRowsAreAudited, Judged

LEMMA NoActionCarries == SyntheticCarries(NoAction)
BY SyntheticShapes DEF SyntheticCarries

LEMMA ClockAndPolicies == ASSUME SyntheticInv PROVE policies \subseteq Policies /\ day \in 0..MaxDay
BY DEF SyntheticInv, SyntheticTypeOK

LEMMA RequestRunInv == ASSUME SyntheticInv, NEW c \in SyntheticCallers, RequestRun(c) PROVE SyntheticInv'
<1>1. PICK p \in Permissive : Prepares(c, [step |-> "request", policy |-> p])
  BY DEF RequestRun
<1>2. PICK m : m = [step |-> "request", policy |-> p]
  BY Zenon
<1>3. m.step = "request" /\ m.policy = p /\ p \in Policies
  BY <1>2, SyntheticAssumption
<1>4. SyntheticCarries(m)
  BY <1>3 DEF SyntheticCarries
<1> QED BY <1>1, <1>2, <1>4, ClockAndPolicies, SyntheticCallMoves, Zenon DEF RequestRun, Prepares

LEMMA ValidateInv ==
  ASSUME SyntheticInv, NEW c \in SyntheticCallers, NEW r \in Runs, NEW o \in Outputs,
         NEW reference \in Outputs, Validate(c, r, reference, o)
  PROVE  SyntheticInv'
<1>1. PICK row : row = [output |-> reference, judged |-> o,
                        status |-> IF o \in GoodOutputs THEN "PASS" ELSE "BLOCKED"]
  BY Zenon
<1>2. PICK m : m = [step |-> "validation", run |-> r, row |-> row]
  BY Zenon
<1>3. row \in ValidationRow /\ Judged(row)
  BY <1>1 DEF ValidationRow, Judged
<1>4. m.step = "validation" /\ m.run = r /\ m.row = row
  BY <1>2
<1>5. SyntheticCarries(m)
  BY <1>3, <1>4 DEF SyntheticCarries
<1> QED BY <1>1, <1>2, <1>5, ClockAndPolicies, SyntheticCallMoves, Zenon DEF Validate, Prepares

LEMMA FinalizeInv ==
  ASSUME SyntheticInv, NEW c \in SyntheticCallers, NEW r \in Runs, NEW o \in Outputs, Finalize(c, r, o)
  PROVE  SyntheticInv'
<1>1. PICK row : row = [output |-> o, status |-> EndOf(validation[r].status)]
  BY Zenon
<1>2. PICK m : m = [step |-> "completion", run |-> r, row |-> row]
  BY Zenon
<1>3. /\ validation[r] # NotYet /\ validation[r].output = o
      /\ Size[validation[r].judged] = Size[o]
  BY DEF Finalize
<1>4. Judged(validation[r]) /\ validation[r].status \in {"PASS", "BLOCKED"}
  BY <1>3 DEF SyntheticInv, SyntheticTypeOK
<1>5. row \in CompletionRow /\ EndsAsJudged(row, validation[r])
  BY <1>1, <1>3, <1>4 DEF CompletionRow, EndOf, Judged, EndsAsJudged
<1>6. m.step = "completion" /\ m.run = r /\ m.row = row
  BY <1>2
<1>7. SyntheticCarries(m)
  BY <1>5, <1>6 DEF SyntheticCarries
<1> QED BY <1>1, <1>2, <1>7, ClockAndPolicies, SyntheticCallMoves, Zenon DEF Finalize, Prepares

\* The event of a row is staged with it.
LEMMA StagesOne ==
  ASSUME SyntheticInv, NEW r \in Runs, NEW k \in StoredKinds, Stages(r, k)
  PROVE  /\ audited' \in [Runs -> [StoredKinds -> Nat]] /\ audited'[r][k] = audited[r][k] + 1
         /\ \A q \in Runs : \A j \in StoredKinds :
              q # r \/ j # k => audited'[q][j] = audited[q][j]
BY DEF SyntheticInv, SyntheticTypeOK, Stages

\* A call has written its row: what the others carry stands.
LEMMA CallWrites ==
  ASSUME SyntheticInv, NEW c \in SyntheticCallers, SyntheticDone(c), SyntheticTypeOK',
         \A r \in Runs : validation[r] # NotYet => validation'[r] = validation[r],
         \A r \in Runs : validation'[r] # NotYet => Judged(validation'[r]),
         CompletionsAreGrounded', SyntheticRowsAreAudited'
  PROVE  SyntheticInv'
<1>1. /\ syntheticCall'[c] = NoAction
      /\ \A d \in SyntheticCallers \ {c} : syntheticCall'[d] = syntheticCall[d]
  BY DEF SyntheticInv, SyntheticTypeOK, SyntheticDone
<1>2. ASSUME NEW d \in SyntheticCallers PROVE SyntheticCarries(syntheticCall[d])'
  <2>1. PICK n : n = syntheticCall'[d]
    OBVIOUS
  <2>2. SyntheticCarries(n)
    BY <1>1, <2>1, NoActionCarries DEF SyntheticInv
  <2>3. n.step = "completion" => validation'[n.run] = validation[n.run]
    BY <2>2 DEF SyntheticCarries, EndsAsJudged
  <2>4. SyntheticCarries(n)'
    BY <2>2, <2>3 DEF SyntheticCarries, Judged, EndsAsJudged
  <2> QED BY <2>1, <2>4
<1>3. (\A r \in Runs : validation[r] # NotYet => Judged(validation[r]))'
  BY DEF Judged
<1> QED BY <1>2, <1>3 DEF SyntheticInv

LEMMA DoneDomain ==
  ASSUME SyntheticInv, NEW c \in SyntheticCallers, SyntheticDone(c)
  PROVE  DOMAIN syntheticCall' = SyntheticCallers
BY DEF SyntheticInv, SyntheticTypeOK, SyntheticDone

LEMMA RunStoredInv ==
  ASSUME SyntheticInv, NEW c \in SyntheticCallers, NEW r \in Runs, RunStored(c, r)
  PROVE  SyntheticInv'
<1>1. PICK p : p = syntheticCall[c].policy
  OBVIOUS
<1>2. p \in Policies /\ p # "none"
  BY <1>1, SyntheticAssumption DEF RunStored, SyntheticInv, SyntheticCarries
<1>3. /\ runPolicy' = [runPolicy EXCEPT ![r] = p] /\ runPolicy[r] = "none" /\ Stages(r, "request")
      /\ SyntheticDone(c) /\ UNCHANGED <<policies, day, validation, completion>>
  BY <1>1 DEF RunStored
<1>4. /\ runPolicy' \in [Runs -> Policies \cup {"none"}] /\ runPolicy'[r] = p
      /\ \A q \in Runs \ {r} : runPolicy'[q] = runPolicy[q]
  BY <1>2, <1>3 DEF SyntheticInv, SyntheticTypeOK
<1>5. "request" \in StoredKinds /\ "validation" \in StoredKinds /\ "completion" \in StoredKinds
  BY DEF StoredKinds
<1>6. SyntheticTypeOK'
  BY <1>3, <1>4, <1>5, StagesOne, DoneDomain DEF SyntheticInv, SyntheticTypeOK
<1>7. SyntheticRowsAreAudited'
  BY <1>2, <1>3, <1>4, <1>5, StagesOne DEF SyntheticInv, SyntheticRowsAreAudited
<1>8. CompletionsAreGrounded'
  BY <1>3 DEF SyntheticInv, CompletionsAreGrounded
<1>9. \A q \in Runs : validation'[q] # NotYet => Judged(validation'[q])
  BY <1>3 DEF SyntheticInv
<1> QED BY <1>3, <1>6, <1>7, <1>8, <1>9, CallWrites

LEMMA ValidationStoredInv ==
  ASSUME SyntheticInv, NEW c \in SyntheticCallers, ValidationStored(c)
  PROVE  SyntheticInv'
<1>1. PICK r, row : r = syntheticCall[c].run /\ row = syntheticCall[c].row
  OBVIOUS
<1>2. r \in Runs /\ row \in ValidationRow /\ Judged(row)
  BY <1>1 DEF ValidationStored, SyntheticInv, SyntheticCarries
<1>3. SyntheticDone(c) /\ UNCHANGED <<policies, day, runPolicy, completion>>
  BY DEF ValidationStored
<1>4. CASE validation[r] # NotYet
  <2>1. UNCHANGED <<validation, audited>>
    BY <1>1, <1>4 DEF ValidationStored
  <2> QED BY <1>3, <2>1, NoActionCarries, ClockAndPolicies, SyntheticCallMoves, Zenon
             DEF SyntheticDone
<1>5. CASE validation[r] = NotYet
  <2>1. validation' = [validation EXCEPT ![r] = row] /\ Stages(r, "validation")
    BY <1>1, <1>5 DEF ValidationStored
  <2>2. "request" \in StoredKinds /\ "validation" \in StoredKinds /\ "completion" \in StoredKinds
    BY DEF StoredKinds
  <2>3. /\ validation' \in [Runs -> {NotYet} \cup ValidationRow] /\ validation'[r] = row
        /\ \A q \in Runs \ {r} : validation'[q] = validation[q]
    BY <1>2, <2>1 DEF SyntheticInv, SyntheticTypeOK, ValidationRow
  <2>4. SyntheticTypeOK'
    BY <1>2, <1>3, <2>1, <2>2, <2>3, StagesOne, DoneDomain DEF SyntheticInv, SyntheticTypeOK,
       ValidationRow
  <2>5. SyntheticRowsAreAudited'
    BY <1>2, <1>3, <1>5, <2>1, <2>2, <2>3, StagesOne, SyntheticShapes DEF SyntheticInv,
       SyntheticRowsAreAudited
  <2>6. completion[r] = NotYet
    BY <1>2, <1>5 DEF SyntheticInv, CompletionsAreGrounded
  <2>7. CompletionsAreGrounded'
    BY <1>3, <2>3, <2>6 DEF SyntheticInv, CompletionsAreGrounded
  <2>8. \A q \in Runs : validation'[q] # NotYet => Judged(validation'[q])
    BY <1>2, <2>3 DEF SyntheticInv
  <2>9. \A q \in Runs : validation[q] # NotYet => validation'[q] = validation[q]
    BY <1>5, <2>3
  <2> QED BY <1>3, <2>4, <2>5, <2>7, <2>8, <2>9, CallWrites
<1> QED BY <1>4, <1>5

LEMMA CompletionStoredInv ==
  ASSUME SyntheticInv, NEW c \in SyntheticCallers, CompletionStored(c)
  PROVE  SyntheticInv'
<1>1. PICK r, row : r = syntheticCall[c].run /\ row = syntheticCall[c].row
  OBVIOUS
<1>2. r \in Runs /\ row \in CompletionRow /\ EndsAsJudged(row, validation[r])
  BY <1>1 DEF CompletionStored, SyntheticInv, SyntheticCarries
<1>3. SyntheticDone(c) /\ UNCHANGED <<policies, day, runPolicy, validation>>
  BY DEF CompletionStored
<1>4. CASE completion[r] # NotYet
  <2>1. UNCHANGED <<completion, audited>>
    BY <1>1, <1>4 DEF CompletionStored
  <2> QED BY <1>3, <2>1, NoActionCarries, ClockAndPolicies, SyntheticCallMoves, Zenon
             DEF SyntheticDone
<1>5. CASE completion[r] = NotYet
  <2>1. completion' = [completion EXCEPT ![r] = row] /\ Stages(r, "completion")
    BY <1>1, <1>5 DEF CompletionStored
  <2>2. "request" \in StoredKinds /\ "validation" \in StoredKinds /\ "completion" \in StoredKinds
    BY DEF StoredKinds
  <2>3. /\ completion' \in [Runs -> {NotYet} \cup CompletionRow] /\ completion'[r] = row
        /\ \A q \in Runs \ {r} : completion'[q] = completion[q]
    BY <1>2, <2>1 DEF SyntheticInv, SyntheticTypeOK, CompletionRow
  <2>4. SyntheticTypeOK'
    BY <1>2, <1>3, <2>1, <2>2, <2>3, StagesOne, DoneDomain DEF SyntheticInv, SyntheticTypeOK,
       CompletionRow
  <2>5. SyntheticRowsAreAudited'
    BY <1>2, <1>3, <1>5, <2>1, <2>2, <2>3, StagesOne, SyntheticShapes DEF SyntheticInv,
       SyntheticRowsAreAudited
  <2>6. CompletionsAreGrounded'
    BY <1>2, <1>3, <2>3 DEF SyntheticInv, CompletionsAreGrounded, EndsAsJudged
  <2>7. \A q \in Runs : validation'[q] # NotYet => Judged(validation'[q])
    BY <1>3 DEF SyntheticInv
  <2> QED BY <1>3, <2>4, <2>5, <2>6, <2>7, CallWrites
<1> QED BY <1>4, <1>5

LEMMA SyntheticRowsStay ==
  ASSUME SyntheticInv, policies' \subseteq Policies, day' \in 0..MaxDay,
         UNCHANGED <<runPolicy, validation, completion, audited, syntheticCall>>
  PROVE  SyntheticInv'
BY DEF SyntheticInv, SyntheticTypeOK, SyntheticCarries, Judged, EndsAsJudged,
   CompletionsAreGrounded, SyntheticRowsAreAudited

LEMMA SyntheticNextInv == SyntheticInv /\ [SyntheticNext]_syntheticVars => SyntheticInv'
<1> SUFFICES ASSUME SyntheticInv, [SyntheticNext]_syntheticVars PROVE SyntheticInv'
  OBVIOUS
<1>1. ASSUME DayPasses \/ UNCHANGED syntheticVars \/ \E p \in Policies : AddPolicy(p) PROVE SyntheticInv'
  <2>1. policies' \subseteq Policies
    BY <1>1, ClockAndPolicies DEF DayPasses, AddPolicy, syntheticVars
  <2>2. day' \in 0..MaxDay
    BY <1>1, ClockAndPolicies, SyntheticAssumption DEF DayPasses, AddPolicy, syntheticVars
  <2>3. UNCHANGED <<runPolicy, validation, completion, audited, syntheticCall>>
    BY <1>1 DEF DayPasses, AddPolicy, syntheticVars
  <2> QED BY <2>1, <2>2, <2>3, SyntheticRowsStay
<1>2. ASSUME NEW c \in SyntheticCallers, CallerDies(c) PROVE SyntheticInv'
  BY <1>2, NoActionCarries, ClockAndPolicies, SyntheticCallMoves, Zenon DEF CallerDies,
     SyntheticDone
<1> QED BY <1>1, <1>2, RequestRunInv, ValidationStoredInv, CompletionStoredInv, RunStoredInv,
           ValidateInv, FinalizeInv DEF SyntheticNext

LEMMA SyntheticInvSafe ==
  SyntheticInv => SyntheticTypeOK /\ CompletionsAreGrounded /\ SyntheticRowsAreAudited
BY DEF SyntheticInv

-----------------------------------------------------------------------------
(* Each by itself, from every initial state *)

\* A period that has publications has one that is current, however many are made at a time.
THEOREM PublicationsAreSafe ==
  PublicationSpec => [](PublicationTypeOK /\ PeriodKeepsCurrent /\ ScoresAreGrounded)
<1>1. PublicationSpec => []ScoresInv
  BY ScoresInitInv, ScoresNextInv, PTL DEF PublicationSpec
<1> QED BY <1>1, ScoresInvSafe, PTL

\* A user has one session, and rejected credentials are counted however requests overlap.
THEOREM SessionsAreSafe ==
  SessionsSpec => [](SessionsTypeOK /\ OneSessionPerUser /\ AttemptsAreBounded)
<1>1. SessionsSpec => []SessionsInv
  BY SessionsInitInv, SessionsNextInv, PTL DEF SessionsSpec
<1> QED BY <1>1, SessionsInvSafe, PTL

\* Only files that passed their scan are sent, and those a resolution names stay available.
THEOREM FilesAreSafe ==
  EvidenceSpec => [](EvidenceTypeOK /\ OnlyCleanFilesAreSent /\ ResolutionsKeepTheirEvidence)
<1>1. EvidenceSpec => []EvidenceInv
  BY EvidenceInitInv, EvidenceNextInv, PTL DEF EvidenceSpec
<1> QED BY <1>1, EvidenceInvSafe, PTL

\* Runs are completed on the verdict of the oracle, and every row has its audit event.
THEOREM SyntheticIsSafe ==
  SyntheticSpec => [](SyntheticTypeOK /\ CompletionsAreGrounded /\ SyntheticRowsAreAudited)
<1>1. SyntheticSpec => []SyntheticInv
  BY SyntheticInitInv, SyntheticNextInv, PTL DEF SyntheticSpec
<1> QED BY <1>1, SyntheticInvSafe, PTL

-----------------------------------------------------------------------------
(* The parts together *)

ApprovalsInv ==
  /\ IssueInv /\ GovernanceInv /\ RuleInv /\ ScoringInv
  /\ ScoresInv /\ SessionsInv /\ EvidenceInv /\ SyntheticInv

approvalsVars ==
  <<part, issueVars, governanceVars, ruleVars, scoringVars, publicationVars, otherVars>>

\* A step of one part is a step of it, and leaves the others alone.
LEMMA ApprovalsOnePartMoves ==
  [ApprovalsNext]_approvalsVars =>
    /\ [IssueNext]_issueVars /\ [GovernanceNext]_governanceVars
    /\ [RuleNext]_ruleVars /\ [ScoringNext]_scoringVars
    /\ [PublicationNext]_publicationVars /\ [SessionsNext]_sessionVars
    /\ [EvidenceNext]_evidenceVars /\ [SyntheticNext]_syntheticVars
BY DEF ApprovalsNext, approvalsVars, otherVars, SessionsNext

LEMMA ApprovalsInvariant == ApprovalsSpec => []ApprovalsInv
<1>1. ApprovalsInit => ApprovalsInv
  BY IssueInitInv, GovernanceInitInv, RuleInitInv, ScoringInitInv, ScoresInitInv,
     SessionsInitInv, EvidenceInitInv, SyntheticInitInv DEF ApprovalsInit, ApprovalsInv
<1>2. ApprovalsInv /\ [ApprovalsNext]_approvalsVars => ApprovalsInv'
  BY ApprovalsOnePartMoves, IssueNextInv, GovernanceNextInv, RuleNextInv, ScoringNextInv,
     ScoresNextInv, SessionsNextInv, EvidenceNextInv, SyntheticNextInv DEF ApprovalsInv
<1> QED BY <1>1, <1>2, PTL DEF ApprovalsSpec, approvalsVars

\* Every part keeps the types of its variables.
THEOREM ApprovalsTypeCorrect == ApprovalsSpec => []ApprovalsTypeOK
<1>1. ApprovalsInv => ApprovalsTypeOK
  BY IssueInvSafe, GovernanceInvSafe, RuleInvSafe, ScoringInvSafe, ScoresInvSafe,
     SessionsInvSafe, EvidenceInvSafe, SyntheticInvSafe DEF ApprovalsInv, ApprovalsTypeOK
<1> QED BY <1>1, ApprovalsInvariant, PTL

\* No resolution passes, no governed object changes and no critical rule is activated on the
\* word of the user who asked for it.
THEOREM ItTakesTwo == ApprovalsSpec => []TwoPeople
<1>1. ApprovalsInv => TwoPeople
  BY IssueInvSafe, GovernanceInvSafe, RuleInvSafe DEF ApprovalsInv, TwoPeople
<1> QED BY <1>1, ApprovalsInvariant, PTL

\* One verdict for a resolution, one change for a governance request, as many rejected
\* credentials as the limit and the requests under way allow, and one stored run with its
\* audit event.
THEOREM DoneOnce == ApprovalsSpec => []OnceEach
<1>1. ApprovalsInv => OnceEach
  BY IssueInvSafe, GovernanceInvSafe, SessionsInvSafe, SyntheticInvSafe DEF ApprovalsInv, OnceEach
<1> QED BY <1>1, ApprovalsInvariant, PTL

\* One scoring configuration in force, one current publication of a period, one session of a
\* user, whatever commands overlap.
THEOREM InForceIsOne == ApprovalsSpec => []OneInForce
<1>1. ApprovalsInv => OneInForce
  BY ScoringInvSafe, ScoresInvSafe, SessionsInvSafe DEF ApprovalsInv, OneInForce
<1> QED BY <1>1, ApprovalsInvariant, PTL

\* What is official rests on what was found: every published score lies between two
\* measurements of the rules it is about, resolutions and downloads rest on files that passed
\* their scan, and generator runs are completed on what the oracle said of their output.
THEOREM ResultsStayGrounded == ApprovalsSpec => []ResultsAreGrounded
<1>1. ApprovalsInv => ResultsAreGrounded
  BY ScoresInvSafe, EvidenceInvSafe, SyntheticInvSafe DEF ApprovalsInv, ResultsAreGrounded
<1> QED BY <1>1, ApprovalsInvariant, PTL

\* The issue a command changes is the one whose guards it judged, and a request is accepted
\* within the lifetime and the idle timeout of its session.
THEOREM GuardsAreKept == ApprovalsSpec => GuardsHold
<1>1. ApprovalsInv /\ [ApprovalsNext]_approvalsVars =>
        [\A c \in Requests :
           /\ pending[c] # Quiet /\ pending[c].op # "verify"
           /\ pending'[c] = Quiet /\ issue' # issue
           => issue = pending[c].seen]_issueVars
  BY ApprovalsOnePartMoves, GuardsStillHoldStep DEF ApprovalsInv
<1>2. ApprovalsInv /\ [ApprovalsNext]_approvalsVars =>
        [\A c \in Callers : call[c].step = "resolved" /\ Accept(c) =>
           /\ call[c].at < session[call[c].session].expires
           /\ call[c].at < interacted[call[c].session] + IdleTimeout]_sessionVars
  BY ApprovalsOnePartMoves, AcceptedIsTimelyStep DEF ApprovalsInv
<1>3. ApprovalsSpec => GuardsStillHold
  BY <1>1, ApprovalsInvariant, PTL DEF ApprovalsSpec, approvalsVars, GuardsStillHold
<1>4. ApprovalsSpec => AcceptedIsTimely
  BY <1>2, ApprovalsInvariant, PTL DEF ApprovalsSpec, approvalsVars, AcceptedIsTimely
<1> QED BY <1>3, <1>4 DEF GuardsHold

\* A decided request keeps its decision, an approval of a rule activates it in that step, and
\* a session that has ended stays as it ended.
THEOREM DecisionsStayFinal == ApprovalsSpec => DecisionsAreFinal
<1>1. ApprovalsInv /\ [ApprovalsNext]_approvalsVars =>
        [\A r \in Approvals : approval[r] # NoRow /\ approval'[r].status # approval[r].status =>
           \/ /\ approval[r].status = "SUBMITTED"
              /\ approval'[r].status \in Decided
           \/ /\ approval[r].status = "APPROVED"
              /\ approval'[r].status \in {"APPLIED", "APPLICATION_FAILED", "INVALIDATED"}]_governanceVars
  BY ApprovalsOnePartMoves, DecisionsStandStep DEF ApprovalsInv
<1>2. ApprovalsInv /\ [ApprovalsNext]_approvalsVars =>
        [\A r \in RuleRequests : ruleRequest[r] # NoRequest /\ ruleRequest'[r] # ruleRequest[r] =>
           /\ ruleRequest[r].status = "PENDING"
           /\ ruleRequest'[r].status = "APPROVED" => ruleStatus = "DRAFT" /\ ruleStatus' = "ACTIVE"]_ruleVars
  BY ApprovalsOnePartMoves, ApprovalActivatesStep DEF ApprovalsInv
<1>3. ApprovalsInv /\ [ApprovalsNext]_approvalsVars =>
        [\A s \in SessionIds : session[s].status \in Ended => session'[s] = session[s]]_sessionVars
  BY ApprovalsOnePartMoves, EndedSessionsStep DEF ApprovalsInv
<1>4. ApprovalsSpec => DecisionsStand
  BY <1>1, ApprovalsInvariant, PTL DEF ApprovalsSpec, approvalsVars, DecisionsStand
<1>5. ApprovalsSpec => ApprovalActivates
  BY <1>2, ApprovalsInvariant, PTL DEF ApprovalsSpec, approvalsVars, ApprovalActivates
<1>6. ApprovalsSpec => EndedSessionsStayEnded
  BY <1>3, ApprovalsInvariant, PTL DEF ApprovalsSpec, approvalsVars, EndedSessionsStayEnded
<1> QED BY <1>4, <1>5, <1>6 DEF DecisionsAreFinal
===============================================================================
