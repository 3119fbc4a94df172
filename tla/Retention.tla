------------------------------- MODULE Retention -------------------------------
(***************************************************************************)
(* Legal holds, disposal jobs and archive recalls: LegalHoldService,       *)
(* RetentionEvaluator, DisposalJobService and ArchiveRecallService over    *)
(* their SQLite repositories.                                              *)
(*                                                                         *)
(* A command takes the time when its actor is authorised, reads, and       *)
(* writes later in a transaction of its own, under the lock and the        *)
(* connection the repositories share.  The tables only ever grow.          *)
(***************************************************************************)
EXTENDS Naturals

CONSTANTS
  Records,           \* the records that are retained
  Reviewed,          \* those whose policy the bank has approved
  Until,             \* retention_until of a record
  Holds, Disposals,  \* rows: legal holds, and disposal jobs by their idempotency key
  Recalls,           \* archive recall requests
  RetentionCommands, \* the commands under way at a time
  Officers,
  MaxClock           \* bound on the clock

ASSUME RetentionAssumption ==
  /\ Reviewed \subseteq Records /\ Until \in [Records -> Nat]
  /\ MaxClock \in Nat /\ "none" \notin Officers

VARIABLES
  clock,
  hold,      \* legal_hold_events, the two events of a hold in one record; "stored" is when
             \* the hold was committed, which the code does not keep
  disposal,  \* disposal_jobs with disposal_job_results
  recall,    \* archive_recall_requests with archive_recall_decisions
  officer    \* where each command is, and what it has read

retentionVars == <<clock, hold, disposal, recall, officer>>

Unwritten == [state |-> "none"]
AtRest    == [step |-> "none"]

RetentionInit ==
  /\ clock = 0
  /\ hold = [h \in Holds |-> Unwritten]
  /\ disposal = [j \in Disposals |-> Unwritten]
  /\ recall = [q \in Recalls |-> Unwritten]
  /\ officer = [c \in RetentionCommands |-> AtRest]

Passes == clock < MaxClock /\ clock' = clock + 1 /\ UNCHANGED <<hold, disposal, recall, officer>>

\* A command begins with the clock: created_at, prepared_at, recorded_at and as_of.
Takes(c, command) ==
  /\ officer[c] = AtRest
  /\ officer' = [officer EXCEPT ![c] = command]
  /\ UNCHANGED <<clock, hold, disposal, recall>>

Returns(c, step) ==
  /\ officer[c].step = step
  /\ officer' = [officer EXCEPT ![c] = AtRest]
  /\ UNCHANGED clock

-----------------------------------------------------------------------------
(* Legal holds *)

PlaceHold(c, h, u, r) ==
  hold[h] = Unwritten /\ Takes(c, [step |-> "place", of |-> h, by |-> u, record |-> r, at |-> clock])

InsertPlaced(c) ==
  /\ Returns(c, "place")
  /\ LET p == officer[c]
     IN hold' = IF hold[p.of] # Unwritten THEN hold
                ELSE [hold EXCEPT ![p.of] = [state |-> "ACTIVE", record |-> p.record, placedBy |-> p.by,
                                             placedAt |-> p.at, stored |-> clock]]
  /\ UNCHANGED <<disposal, recall>>

ReleaseHold(c, h, u) ==
  /\ hold[h].state = "ACTIVE" /\ hold[h].placedBy # u
  /\ Takes(c, [step |-> "release", of |-> h, by |-> u, at |-> clock])

MayRelease(h) == hold[h].state = "ACTIVE"

InsertReleased(c) ==
  /\ Returns(c, "release")
  /\ LET p == officer[c]  g == hold[p.of]
     IN hold' = IF ~MayRelease(p.of) THEN hold
                ELSE [hold EXCEPT ![p.of] = [state |-> "RELEASED", record |-> g.record,
                        placedBy |-> g.placedBy, placedAt |-> g.placedAt, stored |-> g.stored,
                        releasedBy |-> p.by, releasedAt |-> p.at]]
  /\ UNCHANGED <<disposal, recall>>

\* list_active_holds(record, as_of)
ActiveHolds(r, time) ==
  {h \in Holds : /\ hold[h] # Unwritten /\ hold[h].record = r /\ hold[h].placedAt <= time
                 /\ ~(hold[h].state = "RELEASED" /\ hold[h].releasedAt <= time)}

\* RetentionEvaluator.evaluate
Disposition(r, time) ==
  CASE ActiveHolds(r, time) # {} -> "LEGAL_HOLD"
    [] ActiveHolds(r, time) = {} /\ time < Until[r] -> "RETAIN"
    [] ActiveHolds(r, time) = {} /\ time >= Until[r] /\ r \notin Reviewed -> "COMPLIANCE_REVIEW_REQUIRED"
    [] OTHER -> "ELIGIBLE_FOR_DISPOSAL"

-----------------------------------------------------------------------------
(* Disposal jobs *)

\* prepare_job with a new key; one that is known returns its job or conflicts with it.
PrepareDisposal(c, j, u, r) ==
  /\ disposal[j] = Unwritten
  /\ Takes(c, [step |-> "prepare", of |-> j, by |-> u, record |-> r, at |-> clock])

\* record_result of a job without a result; the recorder is not the one who prepared it.
RecordDisposal(c, j, u, outcome) ==
  /\ disposal[j].state = "PREPARED" /\ disposal[j].preparedBy # u
  /\ Takes(c, [step |-> "record", of |-> j, by |-> u, record |-> disposal[j].record,
               at |-> clock, outcome |-> outcome])

\* Mutant: only the preparation looks at holds and periods.
Evaluated_AtPreparation(command) ==
  command.step = "record" \/ Disposition(command.record, command.at) = "ELIGIBLE_FOR_DISPOSAL"

Evaluated(command) == Disposition(command.record, command.at) = "ELIGIBLE_FOR_DISPOSAL"

\* A command that may go on, to the transaction that writes.
Cleared(command) == [command EXCEPT !.step = IF @ = "prepare" THEN "create" ELSE "result"]

\* The evaluation reads the holds; whoever is refused has written nothing.
EvaluateDisposal(c) ==
  /\ officer[c].step \in {"prepare", "record"}
  /\ officer' = [officer EXCEPT ![c] = IF Evaluated(officer[c]) THEN Cleared(officer[c]) ELSE AtRest]
  /\ UNCHANGED <<clock, hold, disposal, recall>>

CreateDisposal(c) ==
  /\ Returns(c, "create")
  /\ LET p == officer[c]
     IN disposal' = IF disposal[p.of] # Unwritten THEN disposal
                    ELSE [disposal EXCEPT ![p.of] = [state |-> "PREPARED", record |-> p.record,
                                                     preparedBy |-> p.by, preparedAt |-> p.at]]
  /\ UNCHANGED <<hold, recall>>

Recordable(j) == disposal[j].state = "PREPARED"

InsertResult(c) ==
  /\ Returns(c, "result")
  /\ LET p == officer[c]  d == disposal[p.of]
     IN disposal' = IF ~Recordable(p.of) THEN disposal
                    ELSE [disposal EXCEPT ![p.of] = [state |-> p.outcome, record |-> d.record,
                            preparedBy |-> d.preparedBy, preparedAt |-> d.preparedAt,
                            recordedBy |-> p.by, recordedAt |-> p.at]]
  /\ UNCHANGED <<hold, recall>>

-----------------------------------------------------------------------------
(* Archive recalls *)

\* create looks the idempotency key up again, so a request is one step.
RequestRecall(q, u) ==
  /\ recall[q] = Unwritten
  /\ recall' = [recall EXCEPT ![q] = [state |-> "PENDING", requestedBy |-> u, decidedBy |-> "none"]]
  /\ UNCHANGED <<clock, hold, disposal, officer>>

DecideRecall(c, q, u, verdict) ==
  /\ recall[q].state = "PENDING" /\ recall[q].requestedBy # u
  /\ Takes(c, [step |-> "decide", of |-> q, by |-> u, verdict |-> verdict])

InsertDecision(c) ==
  /\ Returns(c, "decide")
  /\ LET p == officer[c]
     IN recall' = IF recall[p.of].state # "PENDING" THEN recall
                  ELSE [recall EXCEPT ![p.of].state = p.verdict, ![p.of].decidedBy = p.by]
  /\ UNCHANGED <<hold, disposal>>

RetentionNext ==
  \/ Passes
  \/ \E q \in Recalls, u \in Officers : RequestRecall(q, u)
  \/ \E c \in RetentionCommands :
       \/ InsertPlaced(c) \/ InsertReleased(c) \/ EvaluateDisposal(c)
       \/ CreateDisposal(c) \/ InsertResult(c) \/ InsertDecision(c)
       \/ \E u \in Officers :
            \/ \E h \in Holds : ReleaseHold(c, h, u) \/ \E r \in Records : PlaceHold(c, h, u, r)
            \/ \E j \in Disposals :
                 \/ \E r \in Records : PrepareDisposal(c, j, u, r)
                 \/ \E outcome \in {"SUCCEEDED", "FAILED_TECHNICAL"} : RecordDisposal(c, j, u, outcome)
            \/ \E q \in Recalls, verdict \in {"APPROVED", "REJECTED"} : DecideRecall(c, q, u, verdict)

RetentionSpec == RetentionInit /\ [][RetentionNext]_retentionVars

-----------------------------------------------------------------------------
(* Properties *)

Terminal == {"SUCCEEDED", "FAILED_TECHNICAL"}

RetentionTypeOK ==
  /\ clock \in 0..MaxClock
  /\ \A h \in Holds : hold[h] = Unwritten \/ (hold[h].state \in {"ACTIVE", "RELEASED"} /\ hold[h].record \in Records)
  /\ \A j \in Disposals :
       disposal[j] = Unwritten \/ (disposal[j].state \in {"PREPARED"} \cup Terminal /\ disposal[j].record \in Records)
  /\ \A q \in Recalls : recall[q] = Unwritten \/ recall[q].state \in {"PENDING", "APPROVED", "REJECTED"}
  /\ \A c \in RetentionCommands :
       officer[c].step \in {"none", "place", "release", "prepare", "record", "create", "result", "decide"}

Stands(h, r, time) ==
  /\ hold[h] # Unwritten /\ hold[h].record = r /\ hold[h].stored < time
  /\ hold[h].state = "RELEASED" => hold[h].releasedAt > time

\* A hold that was stored before a disposal command began stops it, be it the preparation or the
\* record of the result.  (One that is stored while the command runs does not.)
HoldsAreRespected ==
  \A j \in Disposals, h \in Holds : disposal[j] # Unwritten =>
    /\ ~Stands(h, disposal[j].record, disposal[j].preparedAt)
    /\ disposal[j].state \in Terminal => ~Stands(h, disposal[j].record, disposal[j].recordedAt)

\* What takes two people takes two: nobody releases a hold he placed, records the result of
\* a job he prepared, or decides a recall he requested.
TwoOfficers ==
  /\ \A h \in Holds : hold[h].state = "RELEASED" => hold[h].releasedBy # hold[h].placedBy
  /\ \A j \in Disposals : disposal[j].state \in Terminal => disposal[j].recordedBy # disposal[j].preparedBy
  /\ \A q \in Recalls : recall[q].state \in {"APPROVED", "REJECTED"} => recall[q].decidedBy # recall[q].requestedBy

\* The tables are histories: of two commands that close the same hold, job or recall at the
\* same time, one does, and what it wrote is never written over.
RetentionIsFinal ==
  /\ \A h \in Holds : hold[h].state = "RELEASED" => hold'[h] = hold[h]
  /\ \A j \in Disposals : disposal[j].state \in Terminal => disposal'[j] = disposal[j]
  /\ \A q \in Recalls : recall[q].state \in {"APPROVED", "REJECTED"} => recall'[q] = recall[q]
=============================================================================
