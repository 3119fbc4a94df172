--------------------------- MODULE MCQueueAndAudit ---------------------------
(***************************************************************************)
(* The two records a business transaction leaves for others to act on: the *)
(* job in background_jobs and the event in audit_outbox.  They share no    *)
(* row and are explored one by one: "part" says which one a behaviour is   *)
(* about, and the other stays in its initial state.                        *)
(*                                                                         *)
(* j1 reads source s1; j2 reads s1 and s2.  Row j1 changes often enough to *)
(* fail, be retried, fail for good and be reprocessed.                     *)
(* Two publishers overlap, with events through the outbox and a direct one.*)
(***************************************************************************)
EXTENDS JobQueue, AuditTrail, TLC

CONSTANTS j1, j2, w1, w2, s1, s2, p1, p2

TwoJobs    == {j1, j2}
TwoWorkers == {w1, w2}
TwoSources == {s1, s2}

PayloadSources == (j1 :> {s1}) @@ (j2 :> {s1, s2})

\* retry_delay_seconds * 2^(attempt - 1), one time unit being the base delay
BackoffDelay == [n \in 1..RetryCount |-> 2 ^ (n - 1)]

SourceQuota == (s1 :> 1) @@ (s2 :> 1)

RowChanges == (j1 :> 5) @@ (j2 :> 2)

TwoPublishers == {p1, p2}
ThreeEvents   == {1, 2, 3}
OneDirect     == {10}

VARIABLE part

RecordsInit == part \in {"queue", "audit"} /\ Init /\ AuditInit

RecordsNext ==
  /\ UNCHANGED part
  /\ \/ part = "queue" /\ Next /\ UNCHANGED auditVars
     \/ part = "audit" /\ AuditNext /\ UNCHANGED vars

RecordsSpec == RecordsInit /\ [][RecordsNext]_<<part, vars, auditVars>> /\ AuditFairness

-----------------------------------------------------------------------------
\* Every variable of the queue and of the audit trail has its type.
RecordsTypeOK == TypeOK /\ AuditTypeOK
=============================================================================
