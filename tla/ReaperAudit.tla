----------------------------- MODULE ReaperAudit ------------------------------
(***************************************************************************)
(* The audit trail of cancelled jobs: release_expired_claims at the level  *)
(* of its SQL statements, against the transactions that change a job's row *)
(* meanwhile.                                                              *)
(*                                                                         *)
(* The reaper locks the expired CANCEL_REQUESTED rows (SELECT ... FOR      *)
(* UPDATE), then cancels whatever matches the same condition when its      *)
(* UPDATE starts (READ COMMITTED), and stages one audit event for each row *)
(* the SELECT returned.  Every other transaction locks its one row first   *)
(* and is one step; it waits for a row the reaper has locked.              *)
(***************************************************************************)
CONSTANTS Jobs

VARIABLES
  status,   \* the rows' status; a released job is queued, and may be claimed again
  expired,  \* the jobs whose lease ran out before the instant the reaper works with
  reaper,   \* "idle", "locked" after the SELECT, "cancelled" after the first UPDATE
  locked,   \* the rows it locked
  audited   \* the jobs with a JOB_CANCELLED event

vars == <<status, expired, reaper, locked, audited>>

Init ==
  /\ status = [j \in Jobs |-> "QUEUED"]
  /\ expired = {}
  /\ reaper = "idle" /\ locked = {} /\ audited = {}

Free(j) == j \notin locked

Claim(j) ==
  /\ Free(j)
  /\ \/ status[j] = "QUEUED"
     \/ status[j] = "RUNNING" /\ j \in expired
  /\ status' = [status EXCEPT ![j] = "RUNNING"]
  /\ expired' = expired \ {j}
  /\ UNCHANGED <<reaper, locked, audited>>

\* The heartbeats of a claimant stay away for a lease.  The reaper reads its
\* clock before its transaction: what expires later does not count for it.
Expire(j) ==
  /\ reaper = "idle"
  /\ status[j] \in {"RUNNING", "CANCEL_REQUESTED"}
  /\ expired' = expired \cup {j}
  /\ UNCHANGED <<status, reaper, locked, audited>>

\* request_cancel: a queued job is cancelled at once, with its event.
RequestCancel(j) ==
  /\ Free(j)
  /\ \/ /\ status[j] = "QUEUED"
        /\ status' = [status EXCEPT ![j] = "CANCELLED"]
        /\ audited' = audited \cup {j}
     \/ /\ status[j] = "RUNNING"
        /\ status' = [status EXCEPT ![j] = "CANCEL_REQUESTED"]
        /\ UNCHANGED audited
  /\ UNCHANGED <<expired, reaper, locked>>

\* complete_cancelled, with its event, while the lease is live
CompleteCancelled(j) ==
  /\ Free(j) /\ status[j] = "CANCEL_REQUESTED" /\ j \notin expired
  /\ status' = [status EXCEPT ![j] = "CANCELLED"]
  /\ audited' = audited \cup {j}
  /\ UNCHANGED <<expired, reaper, locked>>

Complete(j) ==
  /\ Free(j) /\ status[j] = "RUNNING" /\ j \notin expired
  /\ status' = [status EXCEPT ![j] = "SUCCESS"]
  /\ UNCHANGED <<expired, reaper, locked, audited>>

ExpiredIn(s) == {j \in expired : status[j] = s}

ReaperLocks ==
  /\ reaper = "idle"
  /\ locked' = ExpiredIn("CANCEL_REQUESTED")
  /\ reaper' = "locked"
  /\ UNCHANGED <<status, expired, audited>>

\* The first UPDATE, with the events of the rows the SELECT returned.
ReaperCancels ==
  /\ reaper = "locked"
  /\ LET rows == ExpiredIn("CANCEL_REQUESTED")
     IN  /\ status' = [j \in Jobs |-> IF j \in rows THEN "CANCELLED" ELSE status[j]]
         /\ expired' = expired \ rows
         /\ audited' = audited \cup locked
         /\ locked' = locked \cup rows
  /\ reaper' = "cancelled"

\* The second UPDATE, and the commit.
ReaperReleases ==
  /\ reaper = "cancelled"
  /\ LET rows == ExpiredIn("RUNNING")
     IN  /\ status' = [j \in Jobs |-> IF j \in rows THEN "QUEUED" ELSE status[j]]
         /\ expired' = expired \ rows
  /\ reaper' = "idle" /\ locked' = {}
  /\ UNCHANGED audited

Next ==
  \/ ReaperLocks \/ ReaperCancels \/ ReaperReleases
  \/ \E j \in Jobs : \/ Claim(j) \/ Expire(j) \/ RequestCancel(j)
                     \/ CompleteCancelled(j) \/ Complete(j)

Spec == Init /\ [][Next]_vars

-----------------------------------------------------------------------------
(* Properties *)

\* "Terminal and cancellation transitions require transactional audit."
\* (_require_audit): a job is CANCELLED only with the event that says so.
CancellationIsAudited == \A j \in Jobs : status[j] = "CANCELLED" => j \in audited
=============================================================================
