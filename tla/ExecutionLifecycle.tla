-------------------------- MODULE ExecutionLifecycle ---------------------------
(***************************************************************************)
(* One rule execution and the EXECUTION job that carries it: the rows of   *)
(* rule_executions, execution_attempts and rule_execution_results, the     *)
(* job's row, the API that starts and cancels the two together, and the    *)
(* workers, each with the handler process that runs run_for_execution_id.  *)
(* Executions share no row, so one stands for all.                         *)
(*                                                                         *)
(* The complete_* transactions of the execution repository read the status *)
(* without a lock and write the row in a later statement: two steps here.  *)
(* Cancel locks both rows: one step.  The job's row is the one of JobQueue *)
(* with time reduced to a lease that ran out; its versions only repeat     *)
(* what owner and status already tell apart.                               *)
(***************************************************************************)
EXTENDS Naturals

CONSTANTS
  Workers, NoWorker,
  MaxAttempts,            \* RetryPolicy.max_attempts
  MaxBlocks,              \* BackgroundJob.max_blocks
  MaxCrashes, MaxStalls   \* bounds: worker or handler processes that die; leases
                          \*   that run out under a worker still at the job

ASSUME ExecutionAssumption ==
  /\ NoWorker \notin Workers
  /\ MaxAttempts \in Nat \ {0}
  /\ MaxBlocks \in Nat /\ MaxCrashes \in Nat /\ MaxStalls \in Nat

VARIABLES
  status,   \* rule_executions.status
  attempts, \* the attempt_no values recorded for the execution
  results,  \* the rows of rule_execution_results: "none", "partial" or "full"
  job,      \* the background_jobs row
  pc,       \* each worker: where it or its handler process is
  try,      \* the attempt_no its handler process is at
  ending,   \* what the handler process is about to record
  seen,     \* the status last read: the execution's, or at the end the job's
  outcome,  \* what run_once got from the handler process
  stopping, \* whether the worker asked its handler process to stop
  budget

exec  == <<status, attempts, results>>
child == <<try, ending, seen>>
executionVars == <<status, attempts, results, job, pc, try, ending, seen, outcome, stopping, budget>>

Ended     == {"SUCCESS", "PARTIAL", "TECHNICAL_ERROR", "TIMEOUT", "CANCELLED"}
Active    == {"QUEUED", "RUNNING", "CANCEL_REQUESTED"}
Statuses  == {"ABSENT"} \cup Active \cup Ended
JobOwned  == {"RUNNING", "CANCEL_REQUESTED"}
JobEnded  == {"SUCCESS", "TECHNICAL_ERROR", "TIMEOUT", "CANCELLED"}
JobStatus == {"ABSENT", "QUEUED", "BLOCKED"} \cup JobOwned \cup JobEnded

InHandler == {"get", "claim", "execute", "attempt", "read", "write", "reconcile",
              "post", "reported"}
Points    == {"down", "idle", "claimed", "closing", "close"} \cup InHandler
Endings   == {"none", "ok", "partial", "timeout", "retryable", "permanent", "raises"}
Outcomes  == {"none", "outcome", "permanent", "timeout", "stopped"}

ExecutionInit ==
  /\ status = "ABSENT" /\ attempts = {} /\ results = "none"
  /\ job = [status |-> "ABSENT", owner |-> NoWorker, live |-> FALSE, blocks |-> 0]
  /\ pc = [w \in Workers |-> "idle"]
  /\ try = [w \in Workers |-> 1]
  /\ ending = [w \in Workers |-> "none"]
  /\ seen = [w \in Workers |-> "ABSENT"]
  /\ outcome = [w \in Workers |-> "none"]
  /\ stopping = [w \in Workers |-> FALSE]
  /\ budget = [crashes |-> 0, stalls |-> 0]

-----------------------------------------------------------------------------
(* The API *)

StartManual ==
  /\ status = "ABSENT"
  /\ status' = "QUEUED"
  /\ job' = [job EXCEPT !.status = "QUEUED"]
  /\ UNCHANGED <<attempts, results, pc, child, outcome, stopping, budget>>

\* PostgreSQLExecutionRepository.request_cancel
CancelOf(s) == CASE s = "QUEUED"  -> "CANCELLED"
                 [] s = "RUNNING" -> "CANCEL_REQUESTED"
                 [] OTHER         -> s

\* A job that is BLOCKED or already CANCEL_REQUESTED is left as it is.
Cancel ==
  /\ status \in Active
  /\ status' = CancelOf(status)
  /\ job' = [job EXCEPT !.status = CancelOf(@)]
  /\ UNCHANGED <<attempts, results, pc, child, outcome, stopping, budget>>

-----------------------------------------------------------------------------
(* The queue *)

Holds(w) == job.owner = w /\ job.live

Released(to) == [job EXCEPT !.status = to, !.owner = NoWorker, !.live = FALSE]

Goto(w, p) == pc' = [pc EXCEPT ![w] = p]

\* Mutant: a claim is taken over before its lease runs out.
ClaimJob_LiveToo(w) ==
  /\ pc[w] = "idle"
  /\ job.status \in {"QUEUED", "BLOCKED", "RUNNING"}
  /\ job' = [job EXCEPT !.status = "RUNNING", !.owner = w, !.live = TRUE]
  /\ Goto(w, "claimed")
  /\ UNCHANGED <<exec, child, outcome, stopping, budget>>

ClaimJob(w) ==
  /\ pc[w] = "idle"
  /\ \/ job.status \in {"QUEUED", "BLOCKED"}
     \/ job.status = "RUNNING" /\ ~ job.live
  /\ job' = [job EXCEPT !.status = "RUNNING", !.owner = w, !.live = TRUE]
  /\ Goto(w, "claimed")
  /\ UNCHANGED <<exec, child, outcome, stopping, budget>>

\* release_expired_claims, in the loop of any worker
Reap(w) ==
  /\ pc[w] = "idle"
  /\ job.status \in JobOwned /\ ~ job.live
  /\ job' = Released(IF job.status = "RUNNING" THEN "QUEUED" ELSE "CANCELLED")
  /\ UNCHANGED <<exec, pc, child, outcome, stopping, budget>>

AtJob(w) == pc[w] \notin {"down", "idle"}

\* Nobody renews the lease of a worker that ended.
LeaseRunsOut ==
  /\ job.status \in JobOwned /\ job.live /\ ~ AtJob(job.owner)
  /\ job' = [job EXCEPT !.live = FALSE]
  /\ UNCHANGED <<exec, pc, child, outcome, stopping, budget>>

\* A worker at the job sends no heartbeat for a whole lease.
Stall ==
  /\ job.status \in JobOwned /\ job.live /\ AtJob(job.owner)
  /\ budget.stalls < MaxStalls
  /\ budget' = [budget EXCEPT !.stalls = @ + 1]
  /\ job' = [job EXCEPT !.live = FALSE]
  /\ UNCHANGED <<exec, pc, child, outcome, stopping>>

-----------------------------------------------------------------------------
(* The worker *)

Forget(w, p) ==
  /\ Goto(w, p)
  /\ try' = [try EXCEPT ![w] = 1]
  /\ ending' = [ending EXCEPT ![w] = "none"]
  /\ seen' = [seen EXCEPT ![w] = "ABSENT"]
  /\ outcome' = [outcome EXCEPT ![w] = "none"]
  /\ stopping' = [stopping EXCEPT ![w] = FALSE]

\* The handler process is gone; k is what run_once goes on with.
Gone(w, k) ==
  /\ Goto(w, "closing")
  /\ outcome' = [outcome EXCEPT ![w] = k]
  /\ UNCHANGED <<exec, job, child, stopping>>

\* An error, or the end of the container, takes the handler process with it.
Crash(w) ==
  /\ pc[w] # "down" /\ budget.crashes < MaxCrashes
  /\ Forget(w, "down")
  /\ budget' = [budget EXCEPT !.crashes = @ + 1]
  /\ UNCHANGED <<exec, job>>

Restart(w) ==
  /\ pc[w] = "down"
  /\ Goto(w, "idle")
  /\ UNCHANGED <<exec, job, child, outcome, stopping, budget>>

StartHandler(w) ==
  /\ pc[w] = "claimed"
  /\ Goto(w, "get")
  /\ UNCHANGED <<exec, job, child, outcome, stopping, budget>>

\* The policy denied the sources too often, or the job cannot be handled.
RejectJob(w) ==
  /\ pc[w] = "claimed"
  /\ Gone(w, "permanent")
  /\ UNCHANGED budget

\* The policy denies the sources for now; block_job looks at the owner, not the
\* lease, and what it refuses ends the worker.
BlockJob(w) ==
  /\ pc[w] = "claimed" /\ job.blocks < MaxBlocks
  /\ \/ /\ job.status = "RUNNING" /\ job.owner = w
        /\ job' = [Released("BLOCKED") EXCEPT !.blocks = @ + 1]
        /\ Forget(w, "idle")
     \/ /\ ~ (job.status = "RUNNING" /\ job.owner = w)
        /\ Forget(w, "down")
        /\ UNCHANGED job
  /\ UNCHANGED <<exec, budget>>

\* The worker reads that its job is not RUNNING any more.
StopHandler(w) ==
  /\ pc[w] \in InHandler /\ ~ stopping[w]
  /\ job.status # "RUNNING"
  /\ stopping' = [stopping EXCEPT ![w] = TRUE]
  /\ outcome' = [outcome EXCEPT ![w] = "stopped"]
  /\ UNCHANGED <<exec, job, pc, child, budget>>

TotalDeadline(w) ==
  /\ pc[w] \in InHandler /\ ~ stopping[w]
  /\ stopping' = [stopping EXCEPT ![w] = TRUE]
  /\ outcome' = [outcome EXCEPT ![w] = "timeout"]
  /\ UNCHANGED <<exec, job, pc, child, budget>>

\* The heartbeat finds the lease inactive: JobLeaseError ends the worker.
HeartbeatRefused(w) ==
  /\ pc[w] \in InHandler /\ ~ stopping[w]
  /\ job.status = "RUNNING" /\ ~ Holds(w)
  /\ Forget(w, "down")
  /\ UNCHANGED <<exec, job, budget>>

\* During the grace period the watcher thread of the handler process passes the
\* request on: ExecutionService.cancel_execution.
PropagateCancel(w) ==
  /\ pc[w] \in InHandler /\ stopping[w]
  /\ status \in {"QUEUED", "RUNNING"}
  /\ status' = CancelOf(status)
  /\ UNCHANGED <<attempts, results, job, pc, child, outcome, stopping, budget>>

\* The grace period is over.
TerminateHandler(w) ==
  /\ pc[w] \in InHandler /\ stopping[w]
  /\ Gone(w, outcome[w])
  /\ UNCHANGED budget

\* The handler process dies by itself.
HandlerDies(w) ==
  /\ pc[w] \in InHandler /\ ~ stopping[w] /\ budget.crashes < MaxCrashes
  /\ Gone(w, "permanent")
  /\ budget' = [budget EXCEPT !.crashes = @ + 1]

HandlerReports(w) ==
  /\ pc[w] = "reported" /\ ~ stopping[w]
  /\ Gone(w, outcome[w])
  /\ UNCHANGED budget

ReadJob(w) ==
  /\ pc[w] = "closing"
  /\ seen' = [seen EXCEPT ![w] = job.status]
  /\ Goto(w, "close")
  /\ UNCHANGED <<exec, job, try, ending, outcome, stopping, budget>>

Closed(asSeen, k) ==
  CASE asSeen = "CANCEL_REQUESTED"                    -> "CANCELLED"
    [] asSeen # "CANCEL_REQUESTED" /\ k = "outcome"   -> "SUCCESS"
    [] asSeen # "CANCEL_REQUESTED" /\ k = "timeout"   -> "TIMEOUT"
    [] OTHER                                          -> "TECHNICAL_ERROR"

\* complete, complete_cancelled or record_failure; a refusal ends the worker.
CloseJob(w) ==
  /\ pc[w] = "close"
  /\ \/ /\ Holds(w) /\ job.status = seen[w]
        /\ job' = Released(Closed(seen[w], outcome[w]))
        /\ Forget(w, "idle")
     \/ /\ ~ (Holds(w) /\ job.status = seen[w])
        /\ Forget(w, "down")
        /\ UNCHANGED job
  /\ UNCHANGED <<exec, budget>>

-----------------------------------------------------------------------------
(* The handler process: PersistentExecutionCommandAdapter.execute *)

HandlerUnchanged == UNCHANGED <<job, outcome, stopping, budget>>

\* A handler process that is being stopped cannot change what run_once returns.
Report(w, k) ==
  /\ Goto(w, "reported")
  /\ outcome' = IF stopping[w] THEN outcome ELSE [outcome EXCEPT ![w] = k]
  /\ UNCHANGED <<exec, job, child, stopping, budget>>

\* Mutant: a RUNNING execution is taken for one that somebody else completes.
GetExecution_RunningIsDone(w) ==
  /\ pc[w] = "get"
  /\ \/ status # "QUEUED" /\ Report(w, "outcome")
     \/ /\ status = "QUEUED"
        /\ Goto(w, "claim")
        /\ UNCHANGED <<exec, child>> /\ HandlerUnchanged

\* run_for_execution_id: an execution that has ended is a permanent error, one
\* that is RUNNING or CANCEL_REQUESTED is run again from the first attempt.
GetExecution(w) ==
  /\ pc[w] = "get"
  /\ \/ status \in Ended /\ Report(w, "permanent")
     \/ /\ status \notin Ended
        /\ Goto(w, IF status = "QUEUED" THEN "claim" ELSE "execute")
        /\ UNCHANGED <<exec, child>> /\ HandlerUnchanged

ClaimById(w) ==
  /\ pc[w] = "claim"
  /\ \/ /\ status = "QUEUED"
        /\ status' = "RUNNING"
        /\ Goto(w, "execute")
        /\ UNCHANGED <<attempts, results, child>> /\ HandlerUnchanged
     \/ status # "QUEUED" /\ Report(w, "permanent")

\* The executor returns, raises, or something before it does ("raises").
Execute(w) ==
  /\ pc[w] = "execute"
  /\ \E k \in Endings \ {"none"} :
       /\ ending' = [ending EXCEPT ![w] = k]
       /\ Goto(w, IF k = "raises" THEN "reconcile" ELSE "attempt")
  /\ UNCHANGED <<exec, try, seen>> /\ HandlerUnchanged

\* Mutant: an attempt on record counts as the end of the run.
AddAttempt_OnRecordIsDone(w) ==
  /\ pc[w] = "attempt"
  /\ \/ try[w] \in attempts /\ Report(w, "outcome")
     \/ /\ try[w] \notin attempts
        /\ attempts' = attempts \cup {try[w]}
        /\ Goto(w, "read")
        /\ UNCHANGED <<status, results, child>> /\ HandlerUnchanged

\* add_attempt: (execution_id, attempt_no) is unique.  The handler of a conflict
\* records the same attempt_no again, so a conflict always leaves _run_execution.
AddAttempt(w) ==
  /\ pc[w] = "attempt"
  /\ \/ /\ try[w] \in attempts
        /\ ending' = [ending EXCEPT ![w] = "raises"]
        /\ Goto(w, "reconcile")
        /\ UNCHANGED <<exec, try>>
     \/ /\ try[w] \notin attempts
        /\ attempts' = attempts \cup {try[w]}
        /\ IF ending[w] = "retryable" /\ try[w] < MaxAttempts
           THEN Goto(w, "execute") /\ try' = [try EXCEPT ![w] = @ + 1]
           ELSE Goto(w, "read") /\ UNCHANGED try
        /\ UNCHANGED <<status, results, ending>>
  /\ UNCHANGED seen /\ HandlerUnchanged

\* The first statement of complete_success, _timeout or _technical_error.
ReadStatus(w) ==
  /\ pc[w] = "read"
  /\ seen' = [seen EXCEPT ![w] = status]
  /\ Goto(w, "write")
  /\ UNCHANGED <<exec, try, ending>> /\ HandlerUnchanged

StatusOf(k) == CASE k = "ok"      -> "SUCCESS"
                 [] k = "partial" -> "PARTIAL"
                 [] k = "timeout" -> "TIMEOUT"
                 [] OTHER         -> "TECHNICAL_ERROR"

ResultsOf(k) == CASE k = "ok" -> "full" [] k = "partial" -> "partial" [] OTHER -> "none"

\* (execution_id, rule_version_id) is unique among the results.
ResultsConflict(w) == ResultsOf(ending[w]) # "none" /\ results # "none"

\* Mutant: the results are stored before the cancellation is looked at.
WriteStatus_ResultsFirst(w) ==
  /\ pc[w] = "write"
  /\ results' = IF ResultsOf(ending[w]) = "none" THEN results ELSE ResultsOf(ending[w])
  /\ status' = IF seen[w] = "CANCEL_REQUESTED" THEN "CANCELLED" ELSE StatusOf(ending[w])
  /\ Goto(w, "post")
  /\ UNCHANGED <<attempts, child>> /\ HandlerUnchanged

\* The UPDATE names the execution, not the status that was read.
WriteStatus(w) ==
  /\ pc[w] = "write"
  /\ \/ /\ seen[w] = "CANCEL_REQUESTED"
        /\ status' = "CANCELLED"
        /\ UNCHANGED <<results, ending>>
        /\ Goto(w, "post")
     \/ /\ seen[w] # "CANCEL_REQUESTED" /\ ~ ResultsConflict(w)
        /\ status' = StatusOf(ending[w])
        /\ results' = IF ResultsOf(ending[w]) = "none" THEN results ELSE ResultsOf(ending[w])
        /\ UNCHANGED ending
        /\ Goto(w, "post")
     \/ /\ seen[w] # "CANCEL_REQUESTED" /\ ResultsConflict(w)
        /\ ending' = [ending EXCEPT ![w] = "raises"]
        /\ Goto(w, "reconcile")
        /\ UNCHANGED <<status, results>>
  /\ UNCHANGED <<attempts, try, seen>> /\ HandlerUnchanged

\* fail_active_execution: an execution still active gets TECHNICAL_ERROR.
Reconcile(w) ==
  /\ pc[w] = "reconcile"
  /\ \/ /\ status \in Active
        /\ Goto(w, "read")
        /\ UNCHANGED <<exec, child>> /\ HandlerUnchanged
     \/ status \notin Active /\ Report(w, "permanent")

\* Scores are published, issues raised; an issue that cannot be raised fails the
\* job, and so does the error that led to fail_active_execution.
PostProcess(w) ==
  /\ pc[w] = "post"
  /\ \/ ending[w] # "raises" /\ Report(w, "outcome")
     \/ Report(w, "permanent")

HandlerStep(w) ==
  \/ GetExecution(w) \/ ClaimById(w) \/ Execute(w) \/ AddAttempt(w)
  \/ ReadStatus(w) \/ WriteStatus(w) \/ Reconcile(w) \/ PostProcess(w)

WorkerStep(w) ==
  \/ ClaimJob(w) \/ Reap(w) \/ StartHandler(w) \/ RejectJob(w) \/ BlockJob(w)
  \/ StopHandler(w) \/ HeartbeatRefused(w) \/ TerminateHandler(w)
  \/ HandlerReports(w) \/ ReadJob(w) \/ CloseJob(w)

ExecutionNext ==
  \/ StartManual \/ Cancel \/ LeaseRunsOut \/ Stall
  \/ \E w \in Workers : \/ WorkerStep(w) \/ HandlerStep(w)
                        \/ TotalDeadline(w) \/ PropagateCancel(w) \/ HandlerDies(w)
                        \/ Crash(w) \/ Restart(w)

ExecutionSpec == ExecutionInit /\ [][ExecutionNext]_executionVars

\* Workers are started again, leases run out, workers and handler processes go on.
ExecutionFairness ==
  /\ WF_executionVars(LeaseRunsOut)
  /\ \A w \in Workers : /\ WF_executionVars(WorkerStep(w)) /\ WF_executionVars(HandlerStep(w))
                        /\ WF_executionVars(Restart(w))

ExecutionFairSpec == ExecutionSpec /\ ExecutionFairness

-----------------------------------------------------------------------------
(* Properties *)

\* Every variable has its type.
ExecutionTypeOK ==
  /\ status \in Statuses
  /\ attempts \subseteq 1..MaxAttempts
  /\ results \in {"none", "partial", "full"}
  /\ job \in [status : JobStatus, owner : Workers \cup {NoWorker}, live : BOOLEAN,
              blocks : 0..MaxBlocks]
  /\ pc \in [Workers -> Points]
  /\ try \in [Workers -> 1..MaxAttempts]
  /\ ending \in [Workers -> Endings]
  /\ seen \in [Workers -> Statuses \cup JobStatus]
  /\ outcome \in [Workers -> Outcomes]
  /\ stopping \in [Workers -> BOOLEAN]
  /\ budget \in [crashes : 0..MaxCrashes, stalls : 0..MaxStalls]

\* As long as no worker stalls, results are stored exactly for an execution that
\* ended SUCCESS (all of them) or PARTIAL (some): a cancelled, failed or
\* interrupted execution, run again or not, leaves none behind.
ResultsMatchStatus ==
  budget.stalls = 0 =>
    /\ results = "full"    <=> status = "SUCCESS"
    /\ results = "partial" <=> status = "PARTIAL"

\* A job that ended SUCCESS belongs to an execution that has ended, even if its
\* worker stalled and another one ran the execution at the same time.
DoneJobEndedExecution == job.status = "SUCCESS" => status \in Ended

\* As long as no worker stalls, an execution that has ended never changes again,
\* although no complete_* transaction looks at the status it overwrites.
EndedStaysEnded ==
  [][budget.stalls = 0 /\ status \in Ended => status' = status /\ results' = results]_executionVars

\* An execution is never run by two handler processes at once unless a worker
\* stalled: what makes the unlocked reads above sufficient.
OneHandler ==
  budget.stalls = 0 =>
    \A v, w \in Workers : pc[v] \in InHandler /\ pc[w] \in InHandler => v = w

\* A running execution ends, unless its job is given up (failed, timed out or
\* cancelled) first: after a crash the job comes back and the execution is run
\* again, although attempts of the first run may be on record.
RunningIsSettled ==
  status = "RUNNING" ~> status \in Ended \/ job.status \in JobEnded \ {"SUCCESS"}

\* "CANCEL_REQUESTED execution basariyla tamamlanmaya calisirsa CANCELLED olur"
\* (tests/integration/test_postgresql_execution_persistence.py): from
\* CANCEL_REQUESTED an execution can only become CANCELLED.
CancelWins ==
  [][status = "CANCEL_REQUESTED" => status' \in {"CANCEL_REQUESTED", "CANCELLED"}]_executionVars
=============================================================================
