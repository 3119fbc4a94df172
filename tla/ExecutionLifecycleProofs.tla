----------------------- MODULE ExecutionLifecycleProofs -----------------------
(***************************************************************************)
(* Proofs about ExecutionLifecycle, for any number of workers, attempts,   *)
(* crashes and stalls.                                                     *)
(*                                                                         *)
(* The argument is the lease: as long as nobody stalls, a worker at the    *)
(* job holds its live lease, so it is alone there, and what its handler    *)
(* process read of the execution is still so when it writes.  That a job   *)
(* which ended SUCCESS has an ended execution needs no lease: a status     *)
(* that ended is only overwritten by another such status.                  *)
(***************************************************************************)
EXTENDS ExecutionLifecycle, TLAPS

JobRow == [status : JobStatus, owner : Workers \cup {NoWorker}, live : BOOLEAN,
           blocks : 0..MaxBlocks]

LEMMA ExecutionInitTyped == ExecutionInit => ExecutionTypeOK
BY ExecutionAssumption
DEF ExecutionInit, ExecutionTypeOK, Statuses, Active, Ended, JobStatus, JobOwned, JobEnded, Points,
    InHandler, Endings, Outcomes

\* The API and the leases.
LEMMA OutsideTyped ==
  ASSUME ExecutionTypeOK, StartManual \/ Cancel \/ LeaseRunsOut \/ Stall
  PROVE  ExecutionTypeOK'
<1>1. job' \in JobRow
  BY DEF ExecutionTypeOK, JobRow, StartManual, Cancel, LeaseRunsOut, Stall, CancelOf, JobStatus,
     JobOwned, JobEnded
<1>2. status' \in Statuses
  BY DEF ExecutionTypeOK, StartManual, Cancel, LeaseRunsOut, Stall, CancelOf, Statuses, Active,
     Ended, exec
<1>3. budget' \in [crashes : 0..MaxCrashes, stalls : 0..MaxStalls]
  BY ExecutionAssumption DEF ExecutionTypeOK, StartManual, Cancel, LeaseRunsOut, Stall
<1>4. UNCHANGED <<attempts, results, pc, try, ending, seen, outcome, stopping>>
  BY DEF StartManual, Cancel, LeaseRunsOut, Stall, exec, child
<1> QED BY <1>1, <1>2, <1>3, <1>4 DEF ExecutionTypeOK, JobRow

LEMMA WorkerTyped ==
  ASSUME ExecutionTypeOK, NEW w \in Workers, WorkerStep(w) \/ Restart(w) \/ TotalDeadline(w)
  PROVE  ExecutionTypeOK'
<1>1. job' \in JobRow
  <2>1. CASE ClaimJob(w)
    BY <2>1 DEF ExecutionTypeOK, JobRow, ClaimJob, JobStatus, JobOwned
  <2>2. CASE Reap(w)
    BY <2>2 DEF ExecutionTypeOK, JobRow, Reap, Released, JobStatus, JobOwned, JobEnded
  <2>3. CASE BlockJob(w)
    <3>1. job.blocks \in 0..MaxBlocks /\ job.blocks < MaxBlocks /\ MaxBlocks \in Nat
      BY <2>3, ExecutionAssumption DEF ExecutionTypeOK, BlockJob
    <3>2. job.blocks + 1 \in 0..MaxBlocks
      BY <3>1
    <3> QED BY <2>3, <3>2 DEF ExecutionTypeOK, JobRow, BlockJob, Released, JobStatus
  <2>4. CASE CloseJob(w)
    <3>1. Closed(seen[w], outcome[w]) \in JobStatus
      BY DEF Closed, JobStatus, JobEnded
    <3> QED BY <2>4, <3>1 DEF ExecutionTypeOK, JobRow, CloseJob, Released
  <2>5. CASE ~ (ClaimJob(w) \/ Reap(w) \/ BlockJob(w) \/ CloseJob(w))
    BY <2>5 DEF ExecutionTypeOK, JobRow, WorkerStep, StartHandler, RejectJob, StopHandler,
      HeartbeatRefused, TerminateHandler, HandlerReports, ReadJob, Restart, TotalDeadline, Gone
  <2> QED BY <2>1, <2>2, <2>3, <2>4, <2>5
<1>2. UNCHANGED <<status, attempts, results, budget>>
  BY DEF WorkerStep, ClaimJob, Reap, StartHandler, RejectJob, BlockJob, StopHandler,
     HeartbeatRefused, TerminateHandler, HandlerReports, ReadJob, CloseJob, Restart, TotalDeadline,
     Gone, exec
<1>3. pc' \in [Workers -> Points]
  BY DEF ExecutionTypeOK, WorkerStep, ClaimJob, Reap, StartHandler, RejectJob, BlockJob,
     StopHandler, HeartbeatRefused, TerminateHandler, HandlerReports, ReadJob, CloseJob, Restart,
     TotalDeadline, Gone, Forget, Goto, Points, InHandler
<1>4. /\ try' \in [Workers -> 1..MaxAttempts] /\ ending' \in [Workers -> Endings]
      /\ seen' \in [Workers -> Statuses \cup JobStatus]
  BY ExecutionAssumption DEF ExecutionTypeOK, WorkerStep, ClaimJob, Reap, StartHandler, RejectJob,
     BlockJob, StopHandler, HeartbeatRefused, TerminateHandler, HandlerReports, ReadJob, CloseJob,
     Restart, TotalDeadline, Gone, Forget, child, Endings, Statuses
<1>5. outcome' \in [Workers -> Outcomes] /\ stopping' \in [Workers -> BOOLEAN]
  BY DEF ExecutionTypeOK, WorkerStep, ClaimJob, Reap, StartHandler, RejectJob, BlockJob,
     StopHandler, HeartbeatRefused, TerminateHandler, HandlerReports, ReadJob, CloseJob, Restart,
     TotalDeadline, Gone, Forget, Outcomes
<1> QED BY <1>1, <1>2, <1>3, <1>4, <1>5 DEF ExecutionTypeOK, JobRow

LEMMA EndTyped ==
  ASSUME ExecutionTypeOK, NEW w \in Workers, Crash(w) \/ HandlerDies(w)
  PROVE  ExecutionTypeOK'
<1>1. budget' \in [crashes : 0..MaxCrashes, stalls : 0..MaxStalls]
  BY ExecutionAssumption DEF ExecutionTypeOK, Crash, HandlerDies
<1>2. UNCHANGED <<status, attempts, results, job>>
  BY DEF Crash, HandlerDies, Gone, exec
<1>3. pc' \in [Workers -> Points]
  BY DEF ExecutionTypeOK, Crash, HandlerDies, Gone, Forget, Goto, Points
<1>4. /\ try' \in [Workers -> 1..MaxAttempts] /\ ending' \in [Workers -> Endings]
      /\ seen' \in [Workers -> Statuses \cup JobStatus]
  BY ExecutionAssumption DEF ExecutionTypeOK, Crash, HandlerDies, Gone, Forget, child, Endings,
     Statuses
<1>5. outcome' \in [Workers -> Outcomes] /\ stopping' \in [Workers -> BOOLEAN]
  BY DEF ExecutionTypeOK, Crash, HandlerDies, Gone, Forget, Outcomes
<1> QED BY <1>1, <1>2, <1>3, <1>4, <1>5 DEF ExecutionTypeOK

LEMMA HandlerTyped ==
  ASSUME ExecutionTypeOK, NEW w \in Workers, HandlerStep(w) \/ PropagateCancel(w)
  PROVE  ExecutionTypeOK'
<1>1. UNCHANGED <<job, budget, stopping>>
  BY DEF HandlerStep, GetExecution, ClaimById, Execute, AddAttempt, ReadStatus, WriteStatus,
     Reconcile, PostProcess, PropagateCancel, Report, HandlerUnchanged
<1>2. pc' \in [Workers -> Points]
  BY DEF ExecutionTypeOK, HandlerStep, GetExecution, ClaimById, Execute, AddAttempt, ReadStatus,
     WriteStatus, Reconcile, PostProcess, PropagateCancel, Report, Goto, Points, InHandler
<1>3. status' \in Statuses
  BY DEF ExecutionTypeOK, HandlerStep, GetExecution, ClaimById, Execute, AddAttempt, ReadStatus,
     WriteStatus, Reconcile, PostProcess, PropagateCancel, Report, exec, CancelOf, StatusOf,
     Statuses, Active, Ended
<1>4. attempts' \subseteq 1..MaxAttempts /\ try' \in [Workers -> 1..MaxAttempts]
  <2>1. CASE AddAttempt(w)
    <3>1. try[w] \in 1..MaxAttempts /\ MaxAttempts \in Nat
      BY ExecutionAssumption DEF ExecutionTypeOK
    <3>2. try[w] < MaxAttempts => try[w] + 1 \in 1..MaxAttempts
      BY <3>1
    <3>3. /\ attempts' = attempts \/ attempts' = attempts \cup {try[w]}
          /\ try' = try \/ (try[w] < MaxAttempts /\ try' = [try EXCEPT ![w] = try[w] + 1])
      BY <2>1 DEF AddAttempt, exec
    <3>4. attempts \subseteq 1..MaxAttempts /\ try \in [Workers -> 1..MaxAttempts]
      BY DEF ExecutionTypeOK
    <3>5. attempts' \subseteq 1..MaxAttempts
      BY <3>1, <3>3, <3>4
    <3>6. try' \in [Workers -> 1..MaxAttempts]
      BY <3>2, <3>3, <3>4
    <3> QED BY <3>5, <3>6
  <2>2. CASE ~ AddAttempt(w)
    <3>1. UNCHANGED <<attempts, try>>
      BY <2>2 DEF HandlerStep, GetExecution, ClaimById, Execute, ReadStatus, WriteStatus, Reconcile,
           PostProcess, PropagateCancel, Report, exec, child
    <3> QED BY <3>1 DEF ExecutionTypeOK
  <2> QED BY <2>1, <2>2
<1>5. results' \in {"none", "partial", "full"} 
  BY DEF ExecutionTypeOK, HandlerStep, GetExecution, ClaimById, Execute, AddAttempt, ReadStatus,
     WriteStatus, Reconcile, PostProcess, PropagateCancel, Report, exec, ResultsOf
<1>6. ending' \in [Workers -> Endings] /\ seen' \in [Workers -> Statuses \cup JobStatus]
  BY DEF ExecutionTypeOK, HandlerStep, GetExecution, ClaimById, Execute, AddAttempt, ReadStatus,
     WriteStatus, Reconcile, PostProcess, PropagateCancel, Report, child, Endings
<1>7. outcome' \in [Workers -> Outcomes]
  BY DEF ExecutionTypeOK, HandlerStep, GetExecution, ClaimById, Execute, AddAttempt, ReadStatus,
     WriteStatus, Reconcile, PostProcess, PropagateCancel, Report, HandlerUnchanged, Outcomes
<1> QED BY <1>1, <1>2, <1>3, <1>4, <1>5, <1>6, <1>7 DEF ExecutionTypeOK

LEMMA ExecutionTyped == ExecutionTypeOK /\ [ExecutionNext]_executionVars => ExecutionTypeOK'
<1> SUFFICES ASSUME ExecutionTypeOK, [ExecutionNext]_executionVars PROVE ExecutionTypeOK'
  OBVIOUS
<1>1. CASE UNCHANGED executionVars
  BY <1>1 DEF executionVars, exec, child, ExecutionTypeOK
<1>2. CASE ExecutionNext
  BY <1>2, OutsideTyped, WorkerTyped, EndTyped, HandlerTyped DEF ExecutionNext
<1> QED BY <1>1, <1>2

-----------------------------------------------------------------------------
(* One handler at a time *)

Working == {"execute", "attempt", "read", "write", "reconcile"}

\* Nobody is at a job that was not enqueued.
Begun == status = "ABSENT" => job.status = "ABSENT" /\ \A w \in Workers : ~ AtJob(w)

\* What a worker reports as done, and what the job's row says, is done.
Finished ==
  /\ \A w \in Workers : pc[w] = "post" \/ outcome[w] = "outcome" => status \in Ended
  /\ DoneJobEndedExecution

\* While no worker stalled, whoever is at the job has its lease, and a handler process
\* that is past its claim has an execution that has not ended.
Undisturbed ==
  budget.stalls = 0 =>
    /\ \A w \in Workers : AtJob(w) => Holds(w) /\ job.status \in JobOwned
    /\ \A w \in Workers : pc[w] \in Working => status \in {"RUNNING", "CANCEL_REQUESTED"}

ExecutionInv == ExecutionTypeOK /\ Begun /\ Finished /\ Undisturbed /\ ResultsMatchStatus

LEMMA ExecutionInitInv == ExecutionInit => ExecutionInv
<1> SUFFICES ASSUME ExecutionInit PROVE ExecutionInv
  OBVIOUS
<1>1. ExecutionTypeOK
  BY ExecutionInitTyped
<1>2. Begun /\ Finished /\ Undisturbed /\ ResultsMatchStatus
  BY DEF ExecutionInit, Begun, Finished, DoneJobEndedExecution, Undisturbed, ResultsMatchStatus,
     AtJob, Working
<1> QED BY <1>1, <1>2 DEF ExecutionInv

\* The statuses an execution ends in are none of those it goes through.
LEMMA EndedIsApart ==
  /\ "ABSENT" \notin Ended /\ Ended \cap Active = {} /\ "ABSENT" \notin Active
  /\ "SUCCESS" \notin JobOwned /\ "ABSENT" \notin JobOwned
BY DEF Ended, Active, JobOwned

\* Two workers at the job would both have its lease.
LEMMA Alone ==
  ASSUME ExecutionInv, budget.stalls = 0, NEW v \in Workers, NEW w \in Workers, AtJob(v), AtJob(w)
  PROVE  v = w
BY DEF ExecutionInv, Undisturbed, Holds

LEMMA OutsideInv ==
  ASSUME ExecutionInv, StartManual \/ Cancel \/ LeaseRunsOut \/ Stall
  PROVE  ExecutionInv'
<1>1. ExecutionTypeOK'
  BY OutsideTyped DEF ExecutionInv
<1>2. UNCHANGED <<results, pc, outcome>>
  BY DEF StartManual, Cancel, LeaseRunsOut, Stall, exec
<1>3. job \in JobRow /\ budget \in [crashes : 0..MaxCrashes, stalls : 0..MaxStalls]
  BY DEF ExecutionInv, ExecutionTypeOK, JobRow
<1>4. CASE StartManual
  <2>1. /\ status = "ABSENT" /\ status' = "QUEUED" /\ job' = [job EXCEPT !.status = "QUEUED"]
        /\ budget' = budget /\ \A w \in Workers : ~ AtJob(w)
    BY <1>4 DEF StartManual, ExecutionInv, Begun
  <2>2. Begun' /\ Finished'
    BY <1>2, <1>3, <2>1, EndedIsApart DEF ExecutionInv, Begun, Finished, DoneJobEndedExecution,
       JobRow
  <2>3. Undisturbed' /\ ResultsMatchStatus'
    BY <1>2, <2>1 DEF ExecutionInv, Undisturbed, ResultsMatchStatus, AtJob, Working
  <2> QED BY <1>1, <2>2, <2>3 DEF ExecutionInv
<1>5. CASE Cancel
  <2>1. /\ status \in Active /\ status' = CancelOf(status) /\ job' = [job EXCEPT !.status = CancelOf(@)]
        /\ budget' = budget
    BY <1>5 DEF Cancel
  <2>2. /\ job'.owner = job.owner /\ job'.live = job.live /\ job'.status = CancelOf(job.status)
    BY <1>3, <2>1 DEF JobRow
  <2>3. Begun'
    BY <2>1 DEF Begun, CancelOf, Active
  <2>4. Finished'
    BY <1>2, <2>1, <2>2, EndedIsApart DEF ExecutionInv, Finished, DoneJobEndedExecution, CancelOf
  <2>5. Undisturbed'
    BY <1>2, <2>1, <2>2 DEF ExecutionInv, Undisturbed, AtJob, Holds, JobOwned, CancelOf
  <2>6. ResultsMatchStatus'
    BY <1>2, <2>1 DEF ExecutionInv, ResultsMatchStatus, CancelOf, Active
  <2> QED BY <1>1, <2>3, <2>4, <2>5, <2>6 DEF ExecutionInv
<1>6. CASE LeaseRunsOut
  <2>1. /\ job' = [job EXCEPT !.live = FALSE] /\ UNCHANGED <<status, budget>>
        /\ job.status \in JobOwned /\ ~ AtJob(job.owner)
    BY <1>6 DEF LeaseRunsOut, exec
  <2>2. job'.status = job.status
    BY <1>3, <2>1 DEF JobRow
  <2>3. Begun' /\ Finished' /\ ResultsMatchStatus'
    BY <1>2, <2>1, <2>2
    DEF ExecutionInv, Begun, Finished, DoneJobEndedExecution, ResultsMatchStatus, AtJob
  <2>4. budget.stalls = 0 => \A w \in Workers : ~ AtJob(w)
    BY <2>1 DEF ExecutionInv, Undisturbed, Holds
  <2>5. Undisturbed'
    BY <1>2, <2>1, <2>4 DEF Undisturbed, AtJob, Working
  <2> QED BY <1>1, <2>3, <2>5 DEF ExecutionInv
<1>7. CASE Stall
  <2>1. /\ job' = [job EXCEPT !.live = FALSE] /\ UNCHANGED status
        /\ budget' = [budget EXCEPT !.stalls = @ + 1]
    BY <1>7 DEF Stall, exec
  <2>2. budget'.stalls # 0
    BY <1>3, <2>1, ExecutionAssumption
  <2>3. job'.status = job.status
    BY <1>3, <2>1 DEF JobRow
  <2>4. Begun' /\ Finished'
    BY <1>2, <2>1, <2>3 DEF ExecutionInv, Begun, Finished, DoneJobEndedExecution, AtJob
  <2> QED BY <1>1, <2>2, <2>4 DEF ExecutionInv, Undisturbed, ResultsMatchStatus
<1> QED BY <1>4, <1>5, <1>6, <1>7

\* A step of one worker that leaves the rows of the execution and of the job alone.
LEMMA RowsStay ==
  ASSUME ExecutionInv, ExecutionTypeOK', NEW w \in Workers,
         UNCHANGED <<status, results, job>>, budget'.stalls = budget.stalls,
         \A v \in Workers : v # w => pc'[v] = pc[v] /\ outcome'[v] = outcome[v],
         pc'[w] = "post" => pc[w] = "post", AtJob(w)' => AtJob(w),
         pc'[w] \in Working => pc[w] \in Working \/ status \in {"RUNNING", "CANCEL_REQUESTED"},
         outcome'[w] = "outcome" => outcome[w] = "outcome" \/ pc[w] = "post"
  PROVE  ExecutionInv'
<1>1. Begun'
  BY DEF ExecutionInv, Begun, AtJob
<1>2. Finished'
  BY DEF ExecutionInv, Finished, DoneJobEndedExecution
<1>3. Undisturbed'
  BY DEF ExecutionInv, Undisturbed, AtJob, Holds
<1>4. ResultsMatchStatus'
  BY DEF ExecutionInv, ResultsMatchStatus
<1> QED BY <1>1, <1>2, <1>3, <1>4 DEF ExecutionInv

\* The steps of the worker but those that write the job's row.
LEMMA WorkerInv ==
  ASSUME ExecutionInv, NEW w \in Workers,
         \/ StartHandler(w) \/ RejectJob(w) \/ StopHandler(w) \/ HeartbeatRefused(w)
         \/ TerminateHandler(w) \/ HandlerReports(w) \/ ReadJob(w)
         \/ TotalDeadline(w) \/ HandlerDies(w) \/ Crash(w) \/ Restart(w)
         \/ Forget(w, "down") /\ UNCHANGED <<exec, job, budget>>
  PROVE  ExecutionInv'
<1>1. ExecutionTypeOK'
  <2>1. CASE Forget(w, "down") /\ UNCHANGED <<exec, job, budget>>
    BY <2>1, ExecutionAssumption
    DEF ExecutionInv, ExecutionTypeOK, Forget, Goto, exec, Points, Endings, Outcomes, Statuses
  <2> QED BY <2>1, WorkerTyped, EndTyped DEF ExecutionInv, WorkerStep
<1>2. UNCHANGED <<status, results, job>> /\ budget'.stalls = budget.stalls
  <2>1. budget \in [crashes : 0..MaxCrashes, stalls : 0..MaxStalls]
    BY DEF ExecutionInv, ExecutionTypeOK
  <2> QED BY <2>1 DEF StartHandler, RejectJob, StopHandler, HeartbeatRefused, TerminateHandler,
       HandlerReports, ReadJob, TotalDeadline, HandlerDies, Crash, Restart, Gone, exec
<1>3. /\ \A v \in Workers : v # w => pc'[v] = pc[v] /\ outcome'[v] = outcome[v]
      /\ outcome'[w] = "outcome" => outcome[w] = "outcome" \/ pc[w] = "post"
  <2>1. pc \in [Workers -> Points] /\ outcome \in [Workers -> Outcomes]
    BY DEF ExecutionInv, ExecutionTypeOK
  <2> QED BY <2>1 DEF StartHandler, RejectJob, StopHandler, HeartbeatRefused, TerminateHandler,
       HandlerReports, ReadJob, TotalDeadline, HandlerDies, Crash, Restart, Gone, Forget, Goto
<1>4. pc'[w] \in {"get", "closing", "close", "down", "idle"} \/ pc'[w] = pc[w]
  <2>1. pc \in [Workers -> Points]
    BY DEF ExecutionInv, ExecutionTypeOK
  <2>2. pc' = pc \/ \E p \in {"get", "closing", "close", "down", "idle"} : pc' = [pc EXCEPT ![w] = p]
    BY DEF StartHandler, RejectJob, StopHandler, HeartbeatRefused, TerminateHandler,
       HandlerReports, ReadJob, TotalDeadline, HandlerDies, Crash, Restart, Gone, Forget, Goto
  <2> QED BY <2>1, <2>2
<1>5. AtJob(w)' => AtJob(w)
  <2>1. pc \in [Workers -> Points]
    BY DEF ExecutionInv, ExecutionTypeOK
  <2> QED BY <2>1 DEF StartHandler, RejectJob, StopHandler, HeartbeatRefused, TerminateHandler,
             HandlerReports, ReadJob, TotalDeadline, HandlerDies, Crash, Restart, Gone, Forget,
             Goto, AtJob, InHandler
<1> QED BY <1>1, <1>2, <1>3, <1>4, <1>5, RowsStay DEF Working

\* A claim finds nobody at the job, unless somebody stalled.
LEMMA ClaimJobInv ==
  ASSUME ExecutionInv, NEW w \in Workers, ClaimJob(w)
  PROVE  ExecutionInv'
<1>1. ExecutionTypeOK'
  BY WorkerTyped DEF ExecutionInv, WorkerStep
<1>2. UNCHANGED <<status, results, outcome, budget>>
  BY DEF ClaimJob, exec
<1>3. /\ pc' = [pc EXCEPT ![w] = "claimed"] /\ pc \in [Workers -> Points]
      /\ job' = [job EXCEPT !.status = "RUNNING", !.owner = w, !.live = TRUE]
      /\ job.status \in {"QUEUED", "BLOCKED"} \/ (job.status = "RUNNING" /\ ~ job.live)
  BY DEF ClaimJob, Goto, ExecutionInv, ExecutionTypeOK
<1>4. job'.status = "RUNNING" /\ job'.owner = w /\ job'.live
  <2>1. job \in JobRow
    BY DEF ExecutionInv, ExecutionTypeOK, JobRow
  <2> QED BY <1>3, <2>1 DEF JobRow
<1>5. Begun'
  BY <1>2, <1>3, <1>4 DEF ExecutionInv, Begun
<1>6. Finished' /\ ResultsMatchStatus'
  BY <1>2, <1>3, <1>4 DEF ExecutionInv, Finished, DoneJobEndedExecution, ResultsMatchStatus
<1>7. budget.stalls = 0 => \A v \in Workers : ~ AtJob(v)
  BY <1>3 DEF ExecutionInv, Undisturbed, Holds, JobOwned
<1>8. Undisturbed'
  BY <1>2, <1>3, <1>4, <1>7 DEF Undisturbed, AtJob, Holds, JobOwned, Working
<1> QED BY <1>1, <1>5, <1>6, <1>8 DEF ExecutionInv

\* release_expired_claims takes no lease that is live.
LEMMA ReapInv ==
  ASSUME ExecutionInv, NEW w \in Workers, Reap(w)
  PROVE  ExecutionInv'
<1>1. ExecutionTypeOK'
  BY WorkerTyped DEF ExecutionInv, WorkerStep
<1>2. UNCHANGED <<status, results, pc, outcome, budget>>
  BY DEF Reap, exec
<1>3. /\ job.status \in JobOwned /\ ~ job.live /\ job'.status \in {"QUEUED", "CANCELLED"}
  BY DEF Reap, Released, ExecutionInv, ExecutionTypeOK
<1>4. Begun'
  BY <1>2, <1>3, EndedIsApart DEF ExecutionInv, Begun
<1>5. Finished' /\ ResultsMatchStatus'
  BY <1>2, <1>3 DEF ExecutionInv, Finished, DoneJobEndedExecution, ResultsMatchStatus
<1>6. budget.stalls = 0 => \A v \in Workers : ~ AtJob(v)
  BY <1>3 DEF ExecutionInv, Undisturbed, Holds
<1>7. Undisturbed'
  BY <1>2, <1>6 DEF Undisturbed, AtJob, Working
<1> QED BY <1>1, <1>4, <1>5, <1>7 DEF ExecutionInv

\* A worker that writes the end of its claim was the only one at the job.
LEMMA ReleaseInv ==
  ASSUME ExecutionInv, ExecutionTypeOK', NEW w \in Workers, AtJob(w), ~ AtJob(w)',
         \A v \in Workers : v # w => pc'[v] = pc[v] /\ outcome'[v] = outcome[v],
         outcome'[w] = "none", pc'[w] # "post",
         job'.status = "SUCCESS" => status \in Ended,
         UNCHANGED <<status, results, budget>>
  PROVE  ExecutionInv'
<1>1. Begun'
  BY DEF ExecutionInv, Begun
<1>2. Finished'
  BY DEF ExecutionInv, Finished, DoneJobEndedExecution
<1>3. ResultsMatchStatus'
  BY DEF ExecutionInv, ResultsMatchStatus
<1>4. budget.stalls = 0 => \A v \in Workers : v # w => ~ AtJob(v)
  BY Alone
<1>5. budget.stalls = 0 => \A v \in Workers : ~ AtJob(v)'
  BY <1>4 DEF AtJob
<1>6. Undisturbed'
  BY <1>5 DEF Undisturbed, AtJob, Working
<1> QED BY <1>1, <1>2, <1>3, <1>6 DEF ExecutionInv

\* block_job and the calls that close the job, carried out or refused.
LEMMA CloseInv ==
  ASSUME ExecutionInv, NEW w \in Workers, BlockJob(w) \/ CloseJob(w)
  PROVE  ExecutionInv'
<1>1. ExecutionTypeOK'
  BY WorkerTyped DEF ExecutionInv, WorkerStep
<1>2. UNCHANGED <<status, results, budget>> /\ pc[w] \in {"claimed", "close"}
  BY DEF BlockJob, CloseJob, exec
<1>3. CASE Forget(w, "down") /\ UNCHANGED job
  BY <1>2, <1>3, WorkerInv DEF BlockJob, CloseJob
<1>4. CASE Forget(w, "idle")
  <2>1. pc \in [Workers -> Points] /\ outcome \in [Workers -> Outcomes]
    BY DEF ExecutionInv, ExecutionTypeOK
  <2>2. /\ pc'[w] = "idle" /\ outcome'[w] = "none"
        /\ \A v \in Workers : v # w => pc'[v] = pc[v] /\ outcome'[v] = outcome[v]
    BY <1>4, <2>1 DEF Forget, Goto
  <2>3. job'.status = "SUCCESS" => status \in Ended
    <3>1. job \in JobRow
      BY DEF ExecutionInv, ExecutionTypeOK, JobRow
    <3>2. CASE BlockJob(w)
      <4>1. pc'[w] # "down"
        BY <2>2
      <4>2. job'.status = "BLOCKED"
        BY <3>1, <3>2, <4>1, <2>1 DEF BlockJob, Released, JobRow, Forget, Goto
      <4> QED BY <4>2
    <3>3. CASE CloseJob(w)
      <4>1. pc'[w] # "down"
        BY <2>2
      <4>2. job' = Released(Closed(seen[w], outcome[w]))
        BY <3>3, <4>1, <2>1 DEF CloseJob, Forget, Goto
      <4>3. job'.status = Closed(seen[w], outcome[w])
        BY <3>1, <4>2 DEF Released, JobRow
      <4>4. Closed(seen[w], outcome[w]) = "SUCCESS" => outcome[w] = "outcome"
        BY DEF Closed
      <4> QED BY <4>3, <4>4 DEF ExecutionInv, Finished
    <3> QED BY <3>2, <3>3
  <2>4. AtJob(w) /\ ~ AtJob(w)'
    BY <1>2, <2>2 DEF AtJob
  <2> QED BY <1>1, <1>2, <2>2, <2>3, <2>4, ReleaseInv
<1> QED BY <1>3, <1>4 DEF BlockJob, CloseJob

\* The steps of the handler process that leave the status alone.
LEMMA HandlerInv ==
  ASSUME ExecutionInv, NEW w \in Workers,
         \/ GetExecution(w) \/ Execute(w) \/ AddAttempt(w) \/ ReadStatus(w) \/ Reconcile(w)
         \/ PostProcess(w)
  PROVE  ExecutionInv'
<1>1. ExecutionTypeOK'
  BY HandlerTyped DEF ExecutionInv, HandlerStep
<1>2. UNCHANGED <<status, results, job, budget>>
  BY DEF GetExecution, Execute, AddAttempt, ReadStatus, Reconcile, PostProcess, Report,
     HandlerUnchanged, exec
<1>3. pc \in [Workers -> Points] /\ outcome \in [Workers -> Outcomes]
  BY DEF ExecutionInv, ExecutionTypeOK
<1>4. AtJob(w) /\ pc[w] \in InHandler
  BY DEF GetExecution, Execute, AddAttempt, ReadStatus, Reconcile, PostProcess, AtJob, InHandler
<1>5. \A v \in Workers : v # w => pc'[v] = pc[v] /\ outcome'[v] = outcome[v]
  BY <1>3 DEF GetExecution, Execute, AddAttempt, ReadStatus, Reconcile, PostProcess, Report,
     HandlerUnchanged, Goto
<1>6. outcome'[w] = "outcome" => outcome[w] = "outcome" \/ pc[w] = "post"
  BY <1>3 DEF GetExecution, Execute, AddAttempt, ReadStatus, Reconcile, PostProcess, Report,
     HandlerUnchanged
<1>7. \/ pc'[w] \in {"claim", "reported"}
      \/ pc'[w] \in Working /\ pc[w] \in Working
      \/ pc'[w] = "execute" /\ pc[w] = "get" /\ status \notin Ended \cup {"QUEUED"}
  BY <1>3 DEF GetExecution, Execute, AddAttempt, ReadStatus, Reconcile, PostProcess, Report, Goto,
     Working
<1>8. pc'[w] # "post"
  BY <1>7 DEF Working
<1>9. pc'[w] \in Working => pc[w] \in Working \/ status \in {"RUNNING", "CANCEL_REQUESTED"}
  <2>1. status # "ABSENT"
    BY <1>4 DEF ExecutionInv, Begun
  <2>2. status \in Statuses
    BY DEF ExecutionInv, ExecutionTypeOK
  <2> QED BY <1>7, <2>1, <2>2 DEF Statuses, Active, Working
<1> QED BY <1>1, <1>2, <1>4, <1>5, <1>6, <1>8, <1>9, RowsStay

LEMMA PropagateCancelInv ==
  ASSUME ExecutionInv, NEW w \in Workers, PropagateCancel(w)
  PROVE  ExecutionInv'
<1>1. ExecutionTypeOK'
  BY HandlerTyped DEF ExecutionInv
<1>2. /\ UNCHANGED <<results, job, pc, outcome, budget>>
      /\ \/ status = "QUEUED" /\ status' = "CANCELLED"
         \/ status = "RUNNING" /\ status' = "CANCEL_REQUESTED"
  BY DEF PropagateCancel, CancelOf
<1>3. Begun' /\ ResultsMatchStatus'
  BY <1>2 DEF ExecutionInv, Begun, ResultsMatchStatus
<1>4. Finished'
  BY <1>2 DEF ExecutionInv, Finished, DoneJobEndedExecution, Ended
<1>5. Undisturbed'
  BY <1>2 DEF ExecutionInv, Undisturbed, AtJob, Holds
<1> QED BY <1>1, <1>3, <1>4, <1>5 DEF ExecutionInv

LEMMA ClaimByIdInv ==
  ASSUME ExecutionInv, NEW w \in Workers, ClaimById(w)
  PROVE  ExecutionInv'
<1>1. ExecutionTypeOK'
  BY HandlerTyped DEF ExecutionInv, HandlerStep
<1>2. pc \in [Workers -> Points] /\ outcome \in [Workers -> Outcomes]
  BY DEF ExecutionInv, ExecutionTypeOK
<1>3. CASE status # "QUEUED"
  <2>1. UNCHANGED <<status, results, job, budget>> /\ pc[w] = "claim" /\ pc'[w] = "reported"
    BY <1>2, <1>3 DEF ClaimById, Report, Goto, exec
  <2>2. /\ \A v \in Workers : v # w => pc'[v] = pc[v] /\ outcome'[v] = outcome[v]
        /\ outcome'[w] = "outcome" => outcome[w] = "outcome"
    BY <1>2, <1>3 DEF ClaimById, Report, Goto
  <2> QED BY <1>1, <2>1, <2>2, RowsStay DEF AtJob, Working
<1>4. CASE status = "QUEUED"
  <2>1. /\ status' = "RUNNING" /\ UNCHANGED <<results, job, outcome, budget>>
        /\ pc[w] = "claim" /\ pc' = [pc EXCEPT ![w] = "execute"]
    BY <1>4 DEF ClaimById, Report, Goto, HandlerUnchanged
  <2>2. Begun' /\ ResultsMatchStatus'
    BY <1>4, <2>1 DEF ExecutionInv, Begun, ResultsMatchStatus
  <2>3. Finished'
    BY <1>2, <1>4, <2>1 DEF ExecutionInv, Finished, DoneJobEndedExecution, Ended
  <2>4. Undisturbed'
    BY <1>2, <1>4, <2>1 DEF ExecutionInv, Undisturbed, AtJob, Holds, Working
  <2> QED BY <1>1, <2>2, <2>3, <2>4 DEF ExecutionInv
<1> QED BY <1>3, <1>4

\* While no worker stalled, the execution that is completed has not ended, and has no
\* results yet: the UPDATE that looks at nothing overwrites nothing.
LEMMA WriteStatusInv ==
  ASSUME ExecutionInv, NEW w \in Workers, WriteStatus(w)
  PROVE  ExecutionInv'
<1>1. ExecutionTypeOK'
  BY HandlerTyped DEF ExecutionInv, HandlerStep
<1>2. pc \in [Workers -> Points] /\ UNCHANGED <<job, outcome, budget>> /\ pc[w] = "write"
  BY DEF ExecutionInv, ExecutionTypeOK, WriteStatus, HandlerUnchanged
<1>3. /\ \/ status' \in Ended /\ pc' = [pc EXCEPT ![w] = "post"]
         \/ status' = status /\ results' = results /\ pc' = [pc EXCEPT ![w] = "reconcile"]
  BY DEF WriteStatus, Goto, StatusOf, Ended
<1>4. Begun'
  <2>1. status # "ABSENT"
    BY <1>2 DEF ExecutionInv, Begun, AtJob
  <2> QED BY <1>3, <2>1, EndedIsApart DEF Begun
<1>5. Finished'
  BY <1>2, <1>3 DEF ExecutionInv, Finished, DoneJobEndedExecution
<1>6. ASSUME budget.stalls = 0 PROVE status \in {"RUNNING", "CANCEL_REQUESTED"} /\ results = "none"
  <2>1. status \in {"RUNNING", "CANCEL_REQUESTED"}
    BY <1>2, <1>6 DEF ExecutionInv, Undisturbed, Working
  <2> QED BY <1>6, <2>1 DEF ExecutionInv, ResultsMatchStatus, ExecutionTypeOK
<1>7. ResultsMatchStatus'
  BY <1>2, <1>6 DEF ResultsMatchStatus, WriteStatus, ResultsConflict, ResultsOf, StatusOf
<1>8. Undisturbed'
  <2>1. ASSUME budget.stalls = 0, NEW v \in Workers, v # w PROVE pc[v] \notin Working
    BY <1>2, <2>1, Alone DEF AtJob, Working
  <2>2. ASSUME budget.stalls = 0, NEW v \in Workers, pc'[v] \in Working
        PROVE  status' \in {"RUNNING", "CANCEL_REQUESTED"}
    BY <1>2, <1>3, <1>6, <2>1, <2>2 DEF Working
  <2>3. ASSUME budget.stalls = 0, NEW v \in Workers, AtJob(v)'
        PROVE  AtJob(v)
    BY <1>2, <1>3, <2>3 DEF AtJob
  <2> QED BY <1>2, <2>2, <2>3 DEF ExecutionInv, Undisturbed, Holds
<1> QED BY <1>1, <1>4, <1>5, <1>7, <1>8 DEF ExecutionInv

LEMMA ExecutionIsInductive == ExecutionInv /\ [ExecutionNext]_executionVars => ExecutionInv'
<1> SUFFICES ASSUME ExecutionInv, [ExecutionNext]_executionVars PROVE ExecutionInv'
  OBVIOUS
<1>1. CASE UNCHANGED executionVars
  <2>1. ExecutionTypeOK'
    BY ExecutionTyped DEF ExecutionInv
  <2>2. UNCHANGED <<status, results, job, pc, outcome, budget>>
    BY <1>1 DEF executionVars, exec
  <2> QED BY <2>1, <2>2 DEF ExecutionInv, Begun, Finished, DoneJobEndedExecution, Undisturbed,
       ResultsMatchStatus, AtJob, Holds
<1>2. CASE ExecutionNext
  BY <1>2, OutsideInv, WorkerInv, ClaimJobInv, ReapInv, CloseInv, HandlerInv, PropagateCancelInv,
     ClaimByIdInv, WriteStatusInv
  DEF ExecutionNext, WorkerStep, HandlerStep
<1> QED BY <1>1, <1>2

LEMMA ExecutionInvariant == ExecutionSpec => []ExecutionInv
BY ExecutionInitInv, ExecutionIsInductive, PTL DEF ExecutionSpec

-----------------------------------------------------------------------------
(* Theorems *)

\* Every variable keeps its type.
THEOREM ExecutionTypeCorrect == ExecutionSpec => []ExecutionTypeOK
<1>1. ExecutionInv => ExecutionTypeOK
  BY DEF ExecutionInv
<1> QED BY <1>1, ExecutionInvariant, PTL

\* Unless a worker stalled, no two handler processes run one execution.
THEOREM HandlersAreAlone == ExecutionSpec => []OneHandler
<1>1. ExecutionInv => OneHandler
  <2> SUFFICES ASSUME ExecutionInv, budget.stalls = 0, NEW v \in Workers, NEW w \in Workers,
                      pc[v] \in InHandler, pc[w] \in InHandler
               PROVE  v = w
    BY DEF OneHandler
  <2>1. AtJob(v) /\ AtJob(w)
    BY DEF AtJob, InHandler
  <2> QED BY <2>1, Alone
<1> QED BY <1>1, ExecutionInvariant, PTL

\* Unless a worker stalled, the results stored are those of the status stored.
THEOREM ResultsHold == ExecutionSpec => []ResultsMatchStatus
<1>1. ExecutionInv => ResultsMatchStatus
  BY DEF ExecutionInv
<1> QED BY <1>1, ExecutionInvariant, PTL

\* A job that ended SUCCESS belongs to an execution that ended, whoever stalled.
THEOREM DoneJobsHold == ExecutionSpec => []DoneJobEndedExecution
<1>1. ExecutionInv => DoneJobEndedExecution
  BY DEF ExecutionInv, Finished
<1> QED BY <1>1, ExecutionInvariant, PTL

\* Unless a worker stalled, what has ended stays as it ended.
THEOREM EndsHold == ExecutionSpec => EndedStaysEnded
<1> DEFINE Stays == budget.stalls = 0 /\ status \in Ended => status' = status /\ results' = results
<1>1. ASSUME ExecutionInv, [ExecutionNext]_executionVars PROVE [Stays]_executionVars
  <2>1. CASE \E w \in Workers : WriteStatus(w)
    <3>1. PICK w \in Workers : pc[w] = "write"
      BY <2>1 DEF WriteStatus
    <3>2. budget.stalls = 0 => status \in {"RUNNING", "CANCEL_REQUESTED"}
      BY <1>1, <3>1 DEF ExecutionInv, Undisturbed, Working
    <3> QED BY <3>2 DEF Ended
  <2>2. CASE UNCHANGED <<status, results>>
    BY <2>2
  <2>3. CASE status \in Active \cup {"ABSENT"}
    BY <2>3, EndedIsApart
  <2>4. \/ \E w \in Workers : WriteStatus(w)
        \/ UNCHANGED <<status, results>> \/ status \in Active \cup {"ABSENT"}
    BY <1>1 DEF ExecutionNext, WorkerStep, HandlerStep, StartManual, Cancel, LeaseRunsOut, Stall,
       ClaimJob, Reap, StartHandler, RejectJob, BlockJob, StopHandler, HeartbeatRefused,
       TerminateHandler, HandlerReports, ReadJob, CloseJob, GetExecution, ClaimById, Execute,
       AddAttempt, ReadStatus, Reconcile, PostProcess, TotalDeadline, PropagateCancel, HandlerDies,
       Crash, Restart, Report, Gone, exec, executionVars, Active
  <2> QED BY <2>1, <2>2, <2>3, <2>4
<1> QED BY <1>1, ExecutionInvariant, PTL DEF ExecutionSpec, EndedStaysEnded
=============================================================================
