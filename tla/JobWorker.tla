------------------------------ MODULE JobWorker -------------------------------
(***************************************************************************)
(* PersistentJobWorker: several worker processes on one queue, the handler *)
(* process each forks for the job it claimed, and the cancellations,       *)
(* crashes and stalls that race with them.                                 *)
(*                                                                         *)
(* A worker does not hold the row it works on: it reads it                 *)
(* (require_by_id) and writes it in a later transaction, with the version  *)
(* it read.  fresh[w] says whether that version still matches, i.e. whether*)
(* nobody changed the row since.  Time shows only as a lease that ran out  *)
(* and an available_at or blocked_until that was reached.                  *)
(*                                                                         *)
(* A transaction that refuses a call raises JobConcurrencyError or         *)
(* JobLeaseError; where run_once does not catch it, the worker process     *)
(* ends, because run_forever catches nothing around run_once.              *)
(***************************************************************************)
EXTENDS Naturals, FiniteSets

CONSTANTS
  Jobs, Workers, NoWorker, NoJob,
  RetryCount, MaxBlocks, MaxRunning,
  Supervised,     \* the workers that are started again when they end
  MaxCrashes,     \* bounds: spontaneous ends of a worker process,
  MaxStalls,      \*   leases that run out under a worker still at its job,
  MaxReprocess    \*   dead letters sent back to the queue

ASSUME ConstantsAssumption ==
  /\ NoWorker \notin Workers /\ NoJob \notin Jobs
  /\ RetryCount \in Nat /\ MaxBlocks \in Nat /\ MaxRunning \in Nat \ {0}
  /\ Supervised \subseteq Workers
  /\ MaxCrashes \in Nat /\ MaxStalls \in Nat /\ MaxReprocess \in Nat

VARIABLES
  row,     \* the background_jobs rows
  pc,      \* where each worker is in run_forever
  task,    \* the job it claimed, or NoJob
  seen,    \* the status of that job in the worker's last reading of the row
  fresh,   \* whether the row is still the one it read
  result,  \* how the handler ended
  budget   \* crashes, stalls and reprocessings so far

local == <<pc, task, seen, result>>
vars == <<row, pc, task, seen, fresh, result, budget>>

Owned    == {"RUNNING", "CANCEL_REQUESTED"}
Terminal == {"SUCCESS", "TECHNICAL_ERROR", "TIMEOUT", "CANCELLED"}
Status   == {"ABSENT", "QUEUED", "BLOCKED"} \cup Owned \cup Terminal

\* live: the lease has not run out.  ready: available_at or blocked_until is
\* reached.  attempts and blocks stop counting where the code stops telling the
\* counts apart.
Row == [status : Status, owner : Workers \cup {NoWorker}, live : BOOLEAN, ready : BOOLEAN,
        attempts : 0..(RetryCount + 1), blocks : 0..MaxBlocks, letter : BOOLEAN]

Points  == {"down", "idle", "claim", "decide", "handle", "polled", "ended", "close"}
Results == {"none", "outcome", "retryable", "timeout", "permanent", "stopped", "lost"}

Init ==
  /\ row = [j \in Jobs |-> [status |-> "ABSENT", owner |-> NoWorker, live |-> FALSE,
                            ready |-> FALSE, attempts |-> 0, blocks |-> 0, letter |-> FALSE]]
  /\ pc = [w \in Workers |-> "idle"]
  /\ task = [w \in Workers |-> NoJob]
  /\ seen = [w \in Workers |-> "ABSENT"]
  /\ fresh = [w \in Workers |-> FALSE]
  /\ result = [w \in Workers |-> "none"]
  /\ budget = [crashes |-> 0, stalls |-> 0, reprocessed |-> 0]

-----------------------------------------------------------------------------
(* The queue's rows *)

LeastOf(m, n) == IF m < n THEN m ELSE n

\* Changed rows make every other reading of them stale; the worker that wrote,
\* if one did, gets the new row back.
Change(rows, writer) ==
  /\ row' = [j \in Jobs |-> IF j \in DOMAIN rows THEN rows[j] ELSE row[j]]
  /\ fresh' = [w \in Workers |-> IF task[w] \in DOMAIN rows THEN w = writer ELSE fresh[w]]

ChangeRow(j, r, writer) == Change([i \in {j} |-> r], writer)

Unclaimed(r) == [r EXCEPT !.owner = NoWorker, !.live = FALSE]

\* Mutant: the owner is not compared.
Accepted_AnyOwner(w, statuses) ==
  LET r == row[task[w]]
  IN  fresh[w] /\ r.status \in statuses /\ r.live

\* _require_owned_active and the version that goes with it
Accepted(w, statuses) ==
  LET r == row[task[w]]
  IN  fresh[w] /\ r.status \in statuses /\ r.owner = w /\ r.live

LiveJobs == {j \in Jobs : row[j].status \in Owned /\ row[j].live}

\* Mutant: a claim is taken over before its lease runs out.
Candidates_LiveToo ==
  {j \in Jobs : \/ row[j].status \in {"QUEUED", "BLOCKED"} /\ row[j].ready
                \/ row[j].status = "RUNNING"}

Candidates ==
  {j \in Jobs : \/ row[j].status \in {"QUEUED", "BLOCKED"} /\ row[j].ready
                \/ row[j].status = "RUNNING" /\ ~ row[j].live}

-----------------------------------------------------------------------------
(* The world around the workers *)

Enqueue(j) ==
  /\ row[j].status = "ABSENT"
  /\ ChangeRow(j, [row[j] EXCEPT !.status = "QUEUED", !.ready = TRUE], NoWorker)
  /\ UNCHANGED <<local, budget>>

RequestCancel(j) ==
  /\ \/ /\ row[j].status = "QUEUED"
        /\ ChangeRow(j, [row[j] EXCEPT !.status = "CANCELLED"], NoWorker)
     \/ /\ row[j].status = "RUNNING"
        /\ ChangeRow(j, [row[j] EXCEPT !.status = "CANCEL_REQUESTED"], NoWorker)
  /\ UNCHANGED <<local, budget>>

ReprocessDeadLetter(j) ==
  /\ row[j].letter /\ row[j].status = "TECHNICAL_ERROR"
  /\ budget.reprocessed < MaxReprocess
  /\ ChangeRow(j, [row[j] EXCEPT !.status = "QUEUED", !.ready = TRUE, !.attempts = 0,
                                 !.letter = FALSE], NoWorker)
  /\ budget' = [budget EXCEPT !.reprocessed = @ + 1]
  /\ UNCHANGED local

\* available_at or blocked_until is reached
BecomesReady(j) ==
  /\ row[j].status \in {"QUEUED", "BLOCKED"} /\ ~ row[j].ready
  /\ row' = [row EXCEPT ![j].ready = TRUE]
  /\ UNCHANGED <<local, fresh, budget>>

\* Nobody renews the lease of a claimant that ended at its job.
LeaseRunsOut(j) ==
  /\ row[j].status \in Owned /\ row[j].live
  /\ task[row[j].owner] # j
  /\ row' = [row EXCEPT ![j].live = FALSE]
  /\ UNCHANGED <<local, fresh, budget>>

\* A claimant still at its job sends no heartbeat for a whole lease: the machine
\* pauses, or the database is out of its reach.
Stall(j) ==
  /\ row[j].status \in Owned /\ row[j].live
  /\ task[row[j].owner] = j
  /\ budget.stalls < MaxStalls
  /\ budget' = [budget EXCEPT !.stalls = @ + 1]
  /\ row' = [row EXCEPT ![j].live = FALSE]
  /\ UNCHANGED <<local, fresh>>

-----------------------------------------------------------------------------
(* One worker *)

Goto(w, p)      == pc' = [pc EXCEPT ![w] = p]
Read(w)         == /\ seen' = [seen EXCEPT ![w] = row[task[w]].status]
                   /\ fresh' = [fresh EXCEPT ![w] = TRUE]
EndHandler(w, k) == result' = [result EXCEPT ![w] = k] /\ Goto(w, "ended")

\* The worker lets go of its job; p is where it goes on.
LetGo(w, p) ==
  /\ Goto(w, p)
  /\ task' = [task EXCEPT ![w] = NoJob]
  /\ seen' = [seen EXCEPT ![w] = "ABSENT"]
  /\ result' = [result EXCEPT ![w] = "none"]

\* An error leaves run_once, run_forever and the process.
Raises(w) ==
  /\ LetGo(w, "down")
  /\ fresh' = [fresh EXCEPT ![w] = FALSE]
  /\ UNCHANGED <<row, budget>>

Start(w) ==
  /\ pc[w] = "down"
  /\ Goto(w, "idle")
  /\ UNCHANGED <<row, task, seen, fresh, result, budget>>

Crash(w) ==
  /\ pc[w] # "down"
  /\ budget.crashes < MaxCrashes
  /\ LetGo(w, "down")
  /\ fresh' = [fresh EXCEPT ![w] = FALSE]
  /\ budget' = [budget EXCEPT !.crashes = @ + 1]
  /\ UNCHANGED row

\* Mutant: the reaper requeues cancelled claims too.
Reap_RequeuesAll(w) ==
  /\ pc[w] = "idle"
  /\ Goto(w, "claim")
  /\ LET expired == {j \in Jobs : row[j].status \in Owned /\ ~ row[j].live}
     IN  Change([j \in expired |-> [Unclaimed(row[j]) EXCEPT !.status = "QUEUED",
                                                            !.ready = TRUE]], NoWorker)
  /\ UNCHANGED <<task, seen, result, budget>>

\* release_expired_claims at the head of each turn of the loop
Reap(w) ==
  /\ pc[w] = "idle"
  /\ Goto(w, "claim")
  /\ LET expired == {j \in Jobs : row[j].status \in Owned /\ ~ row[j].live}
     IN  Change([j \in expired |->
                   [Unclaimed(row[j]) EXCEPT
                      !.status = IF @ = "RUNNING" THEN "QUEUED" ELSE "CANCELLED",
                      !.ready = TRUE]], NoWorker)
  /\ UNCHANGED <<task, seen, result, budget>>

\* max_running is reached, or there is nothing to claim.
ClaimNothing(w) ==
  /\ pc[w] = "claim"
  /\ Cardinality(LiveJobs) >= MaxRunning \/ Candidates = {}
  /\ Goto(w, "idle")
  /\ UNCHANGED <<row, task, seen, fresh, result, budget>>

\* Any candidate may be the first that no other transaction has locked.  The
\* quotas were judged on an earlier count (JobQueue) and are no guard here.
ClaimNext(w, j) ==
  /\ pc[w] = "claim"
  /\ j \in Candidates
  /\ row' = [row EXCEPT ![j] =
               [row[j] EXCEPT !.status = "RUNNING", !.owner = w, !.live = TRUE,
                              !.attempts = LeastOf(@ + 1, RetryCount + 1)]]
  /\ fresh' = [v \in Workers |-> v = w \/ (task[v] # j /\ fresh[v])]
  /\ task' = [task EXCEPT ![w] = j]
  /\ seen' = [seen EXCEPT ![w] = "RUNNING"]
  /\ Goto(w, "decide")
  /\ UNCHANGED <<result, budget>>

\* The usage policy allows the job's sources and a handler is registered.
StartHandler(w) ==
  /\ pc[w] = "decide"
  /\ Goto(w, "handle")
  /\ UNCHANGED <<row, task, seen, fresh, result, budget>>

\* No handler for the job type, an invalid source scope, or a policy that denied
\* the sources once too often.
RejectJob(w) ==
  /\ pc[w] = "decide"
  /\ EndHandler(w, "permanent")
  /\ UNCHANGED <<row, task, seen, fresh, budget>>

\* Mutant: no limit on how often a job is blocked.
BlockJob_NoLimit(w) ==
  /\ pc[w] = "decide"
  /\ LET j == task[w]
     IN  /\ fresh[w] /\ row[j].status = "RUNNING" /\ row[j].owner = w
         /\ ChangeRow(j, [Unclaimed(row[j]) EXCEPT !.status = "BLOCKED", !.ready = FALSE,
                                                   !.blocks = @ + 1], NoWorker)
         /\ LetGo(w, "idle")
         /\ UNCHANGED budget

\* The policy denies the sources: block_job looks at the owner, the version and
\* the status, not at the lease.
BlockJob(w) ==
  /\ pc[w] = "decide"
  /\ LET j == task[w]
     IN  /\ row[j].blocks < MaxBlocks
         /\ \/ /\ fresh[w] /\ row[j].status = "RUNNING" /\ row[j].owner = w
               /\ ChangeRow(j, [Unclaimed(row[j]) EXCEPT !.status = "BLOCKED", !.ready = FALSE,
                                                         !.blocks = @ + 1], NoWorker)
               /\ LetGo(w, "idle")
               /\ UNCHANGED budget
            \/ /\ ~ (fresh[w] /\ row[j].status = "RUNNING" /\ row[j].owner = w)
               /\ Raises(w)

\* The handler process sends its result, exits without one, or is ended at the
\* total deadline.
HandlerEnds(w) ==
  /\ pc[w] = "handle"
  /\ \E kind \in {"outcome", "retryable", "timeout", "permanent"} : EndHandler(w, kind)
  /\ UNCHANGED <<row, task, seen, fresh, budget>>

\* update_progress; whatever it raises is ignored
ReportProgress(w) ==
  /\ pc[w] = "handle"
  /\ row[task[w]].status = "RUNNING" /\ row[task[w]].owner = w
  /\ ChangeRow(task[w], row[task[w]], w)
  /\ UNCHANGED <<local, budget>>

PollRow(w) ==
  /\ pc[w] = "handle"
  /\ Read(w)
  /\ Goto(w, "polled")
  /\ UNCHANGED <<row, task, result, budget>>

\* _stop_error_for_inactive_job: the handler process is ended first
StopHandler(w) ==
  /\ pc[w] = "polled" /\ seen[w] # "RUNNING"
  /\ EndHandler(w, IF seen[w] = "CANCEL_REQUESTED" THEN "stopped" ELSE "lost")
  /\ UNCHANGED <<row, task, seen, fresh, budget>>

HeartbeatNotDue(w) ==
  /\ pc[w] = "polled" /\ seen[w] = "RUNNING"
  /\ Goto(w, "handle")
  /\ UNCHANGED <<row, task, seen, fresh, result, budget>>

\* A version conflict is ignored until the next turn; a lease that is not active
\* for this worker raises JobLeaseError, which is not caught.
Heartbeat(w) ==
  /\ pc[w] = "polled" /\ seen[w] = "RUNNING"
  /\ LET j == task[w]
         active == row[j].status \in Owned /\ row[j].owner = w /\ row[j].live
     IN  \/ /\ active
            /\ Goto(w, "handle")
            /\ \/ fresh[w] /\ ChangeRow(j, row[j], w)
               \/ ~ fresh[w] /\ UNCHANGED <<row, fresh>>
            /\ UNCHANGED <<task, seen, result, budget>>
         \/ /\ ~ active
            /\ Raises(w)

\* run_once and _fail read the row again before they write the end of the job
ReadToClose(w) ==
  /\ pc[w] = "ended"
  /\ Read(w)
  /\ Goto(w, "close")
  /\ UNCHANGED <<row, task, result, budget>>

\* Mutant: a retryable failure is retried for ever.
Closed_AlwaysRetried(r, asSeen, kind) ==
  CASE asSeen = "CANCEL_REQUESTED" -> [r EXCEPT !.status = "CANCELLED"]
    [] asSeen # "CANCEL_REQUESTED" /\ kind = "outcome" -> [r EXCEPT !.status = "SUCCESS"]
    [] asSeen # "CANCEL_REQUESTED" /\ kind = "retryable" ->
         [r EXCEPT !.status = "QUEUED", !.ready = FALSE]
    [] OTHER -> [r EXCEPT !.status = "TECHNICAL_ERROR"]

\* What complete, complete_cancelled and record_failure make of the row.
Closed(r, asSeen, kind) ==
  CASE asSeen = "CANCEL_REQUESTED" -> [r EXCEPT !.status = "CANCELLED"]
    [] asSeen # "CANCEL_REQUESTED" /\ kind = "outcome" -> [r EXCEPT !.status = "SUCCESS"]
    [] asSeen # "CANCEL_REQUESTED" /\ kind = "timeout" -> [r EXCEPT !.status = "TIMEOUT"]
    [] asSeen # "CANCEL_REQUESTED" /\ kind = "retryable" ->
         IF r.attempts <= RetryCount
         THEN [r EXCEPT !.status = "QUEUED", !.ready = FALSE]
         ELSE [r EXCEPT !.status = "TECHNICAL_ERROR", !.letter = TRUE]
    [] OTHER -> [r EXCEPT !.status = "TECHNICAL_ERROR"]

Expects(asSeen) == IF asSeen = "CANCEL_REQUESTED" THEN {"CANCEL_REQUESTED"} ELSE {"RUNNING"}

Close(w) ==
  /\ pc[w] = "close"
  /\ Accepted(w, Expects(seen[w]))
  /\ ChangeRow(task[w], Unclaimed(Closed(row[task[w]], seen[w], result[w])), NoWorker)
  /\ LetGo(w, "idle")
  /\ UNCHANGED budget

CloseRefused(w) ==
  /\ pc[w] = "close"
  /\ ~ Accepted(w, Expects(seen[w]))
  /\ Raises(w)

Turn(w) ==
  \/ Reap(w) \/ ClaimNothing(w) \/ StartHandler(w) \/ RejectJob(w) \/ BlockJob(w)
  \/ HandlerEnds(w) \/ PollRow(w) \/ StopHandler(w)
  \/ HeartbeatNotDue(w) \/ Heartbeat(w) \/ ReadToClose(w) \/ Close(w) \/ CloseRefused(w)
  \/ \E j \in Jobs : ClaimNext(w, j)

Next ==
  \/ \E j \in Jobs : \/ Enqueue(j) \/ RequestCancel(j) \/ ReprocessDeadLetter(j)
                     \/ BecomesReady(j) \/ LeaseRunsOut(j) \/ Stall(j)
  \/ \E w \in Workers : Turn(w) \/ ReportProgress(w) \/ Start(w) \/ Crash(w)

Spec == Init /\ [][Next]_vars

\* Time passes.  A worker process that has not ended goes on looping, and no
\* handler outlives the total deadline, which each turn of its loop looks at.  A
\* worker that ended is started again only if it is supervised.
Fairness ==
  /\ \A j \in Jobs : WF_vars(BecomesReady(j)) /\ WF_vars(LeaseRunsOut(j))
  /\ \A w \in Workers : WF_vars(Turn(w)) /\ SF_vars(HandlerEnds(w))
  /\ \A w \in Supervised : WF_vars(Start(w))

FairSpec == Spec /\ Fairness

-----------------------------------------------------------------------------
(* Properties *)

\* Every variable has its type.
TypeOK ==
  /\ row \in [Jobs -> Row]
  /\ pc \in [Workers -> Points]
  /\ task \in [Workers -> Jobs \cup {NoJob}]
  /\ seen \in [Workers -> Status]
  /\ fresh \in [Workers -> BOOLEAN]
  /\ result \in [Workers -> Results]
  /\ budget \in [crashes : 0..MaxCrashes, stalls : 0..MaxStalls, reprocessed : 0..MaxReprocess]

\* As long as no worker stalls, a worker at a job holds that job's live lease:
\* no other worker runs the job's handler meanwhile and the job is not finished
\* under it, whatever is cancelled or crashes (run_once, _execute_handler).  The
\* only thing that can refuse a worker the end of its job, and end the worker, is
\* a cancellation between the reading of the row and the write.
BusyWorkerHoldsLease ==
  budget.stalls = 0 =>
    \A w \in Workers :
      /\ task[w] # NoJob => /\ row[task[w]].status \in Owned
                            /\ row[task[w]].owner = w
                            /\ row[task[w]].live
      /\ pc[w] = "close" /\ ~ Accepted(w, Expects(seen[w])) =>
           seen[w] = "RUNNING" /\ row[task[w]].status = "CANCEL_REQUESTED"

\* A worker that lost its claim changes nothing in the job's row, however late
\* it reports: its fresh reading makes the version check useless, so this rests
\* on the claimed_by condition of each transaction.
LostClaimWritesNothing ==
  [][\A w \in Workers :
       /\ task[w] # NoJob
       /\ row[task[w]].owner # w
       /\ pc'[w] # pc[w] /\ pc[w] \in {"decide", "handle", "polled", "close"}
       => row'[task[w]] = row[task[w]]]_vars

\* Every job that waits is finished in the end, if one worker is kept running,
\* in spite of crashes of workers and of denials by the usage policy; and the
\* cancellation of a running job takes effect in the end, by its worker or, if
\* that one is gone, by the reaper.
EveryJobEnds ==
  \A j \in Jobs :
    /\ row[j].status = "QUEUED" ~> row[j].status \in Terminal
    /\ row[j].status = "CANCEL_REQUESTED" ~> row[j].status = "CANCELLED"

PhaseOf(status) ==
  CASE status = "ABSENT"                         -> "absent"
    [] status \in {"QUEUED", "BLOCKED"}          -> "waiting"
    [] status = "RUNNING"                        -> "held"
    [] status = "CANCEL_REQUESTED"               -> "stopping"
    [] status = "SUCCESS"                        -> "done"
    [] status \in {"TECHNICAL_ERROR", "TIMEOUT"} -> "failed"
    [] status = "CANCELLED"                      -> "cancelled"

Lifecycle == INSTANCE JobLifecycle WITH
               phase  <- [j \in Jobs |-> PhaseOf(row[j].status)],
               holder <- [j \in Jobs |-> row[j].owner]

\* The rows the workers produce keep the promises of JobLifecycle.
ImplementsLifecycle == Lifecycle!Spec
=============================================================================
