------------------------------- MODULE JobQueue -------------------------------
(***************************************************************************)
(* The persistent job queue: the rows of the background_jobs and           *)
(* job_dead_letters tables, and one action per transaction of              *)
(* PostgreSQLJobQueueRepository.                                           *)
(*                                                                         *)
(* A transaction whose statements read and write rows it has locked is one *)
(* atomic step.  A claim is two: it counts the live leases without locking *)
(* them, and what the rest of the world does before it takes a row is seen *)
(* by neither statement.  The caller is any worker, at any time: a call    *)
(* whose version, owner, status or lease does not match raises and changes *)
(* no row, so only the calls that succeed are steps.  The version a caller *)
(* presents is the row's, because every other version is refused;          *)
(* JobWorker models the snapshots the callers really hold.                 *)
(*                                                                         *)
(* Time is an integer.  A caller reads its clock before it opens its       *)
(* transaction, so the instant "at" a step works with may lie up to MaxLag *)
(* behind the database's present, now.                                     *)
(*                                                                         *)
(* A job is identified by its (job_type, idempotency_key) pair, on which   *)
(* the table has a unique constraint: to enqueue a pair that has a row     *)
(* returns that row.                                                       *)
(***************************************************************************)
EXTENDS Naturals, FiniteSets

CONSTANTS
  Jobs, Workers, NoWorker,
  Sources, SourcesOf,        \* SourcesOf[j]: the source_ids of the payload of j
  Lease,                     \* JobLeasePolicy.duration
  BlockDelay,                \* _BLOCKED_DELAY_SECONDS
  RetryCount, RetryDelay,    \* JobRetryPolicy; RetryDelay[n] follows attempt n
  MaxRunning, SourceLimit,   \* the concurrency quotas of the usage policy
  MaxLag,                    \* how far a caller's clock reading may be behind
  MaxTime, MaxVersion        \* bounds of the model: the clock, the changes of row j

ASSUME ConstantsAssumption ==
  /\ NoWorker \notin Workers
  /\ IsFiniteSet(Jobs)
  /\ SourcesOf \in [Jobs -> SUBSET Sources]
  /\ Lease \in Nat \ {0}
  /\ BlockDelay \in Nat
  /\ RetryCount \in Nat
  /\ RetryDelay \in [1..RetryCount -> Nat]
  /\ MaxRunning \in Nat \ {0}
  /\ SourceLimit \in [Sources -> Nat \ {0}]
  /\ MaxLag \in Nat
  /\ MaxTime \in Nat
  /\ MaxVersion \in [Jobs -> Nat]

VARIABLES
  now,        \* the present instant
  job,        \* the background_jobs rows
  openLetters,\* openLetters[j]: the OPEN dead letters of j
  claim       \* claim[w]: the claim w has begun and not ended

vars == <<now, job, openLetters, claim>>

Owned    == {"RUNNING", "CANCEL_REQUESTED"}
Terminal == {"SUCCESS", "TECHNICAL_ERROR", "TIMEOUT", "CANCELLED"}
Status   == {"ABSENT", "QUEUED", "BLOCKED"} \cup Owned \cup Terminal

NoTime == 0  \* the NULL of a timestamp column

Row == [status : Status, claimedBy : Workers \cup {NoWorker}, lease : Nat,
        availableAt : Nat, blockedUntil : Nat, attempts : Nat,
        cancelAsked : BOOLEAN, version : Nat]

NoRow == [status |-> "ABSENT", claimedBy |-> NoWorker, lease |-> NoTime,
          availableAt |-> NoTime, blockedUntil |-> NoTime, attempts |-> 0,
          cancelAsked |-> FALSE, version |-> 0]

\* claimed_at, the jobs whose leases the claim counted, and those whose leases
\* were renewed since although it had not counted them.
Claim == [at : Nat, counted : SUBSET Jobs, missed : SUBSET Jobs]

NoClaim == [at |-> NoTime, counted |-> {}, missed |-> {}]

Init ==
  /\ now = 1
  /\ job = [j \in Jobs |-> NoRow]
  /\ openLetters = [j \in Jobs |-> 0]
  /\ claim = [w \in Workers |-> NoClaim]

-----------------------------------------------------------------------------
(* What the transactions share *)

\* The instants a caller may have read from its clock before this step.
Readings == {t \in 1..now : now - t <= MaxLag}

Unclaimed(r) == [r EXCEPT !.claimedBy = NoWorker, !.lease = NoTime]

\* Every UPDATE of a row carries version = version + 1.
Bumped(r) == [r EXCEPT !.version = @ + 1]

Write(j, r) ==
  /\ job[j].version < MaxVersion[j]
  /\ job' = [job EXCEPT ![j] = Bumped(r)]
  /\ now' = now

\* _require_owned_active
OwnedActive(w, j, statuses, at) ==
  /\ job[j].status \in statuses
  /\ job[j].claimedBy = w
  /\ job[j].lease > at

\* Mutant: the reaper does not compare the lease.
Expired_AnyLease(r, at) == r.status \in Owned

Expired(r, at) == r.status \in Owned /\ r.lease <= at

\* The rows whose lease counts against the quotas.
LiveAt(at) == {j \in Jobs : job[j].status \in Owned /\ job[j].lease > at}

UsersOf(s, jobs) == {j \in jobs : s \in SourcesOf[j]}

\* _source_quota_allows
SourceQuotaAllows(j, counted) ==
  \A s \in SourcesOf[j] : Cardinality(UsersOf(s, counted)) < SourceLimit[s]

\* Mutant: an expired claim is taken over although its cancellation was requested.
Candidates_CancelledToo(at) ==
  {j \in Jobs : \/ job[j].status = "QUEUED" /\ job[j].availableAt <= at
                \/ job[j].status \in Owned /\ job[j].lease <= at}

Candidates(at) ==
  {j \in Jobs : \/ job[j].status = "QUEUED" /\ job[j].availableAt <= at
                \/ job[j].status = "RUNNING" /\ job[j].lease <= at
                \/ job[j].status = "BLOCKED" /\ job[j].blockedUntil <= at}

-----------------------------------------------------------------------------
(* The transactions *)

Enqueue(j, at) ==
  /\ job[j].status = "ABSENT"
  /\ job' = [job EXCEPT ![j].status = "QUEUED", ![j].availableAt = at]
  /\ UNCHANGED <<now, openLetters, claim>>

\* pg_advisory_xact_lock, which nothing but a claim takes, is held to the end of
\* the claim's transaction.
Counting == {w \in Workers : claim[w] # NoClaim}

\* Mutant: the advisory lock is not taken.
CountLeases_Unlocked(w, at) ==
  /\ claim[w] = NoClaim
  /\ Cardinality(LiveAt(at)) < MaxRunning
  /\ claim' = [claim EXCEPT ![w] = [at |-> at, counted |-> LiveAt(at), missed |-> {}]]
  /\ UNCHANGED <<now, job, openLetters>>

\* The first half of claim_next: the leases that are live now are counted; at
\* max_running the claim returns without a job.
CountLeases(w, at) ==
  /\ Counting = {}
  /\ Cardinality(LiveAt(at)) < MaxRunning
  /\ claim' = [claim EXCEPT ![w] = [at |-> at, counted |-> LiveAt(at), missed |-> {}]]
  /\ UNCHANGED <<now, job, openLetters>>

\* Its second half: a candidate that the counted leases leave room for is locked
\* and written.  Any of them may be the first: SKIP LOCKED passes over the rows
\* that other transactions hold, whatever their priority.
ClaimNext(w, j) ==
  LET at == claim[w].at
  IN  /\ w \in Counting
      /\ j \in Candidates(at) /\ SourceQuotaAllows(j, claim[w].counted)
      /\ Write(j, [job[j] EXCEPT !.status = "RUNNING", !.claimedBy = w,
                                 !.lease = at + Lease, !.attempts = @ + 1,
                                 !.blockedUntil = NoTime])
      /\ claim' = [claim EXCEPT ![w] = NoClaim]
      /\ UNCHANGED openLetters

\* No candidate is left to take, or the transaction is rolled back.
ClaimEnds(w) ==
  /\ w \in Counting
  /\ claim' = [claim EXCEPT ![w] = NoClaim]
  /\ UNCHANGED <<now, job, openLetters>>

\* A claim that has counted does not see that j's lease is renewed.
Missed(c, j) ==
  IF c = NoClaim \/ j \in c.counted THEN c ELSE [c EXCEPT !.missed = @ \cup {j}]

Heartbeat(w, j, at) ==
  /\ OwnedActive(w, j, Owned, at)
  /\ Write(j, [job[j] EXCEPT !.lease = at + Lease])
  /\ claim' = [v \in Workers |-> Missed(claim[v], j)]
  /\ UNCHANGED openLetters

\* The lease is not looked at: an owner whose lease ran out still reports.
UpdateProgress(w, j) ==
  /\ job[j].status = "RUNNING" /\ job[j].claimedBy = w
  /\ Write(j, job[j])
  /\ UNCHANGED <<openLetters, claim>>

\* Mutant: the blocked row keeps its claim.
BlockJob_KeepsClaim(w, j, at) ==
  /\ job[j].status = "RUNNING" /\ job[j].claimedBy = w
  /\ Write(j, [job[j] EXCEPT !.status = "BLOCKED",
                             !.blockedUntil = at + BlockDelay])
  /\ UNCHANGED <<openLetters, claim>>

BlockJob(w, j, at) ==
  /\ job[j].status = "RUNNING" /\ job[j].claimedBy = w
  /\ Write(j, [Unclaimed(job[j]) EXCEPT !.status = "BLOCKED",
                                        !.blockedUntil = at + BlockDelay])
  /\ UNCHANGED <<openLetters, claim>>

\* _finish_owned_job
Finish(w, j, allowed, status, at) ==
  /\ OwnedActive(w, j, allowed, at)
  /\ Write(j, [Unclaimed(job[j]) EXCEPT !.status = status])
  /\ UNCHANGED <<openLetters, claim>>

Complete(w, j, at)          == Finish(w, j, {"RUNNING"}, "SUCCESS", at)
CompleteCancelled(w, j, at) == Finish(w, j, {"CANCEL_REQUESTED"}, "CANCELLED", at)

FailureKinds == {"RETRYABLE_TECHNICAL", "PERMANENT_TECHNICAL", "TIMEOUT"}

Retries(j, kind) == kind = "RETRYABLE_TECHNICAL" /\ job[j].attempts <= RetryCount

RecordFailure(w, j, kind, at) ==
  /\ OwnedActive(w, j, {"RUNNING"}, at)
  /\ \/ /\ Retries(j, kind)
        /\ Write(j, [Unclaimed(job[j]) EXCEPT
                       !.status = "QUEUED",
                       !.availableAt = at + RetryDelay[job[j].attempts]])
        /\ UNCHANGED openLetters
     \/ /\ ~ Retries(j, kind)
        /\ Write(j, [Unclaimed(job[j]) EXCEPT
                       !.status = IF kind = "TIMEOUT" THEN "TIMEOUT"
                                                      ELSE "TECHNICAL_ERROR"])
        /\ openLetters' = IF kind = "RETRYABLE_TECHNICAL"
                          THEN [openLetters EXCEPT ![j] = @ + 1]
                          ELSE openLetters
  /\ UNCHANGED claim

RequestCancel(j) ==
  /\ \/ /\ job[j].status = "QUEUED"
        /\ Write(j, [Unclaimed(job[j]) EXCEPT !.status = "CANCELLED",
                                              !.cancelAsked = TRUE])
     \/ /\ job[j].status = "RUNNING"
        /\ Write(j, [job[j] EXCEPT !.status = "CANCEL_REQUESTED",
                                   !.cancelAsked = TRUE])
  /\ UNCHANGED <<openLetters, claim>>

\* Mutants: the status of the dead letter is not looked at; it stays OPEN.
ReprocessDeadLetter_AnyLetter(j, at) ==
  /\ job[j].status = "TECHNICAL_ERROR"
  /\ Write(j, [job[j] EXCEPT !.status = "QUEUED", !.availableAt = at, !.attempts = 0])
  /\ openLetters' = [openLetters EXCEPT ![j] = @ - 1]
  /\ UNCHANGED claim
ReprocessDeadLetter_StaysOpen(j, at) ==
  /\ openLetters[j] > 0
  /\ job[j].status = "TECHNICAL_ERROR"
  /\ Write(j, [job[j] EXCEPT !.status = "QUEUED", !.availableAt = at, !.attempts = 0])
  /\ UNCHANGED <<openLetters, claim>>

ReprocessDeadLetter(j, at) ==
  /\ openLetters[j] > 0
  /\ job[j].status = "TECHNICAL_ERROR"
  /\ Write(j, [job[j] EXCEPT !.status = "QUEUED", !.availableAt = at, !.attempts = 0])
  /\ openLetters' = [openLetters EXCEPT ![j] = @ - 1]
  /\ UNCHANGED claim

\* Mutant: one UPDATE that requeues every expired claim.
Released_Requeued(r, at) ==
  IF Expired(r, at) THEN Bumped([Unclaimed(r) EXCEPT !.status = "QUEUED"]) ELSE r

\* The reaper: one UPDATE for the cancelled rows, one for the running ones.
Released(r, at) ==
  IF ~ Expired(r, at) THEN r
  ELSE Bumped([Unclaimed(r) EXCEPT
                 !.status = IF @ = "RUNNING" THEN "QUEUED" ELSE "CANCELLED"])

ReleaseExpiredClaims(at) ==
  /\ \E j \in Jobs : Expired(job[j], at)
  /\ \A j \in Jobs : Expired(job[j], at) => job[j].version < MaxVersion[j]
  /\ job' = [j \in Jobs |-> Released(job[j], at)]
  /\ UNCHANGED <<now, openLetters, claim>>

Tick ==
  /\ now < MaxTime
  /\ now' = now + 1
  /\ UNCHANGED <<job, openLetters, claim>>

\* The transactions a worker runs on a job it holds.
OwnerStep(w, j) ==
  \/ UpdateProgress(w, j)
  \/ \E at \in Readings :
       \/ Heartbeat(w, j, at)
       \/ BlockJob(w, j, at)
       \/ Complete(w, j, at)
       \/ CompleteCancelled(w, j, at)
       \/ \E kind \in FailureKinds : RecordFailure(w, j, kind, at)

Next ==
  \/ Tick
  \/ \E j \in Jobs : RequestCancel(j)
  \/ \E w \in Workers : ClaimEnds(w) \/ \E j \in Jobs : OwnerStep(w, j) \/ ClaimNext(w, j)
  \/ \E at \in Readings :
       \/ ReleaseExpiredClaims(at)
       \/ \E j \in Jobs : Enqueue(j, at) \/ ReprocessDeadLetter(j, at)
       \/ \E w \in Workers : CountLeases(w, at)

Spec == Init /\ [][Next]_vars

-----------------------------------------------------------------------------
(* Properties *)

\* Every variable has its type.
TypeOK ==
  /\ now \in Nat \ {0}
  /\ job \in [Jobs -> Row]
  /\ openLetters \in [Jobs -> Nat]
  /\ claim \in [Workers -> Claim]

\* A row names a claimant and carries a lease exactly while it is RUNNING or
\* CANCEL_REQUESTED: no transaction leaves a claim behind on a row it hands
\* back, blocks or ends (claim_next, block_job, record_failure,
\* _finish_owned_job, request_cancel, release_expired_claims).
ClaimMatchesStatus ==
  \A j \in Jobs : /\ job[j].status \in Owned <=> job[j].claimedBy # NoWorker
                  /\ job[j].status \in Owned <=> job[j].lease # NoTime

\* A cancellation is never lost and never invented: from request_cancel on the
\* row stays CANCEL_REQUESTED or CANCELLED, whatever its owner, the reaper, a
\* retry or a dead-letter reprocessing do next; no other row gets there.
CancelIsKept ==
  \A j \in Jobs :
    job[j].cancelAsked <=> job[j].status \in {"CANCEL_REQUESTED", "CANCELLED"}

\* A job has at most one OPEN dead letter, only while it is TECHNICAL_ERROR
\* with its retries used up; so reprocess_dead_letter never meets a job that is
\* "not in a reprocessable status".
DeadLettersMatchJobs ==
  \A j \in Jobs :
    openLetters[j] > 0 => /\ openLetters[j] = 1
                          /\ job[j].status = "TECHNICAL_ERROR"
                          /\ job[j].attempts > RetryCount

WithinQuotas(jobs, S) ==
  /\ Cardinality(jobs) <= MaxRunning
  /\ \A s \in S : Cardinality(UsersOf(s, jobs)) <= SourceLimit[s]

\* A claim leaves the leases that are live at present within the total and the
\* quotas of its sources, although the claimant counted them with a clock that
\* lags, in an earlier statement and without locking them.  Nothing takes a claim
\* over the quotas but a heartbeat in between that revives a lease which had run
\* out on the claimant's clock: other claims are kept out by the advisory lock.
ClaimsRespectQuotas ==
  [][\A j \in Jobs, w \in Workers :
       job'[j].attempts > job[j].attempts /\ job'[j].claimedBy = w
       => WithinQuotas(LiveAt(now)' \ claim[w].missed, SourcesOf[j])]_vars

\* While a lease is live only its owner ends the claim: nobody else takes the
\* job over, requeues or finishes it.
LeaseProtectsOwner ==
  [][\A j \in Jobs :
       /\ job[j].claimedBy # NoWorker /\ job[j].lease > now
       /\ job'[j].claimedBy # job[j].claimedBy
       => OwnerStep(job[j].claimedBy, j)]_vars

\* Every change of a row moves its version by one, so a snapshot whose version
\* still matches is the present row: the premise of optimistic concurrency.
VersionCountsChanges ==
  [][\A j \in Jobs :
       /\ job[j].status # "ABSENT"
       /\ job'[j] # job[j]
       => job'[j].version = job[j].version + 1]_vars

\* A finished job is left alone, except that reprocess_dead_letter puts one
\* that failed back in the queue and closes its dead letter in the same step.
FinishedStaysFinished ==
  [][\A j \in Jobs :
       /\ job[j].status \in Terminal
       /\ job'[j] # job[j]
       => /\ job[j].status = "TECHNICAL_ERROR" /\ job'[j].status = "QUEUED"
          /\ openLetters[j] = 1 /\ openLetters'[j] = 0]_vars

-----------------------------------------------------------------------------
(* The refinement: what a submitter or a worker sees of the rows *)

PhaseOf(status) ==
  CASE status = "ABSENT"                         -> "absent"
    [] status \in {"QUEUED", "BLOCKED"}          -> "waiting"
    [] status = "RUNNING"                        -> "held"
    [] status = "CANCEL_REQUESTED"               -> "stopping"
    [] status = "SUCCESS"                        -> "done"
    [] status \in {"TECHNICAL_ERROR", "TIMEOUT"} -> "failed"
    [] status = "CANCELLED"                      -> "cancelled"

Lifecycle == INSTANCE JobLifecycle WITH
               phase  <- [j \in Jobs |-> PhaseOf(job[j].status)],
               holder <- [j \in Jobs |-> job[j].claimedBy]

\* The queue keeps the promises of JobLifecycle.
ImplementsLifecycle == Lifecycle!Spec

=============================================================================
