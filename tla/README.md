# Verification of the data quality system

TLA+ specifications of this repository's Python application (`src/veri_kalitesi`), model-checked
with TLC, with proofs checked by TLAPS. File names without a directory are relative to
`src/veri_kalitesi`. [PROJECT.json](PROJECT.json) names, for each definition, the lines it stands for.

1. [The system](#1-the-system) 2. [What models what](#2-what-models-what)
3. [The runs](#3-the-runs) 4. [Fairness](#4-fairness) 5. [The proofs](#5-the-proofs)
6. [Where code and documents disagree](#6-where-code-and-documents-disagree)
7. [Observed, without a run](#7-observed-without-a-run) 8. [Not modelled](#8-not-modelled)
9. [Plan](#9-plan)

## 1. The system

A FastAPI application and any number of worker processes share one PostgreSQL database. The
application stores executions, rules, issues and schedules, and puts jobs into the table
`background_jobs`; the workers take the jobs, run each in a forked handler process against the
monitored databases, and store the results. There is no message broker and no leader: all
coordination is rows, row locks, optimistic versions, advisory locks and leases, at READ COMMITTED
(`persistence/database.py`). Retention, ServiceNow, identity and synthetic data keep their rows in
SQLite, under a lock and a connection that the threads of one process share.

    API ──start, cancel──► rule_executions ◄──status, results── handler process
     │                          │ same transaction                    ▲ fork
     └──────────────────► background_jobs ◄──claim, heartbeat, end── worker ◄─ schedules
                                                                      │
    every transaction ──stage──► audit_outbox ──publish_pending──► audit_events (hash chain)
    results below threshold ──► data_quality_issues ──► notification_deliveries
    ended executions ──► scores ──► score_publications
    a command of one user ──► request ──decision of another──► what it asked for

| Component | State | Operations | What is hard | What makes it correct |
|---|---|---|---|---|
| Job queue (`jobs/postgresql_repository.py`) | `background_jobs`, `job_dead_letters` | enqueue, claim, heartbeat, progress, block, complete, cancel, fail, release expired claims, reprocess | callers race, with clocks that differ; leases expire under a live owner; a claim counts leases it does not lock | one holder; a live lease is respected; cancellations are kept; a claim respects the quotas it could see; retries and dead letters match |
| Job worker (`jobs/worker.py`, `jobs/handlers.py`) | the claimed job as last read, the handler process | reap, claim, decide, run, poll, heartbeat, stop, close | every decision uses a stale row; cancellations, deadlines and crashes in between | a worker at a job holds its lease; a lost claim writes nothing; jobs end |
| Worker registry | `background_workers` | register, heartbeat, drain, stop | two processes with one id; lost replies | a process on its way out does not take its successor with it |
| Executions (`executions/`, `api/postgresql_execution.py`, `jobs/execution_command.py`) | `rule_executions`, attempts, results | start, cancel, run, complete, reconcile | two rows for one piece of work, written by different processes; unlocked reads | results match the status; an end is final; a successful job ended its execution |
| Schedules (`executions/scheduling.py`) | `schedules` | create, trigger, turn on and off | all workers trigger; a claim and the start are two transactions; clocks go forward and back | no occurrence skipped, none claimed twice |
| Audit (`audit/`) | `audit_outbox`, `audit_events` | stage, publish, append, verify | a batch in one transaction, its appends in others | an unbroken chain that holds what was committed |
| Issues (`issues/`) | `data_quality_issues`, resolutions, verifications | trigger, reassign, investigate, resolve, verify, close | a command judges what it read and writes later; failures recur in between | four eyes; one verdict on each resolution; nothing judged on a row that is gone |
| Evidence (`issues/evidence_files.py`) | `issue_evidence_files`, objects in two directories | upload, scan, delete, download | scans and deletions overtake each other and write whole rows | only clean files are sent; a resolution keeps what it rests on |
| Notifications (`notifications/`) | `notification_deliveries` | attempt, retry, read | the row that is handed back is not the one that was written | each attempt's outcome is recorded |
| Rules (`rules/`) | rules, versions, tests, approval requests | draft, test, request, decide, withdraw, expire, activate, passivate | expiry races a decision; a rule's status is updated by key | no critical version in force that its preparer cleared |
| Governance (`governance/`) | approval requests and the objects they are about | request, decide, withdraw, apply | the object changes in between; an application is two transactions | what is applied was approved by another, and once |
| Scoring (`scoring/`) | scores, publications, configurations with approvals | calculate, publish, submit, decide | an execution takes in the latest results of other ones; publications and decisions race | one current publication of a period, one active configuration, scores that follow from results |
| Reporting (`reporting/`) | `reports`, `report_schedules` | trigger, request, generate | workers race and die; deleted schedules | an occurrence gets one report; a report ends READY or FAILED unless its process dies or the database refuses the write |
| Retention (`retention/`) | legal holds, disposal jobs, recalls | place and release holds, dispose, recall | a hold placed during a disposal | what the hold was committed for before the evaluation is not disposed of |
| Identity (`identity/`) | sessions, throttling windows | log in, replace, validate, touch, log out | parallel attempts, stale touches | one session of a user; attempts are bounded; ended sessions stay ended |
| Data sources (`data_sources/`) | sources, connection tests and revisions, requests, discoveries, diffs, catalogue | test, activate, revise, discover, apply a diff | a test of an older revision is recorded late; diffs computed on an older catalogue, applied by key, in part | an active connection passed its test; an applied diff brings the catalogue in line with what was found and keeps what was decided about a field |
| ServiceNow (`servicenow/`) | ticket links, retry jobs, the circuit | create, retry, probe | callers that die holding a probe or a claim | a deferred delivery is held by one caller until it is recorded |
| Synthetic data (`synthetic_data/`) | policies, runs, validations, completions | request, validate, complete | policies change between the calls; records and their reference come from different hands | a completion rests on the verdict stored under its reference |
| Lineage, dashboard, rule evaluation, secure SDLC, frontend, migrations | see section 8 | | | |

Components interact by calls inside one transaction (API start and cancel: execution and job
together; every command: its rows and its outbox row), through shared rows (worker and handler
process on the execution; reaper and owner on the job) and, between worker and handler process, by a
pipe for results and progress and an event for cancellation. The API runs as one process
(`infra/application/Dockerfile:20`) whose handlers call the services synchronously while background
tasks run in threads; the optimistic versions and conditions of the code are meant for several, and
the models let requests interleave between any two transactions.

The behaviours that are hard to test are listed under `hazards` in PROJECT.json, each at its line.

## 2. What models what

| Module | Models | One action is |
|---|---|---|
| `JobLifecycle` | what the queue promises, without clock, version, retries or quota | a promise: submit, take, withdraw, ... |
| `JobQueue` | `PostgreSQLJobQueueRepository`: rows, open dead letters, the clock, claims under way | one transaction; a claim is two (what it counts, what it takes) |
| `JobWorker` | `PersistentJobWorker` and the fork it watches: rows (time reduced to "lease live", "ready"), each worker's program point and stale reading | one statement of the loop, or one transaction |
| `WorkerRegistry` | `register_worker` to `stop_worker`, `run_forever`, `_drain` | one call; `register_worker` is two |
| `ExecutionLifecycle` | an execution and its job, from the API to the handler process | one transaction; `complete_*` is two |
| `ReaperAudit` | `release_expired_claims`, statement by statement | one statement of the reaper, one transaction of another |
| `Scheduling` | a schedule of any type in a zone whose clock changes; `trigger_due`, `claim_due`, `create_or_get`, `advance`, `set_active` | one transaction, or the read before it |
| `AuditTrail` | outbox, `publish_pending`, `append`, the advisory lock | one statement |
| `IssueWorkflow` | `IssueService`: one issue, its resolutions and verifications, what each request has read | the read of a command, its check, its write; a trigger |
| `EvidenceFiles` | uploads, scans, deletions and downloads of the files of one issue | one transaction, or one move of an object |
| `NotificationDelivery` | `NotificationDeliveryService.attempt_delivery` | one transaction, or the adapter's answer |
| `GovernanceApproval` | `GovernanceApprovalCommandService` through to the writers, for each type of request | the read of a command, its write; the two writes of an application |
| `RuleApproval` | `RuleService`: one rule, its versions, tests and requests | the reads of a command, its write |
| `ScoringConfiguration` | submission and decision of configurations | the select of a decision, its writes |
| `ScoreAggregation` | how results become scores (pure operators) | |
| `ScorePublication` | the ending of executions, their scores, their publication in a period | the select of a publication, its writes |
| `SourceActivation` | one source, its connection tests, revisions and requests | the read, the test, the write of a command |
| `MetadataDiscovery` | discoveries, diffs entry by entry, and the catalogue of datasets and fields, against a source that changes and classifications that are decided meanwhile | one transaction, or the look at the source or the catalogue |
| `Retention` | holds, disposals with their evaluation, recalls | the clock reading, the evaluation, the write |
| `ServiceNow` | one ticket, the retry queue, the circuit, callers that die | one repository call, or the answer of the service |
| `Reporting` | `trigger_due` over report schedules; a report and its generation | one transaction |
| `Sessions` | throttle, login, replacement, validation, touch, logout | one transaction, or the answer of LDAP |
| `SyntheticRuns` | request, validation and completion of generator runs | the read, the write |
| `*Proofs` | theorems: `JobQueueProofs`, `JobWorkerProofs`, `ExecutionLifecycleProofs` about the modules they are named after; `AuditTrailProofs`, `BackgroundProofs`, `ApprovalsProofs` (with the lemmas of `DecisionProofs`) and `OperationsProofs` about all components of the combined runs | |
| `MC...` | instances for TLC; `MCQueueAndAudit`, `MCBackground`, `MCApprovals` and `MCOperations` put several components into one run | |

How they compose. `JobQueue` and `JobWorker` describe the same rows from two sides: the first knows
clocks, quotas and versions and lets any caller call anything, the second knows what a caller
really holds when it calls. Both implement `JobLifecycle`
(`ImplementsLifecycle`, through `INSTANCE JobLifecycle WITH`): `BLOCKED` and `QUEUED` are both
"waiting", `TECHNICAL_ERROR` and `TIMEOUT` both "failed", and the holder is `claimed_by`.
`ExecutionLifecycle` takes from these two what one job does and puts the execution and the
statements of the handler process beside it. `ReaperAudit` opens up one transaction that `JobQueue`
treats as one step. `AuditTrail` is what "with its event" means in all the others.
`ScorePublication` is `ScoreAggregation` under the orders in which executions end and publish.
`GovernanceApproval` contains the targets of the requests (execution, schedule, ownership, threshold
and the like) as values with versions, changed as their writers change them.

The combined MC modules. Components that share no row and no variable are explored in one run as a
sum, not a product: a variable `part` says which one a behaviour is about and never changes, and the
others stay in an initial state of theirs. A property of one component says of the other behaviours
only that it holds of the initial state, and no action of an inactive part is enabled, so its
fairness asks for nothing.

Definitions named after a bug (`Released_Requeued`, `Lock_Shared`, ...) are no part of a
specification: they are variants of the definition that follows them, kept to show that each
property notices such a bug. PROJECT.json lists them as `mutants`.

Abstractions that all modules share:

- A call that the code refuses (wrong version, owner, status, lease) rolls back and changes no row;
  it is a step only where the caller goes on in some other way (`CloseRefused`, `Heartbeat`,
  `Write` of a conflict, ...).
- A transaction that locks its row first, or is a single statement, is one step. One that reads without a
  lock and writes later is two (`ReadStatus` and `WriteStatus`, `RegisterRead` and `RegisterWrite`,
  `StartScheduled` and `InsertExecution`); so is every command of a service, which reads in one session and
  writes in another, and the claim of a job (`CountLeases` and `ClaimNext`). After the first write a
  transaction holds the rows and index entries it met until it ends, so its writes are one step
  (`ScoringConfiguration`, `ScorePublication`).
- Names, payloads, messages, digests and authorisation scopes are left out; audit events only
  appear in `ReaperAudit`, `AuditTrail` and `SyntheticRuns`.
- Variables marked "history" are read by properties only.

## 3. The runs

| Run | Checks | Distinct states | Shows |
|---|---|---|---|
| `queue_and_audit` | `RecordsTypeOK`; `ClaimMatchesStatus`, `CancelIsKept`, `DeadLettersMatchJobs`, `ClaimsRespectQuotas`, `LeaseProtectsOwner`, `ImplementsLifecycle`; `ChainIntact`, `OnlyCommittedRecorded`, `PublishedIsRecorded`, `CommittedIsPublished` | 638,016 | every order of every transaction of the queue, with callers whose clocks lag and heartbeats inside a claim; the chain survives racing appenders that fail anywhere, and what was committed is published |
| `job_worker` | `TypeOK`, `BusyWorkerHoldsLease`, `LostClaimWritesNothing`, `ImplementsLifecycle`, `EveryJobEnds` | 217,836 | what workers do on stale readings is covered by the queue's checks, and jobs end |
| `execution_lifecycle` | `ResultsMatchStatus`, `DoneJobEndedExecution`, `OneHandler`, `EndedStaysEnded` | 1,646,665 | the unlocked reads of `complete_*` are sufficient as long as no worker stalls |
| `background` | `BackgroundTypeOK`, `NothingSkipped`, `OneClaimEach`, `WhatIsDueIsDone`, `RunningIsSettled`, `ReportsSettle` | 101,801 | schedules and report schedules neither lose nor repeat what is due; what runs is settled, or a write of it was refused |
| `approvals` | `ApprovalsTypeOK`, `TwoPeople`, `OnceEach`, `OneInForce`, `ResultsAreGrounded`, `GuardsHold`, `DecisionsAreFinal` | 927,059 | stale commands of two users do not get around second persons, limits, indexes or ends |
| `operations` | `OperationsTypeOK`, `SuccessorStaysInService`, `ActiveConnectionPassed`, `DisposalIsSafe`, `DeliveriesAreKept`, `DecisionsHold`, `AppliedDiffReconciles` | 1,022,090 | the same for the registry, sources, discoveries, retention and ServiceNow; an applied diff reconciles the catalogue and keeps its classifications |
| `execution_cancel` | `CancelWins` | violated | see 6.1 |
| `reaper_audit_trail` | `CancellationIsAudited` | violated | see 6.2 |
| `issue_stale_verification` | `VerificationIsCurrent` | violated | see 6.3 |
| `notification_outcome` | `OutcomeIsRecorded` | violated | see 6.4 |
| `scoring_scope` | `ScopesAreIndependent` | violated | see 6.5 |
| `shadow_scores` | `ShadowStaysOut` | violated | see 6.6 |

What the conjunctions say, part by part:

- `ClaimsRespectQuotas`: a claim leaves the leases that are live at present within the total and
  within the limits of its sources, except for leases that were revived, by a heartbeat with a lagging
  clock, after the claim had counted: neither the count nor the advisory lock keeps those out, and with
  them the quotas are exceeded (section 7). That the claimant's clock lags does no harm: it counts more.
- `ReportsSettle`: a report that was requested ends READY or FAILED, unless its process dies or the
  database refuses the write of RUNNING (it stays QUEUED) or of FAILED (it stays RUNNING), which stand
  outside the `try` (`reporting/worker.py:116`, `:179`, `:195`).
- `NothingSkipped`: of a schedule nobody turned off, every occurrence before its next run was
  started, is being started or was claimed by a worker that died (`NoOccurrenceSkipped`); a claim ends
  in an execution, a recorded failure or the death of its trigger (`ClaimsAreAnswered`); likewise for
  report schedules (`NoReportSkipped`).
- `OneClaimEach`: an occurrence is claimed once, and a periodic schedule once for each local date,
  also on the day whose hour comes twice (`ClaimedOnce`); an occurrence of a report schedule gets one
  report (`ReportedOnce`). `WhatIsDueIsDone`: what is due is taken up in the end.
- `TwoPeople`: no resolution passes by the hand that wrote it (`FourEyes`), no governed object
  changes on the word of one user (`ChangesAreApproved`), no rule leaves DRAFT without a
  version that passed a test and, if critical, was approved by a second person (`ActivationWasCleared`).
- `OnceEach`: one verdict on each resolution; a governance request changes its target at most once,
  although an application is two transactions that may be repeated after a crash (`ChangedOnce`);
  before a key is blocked, logins are rejected as often as the limit and once for each other attempt
  under way (`AttemptsAreBounded`); generator
  runs are stored once, with their events (`SyntheticRowsAreAudited`).
- `OneInForce`: one approved scoring configuration, one current publication of a period, one live
  session of a user.
- `ResultsAreGrounded`: every published score lies between two measurements its publication had to go by
  when it was computed: of the rules of its own execution the eligible results, of other rules of the same
  datasets the last ones that any SUCCESS execution left, which may be shadow results (6.6), but never a
  result without data, one that has been succeeded or one of a PARTIAL execution (`ScoresAreGrounded`); only
  files that passed a scan are sent, and the object of a file that a resolution names stays in the storage,
  whatever scans and deletions write into its row (`OnlyCleanFilesAreSent`, `ResolutionsKeepTheirEvidence`);
  a run ends with the output that its one stored verdict refers to, COMPLETED exactly if the records that
  were judged agreed with the ground truth, and with as many records as those (`CompletionsAreGrounded`).
  That they were the same records holds only of an output that was judged under its own reference (section
  7).
- `GuardsHold`: the conditions an issue command checked hold of the row it changes
  (`GuardsStillHold`); a request is accepted within the lifetime and idle time of its session
  (`AcceptedIsTimely`).
- `DecisionsAreFinal`: governance and rule requests keep their decision, an approval activates in
  its own step, ended sessions stay ended.
- `ActiveConnectionPassed`: the revision of an active source passed a test, also when tests of older
  revisions are recorded late.
- `DisposalIsSafe`: a hold that was stored before a disposal command began stops it; holds are released,
  disposals recorded and recalls decided by a second officer. `DeliveriesAreKept`: a claimed retry, and
  the probe of a half-open circuit, is in one hand until its outcome is recorded or the hand is gone;
  attempts stay within their limit; what is COMPLETED was delivered. `DecisionsHold`:
  approved source requests change the source in the same step, and only they activate it; settled
  discoveries, holds, disposals and recalls stay so.
- `AppliedDiffReconciles`: a diff of a complete discovery, applied in full to the catalogue it was
  computed on, passivates each table that was not found and each field that was not found of a table that was;
  a field that was found gets the type that was found (native type, nullable, sensitive), and it and its
  table are active unless the comparison listed no change of them. Classifications stay as they were,
  whatever the connector says: `field_signature` compares them, the application does not take them over
  (`tests/unit/test_metadata_diff_apply.py:250`).

### Bounds, and why they are enough

- Queue: two jobs, of which the second shares a source with the first and reads another; each source takes
  one job at a time; two workers; a claim takes any of its candidates, as SKIP LOCKED may pass over the
  others, so no order of priorities is claimed; both quotas are set (without them a claim takes no lock and
  counts nothing); a lease of one unit and clocks that lag by up to one unit, so that a caller may see a
  lease as live that has expired at present; one retry and up to five changes of one row, enough for claim,
  failure, claim, dead letter and reprocessing, and two of the other, enough to claim it and renew or lose
  the claim. With two jobs the limit of a source binds and the total (`MaxRunning` 2) does not; for the
  total there is the theorem.
- Audit trail: three staged events and a batch limit of two, so that batches overlap and one event
  waits for a second batch; two publishers and one direct appender; one failure; as many inserts as
  the events and a failure can use.
- `job_worker`: one job, since workers only meet on one, and two workers that may hold it at once
  after a stall; two crashes, two stalls, one block and one reprocessing.
- `execution_lifecycle`: two workers; two attempts, so that an attempt can be repeated and can
  collide with one on record; one block, one crash, one stall. In `background` it has no stall: a
  stall at any moment is not something the code answers for.
- Schedules: a day of two units with a local time at its second, over six units, in a zone whose
  clock goes forward at 3 and back at 5, so that one local time does not exist and one comes twice; weekly dates
  1, 3, 5 and monthly 2, 5; an interval of two, a single occurrence at 3; two triggers, one request
  at a time that may turn the schedule off and on three times, one crash. With two requests
  at a time `ClaimedOnce` fails (section 7). `Horizon` bounds the search for the next date.
- Reports: two triggers over two schedules, one of them a single run; two hours, one crash; one
  report with two generations.
- `approvals`: two users with every role, as second persons need two and a user's own stale request is the
  interesting one; two commands in flight; six versions of an issue, enough to resolve, refute, resolve
  again, verify and close, with one recurring failure. The first assignee and the first preparer of a rule
  are fixed to one of the two users, who are alike otherwise. Clocks do not lag (`MaxLag` 0): with a lag
  `updated_at` can go backwards, which only widens what 6.3 shows. Two requests for one object, and two
  versions of a dataset (one under requests to cancel an execution); two versions of a rule; two
  configurations in each scope.
- Scores: three executions over three rules, two datasets and two sources; endings with values that
  round, no data, a shadow result and a partial coverage; two periods. Results are fractions with
  denominator 3, where rounding to hundredths shows.
- Sessions: idle time 1, lifetime 2, two failures in a window of 2, a block of 1, two ticks: a
  session can expire in either way and a window can pass while a request is under way.
- Evidence: one file, uploaded twice, two requests, two scans, one reopening, one crash. Synthetic
  runs: one run, two policies that overlap for a day and one that comes later; a good output, a bad
  one of the same size and a shorter one, each of which may be judged under the reference of another.
- `operations`: three processes, so that a successor is itself replaced; eight versions; two revisions of a
  connection; two tables of two fields in a catalogue with one of them, passivated (a field of it is still
  active); a source that holds both tables, with a field fewer and a classification from the connector,
  and may come to hold one table with both fields; one change of it or of a classification, under two
  discoveries and two appliers; one record, hold, disposal and recall over two ticks; two ServiceNow
  callers, two tries, a circuit that opens after two failures for one tick.
- `notification_outcome`: two callers, as the job handler and the retry queue may meet.

`CHECK_DEADLOCK FALSE` stands where a behaviour may come to a stop: at a bound on a clock, a version
or a count; when an issue is closed, a schedule has ended, all events are published, a delivery is
read, a request is decided or all processes have ended. `job_worker` and `reaper_audit_trail` are
checked for deadlock: workers loop for ever.

Symmetry is used for workers, processes, jobs, commands and requests, and for users where none
is singled out, in runs without a liveness property (`AppliedDiffReconciles` and the like are properties of single steps).

## 4. Fairness

- `JobWorker`: weak fairness of each worker's loop: `run_forever` has no exit but an error or
  a signal. Strong fairness of `HandlerEnds`: each turn looks at the total deadline, so no handler
  goes on for ever although the loop keeps polling. Weak fairness of time (`BecomesReady`,
  `LeaseRunsOut`). Restart is fair for *supervised* workers only, one in the run: an error out of
  `run_once` ends the process, the development compose file has no restart policy, and without one
  nothing in the code makes a job end.
- `ExecutionLifecycle`: the same, with restarts; no fairness for cancellations, the watcher
  thread or deadlines.
- `Scheduling`, `Reporting`: every worker calls `trigger_due` in each turn of its loop, and a
  request that generates a report runs to its end unless its process dies.
- `AuditTrail`: services call `publish_pending` after their commits, again and again; failures are
  finite (`MaxFailures`). No fairness for business transactions.

Nothing else is fair, and the other specifications have no liveness property.

## 5. The proofs

TLC checks small instances; these theorems hold for every value of the constants, under
the assumption on the constants that each module states by name, and which TLC evaluates in each run.

`JobQueueProofs` (any finite set of jobs, any workers, sources, quotas, leases, retry policies and
lag):

| Theorem | States |
|---|---|
| `InvariantHolds` | the inductive invariant `IInv` |
| `TypeCorrect`, `ClaimsMatch`, `CancellationsAreKept`, `DeadLettersMatch` | types and the three invariants of `queue_and_audit` |
| `LeasesProtect`, `ClaimsRespect`, `VersionsCount`, `FinishedIsFinal` | what a step may not do; the last two (each change raises the version, only reprocessing touches an ended job) are not in a run |
| `QueueImplementsLifecycle` | `Spec => Lifecycle!Spec` |

`IInv` is `TypeOK` and, for each job, `RowOK(job[j], openLetters[j])`. The three invariants are not
inductive one by one: that reprocessing leaves at most one open letter needs that a letter is only
open while the job is `TECHNICAL_ERROR`; that a lease is `NULL` exactly when nobody holds the row
needs that a reading of the clock is positive; and that a failure finds a backoff for its attempt
needs that a held row has been claimed. Since every transaction but the reaper's writes one row,
a step is proved by showing that this row is `RowOK` again (a lemma per group of transactions) and that
the others did not move (`OneRowChanges`); the reaper is proved for all rows at once.

The quota argument (`ClaimsRespect`) has an invariant of its own, `CountInv`: of the claims that have
counted there is at most one, since they hold the advisory lock; and every lease that is live at its reading
`at` was counted, or has been renewed since (`missed`). Whatever else happens between the two statements
only ends leases. `at` lies before `now`, so what is live at present is live at `at`; the claim counted less than the
limit and adds one row, for the sources of the job alike. A state invariant would be false: a
heartbeat of an owner whose clock lags revives a lease that others no longer counted.

`JobWorkerProofs` (any jobs and workers, any number of crashes and stalls): `WorkerTypeCorrect`;
`LeaseIsHeld` (`BusyWorkerHoldsLease`), whose invariant says that as long as nobody stalls the row of
a worker's job is its own (`Mine`): a live lease is neither taken over nor reaped, so all that others
can do to the row is to ask for its cancellation, and the worker's reading is right but for that;
`LostClaimsAreHarmless` (`LostClaimWritesNothing`), which needs no such assumption, because every
statement of the worker names `claimed_by`; and `WorkersImplementLifecycle`: steps of the
world are `Submit`, `Withdraw` or `Reopen` of a job or a stutter, a claim is `Take`, the end of a
turn `Done`, `Fail`, `Stopped` or `Recover` of one job, and a reap `Recover` of the expired set.

`ExecutionLifecycleProofs`: `ExecutionTypeCorrect`, `HandlersAreAlone` (`OneHandler`), `ResultsHold`
(`ResultsMatchStatus`), `DoneJobsHold` (`DoneJobEndedExecution`) and `EndsHold`
(`EndedStaysEnded`). One invariant carries them: besides types it says which program points of a
handler imply that the execution has begun (`Begun`) or ended (`Finished`), and that while nobody
stalls whoever is at the job holds its lease and a handler past its claim has an execution that has
not ended (`Undisturbed`). The last is what takes the place of the row lock that the code lacks.

`AuditTrailProofs` (any events, publishers, limits and failures): `AuditTypeCorrect`, `ChainHolds`
(`ChainIntact`), `HistoryHolds` (the ledger only grows at its end), `RecordedIsCommitted`
(`OnlyCommittedRecorded`), `MarkedIsRecorded` (`PublishedIsRecorded`) and, with the queue,
`RecordsTypeCorrect`. For the chain the
invariant adds what the advisory lock brings about: an appender between `read` and
`commit` holds the lock, so there is at most one; what it has read is still the last hash; and the
number its `INSERT` drew is greater than every number in the ledger, although numbers of failed
inserts are gone. For the outbox it adds that batches are disjoint and `PENDING` and that whatever a publisher counts
as done is in the ledger (`BatchesOK`).

The combined runs. Each component has an inductive invariant of its own (`RegistryInv`, `IssueInv`,
`SchedulingInv`, ...), and a lemma (`OnePartMoves` and the like) says that a step of the composition is a step of one
component and a stutter of the others; from these follow the conjunctions that the runs check,
in the words of the runs. `IssuesAreSafe`, `SchedulesAreKept` and the other theorems about one
specification say the same from all its initial states, where a combined run holds those of the
inactive parts fixed. The invariants have one
pattern: a command works on what it read in an earlier transaction, and for each point of each
command the invariant says either that the write will compare it again (a version, a status, a
revision), or that it records something nobody can take back.

`OperationsProofs` (`OperationsTypeCorrect`, `SuccessorKeepsRow`, `ConnectionsInForcePassed`,
`DisposalsAreSafe`, `DeliveriesStayKept`, `OperationsDecisionsHold`, `DiffsReconcile`):

- Registry: of those in service only the process that registered last can know the
  present version of the row (`OnlyCurrentKnows`), since registering raises it.
- Sources: `ActiveConnectionPassed` needs that every revision but the first is promoted by a test, and that
  as long as the first one is in force no test of another has passed and waits to be recorded
  (`TestedInForce`); a request that is being inserted is in no other hands (`RequestsApart`).
- Discovery: a discovery is ended by one worker, at the version it read, and only that worker
  stores its diff, which says what it compared (`OneDiffEach`); an applier selects from what the diff lists
  (`SelectionsListed`); rows do not vanish, so what an applier looked up is there when it writes (`ReadsKept`).
  That a diff applied in full reconciles the catalogue then follows for each table and field from the kind of
  entry that `compare` gave it.
- Retention: what was evaluated free of holds at a time stays so, because a hold that is stored
  later does not stand at that time (`ClearedCommands`): this is where a hold stored during the
  command escapes, as the property says.
- ServiceNow: a claimed retry has one holder, who carries its key and its attempt
  (`ClaimsApart`); the probe of a half-open circuit has not been answered on record.

`ApprovalsProofs` and `DecisionProofs` (`ApprovalsTypeCorrect`, `ItTakesTwo`, `DoneOnce`, `InForceIsOne`,
`ResultsStayGrounded`, `GuardsAreKept`, `DecisionsStayFinal`):

- Issues: once resolved, an issue is never reassigned, so one person made all its resolutions
  (`OneCreator`); while it is RESOLVED its last resolution has no verdict (`AwaitsVerdict`); and who is about
  to pass it has looked at a resolution of somebody else (`CheckedByAnother`). A verification may be of
  an older resolution (6.3): by `OneCreator` the second person is one all the same.
- Governance: an effect leaves a trace on its target that permits no second one (`Trace`): a version,
  a created row, a status out of which the writer's command does not lead; and the request had
  a second person's approval when the effect took place (`WasApproved`).
- Rules: a rule that is not DRAFT any more has a version that passed a test and, if critical, was approved
  (`Cleared`); versions and test results are never taken back.
- Configurations and publications: the one in force stays in force until the step that puts
  another in its place (`Approves`, `OneCurrent`).
- Sessions: for each key, rejected attempts and those at the directory are together at most the
  limit and the number of other callers, counted by cardinalities of finite sets.
- Evidence: a file's row names an object that no other row and no upload under way names, so what moves it
  is its own scan or deletion (`FileRows`, `OwnObjects`); a resolution's object is in the available place,
  whatever the row says (`Resolutions`).
- Synthetic runs: the one validation on record is never replaced, so what a finalization found in it
  (its reference, its size, its verdict) still holds when the completion is stored.
- Scores: an aggregate is a quotient of sums over finite sets, and lies between two of its
  parts (`MeanIsBetween`, `AggregateStands`). Sums are folds, and the induction that bounds them is made by
  the least number of members for which the bound would fail (`WFMin` on the naturals), which needs
  no operator as a parameter.

`BackgroundProofs` (`BackgroundTypeCorrect`, `NothingIsSkipped`, `ClaimsAreSingle`, `SchedulesAreKept`,
`ReportsAreKept`): a row only moves on from the occurrence that was claimed, in the statement
that compares it; so what lies before it was claimed, and each claim is in the hands of one trigger or
answered in one way (`Answered`). That `advance` really goes to the next occurrence is a matter of the
calendar and comes first: the run of a date is the first instant that shows its local time (a date whose local time does not
exist has none), and the runs of dates are ordered like the dates (`RunsInOrder`).

Assumptions beyond types and finiteness, and why the code justifies them:

- `ZoneAssumption` of `Scheduling`: the offsets of a zone lie less than a day apart. A zone that
  skipped a whole date, as some did when they crossed the date line, is excluded: such a date has no run.
- `OneRequestAtATime` in `ClaimsAreSingle` and, for that part, in `SchedulesAreKept`: with two
  overlapping `set_active` calls the claim is false (section 7). What they do not need it for is stated without.
- The identifier for "nobody" ("none", `NoWorker`) is no user's, worker's or policy's identifier; tables are
  finite (`Jobs`, `Rules`, `Configurations`, `Callers`); the idle timeout of a session lies below its
  lifetime, as the settings demand.

Only model-checked: the liveness properties (`EveryJobEnds`, `RunningIsSettled`, `WhatIsDueIsDone`,
`ReportsSettle`, `CommittedIsPublished`), which need fairness and `ENABLED` and are out of the prover's
reach. Every other property of a run that passes is stated by a theorem. That a score is the
value its definition gives for every input, and not only one within its bounds, would need an
induction over data and is not proved. No module declares a RECURSIVE operator.

## 6. Where code and documents disagree

1. `execution_cancel`. A test says that a `CANCEL_REQUESTED` execution that is completed becomes
   `CANCELLED`. `complete_success` reads the status without a lock and updates by the key alone
   (`executions/postgresql_repository.py:526`): a cancellation committed in between is
   overwritten by `SUCCESS`. TLC's trace needs no crash and one worker.
2. `reaper_audit_trail`. Cancellations need an audit event, says `_require_audit`.
   `release_expired_claims` writes events for the rows of its `SELECT ... FOR UPDATE` and then cancels
   all rows that match at the `UPDATE` (`jobs/postgresql_repository.py:906`): a row that becomes
   `CANCEL_REQUESTED` in between is cancelled without one.
3. `issue_stale_verification`. `record_verification_result` refuses a check completed
   before the issue was resolved. Its write names the status only
   (`issues/postgresql_repository.py:628`): if the resolution was refuted and replaced meanwhile, the
   new resolution passes by a check older than itself. `FourEyes` and `OneVerdictPerResolution` hold
   all the same.
4. `notification_outcome`. `transition_delivery_status` returns `get_delivery`, which reads in
   another session before the update is committed (`notifications/postgresql_repository.py:547`).
   `attempt_delivery` takes the old version for the new one, its next transition is refused, and
   the delivery stays `SENDING`, which is never tried again. The unit tests use a repository double
   that returns the updated row.
5. `scoring_scope`. `decide_configuration_approval` closes the active configuration of the same
   scope only, as its comment says (`scoring/postgresql_repository.py:609`); the index
   allows one active row in the whole table. A configuration of a dataset cannot be approved while
   the global one is active.
6. `shadow_scores`. A dataset takes in the latest result of its other rules from any `SUCCESS`
   execution (`scoring/service.py:960`), shadow executions included, and marks it as part of the
   official aggregation.

## 7. Observed, without a run

Jobs and executions:

- A claim counts the live leases before it takes a row (`jobs/postgresql_repository.py:352`, `:373`), and
  a heartbeat takes no part in the advisory lock. The heartbeat of an owner whose clock lags, in between,
  renews a lease that had run out for the claimant: the claim goes over the quotas by that lease.

- A worker that lost its job stops the handler with `JOB_OWNERSHIP_LOST` and then has
  `record_failure` refused, which ends the worker (the double in
  `tests/unit/test_persistent_job_worker.py` accepts it).
- After a lost heartbeat reply a worker's row cannot be updated by it any more: `_drain` ignores the
  error and the row stays `RUNNING`.
- `close_expired_cancellations` is called from `run_next` only, and nothing calls `run_next`.
  `trigger_due` stores an execution without a job (`jobs/production.py:360`): an execution started by
  a schedule stays `QUEUED`.
- A repeated `start_manual` stores a job for the identifier of the execution it did not create
  (`strayJobs` of `GovernanceApproval`); two starts with one key at the same time meet at an index.
- `attempt_count` grows with every claim, also after a block or a lost lease
  (`jobs/postgresql_repository.py:585`). A progress message skips the checks of its turn
  (`jobs/worker.py:432`). `fail_active_execution` runs inside the handler process: it is not reached
  when that dies.
- Two overlapping `set_active` calls can put `next_run_at` back, so that an occurrence is claimed
  twice; the idempotency key of the execution makes up for it. `preview_runs` is called outside the
  `try` of `trigger_due`.
- Each publisher of audit events holds a connection while its appends take another
  (`audit/postgresql_outbox.py:85`); as many permanently failing events as the batch limit keep all
  others from being published (`:91`, the hazard without a property: `MaxFailures` is finite).

Issues, evidence, notifications:

- `reassign` prepares the notification from the issue as read (`issues/service.py:600`): with the
  batch stager, ISSUE_ASSIGNED goes to the former assignee.
- A verified issue can be closed although its failure recurred after the verification.
- A scan that ends after a deletion makes the file available again, and two scans of one file (a
  repeated upload starts another) may leave it SCAN_FAILED under the key of the quarantine. A crash
  between the move and the update leaves the row PENDING and the object gone. A repeated upload of a
  deleted file returns the deleted row. A resolution may come to name a deleted or a
  SCAN_FAILED file. The limit on the number of files is not atomic.
- The publisher of the production worker stores events with `source_ref` "" under a unique
  `(source_ref, event_type)` (`jobs/production.py:192`): the first event of each type is stored, later
  ones conflict and the error is swallowed (`issues/service.py:323`). Its recipient is the service
  actor. Nothing enqueues the delivery jobs that the stager prepares, nor calls
  `process_retry_queue`. The stream hub publishes before the commit and drops when full.
- `_handle_failure` names an outdated version in its second transition as well.

Approvals and scores:

- Applying a governance request clears checker, time and reason of the decision. Dataset versions are
  not compared again for executions. The module's docstring says INVALIDATED where the code writes
  APPLICATION_FAILED. A conflict while a dead letter is retried is not caught: the request stays APPROVED.
  Two concurrent applications run the writer's command twice, and its guard makes the second
  harmless.
- `update_rule_status` names the rule only: an activation under way may undo a passivation. An
  approval may be of a version that is no longer the latest (a test expects this). Nothing calls
  `expire_due` in production, and a request closed meanwhile aborts its sweep.
- Of two executions published at once in a period one meets the index, which is logged
  (`jobs/execution_command.py:146`) and not tried again; an older execution published late supersedes a
  newer one. A partial or shadow execution may publish through its siblings. A full
  score set reads the configuration once per aggregate. Partial score policies have no caller.
- A custom SQL rule may count more failures than its population; scoring then refuses.

Sources, operations, identity:

- `update_connection_test` by key undoes a deactivation in between, and the test of an older revision
  overwrites the status. `decide_*` do not look at the type of a request. Expiry, withdrawal
  and revisions are not wired into the API.
- A crash between request and enqueue leaves a discovery QUEUED without a job, and one after RUNNING
  leaves it RUNNING; after SUCCESS there may be no diff.
- The comparison knows no status, so what comes back as it was when it was passivated is no change: a dataset
  that returns unchanged, or only with fewer fields, and a field that returns with the same
  signature stay INACTIVE, also after a full application. The fields of a dataset that is removed stay ACTIVE.
- The rows of the catalogue are looked up in sessions before the one that writes them by key
  (`data_sources/service.py:1521`, `data_sources/postgresql_repository.py:2060`): a classification that is
  approved in between is set back; an ADDED entry for a field that exists by then resets
  it to UNCLASSIFIED. An older pending diff applied later overwrites newer types.
- A classification that a connector reports for a known field is listed as CHANGED by every discovery and never
  taken over; the connectors in the repository report none.
- A hold that is stored while a disposal command runs does not stop it (`HoldsAreRespected` is about
  those stored before). A disposal carried out before a hold was placed cannot be recorded afterwards.
- A dead caller leaves the circuit HALF_OPEN, or its retry PROCESSING, for ever. A straggler's
  permanent error closes an open circuit. Two requests with different keys create two tickets.
- Reports of schedules are stored QUEUED and nothing generates them. A report whose RUNNING or FAILED
  write is refused stays QUEUED or RUNNING: nothing takes it up again. The timeout of a generation waits for
  its generator (`reporting/worker.py:224`). A claim whose worker dies before the report is stored is
  lost.
- A request resolved before a logout still gets its context; a touch with an older time moves
  `last_activity` back; a successful login resets a block that others earned meanwhile.
- Two approved policies of synthetic data that overlap block every request.
- `validate_and_record` does not look whether the records it judges are those of the reference it stores
  (`synthetic_data/oracle.py:172`); only `finalize` compares the two, for its own output. A verdict on other
  records of the same number, stored under the reference of an output, decides over that output
  (`tests/unit/test_synthetic_oracle.py:94` stores a BLOCKED one for a good output), and there is one
  verdict for a run.
- ServiceNow: an error of the database while a circuit is acquired gives the retry back
  (`servicenow/service.py:240`), and `publish_pending` uses the connection of the repository without its lock
  (`audit/outbox.py`); neither is a step of the model.

## 8. Not modelled

Left out, and why: SQL generation and evaluation of rules, connectors, exports, encryption, the LDAP,
ClamAV and SMTP protocols (I/O and text without shared state); authorisation checks (pure functions of
the caller); lineage and dashboard (read models, the first not wired in); secure SDLC and
environment gates (run once per build); the synthetic generator, the comparisons of its oracle and the
PostgreSQL data set loader (computations and bulk inserts in one go); `scripts`, frontend, migrations,
infrastructure, archived code. These are most of the repository's lines, which is why the map covers
a small share of it while every component with a protocol has a module.

Within modelled components: listing and filtering; `run_next` and `claim_next` of executions, which
nothing calls; redaction, export and key rotation of the audit trail; the connection pool; the first
assignee of an issue and relations between issues; recipients, staging, retry queue and stream of
notifications; contribution graphs, trends and thresholds of scores; secrets, sample profiles,
edits of the catalogue by hand other than the classification of a field, `replace_metadata`, several versions of the
classification policy, and changes of the catalogue between the queries that look it up (they are one step); formats,
cancellation (no caller passes the event) and expiry of reports; policies and simulation of
retention; roles and group mappings. The components' notes in PROJECT.json say this one by one.

## 9. Plan

Written, in this order: `JobLifecycle`, `JobQueue` and its proofs, `JobWorker`, `WorkerRegistry`,
`ExecutionLifecycle`, `ReaperAudit`, `Scheduling`, `AuditTrail` and its proofs, `IssueWorkflow`,
`NotificationDelivery`; then `Reporting`, `GovernanceApproval`, `RuleApproval`,
`ScoringConfiguration`, `SourceActivation`, `MetadataDiscovery`, `Retention`, `ServiceNow`,
`ScoreAggregation` and `ScorePublication`, `Sessions`, `EvidenceFiles`, `SyntheticRuns`, all schedule
types, and the proofs of `JobWorker`, `ExecutionLifecycle` and `WorkerRegistry`.

Then the proofs of everything the combined runs check but liveness (`OperationsProofs`,
`DecisionProofs`, `ApprovalsProofs`, `BackgroundProofs`).

What is left to prove: that the registry, the retry queue and the governance requests implement an
abstract machine of their own each, as the queue implements `JobLifecycle`; and the step properties of
`ReaperAudit` and `NotificationDelivery` that hold in spite of 6.2 and 6.4.
