------------------------------- MODULE Reporting -------------------------------
(***************************************************************************)
(* Reports: the workers that trigger report_schedules                      *)
(* (ReportScheduleService.trigger_due), and the generation of a report     *)
(* that a user requests (ReportService over ReportWorker.process_report).  *)
(*                                                                         *)
(* A trigger lists what is due, and then claims and requests the reports   *)
(* of the list one by one, each in a transaction of its own.  It requests  *)
(* a report by storing it QUEUED, and that is all that becomes of it;      *)
(* ReportService generates the report before it answers.                   *)
(***************************************************************************)
EXTENDS Naturals

CONSTANTS
  Schedules, Single,  \* report schedules, and those of them that run once
  ReportTriggers,     \* the workers
  MaxHour,            \* bound on the clock; occurrence n of a schedule is due at n
  MaxReportCrashes,   \* bound: workers that die in trigger_due
  Reports,            \* reports that users request
  MaxGenerations      \* max_retry_attempts

ASSUME ReportingAssumption ==
  /\ Single \subseteq Schedules /\ {MaxHour, MaxReportCrashes} \subseteq Nat
  /\ MaxGenerations \in Nat \ {0}

VARIABLES
  hour,
  plan,          \* report_schedules: is_active and next_run_at
  requested,     \* how often each occurrence was claimed, and the reports stored for it
  unanswered,    \* occurrences whose report failed or whose trigger died
  reporter,      \* each worker: what it has listed, where it is and at which occurrence
  reportCrashes,
  report         \* the row of a report, and where the request that generates it is

reportingVars == <<hour, plan, requested, unanswered, reporter, reportCrashes, report>>
triggering == <<hour, plan, requested, unanswered, reporter, reportCrashes>>

ReportOccurrences == 1..(MaxHour + 1)
Idle == [step |-> "idle", list |-> {}]
Deleted == [state |-> "deleted", next |-> 0]
Stopped == [state |-> "inactive", next |-> 0]

ReportingInit ==
  /\ hour = 0
  /\ plan = [s \in Schedules |-> [state |-> "active", next |-> 1]]
  /\ requested = [s \in Schedules |-> [n \in ReportOccurrences |-> [claims |-> 0, reports |-> 0]]]
  /\ unanswered = {}
  /\ reporter = [t \in ReportTriggers |-> Idle]
  /\ reportCrashes = 0
  /\ report = [r \in Reports |-> [status |-> "none", at |-> "none", attempt |-> 0]]

HourPasses ==
  hour < MaxHour /\ hour' = hour + 1
  /\ UNCHANGED <<plan, requested, unanswered, reporter, reportCrashes, report>>

-----------------------------------------------------------------------------
(* trigger_due *)

IsDuePlan(s) == plan[s].state = "active" /\ plan[s].next <= hour

ListDue(t) ==
  /\ reporter[t] = Idle /\ \E s \in Schedules : IsDuePlan(s)
  /\ reporter' = [reporter EXCEPT ![t] =
       [step |-> "list", list |-> {[of |-> s, run |-> plan[s].next] : s \in {d \in Schedules : IsDuePlan(d)}}]]
  /\ UNCHANGED <<hour, plan, requested, unanswered, reportCrashes, report>>

\* The list goes on, or ends.
Rest(t, d) == reporter[t].list \ {d}
GoesOn(t, d) == IF Rest(t, d) = {} THEN Idle ELSE [step |-> "list", list |-> Rest(t, d)]

\* claim_due writes the row if it still has the occurrence that was listed.
Claimable(d) == plan[d.of] = [state |-> "active", next |-> d.run]

\* preview_runs after the occurrence: one that was missed is not passed over.
Advanced(d) == IF d.of \in Single THEN Stopped ELSE [state |-> "active", next |-> d.run + 1]

\* The list is ordered; here any order will do.
ClaimPlan(t, d) ==
  /\ reporter[t].step = "list" /\ d \in reporter[t].list
  /\ \/ /\ Claimable(d)
        /\ plan' = [plan EXCEPT ![d.of] = Advanced(d)]
        /\ requested' = [requested EXCEPT ![d.of][d.run].claims = @ + 1]
        /\ reporter' = [reporter EXCEPT ![t] = [step |-> "request", list |-> Rest(t, d), at |-> d]]
     \/ /\ ~Claimable(d)
        /\ reporter' = [reporter EXCEPT ![t] = GoesOn(t, d)]
        /\ UNCHANGED <<plan, requested>>
  /\ UNCHANGED <<hour, unanswered, reportCrashes, report>>

RequestReport(t) ==
  /\ reporter[t].step = "request"
  /\ LET d == reporter[t].at
     IN \/ /\ requested' = [requested EXCEPT ![d.of][d.run].reports = @ + 1]
           /\ reporter' = [reporter EXCEPT ![t] = GoesOn(t, d)]
           /\ UNCHANGED unanswered
        \/ /\ unanswered' = unanswered \cup {d}
           /\ reporter' = [reporter EXCEPT ![t].step = "stop"]
           /\ UNCHANGED requested
  /\ UNCHANGED <<hour, plan, reportCrashes, report>>

\* advance, after a request that failed, stops the schedule whatever is in its row; if the
\* row is gone, the error ends the whole trigger_due.
StopPlan(t) ==
  /\ reporter[t].step = "stop"
  /\ LET d == reporter[t].at
     IN IF plan[d.of] = Deleted
        THEN reporter' = [reporter EXCEPT ![t] = Idle] /\ UNCHANGED plan
        ELSE /\ plan' = [plan EXCEPT ![d.of] = Stopped]
             /\ reporter' = [reporter EXCEPT ![t] = GoesOn(t, d)]
  /\ UNCHANGED <<hour, requested, unanswered, reportCrashes, report>>

DeletePlan(s) ==
  /\ plan[s] # Deleted
  /\ plan' = [plan EXCEPT ![s] = Deleted]
  /\ UNCHANGED <<hour, requested, unanswered, reporter, reportCrashes, report>>

\* The worker dies, and another takes its place.
TriggerDies(t) ==
  /\ reporter[t] # Idle /\ reportCrashes < MaxReportCrashes
  /\ reportCrashes' = reportCrashes + 1
  /\ unanswered' = IF reporter[t].step = "request" THEN unanswered \cup {reporter[t].at} ELSE unanswered
  /\ reporter' = [reporter EXCEPT ![t] = Idle]
  /\ UNCHANGED <<hour, plan, requested, report>>

-----------------------------------------------------------------------------
(* request_report and process_report *)

Writes(r, step, row) ==
  /\ report[r].at = step
  /\ report' = [report EXCEPT ![r] = row]
  /\ UNCHANGED triggering

CreateReport(r) ==
  Writes(r, "none", [report[r] EXCEPT !.status = "QUEUED", !.at = "start", !.attempt = 1])

\* A write that raises outside the loop ends process_report with the row as it is.
Refused(r) == [report[r] EXCEPT !.at = "refused"]

StartReport(r) ==
  \E row \in {[report[r] EXCEPT !.status = "RUNNING", !.at = "generate"], Refused(r)} : Writes(r, "start", row)

\* The loop goes on after an error that may pass, as often as it may.
Again(row) ==
  IF row.attempt < MaxGenerations THEN [row EXCEPT !.at = "generate", !.attempt = @ + 1]
                                  ELSE [row EXCEPT !.at = "fail"]

\* What an error inside the loop leads to: _is_retryable or not.
Raised(r) == {Again(report[r]), [report[r] EXCEPT !.at = "fail"]}

Generate(r) == \E row \in {[report[r] EXCEPT !.at = "file"]} \cup Raised(r) : Writes(r, "generate", row)

\* Mutant: an error of the file store leaves process_report.
StoreFile_Uncaught(r) == \E place \in {"ready", "end"} : Writes(r, "file", [report[r] EXCEPT !.at = place])

\* The file is written before the row.
StoreFile(r) == \E row \in {[report[r] EXCEPT !.at = "ready"]} \cup Raised(r) : Writes(r, "file", row)

ReadyReport(r) ==
  \E row \in {[report[r] EXCEPT !.status = "READY", !.at = "end"]} \cup Raised(r) : Writes(r, "ready", row)

FailReport(r) ==
  \E row \in {[report[r] EXCEPT !.status = "FAILED", !.at = "end"], Refused(r)} : Writes(r, "fail", row)

\* The process dies; nothing takes a RUNNING report up again.
RequestDies(r) ==
  report[r].at \notin {"none", "end", "dead", "refused"} /\ Writes(r, report[r].at, [report[r] EXCEPT !.at = "dead"])

ReportSteps(r) ==
  StartReport(r) \/ Generate(r) \/ StoreFile(r) \/ ReadyReport(r) \/ FailReport(r)

TriggerSteps(t) == ListDue(t) \/ RequestReport(t) \/ StopPlan(t) \/ \E d \in reporter[t].list : ClaimPlan(t, d)

TriggeringNext ==
  \/ HourPasses
  \/ \E s \in Schedules : DeletePlan(s)
  \/ \E t \in ReportTriggers : TriggerSteps(t) \/ TriggerDies(t)

GeneratingNext == \E r \in Reports : CreateReport(r) \/ ReportSteps(r) \/ RequestDies(r)

ReportingNext == TriggeringNext \/ GeneratingNext

\* Every worker calls trigger_due again and again, and a request goes on while its process
\* lives; the clock, the users, deaths and deletions come as they like.
ReportingFairness ==
  /\ \A t \in ReportTriggers : WF_reportingVars(TriggerSteps(t))
  /\ \A r \in Reports : WF_reportingVars(ReportSteps(r))

ReportingSpec == ReportingInit /\ [][ReportingNext]_reportingVars /\ ReportingFairness

-----------------------------------------------------------------------------
(* Properties *)

ReportingTypeOK ==
  /\ hour \in 0..MaxHour /\ reportCrashes \in 0..MaxReportCrashes
  /\ \A s \in Schedules : plan[s] \in {Deleted, Stopped} \cup [state : {"active"}, next : ReportOccurrences]
  /\ \A t \in ReportTriggers : reporter[t].step \in {"idle", "list", "request", "stop"}
  /\ \A r \in Reports :
       report[r].status \in {"none", "QUEUED", "RUNNING", "READY", "FAILED"} /\ report[r].attempt \in 0..MaxGenerations

\* However many workers list an occurrence, one of them claims it, and it gets one report.
ReportedOnce == \A s \in Schedules, n \in ReportOccurrences : requested[s][n].claims <= 1 /\ requested[s][n].reports <= 1

\* A schedule passes no occurrence over: each before next_run_at has its report, is being
\* requested, failed (which stops the schedule), or was in the hands of a worker that died.
NoReportSkipped ==
  \A s \in Schedules : plan[s].state = "active" =>
    \A n \in 1..(plan[s].next - 1) :
      \/ requested[s][n].reports = 1
      \/ [of |-> s, run |-> n] \in unanswered
      \/ \E t \in ReportTriggers : reporter[t].step \in {"request", "stop"} /\ reporter[t].at = [of |-> s, run |-> n]

\* What is due is claimed, as long as the schedule is there and active; a deleted schedule
\* that ends a trigger_due does not keep the others waiting for ever.
DueIsClaimed ==
  \A s \in Schedules, n \in 1..MaxHour :
    (plan[s] = [state |-> "active", next |-> n] /\ n <= hour) ~> plan[s] # [state |-> "active", next |-> n]

\* A report that was requested becomes READY or FAILED, whatever its generation, the file
\* store or the READY write raise and however often, unless its process dies or the database
\* refuses the RUNNING or the FAILED write, which nothing repeats.
ReportsSettle ==
  \A r \in Reports :
    (report[r].status = "QUEUED") ~> \/ report[r].status \in {"READY", "FAILED"}
                                    \/ report[r].at \in {"dead", "refused"}
=============================================================================
