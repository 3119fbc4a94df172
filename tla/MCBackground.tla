----------------------------- MODULE MCBackground -----------------------------
(***************************************************************************)
(* What goes on without anybody waiting for it: schedules that are         *)
(* triggered, executions that are run, reports that are scheduled and      *)
(* reports that are generated.  The parts share no variable and no row, so *)
(* each is explored by itself: "part" says which one a behaviour is about,  *)
(* and the others stay in their initial states, where no fair action of    *)
(* theirs is enabled.                                                      *)
(***************************************************************************)
EXTENDS Scheduling, ExecutionLifecycle, Reporting, TLC

CONSTANTS t1, t2, a1, w1, w2, s1, s2, r1

MCTriggers  == {t1, t2}
OneRequest  == {a1}
MCKinds     == {"ONCE", "INTERVAL", "DAILY", "WEEKLY", "MONTHLY"}
\* Clocks go forward at 3, over the local time of date 1, and back at 5, to before
\* that of date 2.
MCOffset    == [u \in 0..14 |-> IF u \in {3, 4} THEN 1 ELSE 0]
MCWeekly    == {1, 3, 5}
MCMonthly   == {2, 5}
MCWorkers   == {w1, w2}
MCSchedules == {s1, s2}
RunsOnce    == {s2}
MCReports   == {r1}

VARIABLE part

BackgroundInit ==
  /\ part \in {"scheduling", "execution", "reporting", "generation"}
  /\ SchedulingInit /\ (part # "scheduling" => kind = "ONCE")
  /\ ExecutionInit /\ ReportingInit

BackgroundNext ==
  /\ UNCHANGED part
  /\ \/ /\ part = "scheduling" /\ SchedulingNext
        /\ UNCHANGED <<executionVars, reportingVars>>
     \/ /\ part = "execution" /\ ExecutionNext
        /\ UNCHANGED <<schedulingVars, reportingVars>>
     \/ /\ part = "reporting" /\ TriggeringNext
        /\ UNCHANGED <<schedulingVars, executionVars>>
     \/ /\ part = "generation" /\ GeneratingNext
        /\ UNCHANGED <<schedulingVars, executionVars>>

BackgroundSpec ==
  /\ BackgroundInit
  /\ [][BackgroundNext]_<<part, schedulingVars, executionVars, reportingVars>>
  /\ SchedulingFairness /\ ExecutionFairness /\ ReportingFairness

-----------------------------------------------------------------------------
\* Every variable of the parts has its type.
BackgroundTypeOK == SchedulingTypeOK /\ ExecutionTypeOK /\ ReportingTypeOK

\* No occurrence of a schedule is passed over, of an execution schedule as long as
\* nobody turns it off and of a report schedule as long as it is active; and what has
\* been claimed is answered.
NothingSkipped == NoOccurrenceSkipped /\ ClaimsAreAnswered /\ NoReportSkipped

\* However many workers find an occurrence due, one claims it.
OneClaimEach == ClaimedOnce /\ ReportedOnce

\* What is due is taken up, by any of the workers, although some of them die.
WhatIsDueIsDone == DueIsAnswered /\ DueIsClaimed
=============================================================================
