------------------------------ MODULE Scheduling ------------------------------
(***************************************************************************)
(* One schedule of the table schedules: the workers that trigger it        *)
(* (SchedulingService.trigger_due, called in the loop of every worker) and *)
(* the API requests that turn it on and off (set_active).  Schedules share *)
(* no row, so one stands for all.                                          *)
(*                                                                         *)
(* A trigger reads the due occurrence, claims it in one transaction that   *)
(* moves the schedule on, and only then starts the execution, in another.  *)
(* set_active reads the row, computes the next occurrence with its clock   *)
(* and writes the row later, whatever is in it by then.                    *)
(*                                                                         *)
(* A DAILY, WEEKLY or MONTHLY schedule names a local time and, by its day   *)
(* of the week or the month, the dates it runs on.  Instants are UTC; the  *)
(* clock of the schedule's zone shows the instant plus the offset of that  *)
(* moment, so a change of the offset skips some local times and shows      *)
(* others twice.                                                           *)
(***************************************************************************)
EXTENDS Integers, FiniteSetsExt

CONSTANTS
  Triggers,     \* the workers
  Operators,    \* the API requests that may be at set_active at the same time
  Kinds,        \* the schedule types
  Period,       \* interval_minutes
  OnceAt,       \* Schedule.once_at
  DayLength,    \* what the clock of the zone counts in a day
  Offset,       \* how far that clock is ahead of UTC, at each instant
  LocalTime,    \* Schedule.local_time
  Weekly,       \* the dates that fall on Schedule.day_of_week
  Monthly,      \* the dates that fall on Schedule.day_of_month
  MaxTime,      \* bound on the clock
  Horizon,      \* bound on the instants that are looked at
  MaxToggles,   \* bound: set_active calls that write
  MaxTriggerCrashes \* bound: workers that die in trigger_due

Instants == 0..Horizon
Dates    == 0..(Horizon \div DayLength + 1)

ASSUME SchedulingAssumption ==
  /\ Kinds \subseteq {"ONCE", "INTERVAL", "DAILY", "WEEKLY", "MONTHLY"} /\ Kinds # {}
  /\ Period \in Nat \ {0} /\ OnceAt \in Nat \ {0}
  /\ DayLength \in Nat \ {0} /\ LocalTime \in 0..(DayLength - 1)
  /\ Offset \in [Instants -> Nat]
  /\ Weekly \subseteq Dates /\ Monthly \subseteq Dates
  /\ MaxTime \in Nat /\ MaxToggles \in Nat /\ MaxTriggerCrashes \in Nat
  /\ Horizon \in Nat /\ Horizon >= MaxTime + Period + OnceAt

\* Dates are counted from that of instant 0, and the offsets of a zone lie less than a day
\* apart.
ASSUME ZoneAssumption ==
  /\ Offset[0] < DayLength
  /\ \A u, v \in Instants : Offset[u] < Offset[v] + DayLength

VARIABLES
  now, kind,
  sched,     \* the row: is_active and next_run_at
  stage, due, \* each trigger: where it is, and scheduled_for
  request,   \* each API request: where it is, is_active and next_run_at to write
  claims,    \* how often each occurrence was claimed
  started,   \* the occurrences with an execution
  failed,    \* the occurrences whose start failed
  lost,      \* the occurrences whose trigger died before it started them
  toggles, crashes

rows    == <<started, failed, lost>>
trigger == <<stage, due>>
schedulingVars ==
  <<now, kind, sched, stage, due, request, claims, started, failed, lost, toggles, crashes>>

NoRun == 0                          \* next_run_at is NULL
Runs  == 1..Horizon
Row   == [active : BOOLEAN, next : Runs \cup {NoRun}]

\* The dates a periodic schedule runs on (_date_matches).
DatesOf(k) == CASE k = "DAILY" -> Dates [] k = "WEEKLY" -> Weekly [] k = "MONTHLY" -> Monthly

\* The instants at which the zone's clock shows the local time of a date: none if
\* it is skipped when the clock goes forward, two if it is shown again when the
\* clock goes back.
Showing(d) == {u \in Instants : u + Offset[u] = d * DayLength + LocalTime}

\* _valid_local_datetime: the first of them (fold = 0), or none
ValidLocal == [d \in Dates |-> IF Showing(d) = {} THEN NoRun ELSE Min(Showing(d))]

LocalDate(t) == (t + Offset[t]) \div DayLength

\* The first date, from that of t, with its run after t.
Periodic(t) ==
  LET next == {d \in DatesOf(kind) : d >= LocalDate(t) /\ ValidLocal[d] > t}
  IN  IF next = {} THEN NoRun ELSE ValidLocal[Min(next)]

\* preview_runs(schedule, after = t, count = 1)
Following(t) ==
  CASE kind = "ONCE"     -> IF OnceAt > t THEN OnceAt ELSE NoRun
    [] kind = "INTERVAL" -> t + Period
    [] OTHER             -> Periodic(t)

RowFor(next) == [active |-> next # NoRun, next |-> next]

Inactive == [active |-> FALSE, next |-> NoRun]

Quiet == [at |-> "idle", row |-> Inactive]

\* The schedule was created at 0, with a preview that is not empty.
SchedulingInit ==
  /\ now = 0 /\ kind \in Kinds
  /\ sched = RowFor(Following(0))
  /\ stage = [t \in Triggers |-> "idle"] /\ due = [t \in Triggers |-> NoRun]
  /\ request = [a \in Operators |-> Quiet]
  /\ claims = [o \in Runs |-> 0]
  /\ started = {} /\ failed = {} /\ lost = {}
  /\ toggles = 0 /\ crashes = 0

Tick ==
  /\ now < MaxTime
  /\ now' = now + 1
  /\ UNCHANGED <<kind, sched, trigger, request, claims, rows, toggles, crashes>>

-----------------------------------------------------------------------------
(* The trigger *)

TriggerGoto(t, p) == stage' = [stage EXCEPT ![t] = p]

\* Mutant: an occurrence is due only after its instant.
IsDue_Later == sched.active /\ sched.next # NoRun /\ sched.next < now

IsDue == sched.active /\ sched.next # NoRun /\ sched.next <= now

ReadDue(t) ==
  /\ stage[t] = "idle" /\ IsDue
  /\ due' = [due EXCEPT ![t] = sched.next]
  /\ TriggerGoto(t, "claim")
  /\ UNCHANGED <<now, kind, sched, request, claims, rows, toggles, crashes>>

\* Mutants: the claim does not look at next_run_at; the next occurrence is
\* computed from the clock.
ClaimDue_AnyRun(t) ==
  /\ stage[t] = "claim"
  /\ \/ /\ sched.active
        /\ sched' = RowFor(Following(due[t]))
        /\ claims' = [claims EXCEPT ![due[t]] = @ + 1]
        /\ TriggerGoto(t, "start")
     \/ ~ sched.active /\ TriggerGoto(t, "idle") /\ UNCHANGED <<sched, claims>>
  /\ UNCHANGED <<now, kind, due, request, rows, toggles, crashes>>
ClaimDue_FromNow(t) ==
  /\ stage[t] = "claim"
  /\ \/ /\ sched.active /\ sched.next = due[t]
        /\ sched' = RowFor(Following(now))
        /\ claims' = [claims EXCEPT ![due[t]] = @ + 1]
        /\ TriggerGoto(t, "start")
     \/ ~ (sched.active /\ sched.next = due[t]) /\ TriggerGoto(t, "idle")
        /\ UNCHANGED <<sched, claims>>
  /\ UNCHANGED <<now, kind, due, request, rows, toggles, crashes>>

\* claim_due: the schedule moves on from the occurrence, not from the clock, so
\* occurrences that were missed follow one after the other.  A row that a request
\* is writing is passed over (SKIP LOCKED).
ClaimDue(t) ==
  /\ stage[t] = "claim"
  /\ \/ /\ sched.active /\ sched.next = due[t]
        /\ sched' = RowFor(Following(due[t]))
        /\ claims' = [claims EXCEPT ![due[t]] = @ + 1]
        /\ TriggerGoto(t, "start")
     \/ /\ ~ (sched.active /\ sched.next = due[t]) \/ \E a \in Operators : request[a].at = "write"
        /\ TriggerGoto(t, "idle")
        /\ UNCHANGED <<sched, claims>>
  /\ UNCHANGED <<now, kind, due, request, rows, toggles, crashes>>

\* start_scheduled up to the SELECT of create_or_get; the versions or the sources
\* may have become invalid meanwhile.
StartScheduled(t) ==
  /\ stage[t] = "start"
  /\ \/ TriggerGoto(t, "failed")
     \/ due[t] \in started /\ TriggerGoto(t, "idle")
     \/ due[t] \notin started /\ TriggerGoto(t, "insert")
  /\ UNCHANGED <<now, kind, sched, due, request, claims, rows, toggles, crashes>>

\* The INSERT of create_or_get: the key of the occurrence is unique.
InsertExecution(t) ==
  /\ stage[t] = "insert"
  /\ \/ /\ due[t] \notin started
        /\ started' = started \cup {due[t]}
        /\ TriggerGoto(t, "idle")
     \/ /\ due[t] \in started
        /\ TriggerGoto(t, "failed")
        /\ UNCHANGED started
  /\ UNCHANGED <<now, kind, sched, due, request, claims, failed, lost, toggles, crashes>>

\* advance, after any error, whatever the row says by now
Deactivate(t) ==
  /\ stage[t] = "failed"
  /\ sched' = Inactive
  /\ failed' = failed \cup {due[t]}
  /\ TriggerGoto(t, "idle")
  /\ UNCHANGED <<now, kind, due, request, claims, started, lost, toggles, crashes>>

\* The worker dies, and is started again.
TriggerCrashes(t) ==
  /\ stage[t] # "idle" /\ crashes < MaxTriggerCrashes
  /\ crashes' = crashes + 1
  /\ lost' = IF stage[t] = "claim" THEN lost ELSE lost \cup {due[t]}
  /\ TriggerGoto(t, "idle")
  /\ UNCHANGED <<now, kind, sched, due, request, claims, started, failed, toggles>>

-----------------------------------------------------------------------------
(* The API *)

\* A request for what the schedule already is changes nothing; one to activate a
\* schedule without a future occurrence is refused.
SetActiveRead(a) ==
  /\ request[a].at = "idle" /\ toggles < MaxToggles
  /\ \/ /\ sched.active
        /\ request' = [request EXCEPT ![a] = [at |-> "write", row |-> Inactive]]
     \/ /\ ~ sched.active /\ Following(now) # NoRun
        /\ request' = [request EXCEPT ![a] = [at |-> "write", row |-> RowFor(Following(now))]]
  /\ toggles' = toggles + 1
  /\ UNCHANGED <<now, kind, sched, trigger, claims, rows, crashes>>

\* Mutant: only is_active is written.
SetActiveWrite_FlagOnly(a) ==
  /\ request[a].at = "write"
  /\ sched' = [sched EXCEPT !.active = request[a].row.active]
  /\ request' = [request EXCEPT ![a] = Quiet]
  /\ UNCHANGED <<now, kind, trigger, claims, rows, toggles, crashes>>

SetActiveWrite(a) ==
  /\ request[a].at = "write"
  /\ sched' = request[a].row
  /\ request' = [request EXCEPT ![a] = Quiet]
  /\ UNCHANGED <<now, kind, trigger, claims, rows, toggles, crashes>>

-----------------------------------------------------------------------------
TriggerStep(t) ==
  \/ ReadDue(t) \/ ClaimDue(t) \/ StartScheduled(t) \/ InsertExecution(t) \/ Deactivate(t)

SchedulingNext ==
  \/ Tick
  \/ \E t \in Triggers  : TriggerStep(t) \/ TriggerCrashes(t)
  \/ \E a \in Operators : SetActiveRead(a) \/ SetActiveWrite(a)

SchedulingSpec == SchedulingInit /\ [][SchedulingNext]_schedulingVars

\* Every worker calls trigger_due again and again, and goes through it.
SchedulingFairness == \A t \in Triggers : WF_schedulingVars(TriggerStep(t))

SchedulingFairSpec == SchedulingSpec /\ SchedulingFairness

-----------------------------------------------------------------------------
(* Properties *)

\* Every variable has its type; an active schedule, and no other, has a next run.
SchedulingTypeOK ==
  /\ now \in 0..MaxTime /\ kind \in Kinds
  /\ sched \in Row /\ (sched.active <=> sched.next # NoRun)
  /\ stage \in [Triggers -> {"idle", "claim", "start", "insert", "failed"}]
  /\ due \in [Triggers -> Runs \cup {NoRun}]
  /\ request \in [Operators -> [at : {"idle", "write"}, row : Row]]
  /\ claims \in [Runs -> Nat]
  /\ started \cup failed \cup lost \subseteq Runs
  /\ toggles \in 0..MaxToggles /\ crashes \in 0..MaxTriggerCrashes

AtStart(o) == \E t \in Triggers : stage[t] \in {"start", "insert", "failed"} /\ due[t] = o

\* The occurrences of a schedule nobody turned off and on.
Occurrences ==
  CASE kind = "ONCE"     -> {OnceAt}
    [] kind = "INTERVAL" -> {o \in Runs : o % Period = 0}
    [] OTHER             -> {o \in Runs : \E d \in DatesOf(kind) : o = ValidLocal[d]}

\* As long as nobody turns the schedule off, no occurrence is skipped, however
\* many triggers race and however late they are: each one before the next run was
\* started, is being started, failed (and then the schedule is off), or was
\* claimed by a worker that died.
NoOccurrenceSkipped ==
  toggles = 0 /\ sched.active =>
    \A o \in Occurrences : o < sched.next => o \in started \cup lost \/ AtStart(o)

\* "Ayni vade yalnizca bir tetikleyici tarafindan sahiplenilir" (claim_due): an
\* occurrence is claimed once, even if the schedule is turned off and on, and not
\* before its time; and a date has one occurrence, although its local time may be
\* shown twice.  It holds for one set_active call at a time; of two that overlap the
\* later write may put next_run_at back to what was claimed since.
ClaimedOnce ==
  /\ \A o \in Runs : claims[o] <= 1 /\ (claims[o] > 0 => o <= now)
  /\ kind \notin {"ONCE", "INTERVAL"} =>
       \A o, p \in Runs : claims[o] > 0 /\ claims[p] > 0 /\ LocalDate(o) = LocalDate(p) => o = p

\* The key of the occurrence makes up for a second claim: each claim ends as an
\* execution, an error or the death of the worker, and an occurrence that was
\* started without an error was never reported as failed, unless it was claimed
\* twice.
ClaimsAreAnswered ==
  \A o \in Runs : claims[o] > 0 =>
    /\ o \in started \cup failed \cup lost \/ AtStart(o)
    /\ claims[o] = 1 => o \notin started \cap failed

\* An occurrence that is due is answered in the end, or somebody turns the
\* schedule off.
DueIsAnswered ==
  \A o \in 1..MaxTime : sched.next = o /\ o <= now ~>
    o \in started \cup failed \cup lost \/ ~ sched.active \/ toggles > 0
=============================================================================
