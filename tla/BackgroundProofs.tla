-------------------------- MODULE BackgroundProofs ---------------------------
(***************************************************************************)
(* Proofs about MCBackground: triggers, schedules, executions and reports, *)
(* for any number of workers, requests and deaths, any period and any      *)
(* zone whose offsets lie less than a day apart.                           *)
(*                                                                         *)
(* A schedule row only moves on from the occurrence that is claimed, so    *)
(* what lies before it has been claimed, and each claim is answered or in  *)
(* the hands of a worker.  That the next run really is the next needs      *)
(* facts about the calendar, which come first: the dates' runs are ordered *)
(* like the dates.                                                         *)
(***************************************************************************)
EXTENDS MCBackground, ExecutionLifecycleProofs, WellFoundedInduction, TLAPS

-----------------------------------------------------------------------------
(* The runs of a schedule *)

LEMMA LeastOf == ASSUME NEW S \in SUBSET Nat, S # {} PROVE \E m \in S : \A x \in S : m <= x
<1>1. PICK m \in S : \A x \in S : ~ (<<x, m>> \in OpToRel(<, Nat))
  BY WFMin, NatLessThanWellFounded, Zenon
<1>2. \A x \in S : <<x, m>> \in OpToRel(<, Nat) <=> x < m
  BY Zenon DEF OpToRel
<1>3. \A x \in S : ~ (x < m)
  BY <1>1, <1>2
<1> QED BY <1>3

LEMMA MinIsLeast ==
  ASSUME NEW S \in SUBSET Nat, S # {}
  PROVE  Min(S) \in S /\ \A x \in S : Min(S) <= x
BY LeastOf DEF Min

\* Instants, dates and offsets are numbers.
LEMMA ScheduleNumbers ==
  /\ Period \in Nat /\ Period >= 1 /\ OnceAt \in Nat /\ OnceAt >= 1
  /\ DayLength \in Nat /\ DayLength >= 1 /\ LocalTime \in Nat /\ LocalTime < DayLength
  /\ Horizon \in Nat /\ MaxTime \in Nat /\ Horizon >= MaxTime + Period /\ Horizon >= OnceAt
  /\ \A t \in Instants : t \in Nat /\ Offset[t] \in Nat /\ t <= Horizon
  /\ \A t \in Runs : t \in Nat /\ t >= 1 /\ t \in Instants
  /\ Dates \subseteq Nat /\ OnceAt \in Runs /\ 0 \in Instants
<1>1. Horizon \div DayLength \in Int
  BY SchedulingAssumption
<1> QED BY <1>1, SchedulingAssumption DEF Instants, Runs, Dates

\* Products of a factor with successive numbers.
LEMMA NextMultiple ==
  ASSUME NEW n \in Nat, NEW x \in Nat, NEW y \in Nat, x < y
  PROVE  /\ n * x \in Nat /\ n * y \in Nat /\ n * x + n <= n * y
<1>1. PICK k \in Nat : y = x + 1 + k
  <2>1. y - x - 1 \in Nat /\ y = x + 1 + (y - x - 1)
    OBVIOUS
  <2> QED BY <2>1
<1>2. n * (x + 1 + k) = n * x + n + n * k
  OBVIOUS
<1>3. n * x \in Nat /\ n * k \in Nat
  OBVIOUS
<1> QED BY <1>1, <1>2, <1>3

\* The date the clock shows at the local time of a date is that date.
LEMMA DateOfLocalTime == ASSUME NEW d \in Nat PROVE (d * DayLength + LocalTime) \div DayLength = d
<1>1. PICK q, x : x = d * DayLength + LocalTime /\ q = x \div DayLength
  OBVIOUS
<1>2. x \in Nat /\ q \in Nat /\ DayLength \in Nat /\ DayLength >= 1
  BY <1>1, ScheduleNumbers
<1>3. DayLength * q <= x /\ x < DayLength * q + DayLength
  BY <1>1, <1>2
<1>4. DayLength * d = d * DayLength
  BY ScheduleNumbers
<1>5. CASE q < d
  BY <1>1, <1>2, <1>3, <1>4, <1>5, NextMultiple, ScheduleNumbers
<1>6. CASE d < q
  BY <1>1, <1>2, <1>3, <1>4, <1>6, NextMultiple, ScheduleNumbers
<1> QED BY <1>1, <1>2, <1>5, <1>6

\* The run of a date is an instant at which the clock shows its local time.
LEMMA RunIsShown ==
  ASSUME NEW d \in Dates, ValidLocal[d] # NoRun
  PROVE  /\ ValidLocal[d] \in Runs
         /\ ValidLocal[d] + Offset[ValidLocal[d]] = d * DayLength + LocalTime
         /\ LocalDate(ValidLocal[d]) = d
<1>1. Showing(d) \in SUBSET Nat /\ Showing(d) # {} /\ ValidLocal[d] = Min(Showing(d))
  BY ScheduleNumbers DEF Showing, ValidLocal
<1>2. ValidLocal[d] \in Showing(d)
  BY <1>1, MinIsLeast
<1>3. ValidLocal[d] \in Instants /\ ValidLocal[d] + Offset[ValidLocal[d]] = d * DayLength + LocalTime
  BY <1>2 DEF Showing
<1>4. ValidLocal[d] \in Runs
  BY <1>3, ScheduleNumbers DEF Instants, Runs, NoRun
<1> QED BY <1>3, <1>4, DateOfLocalTime, ScheduleNumbers DEF LocalDate

\* Later dates have later runs: the clock moves by less than a day.
LEMMA RunsInOrder ==
  ASSUME NEW d \in Dates, NEW e \in Dates, d < e, ValidLocal[d] # NoRun, ValidLocal[e] # NoRun
  PROVE  ValidLocal[d] < ValidLocal[e]
<1>1. PICK u, v : u = ValidLocal[d] /\ v = ValidLocal[e]
  OBVIOUS
<1>2. /\ u \in Instants /\ u + Offset[u] = d * DayLength + LocalTime
      /\ v \in Instants /\ v + Offset[v] = e * DayLength + LocalTime
  BY <1>1, RunIsShown, ScheduleNumbers
<1>3. /\ d \in Nat /\ e \in Nat /\ u \in Nat /\ v \in Nat /\ Offset[u] \in Nat /\ Offset[v] \in Nat
      /\ DayLength \in Nat /\ LocalTime \in Nat
  BY <1>2, ScheduleNumbers
<1>4. DayLength * d + DayLength <= DayLength * e
  BY <1>3, NextMultiple
<1>5. DayLength * d = d * DayLength /\ DayLength * e = e * DayLength
      /\ d * DayLength \in Nat /\ e * DayLength \in Nat
  BY <1>3
<1>6. Offset[v] < Offset[u] + DayLength
  BY <1>2, ZoneAssumption
<1> QED BY <1>1, <1>2, <1>3, <1>4, <1>5, <1>6

\* A multiple of n below the next multiple is not above this one.
LEMMA MultiplesInOrder ==
  ASSUME NEW n \in Nat, n >= 1, NEW x \in Nat, NEW y \in Nat, x % n = 0, y % n = 0, x < y + n
  PROVE  x <= y
<1>1. PICK i, j : i = x \div n /\ j = y \div n
  OBVIOUS
<1>2. i \in Nat /\ j \in Nat /\ x = n * i + (x % n) /\ y = n * j + (y % n)
  BY <1>1
<1>3. x = n * i /\ y = n * j
  BY <1>2
<1>4. CASE j < i
  BY <1>2, <1>3, <1>4, NextMultiple
<1>5. CASE i < j
  BY <1>2, <1>3, <1>5, NextMultiple
<1>6. CASE i = j
  BY <1>3, <1>6
<1> QED BY <1>2, <1>4, <1>5, <1>6

LEMMA MultipleAfter ==
  ASSUME NEW n \in Nat, n >= 1, NEW x \in Nat, x % n = 0
  PROVE  (x + n) % n = 0
<1>1. PICK i : i = x \div n
  OBVIOUS
<1>2. i \in Nat /\ x = n * i + (x % n)
  BY <1>1
<1>3. x + n = n * (i + 1) /\ i + 1 \in Nat
  BY <1>2
<1>4. PICK q, r : q = (x + n) \div n /\ r = (x + n) % n
  OBVIOUS
<1>5. q \in Nat /\ r \in Nat /\ r < n /\ n * (i + 1) = n * q + r
  BY <1>3, <1>4
<1>6. n * q \in Nat /\ n * (i + 1) \in Nat
  BY <1>3, <1>5
<1>7. ~ (q < i + 1) /\ ~ (i + 1 < q)
  BY <1>3, <1>5, <1>6, NextMultiple
<1>8. q = i + 1
  BY <1>3, <1>5, <1>7
<1>9. r = 0
  BY <1>5, <1>6, <1>8
<1> QED BY <1>4, <1>9

\* What follows an instant is later, is a run of the schedule (of an INTERVAL from a run), and
\* passes no run over that is due after a run.
LEMMA FollowingIsLater ==
  ASSUME kind \in Kinds, NEW t \in Instants, t <= MaxTime, Following(t) # NoRun
  PROVE  /\ Following(t) \in Runs /\ Following(t) > t
         /\ kind # "INTERVAL" \/ t % Period = 0 => Following(t) \in Occurrences
<1>1. t \in Nat
  BY ScheduleNumbers
<1>2. CASE kind = "ONCE"
  <2>1. Following(t) = OnceAt /\ OnceAt > t
    BY <1>2 DEF Following
  <2> QED BY <1>2, <2>1, ScheduleNumbers DEF Occurrences
<1>3. CASE kind = "INTERVAL"
  <2>1. Following(t) = t + Period
    BY <1>3 DEF Following
  <2>2. t + Period \in Runs /\ t + Period > t
    BY <1>1, ScheduleNumbers DEF Runs
  <2>3. t % Period = 0 => (t + Period) % Period = 0
    BY <1>1, MultipleAfter, ScheduleNumbers
  <2> QED BY <1>3, <2>1, <2>2, <2>3 DEF Occurrences
<1>4. CASE kind \in {"DAILY", "WEEKLY", "MONTHLY"}
  <2> DEFINE next == {d \in DatesOf(kind) : d >= LocalDate(t) /\ ValidLocal[d] > t}
  <2>1. DatesOf(kind) \subseteq Dates
    BY <1>4, SchedulingAssumption DEF DatesOf
  <2>2. Following(t) = Periodic(t)
    BY <1>4 DEF Following
  <2>3. next # {} /\ Following(t) = ValidLocal[Min(next)]
    BY <2>2 DEF Periodic
  <2>4. next \in SUBSET Nat
    BY <2>1, ScheduleNumbers
  <2>5. Min(next) \in next
    BY <2>3, <2>4, MinIsLeast
  <2>6. PICK d \in DatesOf(kind) : d = Min(next) /\ ValidLocal[d] > t
    BY <2>5
  <2>7. ValidLocal[d] \in Runs
    BY <2>1, <2>3, <2>6, RunIsShown
  <2> QED BY <1>4, <2>3, <2>6, <2>7 DEF Occurrences
<1> QED BY <1>2, <1>3, <1>4, SchedulingAssumption

LEMMA FollowingSkipsNone ==
  ASSUME kind \in Kinds, NEW t \in Instants, t = 0 \/ t \in Occurrences, t <= MaxTime,
         Following(t) # NoRun, NEW o \in Occurrences, o > t
  PROVE  o \in Runs /\ o >= Following(t)
<1>1. t \in Nat
  BY ScheduleNumbers
<1>2. CASE kind = "ONCE"
  <2>1. o = OnceAt /\ Following(t) = OnceAt
    BY <1>2 DEF Occurrences, Following
  <2> QED BY <2>1, ScheduleNumbers
<1>3. CASE kind = "INTERVAL"
  <2>1. o \in Runs /\ o \in Nat /\ o % Period = 0 /\ Following(t) = t + Period
    BY <1>3, ScheduleNumbers DEF Occurrences, Following
  <2>2. t % Period = 0
    BY <1>3, ScheduleNumbers DEF Occurrences
  <2>3. ASSUME o < t + Period PROVE FALSE
    <3>1. o <= t
      BY <1>1, <2>1, <2>2, <2>3, MultiplesInOrder, ScheduleNumbers
    <3> QED BY <1>1, <2>1, <3>1
  <2> QED BY <1>1, <2>1, <2>3, ScheduleNumbers
<1>4. CASE kind \in {"DAILY", "WEEKLY", "MONTHLY"}
  <2> DEFINE next == {d \in DatesOf(kind) : d >= LocalDate(t) /\ ValidLocal[d] > t}
  <2>1. DatesOf(kind) \subseteq Dates
    BY <1>4, SchedulingAssumption DEF DatesOf
  <2>2. Following(t) = Periodic(t)
    BY <1>4 DEF Following
  <2>3. next # {} /\ Following(t) = ValidLocal[Min(next)]
    BY <2>2 DEF Periodic
  <2>4. next \in SUBSET Nat
    BY <2>1, ScheduleNumbers
  <2>5. PICK m \in DatesOf(kind) : m = Min(next) /\ ValidLocal[m] > t /\ \A x \in next : m <= x
    BY <2>3, <2>4, MinIsLeast
  <2>6. PICK d \in DatesOf(kind) : o = ValidLocal[d] /\ o \in Runs
    BY <1>4 DEF Occurrences
  <2>7. d \in Dates /\ m \in Dates /\ d \in Nat /\ m \in Nat /\ o # NoRun /\ o \in Nat
    <3>1. d \in Dates /\ m \in Dates
      BY <2>1, <2>5, <2>6
    <3>2. o \in Nat /\ o >= 1
      BY <2>6, ScheduleNumbers
    <3> QED BY <3>1, <3>2, ScheduleNumbers DEF NoRun
  <2>8. ValidLocal[m] # NoRun /\ ValidLocal[m] \in Nat
    BY <1>1, <2>3, <2>5, <2>7, RunIsShown, ScheduleNumbers
  <2>9. d >= LocalDate(t)
    <3>1. CASE t = 0
      <4>1. Offset[0] \in Nat /\ DayLength \in Nat /\ Offset[0] < DayLength
        BY ScheduleNumbers, ZoneAssumption
      <4>2. (0 + Offset[0]) \div DayLength = 0
        BY <4>1
      <4> QED BY <2>7, <3>1, <4>2 DEF LocalDate
    <3>2. CASE t \in Occurrences /\ t # 0
      <4>1. PICK e \in DatesOf(kind) : t = ValidLocal[e] /\ t \in Runs
        BY <1>4, <3>2 DEF Occurrences
      <4>2. e \in Dates /\ e \in Nat /\ LocalDate(t) = e
        BY <2>1, <3>2, <4>1, RunIsShown, ScheduleNumbers DEF NoRun
      <4>3. ~ (d < e)
        BY <1>1, <2>6, <2>7, <3>2, <4>1, <4>2, RunsInOrder DEF NoRun
      <4> QED BY <2>7, <4>2, <4>3
    <3> QED BY <3>1, <3>2
  <2>10. m <= d
    BY <2>5, <2>6, <2>9
  <2>11. ValidLocal[m] <= ValidLocal[d]
    <3>1. CASE m < d
      BY <2>6, <2>7, <2>8, <3>1, RunsInOrder
    <3>2. CASE m = d
      BY <2>8, <3>2
    <3> QED BY <2>7, <2>10, <3>1, <3>2
  <2> QED BY <2>3, <2>5, <2>6, <2>7, <2>8, <2>11
<1> QED BY <1>2, <1>3, <1>4, SchedulingAssumption

-----------------------------------------------------------------------------
(* Its triggers *)

AtWork(t, o) == stage[t] \in {"start", "insert", "failed"} /\ due[t] = o

\* Of a schedule nobody turned off and on, every run is one of its occurrences; an INTERVAL
\* starts anew when it is turned on.
Fits(o) == (kind = "INTERVAL" /\ toggles > 0) \/ o \in Occurrences

\* Nobody works for an occurrence that was not claimed; each claim is at work or answered, and
\* a single claim is one or the other, and answered in one way.
Answered ==
  \A o \in Runs :
    /\ claims[o] = 0 => o \notin started \cup failed \cup lost /\ \A t \in Triggers : ~ AtWork(t, o)
    /\ claims[o] > 0 => o \in started \cup failed \cup lost \/ \E t \in Triggers : AtWork(t, o)
    /\ claims[o] = 1 => /\ \A t, u \in Triggers : AtWork(t, o) /\ AtWork(u, o) => t = u
                        /\ \A t \in Triggers : AtWork(t, o) => o \notin started \cup failed \cup lost
                        /\ o \notin started \cap failed

\* What triggers work on was due, and so was what was claimed.
Past ==
  /\ \A t \in Triggers : stage[t] # "idle" => due[t] \in Runs /\ due[t] <= now
  /\ \A o \in Runs : claims[o] > 0 => o <= now

Fitting ==
  /\ sched.active => Fits(sched.next)
  /\ \A a \in Operators : request[a].at = "write" =>
       toggles > 0 /\ (request[a].row.active => Fits(request[a].row.next))
  /\ \A o \in Runs : claims[o] > 0 => Fits(o)

\* With one request at a time, what was claimed lies before the next run, also before the one
\* that is about to be written.
OneRequestAtATime == \A a, b \in Operators : a = b

ClaimedOnceBefore ==
  /\ \A o \in Runs : claims[o] <= 1 /\ (claims[o] > 0 /\ sched.active => o < sched.next)
  /\ \A a \in Operators : request[a].at = "write" /\ request[a].row.active =>
       ~ sched.active /\ \A o \in Runs : claims[o] > 0 => o < request[a].row.next

SchedulingInv ==
  /\ SchedulingTypeOK /\ Past /\ Answered /\ Fitting /\ NoOccurrenceSkipped
  /\ \A a \in Operators : request[a].row.active <=> request[a].row.next # NoRun
  /\ OneRequestAtATime => ClaimedOnceBefore

LEMMA SchedulingShapes ==
  /\ Inactive \in Row /\ ~ Inactive.active /\ Inactive.next = NoRun
  /\ \A n \in Runs \cup {NoRun} : RowFor(n) \in Row /\ RowFor(n).next = n /\ (RowFor(n).active <=> n # NoRun)
  /\ \A row \in Row : row.active \in BOOLEAN /\ row.next \in Runs \cup {NoRun}
  /\ Quiet = [at |-> "idle", row |-> Inactive] /\ Quiet.at = "idle" /\ Quiet.row = Inactive
  /\ Quiet \in [at : {"idle", "write"}, row : Row]
BY DEF Inactive, Row, RowFor, Quiet

LEMMA SchedulingInitInv == SchedulingInit => SchedulingInv
<1> SUFFICES ASSUME SchedulingInit PROVE SchedulingInv
  OBVIOUS
<1>1. PICK n : n = Following(0)
  OBVIOUS
<1>2. n \in Runs \cup {NoRun} /\ (n # NoRun => n \in Occurrences)
  <2>1. CASE n = NoRun
    BY <2>1
  <2>2. CASE n # NoRun
    <3>1. 0 <= MaxTime /\ 0 % Period = 0 /\ 0 \in Instants /\ kind \in Kinds
      BY ScheduleNumbers DEF SchedulingInit
    <3> QED BY <1>1, <2>2, <3>1, FollowingIsLater
  <2> QED BY <2>1, <2>2
<1>3. sched \in Row /\ sched.next = n /\ (sched.active <=> n # NoRun)
  BY <1>1, <1>2, SchedulingShapes DEF SchedulingInit
<1>4. SchedulingTypeOK
  BY <1>3, SchedulingShapes, SchedulingAssumption DEF SchedulingInit, SchedulingTypeOK
<1>5. Past /\ Answered
  BY DEF SchedulingInit, Past, Answered, AtWork
<1>6. Fitting
  BY <1>2, <1>3, SchedulingShapes DEF SchedulingInit, Fitting, Fits
<1>7. NoOccurrenceSkipped
  <2> SUFFICES ASSUME sched.active, NEW o \in Occurrences, o < sched.next PROVE FALSE
    BY DEF NoOccurrenceSkipped
  <2>1. kind \in Kinds /\ 0 \in Instants /\ 0 <= MaxTime
    BY ScheduleNumbers DEF SchedulingInit
  <2>2. n # NoRun /\ n \in Nat
    BY <1>2, <1>3, ScheduleNumbers
  <2>3. o > 0
    <3>1. o \in Runs
      BY <2>1, ScheduleNumbers, SchedulingAssumption DEF Occurrences
    <3> QED BY <3>1, ScheduleNumbers
  <2>4. o \in Runs /\ o >= n
    BY <1>1, <2>1, <2>2, <2>3, FollowingSkipsNone
  <2> QED BY <1>3, <2>2, <2>4, ScheduleNumbers
<1>8. ClaimedOnceBefore
  BY SchedulingShapes DEF SchedulingInit, ClaimedOnceBefore
<1>9. \A a \in Operators : request[a].row.active <=> request[a].row.next # NoRun
  BY SchedulingShapes DEF SchedulingInit
<1> QED BY <1>4, <1>5, <1>6, <1>7, <1>8, <1>9 DEF SchedulingInv

LEMMA SchedulingTickInv == ASSUME SchedulingInv, Tick PROVE SchedulingInv'
<1>1. now \in Nat /\ now' = now + 1 /\ now' \in 0..MaxTime
  BY ScheduleNumbers DEF Tick, SchedulingInv, SchedulingTypeOK
<1>2. UNCHANGED <<kind, sched, stage, due, request, claims, started, failed, lost, toggles, crashes>>
  BY DEF Tick, trigger, rows
<1>3. SchedulingTypeOK'
  BY <1>1, <1>2 DEF SchedulingInv, SchedulingTypeOK
<1>4. Past'
  <2>1. \A o \in Runs : o <= now => o <= now'
    BY <1>1, ScheduleNumbers
  <2> QED BY <1>2, <2>1 DEF SchedulingInv, Past
<1>5. Answered' /\ (ClaimedOnceBefore => ClaimedOnceBefore')
  BY <1>2 DEF SchedulingInv, Answered, AtWork, ClaimedOnceBefore
<1>6. Occurrences' = Occurrences
  BY <1>2 DEF Occurrences
<1>7. Fitting' /\ NoOccurrenceSkipped'
  BY <1>2, <1>6 DEF SchedulingInv, Fitting, Fits, NoOccurrenceSkipped, AtStart
<1> QED BY <1>2, <1>3, <1>4, <1>5, <1>7 DEF SchedulingInv, OneRequestAtATime

\* A trigger that has claimed nothing moves on.
LEMMA ReaderMoves ==
  ASSUME SchedulingInv, NEW t \in Triggers, NEW p \in {"idle", "claim"},
         NEW o \in Runs \cup {NoRun},
         stage[t] \in {"idle", "claim"}, TriggerGoto(t, p), due' = [due EXCEPT ![t] = o],
         p = "claim" => o \in Runs /\ o <= now,
         crashes' \in 0..MaxTriggerCrashes,
         UNCHANGED <<now, kind, sched, request, claims, started, failed, lost, toggles>>
  PROVE  SchedulingInv'
<1>1. /\ stage \in [Triggers -> {"idle", "claim", "start", "insert", "failed"}]
      /\ due \in [Triggers -> Runs \cup {NoRun}]
  BY DEF SchedulingInv, SchedulingTypeOK
<1>2. /\ stage' \in [Triggers -> {"idle", "claim", "start", "insert", "failed"}]
      /\ due' \in [Triggers -> Runs \cup {NoRun}]
      /\ stage'[t] = p /\ due'[t] = o
      /\ \A u \in Triggers \ {t} : stage'[u] = stage[u] /\ due'[u] = due[u]
  BY <1>1 DEF TriggerGoto
<1>3. SchedulingTypeOK'
  BY <1>2 DEF SchedulingInv, SchedulingTypeOK
<1>4. \A u \in Triggers, r \in Runs : AtWork(u, r)' <=> AtWork(u, r)
  BY <1>2 DEF AtWork
<1>5. Answered'
  BY <1>4 DEF SchedulingInv, Answered
<1>6. Past'
  BY <1>2 DEF SchedulingInv, Past
<1>7. Occurrences' = Occurrences
  BY DEF Occurrences
<1>8. \A r \in Occurrences : AtStart(r) => AtStart(r)'
  BY <1>2 DEF AtStart
<1>9. Fitting' /\ NoOccurrenceSkipped'
  BY <1>7, <1>8 DEF SchedulingInv, Fitting, Fits, NoOccurrenceSkipped
<1>10. ClaimedOnceBefore => ClaimedOnceBefore'
  BY DEF ClaimedOnceBefore
<1> QED BY <1>3, <1>5, <1>6, <1>9, <1>10 DEF SchedulingInv, OneRequestAtATime

LEMMA ReadDueInv == ASSUME SchedulingInv, NEW t \in Triggers, ReadDue(t) PROVE SchedulingInv'
<1>1. sched.next \in Runs /\ sched.next <= now
  BY SchedulingShapes DEF ReadDue, IsDue, SchedulingInv, SchedulingTypeOK
<1>2. crashes' \in 0..MaxTriggerCrashes
  BY DEF ReadDue, SchedulingInv, SchedulingTypeOK
<1>3. PICK o \in Runs : o = sched.next
  BY <1>1
<1>4. /\ stage[t] \in {"idle", "claim"} /\ TriggerGoto(t, "claim") /\ due' = [due EXCEPT ![t] = o]
      /\ UNCHANGED <<now, kind, sched, request, claims, started, failed, lost, toggles>>
  BY <1>3 DEF ReadDue, rows
<1>5. o \in Runs /\ o <= now
  BY <1>1, <1>3
<1> QED BY <1>2, <1>4, <1>5, ReaderMoves

\* A trigger at work on what it has claimed moves on: what it leaves is answered.
LEMMA WorkerMoves ==
  ASSUME SchedulingInv, NEW t \in Triggers, NEW p \in {"idle", "insert", "failed"},
         stage[t] \in {"start", "insert", "failed"}, TriggerGoto(t, p),
         sched' = sched \/ sched' = Inactive, crashes' \in 0..MaxTriggerCrashes,
         started' \in {started, started \cup {due[t]}}, failed' \in {failed, failed \cup {due[t]}},
         lost' \in {lost, lost \cup {due[t]}},
         p = "idle" => \/ due[t] \in started' \cup lost'
                       \/ due[t] \in failed' /\ sched' = Inactive,
         p # "idle" => UNCHANGED rows,
         claims[due[t]] = 1 => due[t] \notin started' \cap failed',
         UNCHANGED <<now, kind, due, request, claims, toggles>>
  PROVE  SchedulingInv'
<1>1. /\ stage \in [Triggers -> {"idle", "claim", "start", "insert", "failed"}]
      /\ due \in [Triggers -> Runs \cup {NoRun}]
      /\ started \subseteq Runs /\ failed \subseteq Runs /\ lost \subseteq Runs
      /\ claims \in [Runs -> Nat] /\ sched \in Row
  BY DEF SchedulingInv, SchedulingTypeOK
<1>2. PICK o \in Runs : o = due[t] /\ AtWork(t, o)
  BY DEF SchedulingInv, Past, AtWork
<1>3. /\ stage' \in [Triggers -> {"idle", "claim", "start", "insert", "failed"}]
      /\ stage'[t] = p /\ \A u \in Triggers \ {t} : stage'[u] = stage[u]
  BY <1>1 DEF TriggerGoto
<1>4. /\ started \subseteq started' /\ started' \subseteq started \cup {o} /\ started' \subseteq Runs
      /\ failed \subseteq failed' /\ failed' \subseteq failed \cup {o} /\ failed' \subseteq Runs
      /\ lost \subseteq lost' /\ lost' \subseteq lost \cup {o} /\ lost' \subseteq Runs
      /\ p # "idle" => started' = started /\ failed' = failed /\ lost' = lost
      /\ p = "idle" => o \in started' \cup failed' \cup lost'
  BY <1>1, <1>2 DEF rows
<1>5. sched' \in Row /\ (sched'.active <=> sched'.next # NoRun) /\ (sched'.active => sched' = sched)
  BY <1>1, SchedulingShapes DEF SchedulingInv, SchedulingTypeOK
<1>6. SchedulingTypeOK'
  BY <1>3, <1>4, <1>5 DEF SchedulingInv, SchedulingTypeOK
<1>7. \A u \in Triggers, r \in Runs :
        /\ u # t \/ r # o => (AtWork(u, r)' <=> AtWork(u, r))
        /\ AtWork(t, o)' <=> p # "idle"
  BY <1>2, <1>3 DEF AtWork
<1>8. Answered'
  <2> SUFFICES ASSUME NEW r \in Runs
               PROVE  /\ claims'[r] = 0 => r \notin started' \cup failed' \cup lost'
                                           /\ \A u \in Triggers : ~ AtWork(u, r)'
                      /\ claims'[r] > 0 => \/ r \in started' \cup failed' \cup lost'
                                           \/ \E u \in Triggers : AtWork(u, r)'
                      /\ claims'[r] = 1 =>
                           /\ \A u, v \in Triggers : AtWork(u, r)' /\ AtWork(v, r)' => u = v
                           /\ \A u \in Triggers : AtWork(u, r)' => r \notin started' \cup failed' \cup lost'
                           /\ r \notin started' \cap failed'
    BY DEF Answered
  <2>1. claims' = claims
    OBVIOUS
  <2>2. CASE r # o
    <3>1. /\ r \in started' <=> r \in started
          /\ r \in failed' <=> r \in failed
          /\ r \in lost' <=> r \in lost
      BY <1>4, <2>2
    <3>2. \A u \in Triggers : AtWork(u, r)' <=> AtWork(u, r)
      BY <1>7, <2>2
    <3> QED BY <2>1, <3>1, <3>2 DEF SchedulingInv, Answered
  <2>3. CASE r = o
    <3>1. claims[o] # 0
      BY <1>2 DEF SchedulingInv, Answered
    <3>2. o \in started' \cup failed' \cup lost' \/ AtWork(t, o)'
      BY <1>4, <1>7
    <3>3. ASSUME claims[o] = 1
          PROVE  /\ \A u, v \in Triggers : AtWork(u, o)' /\ AtWork(v, o)' => u = v
                 /\ \A u \in Triggers : AtWork(u, o)' => o \notin started' \cup failed' \cup lost'
                 /\ o \notin started' \cap failed'
      <4>1. \A u \in Triggers : AtWork(u, o) => u = t
        BY <1>2, <3>3 DEF SchedulingInv, Answered
      <4>2. \A u \in Triggers : AtWork(u, o)' => u = t /\ p # "idle"
        BY <1>7, <4>1
      <4>3. o \notin started \cup failed \cup lost
        BY <1>2, <3>3 DEF SchedulingInv, Answered
      <4> QED BY <1>2, <1>4, <3>3, <4>2, <4>3
    <3> QED BY <2>1, <2>3, <3>1, <3>2, <3>3
  <2> QED BY <2>2, <2>3
<1>9. Past'
  BY <1>2, <1>3 DEF SchedulingInv, Past, AtWork
<1>10. Occurrences' = Occurrences
  BY DEF Occurrences
<1>11. Fitting'
  BY <1>5, <1>10 DEF SchedulingInv, Fitting, Fits
<1>12. NoOccurrenceSkipped'
  <2> SUFFICES ASSUME toggles' = 0, sched'.active, NEW r \in Occurrences, r < sched'.next
               PROVE  r \in started' \cup lost' \/ AtStart(r)'
    BY <1>10 DEF NoOccurrenceSkipped
  <2>1. r \in started \cup lost \/ AtStart(r)
    BY <1>5 DEF SchedulingInv, NoOccurrenceSkipped
  <2>2. CASE r \in started \cup lost
    BY <1>4, <2>2
  <2>3. ASSUME NEW u \in Triggers, stage[u] \in {"start", "insert", "failed"}, due[u] = r
        PROVE  r \in started' \cup lost' \/ AtStart(r)'
    <3>1. CASE u # t
      BY <1>3, <2>3, <3>1 DEF AtStart
    <3>2. CASE u = t /\ p # "idle"
      BY <1>3, <2>3, <3>2 DEF AtStart
    <3>3. CASE u = t /\ p = "idle"
      BY <1>2, <1>5, <2>3, <3>3, SchedulingShapes
    <3> QED BY <3>1, <3>2, <3>3
  <2> QED BY <2>1, <2>2, <2>3 DEF AtStart
<1>13. ClaimedOnceBefore => ClaimedOnceBefore'
  BY <1>5 DEF ClaimedOnceBefore
<1> QED BY <1>6, <1>8, <1>9, <1>11, <1>12, <1>13 DEF SchedulingInv, OneRequestAtATime

LEMMA StartScheduledInv == ASSUME SchedulingInv, NEW t \in Triggers, StartScheduled(t) PROVE SchedulingInv'
<1>1. due[t] \in Runs /\ AtWork(t, due[t]) /\ stage[t] = "start"
  BY DEF StartScheduled, SchedulingInv, Past, AtWork
<1>2. claims[due[t]] = 1 => due[t] \notin started \cap failed
  BY <1>1 DEF SchedulingInv, Answered
<1>3. crashes' \in 0..MaxTriggerCrashes
  BY DEF StartScheduled, SchedulingInv, SchedulingTypeOK
<1> QED BY <1>1, <1>2, <1>3, WorkerMoves DEF StartScheduled, rows

LEMMA InsertExecutionInv == ASSUME SchedulingInv, NEW t \in Triggers, InsertExecution(t) PROVE SchedulingInv'
<1>1. due[t] \in Runs /\ AtWork(t, due[t]) /\ stage[t] = "insert"
  BY DEF InsertExecution, SchedulingInv, Past, AtWork
<1>2. claims[due[t]] = 1 => due[t] \notin started \cup failed
  BY <1>1 DEF SchedulingInv, Answered
<1>3. crashes' \in 0..MaxTriggerCrashes
  BY DEF InsertExecution, SchedulingInv, SchedulingTypeOK
<1> QED BY <1>1, <1>2, <1>3, WorkerMoves DEF InsertExecution, rows

LEMMA DeactivateInv == ASSUME SchedulingInv, NEW t \in Triggers, Deactivate(t) PROVE SchedulingInv'
<1>1. due[t] \in Runs /\ AtWork(t, due[t]) /\ stage[t] = "failed"
  BY DEF Deactivate, SchedulingInv, Past, AtWork
<1>2. claims[due[t]] = 1 => due[t] \notin started \cup failed
  BY <1>1 DEF SchedulingInv, Answered
<1>3. crashes' \in 0..MaxTriggerCrashes
  BY DEF Deactivate, SchedulingInv, SchedulingTypeOK
<1> QED BY <1>1, <1>2, <1>3, WorkerMoves DEF Deactivate, rows

LEMMA TriggerCrashesInv == ASSUME SchedulingInv, NEW t \in Triggers, TriggerCrashes(t) PROVE SchedulingInv'
<1>1. crashes' \in 0..MaxTriggerCrashes
  BY ScheduleNumbers, SchedulingAssumption DEF TriggerCrashes, SchedulingInv, SchedulingTypeOK
<1>2. stage[t] \in {"claim", "start", "insert", "failed"} /\ due \in [Triggers -> Runs \cup {NoRun}]
  BY DEF TriggerCrashes, SchedulingInv, SchedulingTypeOK
<1>3. CASE stage[t] = "claim"
  <2>1. due' = [due EXCEPT ![t] = due[t]]
    BY <1>2 DEF TriggerCrashes
  <2>2. /\ TriggerGoto(t, "idle")
        /\ UNCHANGED <<now, kind, sched, request, claims, started, failed, lost, toggles>>
    BY <1>3 DEF TriggerCrashes
  <2>3. PICK o \in Runs \cup {NoRun} : o = due[t]
    BY <1>2
  <2> QED BY <1>1, <1>3, <2>1, <2>2, <2>3, ReaderMoves
<1>4. CASE stage[t] # "claim"
  <2>1. due[t] \in Runs /\ AtWork(t, due[t])
    BY <1>2, <1>4 DEF SchedulingInv, Past, AtWork
  <2>2. claims[due[t]] = 1 => due[t] \notin started \cap failed
    BY <2>1 DEF SchedulingInv, Answered
  <2>3. lost' = lost \cup {due[t]}
    BY <1>4 DEF TriggerCrashes
  <2> QED BY <1>1, <1>2, <1>4, <2>1, <2>2, <2>3, WorkerMoves DEF TriggerCrashes
<1> QED BY <1>3, <1>4

\* The claim moves the schedule from the occurrence that is due to the one that follows it.
LEMMA ClaimDueInv == ASSUME SchedulingInv, NEW t \in Triggers, ClaimDue(t) PROVE SchedulingInv'
<1>1. /\ stage \in [Triggers -> {"idle", "claim", "start", "insert", "failed"}]
      /\ due \in [Triggers -> Runs \cup {NoRun}] /\ claims \in [Runs -> Nat] /\ kind \in Kinds
      /\ now \in 0..MaxTime /\ sched \in Row
  BY DEF SchedulingInv, SchedulingTypeOK
<1>2. stage[t] = "claim"
  BY DEF ClaimDue
<1>3. /\ UNCHANGED <<now, kind, due, request, started, failed, lost, toggles, crashes>>
      /\ crashes' \in 0..MaxTriggerCrashes
  BY DEF ClaimDue, rows, SchedulingInv, SchedulingTypeOK
<1>4. CASE TriggerGoto(t, "idle") /\ UNCHANGED <<sched, claims>>
  <2>1. due' = [due EXCEPT ![t] = due[t]]
    BY <1>1, <1>3
  <2>2. PICK o \in Runs \cup {NoRun} : o = due[t]
    BY <1>1
  <2> QED BY <1>2, <1>3, <1>4, <2>1, <2>2, ReaderMoves
<1>5. CASE /\ sched.active /\ sched.next = due[t]
           /\ sched' = RowFor(Following(due[t]))
           /\ claims' = [claims EXCEPT ![due[t]] = @ + 1]
           /\ TriggerGoto(t, "start")
  <2>1. PICK o \in Runs : o = due[t] /\ o <= now
    BY <1>2 DEF SchedulingInv, Past
  <2>2. PICK n : n = Following(o)
    OBVIOUS
  <2>3. o \in Nat /\ o \in Instants /\ o <= MaxTime
    <3>1. now \in Nat /\ now <= MaxTime
      BY <1>1, ScheduleNumbers
    <3> QED BY <2>1, <3>1, ScheduleNumbers
  <2>4. /\ n \in Runs \cup {NoRun}
        /\ n # NoRun => n > o /\ n \in Nat /\ (kind # "INTERVAL" \/ o % Period = 0 => n \in Occurrences)
    <3>1. CASE n = NoRun
      BY <3>1
    <3>2. CASE n # NoRun
      BY <1>1, <2>2, <2>3, <3>2, FollowingIsLater, ScheduleNumbers
    <3> QED BY <3>1, <3>2
  <2>5. /\ sched' \in Row /\ sched'.next = n /\ (sched'.active <=> n # NoRun)
        /\ sched.active /\ sched.next = o /\ o # NoRun
    BY <1>5, <2>1, <2>2, <2>4, SchedulingShapes, ScheduleNumbers DEF NoRun
  <2>6. /\ claims' \in [Runs -> Nat] /\ claims[o] \in Nat /\ claims'[o] = claims[o] + 1
        /\ \A r \in Runs \ {o} : claims'[r] = claims[r]
    BY <1>1, <1>5, <2>1
  <2>7. /\ stage' \in [Triggers -> {"idle", "claim", "start", "insert", "failed"}]
        /\ stage'[t] = "start" /\ \A u \in Triggers \ {t} : stage'[u] = stage[u]
    BY <1>1, <1>5 DEF TriggerGoto
  <2>8. SchedulingTypeOK'
    BY <1>3, <2>5, <2>6, <2>7 DEF SchedulingInv, SchedulingTypeOK
  <2>9. Past'
    BY <1>2, <1>3, <2>1, <2>6, <2>7 DEF SchedulingInv, Past
  <2>10. /\ \A u \in Triggers, r \in Runs : u # t => (AtWork(u, r)' <=> AtWork(u, r))
         /\ \A r \in Runs : AtWork(t, r)' <=> r = o
         /\ \A r \in Runs : ~ AtWork(t, r)
    BY <1>2, <1>3, <2>1, <2>7 DEF AtWork
  <2>11. Answered'
    <3> SUFFICES ASSUME NEW r \in Runs
                 PROVE  /\ claims'[r] = 0 => r \notin started' \cup failed' \cup lost'
                                             /\ \A u \in Triggers : ~ AtWork(u, r)'
                        /\ claims'[r] > 0 => \/ r \in started' \cup failed' \cup lost'
                                             \/ \E u \in Triggers : AtWork(u, r)'
                        /\ claims'[r] = 1 =>
                             /\ \A u, v \in Triggers : AtWork(u, r)' /\ AtWork(v, r)' => u = v
                             /\ \A u \in Triggers : AtWork(u, r)' => r \notin started' \cup failed' \cup lost'
                             /\ r \notin started' \cap failed'
      BY DEF Answered
    <3>1. UNCHANGED <<started, failed, lost>>
      BY <1>3
    <3>2. CASE r # o
      <4>1. claims'[r] = claims[r] /\ \A u \in Triggers : AtWork(u, r)' <=> AtWork(u, r)
        BY <2>6, <2>10, <3>2
      <4> QED BY <3>1, <4>1 DEF SchedulingInv, Answered
    <3>3. CASE r = o
      <4>1. claims'[o] # 0 /\ AtWork(t, o)'
        BY <2>6, <2>10
      <4>2. ASSUME claims'[o] = 1
            PROVE  /\ \A u \in Triggers : AtWork(u, o)' => u = t
                   /\ o \notin started \cup failed \cup lost
        <5>1. claims[o] = 0
          BY <2>6, <4>2
        <5> QED BY <2>10, <5>1 DEF SchedulingInv, Answered
      <4> QED BY <3>1, <3>3, <4>1, <4>2
    <3> QED BY <3>2, <3>3
  <2>12. Occurrences' = Occurrences /\ Fits(o)
    <3>1. Occurrences' = Occurrences
      BY <1>3 DEF Occurrences
    <3>2. Fits(o)
      BY <2>5 DEF SchedulingInv, Fitting
    <3> QED BY <1>3, <3>1, <3>2 DEF Fits
  <2>13. n # NoRun => Fits(n)
    <3>1. kind = "INTERVAL" /\ ~ (toggles > 0) => o % Period = 0
      BY <2>12 DEF Fits, Occurrences
    <3> QED BY <2>4, <3>1 DEF Fits
  <2>14. Fitting'
    <3>1. sched'.active => (kind = "INTERVAL" /\ toggles > 0) \/ sched'.next \in Occurrences
      BY <2>5, <2>13 DEF Fits
    <3>2. \A r \in Runs : claims'[r] > 0 => Fits(r)
      BY <2>6, <2>12 DEF SchedulingInv, Fitting
    <3> QED BY <1>3, <2>12, <3>1, <3>2 DEF SchedulingInv, Fitting, Fits
  <2>15. NoOccurrenceSkipped'
    <3> SUFFICES ASSUME toggles' = 0, sched'.active, NEW r \in Occurrences, r < sched'.next
                 PROVE  r \in started' \cup lost' \/ AtStart(r)'
      BY <2>12 DEF NoOccurrenceSkipped
    <3>1. o \in Occurrences /\ n # NoRun
      BY <1>3, <2>5, <2>12 DEF Fits
    <3>2. ~ (r > o)
      <4>1. ASSUME r > o PROVE FALSE
        <5>1. r \in Runs /\ r >= n
          BY <1>1, <2>2, <2>3, <3>1, <4>1, FollowingSkipsNone
        <5> QED BY <2>4, <2>5, <3>1, <5>1, ScheduleNumbers
      <4> QED BY <4>1
    <3>3. CASE r = o
      BY <1>3, <2>1, <2>7, <3>3 DEF AtStart
    <3>4. CASE r # o
      <4>1. r \in Runs
        BY <1>1, ScheduleNumbers, SchedulingAssumption DEF Occurrences
      <4>2. r < o /\ toggles = 0
        BY <1>3, <2>3, <3>2, <3>4, <4>1, ScheduleNumbers
      <4>3. r \in started \cup lost \/ AtStart(r)
        BY <2>5, <4>2 DEF SchedulingInv, NoOccurrenceSkipped
      <4>4. AtStart(r) => AtStart(r)'
        BY <1>2, <1>3, <2>7 DEF AtStart
      <4> QED BY <1>3, <4>3, <4>4
    <3> QED BY <3>3, <3>4
  <2>16. ClaimedOnceBefore => ClaimedOnceBefore'
    <3> SUFFICES ASSUME ClaimedOnceBefore PROVE ClaimedOnceBefore'
      OBVIOUS
    <3>1. claims[o] = 0
      BY <2>3, <2>5, <2>6 DEF ClaimedOnceBefore
    <3>2. \A r \in Runs : claims'[r] <= 1
      BY <2>6, <3>1 DEF ClaimedOnceBefore
    <3>3. ASSUME NEW r \in Runs, claims'[r] > 0, sched'.active PROVE r < sched'.next
      <4>1. r = o \/ r < o
        BY <2>5, <2>6, <3>3 DEF ClaimedOnceBefore
      <4> QED BY <2>3, <2>4, <2>5, <3>3, <4>1, ScheduleNumbers
    <3>4. \A a \in Operators : ~ (request'[a].at = "write" /\ request'[a].row.active)
      BY <1>3, <2>5 DEF ClaimedOnceBefore
    <3> QED BY <3>2, <3>3, <3>4 DEF ClaimedOnceBefore
  <2>17. \A a \in Operators : request'[a].row.active <=> request'[a].row.next # NoRun
    BY <1>3 DEF SchedulingInv
  <2> QED BY <2>8, <2>9, <2>11, <2>14, <2>15, <2>16, <2>17 DEF SchedulingInv, OneRequestAtATime
<1> QED BY <1>4, <1>5 DEF ClaimDue

\* A request reads the row: what it will write is inactive, or a run that follows the clock.
LEMMA SetActiveReadInv == ASSUME SchedulingInv, NEW a \in Operators, SetActiveRead(a) PROVE SchedulingInv'
<1>1. /\ request \in [Operators -> [at : {"idle", "write"}, row : Row]] /\ kind \in Kinds
      /\ now \in 0..MaxTime /\ toggles \in 0..MaxToggles /\ MaxToggles \in Nat
  BY SchedulingAssumption DEF SchedulingInv, SchedulingTypeOK
<1>2. /\ UNCHANGED <<now, kind, sched, stage, due, claims, started, failed, lost, crashes>>
      /\ toggles' = toggles + 1 /\ toggles' \in 0..MaxToggles /\ toggles' > 0
  BY <1>1 DEF SetActiveRead, trigger, rows
<1>3. PICK row \in Row :
        /\ request' = [request EXCEPT ![a] = [at |-> "write", row |-> row]]
        /\ row.active <=> row.next # NoRun
        /\ row.active => /\ ~ sched.active /\ row.next > now /\ row.next \in Runs
                         /\ kind # "INTERVAL" => row.next \in Occurrences
  <2>1. CASE sched.active /\ request' = [request EXCEPT ![a] = [at |-> "write", row |-> Inactive]]
    BY <2>1, SchedulingShapes
  <2>2. CASE /\ ~ sched.active /\ Following(now) # NoRun
             /\ request' = [request EXCEPT ![a] = [at |-> "write", row |-> RowFor(Following(now))]]
    <3>1. PICK n : n = Following(now)
      OBVIOUS
    <3>2. now \in Instants /\ now <= MaxTime
      BY <1>1, ScheduleNumbers DEF Instants
    <3>3. n \in Runs /\ n > now /\ (kind # "INTERVAL" => n \in Occurrences) /\ n # NoRun
      BY <1>1, <2>2, <3>1, <3>2, FollowingIsLater
    <3>4. RowFor(n) \in Row /\ RowFor(n).next = n /\ RowFor(n).active
      BY <3>3, SchedulingShapes
    <3> QED BY <2>2, <3>1, <3>3, <3>4
  <2> QED BY <2>1, <2>2 DEF SetActiveRead
<1>4. /\ request' \in [Operators -> [at : {"idle", "write"}, row : Row]]
      /\ request'[a].at = "write" /\ request'[a].row = row
      /\ \A b \in Operators \ {a} : request'[b] = request[b]
  BY <1>1, <1>3
<1>5. SchedulingTypeOK'
  BY <1>2, <1>4 DEF SchedulingInv, SchedulingTypeOK
<1>6. Past' /\ Answered'
  BY <1>2 DEF SchedulingInv, Past, Answered, AtWork
<1>7. Occurrences' = Occurrences
  BY <1>2 DEF Occurrences
<1>8. Fitting'
  <2>1. sched.active => (kind = "INTERVAL" /\ toggles' > 0) \/ sched.next \in Occurrences
    BY <1>2 DEF SchedulingInv, Fitting, Fits
  <2>2. \A b \in Operators : request'[b].at = "write" /\ request'[b].row.active =>
          (kind = "INTERVAL" /\ toggles' > 0) \/ request'[b].row.next \in Occurrences
    BY <1>2, <1>3, <1>4 DEF SchedulingInv, Fitting, Fits
  <2>3. \A r \in Runs : claims[r] > 0 => (kind = "INTERVAL" /\ toggles' > 0) \/ r \in Occurrences
    BY <1>2 DEF SchedulingInv, Fitting, Fits
  <2> QED BY <1>2, <1>7, <2>1, <2>2, <2>3 DEF Fitting, Fits
<1>9. NoOccurrenceSkipped'
  BY <1>1, <1>2 DEF NoOccurrenceSkipped
<1>10. ClaimedOnceBefore => ClaimedOnceBefore'
  <2> SUFFICES ASSUME ClaimedOnceBefore PROVE ClaimedOnceBefore'
    OBVIOUS
  <2>1. row.active => \A r \in Runs : claims[r] > 0 => r < row.next
    <3>1. \A r \in Runs : claims[r] > 0 => r <= now
      BY DEF SchedulingInv, Past
    <3>2. \A r \in Runs : r \in Nat
      BY ScheduleNumbers DEF Runs
    <3>3. now \in Nat
      BY <1>1, ScheduleNumbers
    <3>4. row.active => row.next > now /\ row.next \in Nat
      BY <1>3, ScheduleNumbers DEF Row, Runs, NoRun
    <3>5. \A r, n \in Nat : r <= now /\ n > now => r < n
      BY <3>3
    <3> QED BY <3>1, <3>2, <3>4, <3>5
  <2>2. \A b \in Operators : request'[b].at = "write" /\ request'[b].row.active =>
          ~ sched.active /\ \A r \in Runs : claims[r] > 0 => r < request'[b].row.next
    BY <1>3, <1>4, <2>1 DEF ClaimedOnceBefore
  <2> QED BY <1>2, <2>2 DEF ClaimedOnceBefore
<1>11. \A b \in Operators : request'[b].row.active <=> request'[b].row.next # NoRun
  BY <1>3, <1>4 DEF SchedulingInv
<1> QED BY <1>5, <1>6, <1>8, <1>9, <1>10, <1>11 DEF SchedulingInv, OneRequestAtATime

\* The write puts in force what the request computed, whatever the row says by then.
LEMMA SetActiveWriteInv == ASSUME SchedulingInv, NEW a \in Operators, SetActiveWrite(a) PROVE SchedulingInv'
<1>1. request \in [Operators -> [at : {"idle", "write"}, row : Row]] /\ toggles \in Nat
  BY ScheduleNumbers, SchedulingAssumption DEF SchedulingInv, SchedulingTypeOK
<1>2. PICK row \in Row : row = request[a].row /\ sched' = row /\ (row.active <=> row.next # NoRun)
  BY <1>1 DEF SetActiveWrite, SchedulingInv
<1>3. /\ UNCHANGED <<now, kind, stage, due, claims, started, failed, lost, toggles, crashes>>
      /\ request[a].at = "write" /\ toggles > 0
  BY DEF SetActiveWrite, trigger, rows, SchedulingInv, Fitting
<1>4. /\ request' \in [Operators -> [at : {"idle", "write"}, row : Row]]
      /\ request'[a] = Quiet /\ \A b \in Operators \ {a} : request'[b] = request[b]
  BY <1>1, SchedulingShapes DEF SetActiveWrite
<1>5. SchedulingTypeOK'
  BY <1>2, <1>3, <1>4 DEF SchedulingInv, SchedulingTypeOK
<1>6. Past' /\ Answered'
  BY <1>3 DEF SchedulingInv, Past, Answered, AtWork
<1>7. Occurrences' = Occurrences
  BY <1>3 DEF Occurrences
<1>8. Fitting'
  <2>1. row.active => Fits(row.next)
    BY <1>2, <1>3 DEF SchedulingInv, Fitting
  <2>2. \A b \in Operators : request'[b].at = "write" =>
          toggles > 0 /\ (request'[b].row.active => Fits(request[b].row.next) /\ request'[b] = request[b])
    BY <1>4, SchedulingShapes DEF SchedulingInv, Fitting
  <2>3. \A b \in Operators : request'[b].at = "write" /\ request'[b].row.active =>
            (kind = "INTERVAL" /\ toggles > 0) \/ request'[b].row.next \in Occurrences
    BY <2>2 DEF Fits
  <2> QED BY <1>2, <1>3, <1>7, <2>1, <2>2, <2>3 DEF SchedulingInv, Fitting, Fits
<1>9. NoOccurrenceSkipped'
  BY <1>1, <1>3 DEF NoOccurrenceSkipped
<1>10. OneRequestAtATime => ClaimedOnceBefore'
  <2> SUFFICES ASSUME OneRequestAtATime PROVE ClaimedOnceBefore'
    OBVIOUS
  <2>1. ClaimedOnceBefore
    BY DEF SchedulingInv
  <2>2. \A b \in Operators : request'[b].at # "write"
    BY <1>4, SchedulingShapes DEF OneRequestAtATime
  <2>3. row.active => \A r \in Runs : claims[r] > 0 => r < row.next
    BY <1>2, <1>3, <2>1 DEF ClaimedOnceBefore
  <2> QED BY <1>2, <1>3, <2>1, <2>2, <2>3 DEF ClaimedOnceBefore
<1>11. \A b \in Operators : request'[b].row.active <=> request'[b].row.next # NoRun
  BY <1>4, SchedulingShapes DEF SchedulingInv
<1> QED BY <1>5, <1>6, <1>8, <1>9, <1>10, <1>11 DEF SchedulingInv, OneRequestAtATime

LEMMA SchedulingNextInv == SchedulingInv /\ [SchedulingNext]_schedulingVars => SchedulingInv'
<1> SUFFICES ASSUME SchedulingInv, [SchedulingNext]_schedulingVars PROVE SchedulingInv'
  OBVIOUS
<1>1. CASE UNCHANGED schedulingVars
  <2>1. UNCHANGED <<now, kind, sched, stage, due, request, claims, started, failed, lost, toggles, crashes>>
    BY <1>1 DEF schedulingVars
  <2>2. Occurrences' = Occurrences
    BY <2>1 DEF Occurrences
  <2> QED BY <2>1, <2>2 DEF SchedulingInv, SchedulingTypeOK, Past, Answered, AtWork, Fitting, Fits,
          NoOccurrenceSkipped, AtStart, ClaimedOnceBefore, OneRequestAtATime
<1>2. ASSUME NEW t \in Triggers, TriggerStep(t) \/ TriggerCrashes(t) PROVE SchedulingInv'
  BY <1>2, ReadDueInv, ClaimDueInv, StartScheduledInv, InsertExecutionInv, DeactivateInv,
     TriggerCrashesInv DEF TriggerStep
<1> QED BY <1>1, <1>2, SchedulingTickInv, SetActiveReadInv, SetActiveWriteInv DEF SchedulingNext

LEMMA SchedulingInvSafe ==
  SchedulingInv => /\ SchedulingTypeOK /\ NoOccurrenceSkipped /\ ClaimsAreAnswered
                   /\ OneRequestAtATime => ClaimedOnce
<1> SUFFICES ASSUME SchedulingInv
             PROVE  ClaimsAreAnswered /\ (OneRequestAtATime => ClaimedOnce)
  BY DEF SchedulingInv
<1>1. claims \in [Runs -> Nat] /\ kind \in Kinds
  BY DEF SchedulingInv, SchedulingTypeOK
<1>2. ClaimsAreAnswered
  <2>1. \A o : \A t \in Triggers : AtWork(t, o) => AtStart(o)
    BY DEF AtWork, AtStart
  <2> QED BY <2>1 DEF SchedulingInv, Answered, ClaimsAreAnswered
<1>3. ASSUME OneRequestAtATime PROVE ClaimedOnce
  <2>1. \A o \in Runs : claims[o] <= 1 /\ (claims[o] > 0 => o <= now)
    BY <1>3 DEF SchedulingInv, ClaimedOnceBefore, Past
  <2>2. ASSUME kind \notin {"ONCE", "INTERVAL"}, NEW o \in Runs, claims[o] > 0
        PROVE  \E d \in Dates : o = ValidLocal[d] /\ LocalDate(o) = d
    <3>1. o \in Occurrences /\ kind \in {"DAILY", "WEEKLY", "MONTHLY"}
      BY <1>1, <2>2, SchedulingAssumption DEF SchedulingInv, Fitting, Fits
    <3>2. DatesOf(kind) \subseteq Dates
      BY <3>1, SchedulingAssumption DEF DatesOf
    <3>3. PICK d \in DatesOf(kind) : o = ValidLocal[d]
      BY <3>1 DEF Occurrences
    <3>4. o # NoRun
      BY ScheduleNumbers DEF NoRun, Runs
    <3>5. d \in Dates /\ ValidLocal[d] # NoRun
      BY <3>2, <3>3, <3>4
    <3>6. LocalDate(ValidLocal[d]) = d
      BY <3>5, RunIsShown
    <3> QED BY <3>3, <3>5, <3>6
  <2> QED BY <2>1, <2>2 DEF ClaimedOnce
<1> QED BY <1>2, <1>3

-----------------------------------------------------------------------------
(* Reports *)

Listed    == [of : Schedules, run : 1..MaxHour]
ActivePlan == [state : {"active"}, next : ReportOccurrences]
Listing   == [step : {"list"}, list : SUBSET Listed]
Handling  == [step : {"request", "stop"}, list : SUBSET Listed, at : Listed]
RequestCount == [claims : Nat, reports : Nat]
ReportRow == [status : {"none", "QUEUED", "RUNNING", "READY", "FAILED"},
              at : {"none", "start", "generate", "file", "ready", "fail", "end", "dead", "refused"},
              attempt : 0..MaxGenerations]

Has(t, d) == reporter[t].step = "request" /\ reporter[t].at = d

ReportingTypes ==
  /\ hour \in 0..MaxHour /\ reportCrashes \in 0..MaxReportCrashes
  /\ plan \in [Schedules -> {Deleted, Stopped} \cup ActivePlan]
  /\ requested \in [Schedules -> [ReportOccurrences -> RequestCount]]
  /\ reporter \in [ReportTriggers -> {Idle} \cup Listing \cup Handling]
  /\ \A r \in Reports : report[r] \in ReportRow
  /\ DOMAIN report = Reports

\* What is due again has not been claimed yet.
ClaimedBefore ==
  \A s \in Schedules, n \in ReportOccurrences :
    plan[s].state = "active" /\ plan[s].next <= n => requested[s][n].claims = 0

\* An occurrence is claimed once, and gets its report from the worker that claimed it.
ClaimsAndReports ==
  \A s \in Schedules, n \in ReportOccurrences :
    /\ requested[s][n].claims <= 1 /\ requested[s][n].reports <= requested[s][n].claims

HeldAlone ==
  \A t \in ReportTriggers : reporter[t].step = "request" =>
    /\ requested[reporter[t].at.of][reporter[t].at.run] = [claims |-> 1, reports |-> 0]
    /\ \A u \in ReportTriggers : reporter[u].step = "request" /\ reporter[u].at = reporter[t].at => u = t

\* Of a request that failed it is known that it did.
StopsAreKnown == \A t \in ReportTriggers : reporter[t].step = "stop" => reporter[t].at \in unanswered

ReportingInv ==
  /\ ReportingTypes /\ ClaimedBefore /\ ClaimsAndReports /\ HeldAlone /\ StopsAreKnown
  /\ NoReportSkipped

\* The shapes of rows, lists and readings tell them apart.
LEMMA ReportingShapes ==
  /\ Deleted.state = "deleted" /\ Stopped.state = "inactive" /\ Idle.step = "idle"
  /\ \A p \in ActivePlan : p.state = "active" /\ p.next \in ReportOccurrences
                           /\ p = [state |-> "active", next |-> p.next]
  /\ \A m \in Listing : m.step = "list" /\ m.list \subseteq Listed
  /\ \A m \in Handling : m.step \in {"request", "stop"} /\ m.list \subseteq Listed /\ m.at \in Listed
  /\ \A d \in Listed : d.of \in Schedules /\ d.run \in 1..MaxHour /\ d = [of |-> d.of, run |-> d.run]
  /\ \A q \in RequestCount : q.claims \in Nat /\ q.reports \in Nat
                             /\ q = [claims |-> q.claims, reports |-> q.reports]
BY DEF Deleted, Stopped, Idle, ActivePlan, Listing, Handling, Listed, RequestCount

\* Instants of occurrences are numbers.
LEMMA OccurrencesAreNumbers ==
  /\ MaxHour \in Nat /\ \A n \in ReportOccurrences : n \in Nat /\ n >= 1 /\ n <= MaxHour + 1
  /\ \A n \in 1..MaxHour : n \in ReportOccurrences /\ n + 1 \in ReportOccurrences /\ n \in Nat
BY ReportingAssumption DEF ReportOccurrences

LEMMA ReportingInitInv == ReportingInit => ReportingInv
<1> SUFFICES ASSUME ReportingInit PROVE ReportingInv
  OBVIOUS
<1>1. \A s \in Schedules : plan[s] = [state |-> "active", next |-> 1]
  BY DEF ReportingInit
<1>2. \A t \in ReportTriggers : reporter[t] = Idle /\ reporter[t].step = "idle"
  BY ReportingShapes DEF ReportingInit
<1>3. \A s \in Schedules, n \in ReportOccurrences :
        requested[s][n] = [claims |-> 0, reports |-> 0]
  BY DEF ReportingInit
<1>4. ReportingTypes
  BY ReportingAssumption, OccurrencesAreNumbers
     DEF ReportingInit, ReportingTypes, ActivePlan, RequestCount, ReportRow, ReportOccurrences
<1>5. NoReportSkipped
  <2>1. ASSUME NEW s \in Schedules PROVE plan[s].next = 1
    <3>1. plan[s] = [state |-> "active", next |-> 1]
      BY <1>1
    <3> QED BY <3>1
  <2>2. \A s \in Schedules : \A n \in 1..(plan[s].next - 1) : FALSE
    <3>1. \A n \in 1..(1 - 1) : FALSE
      OBVIOUS
    <3> QED BY <2>1, <3>1
  <2> QED BY <2>2 DEF NoReportSkipped
<1> QED BY <1>1, <1>2, <1>3, <1>4, <1>5
        DEF ReportingInv, ClaimedBefore, ClaimsAndReports, HeldAlone, StopsAreKnown

LEMMA ReportingHourInv == ASSUME ReportingInv, HourPasses PROVE ReportingInv'
<1>1. hour' \in 0..MaxHour
  BY OccurrencesAreNumbers DEF HourPasses, ReportingInv, ReportingTypes
<1> QED BY <1>1 DEF HourPasses, ReportingInv, ReportingTypes, ClaimedBefore, ClaimsAndReports,
                    HeldAlone, StopsAreKnown, NoReportSkipped

\* A worker that holds no occurrence before or after moves on.
LEMMA ReporterMoves ==
  ASSUME ReportingInv, NEW t \in ReportTriggers, NEW m \in {Idle} \cup Listing,
         reporter' = [reporter EXCEPT ![t] = m],
         \/ reporter[t].step \notin {"request", "stop"}
         \/ reporter[t].at \in unanswered'
         \/ requested'[reporter[t].at.of][reporter[t].at.run].reports = 1
         \/ plan'[reporter[t].at.of].state # "active",
         unanswered \subseteq unanswered',
         UNCHANGED hour, reportCrashes' \in 0..MaxReportCrashes, UNCHANGED report,
         plan' \in [Schedules -> {Deleted, Stopped} \cup ActivePlan],
         \A s \in Schedules : plan'[s] = plan[s] \/ plan'[s].state # "active",
         requested' \in [Schedules -> [ReportOccurrences -> RequestCount]],
         \A s \in Schedules, n \in ReportOccurrences :
           \/ requested'[s][n] = requested[s][n]
           \/ /\ Has(t, [of |-> s, run |-> n])
              /\ requested'[s][n] = [claims |-> 1, reports |-> 1]
  PROVE  ReportingInv'
<1>1. m.step \in {"idle", "list"}
  BY ReportingShapes
<1>2. reporter \in [ReportTriggers -> {Idle} \cup Listing \cup Handling]
  BY DEF ReportingInv, ReportingTypes
<1>3. /\ reporter' \in [ReportTriggers -> {Idle} \cup Listing \cup Handling]
      /\ reporter'[t] = m /\ \A u \in ReportTriggers \ {t} : reporter'[u] = reporter[u]
  BY <1>2
<1>4. ReportingTypes'
  BY <1>3 DEF ReportingInv, ReportingTypes
<1>5. \A s \in Schedules, n \in ReportOccurrences :
        requested[s][n] \in RequestCount /\ requested'[s][n] \in RequestCount
  BY DEF ReportingInv, ReportingTypes
<1>6. \A s \in Schedules, n \in ReportOccurrences :
        /\ requested'[s][n].claims = requested[s][n].claims
        /\ requested'[s][n].reports <= requested'[s][n].claims
        /\ requested[s][n].reports = 1 => requested'[s][n].reports = 1
  <2> TAKE s \in Schedules, n \in ReportOccurrences
  <2>1. CASE requested'[s][n] = requested[s][n]
    BY <2>1 DEF ReportingInv, ClaimsAndReports
  <2>2. CASE /\ Has(t, [of |-> s, run |-> n])
             /\ requested'[s][n] = [claims |-> 1, reports |-> 1]
    <3>1. requested[s][n] = [claims |-> 1, reports |-> 0]
      BY <2>2 DEF ReportingInv, HeldAlone, Has
    <3> QED BY <2>2, <3>1
  <2> QED BY <2>1, <2>2
<1>7. ClaimedBefore' /\ ClaimsAndReports'
  <2>1. ClaimedBefore'
    <3>1. \A s \in Schedules : plan'[s].state = "active" => plan'[s] = plan[s]
      OBVIOUS
    <3> QED BY <1>6, <3>1 DEF ReportingInv, ClaimedBefore
  <2>2. ClaimsAndReports'
    <3>1. \A s \in Schedules, n \in ReportOccurrences : requested'[s][n].claims <= 1
      BY <1>6 DEF ReportingInv, ClaimsAndReports
    <3> QED BY <1>6, <3>1 DEF ClaimsAndReports
  <2> QED BY <2>1, <2>2
<1>8. HeldAlone'
  <2> SUFFICES ASSUME NEW u \in ReportTriggers, reporter'[u].step = "request"
               PROVE  /\ requested'[reporter'[u].at.of][reporter'[u].at.run] = [claims |-> 1, reports |-> 0]
                      /\ \A v \in ReportTriggers :
                           reporter'[v].step = "request" /\ reporter'[v].at = reporter'[u].at => v = u
    BY DEF HeldAlone
  <2>1. u # t /\ reporter'[u] = reporter[u]
    BY <1>1, <1>3
  <2>2. PICK d \in Listed : d = reporter[u].at
    <3>1. reporter[u] \in Handling
      BY <1>2, <2>1, ReportingShapes
    <3> QED BY <3>1, ReportingShapes
  <2>3. d.of \in Schedules /\ d.run \in ReportOccurrences /\ d = [of |-> d.of, run |-> d.run]
    BY ReportingShapes, OccurrencesAreNumbers
  <2>4. ~ Has(t, d)
    BY <2>1, <2>2 DEF ReportingInv, HeldAlone, Has
  <2>5. requested'[d.of][d.run] = requested[d.of][d.run]
    BY <2>3, <2>4
  <2>6. \A v \in ReportTriggers : reporter'[v].step = "request" => v # t /\ reporter'[v] = reporter[v]
    BY <1>1, <1>3
  <2> QED BY <2>1, <2>2, <2>5, <2>6 DEF ReportingInv, HeldAlone
<1>9. StopsAreKnown'
  BY <1>1, <1>3 DEF ReportingInv, StopsAreKnown
<1>10. NoReportSkipped'
  <2> SUFFICES ASSUME NEW s \in Schedules, plan'[s].state = "active", NEW n \in 1..(plan'[s].next - 1)
               PROVE  \/ requested'[s][n].reports = 1
                      \/ [of |-> s, run |-> n] \in unanswered'
                      \/ \E u \in ReportTriggers : /\ reporter'[u].step \in {"request", "stop"}
                                                   /\ reporter'[u].at = [of |-> s, run |-> n]
    BY DEF NoReportSkipped
  <2>1. plan'[s] = plan[s]
    OBVIOUS
  <2>2. n \in ReportOccurrences
    <3>1. plan[s].next \in ReportOccurrences
      BY <2>1, ReportingShapes DEF ReportingInv, ReportingTypes
    <3> QED BY <2>1, <3>1, OccurrencesAreNumbers DEF ReportOccurrences
  <2>3. CASE requested[s][n].reports = 1 \/ [of |-> s, run |-> n] \in unanswered
    BY <1>6, <2>2, <2>3
  <2>4. ASSUME NEW u \in ReportTriggers, reporter[u].step \in {"request", "stop"},
               reporter[u].at = [of |-> s, run |-> n], u # t
        PROVE  \E v \in ReportTriggers : /\ reporter'[v].step \in {"request", "stop"}
                                         /\ reporter'[v].at = [of |-> s, run |-> n]
    BY <1>3, <2>4
  <2>5. CASE reporter[t].step \in {"request", "stop"} /\ reporter[t].at = [of |-> s, run |-> n]
    <3>1. reporter[t].at.of = s /\ reporter[t].at.run = n
      BY <2>5
    <3> QED BY <2>5, <3>1
  <2> QED BY <2>1, <2>3, <2>4, <2>5 DEF ReportingInv, NoReportSkipped
<1> QED BY <1>4, <1>7, <1>8, <1>9, <1>10 DEF ReportingInv

\* The rest of a list is a list, or the worker is idle.
LEMMA GoesOnListing ==
  ASSUME ReportingInv, NEW t \in ReportTriggers, reporter[t] # Idle, NEW d
  PROVE  GoesOn(t, d) \in {Idle} \cup Listing
<1>1. reporter[t].list \subseteq Listed
  BY ReportingShapes DEF ReportingInv, ReportingTypes
<1> QED BY <1>1 DEF GoesOn, Rest, Listing

LEMMA ListDueInv == ASSUME ReportingInv, NEW t \in ReportTriggers, ListDue(t) PROVE ReportingInv'
<1>1. PICK L : L = {[of |-> s, run |-> plan[s].next] : s \in {d \in Schedules : IsDuePlan(d)}}
  OBVIOUS
<1>2. ASSUME NEW s \in Schedules, IsDuePlan(s) PROVE [of |-> s, run |-> plan[s].next] \in Listed
  <2>1. plan[s] \in ActivePlan
    BY <1>2, ReportingShapes DEF ReportingInv, ReportingTypes, IsDuePlan
  <2>2. plan[s].next \in ReportOccurrences /\ plan[s].next <= hour /\ hour \in 0..MaxHour
    BY <1>2, <2>1, ReportingShapes DEF ReportingInv, ReportingTypes, IsDuePlan
  <2>3. plan[s].next \in 1..MaxHour
    BY <2>2, OccurrencesAreNumbers
  <2> QED BY <2>3 DEF Listed
<1>3. L \subseteq Listed
  BY <1>1, <1>2
<1>4. PICK m : m = [step |-> "list", list |-> L]
  OBVIOUS
<1>5. m \in Listing
  BY <1>3, <1>4 DEF Listing
<1>6. reporter' = [reporter EXCEPT ![t] = m]
  BY <1>1, <1>4 DEF ListDue
<1>7. reporter[t].step \notin {"request", "stop"}
  BY ReportingShapes DEF ListDue
<1> QED BY <1>5, <1>6, <1>7, ReporterMoves DEF ListDue, ReportingInv, ReportingTypes

\* A plan as it was listed is due: its occurrence becomes the worker's.
LEMMA ClaimPlanInv ==
  ASSUME ReportingInv, NEW t \in ReportTriggers, NEW d \in reporter[t].list, ClaimPlan(t, d)
  PROVE  ReportingInv'
<1>1. reporter[t] \in Listing /\ d \in Listed /\ reporter[t] # Idle /\ reporter[t].step = "list"
  BY ReportingShapes DEF ReportingInv, ReportingTypes, ClaimPlan
<1>2. PICK s \in Schedules, n \in 1..MaxHour : s = d.of /\ n = d.run /\ d = [of |-> s, run |-> n]
  BY <1>1, ReportingShapes
<1>3. n \in ReportOccurrences /\ n + 1 \in ReportOccurrences /\ n \in Nat
  BY OccurrencesAreNumbers
<1>4. CASE ~ Claimable(d) /\ reporter' = [reporter EXCEPT ![t] = GoesOn(t, d)]
           /\ UNCHANGED <<plan, requested>>
  <2>1. GoesOn(t, d) \in {Idle} \cup Listing
    BY <1>1, GoesOnListing
  <2> QED BY <1>1, <1>4, <2>1, ReporterMoves DEF ClaimPlan, ReportingInv, ReportingTypes
<1>5. CASE /\ Claimable(d)
           /\ plan' = [plan EXCEPT ![d.of] = Advanced(d)]
           /\ requested' = [requested EXCEPT ![d.of][d.run].claims = @ + 1]
           /\ reporter' = [reporter EXCEPT ![t] = [step |-> "request", list |-> Rest(t, d), at |-> d]]
  <2> DEFINE q == [requested[s][n] EXCEPT !.claims = @ + 1]
             m == [step |-> "request", list |-> Rest(t, d), at |-> d]
             row == Advanced(d)
  <2>1. plan[s] = [state |-> "active", next |-> n]
    BY <1>2, <1>5 DEF Claimable
  <2>2. requested \in [Schedules -> [ReportOccurrences -> RequestCount]]
    BY DEF ReportingInv, ReportingTypes
  <2>3. requested[s][n] = [claims |-> 0, reports |-> 0]
    <3>1. requested[s][n].claims = 0 /\ requested[s][n].reports <= requested[s][n].claims
      BY <1>3, <2>1 DEF ReportingInv, ClaimedBefore, ClaimsAndReports
    <3>2. requested[s][n] \in RequestCount
      BY <1>3, <2>2
    <3> QED BY <3>1, <3>2, ReportingShapes
  <2>4. q = [claims |-> 1, reports |-> 0] /\ q \in RequestCount
    BY <2>3 DEF RequestCount
  <2>5. /\ requested' = [requested EXCEPT ![s] = [requested[s] EXCEPT ![n] = q]]
        /\ requested' \in [Schedules -> [ReportOccurrences -> RequestCount]]
    BY <1>2, <1>3, <1>5, <2>2, <2>4
  <2>6. /\ requested'[s][n] = [claims |-> 1, reports |-> 0]
        /\ \A z \in Schedules, k \in ReportOccurrences :
             z # s \/ k # n => requested'[z][k] = requested[z][k]
    BY <1>3, <2>2, <2>4, <2>5
  <2>7. row \in {Stopped} \cup ActivePlan
    BY <1>2, <1>3 DEF Advanced, ActivePlan
  <2>8. row.state = "active" => row.next = n + 1
    BY <1>2, ReportingShapes DEF Advanced
  <2>9. /\ plan' \in [Schedules -> {Deleted, Stopped} \cup ActivePlan]
        /\ plan'[s] = row /\ \A z \in Schedules \ {s} : plan'[z] = plan[z]
    BY <1>2, <1>5, <2>7 DEF ReportingInv, ReportingTypes
  <2>10. m \in Handling /\ m.step = "request" /\ m.at = d
    BY <1>1, ReportingShapes DEF Rest, Handling
  <2>11. reporter \in [ReportTriggers -> {Idle} \cup Listing \cup Handling]
    BY DEF ReportingInv, ReportingTypes
  <2>12. /\ reporter' \in [ReportTriggers -> {Idle} \cup Listing \cup Handling]
         /\ reporter'[t] = m /\ \A u \in ReportTriggers \ {t} : reporter'[u] = reporter[u]
    BY <1>5, <2>10, <2>11
  <2>13. ReportingTypes'
    BY <2>5, <2>9, <2>12 DEF ClaimPlan, ReportingInv, ReportingTypes
  <2>14. ClaimedBefore'
    <3> SUFFICES ASSUME NEW z \in Schedules, NEW k \in ReportOccurrences,
                        plan'[z].state = "active", plan'[z].next <= k
                 PROVE  requested'[z][k].claims = 0
      BY DEF ClaimedBefore
    <3>1. CASE z # s
      BY <2>6, <2>9, <3>1 DEF ReportingInv, ClaimedBefore
    <3>2. CASE z = s
      <4>1. n + 1 <= k /\ k \in Nat
        BY <2>8, <2>9, <3>2, OccurrencesAreNumbers
      <4>2. n <= k /\ n # k
        BY <1>3, <4>1
      <4>3. requested[s][k].claims = 0
        BY <2>1, <4>2 DEF ReportingInv, ClaimedBefore
      <4> QED BY <2>6, <3>2, <4>2, <4>3
    <3> QED BY <3>1, <3>2
  <2>15. ClaimsAndReports'
    <3> SUFFICES ASSUME NEW z \in Schedules, NEW k \in ReportOccurrences
                 PROVE  requested'[z][k].claims <= 1 /\ requested'[z][k].reports <= requested'[z][k].claims
      BY DEF ClaimsAndReports
    <3>1. CASE z = s /\ k = n
      BY <2>6, <3>1
    <3>2. CASE z # s \/ k # n
      BY <2>6, <3>2 DEF ReportingInv, ClaimsAndReports
    <3> QED BY <3>1, <3>2
  <2>16. ASSUME NEW u \in ReportTriggers \ {t}, reporter[u].step = "request"
         PROVE  reporter[u].at # d
    <3>1. requested[reporter[u].at.of][reporter[u].at.run] = [claims |-> 1, reports |-> 0]
      BY <2>16 DEF ReportingInv, HeldAlone
    <3> QED BY <1>2, <2>3, <3>1
  <2>17. HeldAlone'
    <3> SUFFICES ASSUME NEW u \in ReportTriggers, reporter'[u].step = "request"
                 PROVE  /\ requested'[reporter'[u].at.of][reporter'[u].at.run] = [claims |-> 1, reports |-> 0]
                        /\ \A v \in ReportTriggers :
                             reporter'[v].step = "request" /\ reporter'[v].at = reporter'[u].at => v = u
      BY DEF HeldAlone
    <3>1. CASE u = t
      <4>1. reporter'[u].at = d /\ reporter'[u].at.of = s /\ reporter'[u].at.run = n
        BY <1>2, <2>10, <2>12, <3>1
      <4>2. \A v \in ReportTriggers :
              reporter'[v].step = "request" /\ reporter'[v].at = d => v = t
        BY <2>12, <2>16
      <4> QED BY <2>6, <3>1, <4>1, <4>2
    <3>2. CASE u # t
      <4>1. reporter'[u] = reporter[u] /\ reporter[u].at # d
        BY <2>12, <2>16, <3>2
      <4>2. PICK e \in Listed : e = reporter[u].at
        <5>1. reporter[u] \in Handling
          BY <2>11, <4>1, ReportingShapes
        <5> QED BY <5>1, ReportingShapes
      <4>3. e.of \in Schedules /\ e.run \in ReportOccurrences /\ e = [of |-> e.of, run |-> e.run]
        BY ReportingShapes, OccurrencesAreNumbers
      <4>4. requested'[e.of][e.run] = requested[e.of][e.run]
        BY <1>2, <2>6, <4>1, <4>2, <4>3
      <4>5. \A v \in ReportTriggers :
              reporter'[v].step = "request" /\ reporter'[v].at = e => v # t /\ reporter'[v] = reporter[v]
        BY <2>10, <2>12, <4>1, <4>2
      <4> QED BY <4>1, <4>2, <4>4, <4>5 DEF ReportingInv, HeldAlone
    <3> QED BY <3>1, <3>2
  <2>18. StopsAreKnown'
    BY <2>10, <2>12 DEF ClaimPlan, ReportingInv, StopsAreKnown
  <2>19. NoReportSkipped'
    <3> SUFFICES ASSUME NEW z \in Schedules, plan'[z].state = "active", NEW k \in 1..(plan'[z].next - 1)
                 PROVE  \/ requested'[z][k].reports = 1
                        \/ [of |-> z, run |-> k] \in unanswered'
                        \/ \E u \in ReportTriggers : /\ reporter'[u].step \in {"request", "stop"}
                                                     /\ reporter'[u].at = [of |-> z, run |-> k]
      BY DEF NoReportSkipped
    <3>1. CASE z = s /\ k = n
      <4>1. reporter'[t].step \in {"request", "stop"} /\ reporter'[t].at = [of |-> z, run |-> k]
        BY <1>2, <2>10, <2>12, <3>1
      <4> QED BY <4>1
    <3>2. CASE ~ (z = s /\ k = n)
      <4>1. plan[z].state = "active" /\ k \in 1..(plan[z].next - 1)
        <5>1. CASE z = s
          <6>1. plan'[z].next = n + 1
            BY <2>8, <2>9, <5>1
          <6>2. k \in 1..(n - 1)
            BY <1>3, <3>2, <5>1, <6>1
          <6> QED BY <2>1, <5>1, <6>2
        <5>2. CASE z # s
          BY <2>9, <5>2
        <5> QED BY <5>1, <5>2
      <4>2. k \in ReportOccurrences
        <5>1. plan[z].next \in ReportOccurrences
          BY <4>1, ReportingShapes DEF ReportingInv, ReportingTypes
        <5> QED BY <4>1, <5>1, OccurrencesAreNumbers DEF ReportOccurrences
      <4>3. requested'[z][k] = requested[z][k]
        BY <2>6, <3>2, <4>2
      <4>4. \A u \in ReportTriggers : reporter[u].step \in {"request", "stop"} => reporter'[u] = reporter[u]
        BY <1>1, <2>12
      <4>5. unanswered' = unanswered
        BY DEF ClaimPlan
      <4> QED BY <4>1, <4>3, <4>4, <4>5 DEF ReportingInv, NoReportSkipped
    <3> QED BY <3>1, <3>2
  <2> QED BY <2>13, <2>14, <2>15, <2>17, <2>18, <2>19 DEF ReportingInv
<1> QED BY <1>4, <1>5 DEF ClaimPlan

LEMMA RequestReportInv == ASSUME ReportingInv, NEW t \in ReportTriggers, RequestReport(t) PROVE ReportingInv'
<1>1. reporter[t] \in Handling /\ reporter[t] # Idle /\ reporter[t].step = "request"
  BY ReportingShapes DEF ReportingInv, ReportingTypes, RequestReport
<1>2. PICK d \in Listed : d = reporter[t].at
  BY <1>1, ReportingShapes
<1>3. PICK s \in Schedules, n \in 1..MaxHour : s = d.of /\ n = d.run /\ d = [of |-> s, run |-> n]
  BY ReportingShapes
<1>4. n \in ReportOccurrences
  BY OccurrencesAreNumbers
<1>5. requested \in [Schedules -> [ReportOccurrences -> RequestCount]]
  BY DEF ReportingInv, ReportingTypes
<1>6. requested[s][n] = [claims |-> 1, reports |-> 0]
  BY <1>1, <1>2, <1>3 DEF ReportingInv, HeldAlone
<1>7. CASE /\ requested' = [requested EXCEPT ![d.of][d.run].reports = @ + 1]
           /\ reporter' = [reporter EXCEPT ![t] = GoesOn(t, d)]
           /\ UNCHANGED unanswered
  <2> DEFINE q == [requested[s][n] EXCEPT !.reports = @ + 1]
  <2>1. q = [claims |-> 1, reports |-> 1] /\ q \in RequestCount
    BY <1>6 DEF RequestCount
  <2>2. /\ requested' = [requested EXCEPT ![s] = [requested[s] EXCEPT ![n] = q]]
        /\ requested' \in [Schedules -> [ReportOccurrences -> RequestCount]]
    BY <1>3, <1>4, <1>5, <1>7, <2>1
  <2>3. /\ requested'[s][n] = [claims |-> 1, reports |-> 1]
        /\ \A z \in Schedules, k \in ReportOccurrences :
             z # s \/ k # n => requested'[z][k] = requested[z][k]
    BY <1>4, <1>5, <2>1, <2>2
  <2>4. GoesOn(t, d) \in {Idle} \cup Listing
    BY <1>1, GoesOnListing
  <2>5. \A z \in Schedules, k \in ReportOccurrences :
          \/ requested'[z][k] = requested[z][k]
          \/ /\ Has(t, [of |-> z, run |-> k])
             /\ requested'[z][k] = [claims |-> 1, reports |-> 1]
    BY <1>1, <1>2, <1>3, <2>3 DEF Has
  <2>6. requested'[reporter[t].at.of][reporter[t].at.run].reports = 1
    BY <1>2, <1>3, <2>3
  <2>7. /\ plan' \in [Schedules -> {Deleted, Stopped} \cup ActivePlan] /\ UNCHANGED plan
        /\ reportCrashes' \in 0..MaxReportCrashes /\ UNCHANGED <<hour, report>>
    BY DEF RequestReport, ReportingInv, ReportingTypes
  <2> QED BY <1>7, <2>2, <2>4, <2>5, <2>6, <2>7, ReporterMoves
<1>8. CASE /\ unanswered' = unanswered \cup {d}
           /\ reporter' = [reporter EXCEPT ![t].step = "stop"]
           /\ UNCHANGED requested
  <2>1. PICK m : m = [reporter[t] EXCEPT !.step = "stop"]
    OBVIOUS
  <2>2. m \in Handling /\ m.step = "stop" /\ m.at = d
    <3>1. \A x \in Handling : [x EXCEPT !.step = "stop"] \in Handling
      BY DEF Handling
    <3> QED BY <1>1, <1>2, <2>1, <3>1 DEF Handling
  <2>3. reporter \in [ReportTriggers -> {Idle} \cup Listing \cup Handling]
    BY DEF ReportingInv, ReportingTypes
  <2>4. /\ reporter' \in [ReportTriggers -> {Idle} \cup Listing \cup Handling]
        /\ reporter'[t] = m /\ \A u \in ReportTriggers \ {t} : reporter'[u] = reporter[u]
    BY <1>8, <2>1, <2>2, <2>3
  <2>5. UNCHANGED <<hour, plan, requested, reportCrashes, report>>
    BY <1>8 DEF RequestReport
  <2>6. ReportingTypes'
    BY <2>4, <2>5 DEF ReportingInv, ReportingTypes
  <2>7. ClaimedBefore' /\ ClaimsAndReports'
    BY <2>5 DEF ReportingInv, ClaimedBefore, ClaimsAndReports
  <2>8. HeldAlone'
    <3>1. \A u \in ReportTriggers : reporter'[u].step = "request" => reporter'[u] = reporter[u]
      BY <2>2, <2>4
    <3> QED BY <2>5, <3>1 DEF ReportingInv, HeldAlone
  <2>9. StopsAreKnown'
    <3>1. d \in unanswered' /\ unanswered \subseteq unanswered'
      BY <1>8
    <3>2. \A u \in ReportTriggers \ {t} : reporter[u].step = "stop" => reporter[u].at \in unanswered
      BY DEF ReportingInv, StopsAreKnown
    <3> QED BY <2>2, <2>4, <3>1, <3>2 DEF StopsAreKnown
  <2>10. NoReportSkipped'
    <3>1. \A u \in ReportTriggers : reporter[u].step \in {"request", "stop"} =>
            reporter'[u].step \in {"request", "stop"} /\ reporter'[u].at = reporter[u].at
      BY <1>2, <2>2, <2>4
    <3>2. unanswered \subseteq unanswered' /\ plan' = plan /\ requested' = requested
      BY <1>8, <2>5
    <3> QED BY <3>1, <3>2 DEF ReportingInv, NoReportSkipped
  <2> QED BY <2>6, <2>7, <2>8, <2>9, <2>10 DEF ReportingInv
<1> QED BY <1>2, <1>7, <1>8 DEF RequestReport

\* A schedule that is stopped, or gone, has nothing more to be claimed.
LEMMA StopPlanInv == ASSUME ReportingInv, NEW t \in ReportTriggers, StopPlan(t) PROVE ReportingInv'
<1>1. reporter[t] \in Handling /\ reporter[t] # Idle /\ reporter[t].step = "stop"
  BY ReportingShapes DEF ReportingInv, ReportingTypes, StopPlan
<1>2. PICK d \in Listed : d = reporter[t].at
  BY <1>1, ReportingShapes
<1>3. GoesOn(t, d) \in {Idle} \cup Listing
  BY <1>1, GoesOnListing
<1>4. /\ reporter[t].at \in unanswered' /\ unanswered \subseteq unanswered'
      /\ requested' \in [Schedules -> [ReportOccurrences -> RequestCount]]
      /\ reportCrashes' \in 0..MaxReportCrashes /\ UNCHANGED <<hour, requested, report>>
  BY <1>1 DEF StopPlan, ReportingInv, ReportingTypes, StopsAreKnown
<1>5. plan \in [Schedules -> {Deleted, Stopped} \cup ActivePlan]
  BY DEF ReportingInv, ReportingTypes
<1>6. CASE reporter' = [reporter EXCEPT ![t] = Idle] /\ UNCHANGED plan
  BY <1>4, <1>5, <1>6, ReporterMoves
<1>7. CASE /\ plan' = [plan EXCEPT ![d.of] = Stopped]
           /\ reporter' = [reporter EXCEPT ![t] = GoesOn(t, d)]
  <2>1. /\ plan' \in [Schedules -> {Deleted, Stopped} \cup ActivePlan]
        /\ \A z \in Schedules : plan'[z] = plan[z] \/ plan'[z].state # "active"
    BY <1>5, <1>7, ReportingShapes
  <2> QED BY <1>3, <1>4, <1>7, <2>1, ReporterMoves
<1> QED BY <1>2, <1>6, <1>7 DEF StopPlan

LEMMA TriggerDiesInv == ASSUME ReportingInv, NEW t \in ReportTriggers, TriggerDies(t) PROVE ReportingInv'
<1>1. \/ reporter[t].step \notin {"request", "stop"}
      \/ reporter[t].at \in unanswered'
  BY DEF TriggerDies, ReportingInv, StopsAreKnown
<1>2. reportCrashes' \in 0..MaxReportCrashes
  BY ReportingAssumption DEF TriggerDies, ReportingInv, ReportingTypes
<1>3. unanswered \subseteq unanswered'
  BY DEF TriggerDies
<1> QED BY <1>1, <1>2, <1>3, ReporterMoves DEF TriggerDies, ReportingInv, ReportingTypes

LEMMA DeletePlanInv == ASSUME ReportingInv, NEW s \in Schedules, DeletePlan(s) PROVE ReportingInv'
<1>1. /\ plan' \in [Schedules -> {Deleted, Stopped} \cup ActivePlan]
      /\ \A z \in Schedules : plan'[z].state = "active" => plan'[z] = plan[z]
  BY ReportingShapes DEF DeletePlan, ReportingInv, ReportingTypes
<1>2. ReportingTypes'
  BY <1>1 DEF DeletePlan, ReportingInv, ReportingTypes
<1> QED BY <1>1, <1>2 DEF DeletePlan, ReportingInv, ClaimedBefore, ClaimsAndReports,
                          HeldAlone, StopsAreKnown, NoReportSkipped

\* What becomes of a report that a user requested touches no schedule.
LEMMA ReportMoves ==
  ASSUME ReportingInv, NEW r \in Reports, NEW step, NEW row, Writes(r, step, row), row \in ReportRow
  PROVE  ReportingInv'
<1>1. ReportingTypes'
  BY DEF Writes, triggering, ReportingInv, ReportingTypes
<1> QED BY <1>1 DEF Writes, triggering, ReportingInv, ClaimedBefore, ClaimsAndReports,
                    HeldAlone, StopsAreKnown, NoReportSkipped

LEMMA GeneratingInv == ASSUME ReportingInv, GeneratingNext PROVE ReportingInv'
<1>1. PICK r \in Reports : CreateReport(r) \/ ReportSteps(r) \/ RequestDies(r)
  BY DEF GeneratingNext
<1>2. report[r] \in ReportRow
  BY DEF ReportingInv, ReportingTypes
<1>3. 1 \in 0..MaxGenerations /\ MaxGenerations \in Nat
  BY ReportingAssumption
<1>4. CASE CreateReport(r)
  <2>1. [report[r] EXCEPT !.status = "QUEUED", !.at = "start", !.attempt = 1] \in ReportRow
    BY <1>2, <1>3 DEF ReportRow
  <2> QED BY <1>4, <2>1, ReportMoves DEF CreateReport
<1>5. \A place \in {"file", "ready", "fail", "dead", "refused"} :
        [report[r] EXCEPT !.at = place] \in ReportRow
  BY <1>2 DEF ReportRow
<1>6. Raised(r) \subseteq ReportRow
  <2>1. Again(report[r]) \in ReportRow
    <3>1. CASE report[r].attempt < MaxGenerations
      <4>1. report[r].attempt + 1 \in 0..MaxGenerations
        BY <1>2, <1>3, <3>1 DEF ReportRow
      <4> QED BY <1>2, <3>1, <4>1 DEF Again, ReportRow
    <3>2. CASE ~ (report[r].attempt < MaxGenerations)
      BY <1>5, <3>2 DEF Again
    <3> QED BY <3>1, <3>2
  <2> QED BY <1>5, <2>1 DEF Raised
<1>7. CASE StartReport(r)
  <2>1. [report[r] EXCEPT !.status = "RUNNING", !.at = "generate"] \in ReportRow
    BY <1>2 DEF ReportRow
  <2> QED BY <1>5, <1>7, <2>1, ReportMoves DEF StartReport, Refused
<1>8. CASE Generate(r) \/ StoreFile(r)
  BY <1>5, <1>6, <1>8, ReportMoves DEF Generate, StoreFile
<1>9. CASE ReadyReport(r)
  <2>1. [report[r] EXCEPT !.status = "READY", !.at = "end"] \in ReportRow
    BY <1>2 DEF ReportRow
  <2> QED BY <1>6, <1>9, <2>1, ReportMoves DEF ReadyReport
<1>10. CASE FailReport(r)
  <2>1. [report[r] EXCEPT !.status = "FAILED", !.at = "end"] \in ReportRow
    BY <1>2 DEF ReportRow
  <2> QED BY <1>5, <1>10, <2>1, ReportMoves DEF FailReport, Refused
<1>11. CASE RequestDies(r)
  BY <1>5, <1>11, ReportMoves DEF RequestDies
<1> QED BY <1>1, <1>4, <1>7, <1>8, <1>9, <1>10, <1>11 DEF ReportSteps

LEMMA ReportingNextInv == ReportingInv /\ [ReportingNext]_reportingVars => ReportingInv'
<1> SUFFICES ASSUME ReportingInv, [ReportingNext]_reportingVars PROVE ReportingInv'
  OBVIOUS
<1>1. CASE UNCHANGED reportingVars
  BY <1>1 DEF reportingVars, ReportingInv, ReportingTypes, ClaimedBefore, ClaimsAndReports,
              HeldAlone, StopsAreKnown, NoReportSkipped
<1>2. ASSUME NEW t \in ReportTriggers, TriggerSteps(t) \/ TriggerDies(t) PROVE ReportingInv'
  BY <1>2, ListDueInv, RequestReportInv, StopPlanInv, ClaimPlanInv, TriggerDiesInv DEF TriggerSteps
<1> QED BY <1>1, <1>2, ReportingHourInv, DeletePlanInv, GeneratingInv DEF ReportingNext, TriggeringNext

LEMMA ReportingInvSafe == ReportingInv => ReportingTypeOK /\ ReportedOnce /\ NoReportSkipped
<1> SUFFICES ASSUME ReportingInv PROVE ReportingTypeOK /\ ReportedOnce /\ NoReportSkipped
  OBVIOUS
<1>1. ReportingTypeOK
  <2>1. \A t \in ReportTriggers : reporter[t].step \in {"idle", "list", "request", "stop"}
    BY ReportingShapes DEF ReportingInv, ReportingTypes
  <2>2. \A r \in Reports : /\ report[r].status \in {"none", "QUEUED", "RUNNING", "READY", "FAILED"}
                           /\ report[r].attempt \in 0..MaxGenerations
    BY DEF ReportingInv, ReportingTypes, ReportRow
  <2> QED BY <2>1, <2>2 DEF ReportingInv, ReportingTypes, ReportingTypeOK, ActivePlan
<1>2. ReportedOnce
  <2>1. \A s \in Schedules, n \in ReportOccurrences : requested[s][n] \in RequestCount
    BY DEF ReportingInv, ReportingTypes
  <2> QED BY <2>1, ReportingShapes DEF ReportingInv, ClaimsAndReports, ReportedOnce
<1> QED BY <1>1, <1>2 DEF ReportingInv

-----------------------------------------------------------------------------
(* Each by itself, from every initial state *)

\* No occurrence of an execution schedule is passed over and each claim is answered,
\* however triggers race and die; with one set_active call at a time none is claimed twice.
THEOREM SchedulesAreKept ==
  SchedulingSpec => [](/\ SchedulingTypeOK /\ NoOccurrenceSkipped /\ ClaimsAreAnswered
                       /\ OneRequestAtATime => ClaimedOnce)
<1>1. SchedulingSpec => []SchedulingInv
  BY SchedulingInitInv, SchedulingNextInv, PTL DEF SchedulingSpec
<1> QED BY <1>1, SchedulingInvSafe, PTL

\* A report schedule passes no occurrence over, and none gets two reports.
THEOREM ReportsAreKept == ReportingSpec => [](ReportingTypeOK /\ ReportedOnce /\ NoReportSkipped)
<1>1. ReportingSpec => []ReportingInv
  BY ReportingInitInv, ReportingNextInv, PTL DEF ReportingSpec
<1> QED BY <1>1, ReportingInvSafe, PTL

-----------------------------------------------------------------------------
(* The parts together *)

BackgroundInv == SchedulingInv /\ ExecutionInv /\ ReportingInv

backgroundVars == <<part, schedulingVars, executionVars, reportingVars>>

\* A step of one part is a step of it, and leaves the others alone.
LEMMA OneGoesOn ==
  [BackgroundNext]_backgroundVars =>
    [SchedulingNext]_schedulingVars /\ [ExecutionNext]_executionVars /\ [ReportingNext]_reportingVars
BY DEF BackgroundNext, backgroundVars, ReportingNext

LEMMA BackgroundInvariant == BackgroundSpec => []BackgroundInv
<1>1. BackgroundInit => BackgroundInv
  BY SchedulingInitInv, ExecutionInitInv, ReportingInitInv DEF BackgroundInit, BackgroundInv
<1>2. BackgroundInv /\ [BackgroundNext]_backgroundVars => BackgroundInv'
  BY OneGoesOn, SchedulingNextInv, ExecutionIsInductive, ReportingNextInv DEF BackgroundInv
<1> QED BY <1>1, <1>2, PTL DEF BackgroundSpec, backgroundVars

\* Every part keeps the types of its variables.
THEOREM BackgroundTypeCorrect == BackgroundSpec => []BackgroundTypeOK
<1>1. BackgroundInv => BackgroundTypeOK
  BY SchedulingInvSafe, ReportingInvSafe DEF BackgroundInv, BackgroundTypeOK, ExecutionInv
<1> QED BY <1>1, BackgroundInvariant, PTL

\* No schedule, of executions or of reports, passes an occurrence over, and what was
\* claimed is answered, whichever workers race, come late or die.
THEOREM NothingIsSkipped == BackgroundSpec => []NothingSkipped
<1>1. BackgroundInv => NothingSkipped
  BY SchedulingInvSafe, ReportingInvSafe DEF BackgroundInv, NothingSkipped
<1> QED BY <1>1, BackgroundInvariant, PTL

\* An occurrence is claimed once and a report requested once, however many workers find it
\* due, as long as one set_active call is at the schedule at a time.
THEOREM ClaimsAreSingle == OneRequestAtATime => (BackgroundSpec => []OneClaimEach)
<1> SUFFICES ASSUME OneRequestAtATime PROVE BackgroundSpec => []OneClaimEach
  OBVIOUS
<1>1. BackgroundInv => OneClaimEach
  BY SchedulingInvSafe, ReportingInvSafe DEF BackgroundInv, OneClaimEach
<1> QED BY <1>1, BackgroundInvariant, PTL
===============================================================================
