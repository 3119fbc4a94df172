SPECIFICATION BackgroundSpec
CONSTANTS
  t1 = t1
  t2 = t2
  a1 = a1
  w1 = w1
  w2 = w2
  s1 = s1
  s2 = s2
  r1 = r1
  NoWorker = NoWorker
  Triggers <- MCTriggers
  Operators <- OneRequest
  Kinds <- MCKinds
  Period = 2
  OnceAt = 3
  DayLength = 2
  Offset <- MCOffset
  LocalTime = 1
  Weekly <- MCWeekly
  Monthly <- MCMonthly
  MaxTime = 6
  Horizon = 14
  MaxToggles = 3
  MaxTriggerCrashes = 1
  Workers <- MCWorkers
  MaxAttempts = 2
  MaxBlocks = 1
  MaxCrashes = 1
  MaxStalls = 0
  Schedules <- MCSchedules
  Single <- RunsOnce
  ReportTriggers <- MCTriggers
  MaxHour = 2
  MaxReportCrashes = 1
  Reports <- MCReports
  MaxGenerations = 2
INVARIANTS
  BackgroundTypeOK
  NothingSkipped
  OneClaimEach
PROPERTIES
  WhatIsDueIsDone
  RunningIsSettled
  ReportsSettle
CHECK_DEADLOCK FALSE
