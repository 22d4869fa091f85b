\* Two processes append to the audit log with a clock that never goes back.
SPECIFICATION Spec
CONSTANTS
  Writer = {w1, w2}
  EventId = {1, 2, 3}
  ClockGoesBack = FALSE
  MaxClock = 2
  MaxStamp = 3
  MaxLives = 1
  Scheduler = {w1, w2}
  AutoRun = {r1, r2}
  Automation <- MCAutomation
  MaxRetries = 1
  Ttl = 2
  MaySuspend = TRUE
  MaxAutoTime = 0
  MaxReloads = 0
  MaxSchedulerCrashes = 0
  Task = {t1}
  Scope = {file}
  NoTask = NoTask
  MaxConcurrent = 1
  MaxDepth = 1
  RoleLimit = 1
  LeasesExpire = FALSE
  MaxTaskCrashes = 0
  MaxItems = 0
INVARIANTS
  UntamperedVerifies
CHECK_DEADLOCK FALSE
