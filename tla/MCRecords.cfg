\* Two processes append to the audit log; two schedulers and
\* one automation; three tasks share a role and a file; Codex prints two items.
SPECIFICATION Spec
CONSTANTS
  Writer = {w1, w2}
  EventId = {1, 2, 3}
  ClockGoesBack = TRUE
  MaxClock = 2
  MaxStamp = 3
  MaxLives = 2
  Scheduler = {w1, w2}
  AutoRun = {r1, r2}
  Automation <- MCAutomation
  MaxRetries = 1
  Ttl = 2
  MaySuspend = TRUE
  MaxAutoTime = 2
  MaxReloads = 1
  MaxSchedulerCrashes = 1
  Task = {t1, t2, t3}
  Scope = {file}
  NoTask = NoTask
  MaxConcurrent = 2
  MaxDepth = 2
  RoleLimit = 2
  LeasesExpire = TRUE
  MaxTaskCrashes = 1
  MaxItems = 2
INVARIANTS
  TypeOK
  OneAuthorVerifies
  EndsAgree
  LimitsHold
  WritersHoldTheLease
  OverlapIsALeftover
  CodexEndsAgree
PROPERTIES
  OnlyTheDeadLoseTheirLease
CHECK_DEADLOCK FALSE
