\* Two schedulers and one automation; two messages and two passes; two servers
\* and two reloads.
SPECIFICATION FairSpec
CONSTANTS
  Scheduler = {w1, w2}
  AutoRun = {r1, r2}
  Automation <- MCAutomation
  MaxRetries = 1
  Ttl = 2
  MaySuspend = TRUE
  MaxAutoTime = 0
  MaxReloads = 0
  MaxSchedulerCrashes = 0
  d1 = d1
  d2 = d2
  c1 = c1
  c2 = c2
  Channel = {c1, c2}
  Delivery = {d1, d2}
  ChannelOf <- MCChannelOf
  Pass = {p1, p2}
  MaxAttempts = 2
  Window = 2
  MaxDeaths = 1
  Server = {s1, s2}
  Client = {k1, k2, k3, k4}
  Loader = {l1, l2}
  Configs <- MCConfigs
  NoClient = NoClient
INVARIANTS
  TypeOK
  AttemptsAreCounted
  SentOnce
  NoClientIsLost
PROPERTIES
  RunsEnd
  DeliverySettles
  RequestsSettle
CHECK_DEADLOCK FALSE
