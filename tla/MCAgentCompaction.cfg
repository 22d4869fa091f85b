\* Two sessions, two senders, reloads and /clear, or one sender whose turns call
\* tools; the model may never answer, the timer rings.
SPECIFICATION MCSpec
CONSTANTS
  s1 = s1
  t1 = t1
  NoSession = NoSession
  Session = {s1, s2}
  Sender = {t1, t2}
  Threshold = 3
  Reloads = TRUE
  ModelMayFail = TRUE
  MaxToolRounds = 1
  MaxTurns = 3
  MaxAsks = 2
  MaxJobs = 2
  MaxClears = 1
INVARIANTS
  TypeOK
  OneSummary
  ClearForgets
PROPERTIES
  CompactionEnds
  TurnsGoOn
  RecentStay
CHECK_DEADLOCK FALSE
