\* Another session is loaded while a summary is under way.
SPECIFICATION Spec
CONSTANTS
  NoSession = NoSession
  Session = {s1, s2}
  Sender = {t1}
  Threshold = 3
  Reloads = TRUE
  ModelMayFail = FALSE
  MaxToolRounds = 0
  MaxTurns = 4
  MaxAsks = 0
  MaxJobs = 2
  MaxClears = 0
INVARIANTS
  SummaryOfItsSession
CHECK_DEADLOCK FALSE
