\* One sender and no reload; a run may call a tool once.
SPECIFICATION Spec
CONSTANTS
  NoSession = NoSession
  Session = {s1}
  Sender = {t1}
  Threshold = 6
  Reloads = FALSE
  ModelMayFail = FALSE
  MaxToolRounds = 1
  MaxTurns = 2
  MaxAsks = 2
  MaxJobs = 1
  MaxClears = 0
PROPERTIES
  NoDanglingQuestion
CHECK_DEADLOCK FALSE
