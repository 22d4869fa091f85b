\* Nothing fails, and nothing is evicted.
SPECIFICATION Spec
CONSTANTS
  NoSession = NoSession
  Session = {s1}
  Sender = {t1}
  Threshold = 6
  Reloads = FALSE
  ModelMayFail = FALSE
  MaxToolRounds = 0
  MaxTurns = 6
  MaxAsks = 0
  MaxJobs = 4
  MaxClears = 0
INVARIANTS
  SummaryCoversConversation
CHECK_DEADLOCK FALSE
