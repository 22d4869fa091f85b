\* Two approvals of one round answered side by side.
SPECIFICATION Spec
CONSTANTS
  s1 = s1
  s2 = s2
  Turn = Turn
  NoThread = NoThread
  Surface = {s1, s2}
  MaxCalls = 2
  MaxParallel = 2
  MaxToolRounds = 0
  Settings <- MCAnswers
INVARIANTS
  FallbackIsTrue
CHECK_DEADLOCK FALSE
