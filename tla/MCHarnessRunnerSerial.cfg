\* One call per answer of the model, no crash, no resume by hand.
SPECIFICATION FairSpec
CONSTANTS
  s1 = s1
  s2 = s2
  Turn = Turn
  NoThread = NoThread
  Surface = {s1, s2}
  MaxCalls = 4
  MaxParallel = 1
  MaxToolRounds = 3
  Settings <- MCCancelled
INVARIANTS
  NoDanglingToolCalls
  OneLoop
  FallbackIsTrue
  RoundLimit
PROPERTIES
  RunGetsResumed
CHECK_DEADLOCK FALSE
