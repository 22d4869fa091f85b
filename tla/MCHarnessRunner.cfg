\* Two surfaces answer, resume and heal one run with one crash; or they answer
\* twice, send commands and cancel, without a crash.
SPECIFICATION Spec
CONSTANTS
  s1 = s1
  s2 = s2
  Turn = Turn
  NoThread = NoThread
  Surface = {s1, s2}
  MaxCalls = 2
  MaxParallel = 2
  MaxToolRounds = 0
  Settings <- MCTwoSettings
SYMMETRY SurfaceSymmetry
INVARIANTS
  TypeOK
  OneAnswerPerCall
  UndecidedCallsWait
CHECK_DEADLOCK FALSE
