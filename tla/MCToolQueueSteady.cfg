\* One process that does not die and can write its evidence; one tool of
\* each evidence policy.
SPECIFICATION FairSpec
CONSTANTS
  c1 = c1
  c2 = c2
  t1 = t1
  t2 = t2
  network = network
  p1 = p1
  p2 = p2
  w1 = w1
  w2 = w2
  w3 = w3
  d1 = d1
  d2 = d2
  NoCall = NoCall
  Call = {c1, c2}
  Tool = {t1, t2}
  Capability = {network}
  ToolOf <- MCTwoTools
  CapabilityOf <- MCNetwork
  NoEvidenceTools = {t2}
  Process = {p1}
  Worker = {w1, w2}
  Home <- MCOneHome
  Directory = {d1}
  Cwd <- MCOneCwd
  InitialRules <- MCAskNetwork
  Choices = {"allow once", "workspace", "always", "deny", "never", "expire"}
  EvidenceMayFail = FALSE
  Recovers = FALSE
  MaxCrashes = 0
INVARIANTS
  PendingApprovalAnswerable
  OutcomeDocumented
  LastingAnswerBinds
PROPERTIES
  CallsGetAnOutcome
CHECK_DEADLOCK FALSE
