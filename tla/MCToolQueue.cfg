\* Two processes on one database: crashes, failing evidence and recovery
\* of running calls included.
SPECIFICATION Spec
CONSTANTS
  c1 = c1
  c2 = c2
  t1 = t1
  t2 = t2
  network = network
  p1 = p1
  p2 = p2
  w1 = w1
  w2 = w2
  w3 = w3
  d1 = d1
  d2 = d2
  NoCall = NoCall
  Call = {c1, c2}
  Tool = {t1}
  Capability = {network}
  ToolOf <- MCOneTool
  CapabilityOf <- MCNetwork
  NoEvidenceTools = {}
  Process = {p1, p2}
  Worker = {w1, w2, w3}
  Home <- MCTwoHomes
  Directory = {d1}
  Cwd <- MCOneCwd
  InitialRules <- MCAskNetwork
  Choices = {"allow once", "workspace", "always", "deny", "never", "expire"}
  EvidenceMayFail = TRUE
  Recovers = TRUE
  MaxCrashes = 1
INVARIANTS
  ExecutedAtMostOnce
  ExecutionAuthorized
  OneExecutor
  DenialIsAtomic
  IInv
PROPERTIES
  OutcomeIsFinal
  KeepsContract
CHECK_DEADLOCK FALSE
