SPECIFICATION Spec
CONSTANTS
  p1 = p1
  p2 = p2
  t1 = t1
  t2 = t2
  t3 = t3
  Files = {f1}
  Patches = {p1, p2}
  NoPatch = NoPatch
  Trees = {t1, t2, t3}
  Patched <- MCPatched
  MaxAttempts = 2
  MaxSteps = 4
  MaxReads = 2
  MaxEvidence = 1
  MaxCorrections = 1
  MaxFormatRetries = 1
  MaxRegenerations = 2
  Handlers = {TRUE, FALSE}
  PreflightEnabled = TRUE
  EditPoints <- EditsUntilRecheck
  RollbackMayFail = FALSE
INVARIANTS
  TypeOK
  GateHeld
  RegenerationWindow
  VerdictEarned
  SummaryAgrees
PROPERTIES
  ImplementsApprovedRepair
  AppliedIsReviewed
  FailClosed
  NothingRefusedAfterApproval
  ExplorationStaysClosed
  TerminalIsFinal
  SessionEnds
