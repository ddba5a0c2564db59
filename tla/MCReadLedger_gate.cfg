SPECIFICATION LedgerSpec
CONSTANTS
  f1 = f1
  p1 = p1
  p2 = p2
  t1 = t1
  t2 = t2
  Files = {f1}
  Patches = {p1, p2}
  NoPatch = NoPatch
  Trees = {t1, t2}
  Patched <- MCPatched
  MaxAttempts = 1
  MaxSteps = 3
  MaxReads = 1
  MaxEvidence = 1
  MaxCorrections = 1
  MaxFormatRetries = 0
  MaxRegenerations = 1
  Handlers = {TRUE}
  PreflightEnabled = TRUE
  EditPoints <- EditsWhileReading
  RollbackMayFail = FALSE
  Length <- MCLength
  Starts = {0, 1, 3}
  Ends = {2, 3, 5, Open}
  Open = Open
  Mismatches = {1, 5, 8}
  NoRange = NoRange
  Cap = 3
  Radius = 1
INVARIANTS
  LedgerTypeOK
  RefreshEarned
  RefreshPossible
  AccountsBalance
  CoverageEarned
