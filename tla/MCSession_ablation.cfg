SPECIFICATION Spec
CONSTANTS
  p1 = p1
  p2 = p2
  t1 = t1
  t2 = t2
  t3 = t3
  Files = {f1}
  Patches = {p1, p2}
  NoPatch = NoPatch
  Trees = {t1, t2, t3}
  Patched <- MCPatched
  MaxAttempts = 2
  MaxSteps = 3
  MaxReads = 1
  MaxEvidence = 1
  MaxCorrections = 1
  MaxFormatRetries = 1
  MaxRegenerations = 1
  Handlers = {TRUE, FALSE}
  PreflightEnabled = FALSE
  EditPoints <- EditsAnytime
  RollbackMayFail = TRUE
INVARIANTS
  AttemptLedger
