SPECIFICATION Spec
CONSTANTS
  a = a
  b = b
  t = t
  c1 = c1
  c2 = c2
  both = both
  added = added
  bound1 = bound1
  twice = twice
  garbled = garbled
  Paths = {a, b, t}
  Contents = {c1, c2}
  Absent = Absent
  Torn = Torn
  Unsaved = Unsaved
  Patches = {both, added, bound1, twice, garbled}
  NoPatch = NoPatch
  Sections <- MCSections
  Edited <- MCEdited
  MaxAttempts = 2
  PreflightEnabled = TRUE
  EditPoints <- BeforeRecheck
  RollbackMayFail = FALSE
  TornCreates = FALSE
INVARIANTS
  TypeOK
PROPERTIES
  ImplementsApprovedRepair
