SPECIFICATION Spec
CONSTANTS
  a = a
  b = b
  dd = dd
  pp = pp
  pt = pt
  LF = LF
  CRLF = CRLF
  Words = {a, b, dd, pp, pt}
  Dashes = {dd}
  Pluses = {pp, pt}
  Titles = {pt}
  Files <- MCFiles
  OldTexts <- MCOldTexts
  NewTexts <- MCNewTexts
  Hunks <- MCHunks
  MaxHunks = 2
  MaxEdits = 2
  ContextLines = 1
INVARIANTS
  AppliedExactly
  UniqueBlocksFound
  EditsRoundTrip
