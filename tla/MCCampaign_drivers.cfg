SPECIFICATION Spec
CONSTANTS
  NumTasks = 2
  NumRounds = 2
  WithHidden <- MCWithHidden
  MaxEdits = 2
INVARIANTS
  SuccessIsEarned
  CanonicalIsFirst
  DriftIsSeen
CHECK_DEADLOCK FALSE
