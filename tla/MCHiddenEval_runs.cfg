SPECIFICATION Spec
CONSTANTS
  buggy = buggy
  fixed = fixed
  hbuggy = hbuggy
  hfixed = hfixed
  Trees = {buggy, fixed, hbuggy, hfixed}
  Public = {buggy, fixed}
  Absent = Absent
  Scribbled = Scribbled
  Suite <- MCSuite
  WithHidden <- MCWithHidden
  Roots = {"working_copy", "eval_copy"}
  MaxRuns = 2
INVARIANTS
  TypeOK
  PassIsEarned
  TimeoutNotErased
  LeftoversReported
  HiddenStaysHidden
  HiddenVerdictEarned
PROPERTIES
  RunEnds
