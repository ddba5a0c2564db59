SPECIFICATION Spec
CONSTANTS
  NumTasks = 1
  Spendings <- MCSpendings
  Limits <- MCLimits
  Absent = Absent
  MaxStarts = 2
  Trees = {base, edited}
  Clean = {base}
INVARIANTS
  ScheduleKept
  BudgetKept
  FrozenRows
  VerifiedIsWhole
