\* The helper pushes the time an import covers once more.
SPECIFICATION Spec
CONSTANTS
  HourSlots = 2
  DayHours = 1
  Window = 2
  Span = 2
  Chunk = 1
  Usages <- SomeUsages
  Installed = 4
  MaxTime = 8
  MaxDays = 1
  Budgets <- SomeBudgets
  LongRange = 2
  BaselineHours = 3
  MinReported = 0
INVARIANT SummaryCountsOnce
