\* Hours of two slots, days of one hour, retention of at most a day, windows and
\* imports of two slots, and the budgets of MCUsageStore.
SPECIFICATION Spec
CONSTANTS
  HourSlots = 2
  DayHours = 1
  Window = 2
  Span = 2
  Chunk = 1
  Usages <- SomeUsages
  Installed = 4
  MaxTime = 8
  MaxDays = 1
  Budgets <- SomeBudgets
  LongRange = 2
  BaselineHours = 3
  MinReported = 0
INVARIANTS PollHoursSummed ImportHasNoGap CapsCountOnce BreakdownsAddUp
  ArchiveShowsNoMore HeatmapCountsOnce AnomaliesStandOut
  TrendIsLeastSquares SteadyUseGoesOn
PROPERTIES SumsAreFinal DeletionsWereAskedFor AuditKeepsItsSources
