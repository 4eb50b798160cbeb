\* An interface and a global cap edited and deleted while both threads
\* evaluate, or one cap whose amount changes in a month of two days.
SPECIFICATION MCSpec
CONSTANTS
  g1 = g1
  Null = Null
  None = None
  Guids = {g1}
  Amounts <- TwoAmounts
  DaysPerMonth = 2
  MaxCapId = 2
  MaxUse = 2
  MaxDay = 1
INVARIANTS NoOrphanAlerts OneShotAlerts AlertsJustified
PROPERTIES PollMissesNothing DeliveredStays
