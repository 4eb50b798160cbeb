\* The global cap is saved twice.
SPECIFICATION Spec
CONSTANTS
  g1 = g1
  Null = Null
  None = None
  Guids = {g1}
  Amounts <- OneAmount
  DaysPerMonth = 1
  MaxCapId = 2
  MaxUse = 1
  MaxDay = 0
INVARIANT OneDefinitionPerScope
