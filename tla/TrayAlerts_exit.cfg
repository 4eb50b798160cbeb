\* The Exit of the menu.
SPECIFICATION ExitFairSpec
CONSTANTS
  MaxAlert = 1
  ListLimit = 1
  MaxRequests = 1
  MaxRestarts = 0
PROPERTY ExitCompletes
CHECK_DEADLOCK FALSE
