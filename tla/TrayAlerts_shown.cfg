\* Three alerts, of which only the two newest are listed, two mark requests
\* under way at once, a viewer that is killed once.
SPECIFICATION FairSpec
CONSTANTS
  MaxAlert = 3
  ListLimit = 2
  MaxRequests = 2
  MaxRestarts = 1
INVARIANTS DeliveredWereShown IInv
PROPERTY EveryAlertShown
