\* Both threads merging, with the retention pass, changes of the threshold and
\* failures in between; polls that read the idle time within a second.
SPECIFICATION Spec
CONSTANTS
  None = None
  Time <- Seconds7
  Thresholds <- TwoThresholds
  IpcRanges <- SomeRanges
  MaxStall = 1
  MaxNow = 7
INVARIANTS WindowsApart NoInputWhileAfk IInv
PROPERTY ImplementsSeconds
