\* One interface, both directions: counter resets, a wall clock that jumps
\* or goes back, a poll interval that changes, every failure and restart;
\* or a machine left alone, for longer.
SPECIFICATION MCSpec
CONSTANTS
  i1 = i1
  None = None
  Interfaces = {i1}
  MaxDeltaBytes = 2
  PollIntervals <- TwoIntervals
  DefaultInterval = 2
  MaxTraffic = 3
  MaxClock = 5
  WildClock = 2
INVARIANTS NeverOvercounts EveryByteAccountedFor IInv
PROPERTY StoredRowsFitTheirWindow
