CONSTANTS
  Threads = {t1, t2}
  NoThread = none
  MaxConsecutive = 2
  MaxInWindow = 3
  FailureWindow = 0
  OpenDuration = 1
  ProbeCache = 1
  MaxClock = 1
SPECIFICATION FairSpec
INVARIANTS
  ProbeOwned
  SlotExact
  ClosedBelowThresholds
PROPERTY EveryCallReturns
