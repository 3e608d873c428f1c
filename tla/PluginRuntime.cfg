CONSTANTS
  Threads = {t1, t2, t3}
  NoThread = none
  Configs = {c1}
  Off = off
  Bad = bad
  Closed = closed
SPECIFICATION FairSpec
INVARIANTS
  QuietAfterShutdown
PROPERTIES
  CallsReturn
