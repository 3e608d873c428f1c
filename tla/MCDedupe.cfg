\* Two slots, three bytes: the table overflows, evicts, expires and refuses
\* oversized results.
CONSTANTS
  Threads = {t1, t2, t3}
  Keys = {k1, k2, k3}
  Lengths = {1, 2, 3}
  MaxEntries = 2
  MaxBytes = 2
  MaxItem = 2
  TTL = 1
  MaxSequence = 3
  MaxClock = 2
SPECIFICATION Spec
SYMMETRY Symmetry
INVARIANTS
  WaitersHaveLeader
  BytesExact
  FreshReuse
PROPERTIES
  ImplementsMemo
