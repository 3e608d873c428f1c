\* Three goroutines and three reconfigurations.
CONSTANTS
  Threads = {t1, t2, t3}
  MaxGeneration = 3
SPECIFICATION FairSpec
INVARIANTS
  TypeOK
  NoClientLeaked
  RequestsCounted
  MetricsBounded
PROPERTIES
  LeaseRefined
  RetiredClientCloses
