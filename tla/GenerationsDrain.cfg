\* Two reconfigurations overtake a request of generation 0.
CONSTANTS
  Threads = {t1, t2}
  MaxGeneration = 2
SPECIFICATION Spec
INVARIANTS
  DrainObservable
