CONSTANTS
  Processes = {p1, p2}
  m1 = m1
  m2 = m2
  m3 = m3
  d1 = d1
  d2 = d2
  Manifests <- ThreeManifests
  Gen <- GenOf
  Dir <- DirOf
  Bundles = {b1}
  First = b1
  Nothing = nothing
  Keep = 0
  OperatorsWait = TRUE
  MaxCrashes = 1
  MaxBadRestarts = 1
SPECIFICATION FairSpec
INVARIANTS
  ActiveComplete
  FallbackIntact
  SmokedBetweenRuns
PROPERTIES
  GenerationsForward
  CleanupKeepsLinks
  RunsEnd
