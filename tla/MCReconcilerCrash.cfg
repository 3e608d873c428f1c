CONSTANTS
  Processes = {p1}
  m1 = m1
  m2 = m2
  m3 = m3
  d1 = d1
  d2 = d2
  Manifests <- TwoManifests
  Gen <- GenOfTwo
  Dir <- DirOfTwo
  Bundles = {b1}
  First = b1
  Nothing = nothing
  Keep = 0
  OperatorsWait = TRUE
  MaxCrashes = 1
  MaxBadRestarts = 0
SPECIFICATION Spec
PROPERTIES
  ReportedIsSmoked
