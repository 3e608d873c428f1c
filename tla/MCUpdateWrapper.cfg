\* Two runs, two candidates with any of the defects, and two events: an
\* approval, a reinstallation, a killed run; or one interrupted run.
CONSTANTS
  Runs = {timed, byHand}
  TimerRun = timed
  Old = old
  Candidates = {r1, r2}
  Overrides = {r1}
  Defects <- MCDefects
  Disturbances <- MCDisturbances
  None = none
  Garbled = garbled
  MaxEvents = 2
SPECIFICATION Spec
INVARIANTS
  Settled
  BlameJustified
  LockExact
  SkewInstallsNothing
PROPERTIES
  SecurityKept
CONSTRAINT
  Interrupted
