SPECIFICATION Spec
CONSTANTS
  Threads = {t1, t2}
  NoThread = NoThread
  Addresses = {a1, a2}
  NoAddress = NoAddress
  MaxRequest = 16777216
  MaxResponse = 16777216
  MaxProvider = 10485760
  Overhead = 67
  Envelope = 32
  BodyLengths <- MCBodyLengths
  Docs <- MCDocs
  Cooldown = 1
  MaxClock = 2
  MaxGenerations = 2
INVARIANTS
  BuffersExact
  NoResponseLost
  ConfigAgreement
  HandlerIsolated
PROPERTY ProbesSpaced
SYMMETRY Symmetry
