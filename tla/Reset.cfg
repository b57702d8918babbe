\* Uploads and downloads with lost answers and retries, against a reset delivered twice.
SPECIFICATION Spec
CONSTANTS
  Devices = {d1}
  Keys = {k1, k2}
  LegacyKeys = {}
  Uploaders = {u1}
  Downloaders = {w1}
  Resetters = {r1, r2}
  Deleters = {}
  Crons = {}
  Lease = 1
  Retry = 1
  MaxGeneration = 1
  MaxRevision = 2
  MaxTime = 1
  LastRequest = 1
  FaultsEnd = 1
  NoDevice = NoDevice
  NoKey = NoKey
  NoToken = NoToken
SYMMETRY Interchangeable
INVARIANTS NeverLost
PROPERTIES PutsAreTracked ReplayWipesNothing
CHECK_DEADLOCK FALSE
