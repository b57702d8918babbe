\* Two uploads at a time, of three payloads, across a key rotation.
SPECIFICATION Spec
CONSTANTS
  Devices = {d1, d2}
  Keys = {k1, k2, k3}
  LegacyKeys = {}
  Uploaders = {u1, u2}
  Downloaders = {}
  Resetters = {}
  Deleters = {}
  Crons = {}
  Lease = 1
  Retry = 1
  MaxGeneration = 2
  MaxRevision = 3
  MaxTime = 0
  LastRequest = 1
  FaultsEnd = 0
  NoDevice = NoDevice
  NoKey = NoKey
  NoToken = NoToken
SYMMETRY Interchangeable
INVARIANTS StagedRetained CleanupAfterReencryption
PROPERTIES CommitsAreCurrent HeadIsRegister
CHECK_DEADLOCK FALSE
