\* One upload and a deletion of the account against the cron, with old objects in the
\* bucket; three passes of the collector may overlap, and every step of the cron is taken.
SPECIFICATION FairSpec
CONSTANTS
  Devices = {d1}
  Keys = {k0, k1}
  LegacyKeys = {k0}
  Uploaders = {u1}
  Downloaders = {}
  Resetters = {}
  Deleters = {x1}
  Crons = {c1}
  Lease = 1
  Retry = 1
  MaxGeneration = 1
  MaxRevision = 2
  MaxTime = 2
  LastRequest = 1
  FaultsEnd = 1
  NoDevice = NoDevice
  NoKey = NoKey
  NoToken = NoToken
INVARIANTS SnapshotsStored
PROPERTIES GarbageIsCollected
CHECK_DEADLOCK FALSE
