\* One tab of either kind of profile, with shell, thread and sidecar taking their steps.
SPECIFICATION FairSpec
CONSTANTS
  Tabs = {a}
  Profiles = {"persistent", "private"}
  Decisions = {"once", "deny"}
  Synced = {}
  MaxReceipts = 1
  MaxRevision = 2
  MaxGeneration = 2
  MaxFaults = 1
  MaxWorkers = 2
PROPERTIES UsesAreReported DenialArrives
CHECK_DEADLOCK FALSE
