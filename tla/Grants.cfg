\* Two tabs, one receipt, faults and a restart of the sidecar, and one decision of the
\* sync engine that races those of the user.
SPECIFICATION Spec
CONSTANTS
  Tabs = {a, b}
  Profiles = {"persistent"}
  Decisions = {"once", "deny"}
  Synced = {"always"}
  MaxReceipts = 1
  MaxRevision = 1
  MaxGeneration = 2
  MaxFaults = 1
  MaxWorkers = 2
SYMMETRY Interchangeable
INVARIANTS UsedOnce WithdrawnStaysWithdrawn GrantsAreKept OneDecision
CHECK_DEADLOCK FALSE
