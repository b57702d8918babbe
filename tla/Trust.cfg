\* An account from its first device on: two devices, two sessions, three requests,
\* two invocations at a time.
SPECIFICATION Spec
CONSTANTS
  Devices = {d1, d2}
  Sessions = {s1, s2}
  Slots = {i1, i2}
  MaxRequests = 3
  MaxGeneration = 2
  MaxChallenges = 1
  NoDevice = NoDevice
  NoKey = NoKey
SYMMETRY Interchangeable
INVARIANTS KeyIsForTheApproved SomeoneIsApproved EffectOnce
PROPERTIES BoundForGood
CHECK_DEADLOCK FALSE
