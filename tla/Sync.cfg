\* Two profiles of one account, one of them signed in at a time, with another device at
\* work, sessions that end, and a credential store and snapshots that may be refused.
SPECIFICATION Spec
CONSTANTS
  Profiles = {p1, p2}
  Tokens = {k1}
  Records = {r1, r2}
  Silent = {r2}
  Others = {r1}
  Threads = {w1, w2}
  Troubles = {"store", "snapshot"}
  RetryLimit = 1
  MaxInbox = 1
  MaxRevision = 2
  None = None
CONSTRAINT QuietComesLater
SYMMETRY Interchangeable
INVARIANTS SignOutIsAlone OneUpload
PROPERTIES HeadKeeps SignedOutStaysOut TokensAreHeld NoLostWakeup
CHECK_DEADLOCK FALSE
