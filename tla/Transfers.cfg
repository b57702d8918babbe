\* Two downloads, a plain and a dangerous path, a standard and a private profile.
SPECIFICATION Spec
CONSTANTS
  Ids = {d1, d2}
  Paths = {plain, exe}
  Dangerous = {exe}
  Profiles = {p, q}
  Private = {q}
  None = None
SYMMETRY Interchangeable
INVARIANTS PrivateLeavesNothing CompletedIsPublished
PROPERTIES DangerousIsConfirmed
