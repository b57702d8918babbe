\* A window of four tabs, two spaces and two profiles.
SPECIFICATION Spec
CONSTANTS
  Tabs = {t1, t2, t3, t4}
  Spaces = {s1, s2}
  Profiles = {p1, p2}
  Splits = {x1, x2}
  Groups = {g1}
  Private = {p2}
  MaxPanes = 3
  None = None
SYMMETRY Interchangeable
INVARIANTS ActiveIsOpen SplitsMatchTabs GroupsKeepToTheirSpace
PROPERTIES SavedSplitsStayTogether
