\* Two tabs, their turns, and every way for the worker to end.
SPECIFICATION FairSpec
CONSTANTS
  Tabs = {a, b}
  Views = {v}
  Kinds = {"plain", "input"}
  Commands = {"reload", "close", "drop"}
  MaxRequests = 2
  MaxBacklog = 1
  NoView = NoView
  Unknown = Unknown
  NoTab = NoTab
  Shots = {shot}
INVARIANTS EndIsReported
PROPERTIES RequestsAreServed TakesTurns
CHECK_DEADLOCK FALSE
