\* One tab, every kind of request, and a page that loads in its own time: merging,
\* replacing, closing, reopening and navigating.
SPECIFICATION PagesSpec
CONSTANTS
  Tabs = {a}
  v = v
  w = w
  Views = {v, w}
  short = short
  long = long
  other = other
  Urls = {short, long, other}
  Normal <- MCNormal
  UrlOf <- MCUrlOf
  Blank = Blank
  Shots <- MCShots
  Kinds = {"plain", "scroll", "input"}
  Commands = {"close"}
  MaxRequests = 3
  MaxBacklog = 1
  NoView = NoView
  Unknown = Unknown
  NoTab = NoTab
CONSTRAINT Prompt
INVARIANTS Converges FramesAreCurrent
PROPERTIES InputInOrder
CHECK_DEADLOCK FALSE
