\* Two machines of one account that change two things between them, restarts included.
SPECIFICATION Spec
CONSTANTS
  Machines = {m1, m2}
  Tabs = {t1, t2, t3, t4, t5, t6, t7}
  Spaces = {s1, s2, s3, s4, s5, s6}
  Names = {Work, Other}
  Work = Work
  Pages = {home, page}
  Home = home
  MaxEdits = 2
  Enough = 2
  None = None
INVARIANTS Agreement
PROPERTIES RestartKeepsPages
CHECK_DEADLOCK FALSE
