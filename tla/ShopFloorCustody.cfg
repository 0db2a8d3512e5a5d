\* Material and biscuits moved by issues, returns and rough output in every interleaving.
SPECIFICATION Spec
CONSTANTS
  m1 = m1
  s1 = s1
  s2 = s2
  Machines = {m1}
  Sessions = {s1, s2}
  Types = {"growth"}
  Ops = {"issue", "hand_issue", "return", "output"}
  Purchased = 2
  MaxQty = 2
  MaxLots = 4
  MaxIssues = 4
  MaxProcs = 2
  Dispositions = {"usable", "damaged"}
  PanelStatuses = {"maintenance"}
  PickerOnly = TRUE
SYMMETRY RequestSymmetry
INVARIANT OutputOnce
PROPERTY MaterialFlow
\* The tables are bounded, so the system may stop.
CHECK_DEADLOCK FALSE
