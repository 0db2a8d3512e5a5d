\* The handlers that move a process and its lots, two requests at a time.
SPECIFICATION Spec
CONSTANTS
  m1 = m1
  s1 = s1
  s2 = s2
  Machines = {m1}
  Sessions = {s1, s2}
  Types = {"growth", "edge_cut"}
  Ops = {"issue", "return", "hold", "resume", "complete", "set_status"}
  Purchased = 1
  MaxQty = 2
  MaxLots = 4
  MaxIssues = 3
  MaxProcs = 2
  Dispositions = {"usable", "damaged"}
  PanelStatuses = {"maintenance"}
  PickerOnly = TRUE
SYMMETRY RequestSymmetry
INVARIANT IssueBalance
INVARIANT LotHeldOnce
INVARIANT CompletedMeansReturned
\* The tables are bounded, so the system may stop.
CHECK_DEADLOCK FALSE
