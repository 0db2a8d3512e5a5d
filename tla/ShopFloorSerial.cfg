\* Every handler but the machine panel, one request at a time.
SPECIFICATION Spec
CONSTANTS
  m1 = m1
  s1 = s1
  Machines = {m1}
  Sessions = {s1}
  Types = {"growth", "edge_cut"}
  Ops = {"issue", "return", "start", "hold", "resume", "complete", "complete_growth", "output_by_process"}
  Purchased = 1
  MaxQty = 2
  MaxLots = 4
  MaxIssues = 3
  MaxProcs = 2
  Dispositions = {"usable", "damaged"}
  PanelStatuses = {"maintenance"}
  PickerOnly = TRUE
INVARIANT AllReturnedCompletes
INVARIANT BiscuitNotStranded
PROPERTY TerminalStays
\* The tables are bounded, so the system may stop.
CHECK_DEADLOCK FALSE
