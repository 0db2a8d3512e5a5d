\* Receipts and entries that settle two invoices and credit the receivables, two requests at a time.
SPECIFICATION Spec
CONSTANTS
  s1 = s1
  s2 = s2
  i1 = i1
  i2 = i2
  e1 = e1
  e2 = e2
  NoEntry = NoEntry
  Sessions = {s1, s2}
  Invoices = {i1, i2}
  Entries = {e1, e2}
  MaxInvoiced = 2
  Extras = {1}
  MaxCredited = 1
SYMMETRY Symmetry
INVARIANT DueIsDerived
INVARIANT OverSettledByStaleLook
INVARIANT CustomerAgrees
\* The invoices are bounded, so the system may stop.
CHECK_DEADLOCK FALSE
