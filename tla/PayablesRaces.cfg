\* Payments, expenses and applications of advances, two requests at a time.
SPECIFICATION FairSpec
CONSTANTS
  s1 = s1
  s2 = s2
  b1 = b1
  b2 = b2
  Sessions = {s1, s2}
  Bills = {b1, b2}
  Ops = {"pay", "expense", "apply"}
  LargeBill = b1
  GrandTotal <- BillTotals
  MaxTotal = 2
  Extras = {2}
  MaxExtra = 2
  MaxAdvances = 2
  ManualLines = FALSE
INVARIANT StoredMatchesSources
INVARIANT NeverOverSettled
INVARIANT ControlAccountsAgree
PROPERTY EveryRequestEnds
PROPERTY OneAccount
\* The bills are bounded, so the system may stop.
CHECK_DEADLOCK FALSE
