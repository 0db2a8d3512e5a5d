\* Entries created, posted, edited, corrected, reversed and deleted, two requests at a time.
SPECIFICATION Spec
CONSTANTS
  cash = cash
  income = income
  s1 = s1
  s2 = s2
  Accounts = {cash, income}
  DebitNatured = {cash}
  Sessions = {s1, s2}
  Bills = {}
  Ops = {"create", "post", "edit", "correct", "reverse", "delete"}
  BillTotal = 2
  MaxAmount = 1
  MaxEntries = 4
  DraftsOwned = TRUE
SYMMETRY RequestSymmetry
INVARIANT TrialBalance
INVARIANT ReversedOnce
INVARIANT ReversalMirrors
PROPERTY PostedStays
\* The tables are bounded, so the system may stop.
CHECK_DEADLOCK FALSE
