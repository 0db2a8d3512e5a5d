\* Bills settled by entries that are posted, corrected, reversed and deleted, one request at a time.
SPECIFICATION Spec
CONSTANTS
  cash = cash
  income = income
  s1 = s1
  b1 = b1
  Accounts = {cash, income}
  DebitNatured = {cash}
  Sessions = {s1}
  Bills = {b1}
  Ops = {"create", "post", "edit", "correct", "reverse", "delete", "allocate", "unallocate"}
  BillTotal = 2
  MaxAmount = 1
  MaxEntries = 3
  DraftsOwned = TRUE
INVARIANT DueMatches
\* The tables are bounded, so the system may stop.
CHECK_DEADLOCK FALSE
