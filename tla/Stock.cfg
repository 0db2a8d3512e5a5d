\* A lot of two seeds, a biscuit grown from two, or two rough pieces, under every handler;
\* one transfer under review.
SPECIFICATION Spec
CONSTANTS
  t1 = t1
  Purchases <- SeedOrRough
  Places = {1, 2}
  Home = 1
  Transfers = {t1}
  Ops = {"split", "mix", "sell", "issue", "direct", "pending"}
  MaxLots = 4
  MaxIssues = 1
  MaxLines = 1
  MaxQty = 1
  MaxReviews = 2
INVARIANT StockConserved
INVARIANT MovementsExplainStock
INVARIANT LineageSound
INVARIANT VerdictTold
\* The tables are bounded, so the system may stop.
CHECK_DEADLOCK FALSE
