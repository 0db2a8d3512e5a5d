\* Runs, cancellations, edits and disposals of two assets, two requests at a time.
SPECIFICATION Spec
CONSTANTS
  a1 = a1
  a2 = a2
  s1 = s1
  s2 = s2
  AssetIds = {a1, a2}
  Sessions = {s1, s2}
  WrittenDown = a2
  Method <- Methods
  Rate <- TwoThirds
  Entered <- NewPrice
  Edited <- NextPrice
  Periods = {1, 2}
  MaxRuns = 2
SYMMETRY Symmetry
INVARIANT RunsExplainBooks
INVARIANT NeverOverDepreciated
INVARIANT PostedStandsOnPosted
PROPERTY BooksFollowAssets
\* The runs are bounded, so the system may stop.
CHECK_DEADLOCK FALSE
