\* Three requests of any kind on a pool of two connections.
SPECIFICATION Spec
CONSTANTS
  c1 = c1
  c2 = c2
  None = None
  Requests = {1, 2, 3}
  Conns = {c1, c2}
  Mixes <- AnyThree
INVARIANT AnswersAreTrue
PROPERTY EveryHandlerEnds
PROPERTY RowIsFreed
\* Every request may have been served.
CHECK_DEADLOCK FALSE
