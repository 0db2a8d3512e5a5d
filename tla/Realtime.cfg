\* One page: two tokens, two renderings, two faults.
SPECIFICATION FairSpec
CONSTANTS
  s1 = s1
  s2 = s2
  s3 = s3
  h1 = h1
  h2 = h2
  NoSocket = NoSocket
  Sockets = {s1, s2, s3}
  Hooks = {h1, h2}
  Room <- RoomOf
  MaxTokens = 2
  MaxRenders = 2
  MaxFaults = 2
  MaxQueue = 2
INVARIANT OneLiveSocket
INVARIANT RoomsAgree
PROPERTY StaysOnline
\* Every counter is bounded, so the system may stop.
CHECK_DEADLOCK FALSE
