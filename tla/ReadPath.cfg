\* Two requests for one cached page and one that joins them, with a write, flushes, timeouts
\* and lost clients.
SPECIFICATION FairSpec
CONSTANTS
  r1 = r1
  r2 = r2
  r3 = r3
  u1 = u1
  k1 = k1
  Requests = {r1, r2, r3}
  Followers = {r3}
  Urls = {u1}
  Page = u1
  CacheKey = k1
  Url <- UrlOf
  Key <- KeyOf
  CacheTtl = 2
  DedupTtl = 2
  EventTtl = 1
  MaxCompute = 1
  MaxWrites = 1
INVARIANT WaitersHaveLeader
INVARIANT SeesAnnouncedWrites
INVARIANT BoundedStaleness
PROPERTY EveryRequestAnswered
