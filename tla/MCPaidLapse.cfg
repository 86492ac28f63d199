SPECIFICATION ClaimedSpec
CONSTANTS
  h1 = h1
  h2 = h2
  k1 = k1
  k2 = k2
  s1 = s1
  s2 = s2
  None = None
  Requests = {}
  Notices = {n1}
  Sweepers = {w1}
  Handles = {h1}
  Keys = {k1}
  Subs = {s1, s2}
  Generated = {}
  Tiers = {1, 2}
  TierOf <- OneTier
  Sold <- Crossgrade
  Links <- Replaced
  Forgotten = {s1}
  Period = 1
  Grace = 0
  Batch = 2
  MaxLag = 0
  MaxTime = 3
  LastSale = 1
  Observed = {}
INVARIANT Watched
PROPERTY LapseReleased
