SPECIFICATION ClaimedSpec
CONSTANTS
  h1 = h1
  h2 = h2
  k1 = k1
  k2 = k2
  s1 = s1
  s2 = s2
  None = None
  Requests = {r1}
  Notices = {}
  Sweepers = {w1}
  Handles = {h1}
  Keys = {k1, k2}
  Subs = {s1, s2}
  Generated = {}
  Tiers = {1}
  TierOf <- OneTier
  Sold <- AnyTier
  Links <- NoLinks
  Forgotten = {}
  Period = 1
  Grace = 0
  Batch = 2
  MaxLag = 0
  MaxTime = 3
  LastSale = 3
  Observed = {}
PROPERTY SweepReleasesItsKey
