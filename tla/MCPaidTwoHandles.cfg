SPECIFICATION Spec
CONSTANTS
  h1 = h1
  h2 = h2
  k1 = k1
  k2 = k2
  s1 = s1
  s2 = s2
  None = None
  Requests = {r1, r2}
  Notices = {}
  Sweepers = {}
  Handles = {h1, h2}
  Keys = {k1, k2}
  Subs = {s1}
  Generated = {}
  Tiers = {1}
  TierOf <- OneTier
  Sold <- AnyTier
  Links <- NoLinks
  Forgotten = {}
  Period = 1
  Grace = 0
  Batch = 2
  MaxLag = 0
  MaxTime = 1
  LastSale = 3
  Observed = {}
INVARIANT OneSubscriptionOneHandle
