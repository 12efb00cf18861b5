SPECIFICATION MarketSpec
CONSTANTS
  Requests = {r1, r2}
  SeedQuota = 1
  Quotas = {2}
  Ranks = {3}
  MaxPosts = 2
  MaxSeconds = 1
INVARIANTS
  MarketTypeOK
  BestOfferWins
  ChargesFollowIds
CHECK_DEADLOCK FALSE
