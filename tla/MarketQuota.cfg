SPECIFICATION MarketSpec
CONSTANTS
  Requests = {r1, r2}
  SeedQuota = 1
  Quotas = {2}
  Ranks = {3}
  MaxPosts = 0
  MaxSeconds = 1
INVARIANTS
  QuotaLimitsTasks
CHECK_DEADLOCK FALSE
