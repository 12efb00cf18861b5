SPECIFICATION RegistrySpec
CONSTANTS
  Accounts = {a1, a2}
  ZeroAddress = zero
  URIs = {u1, u2}
  NoURI = u0
  MaxUint64 = 4
  Ratings = {0, 3, 4, 5, 200}
INVARIANTS
  RegistryTypeOK
  OneIdentityEach
  ReputationTracksRatings
PROPERTIES
  FeedbackMovesTheAverage
CHECK_DEADLOCK FALSE
