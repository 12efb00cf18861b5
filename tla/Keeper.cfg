SPECIFICATION FairKeeperSpec
CONSTANTS
  Tokens = {usdc}
  Users = {ann, bob}
  Escrow = escrow
  ZeroAddress = zero
  MaxUint256 = 3
  Amounts = {2}
  Spenders = {escrow}
  Recipients = {bob}
  RfqIds = {r1}
  Hashes = {h1}
  NoHash = h0
  DeliveryWindows = {0, 1}
  DisputeWindows = {0, 3}
  MaxUint64 = 4
  MaxTime = 4
  Buyer = ann
  USDC = usdc
  Funds = 2
  MaxPolls = 2
  MaxDrops = 1
INVARIANTS
  KeeperTypeOK
  ChecksStayTrue
  TruthOfWait
PROPERTIES
  EveryDealEnds
  KeeperIsFair
CHECK_DEADLOCK FALSE
