SPECIFICATION KeeperSpec
CONSTANTS
  Tokens = {usdc}
  Users = {buyer_wallet, seller_wallet}
  Escrow = escrow
  ZeroAddress = zero
  MaxUint256 = 3
  Amounts = {1}
  Spenders = {escrow}
  Recipients = {seller_wallet}
  RfqIds = {r1}
  Hashes = {h1, h2}
  NoHash = h0
  DeliveryWindows = {1}
  DisputeWindows = {1}
  MaxUint64 = 4
  MaxTime = 4
  BuyerAgent = buyer_wallet
  SellerAgent = seller_wallet
  KeeperWallet = buyer_wallet
  Rfq = r1
  USDC = usdc
  Price = 1
  DeliveryWindow = 1
  DisputeWindow = 1
  LockAttempts = 2
  Triggers = 2
  MaxFaults = 2
INVARIANTS
  TradeTypeOK
  OnePricePerTrade
  PaidForWork
  RatingsStandForTrades
PROPERTIES
  KeeperSettles
CHECK_DEADLOCK FALSE
