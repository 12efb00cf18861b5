SPECIFICATION HistorySpec
CONSTANTS
  Tokens = {usdc}
  Users = {ann, bob}
  Escrow = escrow
  ZeroAddress = zero
  MaxUint256 = 2
  Amounts = {1, 2}
  Spenders = {escrow}
  Recipients = {ann, bob, escrow}
  RfqIds = {r1, r2}
  Hashes = {h1}
  NoHash = h0
  DeliveryWindows = {1}
  DisputeWindows = {0, 1}
  MaxUint64 = 2
  MaxTime = 2
SYMMETRY Symmetry
INVARIANTS
  TypeOK
  Solvency
  PayoutNeverReverts
  WindowSurvivesTheField
PROPERTIES
  EscrowPaysOnlyDeals
  UsedIdsAreFinal
  KeepsThePromise
  BuyerRulesTheDisputeWindow
