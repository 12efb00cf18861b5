SPECIFICATION ApprovalSpec
CONSTANTS
  Tokens = {usdc}
  Users = {ann, bob}
  Escrow = escrow
  ZeroAddress = zero
  MaxUint256 = 3
  Amounts = {0, 1, 2, 3}
  Spenders = {ann, bob}
  Recipients = {ann, bob, escrow}
INVARIANTS
  TokenTypeOK
  Conservation
  AffordableTransferSucceeds
  DrawsStayApproved
