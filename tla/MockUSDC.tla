----------------------------- MODULE MockUSDC -----------------------------
(***************************************************************************)
(* The ERC-20 token of contracts/MockUSDC.sol.  Every member of Tokens is  *)
(* one deployment of the contract, with a ledger of its own.  A call that  *)
(* reverts leaves every variable alone, so a revert is a guard: checked    *)
(* uint256 arithmetic is a comparison with MaxUint256 or with 0.           *)
(***************************************************************************)
EXTENDS Integers, FiniteSets, Functions

CONSTANTS Tokens,       \* deployments of the token contract
          Users,        \* accounts that sign transactions
          Escrow,       \* address of the AgentBazaarEscrow contract
          ZeroAddress,  \* address(0)
          MaxUint256,   \* type(uint256).max
          Amounts,      \* amounts that transactions name
          Spenders,     \* addresses that users approve
          Recipients    \* addresses that users pay, or name as sellers

Addresses == Users \cup Tokens \cup {Escrow, ZeroAddress}

Uint256 == 0 .. MaxUint256

ASSUME AddressAssumption ==
  /\ Users \cap (Tokens \cup {Escrow, ZeroAddress}) = {}
  /\ Tokens \cap {Escrow, ZeroAddress} = {}
  /\ Escrow # ZeroAddress

ASSUME FiniteAddressesAssumption == IsFiniteSet(Users) /\ IsFiniteSet(Tokens)

ASSUME AmountAssumption ==
  /\ MaxUint256 \in Nat
  /\ Amounts \subseteq Uint256
  /\ Spenders \subseteq Addresses
  /\ Recipients \subseteq Addresses

VARIABLES totalSupply,  \* token -> uint256
          balanceOf,    \* token -> address -> uint256
          allowance     \* token -> owner -> spender -> uint256

tokenVars == <<totalSupply, balanceOf, allowance>>

TokenTypeOK ==
  /\ totalSupply \in [Tokens -> Uint256]
  /\ balanceOf \in [Tokens -> [Addresses -> Uint256]]
  /\ allowance \in [Tokens -> [Addresses -> [Addresses -> Uint256]]]

TokenInit ==
  /\ totalSupply = [t \in Tokens |-> 0]
  /\ balanceOf = [t \in Tokens |-> [a \in Addresses |-> 0]]
  /\ allowance = [t \in Tokens |-> [a \in Addresses |-> [b \in Addresses |-> 0]]]
---------------------------------------------------------------------------
(* Mistake: both balances are read before either is written.               *)
moveBalance_readsFirst(t, from, to, amount) ==
  /\ amount <= balanceOf[t][from]
  /\ balanceOf[t][to] + amount <= MaxUint256
  /\ balanceOf' = [balanceOf EXCEPT ![t][from] = @ - amount,
                                    ![t][to] = balanceOf[t][to] + amount]

(* balanceOf[from] -= amount, then balanceOf[to] += amount: the second     *)
(* reads what the first wrote, which matters when from = to.               *)
moveBalance(t, from, to, amount) ==
  LET debited == [balanceOf[t] EXCEPT ![from] = @ - amount]
  IN  /\ amount <= balanceOf[t][from]
      /\ debited[to] + amount <= MaxUint256
      /\ balanceOf' = [balanceOf EXCEPT ![t] =
                         [debited EXCEPT ![to] = @ + amount]]

(* Mistake: the supply is added up unchecked and wraps.                     *)
mint_unchecked(t, to, amount) ==
  /\ balanceOf[t][to] + amount <= MaxUint256
  /\ totalSupply' = [totalSupply EXCEPT ![t] = (@ + amount) % (MaxUint256 + 1)]
  /\ balanceOf' = [balanceOf EXCEPT ![t][to] = @ + amount]
  /\ UNCHANGED allowance

mint(t, to, amount) ==
  /\ totalSupply[t] + amount <= MaxUint256
  /\ balanceOf[t][to] + amount <= MaxUint256
  /\ totalSupply' = [totalSupply EXCEPT ![t] = @ + amount]
  /\ balanceOf' = [balanceOf EXCEPT ![t][to] = @ + amount]
  /\ UNCHANGED allowance

approve(t, owner, spender, amount) ==
  /\ allowance' = [allowance EXCEPT ![t][owner][spender] = amount]
  /\ UNCHANGED <<totalSupply, balanceOf>>

transfer(t, sender, to, amount) ==
  /\ moveBalance(t, sender, to, amount)
  /\ UNCHANGED <<totalSupply, allowance>>

(* Mistakes: the subtraction is unchecked; nothing is subtracted.          *)
spendAllowance_unchecked(t, from, spender, amount) ==
  allowance' = [allowance EXCEPT ![t][from][spender] =
                  IF @ = MaxUint256 THEN @ ELSE @ - amount]

spendAllowance_keeps(t, from, spender, amount) ==
  /\ amount <= allowance[t][from][spender]
  /\ UNCHANGED allowance

(* The largest allowance is never used up; any other is reduced.           *)
spendAllowance(t, from, spender, amount) ==
  \/ /\ allowance[t][from][spender] = MaxUint256
     /\ UNCHANGED allowance
  \/ /\ allowance[t][from][spender] # MaxUint256
     /\ amount <= allowance[t][from][spender]
     /\ allowance' = [allowance EXCEPT ![t][from][spender] = @ - amount]

transferFrom(t, spender, from, to, amount) ==
  /\ spendAllowance(t, from, spender, amount)
  /\ moveBalance(t, from, to, amount)
  /\ UNCHANGED totalSupply
---------------------------------------------------------------------------
(* The transactions a user may send to a token.                            *)
TokenNext ==
  \E t \in Tokens, u \in Users, amount \in Amounts :
    \/ \E to \in Recipients :
         \/ mint(t, to, amount)
         \/ transfer(t, u, to, amount)
         \/ \E from \in Addresses : transferFrom(t, u, from, to, amount)
    \/ \E spender \in Spenders : approve(t, u, spender, amount)

TokenSpec == TokenInit /\ [][TokenNext]_tokenVars
---------------------------------------------------------------------------
(* The balances of a token add up to its supply: no sequence of transfers, *)
(* one to the sender itself included, creates or destroys tokens.          *)
Conservation ==
  \A t \in Tokens : SumFunctionOnSet(balanceOf[t], Addresses) = totalSupply[t]

(* The credit half of a transfer cannot overflow, so a transfer an account *)
(* can afford never reverts: an ERC-20 payment fails only for lack of      *)
(* funds (MockUSDC.sol:41-46).                                             *)
AffordableTransferSucceeds ==
  \A t \in Tokens, from, to \in Addresses :
    from # to => balanceOf[t][from] + balanceOf[t][to] <= MaxUint256
===========================================================================
