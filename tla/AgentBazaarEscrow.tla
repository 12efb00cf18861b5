------------------------- MODULE AgentBazaarEscrow -------------------------
(***************************************************************************)
(* The escrow contract of contracts/AgentBazaarEscrow.sol on a chain that  *)
(* also holds the token contracts of MockUSDC.  A transaction is one step; *)
(* one that reverts changes nothing, so every `revert` and `require` is a  *)
(* guard.  The contract pools all the deals of a token in one balance.     *)
(***************************************************************************)
EXTENDS MockUSDC

CONSTANTS RfqIds,           \* the bytes32 ids of deals
          Hashes,           \* result hashes a seller may post
          NoHash,           \* bytes32(0)
          DeliveryWindows,  \* deliveryWindowSecs a buyer may ask for
          DisputeWindows,   \* disputeWindowSecs a buyer may ask for
          MaxUint64,        \* type(uint64).max
          MaxTime           \* bound: the last block timestamp modelled

Uint64 == 0 .. MaxUint64

ASSUME FiniteIdsAssumption == IsFiniteSet(RfqIds)

ASSUME TimeAssumption ==
  /\ MaxUint64 \in Nat
  /\ MaxTime \in Nat /\ MaxTime <= MaxUint64
  /\ DeliveryWindows \subseteq Uint64
  /\ DisputeWindows \subseteq Uint64

State == {"OPEN", "LOCKED", "DELIVERED", "RELEASED", "DISPUTED", "REFUNDED"}

(* The rfqId field repeats the key of the mapping and is left out.         *)
Deal == [buyer : Addresses, seller : Addresses, amount : Uint256,
         token : Tokens \cup {ZeroAddress},
         deliveryDeadline : Uint64, disputeDeadline : Uint64,
         resultHash : Hashes \cup {NoHash}, state : State]

(* What a mapping holds before it is written: every field is zero.         *)
EmptyDeal ==
  [buyer |-> ZeroAddress, seller |-> ZeroAddress, amount |-> 0,
   token |-> ZeroAddress, deliveryDeadline |-> 0, disputeDeadline |-> 0,
   resultHash |-> NoHash, state |-> "OPEN"]

VARIABLES deals,  \* _deals: rfq id -> Deal
          now     \* block.timestamp

vars == <<deals, now, totalSupply, balanceOf, allowance>>

TypeOK ==
  /\ TokenTypeOK
  /\ deals \in [RfqIds -> Deal]
  /\ now \in 0 .. MaxTime

Init ==
  /\ TokenInit
  /\ deals = [r \in RfqIds |-> EmptyDeal]
  /\ now = 0
---------------------------------------------------------------------------
(* uint64(block.timestamp): the cast keeps the low 64 bits.                *)
timestamp64 == now % (MaxUint64 + 1)

(* Mistake: the sum is not checked against the uint64 range.               *)
DeadlineAfter_unchecked(window) == {timestamp64 + window}

(* The checked sum of two uint64 values: no value above the range.         *)
DeadlineAfter(window) == {timestamp64 + window} \cap Uint64

(* The deal as lockFunds writes it: the window stands where the dispute     *)
(* deadline will be.                                                       *)
LockedDeal(sender, seller, amount, t, deadline, disputeWindow) ==
  [buyer |-> sender, seller |-> seller, amount |-> amount, token |-> t,
   deliveryDeadline |-> deadline, disputeDeadline |-> disputeWindow,
   resultHash |-> NoHash, state |-> "LOCKED"]

(* Mistakes: an id can be used again; a failed token transfer is ignored. *)
lockFunds_reusable(sender, r, seller, amount, t, deliveryWindow, disputeWindow) ==
  /\ amount # 0
  /\ seller # ZeroAddress
  /\ \E deadline \in DeadlineAfter(deliveryWindow) :
       deals' = [deals EXCEPT ![r] =
                   LockedDeal(sender, seller, amount, t, deadline, disputeWindow)]
  /\ transferFrom(t, Escrow, sender, Escrow, amount)
  /\ UNCHANGED now

lockFunds_unpaid(sender, r, seller, amount, t, deliveryWindow, disputeWindow) ==
  /\ deals[r].buyer = ZeroAddress
  /\ amount # 0
  /\ seller # ZeroAddress
  /\ \E deadline \in DeadlineAfter(deliveryWindow) :
       deals' = [deals EXCEPT ![r] =
                   LockedDeal(sender, seller, amount, t, deadline, disputeWindow)]
  /\ \/ transferFrom(t, Escrow, sender, Escrow, amount)
     \/ UNCHANGED tokenVars
  /\ UNCHANGED now

lockFunds(sender, r, seller, amount, t, deliveryWindow, disputeWindow) ==
  /\ deals[r].buyer = ZeroAddress
  /\ amount # 0
  /\ seller # ZeroAddress
  /\ \E deadline \in DeadlineAfter(deliveryWindow) :
       deals' = [deals EXCEPT ![r] =
                   LockedDeal(sender, seller, amount, t, deadline, disputeWindow)]
  /\ transferFrom(t, Escrow, sender, Escrow, amount)
  /\ UNCHANGED now

(* Mistake: the window is left where the deadline belongs.                 *)
confirmDelivery_keepsWindow(sender, r, hash) ==
  /\ sender = deals[r].seller
  /\ deals[r].state = "LOCKED"
  /\ now <= deals[r].deliveryDeadline
  /\ deals' = [deals EXCEPT ![r].resultHash = hash, ![r].state = "DELIVERED"]
  /\ UNCHANGED <<now, totalSupply, balanceOf, allowance>>

(* disputeDeadline holds the window until here and a deadline from here on.*)
confirmDelivery(sender, r, hash) ==
  /\ sender = deals[r].seller
  /\ deals[r].state = "LOCKED"
  /\ now <= deals[r].deliveryDeadline
  /\ \E deadline \in DeadlineAfter(deals[r].disputeDeadline) :
       deals' = [deals EXCEPT ![r].resultHash = hash,
                              ![r].disputeDeadline = deadline,
                              ![r].state = "DELIVERED"]
  /\ UNCHANGED <<now, totalSupply, balanceOf, allowance>>

(* Mistake: the state is not written before the payment.                   *)
release_keepsState(r) ==
  /\ transfer(deals[r].token, Escrow, deals[r].seller, deals[r].amount)
  /\ UNCHANGED <<deals, now>>

(* _release: pay the seller.                                               *)
release(r) ==
  /\ deals' = [deals EXCEPT ![r].state = "RELEASED"]
  /\ transfer(deals[r].token, Escrow, deals[r].seller, deals[r].amount)
  /\ UNCHANGED now

releaseFunds(sender, r) ==
  /\ sender = deals[r].buyer
  /\ deals[r].state = "DELIVERED"
  /\ release(r)

(* Mistakes: the deadline itself counts as passed; the comparison points   *)
(* the other way.                                                          *)
optimisticRelease_early(r) ==
  /\ deals[r].state = "DELIVERED"
  /\ now >= deals[r].disputeDeadline
  /\ release(r)

optimisticRelease_reversed(r) ==
  /\ deals[r].state = "DELIVERED"
  /\ now < deals[r].disputeDeadline
  /\ release(r)

(* Anyone may send this one and claimRefund: the caller is not looked at.  *)
optimisticRelease(r) ==
  /\ deals[r].state = "DELIVERED"
  /\ now > deals[r].disputeDeadline
  /\ release(r)

(* Mistake: no deadline for a dispute.                                     *)
raiseDispute_late(sender, r) ==
  /\ sender = deals[r].buyer
  /\ deals[r].state = "DELIVERED"
  /\ deals' = [deals EXCEPT ![r].state = "DISPUTED"]
  /\ UNCHANGED <<now, totalSupply, balanceOf, allowance>>

raiseDispute(sender, r) ==
  /\ sender = deals[r].buyer
  /\ deals[r].state = "DELIVERED"
  /\ now <= deals[r].disputeDeadline
  /\ deals' = [deals EXCEPT ![r].state = "DISPUTED"]
  /\ UNCHANGED <<now, totalSupply, balanceOf, allowance>>

(* Mistake: the refund goes to the seller.                                 *)
claimRefund_toSeller(r) ==
  /\ deals[r].state = "LOCKED"
  /\ now > deals[r].deliveryDeadline
  /\ deals' = [deals EXCEPT ![r].state = "REFUNDED"]
  /\ transfer(deals[r].token, Escrow, deals[r].seller, deals[r].amount)
  /\ UNCHANGED now

claimRefund(r) ==
  /\ deals[r].state = "LOCKED"
  /\ now > deals[r].deliveryDeadline
  /\ deals' = [deals EXCEPT ![r].state = "REFUNDED"]
  /\ transfer(deals[r].token, Escrow, deals[r].buyer, deals[r].amount)
  /\ UNCHANGED now
---------------------------------------------------------------------------
Tick ==
  /\ now < MaxTime
  /\ now' = now + 1
  /\ UNCHANGED <<deals, totalSupply, balanceOf, allowance>>

LockStep ==
  \E u \in Users, r \in RfqIds, seller \in Recipients, amount \in Amounts,
     t \in Tokens, w1 \in DeliveryWindows, w2 \in DisputeWindows :
    lockFunds(u, r, seller, amount, t, w1, w2)

TokenStep == TokenNext /\ UNCHANGED <<deals, now>>

(* The calls about the deal r, by the party that may make them.            *)
BuyerStep(r) == \E u \in Users : releaseFunds(u, r) \/ raiseDispute(u, r)
SellerStep(r) == \E u \in Users, h \in Hashes : confirmDelivery(u, r, h)
KeeperStep(r) == optimisticRelease(r) \/ claimRefund(r)

Next ==
  \/ LockStep
  \/ \E r \in RfqIds : BuyerStep(r) \/ SellerStep(r) \/ KeeperStep(r)
  \/ TokenStep
  \/ Tick

Spec == Init /\ [][Next]_vars

(* Blocks keep coming, and the keeper's two scheduled workflows are always *)
(* running: optimistic release every 30 s, refund every 60 s.  Nothing is  *)
(* assumed of the buyer or the seller.                                     *)
Fairness ==
  /\ WF_vars(Tick)
  /\ \A r \in RfqIds : WF_vars(KeeperStep(r))

FairSpec == Spec /\ Fairness
---------------------------------------------------------------------------
(* What the contract owes: the amounts of the deals it has been paid for   *)
(* and has not paid out.                                                   *)
InCustody(r, t) ==
  /\ deals[r].token = t
  /\ deals[r].state \in {"LOCKED", "DELIVERED", "DISPUTED"}

custody(t) ==
  [r \in RfqIds |-> IF InCustody(r, t) THEN deals[r].amount ELSE 0]

Owed(t) == SumFunctionOnSet(custody(t), RfqIds)

(* The pooled balance covers every deal in custody at once, whatever calls *)
(* were made in whatever order: no deal is ever paid out of another's      *)
(* money.                                                                  *)
Solvency == \A t \in Tokens : Owed(t) <= balanceOf[t][Escrow]

(* The token transfer that ends a release or a refund cannot revert, so a  *)
(* deal in custody never becomes unpayable: the contract has the funds and *)
(* the payee has room for them.                                            *)
PayoutNeverReverts ==
  \A r \in RfqIds, t \in Tokens :
    InCustody(r, t) =>
      /\ deals[r].amount <= balanceOf[t][Escrow]
      /\ \A payee \in {deals[r].buyer, deals[r].seller} \ {Escrow} :
           balanceOf[t][payee] + deals[r].amount <= MaxUint256

(* Whenever the contract's balance falls, exactly one deal leaves custody, *)
(* the fall is its amount, and its payee is credited: the seller of a      *)
(* delivered deal or the buyer of an expired one.                          *)
EscrowPaysOnlyDeals ==
  [][\A t \in Tokens :
       balanceOf'[t][Escrow] < balanceOf[t][Escrow] =>
         \E r \in RfqIds :
           LET d == deals[r]
               payee == IF deals'[r].state = "RELEASED" THEN d.seller ELSE d.buyer
           IN  /\ <<d.state, deals'[r].state>> \in
                     {<<"DELIVERED", "RELEASED">>, <<"LOCKED", "REFUNDED">>}
               /\ balanceOf'[t][Escrow] = balanceOf[t][Escrow] - d.amount
               /\ balanceOf'[t][payee] = balanceOf[t][payee] + d.amount
               /\ \A q \in RfqIds \ {r} : deals'[q] = deals[q]]_vars

(* An id is spent for ever: a settled or disputed deal is never written    *)
(* again, and no later call changes what a used id stands for.             *)
UsedIdsAreFinal ==
  [][\A r \in RfqIds :
       deals[r].state # "OPEN" =>
         /\ deals[r].state \in {"RELEASED", "REFUNDED", "DISPUTED"} =>
              deals'[r] = deals[r]
         /\ \A field \in {"buyer", "seller", "amount", "token", "deliveryDeadline"} :
              deals'[r][field] = deals[r][field]]_vars

(* Every deal whose deadlines lie inside the modelled time ends, even if   *)
(* its buyer and seller never act again: a locked one cannot hang between  *)
(* "too late to deliver" and "too early to refund", nor a delivered one    *)
(* between the two release paths.  A dispute is an end: the contract has   *)
(* no way out of it.                                                       *)
EveryDealEnds ==
  \A r \in RfqIds :
    /\ (deals[r].state = "LOCKED" /\ deals[r].deliveryDeadline < MaxTime)
         ~> (deals[r].state # "LOCKED")
    /\ (deals[r].state = "DELIVERED" /\ deals[r].disputeDeadline < MaxTime)
         ~> (deals[r].state \in {"RELEASED", "DISPUTED"})
===========================================================================
