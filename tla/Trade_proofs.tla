---------------------------- MODULE Trade_proofs ----------------------------
(***************************************************************************)
(* One trade between two agents that crash, raise and lose messages, for   *)
(* any price, windows, wallets and any number of attempts, triggers and    *)
(* faults.  Of a simulation only this is used, and only for ratings: a     *)
(* commitment found its deal locked.                                       *)
(***************************************************************************)
EXTENDS Trade, AgentBazaarEscrow_proofs

AgentTypes ==
  /\ buyer \in [pc : {"start", "collecting", "quoting", "locking", "awaiting", "releasing",
                      "rating", "done", "failed"},
                quoted : BOOLEAN, accepted : Hashes \cup {NoHash}]
  /\ seller \in [pc : {"idle", "working", "confirming", "sending"},
                 result : Hashes \cup {NoHash}]
  /\ produced \subseteq Hashes
  /\ net \subseteq Message
  /\ attempts \in 0 .. LockAttempts
  /\ triggers \in 0 .. Triggers
  /\ mempool \in [Users -> Tx]
  /\ rated \in Nat
  /\ faults \in 0 .. MaxFaults

(* The one deal of the trade is the one the workflow asked for, and nobody *)
(* disputes it.                                                            *)
TheDeal ==
  LET d == deals[Rfq] IN
  /\ d.state # "DISPUTED"
  /\ d.state # "OPEN" => /\ d.buyer = KeeperWallet /\ d.seller = SellerAgent
                         /\ d.amount = Price /\ d.token = USDC

(* What is pending was broadcast by the one it is of: a lock by the        *)
(* keeper's wallet, a commitment to a result some run has returned.        *)
OwnTransactions ==
  \A u \in Users :
    /\ mempool[u].call = "lockFunds" => u = KeeperWallet
    /\ mempool[u].call = "confirmDelivery" => mempool[u].hash \in produced

(* Every result on its way is one that a run has returned.                 *)
ProducedOnly ==
  /\ seller.pc \in {"confirming", "sending"} => seller.result \in produced
  /\ \A m \in net : m.kind = "delivery" => m.hash \in produced
  /\ buyer.accepted # NoHash => buyer.accepted \in produced

(* What the invariant says of the chain, and of the agents.                *)
ChainInv == Inv /\ TheDeal /\ OnePricePerTrade /\ PaidForWork
AgentInv == AgentTypes /\ OwnTransactions /\ ProducedOnly

TradeInv == ChainInv /\ AgentInv

LEMMA TradeParameters ==
  /\ KeeperWallet \in Users /\ SellerAgent \in Users /\ BuyerAgent \in Users
  /\ KeeperWallet \in Addresses /\ SellerAgent \in Addresses /\ Escrow \in Addresses
  /\ SellerAgent # KeeperWallet /\ SellerAgent # Escrow /\ KeeperWallet # Escrow
  /\ KeeperWallet # ZeroAddress
  /\ Rfq \in RfqIds /\ USDC \in Tokens
  /\ Price \in Nat \ {0} /\ Price \in Uint256 /\ Funds \in Uint256 /\ Funds = 2 * Price
  /\ DeliveryWindow \in Uint64 /\ DisputeWindow \in Uint64
<1>1. /\ Price \in Nat \ {0} /\ 2 * Price < MaxUint256 /\ MaxUint256 \in Nat
  BY TradeAssumption, AmountAssumption
<1>2. Price \in Uint256 /\ Funds \in Uint256 /\ Funds = 2 * Price
  BY <1>1 DEF Uint256, Funds
<1>3. KeeperWallet \in Users /\ SellerAgent \in Users /\ BuyerAgent \in Users
  BY TradeAssumption
<1>4. QED
  BY <1>1, <1>2, <1>3, TradeAssumption, EscrowIsNoUser DEF Addresses

LEMMA TradeInitInv == TradeInit => TradeInv
<1> SUFFICES ASSUME TradeInit PROVE TradeInv
  OBVIOUS
<1>1. Inv
  BY TradeParameters, FundedStartInv DEF TradeInit
<1>2. deals[Rfq].state = "OPEN"
  BY TradeParameters DEF TradeInit, EmptyDeal
<1>3. TheDeal /\ PaidForWork
  BY <1>2 DEF TheDeal, PaidForWork
<1>4. OnePricePerTrade
  <2>1. balanceOf[USDC][KeeperWallet] = Funds /\ balanceOf[USDC][SellerAgent] = 0
    BY TradeParameters DEF TradeInit
  <2>2. QED
    BY <1>2, <2>1 DEF OnePricePerTrade
<1>5. AgentTypes
  <2>1. NoTx \in Tx
    BY DEF NoTx, Tx
  <2>2. QED
    BY <2>1, TradeAssumption DEF TradeInit, AgentTypes
<1>6. OwnTransactions
  BY DEF TradeInit, OwnTransactions, NoTx
<1>7. ProducedOnly
  BY DEF TradeInit, ProducedOnly
<1>8. QED
  BY <1>1, <1>3, <1>4, <1>5, <1>6, <1>7 DEF TradeInv, ChainInv, AgentInv
---------------------------------------------------------------------------
(* What each call does to the chain.                                       *)
LEMMA TheLock ==
  ASSUME ChainInv,
         lockFunds(KeeperWallet, Rfq, SellerAgent, Price, USDC, DeliveryWindow, DisputeWindow)
  PROVE  ChainInv'
<1>1. Inv /\ TheDeal /\ OnePricePerTrade /\ TokenTypeOK /\ deals \in [RfqIds -> Deal]
  BY DEF ChainInv, Inv, TypeOK
<1>2. Inv'
  BY <1>1, TradeParameters, LockKeepsInv
<1>3. PICK deadline \in DeadlineAfter(DeliveryWindow) :
        deals' = [deals EXCEPT ![Rfq] =
                    LockedDeal(KeeperWallet, SellerAgent, Price, USDC, deadline, DisputeWindow)]
  BY DEF lockFunds
<1>4. deals'[Rfq] = LockedDeal(KeeperWallet, SellerAgent, Price, USDC, deadline, DisputeWindow)
  BY <1>1, <1>3, TradeParameters
<1>5. TheDeal' /\ PaidForWork' /\ deals'[Rfq].state = "LOCKED"
  BY <1>4 DEF LockedDeal, TheDeal, PaidForWork
<1>6. deals[Rfq].state = "OPEN"
  BY <1>1, TradeParameters, LockEffect
<1>7. moveBalance(USDC, KeeperWallet, Escrow, Price)
  BY DEF lockFunds, transferFrom
<1>8. /\ balanceOf'[USDC][KeeperWallet] = balanceOf[USDC][KeeperWallet] - Price
      /\ balanceOf'[USDC][SellerAgent] = balanceOf[USDC][SellerAgent]
  BY <1>1, <1>7, TradeParameters, MoveBalanceEffect
<1>9. OnePricePerTrade'
  BY <1>1, <1>5, <1>6, <1>8 DEF OnePricePerTrade, Funds
<1>10. QED
  BY <1>2, <1>5, <1>9 DEF ChainInv

LEMMA TheCommitment ==
  ASSUME ChainInv, NEW u \in Users, NEW h \in Hashes, h \in produced, produced' = produced,
         confirmDelivery(u, Rfq, h)
  PROVE  ChainInv'
<1>1. Inv /\ TheDeal /\ OnePricePerTrade /\ deals \in [RfqIds -> Deal] /\ Rfq \in RfqIds
  BY TradeParameters DEF ChainInv, Inv, TypeOK
<1>2. Inv'
  BY <1>1, DealStepKeepsInv DEF SellerStep
<1>3. /\ deals[Rfq].state = "LOCKED"
      /\ \E deadline \in DeadlineAfter(deals[Rfq].disputeDeadline) :
           deals' = [deals EXCEPT ![Rfq].resultHash = h, ![Rfq].disputeDeadline = deadline,
                                  ![Rfq].state = "DELIVERED"]
      /\ UNCHANGED balanceOf
  BY DEF confirmDelivery
<1>4. /\ deals'[Rfq].state = "DELIVERED" /\ deals'[Rfq].resultHash = h
      /\ deals'[Rfq].buyer = deals[Rfq].buyer /\ deals'[Rfq].seller = deals[Rfq].seller
      /\ deals'[Rfq].amount = deals[Rfq].amount /\ deals'[Rfq].token = deals[Rfq].token
  BY <1>1, <1>3 DEF Deal
<1>5. TheDeal' /\ PaidForWork'
  BY <1>1, <1>3, <1>4 DEF TheDeal, PaidForWork
<1>6. OnePricePerTrade'
  BY <1>1, <1>3, <1>4 DEF OnePricePerTrade, Funds
<1>7. QED
  BY <1>2, <1>5, <1>6 DEF ChainInv

LEMMA ThePayout ==
  ASSUME ChainInv, produced' = produced, NEW end \in {"RELEASED", "REFUNDED"},
         deals[Rfq].state = IF end = "RELEASED" THEN "DELIVERED" ELSE "LOCKED",
         deals' = [deals EXCEPT ![Rfq].state = end],
         transfer(deals[Rfq].token, Escrow,
                  IF end = "RELEASED" THEN deals[Rfq].seller ELSE deals[Rfq].buyer,
                  deals[Rfq].amount),
         Inv'
  PROVE  ChainInv'
<1>1. /\ Inv /\ TheDeal /\ OnePricePerTrade /\ PaidForWork /\ TokenTypeOK
      /\ deals \in [RfqIds -> Deal] /\ Rfq \in RfqIds
  BY TradeParameters DEF ChainInv, Inv, TypeOK
<1>2. /\ deals'[Rfq].state = end /\ deals'[Rfq].resultHash = deals[Rfq].resultHash
      /\ deals'[Rfq].buyer = deals[Rfq].buyer /\ deals'[Rfq].seller = deals[Rfq].seller
      /\ deals'[Rfq].amount = deals[Rfq].amount /\ deals'[Rfq].token = deals[Rfq].token
  BY <1>1 DEF Deal
<1>3. /\ deals[Rfq].buyer = KeeperWallet /\ deals[Rfq].seller = SellerAgent
      /\ deals[Rfq].amount = Price /\ deals[Rfq].token = USDC
  BY <1>1 DEF TheDeal
<1>4. TheDeal' /\ PaidForWork'
  BY <1>1, <1>2, <1>3 DEF TheDeal, PaidForWork
<1>5. OnePricePerTrade'
  <2>1. CASE end = "RELEASED"
    <3>1. moveBalance(USDC, Escrow, SellerAgent, Price)
      BY <1>3, <2>1 DEF transfer
    <3>2. /\ balanceOf'[USDC][SellerAgent] = balanceOf[USDC][SellerAgent] + Price
          /\ balanceOf'[USDC][KeeperWallet] = balanceOf[USDC][KeeperWallet]
      BY <1>1, <3>1, TradeParameters, MoveBalanceEffect
    <3>3. QED
      BY <1>1, <1>2, <2>1, <3>2, TradeParameters DEF OnePricePerTrade
  <2>2. CASE end = "REFUNDED"
    <3>1. moveBalance(USDC, Escrow, KeeperWallet, Price)
      BY <1>3, <2>2 DEF transfer
    <3>2. /\ balanceOf'[USDC][KeeperWallet] = balanceOf[USDC][KeeperWallet] + Price
          /\ balanceOf'[USDC][SellerAgent] = balanceOf[USDC][SellerAgent]
      BY <1>1, <3>1, TradeParameters, MoveBalanceEffect
    <3>3. QED
      BY <1>1, <1>2, <2>2, <3>2, TradeParameters DEF OnePricePerTrade
  <2>3. QED
    BY <2>1, <2>2
<1>6. QED
  BY <1>4, <1>5 DEF ChainInv

LEMMA KeeperKeepsChain ==
  ASSUME ChainInv, produced' = produced, KeeperStep(Rfq)
  PROVE  ChainInv'
<1>1. Inv'
  BY TradeParameters, DealStepKeepsInv DEF ChainInv
<1>2. CASE optimisticRelease(Rfq)
  BY <1>1, <1>2, ThePayout DEF optimisticRelease, release
<1>3. CASE claimRefund(Rfq)
  BY <1>1, <1>3, ThePayout DEF claimRefund
<1>4. QED
  BY <1>2, <1>3 DEF KeeperStep

LEMMA ExecuteKeepsChain ==
  ASSUME TradeInv, produced' = produced, NEW u \in Users, execute(u, mempool[u])
  PROVE  ChainInv' /\ rated' \in Nat
<1> DEFINE tx == mempool[u]
<1>1. ChainInv /\ AgentTypes /\ OwnTransactions
  BY DEF TradeInv, AgentInv
<1>2. rated' \in Nat
  BY <1>1 DEF execute, AgentTypes
<1>3. CASE /\ tx.call = "lockFunds"
           /\ lockFunds(u, Rfq, SellerAgent, Price, USDC, DeliveryWindow, DisputeWindow)
  <2>1. u = KeeperWallet
    BY <1>1, <1>3 DEF OwnTransactions
  <2>2. QED
    BY <1>1, <1>2, <1>3, <2>1, TheLock
<1>4. CASE tx.call = "confirmDelivery" /\ confirmDelivery(u, Rfq, tx.hash)
  <2>1. tx.hash \in produced /\ tx.hash \in Hashes
    BY <1>1, <1>4 DEF OwnTransactions, AgentTypes
  <2> HIDE DEF tx
  <2>2. QED
    BY <1>1, <1>2, <1>4, <2>1, TheCommitment
<1>5. CASE releaseFunds(u, Rfq)
  <2>1. Inv'
    BY <1>1, <1>5, TradeParameters, DealStepKeepsInv DEF ChainInv, BuyerStep
  <2>2. QED
    BY <1>1, <1>2, <1>5, <2>1, ThePayout DEF releaseFunds, release
<1>6. CASE UNCHANGED vars
  <2>1. Inv'
    BY <1>1, <1>6, UnchangedKeepsInv DEF ChainInv, Inv, TypeOK, vars
  <2>2. QED
    BY <1>1, <1>2, <1>6, <2>1 DEF ChainInv, TheDeal, OnePricePerTrade, PaidForWork, vars
<1>7. QED
  BY <1>3, <1>4, <1>5, <1>6 DEF execute

(* An agent's step leaves the chain alone and forgets no result.           *)
LEMMA ChainStays ==
  ASSUME ChainInv, UNCHANGED vars, produced \subseteq produced'
  PROVE  ChainInv'
<1>1. Inv'
  BY UnchangedKeepsInv DEF ChainInv, Inv, TypeOK, vars
<1>2. QED
  BY <1>1 DEF ChainInv, TheDeal, OnePricePerTrade, PaidForWork, vars
---------------------------------------------------------------------------
(* The agents.                                                             *)
LEMMA MessageTypes ==
  /\ rfqMsg \in Message /\ rfqMsg.kind = "rfq"
  /\ quoteMsg \in Message /\ quoteMsg.kind = "quote"
  /\ lockedMsg \in Message /\ lockedMsg.kind = "locked"
  /\ \A h \in Hashes : /\ deliveryMsg(h) \in Message
                        /\ deliveryMsg(h).kind = "delivery" /\ deliveryMsg(h).hash = h
BY DEF Message, rfqMsg, quoteMsg, lockedMsg, deliveryMsg

LEMMA FaultTypes ==
  ASSUME AgentTypes, Fault \/ NoFault PROVE faults' \in 0 .. MaxFaults
BY TradeAssumption DEF AgentTypes, Fault, NoFault

LEMMA GotoEffect ==
  ASSUME AgentTypes, goto("collecting") \/ goto("quoting") \/ goto("locking")
                     \/ goto("awaiting") \/ goto("rating") \/ goto("done") \/ goto("failed")
  PROVE  /\ buyer' \in [pc : {"start", "collecting", "quoting", "locking", "awaiting",
                              "releasing", "rating", "done", "failed"},
                        quoted : BOOLEAN, accepted : Hashes \cup {NoHash}]
         /\ buyer'.accepted = buyer.accepted
BY DEF AgentTypes, goto

(* A broadcast that is neither a lock nor a commitment is anyone's.        *)
LEMMA BroadcastEffect ==
  ASSUME AgentTypes, OwnTransactions, NEW u \in Users, NEW tx \in Tx, broadcast(u, tx),
         produced' = produced,
         tx.call = "lockFunds" => u = KeeperWallet,
         tx.call = "confirmDelivery" => tx.hash \in produced
  PROVE  mempool' \in [Users -> Tx] /\ OwnTransactions'
BY DEF AgentTypes, OwnTransactions, broadcast

(* The buyer's steps: its transactions settle or rate, and it accepts only *)
(* what the network delivers.                                              *)
LEMMA BuyerKeepsAgents ==
  ASSUME AgentInv, BuyerAgentStep
  PROVE  AgentInv' /\ produced' = produced /\ UNCHANGED vars
<1>1. AgentTypes /\ OwnTransactions /\ ProducedOnly
  BY DEF AgentInv
<1>2. /\ produced' = produced /\ UNCHANGED vars /\ UNCHANGED <<seller, triggers, rated>>
  BY DEF BuyerAgentStep, BroadcastRfq, CollectQuote, SelectBest, UniswapQuote, FireLock,
         AcceptDelivery, Release, SubmitFeedback, BuyerFails
<1> DEFINE Buyers == [pc : {"start", "collecting", "quoting", "locking", "awaiting",
                            "releasing", "rating", "done", "failed"},
                      quoted : BOOLEAN, accepted : Hashes \cup {NoHash}]
           Rest == /\ net' \subseteq Message /\ attempts' \in 0 .. LockAttempts
                   /\ faults' \in 0 .. MaxFaults /\ mempool' \in [Users -> Tx]
                   /\ OwnTransactions'
                   /\ \A m \in net' : m.kind = "delivery" => m.hash \in produced
           Accepts == buyer' \in Buyers /\ (buyer'.accepted # NoHash
                                              => buyer'.accepted \in produced)
<1>3. ASSUME UNCHANGED mempool PROVE mempool' \in [Users -> Tx] /\ OwnTransactions'
  BY <1>1, <1>2, <1>3 DEF AgentTypes, OwnTransactions
<1>4. Rest /\ Accepts
  <2>1. CASE BroadcastRfq
    <3>1. Accepts
      BY <1>1, <2>1, GotoEffect DEF BroadcastRfq, ProducedOnly
    <3>2. /\ net' \subseteq Message
          /\ \A m \in net' : m.kind = "delivery" => m.hash \in produced
      BY <1>1, <2>1, MessageTypes DEF BroadcastRfq, AgentTypes, ProducedOnly
    <3>3. faults' \in 0 .. MaxFaults
      BY <1>1, <2>1, FaultTypes DEF BroadcastRfq
    <3>4. QED
      BY <1>1, <1>3, <2>1, <3>1, <3>2, <3>3 DEF BroadcastRfq, AgentTypes
  <2>2. CASE CollectQuote
    <3>1. Accepts
      BY <1>1, <2>2 DEF CollectQuote, AgentTypes, ProducedOnly
    <3>2. QED
      BY <1>1, <1>3, <2>2, <3>1 DEF CollectQuote, AgentTypes, ProducedOnly
  <2>3. CASE SelectBest
    <3>1. Accepts
      <4>1. goto("quoting") \/ goto("failed")
        BY <2>3 DEF SelectBest
      <4>2. QED
        BY <1>1, <4>1, GotoEffect DEF ProducedOnly
    <3>2. QED
      BY <1>1, <1>3, <2>3, <3>1 DEF SelectBest, AgentTypes, ProducedOnly
  <2>4. CASE UniswapQuote
    <3>1. Accepts
      BY <1>1, <2>4, GotoEffect DEF UniswapQuote, ProducedOnly
    <3>2. faults' \in 0 .. MaxFaults
      BY <1>1, <2>4, FaultTypes DEF UniswapQuote
    <3>3. QED
      BY <1>1, <1>3, <2>4, <3>1, <3>2 DEF UniswapQuote, AgentTypes, ProducedOnly
  <2>5. CASE FireLock
    <3>1. Accepts
      BY <1>1, <2>5, GotoEffect DEF FireLock, ProducedOnly
    <3>2. faults' \in 0 .. MaxFaults
      BY <1>1, <2>5, FaultTypes DEF FireLock
    <3>3. attempts' \in 0 .. LockAttempts
      BY <1>1, <2>5, TradeAssumption DEF FireLock, AgentTypes
    <3>4. QED
      BY <1>1, <1>3, <2>5, <3>1, <3>2, <3>3 DEF FireLock, AgentTypes, ProducedOnly
  <2>6. CASE AcceptDelivery
    <3>1. PICK h \in Hashes :
            /\ deliveryMsg(h) \in net
            /\ net' = net \ {deliveryMsg(h)}
            /\ buyer' = [buyer EXCEPT !.pc = "releasing", !.accepted = h]
      BY <2>6 DEF AcceptDelivery
    <3>2. h \in produced
      BY <1>1, <3>1, MessageTypes DEF ProducedOnly
    <3>3. Accepts
      BY <1>1, <3>1, <3>2 DEF AgentTypes
    <3>4. QED
      BY <1>1, <1>3, <2>6, <3>1, <3>3 DEF AcceptDelivery, AgentTypes, ProducedOnly
  <2>7. CASE Release
    <3>1. Accepts
      BY <1>1, <2>7, GotoEffect DEF Release, ProducedOnly
    <3>2. faults' \in 0 .. MaxFaults
      BY <1>1, <2>7, FaultTypes DEF Release
    <3>3. mempool' \in [Users -> Tx] /\ OwnTransactions'
      <4> DEFINE tx == [call |-> "releaseFunds", hash |-> NoHash]
      <4>1. tx \in Tx /\ tx.call = "releaseFunds"
        BY DEF Tx
      <4>2. broadcast(BuyerAgent, tx) \/ UNCHANGED mempool
        BY <2>7 DEF Release
      <4> HIDE DEF tx
      <4>3. QED
        BY <1>1, <1>2, <1>3, <4>1, <4>2, BroadcastEffect, TradeParameters
    <3>4. QED
      BY <1>1, <2>7, <3>1, <3>2, <3>3 DEF Release, AgentTypes, ProducedOnly
  <2>8. CASE SubmitFeedback
    <3>1. Accepts
      BY <1>1, <2>8, GotoEffect DEF SubmitFeedback, ProducedOnly
    <3>2. mempool' \in [Users -> Tx] /\ OwnTransactions'
      <4> DEFINE tx == [call |-> "submitFeedback", hash |-> NoHash]
      <4>1. tx \in Tx /\ tx.call = "submitFeedback"
        BY DEF Tx
      <4>2. broadcast(BuyerAgent, tx) \/ UNCHANGED mempool
        BY <2>8 DEF SubmitFeedback
      <4> HIDE DEF tx
      <4>3. QED
        BY <1>1, <1>2, <1>3, <4>1, <4>2, BroadcastEffect, TradeParameters
    <3>3. QED
      BY <1>1, <2>8, <3>1, <3>2 DEF SubmitFeedback, AgentTypes, ProducedOnly
  <2>9. CASE BuyerFails
    <3>1. Accepts
      BY <1>1, <2>9, GotoEffect DEF BuyerFails, ProducedOnly
    <3>2. faults' \in 0 .. MaxFaults
      BY <1>1, <2>9, FaultTypes DEF BuyerFails
    <3>3. QED
      BY <1>1, <1>3, <2>9, <3>1, <3>2 DEF BuyerFails, AgentTypes, ProducedOnly
  <2>10. QED
    BY <2>1, <2>2, <2>3, <2>4, <2>5, <2>6, <2>7, <2>8, <2>9 DEF BuyerAgentStep
<1>5. AgentTypes'
  BY <1>1, <1>2, <1>4 DEF AgentTypes
<1>6. ProducedOnly'
  BY <1>1, <1>2, <1>4 DEF ProducedOnly
<1>7. QED
  BY <1>2, <1>4, <1>5, <1>6 DEF AgentInv

(* The seller's steps: it commits to what its own run has returned.        *)
LEMMA SellerKeepsAgents ==
  ASSUME AgentInv, SellerAgentStep
  PROVE  AgentInv' /\ produced \subseteq produced' /\ UNCHANGED vars
<1>1. AgentTypes /\ OwnTransactions /\ ProducedOnly
  BY DEF AgentInv
<1>2. UNCHANGED vars /\ UNCHANGED <<buyer, attempts, triggers, rated>>
  BY DEF SellerAgentStep, HandleRfq, HandleTrigger, RunTask, ConfirmDelivery, SendDelivery,
         SellerFails
<1> DEFINE Sellers == [pc : {"idle", "working", "confirming", "sending"},
                       result : Hashes \cup {NoHash}]
           Serves == /\ seller' \in Sellers
                     /\ seller'.pc \in {"confirming", "sending"} => seller'.result \in produced'
           Rest == /\ produced \subseteq produced' /\ produced' \subseteq Hashes
                   /\ net' \subseteq Message
                   /\ faults' \in 0 .. MaxFaults /\ mempool' \in [Users -> Tx]
                   /\ OwnTransactions'
                   /\ \A m \in net' : m.kind = "delivery" => m.hash \in produced'
<1>3. ASSUME UNCHANGED mempool, produced \subseteq produced'
      PROVE  mempool' \in [Users -> Tx] /\ OwnTransactions'
  BY <1>1, <1>2, <1>3 DEF AgentTypes, OwnTransactions
<1>4. Serves /\ Rest
  <2>1. CASE HandleRfq
    <3>1. net' = (net \ {rfqMsg}) \cup {quoteMsg} /\ UNCHANGED <<seller, produced, mempool, faults>>
      BY <2>1 DEF HandleRfq
    <3>2. Serves
      BY <1>1, <3>1 DEF AgentTypes, ProducedOnly
    <3>3. QED
      BY <1>1, <1>3, <3>1, <3>2, MessageTypes DEF AgentTypes, ProducedOnly
  <2>2. CASE HandleTrigger
    <3>1. Serves
      BY <2>2 DEF HandleTrigger
    <3>2. QED
      BY <1>1, <1>3, <2>2, <3>1 DEF HandleTrigger, AgentTypes, ProducedOnly
  <2>3. CASE RunTask
    <3>1. PICK h \in Hashes : /\ seller' = [pc |-> "confirming", result |-> h]
                              /\ produced' = produced \cup {h}
      BY <2>3 DEF RunTask
    <3>2. Serves
      BY <3>1
    <3>3. QED
      BY <1>1, <1>3, <2>3, <3>1, <3>2 DEF RunTask, AgentTypes, ProducedOnly
  <2>4. CASE ConfirmDelivery
    <3> DEFINE tx == [call |-> "confirmDelivery", hash |-> seller.result]
    <3>1. /\ \/ broadcast(SellerAgent, tx) /\ seller' = [seller EXCEPT !.pc = "sending"]
             \/ UNCHANGED mempool /\ seller' = [seller EXCEPT !.pc = "idle"]
          /\ seller.pc = "confirming" /\ UNCHANGED <<produced, net, faults>>
      BY <2>4 DEF ConfirmDelivery
    <3>2. seller.result \in produced /\ seller.result \in Hashes
      BY <1>1, <3>1 DEF AgentTypes, ProducedOnly
    <3>3. tx \in Tx /\ tx.call = "confirmDelivery" /\ tx.hash \in produced
      BY <3>2 DEF Tx
    <3> HIDE DEF tx
    <3>4. Serves
      BY <1>1, <3>1, <3>2 DEF AgentTypes
    <3>5. mempool' \in [Users -> Tx] /\ OwnTransactions'
      BY <1>1, <1>3, <3>1, <3>3, BroadcastEffect, TradeParameters
    <3>6. QED
      BY <1>1, <3>1, <3>4, <3>5 DEF AgentTypes, ProducedOnly
  <2>5. CASE SendDelivery
    <3>1. /\ net' = net \cup {deliveryMsg(seller.result)}
          /\ seller' = [seller EXCEPT !.pc = "idle"]
          /\ UNCHANGED <<produced, mempool, faults>>
          /\ seller.result \in produced /\ seller.result \in Hashes
      BY <1>1, <2>5 DEF SendDelivery, AgentTypes, ProducedOnly
    <3>2. Serves
      BY <1>1, <3>1 DEF AgentTypes
    <3>3. net' \subseteq Message /\ \A m \in net' : m.kind = "delivery" => m.hash \in produced'
      BY <1>1, <3>1, MessageTypes DEF AgentTypes, ProducedOnly
    <3>4. QED
      BY <1>1, <1>3, <3>1, <3>2, <3>3 DEF AgentTypes
  <2>6. CASE SellerFails
    <3>1. Serves
      BY <1>1, <2>6 DEF SellerFails, AgentTypes
    <3>2. faults' \in 0 .. MaxFaults
      BY <1>1, <2>6, FaultTypes DEF SellerFails
    <3>3. QED
      BY <1>1, <1>3, <2>6, <3>1, <3>2 DEF SellerFails, AgentTypes, ProducedOnly
  <2>7. QED
    BY <2>1, <2>2, <2>3, <2>4, <2>5, <2>6 DEF SellerAgentStep
<1>5. AgentTypes'
  BY <1>1, <1>2, <1>4 DEF AgentTypes
<1>6. ProducedOnly'
  BY <1>1, <1>2, <1>4 DEF ProducedOnly
<1>7. QED
  BY <1>2, <1>4, <1>5, <1>6 DEF AgentInv

(* The driver, KeeperHub's attempts and the network.                       *)
LEMMA EnvironmentKeepsAgents ==
  ASSUME AgentInv, SendTrigger \/ KeeperLock \/ LoseMessage
  PROVE  AgentInv' /\ produced' = produced /\ UNCHANGED vars
<1>1. AgentTypes /\ OwnTransactions /\ ProducedOnly
  BY DEF AgentInv
<1>2. UNCHANGED vars /\ UNCHANGED <<buyer, seller, produced, rated>>
  BY DEF SendTrigger, KeeperLock, LoseMessage
<1>3. CASE SendTrigger
  <2>1. /\ net' = net \cup {lockedMsg} /\ triggers' = triggers - 1 /\ triggers > 0
        /\ UNCHANGED <<attempts, mempool, faults>>
    BY <1>3 DEF SendTrigger
  <2>2. triggers' \in 0 .. Triggers
    BY <1>1, <2>1, TradeAssumption DEF AgentTypes
  <2>3. net' \subseteq Message /\ \A m \in net' : m.kind = "delivery" => m.hash \in produced
    BY <1>1, <2>1, MessageTypes DEF AgentTypes, ProducedOnly
  <2>4. QED
    BY <1>1, <1>2, <2>1, <2>2, <2>3 DEF AgentInv, AgentTypes, OwnTransactions, ProducedOnly
<1>4. CASE KeeperLock
  <2> DEFINE tx == [call |-> "lockFunds", hash |-> NoHash]
  <2>1. /\ attempts' = attempts - 1 /\ attempts > 0 /\ broadcast(KeeperWallet, tx)
        /\ UNCHANGED <<net, triggers, faults>>
    BY <1>4 DEF KeeperLock
  <2>2. attempts' \in 0 .. LockAttempts
    BY <1>1, <2>1, TradeAssumption DEF AgentTypes
  <2>3. tx \in Tx /\ tx.call = "lockFunds"
    BY DEF Tx
  <2> HIDE DEF tx
  <2>4. mempool' \in [Users -> Tx] /\ OwnTransactions'
    BY <1>1, <1>2, <2>1, <2>3, BroadcastEffect, TradeParameters
  <2>5. QED
    BY <1>1, <1>2, <2>1, <2>2, <2>4 DEF AgentInv, AgentTypes, ProducedOnly
<1>5. CASE LoseMessage
  <2>1. faults' \in 0 .. MaxFaults
    BY <1>1, <1>5, FaultTypes DEF LoseMessage
  <2>2. net' \subseteq net /\ UNCHANGED <<attempts, triggers, mempool>>
    BY <1>5 DEF LoseMessage
  <2>3. QED
    BY <1>1, <1>2, <2>1, <2>2 DEF AgentInv, AgentTypes, OwnTransactions, ProducedOnly
<1>6. QED
  BY <1>3, <1>4, <1>5

LEMMA MineKeepsInv ==
  ASSUME TradeInv, NEW u \in Users, Mine(u)
  PROVE  TradeInv'
<1>1. AgentTypes /\ OwnTransactions /\ ProducedOnly /\ ChainInv
  BY DEF TradeInv, AgentInv
<1>2. /\ execute(u, mempool[u]) \/ UNCHANGED <<vars, rated>>
      /\ mempool' = [mempool EXCEPT ![u] = NoTx]
      /\ UNCHANGED <<buyer, seller, produced, net, attempts, triggers, faults>>
  BY DEF Mine
<1>3. ChainInv' /\ rated' \in Nat
  <2>1. CASE execute(u, mempool[u])
    BY <1>2, <2>1, ExecuteKeepsChain
  <2>2. CASE UNCHANGED <<vars, rated>>
    BY <1>1, <1>2, <2>2, ChainStays DEF AgentTypes
  <2>3. QED
    BY <1>2, <2>1, <2>2
<1>4. NoTx \in Tx /\ NoTx.call = "none"
  BY DEF NoTx, Tx
<1>5. mempool' \in [Users -> Tx] /\ OwnTransactions'
  BY <1>1, <1>2, <1>4 DEF AgentTypes, OwnTransactions
<1>6. AgentTypes'
  BY <1>1, <1>2, <1>3, <1>5 DEF AgentTypes
<1>7. ProducedOnly'
  BY <1>1, <1>2 DEF ProducedOnly
<1>8. QED
  BY <1>3, <1>5, <1>6, <1>7 DEF TradeInv, AgentInv

LEMMA ChainStepKeepsInv ==
  ASSUME TradeInv, ChainStep
  PROVE  TradeInv'
<1>1. ChainInv /\ AgentInv /\ UNCHANGED agentVars
  BY DEF TradeInv, ChainStep
<1>2. AgentInv'
  BY <1>1 DEF AgentInv, AgentTypes, OwnTransactions, ProducedOnly, agentVars
<1>3. CASE KeeperStep(Rfq)
  BY <1>1, <1>2, <1>3, KeeperKeepsChain DEF TradeInv, agentVars
<1>4. CASE Tick
  <2>1. UNCHANGED <<deals, totalSupply, balanceOf, allowance>> /\ now' \in 0 .. MaxTime
    BY <1>1, <1>4, TimeAssumption DEF Tick, ChainInv, Inv, TypeOK
  <2>2. Inv'
    BY <1>1, <2>1, UnchangedKeepsInv DEF ChainInv
  <2>3. ChainInv'
    BY <1>1, <2>1, <2>2 DEF ChainInv, TheDeal, OnePricePerTrade, PaidForWork, agentVars
  <2>4. QED
    BY <1>2, <2>3 DEF TradeInv
<1>5. QED
  BY <1>3, <1>4 DEF ChainStep
---------------------------------------------------------------------------
LEMMA TradeInvariant == TradeSpec => []TradeInv
<1>1. TradeInv /\ [TradeNext]_tradeVars => TradeInv'
  <2> SUFFICES ASSUME TradeInv, [TradeNext]_tradeVars PROVE TradeInv'
    OBVIOUS
  <2>1. ChainInv /\ AgentInv
    BY DEF TradeInv
  <2>2. CASE BuyerAgentStep
    BY <2>1, <2>2, BuyerKeepsAgents, ChainStays DEF TradeInv
  <2>3. CASE SellerAgentStep
    BY <2>1, <2>3, SellerKeepsAgents, ChainStays DEF TradeInv
  <2>4. CASE SendTrigger \/ KeeperLock \/ LoseMessage
    BY <2>1, <2>4, EnvironmentKeepsAgents, ChainStays DEF TradeInv
  <2>5. ASSUME NEW u \in Users, Mine(u) PROVE TradeInv'
    BY <2>5, MineKeepsInv
  <2>6. CASE ChainStep
    BY <2>6, ChainStepKeepsInv
  <2>7. CASE UNCHANGED tradeVars
    <3>1. ChainInv'
      BY <2>1, <2>7, ChainStays DEF tradeVars, agentVars
    <3>2. AgentInv'
      BY <2>1, <2>7 DEF AgentInv, AgentTypes, OwnTransactions, ProducedOnly, tradeVars, agentVars
    <3>3. QED
      BY <3>1, <3>2 DEF TradeInv
  <2>8. QED
    BY <2>2, <2>3, <2>4, <2>5, <2>6, <2>7 DEF TradeNext
<1>2. QED
  BY <1>1, TradeInitInv, PTL DEF TradeSpec

(* Type correctness of the trade, the chain included.                      *)
THEOREM TradeTypeCorrect == TradeSpec => []TradeTypeOK
<1>1. TradeInv => TradeTypeOK
  BY DEF TradeInv, ChainInv, AgentInv, Inv, AgentTypes, TradeTypeOK
<1>2. QED
  BY <1>1, TradeInvariant, PTL

(* However often KeeperHub sends the lock again, and whatever crashes, one *)
(* price leaves its wallet at most, it comes back by a refund only, and    *)
(* the seller is paid once, by a release: never both.                      *)
THEOREM OnePrice == TradeSpec => []OnePricePerTrade
<1>1. TradeInv => OnePricePerTrade
  BY DEF TradeInv, ChainInv
<1>2. QED
  BY <1>1, TradeInvariant, PTL

(* The seller is paid for work only: the hash on chain is one that a run   *)
(* of its task returned, however many runs there were.                     *)
THEOREM PaidForWorkOnly == TradeSpec => []PaidForWork
<1>1. TradeInv => PaidForWork
  BY DEF TradeInv, ChainInv
<1>2. QED
  BY <1>1, TradeInvariant, PTL
---------------------------------------------------------------------------
(* Ratings.  A rating waits for nothing on the chain, so the invariant     *)
(* follows it back: a feedback comes from the buyer's last step, that from *)
(* a delivery, the delivery from a seller whose commitment was simulated   *)
(* on a locked deal, and a deal once locked is never open again.           *)
WasLocked == deals[Rfq].state # "OPEN"

RatingInv ==
  /\ seller.pc = "sending" => WasLocked
  /\ \A m \in net : m.kind = "delivery" => WasLocked
  /\ buyer.pc \in {"releasing", "rating", "done"} => buyer.accepted \in produced /\ WasLocked
  /\ \A u \in Users : mempool[u].call = "submitFeedback" => buyer.pc = "done" /\ u = BuyerAgent
                                                         /\ rated = 0
  /\ rated \in {0, 1}
  /\ rated = 1 => buyer.pc = "done"

LEMMA StaysLocked ==
  ASSUME ChainInv, WasLocked,
         \/ UNCHANGED deals
         \/ \E u \in Users, tx \in Tx : execute(u, tx)
         \/ KeeperStep(Rfq)
  PROVE  WasLocked'
<1>1. deals \in [RfqIds -> Deal] /\ Rfq \in RfqIds
  BY TradeParameters DEF ChainInv, Inv, TypeOK
<1>2. ASSUME \E s \in {"LOCKED", "DELIVERED", "RELEASED", "REFUNDED"} : deals'[Rfq].state = s
      PROVE  WasLocked'
  BY <1>2 DEF WasLocked
<1>3. CASE UNCHANGED deals
  BY <1>3 DEF WasLocked
<1>4. ASSUME NEW u \in Users, NEW tx \in Tx, execute(u, tx) PROVE WasLocked'
  <2>1. CASE lockFunds(u, Rfq, SellerAgent, Price, USDC, DeliveryWindow, DisputeWindow)
    BY <1>1, <1>2, <2>1 DEF lockFunds, LockedDeal
  <2>2. CASE confirmDelivery(u, Rfq, tx.hash)
    BY <1>1, <1>2, <2>2 DEF confirmDelivery, Deal
  <2>3. CASE releaseFunds(u, Rfq)
    BY <1>1, <1>2, <2>3 DEF releaseFunds, release, Deal
  <2>4. CASE UNCHANGED vars
    BY <1>3, <2>4 DEF vars
  <2>5. QED
    BY <1>4, <2>1, <2>2, <2>3, <2>4 DEF execute
<1>5. CASE KeeperStep(Rfq)
  BY <1>1, <1>2, <1>5 DEF KeeperStep, optimisticRelease, claimRefund, release, Deal
<1>6. QED
  BY <1>3, <1>4, <1>5

(* A buyer that has not rated has no feedback anywhere.                    *)
LEMMA BuyerKeepsRating ==
  ASSUME TradeInv, RatingInv, BuyerAgentStep
  PROVE  RatingInv'
<1>1. AgentTypes /\ ProducedOnly /\ ChainInv
  BY DEF TradeInv, AgentInv
<1>2. UNCHANGED vars /\ UNCHANGED <<seller, produced, rated>>
  BY DEF BuyerAgentStep, BroadcastRfq, CollectQuote, SelectBest, UniswapQuote, FireLock,
         AcceptDelivery, Release, SubmitFeedback, BuyerFails
<1>3. WasLocked' = WasLocked
  BY <1>2 DEF WasLocked, vars
<1> DEFINE Unrated == /\ rated = 0
                      /\ \A u \in Users : mempool[u].call # "submitFeedback"
<1>4. buyer.pc # "done" => Unrated
  BY DEF RatingInv
<1>5. /\ \A m \in net' : m.kind = "delivery" => WasLocked
      /\ buyer.pc # "done"
      /\ buyer'.pc \in {"releasing", "rating", "done"}
            => buyer'.accepted \in produced /\ WasLocked
      /\ \/ UNCHANGED mempool
         \/ \E tx \in Tx : /\ broadcast(BuyerAgent, tx)
                           /\ tx.call = "submitFeedback" => buyer'.pc = "done"
  <2>1. CASE BroadcastRfq
    BY <1>1, <2>1, MessageTypes DEF BroadcastRfq, RatingInv, goto, AgentTypes
  <2>2. CASE CollectQuote
    BY <1>1, <2>2 DEF CollectQuote, RatingInv, AgentTypes
  <2>3. CASE SelectBest
    BY <1>1, <2>3 DEF SelectBest, RatingInv, goto, AgentTypes
  <2>4. CASE UniswapQuote
    BY <1>1, <2>4 DEF UniswapQuote, RatingInv, goto, AgentTypes
  <2>5. CASE FireLock
    BY <1>1, <2>5 DEF FireLock, RatingInv, goto, AgentTypes
  <2>6. CASE AcceptDelivery
    <3>1. PICK h \in Hashes :
            /\ deliveryMsg(h) \in net
            /\ net' = net \ {deliveryMsg(h)}
            /\ buyer' = [buyer EXCEPT !.pc = "releasing", !.accepted = h]
      BY <2>6 DEF AcceptDelivery
    <3>2. h \in produced /\ WasLocked
      BY <1>1, <3>1, MessageTypes DEF ProducedOnly, RatingInv
    <3>3. QED
      BY <1>1, <2>6, <3>1, <3>2 DEF AcceptDelivery, RatingInv, AgentTypes
  <2>7. CASE Release
    <3> DEFINE tx == [call |-> "releaseFunds", hash |-> NoHash]
    <3>1. tx \in Tx /\ tx.call = "releaseFunds"
      BY DEF Tx
    <3>2. /\ buyer.pc = "releasing" /\ net' = net
          /\ goto("rating") \/ goto("failed")
          /\ broadcast(BuyerAgent, tx) \/ UNCHANGED mempool
      BY <2>7 DEF Release
    <3> HIDE DEF tx
    <3>3. /\ buyer'.pc \in {"rating", "failed"} /\ buyer'.accepted = buyer.accepted
      BY <1>1, <3>2 DEF goto, AgentTypes
    <3>4. QED
      BY <3>1, <3>2, <3>3 DEF RatingInv
  <2>8. CASE SubmitFeedback
    <3> DEFINE tx == [call |-> "submitFeedback", hash |-> NoHash]
    <3>1. tx \in Tx /\ tx.call = "submitFeedback"
      BY DEF Tx
    <3>2. /\ buyer.pc = "rating" /\ net' = net
          /\ \/ goto("done") /\ (broadcast(BuyerAgent, tx) \/ UNCHANGED mempool)
             \/ goto("failed") /\ UNCHANGED mempool
      BY <2>8 DEF SubmitFeedback
    <3> HIDE DEF tx
    <3>3. /\ buyer'.accepted = buyer.accepted
          /\ goto("done") => buyer'.pc = "done"
          /\ goto("failed") => buyer'.pc = "failed"
      BY <1>1, <3>2 DEF goto, AgentTypes
    <3>4. QED
      BY <3>1, <3>2, <3>3 DEF RatingInv
  <2>9. CASE BuyerFails
    BY <1>1, <2>9 DEF BuyerFails, RatingInv, goto, AgentTypes
  <2>10. QED
    BY <2>1, <2>2, <2>3, <2>4, <2>5, <2>6, <2>7, <2>8, <2>9 DEF BuyerAgentStep
<1>6. Unrated /\ rated' = 0
  BY <1>2, <1>4, <1>5
<1>7. \A u \in Users : mempool'[u].call = "submitFeedback" => buyer'.pc = "done" /\ u = BuyerAgent
  <2>1. CASE UNCHANGED mempool
    BY <1>6, <2>1
  <2>2. CASE \E tx \in Tx : /\ broadcast(BuyerAgent, tx)
                            /\ tx.call = "submitFeedback" => buyer'.pc = "done"
    <3>1. PICK tx \in Tx : /\ broadcast(BuyerAgent, tx)
                           /\ tx.call = "submitFeedback" => buyer'.pc = "done"
      BY <2>2
    <3>2. \A u \in Users : mempool'[u].call = "submitFeedback"
                           => u = BuyerAgent /\ tx.call = "submitFeedback"
      BY <1>1, <1>6, <3>1 DEF broadcast, AgentTypes
    <3>3. QED
      BY <3>1, <3>2
  <2>3. QED
    BY <1>5, <2>1, <2>2
<1>8. QED
  BY <1>2, <1>3, <1>5, <1>6, <1>7 DEF RatingInv

(* A delivery is sent only after a commitment that found the deal locked.  *)
LEMMA SellerKeepsRating ==
  ASSUME TradeInv, RatingInv, SellerAgentStep
  PROVE  RatingInv'
<1>1. AgentTypes /\ ProducedOnly /\ ChainInv
  BY DEF TradeInv, AgentInv
<1>2. UNCHANGED vars /\ UNCHANGED <<buyer, rated>> /\ produced \subseteq produced'
  BY DEF SellerAgentStep, HandleRfq, HandleTrigger, RunTask, ConfirmDelivery, SendDelivery,
         SellerFails
<1>3. WasLocked' = WasLocked
  BY <1>2 DEF WasLocked, vars
<1>4. /\ seller'.pc = "sending" => WasLocked
      /\ \A m \in net' : m.kind = "delivery" => WasLocked
      /\ \A u \in Users : mempool'[u].call = "submitFeedback"
                           => mempool[u].call = "submitFeedback"
  <2>1. CASE HandleRfq
    BY <2>1, MessageTypes DEF HandleRfq, RatingInv
  <2>2. CASE HandleTrigger
    BY <2>2 DEF HandleTrigger, RatingInv
  <2>3. CASE RunTask
    BY <2>3 DEF RunTask, RatingInv
  <2>4. CASE ConfirmDelivery
    <3> DEFINE tx == [call |-> "confirmDelivery", hash |-> seller.result]
    <3>1. tx.call = "confirmDelivery"
      OBVIOUS
    <3>2. /\ seller.pc = "confirming" /\ net' = net
          /\ \/ /\ Succeeds(SellerAgent, tx) /\ broadcast(SellerAgent, tx)
                /\ seller' = [seller EXCEPT !.pc = "sending"]
             \/ /\ seller' = [seller EXCEPT !.pc = "idle"]
                /\ UNCHANGED mempool
      BY <2>4 DEF ConfirmDelivery
    <3> HIDE DEF tx
    <3>3. Succeeds(SellerAgent, tx) => WasLocked
      BY <3>1 DEF Succeeds, WasLocked
    <3>4. [seller EXCEPT !.pc = "idle"].pc = "idle"
      BY <1>1 DEF AgentTypes
    <3>5. CASE seller' = [seller EXCEPT !.pc = "idle"] /\ UNCHANGED mempool
      BY <3>2, <3>4, <3>5 DEF RatingInv
    <3>6. CASE Succeeds(SellerAgent, tx) /\ broadcast(SellerAgent, tx)
      BY <1>1, <3>1, <3>2, <3>3, <3>6 DEF RatingInv, broadcast, AgentTypes
    <3>7. QED
      BY <3>2, <3>5, <3>6
  <2>5. CASE SendDelivery
    BY <1>1, <2>5 DEF SendDelivery, RatingInv, AgentTypes
  <2>6. CASE SellerFails
    BY <1>1, <2>6 DEF SellerFails, RatingInv, AgentTypes
  <2>7. QED
    BY <2>1, <2>2, <2>3, <2>4, <2>5, <2>6 DEF SellerAgentStep
<1>5. QED
  BY <1>2, <1>3, <1>4 DEF RatingInv

LEMMA MineKeepsRating ==
  ASSUME TradeInv, RatingInv, NEW u \in Users, Mine(u)
  PROVE  RatingInv'
<1>1. AgentTypes /\ ChainInv
  BY DEF TradeInv, AgentInv
<1> DEFINE tx == mempool[u]
<1>2. /\ execute(u, tx) \/ UNCHANGED <<vars, rated>>
      /\ mempool' = [mempool EXCEPT ![u] = NoTx]
      /\ UNCHANGED <<buyer, seller, produced, net>>
  BY DEF Mine
<1>3. tx \in Tx
  BY <1>1 DEF AgentTypes
<1>4. \A v \in Users : mempool'[v].call = "submitFeedback"
                       => v # u /\ mempool[v].call = "submitFeedback"
  BY <1>1, <1>2 DEF AgentTypes, NoTx
<1> HIDE DEF tx
<1>5. WasLocked => WasLocked'
  <2>1. UNCHANGED deals \/ \E v \in Users, t \in Tx : execute(v, t)
    BY <1>2, <1>3 DEF vars
  <2>2. QED
    BY <1>1, <2>1, StaysLocked
<1>6. \/ rated' = rated
      \/ tx.call = "submitFeedback" /\ rated' = rated + 1
  BY <1>2 DEF execute
<1>7. CASE rated' = rated
  BY <1>2, <1>4, <1>5, <1>7 DEF RatingInv
<1>8. CASE tx.call = "submitFeedback" /\ rated' = rated + 1
  <2>1. rated = 0 /\ rated' = 1 /\ buyer.pc = "done" /\ u = BuyerAgent
    BY <1>8 DEF RatingInv, tx
  <2>2. \A v \in Users : mempool'[v].call # "submitFeedback"
    BY <1>4, <2>1 DEF RatingInv
  <2>3. QED
    BY <1>2, <1>5, <2>1, <2>2 DEF RatingInv
<1>9. QED
  BY <1>6, <1>7, <1>8

LEMMA RatingInvariant == TradeSpec => []RatingInv
<1>1. TradeInit => RatingInv
  BY DEF TradeInit, RatingInv, NoTx
<1>2. TradeInv /\ RatingInv /\ [TradeNext]_tradeVars => RatingInv'
  <2> SUFFICES ASSUME TradeInv, RatingInv, [TradeNext]_tradeVars PROVE RatingInv'
    OBVIOUS
  <2>1. ChainInv /\ AgentTypes
    BY DEF TradeInv, AgentInv
  <2>2. CASE BuyerAgentStep
    BY <2>2, BuyerKeepsRating
  <2>3. CASE SellerAgentStep
    BY <2>3, SellerKeepsRating
  <2>4. CASE SendTrigger \/ KeeperLock \/ LoseMessage
    <3>1. UNCHANGED vars /\ UNCHANGED <<buyer, seller, produced, rated>>
      BY <2>4 DEF SendTrigger, KeeperLock, LoseMessage
    <3>2. WasLocked' = WasLocked
      BY <3>1 DEF WasLocked, vars
    <3>3. \A m \in net' : m.kind = "delivery" => m \in net
      BY <2>4, MessageTypes DEF SendTrigger, KeeperLock, LoseMessage
    <3>4. \A u \in Users : mempool'[u].call = "submitFeedback" => mempool[u].call = "submitFeedback"
      BY <2>1, <2>4 DEF SendTrigger, KeeperLock, LoseMessage, broadcast, AgentTypes
    <3>5. QED
      BY <3>1, <3>2, <3>3, <3>4 DEF RatingInv
  <2>5. ASSUME NEW u \in Users, Mine(u) PROVE RatingInv'
    BY <2>5, MineKeepsRating
  <2>6. CASE ChainStep \/ UNCHANGED tradeVars
    <3>1. UNCHANGED agentVars /\ (KeeperStep(Rfq) \/ UNCHANGED deals)
      BY <2>6 DEF ChainStep, Tick, tradeVars, vars
    <3>2. WasLocked => WasLocked'
      BY <2>1, <3>1, StaysLocked
    <3>3. QED
      BY <3>1, <3>2 DEF RatingInv, agentVars
  <2>7. QED
    BY <2>2, <2>3, <2>4, <2>5, <2>6 DEF TradeNext
<1>3. QED
  BY <1>1, <1>2, TradeInvariant, PTL DEF TradeSpec

(* A rating is for a trade that was locked and a result that was produced, *)
(* and is given once, although nothing waits for the transactions before   *)
(* it and the buyer's own may replace each other.                          *)
THEOREM RatingsAreEarned == TradeSpec => []RatingsStandForTrades
<1>1. RatingInv => RatingsStandForTrades
  BY DEF RatingInv, RatingsStandForTrades, WasLocked
<1>2. QED
  BY <1>1, RatingInvariant, PTL
===========================================================================
