------------------------ MODULE EscrowHistory_proofs ------------------------
(***************************************************************************)
(* The contract keeps its promise: EscrowHistory implements EscrowPromise, *)
(* for any users, tokens, deals and windows.  HistoryInv ties the history  *)
(* to the deals; with the escrow's own invariant it makes every call one   *)
(* step of the promise.                                                    *)
(* Two parts follow on those around the deals: the token's approvals,      *)
(* which no spender overdraws, and the keeper, which stays within the      *)
(* contract and tests nothing that can change under it.                    *)
(***************************************************************************)
EXTENDS EscrowHistory, TokenHistory, Keeper, AgentBazaarEscrow_proofs

History == [window : Uint64, deliveredAt : 0 .. MaxTime,
            deliveredBy : Addresses, endedBy : Addresses]

(* A deal has a deliverer from its delivery on and not before.             *)
DeliveredOnce ==
  \A r \in RfqIds :
    history[r].deliveredBy = ZeroAddress <=>
      deals[r].state \in {"OPEN", "LOCKED", "REFUNDED"}

HistoryInv ==
  /\ Inv
  /\ history \in [RfqIds -> History]
  /\ DeliveredOnce
  /\ WindowSurvivesTheField

LEMMA HistoryTypes ==
  ASSUME HistoryInv
  PROVE  /\ TypeOK /\ DealsInUse /\ deals \in [RfqIds -> Deal]
         /\ history \in [RfqIds -> History]
         /\ \A r \in RfqIds : /\ deals[r].amount \in Nat
                              /\ deals[r].deliveryDeadline \in Nat
                              /\ deals[r].disputeDeadline \in Nat
                              /\ history[r].window \in Nat
                              /\ history[r].deliveredAt \in Nat
         /\ now \in Nat
<1>1. TypeOK /\ DealsInUse /\ deals \in [RfqIds -> Deal]
  BY DEF HistoryInv, Inv, TypeOK
<1>2. history \in [RfqIds -> History]
  BY DEF HistoryInv
<1>3. now \in Nat /\ Uint256 \subseteq Nat /\ Uint64 \subseteq Nat
      /\ 0 .. MaxTime \subseteq Nat
  BY <1>1, TimestampIsUint64, AmountAssumption, TimeAssumption DEF Uint256, Uint64
<1>4. QED
  BY <1>1, <1>2, <1>3 DEF Deal, History
---------------------------------------------------------------------------
(* Every step of the history is a step of the contract.                    *)
LEMMA HistoryStepIsStep == [HistoryNext]_historyVars => [Next]_vars
<1>1. ASSUME NEW r \in RfqIds, LockWithHistory(r) PROVE Next
  BY <1>1 DEF LockWithHistory, Next, LockStep
<1>2. ASSUME NEW r \in RfqIds, DeliverWithHistory(r) PROVE Next
  BY <1>2 DEF DeliverWithHistory, Next, SellerStep
<1>3. ASSUME NEW r \in RfqIds, EndWithHistory(r) PROVE Next
  BY <1>3 DEF EndWithHistory, Next, BuyerStep
<1>4. QED
  BY <1>1, <1>2, <1>3 DEF HistoryNext, Next, historyVars, vars

LEMMA HistoryInitInv == HistoryInit => HistoryInv
<1> SUFFICES ASSUME HistoryInit PROVE HistoryInv
  OBVIOUS
<1>1. Inv
  BY InitInv DEF HistoryInit
<1>2. NoHistory \in History
  BY TimeAssumption DEF NoHistory, History, Addresses, Uint64
<1>3. QED
  BY <1>1, <1>2
  DEF HistoryInit, HistoryInv, Init, EmptyDeal, NoHistory, DeliveredOnce,
      WindowSurvivesTheField

LEMMA LockKeepsHistory ==
  ASSUME HistoryInv, Inv', NEW r \in RfqIds, LockWithHistory(r)
  PROVE  HistoryInv'
<1>1. PICK u \in Users, seller \in Recipients, amount \in Amounts, t \in Tokens,
           w1 \in DeliveryWindows, w2 \in DisputeWindows :
        /\ lockFunds(u, r, seller, amount, t, w1, w2)
        /\ history' = [history EXCEPT ![r].window = w2]
  BY DEF LockWithHistory
<1>2. PICK deadline \in DeadlineAfter(w1) :
        deals' = [deals EXCEPT ![r] = LockedDeal(u, seller, amount, t, deadline, w2)]
  BY <1>1 DEF lockFunds
<1>3. /\ deals \in [RfqIds -> Deal] /\ history \in [RfqIds -> History]
      /\ deals[r].state = "OPEN"
  BY <1>1, HistoryTypes DEF lockFunds, DealsInUse
<1>4. history' \in [RfqIds -> History]
  BY <1>1, <1>3, TimeAssumption DEF History
<1>5. DeliveredOnce'
  BY <1>1, <1>2, <1>3 DEF HistoryInv, DeliveredOnce, LockedDeal, History
<1>6. WindowSurvivesTheField'
  BY <1>1, <1>2, <1>3 DEF HistoryInv, DeliveredOnce, WindowSurvivesTheField,
                          LockedDeal, History
<1>7. QED
  BY <1>4, <1>5, <1>6 DEF HistoryInv

(* The deadline that replaces the window is the delivery's time plus the   *)
(* window that stood there.                                                *)
LEMMA DeliverKeepsHistory ==
  ASSUME HistoryInv, Inv', NEW r \in RfqIds, DeliverWithHistory(r)
  PROVE  HistoryInv'
<1>1. PICK u \in Users, h \in Hashes :
        /\ confirmDelivery(u, r, h)
        /\ history' = [history EXCEPT ![r].deliveredAt = now, ![r].deliveredBy = u]
  BY DEF DeliverWithHistory
<1>2. PICK deadline \in DeadlineAfter(deals[r].disputeDeadline) :
        deals' = [deals EXCEPT ![r].resultHash = h,
                               ![r].disputeDeadline = deadline,
                               ![r].state = "DELIVERED"]
  BY <1>1 DEF confirmDelivery
<1>3. /\ deals \in [RfqIds -> Deal] /\ history \in [RfqIds -> History]
      /\ deals[r].state = "LOCKED" /\ now \in 0 .. MaxTime
  BY <1>1, HistoryTypes DEF confirmDelivery, TypeOK
<1>4. u \in Addresses /\ u # ZeroAddress
  BY EscrowIsNoUser DEF Addresses
<1>5. history' \in [RfqIds -> History]
  BY <1>1, <1>3, <1>4 DEF History
<1>6. DeliveredOnce'
  BY <1>1, <1>2, <1>3, <1>4 DEF HistoryInv, DeliveredOnce, Deal, History
<1>7. deadline = now + history[r].window
  <2>1. deals[r].disputeDeadline = history[r].window
    BY <1>3 DEF HistoryInv, DeliveredOnce, WindowSurvivesTheField
  <2>2. timestamp64 = now
    BY HistoryTypes, TimestampIsUint64
  <2>3. QED
    BY <2>1, <2>2 DEF DeadlineAfter
<1>8. WindowSurvivesTheField'
  BY <1>1, <1>2, <1>3, <1>4, <1>7 DEF HistoryInv, WindowSurvivesTheField, Deal, History
<1>9. QED
  BY <1>5, <1>6, <1>8 DEF HistoryInv

LEMMA EndKeepsHistory ==
  ASSUME HistoryInv, Inv', NEW r \in RfqIds, EndWithHistory(r)
  PROVE  HistoryInv'
<1>1. deals \in [RfqIds -> Deal] /\ history \in [RfqIds -> History]
  BY HistoryTypes
<1>2. ASSUME NEW u \in Users, releaseFunds(u, r) \/ raiseDispute(u, r),
             history' = [history EXCEPT ![r].endedBy = u]
      PROVE  HistoryInv'
  <2>1. PICK end \in {"RELEASED", "DISPUTED"} :
          deals' = [deals EXCEPT ![r].state = end]
    BY <1>2 DEF releaseFunds, raiseDispute, release
  <2>2. deals[r].state = "DELIVERED"
    BY <1>2 DEF releaseFunds, raiseDispute
  <2>3. history' \in [RfqIds -> History]
    BY <1>1, <1>2 DEF History, Addresses
  <2>4. DeliveredOnce' /\ WindowSurvivesTheField'
    BY <1>1, <1>2, <2>1, <2>2
    DEF HistoryInv, DeliveredOnce, WindowSurvivesTheField, Deal, History
  <2>5. QED
    BY <2>3, <2>4 DEF HistoryInv
<1>3. ASSUME KeeperStep(r), UNCHANGED history PROVE HistoryInv'
  <2>1. \/ /\ deals[r].state = "DELIVERED"
           /\ deals' = [deals EXCEPT ![r].state = "RELEASED"]
        \/ /\ deals[r].state = "LOCKED"
           /\ deals' = [deals EXCEPT ![r].state = "REFUNDED"]
    BY <1>3 DEF KeeperStep, optimisticRelease, claimRefund, release
  <2>2. DeliveredOnce' /\ WindowSurvivesTheField'
    BY <1>1, <1>3, <2>1
    DEF HistoryInv, DeliveredOnce, WindowSurvivesTheField, Deal
  <2>3. QED
    BY <1>1, <1>3, <2>2 DEF HistoryInv
<1>4. QED
  BY <1>2, <1>3 DEF EndWithHistory

LEMMA HistoryNextKeepsInv == HistoryInv /\ [HistoryNext]_historyVars => HistoryInv'
<1> SUFFICES ASSUME HistoryInv, [HistoryNext]_historyVars PROVE HistoryInv'
  OBVIOUS
<1>1. Inv'
  BY HistoryStepIsStep, NextKeepsInv DEF HistoryInv
<1>2. CASE UNCHANGED <<deals, history>>
  BY <1>1, <1>2 DEF HistoryInv, DeliveredOnce, WindowSurvivesTheField
<1>3. QED
  BY <1>1, <1>2, LockKeepsHistory, DeliverKeepsHistory, EndKeepsHistory
  DEF HistoryNext, TokenStep, Tick, historyVars, vars

LEMMA HistoryInvariant == HistorySpec => []HistoryInv
<1>1. QED
  BY HistoryInitInv, HistoryNextKeepsInv, PTL DEF HistorySpec

(* The field that is a window first and a deadline later never loses the   *)
(* window the buyer asked for (AgentBazaarEscrow.sol:82, :102).            *)
THEOREM WindowSurvives == HistorySpec => []WindowSurvivesTheField
<1>1. HistoryInv => WindowSurvivesTheField
  BY DEF HistoryInv
<1>2. QED
  BY <1>1, HistoryInvariant, PTL

(* Before the agreed window after a delivery is over only the buyer's own  *)
(* transaction ends the deal, whoever calls what (the two deadline checks, *)
(* AgentBazaarEscrow.sol:120 and :130, leave no second between them).      *)
THEOREM BuyerRules == HistorySpec => BuyerRulesTheDisputeWindow
<1> DEFINE Ruled(r) ==
      /\ deals[r].state = "DELIVERED" /\ deals'[r].state # "DELIVERED"
      /\ now <= history[r].deliveredAt + history[r].window
      => history'[r].endedBy = deals[r].buyer
<1>1. ASSUME HistoryInv, [HistoryNext]_historyVars, NEW r \in RfqIds,
             deals[r].state = "DELIVERED", deals'[r].state # "DELIVERED",
             now <= history[r].deliveredAt + history[r].window
      PROVE  history'[r].endedBy = deals[r].buyer
  <2>1. deals \in [RfqIds -> Deal] /\ history \in [RfqIds -> History]
    BY <1>1, HistoryTypes
  <2>2. now <= deals[r].disputeDeadline
    <3>1. history[r].deliveredBy # ZeroAddress
      BY <1>1 DEF HistoryInv, DeliveredOnce
    <3>2. QED
      BY <1>1, <3>1 DEF HistoryInv, WindowSurvivesTheField
  <2>3. ASSUME NEW q \in RfqIds, q # r,
               LockWithHistory(q) \/ DeliverWithHistory(q) \/ EndWithHistory(q)
        PROVE  FALSE
    <3>1. BuyerStep(q) \/ SellerStep(q) \/ KeeperStep(q) => deals'[r] = deals[r]
      BY <1>1, <2>3, DealStepEffect DEF HistoryInv
    <3>2. LockWithHistory(q) => deals'[r] = deals[r]
      BY <1>1, <2>3, LockEffect DEF LockWithHistory, HistoryInv
    <3>3. QED
      BY <1>1, <2>3, <3>1, <3>2
      DEF DeliverWithHistory, EndWithHistory, BuyerStep, SellerStep
  <2>4. ~LockWithHistory(r)
    BY <1>1, LockEffect DEF LockWithHistory, HistoryInv
  <2>5. ~DeliverWithHistory(r)
    BY <1>1 DEF DeliverWithHistory, confirmDelivery
  <2>6. ~KeeperStep(r)
    <3>1. now \in Nat /\ deals[r].disputeDeadline \in Nat
      BY <1>1, HistoryTypes
    <3>2. QED
      BY <1>1, <2>2, <3>1 DEF KeeperStep, optimisticRelease, claimRefund
  <2>7. deals' # deals
    BY <1>1
  <2>8. EndWithHistory(r)
    BY <1>1, <2>3, <2>4, <2>5, <2>7
    DEF HistoryNext, TokenStep, Tick, historyVars, vars
  <2>9. QED
    BY <2>1, <2>6, <2>8 DEF EndWithHistory, releaseFunds, raiseDispute, History
<1>2. HistoryInv /\ [HistoryNext]_historyVars => \A r \in RfqIds : Ruled(r)
  BY <1>1
<1>3. QED
  BY <1>2, HistoryInvariant, PTL DEF HistorySpec, BuyerRulesTheDisputeWindow
---------------------------------------------------------------------------
(* The refinement.  First the money: what a lock and a payout do to the    *)
(* purses and to what is free.  The contract's pooled balance and what it  *)
(* owes move together, so its free part moves only when it is the payee.   *)
LEMMA BooksTypes ==
  ASSUME Inv
  PROVE  /\ balanceOf \in [Tokens -> [Addresses -> Uint256]]
         /\ \A t \in Tokens, a \in Addresses : balanceOf[t][a] \in Nat
         /\ \A t \in Tokens : Owed(t) \in Nat
         /\ Escrow \in Addresses
         /\ \A r \in RfqIds : deals[r].amount \in Nat
<1>1. TypeOK /\ TokenTypeOK
  BY DEF Inv, TypeOK
<1>2. balanceOf \in [Tokens -> [Addresses -> Uint256]] /\ Uint256 \subseteq Nat
  BY <1>1, AmountAssumption DEF TokenTypeOK, Uint256
<1>3. \A r \in RfqIds : deals[r].amount \in Uint256
  BY <1>1 DEF TypeOK, Deal
<1>4. Escrow \in Addresses
  BY DEF Addresses
<1>5. \A t \in Tokens : Owed(t) \in Nat
  BY <1>1, CustodyNat
<1>6. QED
  BY <1>2, <1>3, <1>4, <1>5

(* One entry of the table of free tokens rewritten.                        *)
FreeWith(t, a, v) == [freeBar EXCEPT ![t][a] = v]

(* Two tables of free tokens that agree at every entry are the same.       *)
LEMMA FreeBarIsTable ==
  ASSUME NEW t \in Tokens, NEW a \in Addresses, NEW v,
         \A s \in Tokens, b \in Addresses :
           freeBar'[s][b] = IF s = t /\ b = a THEN v ELSE freeBar[s][b]
  PROVE  freeBar' = FreeWith(t, a, v)
<1> DEFINE new == [freeBar EXCEPT ![t][a] = v]
<1>1. \A s \in Tokens : freeBar[s] = [b \in Addresses |-> freeBar[s][b]]
  BY DEF freeBar
<1>2. \A s \in Tokens : freeBar'[s] = [b \in Addresses |-> freeBar'[s][b]]
  BY DEF freeBar
<1>3. \A s \in Tokens : freeBar'[s] = new[s]
  <2>1. ASSUME NEW s \in Tokens, s # t PROVE freeBar'[s] = freeBar[s]
    BY <1>1, <1>2, <2>1
  <2>2. freeBar'[t] = [freeBar[t] EXCEPT ![a] = v]
    BY <1>1, <1>2
  <2>3. DOMAIN freeBar = Tokens
    BY DEF freeBar
  <2>4. QED
    BY <2>1, <2>2, <2>3
<1>4. /\ freeBar' = [s \in Tokens |-> freeBar'[s]]
      /\ new = [s \in Tokens |-> new[s]]
  BY DEF freeBar
<1> HIDE DEF new
<1>5. freeBar' = new
  BY <1>3, <1>4
<1>6. QED
  BY <1>5 DEF new, FreeWith

LEMMA LockBooks ==
  ASSUME Inv, Inv', NEW r \in RfqIds, NEW u \in Users, NEW d \in Deal,
         deals[r].state = "OPEN", d.state = "LOCKED", d.token \in Tokens,
         deals' = [deals EXCEPT ![r] = d],
         moveBalance(d.token, u, Escrow, d.amount)
  PROVE  /\ d.amount <= freeBar[d.token][u]
         /\ purseBar' = [purseBar EXCEPT ![r] = d.amount]
         /\ freeBar' = FreeWith(d.token, u, freeBar[d.token][u] - d.amount)
<1> DEFINE t == d.token
           amount == d.amount
<1>1. TypeOK /\ TypeOK' /\ TokenTypeOK /\ DealsInUse /\ deals \in [RfqIds -> Deal]
  BY DEF Inv, TypeOK
<1>2. /\ u \in Addresses /\ u # Escrow /\ Escrow \in Addresses /\ amount \in Nat
  BY EscrowIsNoUser, AmountAssumption DEF Addresses, Deal, Uint256
<1>3. /\ amount <= balanceOf[t][u]
      /\ \A s \in Tokens \ {t} : balanceOf'[s] = balanceOf[s]
      /\ \A a \in Addresses \ {u, Escrow} : balanceOf'[t][a] = balanceOf[t][a]
      /\ balanceOf'[t][u] = balanceOf[t][u] - amount
      /\ balanceOf'[t][Escrow] = balanceOf[t][Escrow] + amount
  BY <1>1, <1>2, MoveBalanceEffect
<1>4. \A s \in Tokens : Owed(s)' = Owed(s) + (IF s = t THEN amount ELSE 0)
  BY <1>1, LockOwes
<1>5. \A s \in Tokens, a \in Addresses : balanceOf[s][a] \in Nat /\ Owed(s) \in Nat
  BY BooksTypes
<1>6. ASSUME NEW s \in Tokens, NEW a \in Addresses
      PROVE  freeBar'[s][a] = IF s = t /\ a = u THEN freeBar[s][a] - amount
                                                ELSE freeBar[s][a]
  BY <1>2, <1>3, <1>4, <1>5 DEF freeBar
<1>7. freeBar' = FreeWith(t, u, freeBar[t][u] - amount)
  BY <1>2, <1>6, FreeBarIsTable
<1>8. purseBar' = [purseBar EXCEPT ![r] = amount]
  <2>1. \A q \in RfqIds : purseBar'[q] = IF q = r THEN amount ELSE purseBar[q]
    BY <1>1 DEF purseBar, InCustody
  <2>2. QED
    BY <2>1 DEF purseBar
<1>9. QED
  BY <1>2, <1>3, <1>7, <1>8 DEF freeBar

LEMMA PayoutBooks ==
  ASSUME Inv, Inv', NEW r \in RfqIds, NEW payee \in Addresses,
         deals[r].state = "LOCKED" \/ deals[r].state = "DELIVERED",
         NEW end \in {"RELEASED", "REFUNDED"},
         deals' = [deals EXCEPT ![r].state = end],
         transfer(deals[r].token, Escrow, payee, deals[r].amount)
  PROVE  /\ purseBar' = [purseBar EXCEPT ![r] = 0]
         /\ freeBar' = FreeWith(deals[r].token, payee,
                             freeBar[deals[r].token][payee] + purseBar[r])
<1> DEFINE t == deals[r].token
           amount == deals[r].amount
<1>1. TypeOK /\ TypeOK' /\ TokenTypeOK /\ DealsInUse /\ deals \in [RfqIds -> Deal]
  BY DEF Inv, TypeOK
<1>2. t \in Tokens /\ amount \in Nat /\ Escrow \in Addresses
  BY <1>1, BooksTypes DEF DealsInUse
<1>3. moveBalance(t, Escrow, payee, amount)
  BY DEF transfer
<1>4. \A s \in Tokens : Owed(s)' = Owed(s) - (IF s = t THEN amount ELSE 0)
  BY <1>1, PayoutOwes
<1>5. \A s \in Tokens, a \in Addresses : balanceOf[s][a] \in Nat /\ Owed(s) \in Nat
  BY BooksTypes
<1>6. purseBar[r] = amount
  BY <1>2 DEF purseBar, InCustody
<1>7. purseBar' = [purseBar EXCEPT ![r] = 0]
  <2>1. \A q \in RfqIds : purseBar'[q] = IF q = r THEN 0 ELSE purseBar[q]
    BY <1>1 DEF purseBar, InCustody
  <2>2. QED
    BY <2>1 DEF purseBar
<1> HIDE DEF t, amount
<1>8. /\ \A s \in Tokens \ {t} : balanceOf'[s] = balanceOf[s]
      /\ \A a \in Addresses \ {Escrow, payee} : balanceOf'[t][a] = balanceOf[t][a]
      /\ Escrow # payee =>
           /\ balanceOf'[t][Escrow] = balanceOf[t][Escrow] - amount
           /\ balanceOf'[t][payee] = balanceOf[t][payee] + amount
      /\ Escrow = payee => balanceOf'[t] = balanceOf[t]
  BY <1>1, <1>2, <1>3, MoveBalanceEffect
<1>9. ASSUME NEW s \in Tokens, NEW a \in Addresses
      PROVE  freeBar'[s][a] = IF s = t /\ a = payee THEN freeBar[s][a] + amount
                                                    ELSE freeBar[s][a]
  BY <1>2, <1>4, <1>5, <1>8 DEF freeBar
<1>10. freeBar' = FreeWith(t, payee, freeBar[t][payee] + amount)
  BY <1>2, <1>9, FreeBarIsTable
<1>11. QED
  BY <1>6, <1>7, <1>10 DEF t

(* A call that keeps a deal in custody leaves every purse as it is.        *)
LEMMA SameBooks ==
  ASSUME deals \in [RfqIds -> Deal], NEW r \in RfqIds, NEW d \in Deal,
         deals[r].state = "LOCKED" \/ deals[r].state = "DELIVERED",
         d.state = "DELIVERED" \/ d.state = "DISPUTED",
         d.token = deals[r].token, d.amount = deals[r].amount,
         deals' = [deals EXCEPT ![r] = d], UNCHANGED balanceOf
  PROVE  UNCHANGED <<purseBar, freeBar>>
<1>1. \A q \in RfqIds, t \in Tokens : InCustody(q, t)' <=> InCustody(q, t)
  BY DEF InCustody
<1>2. \A q \in RfqIds : deals'[q].amount = deals[q].amount
  OBVIOUS
<1>3. purseBar' = purseBar
  BY <1>1, <1>2 DEF purseBar
<1>4. \A t \in Tokens : custody(t)' = custody(t)
  BY <1>1, <1>2 DEF custody
<1>5. freeBar' = freeBar
  BY <1>4 DEF freeBar, Owed
<1>6. QED
  BY <1>3, <1>5

(* What a rewritten deal is in the promise's terms.                        *)
LEMMA OneDealMoves ==
  ASSUME deals \in [RfqIds -> Deal], NEW r \in RfqIds, NEW d,
         deals' = [deals EXCEPT ![r] = d]
  PROVE  statusBar' = [statusBar EXCEPT ![r] = StatusOf(d.state)]
<1>1. \A q \in RfqIds : deals'[q] = IF q = r THEN d ELSE deals[q]
  OBVIOUS
<1>2. \A q \in RfqIds :
        statusBar'[q] = IF q = r THEN StatusOf(d.state) ELSE statusBar[q]
  BY <1>1 DEF statusBar
<1>3. QED
  BY <1>2 DEF statusBar

(* Only a lock writes terms.                                               *)
LEMMA TermsStay ==
  ASSUME HistoryInv, NEW r \in RfqIds,
         BuyerStep(r) \/ SellerStep(r) \/ KeeperStep(r),
         \A q \in RfqIds : history'[q].window = history[q].window
  PROVE  termsBar' = termsBar
<1>1. \A q \in RfqIds \ {r} : deals'[q] = deals[q]
  BY DealStepEffect DEF HistoryInv
<1>2. \A field \in {"buyer", "seller", "amount", "token", "deliveryDeadline"} :
        deals'[r][field] = deals[r][field]
  BY DealStepEffect DEF HistoryInv
<1>3. /\ deals'[r].buyer = deals[r].buyer /\ deals'[r].seller = deals[r].seller
      /\ deals'[r].amount = deals[r].amount /\ deals'[r].token = deals[r].token
      /\ deals'[r].deliveryDeadline = deals[r].deliveryDeadline
  BY <1>2
<1>4. QED
  BY <1>1, <1>3 DEF termsBar

LEMMA LockIsAgree ==
  ASSUME HistoryInv, HistoryInv', NEW r \in RfqIds, LockWithHistory(r)
  PROVE  Promise!Agree(r)
<1>1. PICK u \in Users, seller \in Recipients, amount \in Amounts, t \in Tokens,
           w1 \in DeliveryWindows, w2 \in DisputeWindows :
        /\ lockFunds(u, r, seller, amount, t, w1, w2)
        /\ history' = [history EXCEPT ![r].window = w2]
  BY DEF LockWithHistory
<1>2. PICK deadline \in DeadlineAfter(w1) :
        deals' = [deals EXCEPT ![r] = LockedDeal(u, seller, amount, t, deadline, w2)]
  BY <1>1 DEF lockFunds
<1> DEFINE d == LockedDeal(u, seller, amount, t, deadline, w2)
           agreed == [buyer |-> u, seller |-> seller, amount |-> amount,
                      token |-> t, deliverBy |-> deadline, window |-> w2]
<1>3. /\ deals \in [RfqIds -> Deal] /\ history \in [RfqIds -> History]
      /\ deals[r].state = "OPEN" /\ Inv /\ Inv'
      /\ amount # 0 /\ moveBalance(t, u, Escrow, amount) /\ UNCHANGED now
  BY <1>1, HistoryTypes DEF lockFunds, transferFrom, DealsInUse, HistoryInv
<1>4. d \in Deal
  BY <1>2, <1>3 DEF Inv, TypeOK
<1>5. /\ d.state = "LOCKED" /\ d.buyer = u /\ d.seller = seller /\ d.amount = amount
      /\ d.token = t /\ d.deliveryDeadline = deadline
      /\ deals' = [deals EXCEPT ![r] = d]
  BY <1>2 DEF LockedDeal
<1>6. /\ deadline \in Nat /\ w1 \in Nat /\ w2 \in Nat /\ now \in Nat
      /\ deadline = now + w1
  BY HistoryTypes, TimestampIsUint64, TimeAssumption DEF DeadlineAfter, Uint64
<1>7. amount \in Nat /\ u \in Addresses /\ seller \in Addresses
  BY AmountAssumption DEF Addresses, Uint256
<1> HIDE DEF d
<1>8. statusBar' = [statusBar EXCEPT ![r] = "locked"] /\ statusBar[r] = "none"
  BY <1>3, <1>5, OneDealMoves DEF StatusOf, statusBar
<1>9. /\ amount <= freeBar[t][u]
      /\ purseBar' = [purseBar EXCEPT ![r] = amount]
      /\ freeBar' = FreeWith(t, u, freeBar[t][u] - amount)
  BY <1>3, <1>4, <1>5, LockBooks
<1>10. termsBar'[r] = agreed
  BY <1>1, <1>2, <1>3, <1>5 DEF termsBar, History, d
<1>11. termsBar' = [termsBar EXCEPT ![r] = agreed]
  <2>1. \A q \in RfqIds : termsBar'[q] = IF q = r THEN agreed ELSE termsBar[q]
    <3>1. \A q \in RfqIds \ {r} : termsBar'[q] = termsBar[q]
      BY <1>1, <1>2, <1>3 DEF termsBar
    <3>2. QED
      BY <1>10, <3>1
  <2> HIDE DEF agreed
  <2>2. QED
    BY <2>1 DEF termsBar
<1>12. recordBar' = recordBar
  <2>1. \A q \in RfqIds : /\ history'[q].deliveredBy = history[q].deliveredBy
                          /\ history'[q].deliveredAt = history[q].deliveredAt
                          /\ history'[q].endedBy = history[q].endedBy
    BY <1>1, <1>3 DEF History
  <2>2. QED
    BY <2>1 DEF recordBar
<1>13. agreed \in Promise!Terms
  BY <1>6, <1>7 DEF Promise!Terms
<1>14. /\ agreed.amount = amount /\ agreed.token = t /\ agreed.buyer = u
       /\ agreed.deliverBy = deadline
  OBVIOUS
<1> HIDE DEF agreed
<1>15. QED
  BY <1>3, <1>6, <1>7, <1>8, <1>9, <1>10, <1>11, <1>12, <1>13, <1>14
  DEF Promise!Agree, FreeWith

LEMMA DeliveryIsDeliver ==
  ASSUME HistoryInv, NEW r \in RfqIds, DeliverWithHistory(r)
  PROVE  Promise!Deliver(r)
<1>1. PICK u \in Users, h \in Hashes :
        /\ confirmDelivery(u, r, h)
        /\ history' = [history EXCEPT ![r].deliveredAt = now, ![r].deliveredBy = u]
  BY DEF DeliverWithHistory
<1>2. PICK deadline \in DeadlineAfter(deals[r].disputeDeadline) :
        deals' = [deals EXCEPT ![r].resultHash = h,
                               ![r].disputeDeadline = deadline,
                               ![r].state = "DELIVERED"]
  BY <1>1 DEF confirmDelivery
<1>3. /\ deals \in [RfqIds -> Deal] /\ history \in [RfqIds -> History]
      /\ deals[r].state = "LOCKED" /\ deals[r].seller = u
      /\ now <= deals[r].deliveryDeadline
      /\ UNCHANGED <<now, balanceOf>>
  BY <1>1, HistoryTypes DEF confirmDelivery
<1> DEFINE d == [deals[r] EXCEPT !.resultHash = h, !.disputeDeadline = deadline,
                                 !.state = "DELIVERED"]
<1>4. d \in Deal
  BY <1>3, HistoryTypes DEF Deal, State, DeadlineAfter
<1>5. /\ deals' = [deals EXCEPT ![r] = d] /\ d.state = "DELIVERED"
      /\ d.token = deals[r].token /\ d.amount = deals[r].amount
  BY <1>2, <1>3 DEF Deal
<1> HIDE DEF d
<1>6. statusBar' = [statusBar EXCEPT ![r] = "delivered"] /\ statusBar[r] = "locked"
  BY <1>3, <1>5, OneDealMoves DEF StatusOf, statusBar
<1>7. UNCHANGED <<purseBar, freeBar>>
  BY <1>3, <1>4, <1>5, SameBooks
<1>8. \A q \in RfqIds : history'[q].window = history[q].window
  BY <1>1, <1>3 DEF History
<1>9. termsBar' = termsBar
  BY <1>1, <1>8, TermsStay DEF SellerStep
<1>10. recordBar' = [recordBar EXCEPT ![r].deliveredBy = u, ![r].deliveredAt = now]
  <2>1. \A q \in RfqIds \ {r} : history'[q] = history[q]
    BY <1>1, <1>3
  <2>2. /\ history'[r].deliveredBy = u /\ history'[r].deliveredAt = now
        /\ history'[r].endedBy = history[r].endedBy
    BY <1>1, <1>3 DEF History
  <2>3. QED
    BY <2>1, <2>2 DEF recordBar
<1>11. termsBar[r].seller = u /\ termsBar[r].deliverBy = deals[r].deliveryDeadline
  BY <1>3 DEF termsBar
<1>12. QED
  BY <1>3, <1>6, <1>7, <1>9, <1>10, <1>11 DEF Promise!Deliver

(* The window the promise speaks of ends where the contract's deadline is. *)
LEMMA WindowOverIsDeadlinePassed ==
  ASSUME HistoryInv, NEW r \in RfqIds, deals[r].state = "DELIVERED"
  PROVE  Promise!WindowOver(r) <=> now > deals[r].disputeDeadline
<1>1. history[r].deliveredBy # ZeroAddress
  BY DEF HistoryInv, DeliveredOnce
<1>2. deals[r].disputeDeadline = history[r].deliveredAt + history[r].window
  BY <1>1 DEF HistoryInv, WindowSurvivesTheField
<1>3. /\ recordBar[r].deliveredAt = history[r].deliveredAt
      /\ termsBar[r].window = history[r].window
  BY DEF recordBar, termsBar
<1>4. QED
  BY <1>2, <1>3 DEF Promise!WindowOver

LEMMA EndIsEnd ==
  ASSUME HistoryInv, HistoryInv', NEW r \in RfqIds, EndWithHistory(r)
  PROVE  \/ Promise!Accept(r) \/ Promise!SilenceIsConsent(r)
         \/ Promise!Reject(r) \/ Promise!MoneyBack(r)
<1>1. /\ deals \in [RfqIds -> Deal] /\ history \in [RfqIds -> History]
      /\ Inv /\ Inv'
      /\ deals[r].buyer \in Addresses /\ deals[r].seller \in Addresses
  BY HistoryTypes DEF HistoryInv, Deal
<1>2. /\ termsBar[r].buyer = deals[r].buyer /\ termsBar[r].seller = deals[r].seller
      /\ termsBar[r].token = deals[r].token
      /\ termsBar[r].deliverBy = deals[r].deliveryDeadline
      /\ statusBar[r] = StatusOf(deals[r].state)
  BY DEF termsBar, statusBar
<1>3. ASSUME NEW u \in Users, u = deals[r].buyer,
             history' = [history EXCEPT ![r].endedBy = u]
      PROVE  /\ recordBar' = [recordBar EXCEPT ![r].endedBy = termsBar[r].buyer]
             /\ \A q \in RfqIds : history'[q].window = history[q].window
  <2>1. \A q \in RfqIds \ {r} : history'[q] = history[q]
    BY <1>1, <1>3
  <2>2. /\ history'[r].deliveredBy = history[r].deliveredBy
        /\ history'[r].deliveredAt = history[r].deliveredAt
        /\ history'[r].endedBy = u /\ history'[r].window = history[r].window
    BY <1>1, <1>3 DEF History
  <2>3. QED
    BY <1>2, <1>3, <2>1, <2>2 DEF recordBar
<1>4. ASSUME NEW end, deals' = [deals EXCEPT ![r].state = end]
      PROVE  statusBar' = [statusBar EXCEPT ![r] = StatusOf(end)]
  <2> DEFINE d == [deals[r] EXCEPT !.state = end]
  <2>1. deals' = [deals EXCEPT ![r] = d] /\ d.state = end
    BY <1>1, <1>4 DEF Deal
  <2> HIDE DEF d
  <2>2. QED
    BY <1>1, <2>1, OneDealMoves
<1>5. ASSUME NEW u \in Users, releaseFunds(u, r),
             history' = [history EXCEPT ![r].endedBy = u]
      PROVE  Promise!Accept(r)
  <2>1. /\ deals[r].state = "DELIVERED" /\ u = deals[r].buyer /\ UNCHANGED now
        /\ deals' = [deals EXCEPT ![r].state = "RELEASED"]
        /\ transfer(deals[r].token, Escrow, deals[r].seller, deals[r].amount)
    BY <1>5 DEF releaseFunds, release
  <2>2. /\ purseBar' = [purseBar EXCEPT ![r] = 0]
        /\ freeBar' = FreeWith(deals[r].token, deals[r].seller,
                       freeBar[deals[r].token][deals[r].seller] + purseBar[r])
    BY <1>1, <2>1, PayoutBooks
  <2>3. termsBar' = termsBar
    BY <1>3, <1>5, <2>1, TermsStay DEF BuyerStep
  <2>4. statusBar[r] = "delivered" /\ statusBar' = [statusBar EXCEPT ![r] = "paid"]
    BY <1>2, <1>4, <2>1 DEF StatusOf
  <2>5. QED
    BY <1>2, <1>3, <1>5, <2>1, <2>2, <2>3, <2>4 DEF Promise!Accept, Promise!PayOut, FreeWith
<1>6. ASSUME NEW u \in Users, raiseDispute(u, r),
             history' = [history EXCEPT ![r].endedBy = u]
      PROVE  Promise!Reject(r)
  <2>1. /\ deals[r].state = "DELIVERED" /\ u = deals[r].buyer
        /\ now <= deals[r].disputeDeadline /\ UNCHANGED <<now, balanceOf>>
        /\ deals' = [deals EXCEPT ![r].state = "DISPUTED"]
    BY <1>6 DEF raiseDispute
  <2> DEFINE d == [deals[r] EXCEPT !.state = "DISPUTED"]
  <2>2. /\ d \in Deal /\ deals' = [deals EXCEPT ![r] = d] /\ d.state = "DISPUTED"
        /\ d.token = deals[r].token /\ d.amount = deals[r].amount
    BY <1>1, <2>1 DEF Deal, State
  <2> HIDE DEF d
  <2>3. UNCHANGED <<purseBar, freeBar>>
    BY <1>1, <2>1, <2>2, SameBooks
  <2>4. termsBar' = termsBar
    BY <1>3, <1>6, <2>1, TermsStay DEF BuyerStep
  <2>5. statusBar[r] = "delivered" /\ statusBar' = [statusBar EXCEPT ![r] = "disputed"]
    BY <1>2, <1>4, <2>1 DEF StatusOf
  <2>6. ~Promise!WindowOver(r)
    BY <2>1, WindowOverIsDeadlinePassed, HistoryTypes
  <2>7. QED
    BY <1>3, <1>6, <2>1, <2>3, <2>4, <2>5, <2>6 DEF Promise!Reject
<1>7. ASSUME optimisticRelease(r), UNCHANGED history PROVE Promise!SilenceIsConsent(r)
  <2>1. /\ deals[r].state = "DELIVERED" /\ now > deals[r].disputeDeadline
        /\ deals' = [deals EXCEPT ![r].state = "RELEASED"] /\ UNCHANGED now
        /\ transfer(deals[r].token, Escrow, deals[r].seller, deals[r].amount)
    BY <1>7 DEF optimisticRelease, release
  <2>2. /\ purseBar' = [purseBar EXCEPT ![r] = 0]
        /\ freeBar' = FreeWith(deals[r].token, deals[r].seller,
                       freeBar[deals[r].token][deals[r].seller] + purseBar[r])
    BY <1>1, <2>1, PayoutBooks
  <2>3. termsBar' = termsBar
    BY <1>7, TermsStay DEF KeeperStep
  <2>4. recordBar' = recordBar
    BY <1>7 DEF recordBar
  <2>5. statusBar[r] = "delivered" /\ statusBar' = [statusBar EXCEPT ![r] = "paid"]
    BY <1>2, <1>4, <2>1 DEF StatusOf
  <2>6. Promise!WindowOver(r)
    BY <2>1, WindowOverIsDeadlinePassed
  <2>7. QED
    BY <1>2, <2>1, <2>2, <2>3, <2>4, <2>5, <2>6
    DEF Promise!SilenceIsConsent, Promise!PayOut, FreeWith
<1>8. ASSUME claimRefund(r), UNCHANGED history PROVE Promise!MoneyBack(r)
  <2>1. /\ deals[r].state = "LOCKED" /\ now > deals[r].deliveryDeadline
        /\ deals' = [deals EXCEPT ![r].state = "REFUNDED"] /\ UNCHANGED now
        /\ transfer(deals[r].token, Escrow, deals[r].buyer, deals[r].amount)
    BY <1>8 DEF claimRefund
  <2>2. /\ purseBar' = [purseBar EXCEPT ![r] = 0]
        /\ freeBar' = FreeWith(deals[r].token, deals[r].buyer,
                       freeBar[deals[r].token][deals[r].buyer] + purseBar[r])
    BY <1>1, <2>1, PayoutBooks
  <2>3. termsBar' = termsBar
    BY <1>8, TermsStay DEF KeeperStep
  <2>4. recordBar' = recordBar
    BY <1>8 DEF recordBar
  <2>5. statusBar[r] = "locked" /\ statusBar' = [statusBar EXCEPT ![r] = "refunded"]
    BY <1>2, <1>4, <2>1 DEF StatusOf
  <2>6. QED
    BY <1>2, <2>1, <2>2, <2>3, <2>4, <2>5 DEF Promise!MoneyBack, Promise!PayOut, FreeWith
<1>9. QED
  BY <1>5, <1>6, <1>7, <1>8 DEF EndWithHistory, KeeperStep

(* Nothing is free to move out of the contract's pool but by a payout.     *)
LEMMA TokenStepIsTokensMove ==
  ASSUME HistoryInv, HistoryInv', TokenStep, UNCHANGED history
  PROVE  Promise!TokensMove
<1>1. UNCHANGED <<deals, now>>
  BY DEF TokenStep
<1>2. UNCHANGED <<now, statusBar, termsBar, recordBar>>
  BY <1>1 DEF statusBar, termsBar, recordBar
<1>3. UNCHANGED purseBar
  BY <1>1 DEF purseBar, InCustody
<1>4. ASSUME NEW t \in Tokens PROVE freeBar'[t][Escrow] >= freeBar[t][Escrow]
  <2>1. balanceOf'[t][Escrow] >= balanceOf[t][Escrow]
    BY TokenStepOnlyGives DEF HistoryInv
  <2>2. Owed(t)' = Owed(t)
    BY <1>1 DEF Owed, custody, InCustody
  <2>3. /\ Owed(t) \in Nat /\ Owed(t)' \in Nat /\ Escrow \in Addresses
        /\ balanceOf[t][Escrow] \in Nat /\ balanceOf'[t][Escrow] \in Nat
    <3>1. Inv /\ Inv'
      BY DEF HistoryInv
    <3>2. balanceOf'[t][Escrow] \in Nat
      BY <3>1, AmountAssumption DEF Inv, TypeOK, TokenTypeOK, Uint256, Addresses
    <3>3. QED
      BY <2>2, <3>1, <3>2, BooksTypes
  <2>4. /\ freeBar[t][Escrow] = balanceOf[t][Escrow] - Owed(t)
        /\ freeBar'[t][Escrow] = balanceOf'[t][Escrow] - Owed(t)'
    BY <2>3 DEF freeBar
  <2>5. QED
    BY <2>1, <2>2, <2>3, <2>4
<1>5. QED
  BY <1>2, <1>3, <1>4 DEF Promise!TokensMove

LEMMA HistoryStepIsPromiseStep ==
  HistoryInv /\ HistoryInv' /\ [HistoryNext]_historyVars
    => [Promise!PromiseNext]_(Promise!promiseVars)
<1> SUFFICES ASSUME HistoryInv, HistoryInv', [HistoryNext]_historyVars
             PROVE  [Promise!PromiseNext]_(Promise!promiseVars)
  OBVIOUS
<1>1. ASSUME NEW r \in RfqIds, LockWithHistory(r) PROVE Promise!PromiseNext
  BY <1>1, LockIsAgree DEF Promise!PromiseNext
<1>2. ASSUME NEW r \in RfqIds, DeliverWithHistory(r) PROVE Promise!PromiseNext
  BY <1>2, DeliveryIsDeliver DEF Promise!PromiseNext
<1>3. ASSUME NEW r \in RfqIds, EndWithHistory(r) PROVE Promise!PromiseNext
  BY <1>3, EndIsEnd DEF Promise!PromiseNext
<1>4. CASE TokenStep /\ UNCHANGED history
  BY <1>4, TokenStepIsTokensMove DEF Promise!PromiseNext
<1>5. ASSUME UNCHANGED <<deals, balanceOf, history>>
      PROVE  UNCHANGED <<statusBar, termsBar, recordBar, purseBar, freeBar>>
  BY <1>5 DEF statusBar, termsBar, recordBar, purseBar, freeBar, InCustody, Owed, custody
<1>6. CASE Tick /\ UNCHANGED history
  <2>1. now' > now
    BY <1>6, HistoryTypes DEF Tick
  <2>2. Promise!TimePasses
    BY <1>5, <1>6, <2>1 DEF Tick, Promise!TimePasses
  <2>3. QED
    BY <2>2 DEF Promise!PromiseNext
<1>7. CASE UNCHANGED historyVars
  BY <1>5, <1>7 DEF historyVars, vars, Promise!promiseVars
<1>8. QED
  BY <1>1, <1>2, <1>3, <1>4, <1>6, <1>7 DEF HistoryNext

LEMMA HistoryInitIsPromiseInit == HistoryInit => Promise!PromiseInit
<1> SUFFICES ASSUME HistoryInit PROVE Promise!PromiseInit
  OBVIOUS
<1>1. /\ deals = [r \in RfqIds |-> EmptyDeal] /\ now = 0 /\ TokenInit
      /\ history = [r \in RfqIds |-> NoHistory] /\ Inv
  BY InitInv DEF HistoryInit, Init
<1>2. statusBar = [r \in RfqIds |-> "none"]
  BY <1>1 DEF statusBar, StatusOf, EmptyDeal
<1>3. termsBar = [r \in RfqIds |-> Promise!NoTerms]
  BY <1>1 DEF termsBar, EmptyDeal, NoHistory, Promise!NoTerms
<1>4. recordBar = [r \in RfqIds |-> Promise!NoRecord]
  BY <1>1 DEF recordBar, NoHistory, Promise!NoRecord
<1>5. purseBar = [r \in RfqIds |-> 0]
  BY <1>1 DEF purseBar, InCustody, EmptyDeal
<1>6. freeBar = [t \in Tokens |-> [a \in Addresses |-> 0]]
  <2>1. \A t \in Tokens, a \in Addresses : balanceOf[t][a] = 0
    BY <1>1 DEF TokenInit
  <2>2. \A t \in Tokens : Owed(t) \in Nat /\ Owed(t) <= balanceOf[t][Escrow]
    BY <1>1, BooksTypes DEF Inv, Solvency
  <2>3. \A t \in Tokens, a \in Addresses :
          (IF a = Escrow THEN balanceOf[t][a] - Owed(t) ELSE balanceOf[t][a]) = 0
    BY <2>1, <2>2
  <2>4. QED
    BY <2>3 DEF freeBar
<1>7. QED
  BY <1>1, <1>2, <1>3, <1>4, <1>5, <1>6 DEF Promise!PromiseInit

(* The contract implements its promise.  The pooled balance is as good as  *)
(* a purse per deal, only the seller delivers and only in time, the seller *)
(* is paid by the buyer's word or after the whole agreed window, and the   *)
(* buyer gets back only what was never delivered: for any deals at once.   *)
THEOREM PromiseKept == HistorySpec => KeepsThePromise
<1>1. QED
  BY HistoryInitIsPromiseInit, HistoryStepIsPromiseStep, HistoryInvariant, PTL
  DEF HistorySpec, KeepsThePromise, Promise!PromiseSpec
---------------------------------------------------------------------------
(* The token's history.  The unlimited approval is never drawn on, as its  *)
(* allowance would then no longer be the largest.                          *)
ApprovalInv ==
  /\ TokenInv
  /\ approval \in [Tokens -> [Addresses -> [Addresses -> [given : Uint256, drawn : Nat]]]]
  /\ \A t \in Tokens, owner, spender \in Addresses :
       approval[t][owner][spender].given = MaxUint256 => approval[t][owner][spender].drawn = 0
  /\ DrawsStayApproved

LEMMA ApprovalStep ==
  ASSUME ApprovalInv, NEW t \in Tokens, NEW owner \in Addresses, NEW spender \in Addresses,
         NEW next \in [given : Uint256, drawn : Nat],
         approval' = [approval EXCEPT ![t][owner][spender] = next],
         allowance' = [allowance EXCEPT ![t][owner][spender] = next.given - next.drawn],
         next.drawn <= next.given, next.given = MaxUint256 => next.drawn = 0, TokenInv'
  PROVE  ApprovalInv'
<1>1. approval \in [Tokens -> [Addresses -> [Addresses -> [given : Uint256, drawn : Nat]]]]
      /\ allowance \in [Tokens -> [Addresses -> [Addresses -> Uint256]]]
  BY DEF ApprovalInv, TokenInv, TokenTypeOK
<1>2. approval' \in [Tokens -> [Addresses -> [Addresses -> [given : Uint256, drawn : Nat]]]]
  BY <1>1
<1>3. /\ approval'[t][owner][spender] = next
      /\ allowance'[t][owner][spender] = next.given - next.drawn
  BY <1>1
<1>4. ASSUME NEW s \in Tokens, NEW a \in Addresses, NEW b \in Addresses,
             <<s, a, b>> # <<t, owner, spender>>
      PROVE  /\ approval'[s][a][b] = approval[s][a][b]
             /\ allowance'[s][a][b] = allowance[s][a][b]
  BY <1>1, <1>4
<1>5. ASSUME NEW s \in Tokens, NEW a \in Addresses, NEW b \in Addresses
      PROVE  LET A == approval'[s][a][b] IN
             /\ A.given = MaxUint256 => A.drawn = 0
             /\ A.given # MaxUint256 => A.drawn <= A.given
             /\ allowance'[s][a][b] = A.given - A.drawn
  <2>1. CASE <<s, a, b>> = <<t, owner, spender>>
    BY <1>3, <2>1
  <2>2. CASE <<s, a, b>> # <<t, owner, spender>>
    BY <1>4, <2>2 DEF ApprovalInv, DrawsStayApproved, Limited
  <2>3. QED
    BY <2>1, <2>2
<1>6. DrawsStayApproved'
  BY <1>5 DEF DrawsStayApproved, Limited
<1>7. QED
  BY <1>2, <1>5, <1>6 DEF ApprovalInv

LEMMA ApproveKeepsApprovals ==
  ASSUME ApprovalInv, NEW t \in Tokens, NEW owner \in Addresses, NEW spender \in Addresses,
         NEW amount \in Uint256, ApproveWithHistory(t, owner, spender, amount), TokenInv'
  PROVE  ApprovalInv'
<1> DEFINE next == [given |-> amount, drawn |-> 0]
<1>1. amount \in Nat /\ amount - 0 = amount
  BY AmountAssumption DEF Uint256
<1>2. /\ next \in [given : Uint256, drawn : Nat] /\ next.given = amount /\ next.drawn = 0
      /\ approval' = [approval EXCEPT ![t][owner][spender] = next]
  BY DEF ApproveWithHistory
<1> HIDE DEF next
<1>3. allowance' = [allowance EXCEPT ![t][owner][spender] = next.given - next.drawn]
  BY <1>1, <1>2 DEF ApproveWithHistory, approve
<1>4. next.drawn <= next.given /\ (next.given = MaxUint256 => next.drawn = 0)
  BY <1>1, <1>2
<1>5. QED
  BY <1>2, <1>3, <1>4, ApprovalStep

LEMMA DrawKeepsApprovals ==
  ASSUME ApprovalInv, NEW t \in Tokens, NEW spender \in Addresses, NEW from \in Addresses,
         NEW to \in Addresses, NEW amount \in Uint256,
         DrawWithHistory(t, spender, from, to, amount), TokenInv'
  PROVE  ApprovalInv'
<1> DEFINE a == approval[t][from][spender]
           left == allowance[t][from][spender]
<1>1. /\ a \in [given : Uint256, drawn : Nat] /\ left \in Uint256 /\ amount \in Nat
      /\ left = a.given - a.drawn
      /\ a.given = MaxUint256 => a.drawn = 0
      /\ a.given \in Nat /\ a.given <= MaxUint256 /\ a.drawn \in Nat /\ MaxUint256 \in Nat
  BY AmountAssumption DEF ApprovalInv, DrawsStayApproved, TokenInv, TokenTypeOK, Uint256
<1>2. spendAllowance(t, from, spender, amount)
  BY DEF DrawWithHistory, transferFrom
<1>3. CASE a.given = MaxUint256
  <2>1. left = MaxUint256
    BY <1>1, <1>3
  <2>2. allowance' = allowance /\ approval' = approval
    BY <1>2, <1>3, <2>1 DEF spendAllowance, DrawWithHistory, Limited
  <2>3. QED
    BY <2>2 DEF ApprovalInv, DrawsStayApproved, Limited
<1>4. CASE a.given # MaxUint256
  <2> DEFINE next == [a EXCEPT !.drawn = a.drawn + amount]
  <2>1. left # MaxUint256
    BY <1>1, <1>4
  <2>2. /\ amount <= left
        /\ allowance' = [allowance EXCEPT ![t][from][spender] = left - amount]
    BY <1>2, <2>1 DEF spendAllowance
  <2>3. approval' = [approval EXCEPT ![t][from][spender] = next]
    BY <1>4 DEF DrawWithHistory, Limited
  <2>4. next \in [given : Uint256, drawn : Nat] /\ next.given = a.given
        /\ next.drawn = a.drawn + amount
    BY <1>1
  <2>5. next.given - next.drawn = left - amount /\ next.drawn <= next.given
    <3> HIDE DEF a, left, next
    <3>1. QED
      BY <1>1, <2>2, <2>4
  <2>6. allowance' = [allowance EXCEPT ![t][from][spender] = next.given - next.drawn]
    BY <2>2, <2>5
  <2>7. next.given = MaxUint256 => next.drawn = 0
    BY <1>4, <2>4
  <2> HIDE DEF next
  <2>8. QED
    BY <2>3, <2>4, <2>5, <2>6, <2>7, ApprovalStep
<1>5. QED
  BY <1>3, <1>4

(* However a spender splits its draws and whoever it pays with them, the   *)
(* owner to itself included, it never draws more than was last approved,   *)
(* and the contract's allowance is exactly what is left of that.           *)
THEOREM DrawnWithinApproval == ApprovalSpec => []DrawsStayApproved
<1>1. ApprovalInit => ApprovalInv
  <2> SUFFICES ASSUME ApprovalInit PROVE ApprovalInv
    OBVIOUS
  <2>1. TokenInv
    BY TokenInitInv DEF ApprovalInit
  <2>2. 0 \in Uint256
    BY AmountAssumption DEF Uint256
  <2>3. \A t \in Tokens, owner, spender \in Addresses :
          /\ approval[t][owner][spender] = [given |-> 0, drawn |-> 0]
          /\ allowance[t][owner][spender] = 0
    BY DEF ApprovalInit, TokenInit
  <2>4. approval \in [Tokens -> [Addresses -> [Addresses -> [given : Uint256, drawn : Nat]]]]
    BY <2>2 DEF ApprovalInit
  <2>5. DrawsStayApproved
    BY <2>3 DEF DrawsStayApproved
  <2>6. QED
    BY <2>1, <2>3, <2>4, <2>5 DEF ApprovalInv
<1>2. ApprovalInv /\ [ApprovalNext]_approvalVars => ApprovalInv'
  <2> SUFFICES ASSUME ApprovalInv, [ApprovalNext]_approvalVars PROVE ApprovalInv'
    OBVIOUS
  <2>1. CASE UNCHANGED approvalVars
    BY <2>1 DEF approvalVars, tokenVars, ApprovalInv, TokenInv, TokenTypeOK, Conservation,
                DrawsStayApproved, Limited
  <2>2. CASE ApprovalNext
    <3>1. PICK t \in Tokens, u \in Users, amount \in Amounts :
            \/ \E to \in Recipients :
                 \/ (mint(t, to, amount) \/ transfer(t, u, to, amount)) /\ UNCHANGED approval
                 \/ \E from \in Addresses : DrawWithHistory(t, u, from, to, amount)
            \/ \E spender \in Spenders : ApproveWithHistory(t, u, spender, amount)
      BY <2>2 DEF ApprovalNext
    <3>2. u \in Addresses /\ amount \in Uint256 /\ amount \in Nat
          /\ Recipients \subseteq Addresses /\ Spenders \subseteq Addresses
      BY AmountAssumption DEF Addresses, Uint256
    <3>3. TokenInv'
      <4>1. TokenNext
        BY <3>1 DEF TokenNext, DrawWithHistory, ApproveWithHistory
      <4>2. QED
        BY <4>1, TokenStepInv DEF ApprovalInv
    <3>4. CASE \E to \in Recipients :
                 (mint(t, to, amount) \/ transfer(t, u, to, amount)) /\ UNCHANGED approval
      <4>1. UNCHANGED <<approval, allowance>>
        BY <3>4 DEF mint, transfer
      <4>2. QED
        BY <3>3, <4>1 DEF ApprovalInv, DrawsStayApproved, Limited
    <3>5. ASSUME NEW to \in Recipients, NEW from \in Addresses,
                 DrawWithHistory(t, u, from, to, amount)
          PROVE  ApprovalInv'
      BY <3>2, <3>3, <3>5, DrawKeepsApprovals
    <3>6. ASSUME NEW spender \in Spenders, ApproveWithHistory(t, u, spender, amount)
          PROVE  ApprovalInv'
      BY <3>2, <3>3, <3>6, ApproveKeepsApprovals
    <3>7. QED
      BY <3>1, <3>4, <3>5, <3>6
  <2>3. QED
    BY <2>1, <2>2
<1>3. ApprovalInv => DrawsStayApproved
  BY DEF ApprovalInv
<1>4. QED
  BY <1>1, <1>2, <1>3, PTL DEF ApprovalSpec

(***************************************************************************)
(* The keeper.                                                             *)
(*                                                                         *)
(* KeeperHub around the escrow, for any deals, wallets and schedules: a    *)
(* test made before a transaction is still true when it is mined, and what *)
(* a caller was told of its run stays true.  Nothing here depends on how   *)
(* often the workflows run, so the drops and the polls are any number.     *)
(***************************************************************************)
(* Every key names its own run, and a caller that still polls has rounds   *)
(* left.                                                                   *)
RunsTypeOK ==
  /\ runs \in [Jobs -> [of : Jobs,
                        at : {"none", "queued", "sent", "mined", "reverted", "failed"}]]
  /\ \A job \in Jobs : runs[job].of = job

WaiterTypeOK ==
  /\ waiter \in [job : Jobs, polls : 0 .. MaxPolls,
                 pc : {"idle", "polling", "tx", "failed", "timeout", "raised"}]
  /\ waiter.pc = "polling" => waiter.polls < MaxPolls

KeeperInv ==
  /\ Inv
  /\ pending \subseteq Jobs /\ drops \in 0 .. MaxDrops
  /\ RunsTypeOK /\ WaiterTypeOK
  /\ ChecksStayTrue
  /\ TruthOfWait

LEMMA KeeperInitEscrow == KeeperInit => Inv
<1>1. Funds \in Uint256
  BY KeeperAssumption, AmountAssumption DEF Uint256
<1>2. QED
  BY <1>1, KeeperAssumption, FundedStartInv DEF KeeperInit

LEMMA RefundAndReleaseAreJobs ==
  ASSUME NEW job \in Jobs
  PROVE  /\ job[1] \in Workflows /\ job[2] \in RfqIds
         /\ Key(job) = job
BY DEF Jobs, Key

(* A workflow's transaction is the contract's own keeper step, and nothing *)
(* else the hub does touches the chain.                                    *)
LEMMA KeeperStepIsStep ==
  KeeperInv /\ [KeeperNext]_keeperVars => [Next]_vars
<1> SUFFICES ASSUME KeeperInv, [KeeperNext]_keeperVars PROVE [Next]_vars
  OBVIOUS
<1>1. ASSUME NEW job \in Jobs, settle(job) PROVE Next
  BY <1>1, RefundAndReleaseAreJobs DEF settle, Next, KeeperStep
<1>2. ASSUME NEW job \in Jobs, MineScheduled(job) PROVE [Next]_vars
  BY <1>1, <1>2 DEF MineScheduled
<1>3. ASSUME NEW key \in DOMAIN runs, MineRun(key) PROVE [Next]_vars
  <2>1. runs[key].of \in Jobs
    BY <1>3 DEF KeeperInv, RunsTypeOK
  <2>2. QED
    BY <1>1, <1>3, <2>1 DEF MineRun
<1>4. CASE ChainStep
  BY <1>4 DEF ChainStep, PartyStep, Next
<1>5. QED
  BY <1>2, <1>3, <1>4
  DEF KeeperNext, Scan, DropScheduled, trigger_workflow, SendRun, StartWait,
      wait_for_tx, keeperVars
---------------------------------------------------------------------------
(* A condition, once true, stays true until the deal is settled that way:  *)
(* the deadline tests of the parties' calls are the exact complements of   *)
(* the workflows' (AgentBazaarEscrow.sol:98, :120, :130, :139).            *)
Stands(job) ==
  \/ Condition(job)
  \/ deals[job[2]].state = IF job[1] = "release" THEN "RELEASED" ELSE "REFUNDED"

Ready(job) ==
  LET d == deals[job[2]] IN
  \/ job[1] = "release" /\ d.state = "DELIVERED" /\ now > d.disputeDeadline
  \/ job[1] = "refund" /\ d.state = "LOCKED" /\ now > d.deliveryDeadline
  \/ job[1] = "release" /\ d.state = "RELEASED"
  \/ job[1] = "refund" /\ d.state = "REFUNDED"

LEMMA StandsIsReady ==
  ASSUME NEW job \in Jobs
  PROVE  (Stands(job) <=> Ready(job)) /\ (Stands(job)' <=> Ready(job)')
<1>1. CASE job[1] = "release"
  BY <1>1 DEF Stands, Condition, Ready
<1>2. CASE job[1] = "refund"
  BY <1>2 DEF Stands, Condition, Ready
<1>3. QED
  BY <1>1, <1>2, RefundAndReleaseAreJobs DEF Workflows

LEMMA ConditionStands ==
  ASSUME Inv, [Next]_vars, NEW job \in Jobs, Stands(job)
  PROVE  Stands(job)'
<1> SUFFICES Ready(job)'
  BY StandsIsReady
<1>0. Ready(job)
  BY StandsIsReady
<1> DEFINE r == job[2]
<1>1. /\ r \in RfqIds /\ job[1] \in {"release", "refund"}
      /\ deals \in [RfqIds -> Deal] /\ now \in Nat /\ deals[r] \in Deal
      /\ deals[r].disputeDeadline \in Nat /\ deals[r].deliveryDeadline \in Nat
  <2>1. r \in RfqIds /\ job[1] \in {"release", "refund"}
    BY RefundAndReleaseAreJobs DEF Workflows
  <2>2. TypeOK /\ deals[r] \in Deal
    BY <2>1 DEF Inv, TypeOK
  <2>3. QED
    BY <2>1, <2>2, TimestampIsUint64, TimeAssumption DEF TypeOK, Deal, Uint64
<1>2. deals[r].state # "OPEN"
  BY <1>0 DEF Ready
<1>3. CASE deals'[r] = deals[r] /\ now' >= now
  <2>1. now' \in Nat /\ now \in Nat
    <3>1. Inv'
      BY NextKeepsInv
    <3>2. QED
      BY <1>1, <3>1, TimeAssumption DEF Inv, TypeOK
  <2>2. QED
    BY <1>0, <1>1, <1>3, <2>1 DEF Ready
<1>4. CASE LockStep
  <2>1. PICK u \in Users, q \in RfqIds, seller \in Recipients, amount \in Amounts,
             t \in Tokens, w1 \in DeliveryWindows, w2 \in DisputeWindows :
               lockFunds(u, q, seller, amount, t, w1, w2)
    BY <1>4 DEF LockStep
  <2>2. deals[q].state = "OPEN" /\ \A p \in RfqIds \ {q} : deals'[p] = deals[p]
    BY <2>1, LockEffect
  <2>3. UNCHANGED now
    BY <2>1 DEF lockFunds
  <2>4. QED
    BY <1>1, <1>2, <1>3, <2>2, <2>3
<1>5. ASSUME NEW q \in RfqIds, q # r, BuyerStep(q) \/ SellerStep(q) \/ KeeperStep(q)
      PROVE  Ready(job)'
  <2>1. UNCHANGED now
    BY <1>5 DEF BuyerStep, SellerStep, KeeperStep, releaseFunds, raiseDispute,
                confirmDelivery, optimisticRelease, claimRefund, release
  <2>2. QED
    BY <1>1, <1>3, <1>5, <2>1, DealStepEffect
<1>6. ASSUME NEW u \in Users, releaseFunds(u, r) PROVE Ready(job)'
  BY <1>0, <1>1, <1>6 DEF releaseFunds, release, Ready, Deal
<1>7. ASSUME NEW u \in Users, raiseDispute(u, r) PROVE Ready(job)'
  BY <1>0, <1>1, <1>7 DEF raiseDispute, Ready
<1>8. ASSUME NEW u \in Users, NEW h \in Hashes, confirmDelivery(u, r, h)
      PROVE  Ready(job)'
  BY <1>0, <1>1, <1>8 DEF confirmDelivery, Ready
<1>9. CASE optimisticRelease(r)
  BY <1>0, <1>1, <1>9 DEF optimisticRelease, release, Ready, Deal
<1>10. CASE claimRefund(r)
  BY <1>0, <1>1, <1>10 DEF claimRefund, Ready, Deal
<1>11. CASE TokenStep
  BY <1>1, <1>3, <1>11 DEF TokenStep
<1>12. CASE Tick
  BY <1>1, <1>3, <1>12 DEF Tick
<1>13. CASE UNCHANGED vars
  BY <1>1, <1>3, <1>13 DEF vars
<1>14. QED
  BY <1>4, <1>5, <1>6, <1>7, <1>8, <1>9, <1>10, <1>11, <1>12, <1>13
  DEF Next, BuyerStep, SellerStep, KeeperStep
---------------------------------------------------------------------------
LEMMA KeeperInitInv == KeeperInit => KeeperInv
<1> SUFFICES ASSUME KeeperInit PROVE KeeperInv
  OBVIOUS
<1>1. {Key(job) : job \in Jobs} = Jobs
  BY DEF Key
<1>2. \A k \in Jobs : (CHOOSE job \in Jobs : Key(job) = k) = k
  BY DEF Key
<1>3. RunsTypeOK
  BY <1>1, <1>2 DEF KeeperInit, RunsTypeOK
<1>4. WaiterTypeOK /\ TruthOfWait
  BY KeeperAssumption DEF KeeperInit, WaiterTypeOK, TruthOfWait
<1>5. pending = {} /\ drops \in 0 .. MaxDrops
  BY KeeperAssumption DEF KeeperInit
<1>6. QED
  BY <1>3, <1>4, <1>5, KeeperInitEscrow DEF KeeperInv, ChecksStayTrue

(* One step of the hub's own state at a time.                              *)
LEMMA PendingKept ==
  ASSUME KeeperInv, [KeeperNext]_keeperVars
  PROVE  /\ pending' \subseteq Jobs /\ drops' \in 0 .. MaxDrops
         /\ ChecksStayTrue'
<1>1. /\ pending' \subseteq Jobs /\ drops' \in 0 .. MaxDrops
      /\ \A job \in pending' : job \in pending \/ (Condition(job) /\ UNCHANGED vars)
  <2>1. ASSUME NEW job \in Jobs,
               Scan(job) \/ MineScheduled(job) \/ DropScheduled(job) \/ trigger_workflow(job)
        PROVE  /\ pending' \subseteq Jobs /\ drops' \in 0 .. MaxDrops
               /\ \A j \in pending' : j \in pending \/ (Condition(j) /\ UNCHANGED vars)
    BY <2>1, KeeperAssumption
    DEF Scan, MineScheduled, DropScheduled, trigger_workflow, KeeperInv
  <2>2. CASE UNCHANGED <<pending, drops>>
    BY <2>2 DEF KeeperInv
  <2>3. QED
    BY <2>1, <2>2 DEF KeeperNext, SendRun, MineRun, StartWait, wait_for_tx, ChainStep,
                      hubVars, keeperVars
<1>2. ASSUME NEW job \in pending' PROVE Stands(job)'
  <2>1. Stands(job)
    BY <1>1, <1>2 DEF KeeperInv, ChecksStayTrue, Stands
  <2>2. Inv /\ [Next]_vars
    BY KeeperStepIsStep DEF KeeperInv
  <2>3. QED
    BY <1>1, <1>2, <2>1, <2>2, ConditionStands
<1>3. ChecksStayTrue'
  BY <1>2 DEF ChecksStayTrue, Stands
<1>4. QED
  BY <1>1, <1>3

(* A run only moves on, under its own key.                                 *)
LEMMA RunsMoveOn ==
  ASSUME KeeperInv, [KeeperNext]_keeperVars
  PROVE  /\ RunsTypeOK'
         /\ \A job \in Jobs : Answer(runs[job]) # "polling" =>
              Answer(runs'[job]) = Answer(runs[job])
<1> DEFINE Moves == /\ RunsTypeOK'
                    /\ \A job \in Jobs : Answer(runs[job]) # "polling" =>
                         Answer(runs'[job]) = Answer(runs[job])
<1>1. RunsTypeOK /\ DOMAIN runs = Jobs
  BY DEF KeeperInv, RunsTypeOK
<1>2. CASE UNCHANGED runs
  BY <1>1, <1>2 DEF RunsTypeOK
<1>3. ASSUME NEW job \in Jobs, trigger_workflow(job) PROVE Moves
  BY <1>1, <1>3 DEF trigger_workflow, Key, RunsTypeOK, Answer
<1>4. ASSUME NEW key \in Jobs, SendRun(key) PROVE Moves
  BY <1>1, <1>4 DEF SendRun, RunsTypeOK, Answer
<1>5. ASSUME NEW key \in Jobs, MineRun(key) PROVE Moves
  BY <1>1, <1>5 DEF MineRun, RunsTypeOK, Answer
<1>6. QED
  BY <1>1, <1>2, <1>3, <1>4, <1>5
  DEF KeeperNext, Scan, MineScheduled, DropScheduled, StartWait, wait_for_tx,
      ChainStep, hubVars, keeperVars

LEMMA WaitsStayTrue ==
  ASSUME KeeperInv, [KeeperNext]_keeperVars
  PROVE  WaiterTypeOK' /\ TruthOfWait'
<1>1. RunsTypeOK /\ RunsTypeOK' /\ WaiterTypeOK /\ TruthOfWait
  BY RunsMoveOn DEF KeeperInv
<1>2. /\ waiter.job \in Jobs /\ Key(waiter.job) = waiter.job
      /\ runs[waiter.job] \in [of : Jobs, at : {"none", "queued", "sent", "mined",
                                                "reverted", "failed"}]
  BY <1>1 DEF WaiterTypeOK, RunsTypeOK, Key
<1>3. CASE UNCHANGED waiter
  <2>1. waiter.pc \in {"tx", "failed"} => Answer(runs'[waiter.job]) = waiter.pc
    BY <1>1, <1>2, RunsMoveOn DEF TruthOfWait
  <2>2. QED
    BY <1>1, <1>2, <1>3, <2>1 DEF WaiterTypeOK, TruthOfWait, RunsTypeOK, Key
<1>4. CASE StartWait
  <2>1. waiter' = [waiter EXCEPT !.pc = "polling", !.polls = 0]
    BY <1>4 DEF StartWait
  <2>2. 0 \in 0 .. MaxPolls /\ 0 < MaxPolls
    BY KeeperAssumption
  <2>3. WaiterTypeOK' /\ waiter'.pc = "polling"
    BY <1>1, <2>1, <2>2 DEF WaiterTypeOK
  <2>4. QED
    BY <2>3 DEF TruthOfWait
<1>5. CASE wait_for_tx
  <2> DEFINE answer == Answer(runs[waiter.job])
  <2>1. answer \in {"tx", "failed", "polling"}
    BY <1>2 DEF Answer
  <2>2. UNCHANGED runs /\ waiter.pc = "polling"
    BY <1>5 DEF wait_for_tx
  <2>3. CASE answer # "polling" /\ waiter' = [waiter EXCEPT !.pc = answer]
    BY <1>1, <1>2, <2>1, <2>2, <2>3 DEF WaiterTypeOK, TruthOfWait, RunsTypeOK, Key
  <2>4. CASE waiter' = [waiter EXCEPT !.polls = @ + 1,
                          !.pc = IF waiter.polls + 1 < MaxPolls THEN @ ELSE "timeout"]
    <3>1. waiter.polls + 1 \in 0 .. MaxPolls
      BY <1>1, <2>2, KeeperAssumption DEF WaiterTypeOK
    <3>2. QED
      BY <1>1, <2>2, <2>4, <3>1 DEF WaiterTypeOK, TruthOfWait
  <2>5. CASE waiter' = [waiter EXCEPT !.pc = "raised"]
    BY <1>1, <2>5 DEF WaiterTypeOK, TruthOfWait
  <2>6. QED
    BY <1>2, <1>5, <2>3, <2>4, <2>5 DEF wait_for_tx
<1>6. QED
  BY <1>3, <1>4, <1>5
  DEF KeeperNext, Scan, MineScheduled, DropScheduled, trigger_workflow, SendRun,
      MineRun, ChainStep, hubVars, keeperVars

LEMMA KeeperInvariant == KeeperSpec => []KeeperInv
<1>1. KeeperInv /\ [KeeperNext]_keeperVars => KeeperInv'
  <2> SUFFICES ASSUME KeeperInv, [KeeperNext]_keeperVars PROVE KeeperInv'
    OBVIOUS
  <2>1. Inv'
    BY KeeperStepIsStep, NextKeepsInv DEF KeeperInv
  <2>2. QED
    BY <2>1, PendingKept, RunsMoveOn, WaitsStayTrue DEF KeeperInv
<1>2. QED
  BY <1>1, KeeperInitInv, PTL DEF KeeperSpec

(* The chain and the hub's own records stay in their types, the rounds of  *)
(* wait_for_tx within timeout_secs / poll_interval_secs.                   *)
THEOREM KeeperTypeCorrect == KeeperSpec => []KeeperTypeOK
<1>1. ASSUME KeeperInv PROVE KeeperTypeOK
  BY <1>1 DEF KeeperInv, KeeperTypeOK, Inv, RunsTypeOK, WaiterTypeOK, Key
<1>2. KeeperInv => KeeperTypeOK
  BY <1>1
<1>3. QED
  BY <1>2, KeeperInvariant, PTL

(* A scheduled transaction does what it was sent for, or that has been     *)
(* done already, however long it takes to be mined and whoever acts        *)
(* meanwhile.                                                              *)
THEOREM ScheduledChecksStand == KeeperSpec => []ChecksStayTrue
<1>1. KeeperInv => ChecksStayTrue
  BY DEF KeeperInv
<1>2. QED
  BY <1>1, KeeperInvariant, PTL

(* What wait_for_tx told a caller stays true of the run it fired, for any  *)
(* number of runs and of webhooks fired again.                             *)
THEOREM WaitsAreTrue == KeeperSpec => []TruthOfWait
<1>1. KeeperInv => TruthOfWait
  BY DEF KeeperInv
<1>2. QED
  BY <1>1, KeeperInvariant, PTL

(* Whatever the hub does to the chain is a step of the contract: the       *)
(* safety half of KeeperIsFair.                                            *)
THEOREM KeeperIsWithinContract == KeeperSpec => [][Next]_vars
<1>1. QED
  BY KeeperStepIsStep, KeeperInvariant, PTL DEF KeeperSpec
============================================================================
