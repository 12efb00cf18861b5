--------------------------- MODULE EscrowHistory ---------------------------
(***************************************************************************)
(* AgentBazaarEscrow with a history variable, and the mapping under which  *)
(* it implements EscrowPromise.  The history keeps what the contract       *)
(* forgets or never stores: the dispute window once disputeDeadline has    *)
(* been overwritten, the moment of delivery, and the senders of the        *)
(* transactions that delivered and that ended a deal.                      *)
(***************************************************************************)
EXTENDS AgentBazaarEscrow

VARIABLE history  \* rfq id -> [window, deliveredAt, deliveredBy, endedBy]

historyVars == <<vars, history>>

NoHistory == [window |-> 0, deliveredAt |-> 0,
              deliveredBy |-> ZeroAddress, endedBy |-> ZeroAddress]

HistoryInit == Init /\ history = [r \in RfqIds |-> NoHistory]

LockWithHistory(r) ==
  \E u \in Users, seller \in Recipients, amount \in Amounts,
     t \in Tokens, w1 \in DeliveryWindows, w2 \in DisputeWindows :
    /\ lockFunds(u, r, seller, amount, t, w1, w2)
    /\ history' = [history EXCEPT ![r].window = w2]

DeliverWithHistory(r) ==
  \E u \in Users, h \in Hashes :
    /\ confirmDelivery(u, r, h)
    /\ history' = [history EXCEPT ![r].deliveredAt = now, ![r].deliveredBy = u]

EndWithHistory(r) ==
  \/ \E u \in Users :
       /\ releaseFunds(u, r) \/ raiseDispute(u, r)
       /\ history' = [history EXCEPT ![r].endedBy = u]
  \/ KeeperStep(r) /\ UNCHANGED history

HistoryNext ==
  \/ \E r \in RfqIds :
       LockWithHistory(r) \/ DeliverWithHistory(r) \/ EndWithHistory(r)
  \/ (TokenStep \/ Tick) /\ UNCHANGED history

HistorySpec == HistoryInit /\ [][HistoryNext]_historyVars
---------------------------------------------------------------------------
(* The mapping.  A deal's purse is its amount while it is in custody; what *)
(* the contract holds beyond what it owes is a gift to the pool.           *)
StatusOf(state) ==
  CASE state = "OPEN" -> "none"
    [] state = "LOCKED" -> "locked"
    [] state = "DELIVERED" -> "delivered"
    [] state = "RELEASED" -> "paid"
    [] state = "DISPUTED" -> "disputed"
    [] state = "REFUNDED" -> "refunded"

statusBar == [r \in RfqIds |-> StatusOf(deals[r].state)]

termsBar ==
  [r \in RfqIds |->
    [buyer |-> deals[r].buyer, seller |-> deals[r].seller,
     amount |-> deals[r].amount, token |-> deals[r].token,
     deliverBy |-> deals[r].deliveryDeadline, window |-> history[r].window]]

recordBar ==
  [r \in RfqIds |->
    [deliveredBy |-> history[r].deliveredBy,
     deliveredAt |-> history[r].deliveredAt, endedBy |-> history[r].endedBy]]

purseBar ==
  [r \in RfqIds |->
    IF \E t \in Tokens : InCustody(r, t) THEN deals[r].amount ELSE 0]

freeBar ==
  [t \in Tokens |->
    [a \in Addresses |-> IF a = Escrow THEN balanceOf[t][a] - Owed(t)
                                       ELSE balanceOf[t][a]]]

Promise == INSTANCE EscrowPromise WITH
  Pool <- Escrow, Nobody <- ZeroAddress, clock <- now, status <- statusBar,
  terms <- termsBar, record <- recordBar, purse <- purseBar, free <- freeBar

(* The contract keeps the promise: the pooled balance is as good as a      *)
(* purse per deal, only the seller delivers and only in time, the seller   *)
(* is paid only by the buyer's word or after the whole agreed window has   *)
(* passed since the delivery, and the buyer gets back only what was never  *)
(* delivered.                                                              *)
KeepsThePromise == Promise!PromiseSpec

(* The one field that is a window before delivery and a deadline after it  *)
(* never loses the agreed window.                                          *)
WindowSurvivesTheField ==
  \A r \in RfqIds :
    deals[r].disputeDeadline =
      IF history[r].deliveredBy = ZeroAddress
      THEN history[r].window
      ELSE history[r].deliveredAt + history[r].window

(* Until the agreed window after the delivery is over, a delivered deal is *)
(* ended by a transaction of its buyer only: the keeper's release cannot   *)
(* cut the window short, not at its last second either.                    *)
BuyerRulesTheDisputeWindow ==
  [][\A r \in RfqIds :
       /\ deals[r].state = "DELIVERED" /\ deals'[r].state # "DELIVERED"
       /\ now <= history[r].deliveredAt + history[r].window
       => history'[r].endedBy = deals[r].buyer]_historyVars
===========================================================================
