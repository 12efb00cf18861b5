--------------------------- MODULE EscrowPromise ---------------------------
(***************************************************************************)
(* What the escrow promises to a buyer and a seller, with no contract, no  *)
(* token ledger and no overloaded field: every deal has a purse of its     *)
(* own, the agreed window and the moment of delivery are on record, and so *)
(* is who delivered and who ended the deal.  AgentBazaarEscrow implements  *)
(* it with one pooled balance and one field that is first a window and     *)
(* then a deadline (EscrowHistory).                                        *)
(***************************************************************************)
EXTENDS Integers

CONSTANTS RfqIds, Tokens, Addresses,
          Pool,    \* the contract's own address: what is free there is a gift
          Nobody   \* the name on a deal nobody has delivered or ended

VARIABLES clock,
          status,  \* rfq id -> stage of the deal
          terms,   \* rfq id -> what was agreed at the start
          record,  \* rfq id -> who delivered, when, and who ended the deal
          purse,   \* rfq id -> tokens set aside for the deal
          free     \* token -> address -> tokens at the address's disposal

promiseVars == <<clock, status, terms, record, purse, free>>

Terms == [buyer : Addresses, seller : Addresses, amount : Nat, token : Tokens,
          deliverBy : Nat, window : Nat]

NoTerms == [buyer |-> Nobody, seller |-> Nobody, amount |-> 0, token |-> Nobody,
            deliverBy |-> 0, window |-> 0]

NoRecord == [deliveredBy |-> Nobody, deliveredAt |-> 0, endedBy |-> Nobody]

PromiseInit ==
  /\ clock = 0
  /\ status = [r \in RfqIds |-> "none"]
  /\ terms = [r \in RfqIds |-> NoTerms]
  /\ record = [r \in RfqIds |-> NoRecord]
  /\ purse = [r \in RfqIds |-> 0]
  /\ free = [t \in Tokens |-> [a \in Addresses |-> 0]]
---------------------------------------------------------------------------
(* The buyer sets the amount aside; there is no second start for an id.    *)
Agree(r) ==
  LET agreed == terms'[r] IN
  /\ status[r] = "none"
  /\ agreed \in Terms
  /\ agreed.amount > 0
  /\ agreed.amount <= free[agreed.token][agreed.buyer]
  /\ agreed.deliverBy >= clock
  /\ status' = [status EXCEPT ![r] = "locked"]
  /\ terms' = [terms EXCEPT ![r] = agreed]
  /\ purse' = [purse EXCEPT ![r] = agreed.amount]
  /\ free' = [free EXCEPT ![agreed.token][agreed.buyer] = @ - agreed.amount]
  /\ UNCHANGED <<clock, record>>

(* Only the seller can deliver, and only in time.                          *)
Deliver(r) ==
  /\ status[r] = "locked"
  /\ clock <= terms[r].deliverBy
  /\ status' = [status EXCEPT ![r] = "delivered"]
  /\ record' = [record EXCEPT ![r].deliveredBy = terms[r].seller,
                              ![r].deliveredAt = clock]
  /\ UNCHANGED <<clock, terms, purse, free>>

(* The deal's own purse, all of it, goes to one party.                     *)
PayOut(r, payee) ==
  /\ purse' = [purse EXCEPT ![r] = 0]
  /\ free' = [free EXCEPT ![terms[r].token][payee] = @ + purse[r]]
  /\ UNCHANGED <<clock, terms>>

WindowOver(r) == clock > record[r].deliveredAt + terms[r].window

Accept(r) ==
  /\ status[r] = "delivered"
  /\ status' = [status EXCEPT ![r] = "paid"]
  /\ record' = [record EXCEPT ![r].endedBy = terms[r].buyer]
  /\ PayOut(r, terms[r].seller)

SilenceIsConsent(r) ==
  /\ status[r] = "delivered"
  /\ WindowOver(r)
  /\ status' = [status EXCEPT ![r] = "paid"]
  /\ PayOut(r, terms[r].seller)
  /\ UNCHANGED record

Reject(r) ==
  /\ status[r] = "delivered"
  /\ ~WindowOver(r)
  /\ status' = [status EXCEPT ![r] = "disputed"]
  /\ record' = [record EXCEPT ![r].endedBy = terms[r].buyer]
  /\ UNCHANGED <<clock, terms, purse, free>>

MoneyBack(r) ==
  /\ status[r] = "locked"
  /\ clock > terms[r].deliverBy
  /\ status' = [status EXCEPT ![r] = "refunded"]
  /\ PayOut(r, terms[r].buyer)
  /\ UNCHANGED record

(* Outside the deals tokens move as they like, but never out of the pool.  *)
TokensMove ==
  /\ \A t \in Tokens : free'[t][Pool] >= free[t][Pool]
  /\ UNCHANGED <<clock, status, terms, record, purse>>

TimePasses ==
  /\ clock' > clock
  /\ UNCHANGED <<status, terms, record, purse, free>>

PromiseNext ==
  \/ \E r \in RfqIds : \/ Agree(r) \/ Deliver(r) \/ Accept(r)
                       \/ SilenceIsConsent(r) \/ Reject(r) \/ MoneyBack(r)
  \/ TokensMove
  \/ TimePasses

PromiseSpec == PromiseInit /\ [][PromiseNext]_promiseVars
===========================================================================
