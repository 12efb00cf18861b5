------------------------------- MODULE Trade -------------------------------
(***************************************************************************)
(* One trade from RFQ to feedback: agents/buyer_agent.py (run_one_trade),  *)
(* agents/seller_agent.py (run_forever), the AXL network between them, the *)
(* KeeperHub workflows, and the chain with the escrow contract.            *)
(*                                                                         *)
(* A coroutine runs from one await to the next in one step.  A transaction *)
(* is first simulated on the chain as it is (build_transaction estimates   *)
(* gas and raises if the call would revert), then broadcast, and mined at  *)
(* some later moment on the chain as it is then.  An account has one       *)
(* pending transaction at most, because its nonce is read from the mined   *)
(* chain: a second one collides with the first.                            *)
(***************************************************************************)
EXTENDS AgentBazaarEscrow

CONSTANTS BuyerAgent, SellerAgent,  \* the agents' own wallets
          KeeperWallet,   \* KEEPERHUB_BUYER_WALLET_ID: signs the lock workflow
                          \* (may be the buyer agent's own wallet)
          Rfq, USDC,
          Price,          \* the quoted price
          DeliveryWindow, DisputeWindow,  \* the windows fire_lock asks for
          LockAttempts,   \* KeeperHub's retry policy of the lock workflow
          Triggers,       \* bound: locked triggers the buyer's side sends
          MaxFaults       \* bound: messages lost and calls that raise

ASSUME TradeAssumption ==
  /\ {BuyerAgent, SellerAgent, KeeperWallet} \subseteq Users
  /\ SellerAgent # KeeperWallet
  /\ Rfq \in RfqIds /\ USDC \in Tokens
  /\ Price \in Nat \ {0} /\ 2 * Price < MaxUint256
  /\ DeliveryWindow \in Uint64 /\ DisputeWindow \in Uint64
  /\ LockAttempts \in Nat /\ Triggers \in Nat /\ MaxFaults \in Nat

VARIABLES
  buyer,     \* [pc, quoted, accepted]: run_one_trade, its quote and its delivery
  seller,    \* [pc, result]: the handler that runs, and the hash of its result
  produced,  \* hashes of the results the seller's task runs have returned
  net,       \* messages in flight
  attempts,  \* lock attempts left to KeeperHub
  triggers,  \* locked triggers still to be sent
  mempool,   \* account -> its broadcast, unmined transaction
  rated,     \* feedbacks for the seller in the reputation registry
  faults     \* faults so far

agentVars == <<buyer, seller, produced, net, attempts, triggers, mempool, rated, faults>>
tradeVars == <<vars, agentVars>>

NoTx == [call |-> "none", hash |-> NoHash]
Tx == [call : {"none", "lockFunds", "confirmDelivery", "releaseFunds", "submitFeedback"},
       hash : Hashes \cup {NoHash}]

(* A delivery names its content by the hash of the content; the signature  *)
(* is the seller's.                                                        *)
Message == [kind : {"rfq", "quote", "locked"}] \cup [kind : {"delivery"}, hash : Hashes]
rfqMsg == [kind |-> "rfq"]
quoteMsg == [kind |-> "quote"]
lockedMsg == [kind |-> "locked"]
deliveryMsg(h) == [kind |-> "delivery", hash |-> h]

TradeTypeOK ==
  /\ TypeOK
  /\ buyer \in [pc : {"start", "collecting", "quoting", "locking", "awaiting", "releasing",
                      "rating", "done", "failed"},
                quoted : BOOLEAN, accepted : Hashes \cup {NoHash}]
  /\ seller \in [pc : {"idle", "working", "confirming", "sending"},
                 result : Hashes \cup {NoHash}]
  /\ produced \subseteq Hashes
  /\ net \subseteq Message
  /\ attempts \in 0 .. LockAttempts
  /\ triggers \in 0 .. Triggers
  /\ mempool \in [Users -> Tx]
  /\ rated \in Nat
  /\ faults \in 0 .. MaxFaults

(* The keeper's wallet is minted twice the price and approves the escrow   *)
(* for all of it, as prepare_testnet_funds.sh does.                        *)
Funds == 2 * Price

TradeInit ==
  /\ totalSupply = [t \in Tokens |-> IF t = USDC THEN Funds ELSE 0]
  /\ balanceOf = [t \in Tokens |-> [a \in Addresses |->
                    IF t = USDC /\ a = KeeperWallet THEN Funds ELSE 0]]
  /\ allowance = [t \in Tokens |-> [a \in Addresses |-> [b \in Addresses |->
                    IF t = USDC /\ a = KeeperWallet /\ b = Escrow
                    THEN Funds ELSE 0]]]
  /\ deals = [r \in RfqIds |-> EmptyDeal]
  /\ now = 0
  /\ buyer = [pc |-> "start", quoted |-> FALSE, accepted |-> NoHash]
  /\ seller = [pc |-> "idle", result |-> NoHash]
  /\ produced = {}
  /\ net = {}
  /\ attempts = 0
  /\ triggers = Triggers
  /\ mempool = [u \in Users |-> NoTx]
  /\ rated = 0
  /\ faults = 0
---------------------------------------------------------------------------
(* Faults: a lost message, an exception at an await, a crash.              *)
Fault == faults < MaxFaults /\ faults' = faults + 1
NoFault == UNCHANGED faults

(* What mining a transaction does.  One that would revert changes nothing. *)
(* A feedback is for a registered seller and in range, and never reverts.  *)
execute(u, tx) ==
  \/ /\ \/ /\ tx.call = "lockFunds"
           /\ lockFunds(u, Rfq, SellerAgent, Price, USDC, DeliveryWindow, DisputeWindow)
        \/ tx.call = "confirmDelivery" /\ confirmDelivery(u, Rfq, tx.hash)
        \/ tx.call = "releaseFunds" /\ releaseFunds(u, Rfq)
     /\ UNCHANGED rated
  \/ tx.call = "submitFeedback" /\ rated' = rated + 1 /\ UNCHANGED vars

(* The simulation.  That a commitment needs a locked deal follows from the *)
(* second conjunct; it is spelt out for the proofs, which cannot look into *)
(* ENABLED.                                                                *)
Succeeds(u, tx) ==
  /\ tx.call = "confirmDelivery" => deals[Rfq].state = "LOCKED"
  /\ ENABLED execute(u, tx)

Mine(u) ==
  LET tx == mempool[u] IN
  /\ tx # NoTx
  /\ \/ execute(u, tx)
     \/ ~Succeeds(u, tx) /\ UNCHANGED <<vars, rated>>
  /\ mempool' = [mempool EXCEPT ![u] = NoTx]
  /\ UNCHANGED <<buyer, seller, produced, net, attempts, triggers, faults>>

(* EscrowClient._send, Erc8004Client._send: simulate, sign, broadcast.  A   *)
(* pending transaction of the same nonce is replaced, or the node refuses  *)
(* the new one and send_raw_transaction raises.                            *)
broadcast(u, tx) == mempool' = [mempool EXCEPT ![u] = tx]
Refused(u) == mempool[u] # NoTx
Raises(u, tx) == ~Succeeds(u, tx) \/ Refused(u)
---------------------------------------------------------------------------
(* The buyer.  A step that raises ends run_one_trade; so does a crash.     *)
goto(pc) == buyer' = [buyer EXCEPT !.pc = pc]

(* AxlClient.broadcast: a failed send to a peer is logged, a failed        *)
(* topology() raises, and before discovery there is no peer to send to.    *)
BroadcastRfq ==
  /\ buyer.pc = "start"
  /\ \/ net' = net \cup {rfqMsg} /\ goto("collecting") /\ NoFault
     \/ net' = net /\ \E pc \in {"collecting", "failed"} : goto(pc) /\ Fault
  /\ UNCHANGED <<vars, seller, produced, attempts, triggers, mempool, rated>>

CollectQuote ==
  /\ buyer.pc = "collecting"
  /\ quoteMsg \in net
  /\ net' = net \ {quoteMsg}
  /\ buyer' = [buyer EXCEPT !.quoted = TRUE]
  /\ UNCHANGED <<vars, seller, produced, attempts, triggers, mempool, rated, faults>>

(* The collection window ends; no quote means RuntimeError.                *)
SelectBest ==
  /\ buyer.pc = "collecting"
  /\ goto(IF buyer.quoted THEN "quoting" ELSE "failed")
  /\ UNCHANGED <<vars, seller, produced, net, attempts, triggers, mempool, rated, faults>>

(* The Uniswap quote comes before the lock: what it raises costs nothing.  *)
UniswapQuote ==
  /\ buyer.pc = "quoting"
  /\ \/ goto("locking") /\ NoFault
     \/ goto("failed") /\ Fault
  /\ UNCHANGED <<vars, seller, produced, net, attempts, triggers, mempool, rated>>

(* fire_lock: the webhook starts the workflow; a call that raises, or a    *)
(* reply without a reference, may have started it all the same.            *)
FireLock ==
  /\ buyer.pc = "locking"
  /\ \/ attempts' = LockAttempts /\ goto("awaiting") /\ NoFault
     \/ attempts' \in {attempts, LockAttempts} /\ goto("failed") /\ Fault
  /\ UNCHANGED <<vars, seller, produced, net, triggers, mempool, rated>>

(* A delivery of this rfq, signed by the seller, whose content hashes to   *)
(* the result_hash it carries itself.                                      *)
AcceptDelivery ==
  /\ buyer.pc = "awaiting"
  /\ \E h \in Hashes :
       /\ deliveryMsg(h) \in net
       /\ net' = net \ {deliveryMsg(h)}
       /\ buyer' = [buyer EXCEPT !.pc = "releasing", !.accepted = h]
  /\ UNCHANGED <<vars, seller, produced, attempts, triggers, mempool, rated, faults>>

(* The release workflow may act before the reply arrives or not at all     *)
(* (KeeperStep).  Only a reply without any reference falls back to         *)
(* releaseFunds from the agent's own wallet.                               *)
Release ==
  LET tx == [call |-> "releaseFunds", hash |-> NoHash] IN
  /\ buyer.pc = "releasing"
  /\ \/ goto("rating") /\ UNCHANGED mempool /\ NoFault
     \/ /\ Fault
        /\ \/ Succeeds(BuyerAgent, tx) /\ broadcast(BuyerAgent, tx) /\ goto("rating")
           \/ Raises(BuyerAgent, tx) /\ goto("failed") /\ UNCHANGED mempool
  /\ UNCHANGED <<vars, seller, produced, net, attempts, triggers, rated>>

(* _submit_feedback, which does not wait for the release to be mined; it   *)
(* is skipped when the registries or the seller's id are not there.        *)
SubmitFeedback ==
  LET tx == [call |-> "submitFeedback", hash |-> NoHash] IN
  /\ buyer.pc = "rating"
  /\ \/ goto("done") /\ (broadcast(BuyerAgent, tx) \/ UNCHANGED mempool)
     \/ Raises(BuyerAgent, tx) /\ goto("failed") /\ UNCHANGED mempool
  /\ UNCHANGED <<vars, seller, produced, net, attempts, triggers, rated, faults>>

BuyerFails ==
  /\ buyer.pc \notin {"start", "done", "failed"}
  /\ Fault
  /\ goto("failed")
  /\ UNCHANGED <<vars, seller, produced, net, attempts, triggers, mempool, rated>>
---------------------------------------------------------------------------
(* The seller handles one message at a time; run_forever logs what a       *)
(* handler raises and takes the next message.                              *)
HandleRfq ==
  /\ seller.pc = "idle"
  /\ rfqMsg \in net
  /\ net' = (net \ {rfqMsg}) \cup {quoteMsg}
  /\ UNCHANGED <<vars, buyer, seller, produced, attempts, triggers, mempool, rated, faults>>

(* Mutant of HandleTrigger: commits to a hash the trigger names, unrun.    *)
HandleTrigger_commitsUnrun ==
  /\ seller.pc = "idle"
  /\ lockedMsg \in net
  /\ net' = net \ {lockedMsg}
  /\ \E h \in Hashes : seller' = [pc |-> "confirming", result |-> h]
  /\ UNCHANGED <<vars, buyer, produced, attempts, triggers, mempool, rated, faults>>

HandleTrigger ==
  /\ seller.pc = "idle"
  /\ lockedMsg \in net
  /\ net' = net \ {lockedMsg}
  /\ seller' = [pc |-> "working", result |-> NoHash]
  /\ UNCHANGED <<vars, buyer, produced, attempts, triggers, mempool, rated, faults>>

(* fetch_market_data: every run fetches fresh data, so runs return         *)
(* different results; what it raises is SellerFails.                       *)
RunTask ==
  /\ seller.pc = "working"
  /\ \E h \in Hashes :
       /\ seller' = [pc |-> "confirming", result |-> h]
       /\ produced' = produced \cup {h}
  /\ UNCHANGED <<vars, buyer, net, attempts, triggers, mempool, rated, faults>>

(* Mutant of ConfirmDelivery: broadcasts without the simulation.           *)
ConfirmDelivery_unsimulated ==
  /\ seller.pc = "confirming"
  /\ broadcast(SellerAgent, [call |-> "confirmDelivery", hash |-> seller.result])
  /\ seller' = [seller EXCEPT !.pc = "sending"]
  /\ UNCHANGED <<vars, buyer, produced, net, attempts, triggers, rated, faults>>

(* The handler goes on once the transaction is broadcast, not mined.       *)
ConfirmDelivery ==
  LET tx == [call |-> "confirmDelivery", hash |-> seller.result] IN
  /\ seller.pc = "confirming"
  /\ \/ /\ Succeeds(SellerAgent, tx)
        /\ broadcast(SellerAgent, tx)
        /\ seller' = [seller EXCEPT !.pc = "sending"]
     \/ /\ Raises(SellerAgent, tx)
        /\ seller' = [seller EXCEPT !.pc = "idle"]
        /\ UNCHANGED mempool
  /\ UNCHANGED <<vars, buyer, produced, net, attempts, triggers, rated, faults>>

SendDelivery ==
  /\ seller.pc = "sending"
  /\ net' = net \cup {deliveryMsg(seller.result)}
  /\ seller' = [seller EXCEPT !.pc = "idle"]
  /\ UNCHANGED <<vars, buyer, produced, attempts, triggers, mempool, rated, faults>>

(* A handler raises or the process restarts: the message it handled is     *)
(* gone, whatever it has already broadcast is not.                         *)
SellerFails ==
  /\ seller.pc # "idle"
  /\ Fault
  /\ seller' = [seller EXCEPT !.pc = "idle"]
  /\ UNCHANGED <<vars, buyer, produced, net, attempts, triggers, mempool, rated>>
---------------------------------------------------------------------------
(* The environment.  BuyerAgent itself never sends the "locked" trigger:   *)
(* Triggers > 0 stands for a driver such as run_axl_demo.py's run_buyer,   *)
(* which sends it as soon as the lock workflow has been fired.             *)
SendTrigger ==
  /\ buyer.pc = "awaiting"
  /\ triggers > 0
  /\ triggers' = triggers - 1
  /\ net' = net \cup {lockedMsg}
  /\ UNCHANGED <<vars, buyer, seller, produced, attempts, mempool, rated, faults>>

(* KeeperHub sends the lock, and sends it again while attempts are left,   *)
(* replacing a pending attempt or after one it has not seen mined.         *)
KeeperLock ==
  /\ attempts > 0
  /\ attempts' = attempts - 1
  /\ broadcast(KeeperWallet, [call |-> "lockFunds", hash |-> NoHash])
  /\ UNCHANGED <<vars, buyer, seller, produced, net, triggers, rated, faults>>

LoseMessage ==
  /\ \E m \in net : net' = net \ {m}
  /\ Fault
  /\ UNCHANGED <<vars, buyer, seller, produced, attempts, triggers, mempool, rated>>

ChainStep == (KeeperStep(Rfq) \/ Tick) /\ UNCHANGED agentVars

BuyerAgentStep ==
  \/ BroadcastRfq \/ CollectQuote \/ SelectBest \/ UniswapQuote
  \/ FireLock \/ AcceptDelivery \/ Release \/ SubmitFeedback \/ BuyerFails

SellerAgentStep ==
  \/ HandleRfq \/ HandleTrigger \/ RunTask \/ ConfirmDelivery \/ SendDelivery
  \/ SellerFails

TradeNext ==
  \/ BuyerAgentStep
  \/ SellerAgentStep
  \/ SendTrigger \/ KeeperLock \/ LoseMessage
  \/ \E u \in Users : Mine(u)
  \/ ChainStep

TradeSpec == TradeInit /\ [][TradeNext]_tradeVars

(* Blocks keep coming and the keeper's scheduled workflows keep running;   *)
(* nothing is assumed of the agents.                                       *)
KeeperFairness ==
  /\ WF_tradeVars(Tick /\ UNCHANGED agentVars)
  /\ WF_tradeVars(KeeperStep(Rfq) /\ UNCHANGED agentVars)

(* Besides, every process runs: transactions are mined, messages arrive,   *)
(* handlers finish, and a driver that sends triggers sends them.           *)
EveryoneRuns ==
  /\ KeeperFairness
  /\ WF_tradeVars(KeeperLock) /\ \A u \in Users : WF_tradeVars(Mine(u))
  /\ WF_tradeVars(BroadcastRfq) /\ WF_tradeVars(CollectQuote)
  /\ WF_tradeVars(SelectBest) /\ WF_tradeVars(UniswapQuote) /\ WF_tradeVars(FireLock)
  /\ WF_tradeVars(AcceptDelivery) /\ WF_tradeVars(Release)
  /\ WF_tradeVars(SubmitFeedback) /\ WF_tradeVars(SendTrigger)
  /\ SF_tradeVars(HandleRfq) /\ SF_tradeVars(HandleTrigger)
  /\ WF_tradeVars(RunTask) /\ WF_tradeVars(ConfirmDelivery)
  /\ WF_tradeVars(SendDelivery)

KeeperSpec == TradeSpec /\ KeeperFairness
FairTradeSpec == TradeSpec /\ EveryoneRuns
---------------------------------------------------------------------------
(* However often KeeperHub retries the lock, with attempts mined, replaced  *)
(* or reverted, before or after a settlement, exactly one price leaves the *)
(* keeper's wallet, it comes back only by a refund, and the seller gets it *)
(* only by a release: never a second price, never both.                    *)
OnePricePerTrade ==
  LET spent == deals[Rfq].state \in {"LOCKED", "DELIVERED", "RELEASED"}
      paid == deals[Rfq].state = "RELEASED" IN
  /\ balanceOf[USDC][KeeperWallet] = IF spent THEN Funds - Price ELSE Funds
  /\ balanceOf[USDC][SellerAgent] = IF paid THEN Price ELSE 0

(* The seller is paid only for work: the hash on chain is the hash of a    *)
(* result one of its task runs returned, whichever of several triggered    *)
(* runs got its transaction mined.                                         *)
PaidForWork ==
  deals[Rfq].state \in {"DELIVERED", "RELEASED"} => deals[Rfq].resultHash \in produced

(* A rating stands for a trade: the seller is rated once at most, for      *)
(* content its task has returned, and only on a deal that was really       *)
(* locked, although the feedback waits neither for the commitment nor for  *)
(* the release to be mined, and may collide with the buyer's own release.  *)
RatingsStandForTrades ==
  /\ rated <= 1
  /\ rated = 1 => buyer.accepted \in produced /\ deals[Rfq].state # "OPEN"

(* Either agent may stop, lose its messages or fail anywhere: a lock still *)
(* ends in a payment or a refund, and a delivery in a payment, by the      *)
(* keeper alone.  (Deals whose deadline lies inside the modelled time.)    *)
KeeperSettles ==
  /\ (deals[Rfq].state = "LOCKED" /\ deals[Rfq].deliveryDeadline < MaxTime)
       ~> (deals[Rfq].state \in {"DELIVERED", "RELEASED", "REFUNDED"})
  /\ (deals[Rfq].state = "DELIVERED" /\ deals[Rfq].disputeDeadline < MaxTime)
       ~> (deals[Rfq].state = "RELEASED")

(* The buyer tells the seller that the funds are locked (README.md:53,     *)
(* docs/integrations/gensyn-axl.md:8).                                     *)
SellerHearsOfTheLock == (buyer.pc = "awaiting") ~> (seller.pc = "working")

(* The content the buyer accepts has the hash the seller committed to on   *)
(* chain (docs/submission/SUBMISSION.md:82, buyer_agent.py:212).           *)
AcceptedHashIsCommitted ==
  buyer.accepted # NoHash => deals[Rfq].resultHash = buyer.accepted
===========================================================================
