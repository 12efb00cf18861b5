----------------------------- MODULE DemoTrades -----------------------------
(***************************************************************************)
(* The trades of the demo: the market service runs one for every           *)
(* POST /api/rfqs of its UI (scripts/serve_trade_playback.py), with the    *)
(* buyer and the seller of scripts/run_axl_demo.py, over AxlClient in      *)
(* "gensyn" mode (agents/lib/axl_client.py).                               *)
(*                                                                         *)
(* Every request thread starts a buyer and a seller of its own, but all of *)
(* them talk to the same two AXL nodes under the same two peer ids.  A     *)
(* node hands each body out once, to whichever client asks first: a client *)
(* can take, and drop, what is meant for another request, and a seller can *)
(* do another request's work.                                              *)
(*                                                                         *)
(* A delivery carries the hash of its content, so the hash check of        *)
(* run_buyer is left out; content is named by the run that produced it.    *)
(***************************************************************************)
EXTENDS Naturals, Sequences, FiniteSets, SequencesExt

CONSTANTS Requests,   \* POST /api/rfqs requests; each is an rfq of its own
          MaxForeign, \* bound: bodies of other peers that are not UTF-8
          MaxFaults   \* bound: calls that raise and bodies that are lost

ASSUME DemoAssumption ==
  IsFiniteSet(Requests) /\ MaxForeign \in Nat /\ MaxFaults \in Nat

Sides == {"buyer", "seller"}
Clients == Requests \X Sides

VARIABLES
  node,    \* side -> the bodies its AXL node holds, in order
  poll,    \* client -> its _poll_task
  queue,   \* client -> its _inbox
  buyer,   \* request -> [pc, heard]: run_buyer and the messages it has kept
  seller,  \* request -> [pc, rfq]: run_seller and the trade it works on
  work,    \* history: <<by, for>>, the task runs
  foreign, \* bodies of other peers so far
  faults   \* faults so far

demoVars == <<node, poll, queue, buyer, seller, work, foreign, faults>>

Undecodable == [kind |-> "undecodable"]
Message == [kind : {"rfq", "locked"}, rfq : Requests]
             \cup [kind : {"quote", "delivery"}, rfq : Requests, by : Requests]

DemoTypeOK ==
  /\ \A s \in Sides : ToSet(node[s]) \subseteq Message \cup {Undecodable}
  /\ \A c \in Clients : /\ poll[c] \in {"off", "on", "dead"}
                        /\ ToSet(queue[c]) \subseteq Message
                        /\ poll[c] = "off" => queue[c] = <<>>
  /\ \A r \in Requests :
       /\ buyer[r].pc \in {"new", "sending", "quotes", "deliveries", "joining",
                           "verified", "failed"}
       /\ ToSet(buyer[r].heard) \subseteq Message
       /\ seller[r].pc \in {"new", "listening", "working", "done", "raised", "cancelled"}
       /\ seller[r].rfq \in Requests
  /\ work \subseteq Requests \X Requests
  /\ foreign \in 0 .. MaxForeign /\ faults \in 0 .. MaxFaults

DemoInit ==
  /\ node = [s \in Sides |-> <<>>]
  /\ poll = [c \in Clients |-> "off"]
  /\ queue = [c \in Clients |-> <<>>]
  /\ buyer = [r \in Requests |-> [pc |-> "new", heard |-> <<>>]]
  /\ seller = [r \in Requests |-> [pc |-> "new", rfq |-> r]]
  /\ work = {}
  /\ foreign = 0 /\ faults = 0
---------------------------------------------------------------------------
Fault == faults < MaxFaults /\ faults' = faults + 1
NoFault == UNCHANGED faults

(* AxlClient.send to the peer on the other side.                           *)
send(side, m) == node' = [node EXCEPT ![side] = Append(@, m)]

(* The poll loop of a client starts with its first inbox().                *)
listen(c) == poll' = [poll EXCEPT ![c] = "on"]

(* AxlClient.aclose: what the client has polled and not handled is gone.   *)
aclose(c) ==
  /\ poll' = [poll EXCEPT ![c] = "off"]
  /\ queue' = [queue EXCEPT ![c] = <<>>]

(* The end of asyncio.run: the seller is cancelled unless it has finished, *)
(* and with the loop end both poll loops.  Every exception of the trade    *)
(* ends in _mark_execution_failed.                                         *)
answer(r, outcome) ==
  /\ buyer' = [buyer EXCEPT ![r] = [pc |-> outcome, heard |-> <<>>]]
  /\ seller' = [seller EXCEPT ![r].pc =
                  IF @ \in {"listening", "working"} THEN "cancelled" ELSE @]
  /\ poll' = [c \in Clients |-> IF c[1] = r THEN "off" ELSE poll[c]]
  /\ queue' = [c \in Clients |-> IF c[1] = r THEN <<>> ELSE queue[c]]

(* Mutant of Poll: whatever is received is queued.                         *)
Poll_undecoded(c) ==
  /\ poll[c] = "on"
  /\ node[c[2]] # <<>>
  /\ node' = [node EXCEPT ![c[2]] = Tail(@)]
  /\ queue' = [queue EXCEPT ![c] = Append(@, Head(node[c[2]]))]
  /\ UNCHANGED <<poll, buyer, seller, work, foreign, faults>>

(* GET /recv hands out one body.  One that is not UTF-8 raises             *)
(* UnicodeDecodeError, which _poll_loop does not catch: the task ends.     *)
Poll(c) ==
  LET body == Head(node[c[2]]) IN
  /\ poll[c] = "on"
  /\ node[c[2]] # <<>>
  /\ node' = [node EXCEPT ![c[2]] = Tail(@)]
  /\ IF body = Undecodable
     THEN poll' = [poll EXCEPT ![c] = "dead"] /\ UNCHANGED queue
     ELSE queue' = [queue EXCEPT ![c] = Append(@, body)] /\ UNCHANGED poll
  /\ UNCHANGED <<buyer, seller, work, foreign, faults>>
---------------------------------------------------------------------------
(* The buyer: run_buyer.                                                   *)
StartTrade(r) ==
  /\ buyer[r].pc = "new"
  /\ buyer' = [buyer EXCEPT ![r].pc = "sending"]
  /\ seller' = [seller EXCEPT ![r].pc = "listening"]
  /\ listen(<<r, "seller">>)
  /\ UNCHANGED <<node, queue, work, foreign, faults>>

SendRfq(r) ==
  /\ buyer[r].pc = "sending"
  /\ \/ /\ send("seller", [kind |-> "rfq", rfq |-> r])
        /\ buyer' = [buyer EXCEPT ![r].pc = "quotes"]
        /\ listen(<<r, "buyer">>)
        /\ NoFault /\ UNCHANGED <<queue, seller>>
     \/ Fault /\ answer(r, "failed") /\ UNCHANGED node
  /\ UNCHANGED <<work, foreign>>

(* Mutant of Kept: any quote and any delivery will do.                     *)
Kept_anyones(r, m) ==
  m.kind = IF buyer[r].pc = "quotes" THEN "quote" ELSE "delivery"

(* What is not of this rfq, or of the kind waited for, is dropped.         *)
Kept(r, m) ==
  /\ m.rfq = r
  /\ m.kind = IF buyer[r].pc = "quotes" THEN "quote" ELSE "delivery"

Drain(r) ==
  LET c == <<r, "buyer">> IN
  /\ buyer[r].pc \in {"quotes", "deliveries"}
  /\ queue[c] # <<>>
  /\ queue' = [queue EXCEPT ![c] = Tail(@)]
  /\ buyer' = [buyer EXCEPT ![r].heard =
                 IF Kept(r, Head(queue[c])) THEN Append(@, Head(queue[c])) ELSE @]
  /\ UNCHANGED <<node, poll, seller, work, foreign, faults>>

(* The window of _drain ends; nothing heard is a RuntimeError.             *)
EndQuotes(r) ==
  /\ buyer[r].pc = "quotes"
  /\ \/ /\ buyer[r].heard # <<>>
        /\ send("seller", [kind |-> "locked", rfq |-> r])
        /\ buyer' = [buyer EXCEPT ![r] = [pc |-> "deliveries", heard |-> <<>>]]
        /\ NoFault /\ UNCHANGED <<poll, queue, seller>>
     \/ /\ answer(r, "failed")
        /\ \/ buyer[r].heard = <<>> /\ NoFault
           \/ buyer[r].heard # <<>> /\ Fault
        /\ UNCHANGED node
  /\ UNCHANGED <<work, foreign>>

(* Mutant of EndDeliveries: waits until there is a delivery.               *)
EndDeliveries_waits(r) ==
  /\ buyer[r].pc = "deliveries"
  /\ buyer[r].heard # <<>>
  /\ buyer' = [buyer EXCEPT ![r].pc = "joining"]
  /\ aclose(<<r, "buyer">>)
  /\ UNCHANGED <<node, seller, work, foreign, faults>>

EndDeliveries(r) ==
  /\ buyer[r].pc = "deliveries"
  /\ IF buyer[r].heard = <<>>
     THEN answer(r, "failed")
     ELSE /\ buyer' = [buyer EXCEPT ![r].pc = "joining"]
          /\ aclose(<<r, "buyer">>)
          /\ UNCHANGED seller
  /\ UNCHANGED <<node, work, foreign, faults>>

(* run_buyer has returned; _run_axl_trade_from_ui awaits its own seller,   *)
(* without a timeout, and raises what the seller raised.                   *)
Join(r) ==
  /\ buyer[r].pc = "joining"
  /\ \/ /\ seller[r].pc = "done"
        /\ buyer' = [buyer EXCEPT ![r].pc = "verified"]
        /\ UNCHANGED <<poll, queue, seller>>
     \/ seller[r].pc = "raised" /\ answer(r, "failed")
  /\ UNCHANGED <<node, work, foreign, faults>>
---------------------------------------------------------------------------
(* The seller: run_seller.  It serves whatever its client has polled.      *)
HandleRfq(r) ==
  LET c == <<r, "seller">> IN
  /\ seller[r].pc = "listening"
  /\ queue[c] # <<>> /\ Head(queue[c]).kind = "rfq"
  /\ queue' = [queue EXCEPT ![c] = Tail(@)]
  /\ \/ /\ send("buyer", [kind |-> "quote", rfq |-> Head(queue[c]).rfq, by |-> r])
        /\ NoFault /\ UNCHANGED seller
     \/ Fault /\ seller' = [seller EXCEPT ![r].pc = "raised"] /\ UNCHANGED node
  /\ UNCHANGED <<poll, buyer, work, foreign>>

HandleTrigger(r) ==
  LET c == <<r, "seller">> IN
  /\ seller[r].pc = "listening"
  /\ queue[c] # <<>> /\ Head(queue[c]).kind = "locked"
  /\ queue' = [queue EXCEPT ![c] = Tail(@)]
  /\ seller' = [seller EXCEPT ![r] = [pc |-> "working", rfq |-> Head(queue[c]).rfq]]
  /\ UNCHANGED <<node, poll, buyer, work, foreign, faults>>

(* Mutant of Execute: goes on listening after the delivery.                *)
Execute_goesOn(r) ==
  /\ seller[r].pc = "working"
  /\ send("buyer", [kind |-> "delivery", rfq |-> seller[r].rfq, by |-> r])
  /\ work' = work \cup {<<r, seller[r].rfq>>}
  /\ seller' = [seller EXCEPT ![r].pc = "listening"]
  /\ UNCHANGED <<poll, queue, buyer, foreign, faults>>

(* fetch_market_data, then the delivery and the end of the task.  What it  *)
(* raises ends the task as well, but not its client's poll loop.           *)
Execute(r) ==
  /\ seller[r].pc = "working"
  /\ \/ /\ send("buyer", [kind |-> "delivery", rfq |-> seller[r].rfq, by |-> r])
        /\ work' = work \cup {<<r, seller[r].rfq>>}
        /\ seller' = [seller EXCEPT ![r].pc = "done"]
        /\ aclose(<<r, "seller">>)
        /\ NoFault
     \/ /\ Fault
        /\ seller' = [seller EXCEPT ![r].pc = "raised"]
        /\ UNCHANGED <<node, work, poll, queue>>
  /\ UNCHANGED <<buyer, foreign>>
---------------------------------------------------------------------------
(* The network: a body that is lost (a send nobody forwards, an answer to  *)
(* /recv whose client is gone), and a body that another peer sends.        *)
LoseBody ==
  /\ \E s \in Sides : node[s] # <<>> /\ node' = [node EXCEPT ![s] = Tail(@)]
  /\ Fault
  /\ UNCHANGED <<poll, queue, buyer, seller, work, foreign>>

ForeignBody ==
  /\ foreign < MaxForeign
  /\ foreign' = foreign + 1
  /\ \E s \in Sides : send(s, Undecodable)
  /\ UNCHANGED <<poll, queue, buyer, seller, work, faults>>

BuyerStep(r) ==
  StartTrade(r) \/ SendRfq(r) \/ Drain(r) \/ EndQuotes(r) \/ EndDeliveries(r) \/ Join(r)
SellerStep(r) == HandleRfq(r) \/ HandleTrigger(r) \/ Execute(r)

DemoNext ==
  \/ \E r \in Requests : BuyerStep(r) \/ SellerStep(r)
  \/ \E c \in Clients : Poll(c)
  \/ LoseBody \/ ForeignBody

DemoSpec == DemoInit /\ [][DemoNext]_demoVars

(* An event loop runs each of its tasks and its timers.                    *)
DemoFairness ==
  /\ \A r \in Requests : WF_demoVars(BuyerStep(r)) /\ WF_demoVars(SellerStep(r))
  /\ \A c \in Clients : WF_demoVars(Poll(c))

FairDemoSpec == DemoSpec /\ DemoFairness
---------------------------------------------------------------------------
(* However requests overlap and sellers take each other's triggers, work   *)
(* and sellers stay one to one: no task is run twice for one trade, and no *)
(* seller works for two.                                                   *)
WorkIsOneToOne ==
  \A v, w \in work : v[1] = w[1] \/ v[2] = w[2] => v = w

(* A response that says "verified" is about this request's own task, and   *)
(* some seller really ran it, though another request's seller may have run *)
(* it and stale or foreign deliveries were in the same node.               *)
VerifiedMeansDone ==
  \A r \in Requests :
    buyer[r].pc \in {"joining", "verified"} =>
      \E m \in ToSet(buyer[r].heard) : <<m.by, r>> \in work

(* Another request's seller did the work, and this one's still waits for a *)
(* trigger nobody will send.                                               *)
Robbed(r) ==
  /\ buyer[r].pc = "joining"
  /\ seller[r].pc \in {"listening", "working"}
  /\ \E w \in work : w[2] = r /\ w[1] # r

(* Lost bodies, dead poll loops and sellers that raise end in an answer,   *)
(* because the windows of the buyer end; the only request that may hang is *)
(* one whose trigger another request's seller has taken.                   *)
AnsweredOrRobbed ==
  \A r \in Requests :
    (buyer[r].pc = "sending") ~> (buyer[r].pc \in {"verified", "failed"} \/ Robbed(r))
===========================================================================
