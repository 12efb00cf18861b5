------------------------------- MODULE Keeper -------------------------------
(***************************************************************************)
(* KeeperHub's release and refund workflows around the escrow contract,    *)
(* and the client that fires them by hand (agents/lib/keeperhub_client.py, *)
(* docs/integrations/keeperhub-workflows.md).                              *)
(*                                                                         *)
(* AgentBazaarEscrow takes a keeper for granted that settles in one step   *)
(* (KeeperStep).  Here a workflow tests its condition in one step and its  *)
(* transaction is mined in a later one, on the chain as it is then; it may *)
(* revert, or be dropped.  A run fired by hand has an idempotency key and  *)
(* is sent at most once, whether or not its time has come; whoever fired   *)
(* it may poll for its transaction.                                        *)
(***************************************************************************)
EXTENDS AgentBazaarEscrow

CONSTANTS Buyer,     \* the wallet that funds the deals
          USDC,
          Funds,     \* what it holds, and has approved the escrow for
          MaxPolls,  \* timeout_secs / poll_interval_secs of wait_for_tx
          MaxDrops   \* bound: scheduled transactions that are never mined

ASSUME KeeperAssumption ==
  /\ Buyer \in Users /\ USDC \in Tokens
  /\ Funds \in Nat /\ Funds < MaxUint256
  /\ MaxPolls \in Nat \ {0} /\ MaxDrops \in Nat

Workflows == {"release", "refund"}
Jobs == Workflows \X RfqIds

VARIABLES
  pending,  \* jobs whose scheduled transaction is broadcast and not mined
  runs,     \* idempotency key -> [of, at]: the run it names, and how far it is
  waiter,   \* [job, pc, polls]: a caller, the run it fired, its wait_for_tx
  drops     \* scheduled transactions dropped so far

hubVars == <<pending, runs, waiter, drops>>
keeperVars == <<vars, hubVars>>

(* Mistake: one key for everything that is about an rfq.                   *)
Key_perRfq(job) == <<"", job[2]>>

Key(job) == job

KeeperTypeOK ==
  /\ TypeOK
  /\ pending \subseteq Jobs
  /\ \A job \in Jobs :
       /\ runs[Key(job)].of \in Jobs
       /\ runs[Key(job)].at \in {"none", "queued", "sent", "mined", "reverted", "failed"}
  /\ waiter \in [job : Jobs, polls : 0 .. MaxPolls,
                 pc : {"idle", "polling", "tx", "failed", "timeout", "raised"}]
  /\ drops \in 0 .. MaxDrops

KeeperInit ==
  /\ totalSupply = [t \in Tokens |-> IF t = USDC THEN Funds ELSE 0]
  /\ balanceOf = [t \in Tokens |-> [a \in Addresses |->
                    IF t = USDC /\ a = Buyer THEN Funds ELSE 0]]
  /\ allowance = [t \in Tokens |-> [a \in Addresses |-> [b \in Addresses |->
                    IF t = USDC /\ a = Buyer /\ b = Escrow THEN Funds ELSE 0]]]
  /\ deals = [r \in RfqIds |-> EmptyDeal]
  /\ now = 0
  /\ pending = {}
  /\ runs = [k \in {Key(job) : job \in Jobs} |->
               [of |-> CHOOSE job \in Jobs : Key(job) = k, at |-> "none"]]
  /\ waiter \in [job : Jobs, pc : {"idle"}, polls : {0}]
  /\ drops = 0
---------------------------------------------------------------------------
(* Mistake: the refund workflow with the release workflow's condition.     *)
Condition_copied(job) ==
  LET d == deals[job[2]] IN d.state = "DELIVERED" /\ now > d.disputeDeadline

(* deal_eligible_for_optimistic_release, and its like for the refund.      *)
Condition(job) ==
  LET d == deals[job[2]] IN
  CASE job[1] = "release" -> d.state = "DELIVERED" /\ now > d.disputeDeadline
    [] job[1] = "refund" -> d.state = "LOCKED" /\ now > d.deliveryDeadline

settle(job) ==
  \/ job[1] = "release" /\ optimisticRelease(job[2])
  \/ job[1] = "refund" /\ claimRefund(job[2])

(* The schedule fires one transaction per deal that is ready.              *)
Scan(job) ==
  /\ job \notin pending
  /\ Condition(job)
  /\ pending' = pending \cup {job}
  /\ UNCHANGED <<vars, runs, waiter, drops>>

MineScheduled(job) ==
  /\ job \in pending
  /\ pending' = pending \ {job}
  /\ \/ settle(job)
     \/ ~ENABLED settle(job) /\ UNCHANGED vars
  /\ UNCHANGED <<runs, waiter, drops>>

DropScheduled(job) ==
  /\ job \in pending
  /\ drops < MaxDrops
  /\ drops' = drops + 1
  /\ pending' = pending \ {job}
  /\ UNCHANGED <<vars, runs, waiter>>
---------------------------------------------------------------------------
(* fire_optimistic_release or fire_refund, at any time and by anyone who   *)
(* knows the rfq id.  A key that is known already names the run it has.    *)
trigger_workflow(job) ==
  /\ runs[Key(job)].at = "none"
  /\ runs' = [runs EXCEPT ![Key(job)] = [of |-> job, at |-> "queued"]]
  /\ UNCHANGED <<vars, pending, waiter, drops>>

(* KeeperHub sends the run's transaction without testing the condition, or *)
(* gives the run up.                                                       *)
SendRun(job) ==
  /\ runs[job].at = "queued"
  /\ \E at \in {"sent", "failed"} : runs' = [runs EXCEPT ![job].at = at]
  /\ UNCHANGED <<vars, pending, waiter, drops>>

MineRun(job) ==
  /\ runs[job].at = "sent"
  /\ \/ settle(runs[job].of) /\ runs' = [runs EXCEPT ![job].at = "mined"]
     \/ /\ ~ENABLED settle(runs[job].of)
        /\ runs' = [runs EXCEPT ![job].at = "reverted"]
        /\ UNCHANGED vars
  /\ UNCHANGED <<pending, waiter, drops>>

(* The caller waits, and again after a wait that told it nothing.          *)
StartWait ==
  /\ runs[Key(waiter.job)].at # "none"
  /\ waiter.pc \in {"idle", "timeout", "raised"}
  /\ waiter' = [waiter EXCEPT !.pc = "polling", !.polls = 0]
  /\ UNCHANGED <<vars, pending, runs, drops>>

(* What get_run tells: a transaction hash, the end of the run, or nothing. *)
Answer(run) ==
  CASE run.at \in {"sent", "mined", "reverted"} -> "tx"
    [] run.at = "failed" -> "failed"
    [] OTHER -> "polling"

(* Mistake: the loop counts after it has compared.                         *)
wait_for_tx_overcounts ==
  LET answer == Answer(runs[Key(waiter.job)]) IN
  /\ waiter.pc = "polling"
  /\ \/ answer # "polling" /\ waiter' = [waiter EXCEPT !.pc = answer]
     \/ answer = "polling" /\ waiter' = [waiter EXCEPT
          !.polls = @ + 1, !.pc = IF waiter.polls < MaxPolls THEN @ ELSE "timeout"]
  /\ UNCHANGED <<vars, pending, runs, drops>>

(* One round of wait_for_tx; an HTTP error leaves the loop.                *)
wait_for_tx ==
  LET answer == Answer(runs[Key(waiter.job)]) IN
  /\ waiter.pc = "polling"
  /\ \/ answer # "polling" /\ waiter' = [waiter EXCEPT !.pc = answer]
     \/ answer = "polling" /\ waiter' = [waiter EXCEPT
          !.polls = @ + 1, !.pc = IF waiter.polls + 1 < MaxPolls THEN @ ELSE "timeout"]
     \/ waiter' = [waiter EXCEPT !.pc = "raised"]
  /\ UNCHANGED <<vars, pending, runs, drops>>
---------------------------------------------------------------------------
(* Everyone else: the parties of a deal, and others who call the two       *)
(* functions that are open to all.                                         *)
PartyStep == LockStep \/ \E r \in RfqIds : BuyerStep(r) \/ SellerStep(r)

ChainStep == (PartyStep \/ Tick \/ \E r \in RfqIds : KeeperStep(r)) /\ UNCHANGED hubVars

KeeperNext ==
  \/ \E job \in Jobs :
       \/ Scan(job) \/ MineScheduled(job) \/ DropScheduled(job)
       \/ trigger_workflow(job)
  \/ \E key \in DOMAIN runs : SendRun(key) \/ MineRun(key)
  \/ StartWait \/ wait_for_tx
  \/ ChainStep

KeeperSpec == KeeperInit /\ [][KeeperNext]_keeperVars

(* Blocks keep coming and are mined, and the schedule keeps ticking.       *)
(* Nothing is assumed of runs fired by hand, of callers or of the parties. *)
KeeperFairness ==
  /\ WF_keeperVars(Tick /\ UNCHANGED hubVars)
  /\ \A job \in Jobs : WF_keeperVars(Scan(job)) /\ WF_keeperVars(MineScheduled(job))

FairKeeperSpec == KeeperSpec /\ KeeperFairness
---------------------------------------------------------------------------
(* Between the test of a condition and the mining of the transaction no    *)
(* dispute, delivery or second lock can slip in: a scheduled transaction   *)
(* does what it was sent for, or that has been done already.               *)
ChecksStayTrue ==
  \A job \in pending :
    \/ Condition(job)
    \/ deals[job[2]].state = IF job[1] = "release" THEN "RELEASED" ELSE "REFUNDED"

(* What a caller was told stays true of the run it fired, and is about its *)
(* own workflow: "failed" is never followed by a transaction, however      *)
(* often the webhook is fired again.                                       *)
TruthOfWait ==
  LET run == runs[Key(waiter.job)] IN
  waiter.pc \in {"tx", "failed"} => run.of = waiter.job /\ waiter.pc = Answer(run)

(* The two workflows are the keeper the contract relies on: everything     *)
(* they do is a step of AgentBazaarEscrow, and together they are fair to   *)
(* its KeeperStep, although they test first and act later, lose            *)
(* transactions, and race with runs fired too early and with strangers.    *)
KeeperIsFair == [][Next]_vars /\ Fairness
===========================================================================
