# Agent Bazaar in TLA+

A verification development for Agent Bazaar: agents that trade tasks over a
peer-to-peer network (AXL) and settle through an escrow contract driven by a
keeper (KeeperHub). It holds TLA+ modules of the contracts, the agents, the
network and the demo market, the TLC runs that check them on small instances, and
TLAPS proofs of the properties that matter most for every instance.
`PROJECT.json` lists the components, the runs, the source lines every definition
models, the hazards the properties are for, the findings and the theorems.

    tlc -config MC_EscrowHistory.cfg MC_EscrowHistory   # model-check one instance
    tlapm AgentBazaarEscrow_proofs.tla                  # check the proofs

## 1. The system

| Component | State | Operations | Hard behaviour |
|---|---|---|---|
| `contracts/MockUSDC.sol` | supply, balances, allowances | mint, approve, transfer, transferFrom | self-transfer, unlimited allowance, overflow |
| `contracts/AgentBazaarEscrow.sol` | `_deals`: rfq id to deal; a pooled token balance | lockFunds, confirmDelivery, releaseFunds, optimisticRelease, raiseDispute, claimRefund | calls by anyone in any order, two deadlines, one field with two meanings, one balance for all deals |
| `contracts/AgentIdentityRegistry.sol`, `AgentReputationRegistry.sol`, `erc8004_client.py` | ids, owners, counts, rolling average | registerAgent, setTokenURI, submitFeedback | rounding fed back into itself, narrow integers |
| `agents/buyer_agent.py` | one coroutine, nothing persisted | RFQ, collect, lock, await, release, rate | failure at any await, late or missing answers |
| `agents/seller_agent.py` | one coroutine, nothing persisted | quote, execute, commit on chain, deliver | failure between commit and delivery, duplicate triggers |
| `agents/lib/escrow_client.py` | none (the chain's nonce) | simulate, sign, broadcast | broadcast is not mined; a pending nonce collides |
| `agents/lib/keeperhub_client.py` and the workflows | idempotency keys and runs, attempts of the lock | fire lock, release, refund; get_run, wait_for_tx; scheduled release and refund | a test now and a transaction later, a key already spent, a retry of what was mined, a wait that ends too early |
| `agents/lib/axl_client.py` | client inbox, poll task | topology, broadcast, send, inbox, aclose; mock and gensyn mode | polls and sends that time out; a poll task that dies of an undecodable body |
| `scripts/axl_mock_node.py` | inbox, peers, backlog of the server | /send, /_deliver, /recv, /register | single-threaded servers that wait for each other |
| `scripts/serve_trade_playback.py` | `SELLER_LISTINGS` shared by threads | post a listing, run an RFQ, charge a quota; run a trade over AXL | races without a lock, colliding ids; requests that share nodes and peer ids |
| `scripts/run_axl_demo.py` | a buyer and a seller task per request | RFQ, quote, trigger, delivery | messages of other requests, windows that end, a seller whose trigger was taken |
| `agents/lib/matching.py` | none | rank quotes, select the best | ties, arrival order, three copies of one formula |
| `agents/lib/threat_defense.py` | `ReplayGuard._seen` | release predicate; reject a replay (no caller) | - |
| `uniswap_client.py`, `market_data_task.py`, `generate_market_trace.py`, `run_demo.py` | none | single requests that may raise; ranked demo quotes | - |
| `signing.py`, `config.py`, `schemas/`, `sdk.py`, other scripts | none | formatting, validation, single requests | - |

How they interact: the buyer broadcasts an RFQ over AXL, the seller answers with
a quote, the buyer fires KeeperHub's lock workflow, which sends `lockFunds` from
the keeper's wallet. On a "locked" trigger the seller runs the task, broadcasts
`confirmDelivery` with the hash of the result and sends the result over AXL. The
buyer compares hashes and fires the release workflow. Independently of both,
KeeperHub calls `optimisticRelease` every 30 s and `claimRefund` every 60 s.
Feedback goes to the reputation registry. The market service is separate: a demo
server with its own list of sellers and its own matching, which for every request
of its UI starts a buyer and a seller of `run_axl_demo.py`; all of these talk to the
same two AXL nodes.

What makes each part correct:

- token: supply is conserved; nobody's tokens move without a right to them;
- escrow: it can always pay every deal it holds, pays each once and to the right
  party, never reuses an id, gives the buyer the whole dispute window, and ends
  every deal without the help of buyer and seller;
- registries: identities are one to one; the average is close to the truth;
- keeper: whatever it tests is still true when its transaction is mined, a caller
  is told of its own run, and it is fair to every deal;
- trade: one price per trade however often the lock is retried, payment only for
  work, a rating only for a trade, settlement despite crashes and losses;
- matching: the best eligible quote wins, in whatever order quotes arrive;
- demo trades: work and sellers stay one to one, "verified" means done, and a
  request is answered;
- market: the best offer wins, an id is charged at most once for each of its trades,
  and only a later namesake (the charge goes by id) pays for another's trade;
- AXL: at most once, in order, honest acknowledgements, every send answered.

## 2. The modules

```
MockUSDC ── TokenHistory
   │
AgentBazaarEscrow ── AgentBazaarEscrow_proofs (sums, token, escrow)
   ├── EscrowHistory ── MC_EscrowHistory
   │      ├─ Promise == INSTANCE EscrowPromise
   │      └─ EscrowHistory_proofs (with TokenHistory and Keeper)
   ├── Keeper                    (implements the keeper AgentBazaarEscrow assumes)
   └── Trade ── Trade_proofs     (assumes that keeper)
AgentRegistries ── AgentRegistries_proofs
AxlNetwork ── AxlNetwork_proofs
MarketService ── MarketService_proofs
DemoTrades ── DemoTrades_proofs
Matching ── MC_Matching, Matching_proofs
```

**MockUSDC.** Variables are the contract's, with the deployed token as a first
index. A call that reverts leaves the ledger alone, so every `revert`, `require`
and checked operation is a guard. `moveBalance` writes the debit before it reads
for the credit, as `_transfer` does: for a self-transfer the order matters.
**TokenHistory** adds what every approval gave and what was drawn since, because
the contract keeps only the difference.

**AgentBazaarEscrow** extends the token, so a transaction of the escrow includes
the token call it makes and both happen or neither does. `deals` is `_deals`
without the `rfqId` field, which repeats the key; a deal not yet written is
`EmptyDeal`. `now` is the block's timestamp. Deadlines are checked `uint64` sums
(`DeadlineAfter` is empty when the sum is out of range, so the call reverts).
Sellers may be any address, the escrow itself included, because the contract
does not look. `optimisticRelease` and `claimRefund` have no sender: anyone may
call them. Token steps (mint, approve, transfer, also straight to the escrow)
interleave with everything.

**EscrowPromise** is what the escrow promises, without its implementation: a
purse for each deal, the agreed window and the delivery time on record.
**EscrowHistory** adds the history the contract does not keep (window, delivery
time, senders) and the mapping under which the contract implements the promise:
a deal's purse is its amount while in custody, and what the contract holds
beyond that is a gift to the pool.

**Keeper** puts KeeperHub's workflows and the client's manual runs around the
contract. The schedule tests a deal's condition in one step (`Scan`, which for the
release is `deal_eligible_for_optimistic_release`) and its transaction is mined in a
later one, or reverts, or is dropped. A run fired by hand has the idempotency key
of its workflow and rfq (`Key`): a known key names the run it already has
(`trigger_workflow`), and the run's transaction is sent whether or not its time has
come. `waiter` is a caller inside `wait_for_tx`. `KeeperIsFair` is a refinement:
every behaviour of `Keeper` satisfies `[][Next]_vars` and the `Fairness` of
`AgentBazaarEscrow`, so the one-step keeper of the contract and of `Trade` is no
idealisation.

**Trade** composes the escrow with both agents, the messages between them, the
mempool and the keeper. A coroutine runs from one await to the next in one step.
A transaction is simulated on the chain as it is (`Succeeds`), broadcast, and
mined later on the chain as it then is, or reverts (`Succeeds` spells out one guard
that its `ENABLED` implies, for the proofs, which cannot look into `ENABLED`); an
account has one pending
transaction, because its nonce comes from the mined chain. A fault is a lost
message, an exception at an await or a crash: no agent stores anything, so for
the buyer these come to the same, and the seller's `run_forever` logs and goes on.
KeeperHub's lock workflow may send while attempts are left, also after a
settlement. Feedback goes out from the buyer's account like any other transaction
(`rated` counts what is mined). The Uniswap quote comes before the lock and may raise.
The locked trigger is sent by a driver (`Triggers`), never by
`BuyerAgent`, as in the code.

**AgentRegistries** computes the rolling average as the contract does, with the
division and the cast to `uint16`. `points`, the sum of the ratings given, is a
history variable that the `FeedbackSubmitted` events amount to.

**MarketService** gives each request thread a program counter and lets threads
switch between the iterations of the scan and between the three parts of a charge:
the search for the first listing with the selected id, the read of its quota and the
write. The search is one step, because a listing inserted during it goes in front of
what it has passed and is never found. A post reads the clock some time before it
inserts its listing. A listing's price, capabilities and reputation never change, so they
are abstracted to whether it fits and the rank of its score. Its number stands
for the object's identity, its `id` for the string that may collide. What a
listing has lost is counted in its tasks: task `t` is consumed when `t` is above
the quota that is left.

**Matching** is the collection window of the buyer and the ranking as functions of
the list of quotes heard. Confidences, success rates and scores are floats, each
represented by its number in the order of the floats, so that scores tie exactly
when the floats are equal. What a product and a quotient are rounded to is a parameter
(`Score`) the theorems assume nothing of; `MC_Matching` gives it the order in which
Python's doubles come for the offers of the run. The sort is an insertion that keeps
the order of equals, which is what Python's sort does with `reverse=True` too, and
one `turn` of the loop over the quotes sorts an eligible one in at once instead of after
the loop. `scanned` is the market service's own scan, `firstRanked` the choice of the
demos, which take the head of the ranking also when it was rejected.

**DemoTrades** is what a UI request does over AXL in gensyn mode: a buyer task, a seller
task, their two clients with poll task and queue, and the two nodes all requests
share. A node hands a body to whichever client asks first. A buyer's window may end
at any time after it opened. A body that is not UTF-8 kills the poll task that
receives it; faults are lost bodies and calls that raise. A delivery carries the
hash of its own content, so the buyer's comparison always succeeds and is left out.

**AxlNetwork** gives each node the backlog of its single-threaded server.
While `/send` is served the node waits (`serving`) for the peer's answer to
`/_deliver`. Whoever gives up leaves a dead connection in the backlog, which is
served all the same.

A `_proofs` module extends the module it is about and holds the inductive
invariants, the lemmas and the theorems of section 4; TLC does not read it.

## 3. The runs

| Run | Configuration | Shows |
|---|---|---|
| `usdc` | TokenHistory, 46 thousand states | the token's arithmetic; draws stay within approvals |
| `promise` | MC_EscrowHistory, 316 thousand | solvency, payouts, used ids; the escrow implements EscrowPromise; the buyer has the whole window |
| `keeper` | Keeper, 153 thousand | conditions stay true until the transaction is mined; waits tell the truth; every deal ends; the workflows implement the keeper of AgentBazaarEscrow |
| `registries` | AgentRegistries, 64 thousand | identities and averages |
| `trade` | Trade, 101 thousand | one price, paid for work, ratings for trades, settlement under faults |
| `market` | MarketService, 990 thousand | best offer; who is charged for which trades, under races |
| `axl` | AxlNetwork, 255 thousand | at most once, in order, acknowledged truthfully |
| `demo_trades` | DemoTrades, 75 thousand | one seller per trade and one trade per seller; verified means done; every request is answered, but one whose trigger was taken |
| `matching` | MC_Matching, 22 thousand | the best eligible quote wins, late ones on merit only; three choosers agree |
| `trade_trigger`, `trade_hash`, `market_quota` | | the findings of section 6 |

### Bounds, and why they suffice

- *Token*: two users, `MaxUint256 = 3`, so a limited allowance can be drawn in parts
  and 3 is the unlimited one.
- *Escrow*: two users, two deals, one token. Every property of the pool is about
  one deal against the rest, so two deals are enough to pay one from the other;
  two users give buyer, seller and bystander roles in every assignment, also
  one user in two roles. Amounts up to `MaxUint256 = 2` make the supply's limit,
  an exhausted allowance and the unlimited one reachable. `MaxTime = 2` is the
  largest `uint64` of the run: with windows of 0 and 1 every deadline is met
  exactly, missed and overflowed. The seller may be either user or the contract.
  Users, ids and the token are symmetric.
- *Keeper*: one deal, since a workflow's run concerns one; two users, who may be
  buyer, seller and stranger; time up to 4 and windows of 0, 1 and 3, one of which
  overflows when it starts late; waits of two polls; one dropped transaction
  (fairness speaks of all the others). No symmetry, as it has liveness.
- *Trade*: one buyer, one seller, two lock attempts (the workflow has three: the
  second is already a retry), two triggers, two hashes, two faults, four ticks.
  The keeper's wallet is the buyer's own, the configuration in which the
  fallback to `releaseFunds` can succeed. It holds two prices, so a second
  payment would be possible.
- *Registries*: two accounts, up to `MaxUint64 = 4` feedbacks per agent (the
  count's overflow included), ratings of 0, 3, 4, 5 and one out of range.
- *Market*: two requests, two postings in two seconds, a seed quota of 1, so the
  last unit is contended and ids collide. `MarketQuota.cfg` posts nothing.
- *Demo trades*: two requests, which is what stealing takes; two foreign bodies, so
  both clients of a request or of a side can die, and two faults.
- *Matching*: up to four of ten offers, repeated ones included: the three quotes of
  the market trace, three that tie in score (two of them also in delivery time), two that
  would tie if floats were fractions (0.7 * 0.8 is 0.5599999999999999, below 0.56 * 1.0)
  and of which the faster therefore loses, one over the budget and one a thousandth
  under the reputation.
- *AXL*: two nodes, three messages, one client timeout; a forward's timeout is
  not bounded. Two nodes are what a mutual wait needs.

Every bounded action has the bound in its guard: `MaxTime`, `Amounts`,
`MaxFaults`, `Triggers`, `LockAttempts`, `MaxPosts`, `MaxSeconds`, `Sends`,
`TotalSends`, `MaxTimeouts`, `MaxForeign`, `MaxPolls`, `MaxDrops`, `MaxQuotes`. `CHECK_DEADLOCK FALSE` stands where a bounded world
runs out of things to do: a trade that is over with time at its bound, requests
all answered (or waiting for ever, see below), the window over, counters at their
maximum.

### Fairness

`KeeperFairness` of `Keeper` assumes that blocks keep coming (`WF` of `Tick`), that
the schedules keep firing (`WF` of `Scan`; every 30 and 60 seconds according to
`docs/integrations/keeperhub-workflows.md`) and that a broadcast transaction is
mined (`WF` of `MineScheduled`; finitely many are dropped). Nothing is assumed of runs
fired by hand, nor of buyers and sellers. `EveryDealEnds` holds under it, and so
does the fairness `KeeperSettles` assumes in `Trade` (`WF` of `Tick` and of `KeeperStep`):
that is what `KeeperIsFair` shows. `AnsweredOrRobbed` assumes that an event loop runs
its tasks and timers: `WF` of each buyer, each seller and each poll loop.
`EverySendIsAnswered` assumes
that a node's server thread runs, and with it the timeout of `urlopen`; nothing
of the agents or of their timeouts. `SellerHearsOfTheLock` is refuted under the
strongest fairness there is reason for, `EveryoneRuns`: strong for the seller's
handlers, which are enabled only while the seller is idle, weak elsewhere.

## 4. What is proved

Every invariant and action property of the passing runs is a theorem for all values of the constants that satisfy the modules'
named assumptions: finitely many users, tokens, deal ids, requests and nodes;
pairwise distinct addresses; windows in `uint64`; any maxima and any bounds. The
assumptions are evaluated in every run.

| Module | Theorems | Properties |
|---|---|---|
| AgentBazaarEscrow_proofs | `TokenTypeCorrect`, `TokenConserved`, `TransferNeverOverflows` | `TokenTypeOK`, `Conservation`, `AffordableTransferSucceeds` |
| | `TypeCorrect`, `EscrowSolvent`, `PayoutAlwaysPossible` | `TypeOK`, `Solvency`, `PayoutNeverReverts` |
| | `UsedIdsFinal`, `EscrowPaysDealsOnly` | `UsedIdsAreFinal`, `EscrowPaysOnlyDeals` (actions) |
| EscrowHistory_proofs | `WindowSurvives`, `BuyerRules` | `WindowSurvivesTheField`, `BuyerRulesTheDisputeWindow` (action) |
| | `PromiseKept` | `KeepsThePromise` (refinement) |
| | `DrawnWithinApproval` | `DrawsStayApproved` |
| | `KeeperTypeCorrect`, `ScheduledChecksStand`, `WaitsAreTrue` | `KeeperTypeOK`, `ChecksStayTrue`, `TruthOfWait` |
| | `KeeperIsWithinContract` | the safety half of `KeeperIsFair` |
| AgentRegistries_proofs | `RegistryTypeCorrect`, `IdentitiesAreUnique`, `RoundingIsBounded`, `FeedbackNeverOvershoots` | `RegistryTypeOK`, `OneIdentityEach`, `ReputationTracksRatings`, `FeedbackMovesTheAverage` (action) |
| Trade_proofs | `TradeTypeCorrect`, `OnePrice`, `PaidForWorkOnly`, `RatingsAreEarned` | `TradeTypeOK`, `OnePricePerTrade`, `PaidForWork`, `RatingsStandForTrades` |
| DemoTrades_proofs | `DemoTypeCorrect`, `OneTaskPerTrade`, `VerifiedIsDone` | `DemoTypeOK`, `WorkIsOneToOne`, `VerifiedMeansDone` |
| MarketService_proofs | `MarketTypeCorrect`, `BestOffer`, `NamesakesPayOnly` | `MarketTypeOK`, `BestOfferWins`, `ChargesFollowIds` |
| AxlNetwork_proofs | `AxlTypeCorrect`, `ArriveOnceInOrder`, `OkIsArrived` | `AxlTypeOK`, `OnceAndInOrder`, `OkMeansArrived` |
| Matching_proofs | `BestQuoteWins`, `LateQuotesAreFair`, `OneChoice` | `BestEligibleWins`, `LateQuotesWinOnMerit` (action), `ChoosersAgree` |

A run that adds history variables (`usdc`, `promise`) checks a property for the
specification with them; the token's and the escrow's own theorems are stated for
`TokenSpec` and `Spec` without them.

*Token.* `TokenInv` is the type invariant with conservation. A transfer is a
debit followed by a credit, each of which changes a sum at one point; two balances
are at most the sum of all, hence at most the supply, hence at most `MaxUint256`, so
a credit cannot overflow. The library's sum over a finite set is recursive; its laws
are proved from a smallest counterexample (`MinimalSubset`), without induction.
For `DrawnWithinApproval` one must know that the unlimited approval is never drawn on
in the contract's books (`given = MaxUint256 => drawn = 0`): the two branches of
`spendAllowance` look at the allowance, the promise at what was approved.

*Escrow.* Solvency alone is not inductive. `Inv` adds that a used id has a user
for its buyer, a deployed token and an amount, and that an unused one has none
(`DealsInUse`), that the escrow's own allowances are zero, so nobody can
`transferFrom` it (`EscrowApprovesNobody`), and the token's conservation. A lock
raises `Owed` and the escrow's balance by the same amount, because the payer is
a user and so not the escrow; a release or a refund lowers `Owed` by what it
pays, which is less than the balance or, when the escrow is the payee, leaves the
balance alone; the other calls touch neither; a token step never lowers the
escrow's balance.
`PayoutAlwaysPossible` follows from solvency (the deal's amount is one term of
`Owed`) and from the bound on two balances. The two action properties follow from
what each call does to one deal (`DealStepEffect`, `LockEffect`) under `Inv`.

*The promise.* `HistoryInv` ties the history to the deals: there is a deliverer from
the delivery on and not before, and the one field `deadline` with its two meanings
holds what the agreed window demands. With it every call of the contract maps to
the step of `EscrowPromise` of the same name, one lemma per call; a deposit that
belongs to no deal maps to a gift.

*Registries.* With `n` ratings and `lost = 2000 * sum - average * n`, one call
rounds away less than `n + 1`, so `2 * lost <= n * n - n` is inductive. That the
average stays on its scale gives that the cast to `uint16` never truncates.
Uniqueness needs that the accounts registered number `nextAgentId - 1`, which
bounds the ids.

*Keeper.* What was tested stays true because each condition, once it holds of a deal,
is undone only by the end of the deal: time only grows, and the deadlines of
release and refund belong to different states, so no call leads from one
condition to the other. Every step of the hub is a step of the contract's keeper
or a stutter.

*Trade.* `TradeInv` keeps the deal's parties and price, who owns which pending
transaction (nobody but the keeper's wallet locks, nobody but the seller commits), and
that every hash in a message, in a pending commitment or on the chain was
produced by the task. Since a retried lock finds the id used, the price is paid once.
`RatingInv` adds where the buyer must be for a rating to be pending or mined,
and that a delivery is only ever sent after the simulation of a commitment
found the deal locked.

*Demo trades.* `OneTrigger`: of the "locked" message of one trade there is one copy
at most, in the node, in one client's queue or in the hands of one seller. With it
no second seller can start the same trade, whoever asks the shared node first.

*Market.* With three requests a quota may rise, when a thread writes back what it
read long ago, so no step-by-step bound on the quotas exists. The invariant
instead bounds what any thread has loaded: the posted quota less what is loaded or
left is at most the number of requests that have charged the listing (`Balanced`,
`Charges`). That list and numbers run in opposite directions (`NewestFirst`) makes
the first listing found with an id the latest one that was there, and so at least as late as
the selected one. `NamesakesPayOnly` then sums over the listings with one id, by a
smallest counterexample. For the scan, every listing that was there when it began
is already seen or still ahead of the iterator: an insertion in front moves both.

*AXL.* A message is in one of three stages (in its sender's backlog, in its
recipient's, arrived). `Staged` says that, between two agents, everything in a later
stage was sent before everything in an earlier one, and that each stage is in
order; a caller that has gone marks its connection dead but leaves it in line,
which is why nothing overtakes. A dead poll proves a timeout.

*Matching.* The sort key is a strict weak order (`WeakOrder`), because floats are
totally ordered, whatever they are rounded to, and the delivery time breaks the ties of
equal ones. So the quotes a new one does not beat are an initial segment of a sorted
list, and putting it behind them keeps the list sorted. The library folds a list
by recursion over sets of indices; that this recursion has a solution is proved for any
step (`TableExists`), which unrolls a fold into the steps of its loop
(`LoopUnrolled`, `ScanUnrolled`). `LoopInv` then holds after every step: the two lists
together hold each quote as often as it was heard, and the head is the first of the
best, which is one (`FirstBestIsOne`). That it is the first of them, and not only one of
them, is what makes a late quote win on its merit. `OneChoice` needs a demanded
reputation at or above the floor of 0.01 (`MinRate >= Floor`): below it `score_quote` raises a success rate to the
floor and the market's scan does not, so the two may choose differently. Every
request of the repository demands 0.8 or more; only the schema's default of 0 lies below,
and the market replaces a 0 by 0.8 (`serve_trade_playback.py:205`).

Only model-checked, because the prover cannot do it: liveness and fairness
(`EveryDealEnds`, `KeeperSettles`, `EverySendIsAnswered`, `AnsweredOrRobbed`, the fairness
half of `KeeperIsFair`), since there is no `ENABLED` in TLAPS.

## 5. What is not modelled

- Cryptography and validation: signatures are unforgeable, a message that fails
  validation is dropped and changes nothing, as in the agents. In `run_axl_demo.py` it
  makes `model_validate` raise, which ends the buyer or the seller; `DemoTrades` has
  calls that raise, not their cause.
- Tokens other than MockUSDC; reorganisations; gas.
- Trade and Matching are not composed: in `Trade` a quote is a quote, and which one
  wins is `Matching`'s.
- The lock's idempotency key (the bare rfq id) in `Keeper`; `Trade` has the lock's retries.
- `ReplayGuard` and the size and signature limits of `threat_defense.py`; `check_approval`,
  `swap` and the bridge helpers of the Uniswap client: nothing in the repository calls them.
- What the Uniswap quote and the market-data fetch compute, beyond that they may
  raise and that the latter returns different data on each run.
- `sdk.py`: a stateless wrapper; the listing it posts is `PostListing` of `MarketService`.
- Validation of a posted listing: a quota of 0 counts as missing and becomes 10
  (`serve_trade_playback.py:176`); `MarketService` posts what comes out of it.
- Rendering, traces, environment checks, deployment.

Five behaviours are stated here because they surprise. The texts of the repository are
silent on four of them; the second one contradicts `README.md:11` ("payment settles
only after delivery is verified") and `docs/submission/SUBMISSION.md:5` and `:7`,
though `docs/integrations/keeperhub-workflows.md` describes it as intended:

- a disputed deal has no way out of the contract (`EveryDealEnds` counts a dispute
  as an end);
- the keeper releases a delivered deal whose payload the buyer never got or never
  verified, because silence is consent;
- of two listings posted in one second, perhaps by two sellers, the later one is
  charged for the trades that selected the earlier one, whatever the name of
  `_consume_selected_seller_capacity` suggests (`ChargesFollowIds` says that this is the
  only way to pay for another's trade);
- the mock node empties an inbox for a client that no longer waits, so a message
  whose sender was answered 200 may reach nobody; `OkMeansArrived` says that this takes
  a timeout;
- a UI request whose trigger another request's seller has taken has its work done
  and verified and then waits for ever for its own seller (`Robbed` in `DemoTrades`);
  `AnsweredOrRobbed` says that this is the only way to hang.

## 6. Findings

1. *The seller is never told* (`trade_trigger`). `BuyerAgent.run_one_trade` goes
   from the lock to the wait; only the demo driver sends the "locked" trigger
   that README.md and `docs/integrations/gensyn-axl.md` attribute to the buyer.
2. *The committed hash is not read* (`trade_hash`). The buyer compares a delivery
   with the hash in the same message, not with the contract's.
3. *A quota is not a limit* (`market_quota`). It is checked before the execution
   and charged after it.

## 7. Plan

Order of work, the most important behaviour first:

1. Done: token, escrow, its abstract promise, trade, registries, market, AXL; type
   correctness, solvency and payability of the escrow, conservation, the bound on
   rounding.
2. Done: the keeper and its refinement, matching, the demo's trades in gensyn mode,
   feedback composed with settlement.
3. Done: the action properties of the escrow, the refinement of its promise, the
   approvals; the invariants of the keeper, the trade, the demo's trades, the market and
   the AXL network, for every bound.
4. Done: the ranking and the market's scan, for any number of quotes.
5. To do: how the other modules rest on one another, beyond the keeper. `Trade` assumes of
   the contract what `AgentBazaarEscrow` shows (an id locked once, a deadline that bars);
   a mapping of its one deal to `_deals` would make that a theorem. Composing
   `MarketService` with `DemoTrades` would join the choice of a listing and the trade
   that charges it.

The twelve runs are kept to one per question: a new module replaces or joins a
run whose question is settled already.
