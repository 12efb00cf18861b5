-------------------------- MODULE AgentRegistries --------------------------
(***************************************************************************)
(* The ERC-8004 style registries: contracts/AgentIdentityRegistry.sol and  *)
(* contracts/AgentReputationRegistry.sol, called by Erc8004Client.  A call *)
(* whose require fails reverts: its action is not enabled.                 *)
(***************************************************************************)
EXTENDS Integers, FiniteSets

CONSTANTS Accounts, ZeroAddress,
          URIs, NoURI,
          MaxUint64,  \* width of totalTasks and successCount
          Ratings     \* ratings clients submit (a uint8)

MaxUint8 == 255
Uint8 == 0 .. MaxUint8

ASSUME RegistryAssumption ==
  /\ IsFiniteSet(Accounts) /\ ZeroAddress \notin Accounts
  /\ NoURI \notin URIs
  /\ MaxUint64 \in Nat
  /\ Ratings \subseteq Uint8

VARIABLES nextAgentId, ownerOf, agentIdOf, tokenURI,  \* identity registry
          reputation,  \* agent id -> [totalTasks, successCount, avgRatingBps]
          points       \* history: sum of the ratings of the agent's
                       \* FeedbackSubmitted events

identityVars == <<nextAgentId, ownerOf, agentIdOf, tokenURI>>
registryVars == <<identityVars, reputation, points>>

AgentIds == 0 .. Cardinality(Accounts)  \* 0: never issued
Issued == 1 .. nextAgentId - 1
MaxUint16 == 65535
Uint16 == 0 .. MaxUint16
Reputation == [totalTasks : 0 .. MaxUint64, successCount : 0 .. MaxUint64,
               avgRatingBps : Uint16]

RegistryTypeOK ==
  /\ nextAgentId \in 1 .. Cardinality(Accounts) + 1
  /\ ownerOf \in [AgentIds -> Accounts \cup {ZeroAddress}]
  /\ agentIdOf \in [Accounts -> AgentIds]
  /\ tokenURI \in [AgentIds -> URIs \cup {NoURI}]
  /\ reputation \in [AgentIds -> Reputation]
  /\ points \in [AgentIds -> Nat]

RegistryInit ==
  /\ nextAgentId = 1
  /\ ownerOf = [id \in AgentIds |-> ZeroAddress]
  /\ agentIdOf = [a \in Accounts |-> 0]
  /\ tokenURI = [id \in AgentIds |-> NoURI]
  /\ reputation = [id \in AgentIds |->
                     [totalTasks |-> 0, successCount |-> 0, avgRatingBps |-> 0]]
  /\ points = [id \in AgentIds |-> 0]
---------------------------------------------------------------------------
(* Mutant of registerAgent: a second identity for the same sender.         *)
registerAgent_again(sender, uri) ==
  /\ nextAgentId' = nextAgentId + 1
  /\ ownerOf' = [ownerOf EXCEPT ![nextAgentId] = sender]
  /\ agentIdOf' = [agentIdOf EXCEPT ![sender] = nextAgentId]
  /\ tokenURI' = [tokenURI EXCEPT ![nextAgentId] = uri]
  /\ UNCHANGED <<reputation, points>>

registerAgent(sender, uri) ==
  /\ agentIdOf[sender] = 0
  /\ nextAgentId' = nextAgentId + 1
  /\ ownerOf' = [ownerOf EXCEPT ![nextAgentId] = sender]
  /\ agentIdOf' = [agentIdOf EXCEPT ![sender] = nextAgentId]
  /\ tokenURI' = [tokenURI EXCEPT ![nextAgentId] = uri]
  /\ UNCHANGED <<reputation, points>>

setTokenURI(sender, id, uri) ==
  /\ ownerOf[id] = sender
  /\ tokenURI' = [tokenURI EXCEPT ![id] = uri]
  /\ UNCHANGED <<nextAgentId, ownerOf, agentIdOf, reputation, points>>

(* Mutant of rolled: the old average weighted with the raised count.       *)
rolled_raisedFirst(rep, rating) ==
  LET total == rep.totalTasks + 1 IN
  [totalTasks |-> total,
   successCount |-> rep.successCount + IF rating >= 4 THEN 1 ELSE 0,
   avgRatingBps |-> ((rep.avgRatingBps * total + rating * 2000)
                       \div total) % (MaxUint16 + 1)]

(* The rolling average: weight the old average with the old count, add the *)
(* rating, divide by the new count.  Every call rounds down; the cast to   *)
(* uint16 truncates.                                                       *)
rolled(rep, rating) ==
  LET total == rep.totalTasks + 1 IN
  [totalTasks |-> total,
   successCount |-> rep.successCount + IF rating >= 4 THEN 1 ELSE 0,
   avgRatingBps |-> ((rep.avgRatingBps * rep.totalTasks + rating * 2000)
                       \div total) % (MaxUint16 + 1)]

(* Mutant of submitFeedback: ratings above 5 are accepted.                 *)
submitFeedback_unchecked(sender, id, rating) ==
  /\ ownerOf[id] \notin {ZeroAddress, sender}
  /\ reputation[id].totalTasks < MaxUint64
  /\ reputation' = [reputation EXCEPT ![id] = rolled(@, rating)]
  /\ points' = [points EXCEPT ![id] = @ + rating]
  /\ UNCHANGED identityVars

submitFeedback(sender, id, rating) ==
  /\ rating <= 5
  /\ ownerOf[id] \notin {ZeroAddress, sender}
  /\ reputation[id].totalTasks < MaxUint64  \* checked addition
  /\ reputation' = [reputation EXCEPT ![id] = rolled(@, rating)]
  /\ points' = [points EXCEPT ![id] = @ + rating]
  /\ UNCHANGED identityVars

RegistryNext ==
  \E sender \in Accounts :
    \/ \E uri \in URIs : registerAgent(sender, uri)
    \/ \E id \in AgentIds, uri \in URIs : setTokenURI(sender, id, uri)
    \/ \E id \in AgentIds, rating \in Ratings : submitFeedback(sender, id, rating)

RegistrySpec == RegistryInit /\ [][RegistryNext]_registryVars
---------------------------------------------------------------------------
(* Ids are issued without gaps, every issued id has one owner and every    *)
(* account at most one id, each the inverse of the other; so an agent that *)
(* looks itself up by address finds the id its reputation is kept under.   *)
OneIdentityEach ==
  /\ \A id \in AgentIds : ownerOf[id] # ZeroAddress <=> id \in Issued
  /\ \A id \in Issued : agentIdOf[ownerOf[id]] = id
  /\ \A a \in Accounts : agentIdOf[a] # 0 =>
       agentIdOf[a] \in Issued /\ ownerOf[agentIdOf[a]] = a

(* The rolling average never exceeds the true mean of the ratings given,   *)
(* and its rounding, repeated on every call, loses at most (n - 1) / 2     *)
(* basis points of it after n ratings; it never leaves the scale of 0 to   *)
(* 10000.  The success count is a possible one for those ratings.          *)
Tracks(rep, sum) ==
  LET n == rep.totalTasks
      lost == sum * 2000 - rep.avgRatingBps * n IN
  /\ 0 <= lost /\ 2 * lost <= n * n - n
  /\ rep.avgRatingBps <= 10000
  /\ rep.successCount <= n
  /\ 4 * rep.successCount <= sum
  /\ sum <= 5 * rep.successCount + 3 * (n - rep.successCount)

ReputationTracksRatings ==
  \A id \in AgentIds : Tracks(reputation[id], points[id])

(* A feedback moves the average towards its rating and never past it: a    *)
(* rating no worse than the average cannot lower it, whatever was rounded  *)
(* away before.                                                            *)
MovesTowards(old, new, bps) ==
  \/ old <= new /\ new <= bps
  \/ bps <= new /\ new <= old

FeedbackMovesTheAverage ==
  [][\A id \in AgentIds :
       reputation'[id] # reputation[id] =>
         MovesTowards(reputation[id].avgRatingBps, reputation'[id].avgRatingBps,
                      2000 * (points'[id] - points[id]))]_registryVars
===========================================================================
