----------------------- MODULE AgentRegistries_proofs -----------------------
(***************************************************************************)
(* Proofs about AgentRegistries: for any set of accounts, any width of the *)
(* counters and any ratings submitted.                                     *)
(***************************************************************************)
EXTENDS AgentRegistries, FiniteSetTheorems, TLAPS

(* Multiplication by a natural number is monotone.                         *)
LEMMA ScaleMono ==
  ASSUME NEW a \in Int, NEW b \in Int, NEW n \in Nat, a <= b
  PROVE  a * n <= b * n
  OBVIOUS

(* What rounding a quotient down gives.                                    *)
LEMMA RoundDown ==
  ASSUME NEW a \in Nat, NEW n \in Nat \ {0}
  PROVE  /\ a \div n \in Nat
         /\ (a \div n) * n <= a
         /\ a < (a \div n) * n + n
  OBVIOUS

(* A quotient rounded down lies above b if the dividend does n times, and  *)
(* below.                                                                  *)
LEMMA QuotientBounds ==
  ASSUME NEW a \in Nat, NEW n \in Nat \ {0}, NEW b \in Nat
  PROVE  /\ b * n <= a => b <= a \div n
         /\ a <= b * n => a \div n <= b
<1> DEFINE q == a \div n
<1>0. q \in Nat /\ q * n <= a /\ a < q * n + n
  BY RoundDown
<1> HIDE DEF q
<1>1. ASSUME b * n <= a, ~(b <= q) PROVE FALSE
  <2>1. q + 1 <= b
    BY <1>0, <1>1
  <2>2. (q + 1) * n <= b * n
    BY <1>0, <2>1, ScaleMono
  <2>3. (q + 1) * n = q * n + n
    BY <1>0
  <2> QED BY <1>0, <1>1, <2>2, <2>3
<1>2. ASSUME a <= b * n, ~(q <= b) PROVE FALSE
  <2>1. b + 1 <= q
    BY <1>0, <1>2
  <2>2. (b + 1) * n <= q * n
    BY <1>0, <2>1, ScaleMono
  <2>3. (b + 1) * n = b * n + n
    OBVIOUS
  <2> QED BY <1>0, <1>2, <2>2, <2>3
<1> QED BY <1>0, <1>1, <1>2 DEF q

(* The new average q lies between the old average v and the rating b.      *)
LEMMA AverageBetween ==
  ASSUME NEW v \in Nat, NEW n \in Nat, NEW b \in Nat, NEW q \in Nat,
         q = (v * n + b) \div (n + 1)
  PROVE  MovesTowards(v, q, b)
<1>1. v * n \in Nat /\ b * n \in Nat /\ v * n + b \in Nat /\ n + 1 \in Nat \ {0}
  OBVIOUS
<1>2. v * (n + 1) = v * n + v /\ b * (n + 1) = b * n + b
  OBVIOUS
<1>3. CASE v <= b
  <2>1. v * n <= b * n
    BY <1>3, ScaleMono
  <2> DEFINE a == v * n + b
  <2>2. a \in Nat /\ v * (n + 1) <= a /\ a <= b * (n + 1)
    BY <1>1, <1>2, <1>3, <2>1
  <2>3. q = a \div (n + 1)
    OBVIOUS
  <2> HIDE DEF a
  <2>4. v <= q
    BY <1>1, <2>2, <2>3, QuotientBounds
  <2>5. q <= b
    BY <1>1, <2>2, <2>3, QuotientBounds
  <2> QED BY <2>4, <2>5 DEF MovesTowards
<1>4. CASE b < v
  <2>1. b * n <= v * n
    BY <1>4, ScaleMono
  <2> DEFINE a == v * n + b
  <2>2. a \in Nat /\ b * (n + 1) <= a /\ a <= v * (n + 1)
    BY <1>1, <1>2, <1>4, <2>1
  <2>3. q = a \div (n + 1)
    OBVIOUS
  <2> HIDE DEF a
  <2>4. b <= q
    BY <1>1, <2>2, <2>3, QuotientBounds
  <2>5. q <= v
    BY <1>1, <2>2, <2>3, QuotientBounds
  <2> QED BY <2>4, <2>5 DEF MovesTowards
<1> QED BY <1>3, <1>4

(* The loss of one more rounding, given the loss so far.                   *)
LEMMA LossGrows ==
  ASSUME NEW v \in Nat, NEW n \in Nat, NEW b \in Nat, NEW q \in Nat, NEW s \in Nat,
         q = (v * n + b) \div (n + 1),
         v * n <= s, 2 * (s - v * n) <= n * n - n
  PROVE  /\ q * (n + 1) <= s + b
         /\ 2 * ((s + b) - q * (n + 1)) <= (n + 1) * (n + 1) - (n + 1)
<1> DEFINE w == v * n
           p == q * (n + 1)
           nn == n * n
<1>1. w \in Nat /\ p \in Nat /\ nn \in Nat /\ w + b \in Nat
  OBVIOUS
<1>2. (n + 1) * (n + 1) = nn + 2 * n + 1
  OBVIOUS
<1>3. p <= w + b /\ w + b < p + (n + 1)
  <2>1. q = (w + b) \div (n + 1)
    OBVIOUS
  <2>2. n + 1 \in Nat \ {0}
    OBVIOUS
  <2> HIDE DEF w
  <2>3. q * (n + 1) <= w + b /\ w + b < q * (n + 1) + (n + 1)
    BY <1>1, <2>1, <2>2, RoundDown
  <2> QED BY <2>3
<1>4. w <= s /\ 2 * (s - w) <= nn - n
  OBVIOUS
<1> HIDE DEF w, p, nn
<1>5. p <= s + b /\ 2 * ((s + b) - p) <= (nn + 2 * n + 1) - (n + 1)
  BY <1>1, <1>3, <1>4
<1> QED BY <1>2, <1>5 DEF p

(* The new success count g1 against the new sum of ratings.                *)
LEMMA SuccessesTrack ==
  ASSUME NEW n \in Nat, NEW g \in Nat, NEW sum \in Nat, NEW r \in Nat, r <= 5,
         g <= n, 4 * g <= sum, sum <= 5 * g + 3 * (n - g)
  PROVE  LET g1 == g + IF r >= 4 THEN 1 ELSE 0 IN
         /\ g1 \in Nat /\ g1 <= n + 1 /\ 4 * g1 <= sum + r
         /\ sum + r <= 5 * g1 + 3 * ((n + 1) - g1)
  OBVIOUS

(* The new average is a natural number on the scale.                       *)
LEMMA AverageOnScale ==
  ASSUME NEW v \in Nat, NEW n \in Nat, NEW b \in Nat, v <= 10000, b <= 10000
  PROVE  /\ (v * n + b) \div (n + 1) \in Nat
         /\ (v * n + b) \div (n + 1) <= 10000
         /\ MovesTowards(v, (v * n + b) \div (n + 1), b)
<1>1. v * n + b \in Nat
  <2>1. v * n \in Nat
    OBVIOUS
  <2> QED BY <2>1
<1>2. n + 1 \in Nat \ {0}
  OBVIOUS
<1> DEFINE a == v * n + b
           m == n + 1
           q == a \div m
<1>3. a \in Nat /\ m \in Nat \ {0}
  BY <1>1, <1>2
<1>4. q \in Nat
  <2> HIDE DEF a, m
  <2> QED BY <1>3, RoundDown
<1>5. MovesTowards(v, q, b)
  <2>1. q = (v * n + b) \div (n + 1)
    OBVIOUS
  <2> HIDE DEF q
  <2> QED BY <1>4, <2>1, AverageBetween
<1>6. q <= 10000
  <2> HIDE DEF q
  <2> QED BY <1>4, <1>5 DEF MovesTowards
<1> QED BY <1>4, <1>5, <1>6

(* The rating a call adds keeps the average, the counts and the sum in     *)
(* step, and moves the average towards the rating.                         *)
LEMMA RolledKeepsTrack ==
  ASSUME NEW rep, rep \in Reputation, NEW sum \in Nat, NEW rating \in Nat, rating <= 5,
         MaxUint64 \in Nat, rep.totalTasks < MaxUint64, Tracks(rep, sum)
  PROVE  /\ rolled(rep, rating) \in Reputation
         /\ Tracks(rolled(rep, rating), sum + rating)
         /\ MovesTowards(rep.avgRatingBps, rolled(rep, rating).avgRatingBps, 2000 * rating)
<1> DEFINE n == rep.totalTasks
           g == rep.successCount
           v == rep.avgRatingBps
           b == rating * 2000
           s == sum * 2000
           q == (v * n + b) \div (n + 1)
           g1 == g + IF rating >= 4 THEN 1 ELSE 0
<1>1. n \in 0 .. MaxUint64 /\ g \in 0 .. MaxUint64 /\ v \in 0 .. MaxUint16
  BY DEF Reputation, Uint16
<1>2. n \in Nat /\ g \in Nat /\ v \in Nat /\ n < MaxUint64
  <2>1. MaxUint16 \in Nat
    BY DEF MaxUint16
  <2> QED BY <1>1, <2>1
<1>3. b \in Nat /\ b <= 10000 /\ b = 2000 * rating /\ s \in Nat /\ s + b = (sum + rating) * 2000
  OBVIOUS
<1>4. /\ 0 <= s - v * n /\ 2 * (s - v * n) <= n * n - n
      /\ v <= 10000 /\ g <= n /\ 4 * g <= sum /\ sum <= 5 * g + 3 * (n - g)
  BY DEF Tracks
<1>5. rolled(rep, rating) = [totalTasks |-> n + 1, successCount |-> g1,
                             avgRatingBps |-> q % (MaxUint16 + 1)]
  BY DEF rolled
<1> HIDE DEF n, g, v, b, s
<1>6. q \in Nat /\ q <= 10000 /\ MovesTowards(v, q, b)
  BY <1>2, <1>3, <1>4, AverageOnScale
<1>7. v * n <= s
  <2> DEFINE w == v * n
  <2>1. w \in Int
    BY <1>2
  <2> HIDE DEF w
  <2>2. 0 <= s - w => w <= s
    BY <1>3, <2>1
  <2> QED BY <1>4, <2>2 DEF w
<1>8. /\ q * (n + 1) <= s + b
      /\ 2 * ((s + b) - q * (n + 1)) <= (n + 1) * (n + 1) - (n + 1)
  <2>1. q = (v * n + b) \div (n + 1)
    OBVIOUS
  <2> HIDE DEF q
  <2> QED BY <1>2, <1>3, <1>4, <1>6, <1>7, <2>1, LossGrows
<1>9. /\ g1 \in Nat /\ g1 <= n + 1 /\ 4 * g1 <= sum + rating
      /\ sum + rating <= 5 * g1 + 3 * ((n + 1) - g1)
  BY <1>2, <1>4, SuccessesTrack
<1> HIDE DEF q, g1
<1>10. q % (MaxUint16 + 1) = q
  <2>1. q < MaxUint16 + 1 /\ MaxUint16 + 1 \in Nat \ {0}
    BY <1>6 DEF MaxUint16
  <2> QED BY <1>6, <2>1
<1>11. rolled(rep, rating) = [totalTasks |-> n + 1, successCount |-> g1, avgRatingBps |-> q]
  BY <1>5, <1>10
<1>12. n + 1 \in 0 .. MaxUint64 /\ g1 \in 0 .. MaxUint64 /\ q \in 0 .. MaxUint16
  <2>1. MaxUint16 \in Nat /\ 10000 <= MaxUint16
    BY DEF MaxUint16
  <2> QED BY <1>2, <1>6, <1>9, <2>1
<1>13. rolled(rep, rating) \in Reputation
  BY <1>11, <1>12 DEF Reputation, Uint16
<1>14. /\ rolled(rep, rating).totalTasks = n + 1
       /\ rolled(rep, rating).successCount = g1
       /\ rolled(rep, rating).avgRatingBps = q
  BY <1>11
<1>15. 0 <= (sum + rating) * 2000 - q * (n + 1)
  <2> DEFINE p == q * (n + 1)
  <2>1. p \in Nat
    BY <1>2, <1>6
  <2>2. p <= s + b
    BY <1>8
  <2> HIDE DEF p
  <2>3. 0 <= (s + b) - p
    BY <1>3, <2>1, <2>2
  <2> QED BY <1>3, <2>3 DEF p
<1>16. 2 * ((sum + rating) * 2000 - q * (n + 1)) <= (n + 1) * (n + 1) - (n + 1)
  BY <1>3, <1>8
<1>17. Tracks(rolled(rep, rating), sum + rating)
  <2> DEFINE R == rolled(rep, rating)
  <2>1. R.totalTasks = n + 1 /\ R.successCount = g1 /\ R.avgRatingBps = q
    BY <1>14
  <2> HIDE DEF R
  <2>2. Tracks(R, sum + rating)
    BY <1>6, <1>9, <1>15, <1>16, <2>1 DEF Tracks
  <2> QED BY <2>2 DEF R
<1> QED BY <1>3, <1>6, <1>13, <1>14, <1>17 DEF v
---------------------------------------------------------------------------
(* The inductive invariant: besides the properties, as many accounts have  *)
(* an id as ids were issued, which is why an id is always left for one     *)
(* that has none.                                                          *)
Registered == {a \in Accounts : agentIdOf[a] # 0}

RegistryInv ==
  /\ RegistryTypeOK
  /\ OneIdentityEach
  /\ ReputationTracksRatings
  /\ Cardinality(Registered) = nextAgentId - 1

LEMMA AccountsCounted ==
  /\ Cardinality(Accounts) \in Nat
  /\ IsFiniteSet(Registered) /\ Cardinality(Registered) \in Nat
  /\ 0 \in AgentIds
<1>1. IsFiniteSet(Accounts)
  BY RegistryAssumption
<1>2. Registered \subseteq Accounts
  BY DEF Registered
<1>3. Cardinality(Accounts) \in Nat /\ IsFiniteSet(Registered)
  BY <1>1, <1>2, FS_CardinalityType, FS_Subset
<1>4. Cardinality(Registered) \in Nat
  BY <1>3, FS_CardinalityType
<1> QED BY <1>3, <1>4 DEF AgentIds

LEMMA RegistryInitInv == RegistryInit => RegistryInv
<1> SUFFICES ASSUME RegistryInit PROVE RegistryInv
  OBVIOUS
<1> USE DEF RegistryInit
<1>1. RegistryTypeOK
  <2>1. [totalTasks |-> 0, successCount |-> 0, avgRatingBps |-> 0] \in Reputation
    <3>1. MaxUint16 \in Nat /\ MaxUint64 \in Nat
      BY RegistryAssumption DEF MaxUint16
    <3> QED BY <3>1 DEF Reputation, Uint16
  <2>2. 1 \in 1 .. Cardinality(Accounts) + 1
    BY AccountsCounted
  <2> QED BY <2>1, <2>2, AccountsCounted DEF RegistryTypeOK
<1>2. OneIdentityEach
  <2>1. Issued = {}
    BY DEF Issued
  <2> QED BY <2>1 DEF OneIdentityEach
<1>3. ReputationTracksRatings
  BY DEF ReputationTracksRatings, Tracks
<1>4. Cardinality(Registered) = nextAgentId - 1
  <2>1. Registered = {}
    BY DEF Registered
  <2> QED BY <2>1, FS_EmptySet
<1> QED BY <1>1, <1>2, <1>3, <1>4 DEF RegistryInv

LEMMA RegisterKeepsInv ==
  ASSUME NEW sender \in Accounts, NEW uri \in URIs,
         RegistryInv, registerAgent(sender, uri)
  PROVE  RegistryInv'
<1> USE DEF RegistryInv, registerAgent
<1>1. sender \notin Registered
  BY DEF Registered
<1>2. Registered' = Registered \cup {sender}
  BY DEF Registered, RegistryTypeOK, OneIdentityEach, Issued
<1>3. Cardinality(Registered') = Cardinality(Registered) + 1
  BY <1>1, <1>2, AccountsCounted, FS_AddElement
<1>4. Cardinality(Registered') <= Cardinality(Accounts)
  <2>1. Registered' \subseteq Accounts /\ IsFiniteSet(Accounts)
    BY RegistryAssumption DEF Registered
  <2> QED BY <2>1, FS_Subset
<1>5. nextAgentId \in Nat /\ nextAgentId # 0 /\ nextAgentId \in AgentIds
  BY <1>3, <1>4, AccountsCounted DEF RegistryTypeOK, AgentIds
<1>6. RegistryTypeOK'
  BY <1>5, AccountsCounted DEF RegistryTypeOK, AgentIds
<1>7. Issued' = Issued \cup {nextAgentId} /\ nextAgentId \notin Issued
  BY <1>5 DEF Issued
<1>8. OneIdentityEach'
  <2>1. ASSUME NEW id \in AgentIds
        PROVE  ownerOf'[id] # ZeroAddress <=> id \in Issued'
    BY <1>5, <1>7, RegistryAssumption DEF RegistryTypeOK, OneIdentityEach
  <2>2. ASSUME NEW id \in Issued'
        PROVE  agentIdOf'[ownerOf'[id]] = id
    <3>1. CASE id = nextAgentId
      BY <1>5, <3>1 DEF RegistryTypeOK
    <3>2. CASE id \in Issued
      <4>1. id \in AgentIds /\ id # 0 /\ id # nextAgentId
        BY <1>5, <3>2, AccountsCounted DEF Issued, AgentIds
      <4>2. ownerOf'[id] = ownerOf[id] /\ ownerOf[id] \in Accounts
        BY <3>2, <4>1 DEF RegistryTypeOK, OneIdentityEach
      <4>3. ownerOf[id] # sender
        BY <3>2, <4>1 DEF OneIdentityEach
      <4> QED BY <3>2, <4>2, <4>3 DEF RegistryTypeOK, OneIdentityEach
    <3> QED BY <1>7, <3>1, <3>2
  <2>3. ASSUME NEW a \in Accounts, agentIdOf'[a] # 0
        PROVE  agentIdOf'[a] \in Issued' /\ ownerOf'[agentIdOf'[a]] = a
    <3>1. CASE a = sender
      BY <1>5, <1>7, <3>1 DEF RegistryTypeOK
    <3>2. CASE a # sender
      <4>1. agentIdOf'[a] = agentIdOf[a] /\ agentIdOf[a] \in Issued
        BY <2>3, <3>2 DEF RegistryTypeOK, OneIdentityEach
      <4>2. agentIdOf[a] # nextAgentId /\ agentIdOf[a] \in AgentIds
        BY <1>7, <4>1 DEF RegistryTypeOK
      <4> QED BY <1>7, <2>3, <3>2, <4>1, <4>2 DEF RegistryTypeOK, OneIdentityEach
    <3> QED BY <3>1, <3>2
  <2> QED BY <2>1, <2>2, <2>3 DEF OneIdentityEach
<1>9. ReputationTracksRatings'
  BY DEF ReputationTracksRatings
<1>10. Cardinality(Registered') = nextAgentId' - 1
  BY <1>3, <1>5
<1> QED BY <1>6, <1>8, <1>9, <1>10

(* A feedback changes one agent's reputation, as rolled says.              *)
LEMMA FeedbackEffect ==
  ASSUME NEW sender \in Accounts, NEW id \in AgentIds, NEW rating \in Ratings,
         RegistryInv, submitFeedback(sender, id, rating)
  PROVE  /\ rating \in Nat /\ rating <= 5
         /\ reputation'[id] = rolled(reputation[id], rating)
         /\ points'[id] = points[id] + rating
         /\ \A other \in AgentIds \ {id} :
              reputation'[other] = reputation[other] /\ points'[other] = points[other]
         /\ rolled(reputation[id], rating) \in Reputation
         /\ Tracks(rolled(reputation[id], rating), points[id] + rating)
         /\ MovesTowards(reputation[id].avgRatingBps, reputation'[id].avgRatingBps,
                         2000 * rating)
<1> USE DEF RegistryInv
<1>1. rating \in Nat /\ rating <= 5
  <2>1. MaxUint8 \in Nat
    BY DEF MaxUint8
  <2> QED BY <2>1, RegistryAssumption DEF submitFeedback, Uint8
<1>2. /\ reputation'[id] = rolled(reputation[id], rating)
      /\ points'[id] = points[id] + rating
      /\ \A other \in AgentIds \ {id} :
           reputation'[other] = reputation[other] /\ points'[other] = points[other]
  BY DEF submitFeedback, RegistryTypeOK
<1>3. /\ reputation[id] \in Reputation /\ points[id] \in Nat
      /\ reputation[id].totalTasks < MaxUint64 /\ MaxUint64 \in Nat
      /\ Tracks(reputation[id], points[id])
  BY RegistryAssumption DEF RegistryTypeOK, ReputationTracksRatings, submitFeedback
<1> QED BY <1>1, <1>2, <1>3, RolledKeepsTrack

LEMMA FeedbackKeepsInv ==
  ASSUME NEW sender \in Accounts, NEW id \in AgentIds, NEW rating \in Ratings,
         RegistryInv, submitFeedback(sender, id, rating)
  PROVE  RegistryInv'
<1> USE DEF RegistryInv
<1>1. UNCHANGED <<nextAgentId, ownerOf, agentIdOf, tokenURI>>
  BY DEF submitFeedback, identityVars
<1>2. RegistryTypeOK'
  <2>1. reputation' \in [AgentIds -> Reputation]
    <3> DEFINE new == rolled(reputation[id], rating)
    <3>1. reputation' = [reputation EXCEPT ![id] = new]
      BY DEF submitFeedback
    <3>2. new \in Reputation
      BY FeedbackEffect
    <3> HIDE DEF new
    <3> QED BY <3>1, <3>2 DEF RegistryTypeOK
  <2>2. points' \in [AgentIds -> Nat]
    <3>1. points' = [points EXCEPT ![id] = points[id] + rating]
      BY DEF submitFeedback
    <3>2. points[id] + rating \in Nat
      BY FeedbackEffect DEF RegistryTypeOK
    <3> QED BY <3>1, <3>2 DEF RegistryTypeOK
  <2> QED BY <1>1, <2>1, <2>2 DEF RegistryTypeOK
<1>3. OneIdentityEach'
  BY <1>1 DEF OneIdentityEach, Issued
<1>4. ReputationTracksRatings'
  BY FeedbackEffect DEF ReputationTracksRatings
<1>5. Cardinality(Registered') = nextAgentId' - 1
  BY <1>1 DEF Registered
<1> QED BY <1>2, <1>3, <1>4, <1>5

LEMMA RegistryStepInv == RegistryInv /\ [RegistryNext]_registryVars => RegistryInv'
<1> SUFFICES ASSUME RegistryInv, [RegistryNext]_registryVars PROVE RegistryInv'
  OBVIOUS
<1>1. ASSUME NEW sender \in Accounts, NEW uri \in URIs, registerAgent(sender, uri)
      PROVE  RegistryInv'
  BY <1>1, RegisterKeepsInv
<1>2. ASSUME NEW sender \in Accounts, NEW id \in AgentIds, NEW uri \in URIs,
             setTokenURI(sender, id, uri)
      PROVE  RegistryInv'
  BY <1>2 DEF RegistryInv, setTokenURI, RegistryTypeOK, OneIdentityEach, Issued,
              ReputationTracksRatings, Registered
<1>3. ASSUME NEW sender \in Accounts, NEW id \in AgentIds, NEW rating \in Ratings,
             submitFeedback(sender, id, rating)
      PROVE  RegistryInv'
  BY <1>3, FeedbackKeepsInv
<1>4. CASE UNCHANGED registryVars
  BY <1>4 DEF RegistryInv, registryVars, identityVars, RegistryTypeOK,
              OneIdentityEach, Issued, ReputationTracksRatings, Registered
<1> QED BY <1>1, <1>2, <1>3, <1>4 DEF RegistryNext

LEMMA RegistryInvariant == RegistrySpec => []RegistryInv
BY RegistryInitInv, RegistryStepInv, PTL DEF RegistrySpec

(* The registries' variables keep their types: ids never run out, and the  *)
(* counters and the average never leave their widths.                      *)
THEOREM RegistryTypeCorrect == RegistrySpec => []RegistryTypeOK
<1>1. RegistryInv => RegistryTypeOK
  BY DEF RegistryInv
<1> QED BY <1>1, RegistryInvariant, PTL

(* Addresses and issued ids are each other's inverses.                     *)
THEOREM IdentitiesAreUnique == RegistrySpec => []OneIdentityEach
<1>1. RegistryInv => OneIdentityEach
  BY DEF RegistryInv
<1> QED BY <1>1, RegistryInvariant, PTL

(* The rounding of the rolling average stays within (n - 1) / 2 basis      *)
(* points after n ratings, for every sequence of ratings.                  *)
THEOREM RoundingIsBounded == RegistrySpec => []ReputationTracksRatings
<1>1. RegistryInv => ReputationTracksRatings
  BY DEF RegistryInv
<1> QED BY <1>1, RegistryInvariant, PTL

(* No feedback moves the average away from its rating, or past it.         *)
THEOREM FeedbackNeverOvershoots == RegistrySpec => FeedbackMovesTheAverage
<1> DEFINE Moved(id) ==
       reputation'[id] # reputation[id] =>
         MovesTowards(reputation[id].avgRatingBps, reputation'[id].avgRatingBps,
                      2000 * (points'[id] - points[id]))
<1>1. RegistryInv /\ [RegistryNext]_registryVars
        => [\A id \in AgentIds : Moved(id)]_registryVars
  <2> SUFFICES ASSUME RegistryInv, RegistryNext, NEW agent \in AgentIds,
                      reputation'[agent] # reputation[agent]
               PROVE  Moved(agent)
    OBVIOUS
  <2>1. PICK sender \in Accounts, id \in AgentIds, rating \in Ratings :
          submitFeedback(sender, id, rating)
    BY DEF RegistryNext, registerAgent, setTokenURI
  <2>2. agent = id
    BY <2>1, FeedbackEffect
  <2>3. points[id] \in Nat
    BY DEF RegistryInv, RegistryTypeOK
  <2>4. rating \in Nat /\ points'[id] = points[id] + rating
    BY <2>1, FeedbackEffect
  <2>5. points'[id] - points[id] = rating
    BY <2>3, <2>4
  <2>6. MovesTowards(reputation[id].avgRatingBps, reputation'[id].avgRatingBps, 2000 * rating)
    BY <2>1, FeedbackEffect
  <2> QED BY <2>2, <2>5, <2>6
<1> QED BY <1>1, RegistryInvariant, PTL DEF RegistrySpec, FeedbackMovesTheAverage
============================================================================
