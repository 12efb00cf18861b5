---------------------- MODULE AgentBazaarEscrow_proofs ----------------------
(***************************************************************************)
(* The contracts of the payment, for any number of users, tokens and deals *)
(* and any amounts and windows, in three parts: sums over finite sets, the *)
(* token (type correctness, conservation), the escrow (type correctness,   *)
(* solvency, what a step may never do).                                    *)
(*                                                                         *)
(* The escrow's inductive invariant Inv adds to types and solvency what a  *)
(* deal in use holds (DealsInUse), without which a payout could name no    *)
(* token, and the conservation of every token, without which a payee's     *)
(* balance could be too full to be paid.                                   *)
(***************************************************************************)
EXTENDS AgentBazaarEscrow, FiniteSetTheorems, WellFoundedInduction, TLAPS

(***************************************************************************)
(* Part 1.  SumFunctionOnSet(f, S), the sum of f[x] over a finite set S    *)
(* (module Functions): the sum of all balances, of all amounts in custody. *)
(* It is a recursive function over the subsets of S, so each fact needs    *)
(* induction on finite sets; the induction is done with a smallest         *)
(* counterexample (MinimalSubset), which needs no operator parameter.      *)
(***************************************************************************)
(* The element a fold removes first. *)
Pick(T) == CHOOSE x \in T : TRUE

(* g holds the sum of f over every subset of S. *)
IsPartialSums(g, f, S) ==
  g = [T \in SUBSET S |-> IF T = {} THEN 0 ELSE f[Pick(T)] + g[T \ {Pick(T)}]]

PartialSums(f, S) == CHOOSE g : IsPartialSums(g, f, S)

(* A non-empty family of subsets of a finite set has a member no proper    *)
(* subset of which is in the family.                                       *)
LEMMA MinimalSubset ==
  ASSUME NEW S, IsFiniteSet(S), NEW B \in SUBSET (SUBSET S), B # {}
  PROVE  \E T \in B : \A U \in B : U \subseteq T => U = T
<1>1. FiniteSubsetsOf(S) = SUBSET S
  BY FS_FiniteSubsetsOfFinite
<1>2. IsWellFoundedOn(StrictSubsetOrdering(S), SUBSET S)
  BY <1>1, FS_StrictSubsetOrderingWellFounded
<1>3. \E T \in B : \A U \in B : <<U, T>> \notin StrictSubsetOrdering(S)
  BY <1>2, WFMin
<1>4. QED
  BY <1>3 DEF StrictSubsetOrdering

(* The library's sum is the last entry of the table of partial sums.       *)
LEMMA SumIsPartialSums ==
  ASSUME NEW f, NEW S
  PROVE  SumFunctionOnSet(f, S) = PartialSums(f, S)[S]
BY DEF SumFunctionOnSet, FoldFunctionOnSet, MapThenFoldSet, PartialSums,
       IsPartialSums, Pick

(* Two tables, over possibly different sets, agree wherever both are       *)
(* defined.                                                                *)
LEMMA PartialSumsAgree ==
  ASSUME NEW f, NEW S, IsFiniteSet(S), NEW g, IsPartialSums(g, f, S),
         NEW R, NEW h, IsPartialSums(h, f, R)
  PROVE  \A T \in SUBSET (S \cap R) : g[T] = h[T]
<1> DEFINE B == {T \in SUBSET (S \cap R) : g[T] # h[T]}
<1> SUFFICES ASSUME B # {} PROVE FALSE
  OBVIOUS
<1>1. PICK T \in B : \A U \in B : U \subseteq T => U = T
  <2>1. B \in SUBSET (SUBSET S)
    OBVIOUS
  <2> HIDE DEF B
  <2>2. QED
    BY <2>1, MinimalSubset
<1>2. CASE T = {}
  BY <1>2, <1>1 DEF IsPartialSums
<1>3. CASE T # {}
  <2>1. Pick(T) \in T
    BY <1>3 DEF Pick
  <2>2. g[T \ {Pick(T)}] = h[T \ {Pick(T)}]
    BY <2>1, <1>1
  <2>3. g[T] = f[Pick(T)] + g[T \ {Pick(T)}]
    BY <1>3 DEF IsPartialSums
  <2>4. h[T] = f[Pick(T)] + h[T \ {Pick(T)}]
    BY <1>3 DEF IsPartialSums
  <2>5. QED
    BY <2>2, <2>3, <2>4
<1>4. QED
  BY <1>2, <1>3

(* The table exists for every finite set.                                  *)
LEMMA PartialSumsExist ==
  ASSUME NEW f, NEW S, IsFiniteSet(S)
  PROVE  IsPartialSums(PartialSums(f, S), f, S)
<1> DEFINE B == {T \in SUBSET S : ~ \E g : IsPartialSums(g, f, T)}
<1>1. ASSUME B # {} PROVE FALSE
  <2>1. PICK T \in B : \A U \in B : U \subseteq T => U = T
    <3>1. B \in SUBSET (SUBSET S)
      OBVIOUS
    <3> HIDE DEF B
    <3>2. QED
      BY <3>1, <1>1, MinimalSubset
  <2> DEFINE value(U) == PartialSums(f, U)[U]
             g == [U \in SUBSET T |-> IF U = {} THEN 0
                     ELSE f[Pick(U)] + value(U \ {Pick(U)})]
  <2>2. ASSUME NEW U \in SUBSET T, U # T
        PROVE  IsPartialSums(PartialSums(f, U), f, U)
    <3>1. U \notin B
      BY <2>1, <2>2
    <3>2. \E h : IsPartialSums(h, f, U)
      BY <3>1
    <3>3. QED
      BY <3>2 DEF PartialSums
  <2>3. ASSUME NEW U \in SUBSET T, U # {}, U # T
        PROVE  PartialSums(f, U)[U] = f[Pick(U)] + value(U \ {Pick(U)})
    <3> DEFINE V == U \ {Pick(U)}
    <3>1. Pick(U) \in U
      BY <2>3 DEF Pick
    <3>2. IsPartialSums(PartialSums(f, U), f, U)
      BY <2>2, <2>3
    <3>3. IsPartialSums(PartialSums(f, V), f, V)
      BY <2>2, <2>3, <3>1
    <3>4. IsFiniteSet(U)
      BY FS_Subset
    <3>5. PartialSums(f, U)[V] = PartialSums(f, V)[V]
      BY <3>1, <3>2, <3>3, <3>4, PartialSumsAgree
    <3>6. PartialSums(f, U)[U] = f[Pick(U)] + PartialSums(f, U)[V]
      BY <3>2, <2>3 DEF IsPartialSums
    <3>7. QED
      BY <3>5, <3>6
  <2>4. ASSUME NEW U \in SUBSET T, U # T PROVE g[U] = value(U)
    <3>1. CASE U = {}
      BY <3>1, <2>2, <2>4 DEF IsPartialSums
    <3>2. CASE U # {}
      BY <3>2, <2>3, <2>4
    <3>3. QED
      BY <3>1, <3>2
  <2>5. g = [U \in SUBSET T |-> IF U = {} THEN 0 ELSE f[Pick(U)] + g[U \ {Pick(U)}]]
    <3>1. ASSUME NEW U \in SUBSET T, U # {}
          PROVE  g[U \ {Pick(U)}] = value(U \ {Pick(U)})
      <4>1. Pick(U) \in U
        BY <3>1 DEF Pick
      <4>2. U \ {Pick(U)} \in SUBSET T /\ U \ {Pick(U)} # T
        BY <4>1
      <4>3. QED
        BY <4>2, <2>4
    <3>2. QED
      BY <3>1
  <2>6. IsPartialSums(g, f, T)
    BY <2>5 DEF IsPartialSums
  <2>7. QED
    BY <2>1, <2>6
<1>2. \E g : IsPartialSums(g, f, S)
  BY <1>1
<1>3. QED
  BY <1>2 DEF PartialSums

THEOREM SumEmpty ==
  ASSUME NEW f
  PROVE  SumFunctionOnSet(f, {}) = 0
<1>1. IsPartialSums(PartialSums(f, {}), f, {})
  BY PartialSumsExist, FS_EmptySet
<1>2. QED
  BY <1>1, SumIsPartialSums DEF IsPartialSums

(* A sum unfolds at the element the fold removes first.                    *)
LEMMA SumUnfold ==
  ASSUME NEW f, NEW S, IsFiniteSet(S), S # {}
  PROVE  /\ Pick(S) \in S
         /\ SumFunctionOnSet(f, S)
              = f[Pick(S)] + SumFunctionOnSet(f, S \ {Pick(S)})
<1> DEFINE V == S \ {Pick(S)}
<1>1. Pick(S) \in S
  BY DEF Pick
<1>2. IsFiniteSet(V)
  BY FS_RemoveElement
<1>3. IsPartialSums(PartialSums(f, S), f, S)
  BY PartialSumsExist
<1>4. IsPartialSums(PartialSums(f, V), f, V)
  BY <1>2, PartialSumsExist
<1>5. PartialSums(f, S)[V] = PartialSums(f, V)[V]
  BY <1>1, <1>3, <1>4, PartialSumsAgree
<1>6. PartialSums(f, S)[S] = f[Pick(S)] + PartialSums(f, S)[V]
  BY <1>3 DEF IsPartialSums
<1>7. QED
  BY <1>1, <1>5, <1>6, SumIsPartialSums

(* A sum of naturals is a natural.                                         *)
THEOREM SumNat ==
  ASSUME NEW f, NEW S, IsFiniteSet(S), \A x \in S : f[x] \in Nat
  PROVE  SumFunctionOnSet(f, S) \in Nat
<1> DEFINE B == {T \in SUBSET S : SumFunctionOnSet(f, T) \notin Nat}
<1> SUFFICES ASSUME B # {} PROVE FALSE
  OBVIOUS
<1>1. PICK T \in B : \A U \in B : U \subseteq T => U = T
  <2>1. B \in SUBSET (SUBSET S)
    OBVIOUS
  <2> HIDE DEF B
  <2>2. QED
    BY <2>1, MinimalSubset
<1>2. IsFiniteSet(T)
  BY FS_Subset
<1>3. T # {}
  <2>1. ASSUME T = {} PROVE SumFunctionOnSet(f, T) = 0
    BY <2>1, SumEmpty
  <2>2. SumFunctionOnSet(f, T) \notin Nat
    BY <1>1
  <2>3. QED
    BY <2>1, <2>2
<1>4. Pick(T) \in T
  BY <1>2, <1>3, SumUnfold
<1>5. SumFunctionOnSet(f, T) = f[Pick(T)] + SumFunctionOnSet(f, T \ {Pick(T)})
  BY <1>2, <1>3, SumUnfold
<1>6. SumFunctionOnSet(f, T \ {Pick(T)}) \in Nat
  BY <1>1, <1>4
<1>7. SumFunctionOnSet(f, T) \in Nat
  <2>1. f[Pick(T)] \in Nat
    BY <1>4
  <2>2. QED
    BY <1>5, <1>6, <2>1
<1>8. QED
  BY <1>7

(* Any element can be split off a sum.                                     *)
THEOREM SumRemove ==
  ASSUME NEW f, NEW S, IsFiniteSet(S), \A x \in S : f[x] \in Nat, NEW y \in S
  PROVE  SumFunctionOnSet(f, S) = f[y] + SumFunctionOnSet(f, S \ {y})
<1> DEFINE Sum(T) == SumFunctionOnSet(f, T)
           B == {T \in SUBSET S : \E x \in T : Sum(T) # f[x] + Sum(T \ {x})}
<1>1. ASSUME B # {} PROVE FALSE
  <2>1. PICK T \in B : \A U \in B : U \subseteq T => U = T
    <3>1. B \in SUBSET (SUBSET S)
      OBVIOUS
    <3> HIDE DEF B
    <3>2. QED
      BY <3>1, <1>1, MinimalSubset
  <2>2. PICK x \in T : Sum(T) # f[x] + Sum(T \ {x})
    BY <2>1
  <2> DEFINE p == Pick(T)
  <2>3. IsFiniteSet(T)
    BY FS_Subset
  <2>4. p \in T /\ Sum(T) = f[p] + Sum(T \ {p})
    BY <2>2, <2>3, SumUnfold
  <2>5. p # x
    BY <2>2, <2>4
  <2>6. Sum(T \ {p}) = f[x] + Sum((T \ {p}) \ {x})
    BY <2>1, <2>4, <2>5
  <2>7. Sum(T \ {x}) = f[p] + Sum((T \ {x}) \ {p})
    BY <2>1, <2>2, <2>4, <2>5
  <2>8. (T \ {p}) \ {x} = (T \ {x}) \ {p}
    OBVIOUS
  <2>9. f[p] \in Nat /\ f[x] \in Nat /\ Sum((T \ {x}) \ {p}) \in Nat
    <3>1. IsFiniteSet((T \ {x}) \ {p})
      BY <2>3, FS_RemoveElement
    <3>2. QED
      BY <2>4, <3>1, SumNat
  <2> DEFINE r == Sum((T \ {x}) \ {p})
  <2>10. Sum(T) = f[p] + (f[x] + r)
    BY <2>4, <2>6, <2>8
  <2>11. f[x] + Sum(T \ {x}) = f[x] + (f[p] + r)
    BY <2>7
  <2>12. f[p] + (f[x] + r) = f[x] + (f[p] + r)
    <3> HIDE DEF r, p
    <3>1. \A i, j, k \in Nat : i + (j + k) = j + (i + k)
      OBVIOUS
    <3>2. f[p] \in Nat /\ f[x] \in Nat /\ r \in Nat
      BY <2>9 DEF r
    <3>3. QED
      BY <3>1, <3>2
  <2>13. QED
    BY <2>2, <2>10, <2>11, <2>12
<1>2. QED
  BY <1>1

(* A sum depends only on the summands.                                     *)
THEOREM SumSame ==
  ASSUME NEW f, NEW g, NEW S, IsFiniteSet(S), \A x \in S : f[x] = g[x]
  PROVE  SumFunctionOnSet(f, S) = SumFunctionOnSet(g, S)
<1> DEFINE B == {T \in SUBSET S : SumFunctionOnSet(f, T) # SumFunctionOnSet(g, T)}
<1> SUFFICES ASSUME B # {} PROVE FALSE
  OBVIOUS
<1>1. PICK T \in B : \A U \in B : U \subseteq T => U = T
  <2>1. B \in SUBSET (SUBSET S)
    OBVIOUS
  <2> HIDE DEF B
  <2>2. QED
    BY <2>1, MinimalSubset
<1>2. IsFiniteSet(T)
  BY FS_Subset
<1>3. T # {}
  BY SumEmpty, <1>1
<1>4. Pick(T) \in T
  BY <1>2, <1>3, SumUnfold
<1>5. SumFunctionOnSet(f, T \ {Pick(T)}) = SumFunctionOnSet(g, T \ {Pick(T)})
  BY <1>1, <1>4
<1>6. /\ SumFunctionOnSet(f, T) = f[Pick(T)] + SumFunctionOnSet(f, T \ {Pick(T)})
      /\ SumFunctionOnSet(g, T) = g[Pick(T)] + SumFunctionOnSet(g, T \ {Pick(T)})
  BY <1>2, <1>3, SumUnfold
<1>7. f[Pick(T)] = g[Pick(T)]
  BY <1>4
<1>8. QED
  BY <1>1, <1>5, <1>6, <1>7

(* Changing one summand changes the sum by the difference.                 *)
THEOREM SumChange ==
  ASSUME NEW f, NEW g, NEW S, IsFiniteSet(S), NEW y \in S,
         \A x \in S : f[x] \in Nat /\ g[x] \in Nat,
         \A x \in S \ {y} : g[x] = f[x]
  PROVE  SumFunctionOnSet(g, S) = SumFunctionOnSet(f, S) - f[y] + g[y]
<1> DEFINE R == S \ {y}
<1>1. IsFiniteSet(R)
  BY FS_RemoveElement
<1>2. SumFunctionOnSet(f, R) = SumFunctionOnSet(g, R)
  BY <1>1, SumSame
<1>3. SumFunctionOnSet(f, R) \in Nat
  BY <1>1, SumNat
<1>4. SumFunctionOnSet(f, S) = f[y] + SumFunctionOnSet(f, R)
  BY SumRemove
<1>5. SumFunctionOnSet(g, S) = g[y] + SumFunctionOnSet(g, R)
  BY SumRemove
<1>6. f[y] \in Nat /\ g[y] \in Nat
  OBVIOUS
<1> HIDE DEF R
<1>7. QED
  BY <1>2, <1>3, <1>4, <1>5, <1>6

(* One summand is no larger than the sum.                                  *)
THEOREM SummandBound ==
  ASSUME NEW f, NEW S, IsFiniteSet(S), \A x \in S : f[x] \in Nat, NEW y \in S
  PROVE  f[y] <= SumFunctionOnSet(f, S)
<1>1. SumFunctionOnSet(f, S \ {y}) \in Nat
  <2>1. IsFiniteSet(S \ {y})
    BY FS_RemoveElement
  <2>2. QED
    BY <2>1, SumNat
<1>2. SumFunctionOnSet(f, S) = f[y] + SumFunctionOnSet(f, S \ {y})
  BY SumRemove
<1>3. QED
  BY <1>1, <1>2

(* A sum of zeros is zero.                                                 *)
THEOREM SumZero ==
  ASSUME NEW f, NEW S, IsFiniteSet(S), \A x \in S : f[x] = 0
  PROVE  SumFunctionOnSet(f, S) = 0
<1> DEFINE B == {T \in SUBSET S : SumFunctionOnSet(f, T) # 0}
<1> SUFFICES ASSUME B # {} PROVE FALSE
  OBVIOUS
<1>1. PICK T \in B : \A U \in B : U \subseteq T => U = T
  <2>1. B \in SUBSET (SUBSET S)
    OBVIOUS
  <2> HIDE DEF B
  <2>2. QED
    BY <2>1, MinimalSubset
<1>2. IsFiniteSet(T)
  BY FS_Subset
<1>3. T # {}
  BY SumEmpty, <1>1
<1>4. Pick(T) \in T
  BY <1>2, <1>3, SumUnfold
<1>5. SumFunctionOnSet(f, T) = f[Pick(T)] + SumFunctionOnSet(f, T \ {Pick(T)})
  BY <1>2, <1>3, SumUnfold
<1>6. SumFunctionOnSet(f, T \ {Pick(T)}) = 0
  BY <1>1, <1>4
<1>7. f[Pick(T)] = 0
  BY <1>4
<1>8. QED
  BY <1>1, <1>5, <1>6, <1>7

---------------------------------------------------------------------------
(***************************************************************************)
(* Part 2.  The token.  The lemmas about single calls serve the escrow     *)
(* too, where the same calls are made by the contract.                     *)
(***************************************************************************)
LEMMA AddressesFinite == IsFiniteSet(Addresses)
<1>1. IsFiniteSet(Users \cup Tokens)
  BY FiniteAddressesAssumption, FS_Union
<1>2. IsFiniteSet({Escrow, ZeroAddress})
  <2>1. IsFiniteSet({Escrow} \cup {ZeroAddress})
    BY FS_EmptySet, FS_AddElement, FS_Singleton
  <2>2. {Escrow, ZeroAddress} = {Escrow} \cup {ZeroAddress}
    OBVIOUS
  <2>3. QED
    BY <2>1, <2>2
<1>3. QED
  BY <1>1, <1>2, FS_Union DEF Addresses

(* What a transfer leaves behind, for two accounts or for one.             *)
LEMMA MoveBalanceEffect ==
  ASSUME TokenTypeOK, NEW t \in Tokens, NEW from \in Addresses,
         NEW to \in Addresses, NEW amount \in Nat,
         moveBalance(t, from, to, amount)
  PROVE  /\ amount <= balanceOf[t][from]
         /\ balanceOf' \in [Tokens -> [Addresses -> Uint256]]
         /\ \A s \in Tokens \ {t} : balanceOf'[s] = balanceOf[s]
         /\ \A a \in Addresses \ {from, to} : balanceOf'[t][a] = balanceOf[t][a]
         /\ from # to => /\ balanceOf'[t][from] = balanceOf[t][from] - amount
                         /\ balanceOf'[t][to] = balanceOf[t][to] + amount
         /\ from = to => balanceOf'[t] = balanceOf[t]
<1> DEFINE debited == [balanceOf[t] EXCEPT ![from] = @ - amount]
           credited == [debited EXCEPT ![to] = @ + amount]
<1>1. /\ amount <= balanceOf[t][from]
      /\ debited[to] + amount <= MaxUint256
      /\ balanceOf' = [balanceOf EXCEPT ![t] = credited]
  BY DEF moveBalance
<1>2. /\ balanceOf \in [Tokens -> [Addresses -> Uint256]]
      /\ MaxUint256 \in Nat
      /\ balanceOf[t] \in [Addresses -> Uint256]
  BY AmountAssumption DEF TokenTypeOK
<1>3. debited \in [Addresses -> Uint256]
  BY <1>1, <1>2 DEF Uint256
<1>4. credited \in [Addresses -> Uint256]
  <2>1. debited[to] + amount \in Uint256
    BY <1>1, <1>2, <1>3 DEF Uint256
  <2> HIDE DEF debited
  <2>2. QED
    BY <1>3, <2>1
<1>5. \A a \in Addresses \ {from, to} : credited[a] = balanceOf[t][a]
  BY <1>2
<1>6. from # to => /\ credited[from] = balanceOf[t][from] - amount
                   /\ credited[to] = balanceOf[t][to] + amount
  BY <1>2
<1>7. from = to => credited = balanceOf[t]
  BY <1>1, <1>2 DEF Uint256
<1> HIDE DEF credited
<1>8. QED
  BY <1>1, <1>2, <1>4, <1>5, <1>6, <1>7

LEMMA MoveBalanceConserves ==
  ASSUME TokenTypeOK, NEW t \in Tokens, NEW from \in Addresses,
         NEW to \in Addresses, NEW amount \in Nat,
         moveBalance(t, from, to, amount)
  PROVE  \A s \in Tokens : SumFunctionOnSet(balanceOf'[s], Addresses)
                             = SumFunctionOnSet(balanceOf[s], Addresses)
<1>1. CASE from = to
  BY <1>1, MoveBalanceEffect
<1>2. CASE from # to
  <2> DEFINE b == balanceOf[t]
             mid == [b EXCEPT ![from] = @ - amount]
             b1 == balanceOf'[t]
  <2>1. b \in [Addresses -> Nat] /\ b1 \in [Addresses -> Nat]
    <3>1. Uint256 \subseteq Nat
      BY AmountAssumption DEF Uint256
    <3>2. b \in [Addresses -> Uint256]
      BY DEF TokenTypeOK
    <3>3. b1 \in [Addresses -> Uint256]
      BY MoveBalanceEffect
    <3> HIDE DEF b, b1
    <3>4. QED
      BY <3>1, <3>2, <3>3
  <2>2. mid \in [Addresses -> Nat]
    BY <2>1, MoveBalanceEffect
  <2>3. /\ b1[from] = b[from] - amount /\ b1[to] = b[to] + amount
        /\ \A a \in Addresses \ {from, to} : b1[a] = b[a]
    BY <1>2, MoveBalanceEffect
  <2>4. /\ mid[from] = b[from] - amount
        /\ \A a \in Addresses \ {from} : mid[a] = b[a]
    BY <2>1
  <2>5. \A a \in Addresses \ {to} : b1[a] = mid[a]
    BY <2>3, <2>4
  <2> HIDE DEF b, mid, b1
  <2>6. SumFunctionOnSet(mid, Addresses)
          = SumFunctionOnSet(b, Addresses) - b[from] + mid[from]
    BY <2>1, <2>2, <2>4, AddressesFinite, SumChange
  <2>7. SumFunctionOnSet(b1, Addresses)
          = SumFunctionOnSet(mid, Addresses) - mid[to] + b1[to]
    BY <2>1, <2>2, <2>5, AddressesFinite, SumChange
  <2>8. SumFunctionOnSet(b, Addresses) \in Nat
    BY <2>1, AddressesFinite, SumNat
  <2>9. SumFunctionOnSet(b1, Addresses) = SumFunctionOnSet(b, Addresses)
    <3>1. mid[to] = b[to]
      BY <1>2, <2>4
    <3>2. b[from] \in Nat /\ b[to] \in Nat
      BY <2>1
    <3>3. QED
      BY <2>3, <2>4, <2>6, <2>7, <2>8, <3>1, <3>2
  <2>10. QED
    BY <2>9, MoveBalanceEffect DEF b, b1
<1>3. QED
  BY <1>1, <1>2

(* Every call keeps types and conservation.                                *)
TokenInv == TokenTypeOK /\ Conservation

LEMMA TransferKeepsInv ==
  ASSUME TokenInv, NEW t \in Tokens, NEW from \in Addresses,
         NEW to \in Addresses, NEW amount \in Nat,
         transfer(t, from, to, amount)
  PROVE  TokenInv'
<1>1. moveBalance(t, from, to, amount) /\ UNCHANGED <<totalSupply, allowance>>
  BY DEF transfer
<1>2. TokenTypeOK'
  BY <1>1, MoveBalanceEffect DEF TokenInv, TokenTypeOK
<1>3. Conservation'
  BY <1>1, MoveBalanceConserves DEF TokenInv, Conservation
<1>4. QED
  BY <1>2, <1>3 DEF TokenInv

LEMMA TransferFromKeepsInv ==
  ASSUME TokenInv, NEW t \in Tokens, NEW spender \in Addresses,
         NEW from \in Addresses, NEW to \in Addresses, NEW amount \in Nat,
         transferFrom(t, spender, from, to, amount)
  PROVE  TokenInv'
<1>1. /\ moveBalance(t, from, to, amount)
      /\ spendAllowance(t, from, spender, amount)
      /\ UNCHANGED totalSupply
  BY DEF transferFrom
<1>2. allowance' \in [Tokens -> [Addresses -> [Addresses -> Uint256]]]
  <2>1. CASE UNCHANGED allowance
    BY <2>1 DEF TokenInv, TokenTypeOK
  <2>2. CASE /\ amount <= allowance[t][from][spender]
             /\ allowance' = [allowance EXCEPT ![t][from][spender] = @ - amount]
    <3>1. allowance[t][from][spender] \in Uint256
      BY DEF TokenInv, TokenTypeOK
    <3>2. allowance[t][from][spender] - amount \in Uint256
      BY <2>2, <3>1, AmountAssumption DEF Uint256
    <3>3. QED
      BY <2>2, <3>2 DEF TokenInv, TokenTypeOK
  <2>3. QED
    BY <1>1, <2>1, <2>2 DEF spendAllowance
<1>3. TokenTypeOK'
  BY <1>1, <1>2, MoveBalanceEffect DEF TokenInv, TokenTypeOK
<1>4. Conservation'
  BY <1>1, MoveBalanceConserves DEF TokenInv, Conservation
<1>5. QED
  BY <1>3, <1>4 DEF TokenInv

LEMMA MintKeepsInv ==
  ASSUME TokenInv, NEW t \in Tokens, NEW to \in Addresses, NEW amount \in Nat,
         mint(t, to, amount)
  PROVE  TokenInv'
<1>1. /\ totalSupply[t] + amount <= MaxUint256
      /\ balanceOf[t][to] + amount <= MaxUint256
      /\ totalSupply' = [totalSupply EXCEPT ![t] = @ + amount]
      /\ balanceOf' = [balanceOf EXCEPT ![t][to] = @ + amount]
      /\ UNCHANGED allowance
  BY DEF mint
<1>2. TokenTypeOK
  BY DEF TokenInv
<1>3. totalSupply[t] \in Uint256 /\ balanceOf[t][to] \in Uint256
  BY <1>2 DEF TokenTypeOK
<1>4. totalSupply[t] + amount \in Uint256 /\ balanceOf[t][to] + amount \in Uint256
  BY <1>1, <1>3, AmountAssumption DEF Uint256
<1>5. TokenTypeOK'
  BY <1>1, <1>2, <1>4 DEF TokenTypeOK
<1>6. Conservation'
  <2> SUFFICES ASSUME NEW s \in Tokens
               PROVE  SumFunctionOnSet(balanceOf'[s], Addresses) = totalSupply'[s]
    BY DEF Conservation
  <2>1. CASE s # t
    BY <1>1, <1>2, <2>1 DEF TokenInv, TokenTypeOK, Conservation
  <2>2. CASE s = t
    <3> DEFINE b == balanceOf[t]
               b1 == balanceOf'[t]
    <3>1. Uint256 \subseteq Nat
      BY AmountAssumption DEF Uint256
    <3>2. b \in [Addresses -> Nat] /\ b1 \in [Addresses -> Nat]
      BY <1>2, <1>5, <3>1 DEF TokenTypeOK
    <3>3. b1[to] = b[to] + amount /\ \A a \in Addresses \ {to} : b1[a] = b[a]
      BY <1>1, <1>2 DEF TokenTypeOK
    <3>4. totalSupply'[t] = totalSupply[t] + amount
      BY <1>1, <1>2 DEF TokenTypeOK
    <3>5. SumFunctionOnSet(b, Addresses) = totalSupply[t]
      BY DEF TokenInv, Conservation
    <3> HIDE DEF b, b1
    <3>6. SumFunctionOnSet(b1, Addresses)
            = SumFunctionOnSet(b, Addresses) - b[to] + b1[to]
      BY <3>2, <3>3, AddressesFinite, SumChange
    <3>7. totalSupply[t] \in Nat /\ b[to] \in Nat
      BY <1>3, <3>1, <3>2
    <3>8. SumFunctionOnSet(b1, Addresses) = totalSupply'[t]
      BY <3>3, <3>4, <3>5, <3>6, <3>7
    <3>9. QED
      BY <2>2, <3>8 DEF b1
  <2>3. QED
    BY <2>1, <2>2
<1>7. QED
  BY <1>5, <1>6 DEF TokenInv

LEMMA ApproveKeepsInv ==
  ASSUME TokenInv, NEW t \in Tokens, NEW owner \in Addresses,
         NEW spender \in Addresses, NEW amount \in Uint256,
         approve(t, owner, spender, amount)
  PROVE  TokenInv'
<1>1. TokenTypeOK'
  BY DEF approve, TokenInv, TokenTypeOK
<1>2. Conservation'
  BY DEF approve, TokenInv, Conservation
<1>3. QED
  BY <1>1, <1>2 DEF TokenInv

LEMMA TokenInitInv == TokenInit => TokenInv
<1> SUFFICES ASSUME TokenInit PROVE TokenInv
  OBVIOUS
<1>1. 0 \in Uint256
  BY AmountAssumption DEF Uint256
<1>2. TokenTypeOK
  BY <1>1 DEF TokenInit, TokenTypeOK
<1>3. ASSUME NEW t \in Tokens
      PROVE  SumFunctionOnSet(balanceOf[t], Addresses) = totalSupply[t]
  <2>1. \A a \in Addresses : balanceOf[t][a] = 0
    BY DEF TokenInit
  <2>2. totalSupply[t] = 0
    BY DEF TokenInit
  <2>3. QED
    BY <2>1, <2>2, AddressesFinite, SumZero
<1>4. QED
  BY <1>2, <1>3 DEF TokenInv, Conservation

LEMMA TokenStepInv == TokenInv /\ TokenNext => TokenInv'
<1> SUFFICES ASSUME TokenInv, TokenNext PROVE TokenInv'
  OBVIOUS
<1>1. PICK t \in Tokens, u \in Users, amount \in Amounts :
        \/ \E to \in Recipients :
             \/ mint(t, to, amount)
             \/ transfer(t, u, to, amount)
             \/ \E from \in Addresses : transferFrom(t, u, from, to, amount)
        \/ \E spender \in Spenders : approve(t, u, spender, amount)
  BY DEF TokenNext
<1>2. amount \in Uint256 /\ amount \in Nat /\ u \in Addresses
  BY AmountAssumption DEF Addresses, Uint256
<1>3. ASSUME NEW to \in Recipients, mint(t, to, amount) PROVE TokenInv'
  BY <1>2, <1>3, AmountAssumption, MintKeepsInv
<1>4. ASSUME NEW to \in Recipients, transfer(t, u, to, amount) PROVE TokenInv'
  BY <1>2, <1>4, AmountAssumption, TransferKeepsInv
<1>5. ASSUME NEW to \in Recipients, NEW from \in Addresses,
             transferFrom(t, u, from, to, amount)
      PROVE  TokenInv'
  BY <1>2, <1>5, AmountAssumption, TransferFromKeepsInv
<1>6. ASSUME NEW spender \in Spenders, approve(t, u, spender, amount)
      PROVE  TokenInv'
  BY <1>2, <1>6, AmountAssumption, ApproveKeepsInv
<1>7. QED
  BY <1>1, <1>3, <1>4, <1>5, <1>6

LEMMA TokenInvariant == TokenSpec => []TokenInv
<1>1. TokenInit => TokenInv
  BY TokenInitInv
<1>2. TokenInv /\ [TokenNext]_tokenVars => TokenInv'
  <2>1. TokenInv /\ UNCHANGED tokenVars => TokenInv'
    BY DEF TokenInv, TokenTypeOK, Conservation, tokenVars
  <2>2. QED
    BY <2>1, TokenStepInv
<1>3. QED
  BY <1>1, <1>2, PTL DEF TokenSpec

(* Every balance, supply and allowance stays a uint256.                    *)
THEOREM TokenTypeCorrect == TokenSpec => []TokenTypeOK
<1>1. TokenInv => TokenTypeOK
  BY DEF TokenInv
<1>2. QED
  BY <1>1, TokenInvariant, PTL

(* Tokens are neither created nor destroyed except by mint, whatever the   *)
(* accounts do and however many there are.                                 *)
THEOREM TokenConserved == TokenSpec => []Conservation
<1>1. TokenInv => Conservation
  BY DEF TokenInv
<1>2. QED
  BY <1>1, TokenInvariant, PTL

(* Two balances never exceed the supply together.                          *)
LEMMA PairBound ==
  ASSUME TokenInv, NEW t \in Tokens, NEW a \in Addresses, NEW b \in Addresses,
         a # b
  PROVE  balanceOf[t][a] + balanceOf[t][b] <= MaxUint256
<1> DEFINE f == balanceOf[t]
           R == Addresses \ {a}
<1>1. Uint256 \subseteq Nat
  BY AmountAssumption DEF Uint256
<1>2. f \in [Addresses -> Nat]
  BY <1>1 DEF TokenInv, TokenTypeOK
<1>3. IsFiniteSet(R)
  BY AddressesFinite, FS_RemoveElement
<1>4. SumFunctionOnSet(f, Addresses) = totalSupply[t] /\ totalSupply[t] \in Uint256
  BY DEF TokenInv, TokenTypeOK, Conservation
<1> HIDE DEF f
<1>5. SumFunctionOnSet(f, Addresses) = f[a] + SumFunctionOnSet(f, R)
  BY <1>2, AddressesFinite, SumRemove
<1>6. f[b] <= SumFunctionOnSet(f, R)
  <2>1. \A x \in R : f[x] \in Nat
    BY <1>2
  <2>2. b \in R
    OBVIOUS
  <2> HIDE DEF R
  <2>3. QED
    BY <1>3, <2>1, <2>2, SummandBound
<1>7. SumFunctionOnSet(f, R) \in Nat
  <2>1. \A x \in R : f[x] \in Nat
    BY <1>2
  <2> HIDE DEF R
  <2>2. QED
    BY <1>3, <2>1, SumNat
<1>8. f[a] \in Nat /\ f[b] \in Nat
  BY <1>2
<1>9. f[a] + f[b] <= MaxUint256
  <2> HIDE DEF R
  <2>1. QED
    BY <1>4, <1>5, <1>6, <1>7, <1>8, AmountAssumption DEF Uint256
<1>10. QED
  BY <1>9 DEF f

(* A transfer fails only for lack of funds: the credit side of the checked *)
(* arithmetic cannot revert, for any supply and any number of accounts.    *)
THEOREM TransferNeverOverflows == TokenSpec => []AffordableTransferSucceeds
<1>1. TokenInv => AffordableTransferSucceeds
  BY PairBound DEF AffordableTransferSucceeds
<1>2. QED
  BY <1>1, TokenInvariant, PTL

---------------------------------------------------------------------------
(***************************************************************************)
(* Part 3.  The escrow.                                                    *)
(***************************************************************************)
(* A deal is in use exactly when it has a buyer; then it names a token     *)
(* contract, an amount and a seller.                                       *)
DealsInUse ==
  \A r \in RfqIds :
    /\ deals[r].state = "OPEN" <=> deals[r].buyer = ZeroAddress
    /\ deals[r].state # "OPEN" =>
         /\ deals[r].buyer \in Users
         /\ deals[r].token \in Tokens
         /\ deals[r].amount # 0

(* The contract never approves a spender, so only its own transfers move   *)
(* its tokens.                                                             *)
EscrowApprovesNobody ==
  \A t \in Tokens, spender \in Addresses : allowance[t][Escrow][spender] = 0

Inv == TypeOK /\ Conservation /\ DealsInUse /\ EscrowApprovesNobody /\ Solvency

LEMMA TimestampIsUint64 ==
  ASSUME TypeOK
  PROVE  now \in Nat /\ timestamp64 = now
<1>1. now \in 0 .. MaxUint64 /\ MaxUint64 \in Nat
  BY TimeAssumption DEF TypeOK
<1>2. now % (MaxUint64 + 1) = now
  BY <1>1
<1>3. QED
  BY <1>1, <1>2 DEF timestamp64

LEMMA EscrowIsNoUser == Escrow \notin Users /\ ZeroAddress \notin Users
BY AddressAssumption

(* The amounts in custody are naturals.                                    *)
LEMMA CustodyNat ==
  ASSUME TypeOK, NEW t \in Tokens
  PROVE  /\ custody(t) \in [RfqIds -> Nat]
         /\ Owed(t) \in Nat
<1>1. \A r \in RfqIds : deals[r].amount \in Nat
  BY AmountAssumption DEF TypeOK, Deal, Uint256
<1>2. custody(t) \in [RfqIds -> Nat]
  BY <1>1 DEF custody
<1>3. SumFunctionOnSet(custody(t), RfqIds) \in Nat
  <2> DEFINE f == custody(t)
  <2>1. \A r \in RfqIds : f[r] \in Nat
    BY <1>2
  <2> HIDE DEF f
  <2>2. QED
    BY <2>1, FiniteIdsAssumption, SumNat DEF f
<1>4. QED
  BY <1>2, <1>3 DEF Owed

(* One deal changes what is owed by its own share only.                    *)
LEMMA OwedChange ==
  ASSUME TypeOK, TypeOK', NEW r \in RfqIds, NEW t \in Tokens,
         \A q \in RfqIds \ {r} : deals'[q] = deals[q]
  PROVE  Owed(t)' = Owed(t) - custody(t)[r] + custody(t)'[r]
<1> DEFINE f == custody(t)
           g == custody(t)'
<1>1. f \in [RfqIds -> Nat]
  BY CustodyNat
<1>2. g \in [RfqIds -> Nat]
  <2>1. \A q \in RfqIds : deals'[q].amount \in Nat
    BY AmountAssumption DEF TypeOK, Deal, Uint256
  <2>2. QED
    BY <2>1 DEF custody
<1>3. \A q \in RfqIds \ {r} : g[q] = f[q]
  BY DEF custody, InCustody
<1>4. Owed(t) = SumFunctionOnSet(f, RfqIds)
  BY DEF Owed
<1>5. Owed(t)' = SumFunctionOnSet(g, RfqIds)
  BY DEF Owed
<1> HIDE DEF f, g
<1>6. SumFunctionOnSet(g, RfqIds) = SumFunctionOnSet(f, RfqIds) - f[r] + g[r]
  BY <1>1, <1>2, <1>3, FiniteIdsAssumption, SumChange
<1>7. QED
  BY <1>4, <1>5, <1>6 DEF f, g

(* Nothing is owed as long as no deal is in use.                           *)
LEMMA NothingOwed ==
  ASSUME NEW t \in Tokens, \A r \in RfqIds : deals[r].state = "OPEN"
  PROVE  Owed(t) = 0
<1> DEFINE f == custody(t)
<1>1. \A r \in RfqIds : f[r] = 0
  BY DEF custody, InCustody
<1> HIDE DEF f
<1>2. SumFunctionOnSet(f, RfqIds) = 0
  BY <1>1, FiniteIdsAssumption, SumZero
<1>3. QED
  BY <1>2 DEF f, Owed

(* What a lock adds to what is owed, and what a payout takes away.         *)
LEMMA LockOwes ==
  ASSUME TypeOK, TypeOK', DealsInUse, NEW r \in RfqIds, deals[r].state = "OPEN",
         NEW d \in Deal, d.state = "LOCKED", deals' = [deals EXCEPT ![r] = d],
         NEW s \in Tokens
  PROVE  Owed(s)' = Owed(s) + (IF s = d.token THEN d.amount ELSE 0)
<1>1. Owed(s)' = Owed(s) - custody(s)[r] + custody(s)'[r]
  BY OwedChange DEF TypeOK
<1>2. custody(s)[r] = 0
  BY DEF custody, InCustody
<1>3. custody(s)'[r] = IF s = d.token THEN d.amount ELSE 0
  BY DEF custody, InCustody, TypeOK
<1>4. Owed(s) \in Nat /\ d.amount \in Nat
  BY CustodyNat, AmountAssumption DEF Deal, Uint256
<1>5. QED
  BY <1>1, <1>2, <1>3, <1>4

LEMMA PayoutOwes ==
  ASSUME TypeOK, TypeOK', NEW r \in RfqIds,
         deals[r].state = "LOCKED" \/ deals[r].state = "DELIVERED",
         NEW end \in {"RELEASED", "REFUNDED"},
         deals' = [deals EXCEPT ![r].state = end], NEW s \in Tokens
  PROVE  Owed(s)' = Owed(s) - (IF s = deals[r].token THEN deals[r].amount ELSE 0)
<1>1. Owed(s)' = Owed(s) - custody(s)[r] + custody(s)'[r]
  BY OwedChange DEF TypeOK
<1>2. custody(s)'[r] = 0
  BY DEF custody, InCustody, TypeOK
<1>3. custody(s)[r] = IF s = deals[r].token THEN deals[r].amount ELSE 0
  BY DEF custody, InCustody
<1>4. Owed(s) \in Nat /\ deals[r].amount \in Nat
  BY CustodyNat, AmountAssumption DEF TypeOK, Deal, Uint256
<1>5. QED
  BY <1>1, <1>2, <1>3, <1>4
---------------------------------------------------------------------------
(* One step per call.  A call that keeps the deals' money in place leaves  *)
(* Solvency alone; a lock and a payout move the same amount on both sides. *)
LEMMA InitInv == Init => Inv
<1> SUFFICES ASSUME Init PROVE Inv
  OBVIOUS
<1>1. TokenInv
  BY TokenInitInv DEF Init
<1>2. TypeOK
  <2>1. EmptyDeal \in Deal
    BY AmountAssumption, TimeAssumption
    DEF EmptyDeal, Deal, Addresses, Uint256, Uint64, State
  <2>2. now \in 0 .. MaxTime
    BY TimeAssumption DEF Init
  <2>3. QED
    BY <1>1, <2>1, <2>2 DEF Init, TypeOK, TokenInv
<1>3. DealsInUse
  BY DEF Init, DealsInUse, EmptyDeal
<1>4. Solvency
  <2> SUFFICES ASSUME NEW t \in Tokens PROVE Owed(t) <= balanceOf[t][Escrow]
    BY DEF Solvency
  <2>1. Owed(t) = 0
    BY NothingOwed DEF Init, EmptyDeal
  <2>2. balanceOf[t][Escrow] = 0
    BY DEF Init, TokenInit, Addresses
  <2>3. QED
    BY <2>1, <2>2
<1>5. EscrowApprovesNobody
  BY DEF Init, TokenInit, EscrowApprovesNobody, Addresses
<1>6. QED
  BY <1>1, <1>2, <1>3, <1>4, <1>5 DEF Inv, TokenInv

(* All the money of a start may be in one wallet.                          *)
LEMMA OneHolderSum ==
  ASSUME NEW a \in Addresses, NEW v \in Nat
  PROVE  SumFunctionOnSet([b \in Addresses |-> IF b = a THEN v ELSE 0], Addresses) = v
<1> DEFINE f == [b \in Addresses |-> 0]
           g == [b \in Addresses |-> IF b = a THEN v ELSE 0]
<1>1. f \in [Addresses -> Nat] /\ g \in [Addresses -> Nat]
  OBVIOUS
<1>2. /\ \A b \in Addresses : f[b] = 0
      /\ \A b \in Addresses \ {a} : g[b] = f[b]
      /\ g[a] = v
  OBVIOUS
<1> HIDE DEF f, g
<1>3. SumFunctionOnSet(f, Addresses) = 0
  BY <1>2, AddressesFinite, SumZero
<1>4. SumFunctionOnSet(g, Addresses) = SumFunctionOnSet(f, Addresses) - f[a] + g[a]
  BY <1>1, <1>2, AddressesFinite, SumChange
<1>5. SumFunctionOnSet(g, Addresses) = v
  BY <1>2, <1>3, <1>4
<1>6. QED
  BY <1>5 DEF g

(* A chain on which one wallet holds funds it has approved the escrow for, *)
(* and no deal is made yet, is one the invariant allows.                   *)
LEMMA FundedStartInv ==
  ASSUME NEW Wallet \in Users, NEW Usd \in Tokens, NEW F \in Uint256,
         totalSupply = [t \in Tokens |-> IF t = Usd THEN F ELSE 0],
         balanceOf = [t \in Tokens |-> [a \in Addresses |->
                        IF t = Usd /\ a = Wallet THEN F ELSE 0]],
         allowance = [t \in Tokens |-> [a \in Addresses |-> [b \in Addresses |->
                        IF t = Usd /\ a = Wallet /\ b = Escrow THEN F ELSE 0]]],
         deals = [r \in RfqIds |-> EmptyDeal], now = 0
  PROVE  Inv
<1>1. /\ Wallet \in Addresses /\ Escrow \in Addresses /\ Wallet # Escrow
      /\ F \in Nat /\ 0 \in Uint256
  BY AmountAssumption, EscrowIsNoUser DEF Uint256, Addresses
<1>2. EmptyDeal \in Deal
  BY AmountAssumption, TimeAssumption
  DEF EmptyDeal, Deal, Addresses, Uint256, Uint64, State
<1>3. TypeOK
  BY <1>1, <1>2, TimeAssumption DEF TypeOK, TokenTypeOK
<1>4. Conservation
  <2>1. ASSUME NEW t \in Tokens, t # Usd
        PROVE  SumFunctionOnSet(balanceOf[t], Addresses) = totalSupply[t]
    BY <2>1, AddressesFinite, SumZero
  <2>2. SumFunctionOnSet(balanceOf[Usd], Addresses) = totalSupply[Usd]
    <3>1. balanceOf[Usd] = [b \in Addresses |-> IF b = Wallet THEN F ELSE 0]
      OBVIOUS
    <3>2. QED
      BY <1>1, <3>1, OneHolderSum
  <2>3. QED
    BY <2>1, <2>2 DEF Conservation
<1>5. DealsInUse
  BY DEF DealsInUse, EmptyDeal
<1>6. EscrowApprovesNobody
  BY <1>1 DEF EscrowApprovesNobody
<1>7. Solvency
  <2> SUFFICES ASSUME NEW t \in Tokens PROVE Owed(t) <= balanceOf[t][Escrow]
    BY DEF Solvency
  <2>1. Owed(t) = 0
    BY NothingOwed DEF EmptyDeal
  <2>2. balanceOf[t][Escrow] = 0
    BY <1>1
  <2>3. QED
    BY <2>1, <2>2
<1>8. QED
  BY <1>3, <1>4, <1>5, <1>6, <1>7 DEF Inv

LEMMA OthersSpend ==
  ASSUME TokenTypeOK, EscrowApprovesNobody, NEW t \in Tokens,
         NEW from \in Addresses, from # Escrow, NEW u \in Addresses,
         NEW amount, spendAllowance(t, from, u, amount)
  PROVE  EscrowApprovesNobody'
<1> SUFFICES ASSUME NEW s \in Tokens, NEW spender \in Addresses
             PROVE  allowance'[s][Escrow][spender] = 0
  BY DEF EscrowApprovesNobody
<1>1. allowance[s][Escrow][spender] = 0
  BY DEF EscrowApprovesNobody
<1>2. CASE UNCHANGED allowance
  BY <1>1, <1>2
<1>3. CASE allowance' = [allowance EXCEPT ![t][from][u] = @ - amount]
  <2>1. allowance'[s][Escrow] = allowance[s][Escrow]
    BY <1>3 DEF TokenTypeOK
  <2>2. QED
    BY <1>1, <2>1
<1>4. QED
  BY <1>2, <1>3 DEF spendAllowance

LEMMA LockKeepsInv ==
  ASSUME Inv, NEW u \in Users, NEW r \in RfqIds, NEW seller \in Addresses,
         NEW amount \in Uint256, NEW t \in Tokens, NEW w1 \in Uint64, NEW w2 \in Uint64,
         lockFunds(u, r, seller, amount, t, w1, w2)
  PROVE  Inv'
<1> DEFINE locked(deadline) == LockedDeal(u, seller, amount, t, deadline, w2)
<1>1. PICK deadline \in DeadlineAfter(w1) :
        deals' = [deals EXCEPT ![r] = locked(deadline)]
  BY DEF lockFunds
<1>2. /\ deals[r].buyer = ZeroAddress
      /\ amount # 0
      /\ transferFrom(t, Escrow, u, Escrow, amount)
      /\ UNCHANGED now
  BY DEF lockFunds
<1>3. /\ u \in Addresses /\ Escrow \in Addresses /\ u # Escrow /\ u # ZeroAddress
      /\ amount \in Uint256 /\ amount \in Nat
  BY EscrowIsNoUser, AmountAssumption DEF Addresses, Uint256
<1>4. TypeOK /\ TokenInv /\ DealsInUse /\ Solvency
  BY DEF Inv, TypeOK, TokenInv
<1>5. TokenInv'
  BY <1>2, <1>3, <1>4, TransferFromKeepsInv
<1>6. locked(deadline) \in Deal
  BY <1>3, AmountAssumption, TimeAssumption
  DEF LockedDeal, Deal, DeadlineAfter, State
<1>7. TypeOK'
  BY <1>1, <1>2, <1>4, <1>5, <1>6 DEF TypeOK, TokenInv
<1>8. DealsInUse'
  BY <1>1, <1>2, <1>3, <1>4 DEF LockedDeal, DealsInUse, TypeOK
<1>9. Solvency'
  <2> SUFFICES ASSUME NEW s \in Tokens
               PROVE  Owed(s)' <= balanceOf'[s][Escrow]
    BY DEF Solvency
  <2>1. locked(deadline).token = t /\ locked(deadline).amount = amount
        /\ locked(deadline).state = "LOCKED"
    BY DEF LockedDeal
  <2>2. deals[r].state = "OPEN"
    BY <1>2, <1>4 DEF DealsInUse
  <2>3. Owed(s)' = Owed(s) + (IF s = t THEN amount ELSE 0)
    <3> HIDE DEF locked
    <3>1. QED
      BY <1>1, <1>4, <1>6, <1>7, <2>1, <2>2, LockOwes
  <2>4. Owed(s) \in Nat /\ Owed(s) <= balanceOf[s][Escrow]
    BY <1>4, CustodyNat DEF Solvency
  <2>5. balanceOf'[s][Escrow]
          = IF s = t THEN balanceOf[s][Escrow] + amount ELSE balanceOf[s][Escrow]
    <3>1. moveBalance(t, u, Escrow, amount)
      BY <1>2 DEF transferFrom
    <3>2. QED
      BY <1>3, <1>4, <3>1, MoveBalanceEffect DEF TokenInv
  <2>6. balanceOf[s][Escrow] \in Nat
    BY <1>3, <1>4, AmountAssumption DEF TokenInv, TokenTypeOK, Uint256
  <2>7. QED
    BY <1>3, <2>3, <2>4, <2>5, <2>6
<1>10. EscrowApprovesNobody'
  BY <1>2, <1>3, <1>4, OthersSpend DEF transferFrom, Inv, TokenInv
<1>11. QED
  BY <1>5, <1>7, <1>8, <1>9, <1>10 DEF Inv, TokenInv

(* A call that rewrites one deal in custody without moving tokens, and     *)
(* leaves it in custody of the same amount.                                *)
LEMMA NoMoneyMovesKeepsInv ==
  ASSUME Inv, NEW r \in RfqIds, NEW d \in Deal,
         deals[r].state = "LOCKED" \/ deals[r].state = "DELIVERED",
         d.state = "DELIVERED" \/ d.state = "DISPUTED",
         d.buyer = deals[r].buyer, d.token = deals[r].token,
         d.amount = deals[r].amount,
         deals' = [deals EXCEPT ![r] = d],
         UNCHANGED <<now, totalSupply, balanceOf, allowance>>
  PROVE  Inv'
<1>1. TypeOK /\ TokenInv /\ DealsInUse /\ Solvency
  BY DEF Inv, TypeOK, TokenInv
<1>2. TypeOK'
  BY <1>1 DEF TypeOK, TokenTypeOK
<1>3. DealsInUse'
  BY <1>1 DEF DealsInUse, TypeOK
<1>4. Conservation'
  BY DEF Inv, Conservation
<1>5. Solvency'
  <2> SUFFICES ASSUME NEW t \in Tokens
               PROVE  Owed(t)' <= balanceOf[t][Escrow]
    BY DEF Solvency
  <2>1. Owed(t)' = Owed(t) - custody(t)[r] + custody(t)'[r]
    BY <1>1, <1>2, OwedChange DEF TypeOK
  <2>2. custody(t)'[r] = custody(t)[r]
    BY <1>1 DEF custody, InCustody, TypeOK
  <2>3. Owed(t) \in Nat /\ custody(t)[r] \in Nat
    BY <1>1, CustodyNat
  <2>4. QED
    BY <1>1, <2>1, <2>2, <2>3 DEF Solvency
<1>6. EscrowApprovesNobody'
  BY DEF Inv, EscrowApprovesNobody
<1>7. QED
  BY <1>2, <1>3, <1>4, <1>5, <1>6 DEF Inv

(* A call that pays one deal out and closes it.                            *)
LEMMA PayoutKeepsInv ==
  ASSUME Inv, NEW r \in RfqIds, NEW payee \in Addresses,
         deals[r].state = "LOCKED" \/ deals[r].state = "DELIVERED",
         NEW end \in {"RELEASED", "REFUNDED"},
         deals' = [deals EXCEPT ![r].state = end],
         transfer(deals[r].token, Escrow, payee, deals[r].amount),
         UNCHANGED now
  PROVE  Inv'
<1> DEFINE t == deals[r].token
           amount == deals[r].amount
<1>1. TypeOK /\ TokenInv /\ DealsInUse /\ Solvency
  BY DEF Inv, TypeOK, TokenInv
<1>2. t \in Tokens /\ amount \in Nat /\ Escrow \in Addresses
  BY <1>1, AmountAssumption DEF DealsInUse, TypeOK, Deal, Uint256, Addresses
<1>3. TokenInv'
  BY <1>1, <1>2, TransferKeepsInv
<1>4. TypeOK'
  BY <1>1, <1>3 DEF TypeOK, TokenInv, Deal, State
<1>5. DealsInUse'
  BY <1>1 DEF DealsInUse, TypeOK
<1>6. Solvency'
  <2> SUFFICES ASSUME NEW s \in Tokens
               PROVE  Owed(s)' <= balanceOf'[s][Escrow]
    BY DEF Solvency
  <2>1. Owed(s)' = Owed(s) - (IF s = t THEN amount ELSE 0)
    BY <1>1, <1>4, PayoutOwes
  <2>2. Owed(s) \in Nat /\ Owed(s) <= balanceOf[s][Escrow]
    BY <1>1, CustodyNat DEF Solvency
  <2>3. balanceOf'[s][Escrow] >=
          IF s = t THEN balanceOf[s][Escrow] - amount ELSE balanceOf[s][Escrow]
    <3>1. moveBalance(t, Escrow, payee, amount)
      BY DEF transfer
    <3>2. balanceOf[s][Escrow] \in Nat
      BY <1>1, <1>2, AmountAssumption DEF TokenInv, TokenTypeOK, Uint256
    <3> HIDE DEF t, amount
    <3>3. QED
      BY <1>1, <1>2, <3>1, <3>2, MoveBalanceEffect DEF TokenInv
  <2>4. balanceOf[s][Escrow] \in Nat /\ balanceOf'[s][Escrow] \in Nat
    BY <1>1, <1>2, <1>3, AmountAssumption DEF TokenInv, TokenTypeOK, Uint256
  <2>5. QED
    BY <1>2, <2>1, <2>2, <2>3, <2>4
<1>7. EscrowApprovesNobody'
  BY DEF Inv, EscrowApprovesNobody, transfer
<1>8. QED
  BY <1>3, <1>4, <1>5, <1>6, <1>7 DEF Inv, TokenInv

(* What users do with their tokens can only add to the contract's balance. *)
LEMMA TokenStepOnlyGives ==
  ASSUME Inv, TokenStep
  PROVE  /\ \A s \in Tokens : balanceOf'[s][Escrow] >= balanceOf[s][Escrow]
         /\ EscrowApprovesNobody'
<1>1. /\ TypeOK /\ TokenInv /\ DealsInUse /\ Solvency /\ EscrowApprovesNobody
      /\ TokenNext /\ UNCHANGED <<deals, now>>
  BY DEF Inv, TypeOK, TokenInv, TokenStep
<1>3. PICK t \in Tokens, u \in Users, amount \in Amounts :
        \/ \E to \in Recipients :
             \/ mint(t, to, amount)
             \/ transfer(t, u, to, amount)
             \/ \E from \in Addresses : transferFrom(t, u, from, to, amount)
        \/ \E spender \in Spenders : approve(t, u, spender, amount)
  BY <1>1 DEF TokenNext
<1>4. /\ amount \in Uint256 /\ amount \in Nat /\ u \in Addresses /\ u # Escrow
      /\ Escrow \in Addresses /\ Recipients \subseteq Addresses
      /\ Spenders \subseteq Addresses
  BY EscrowIsNoUser, AmountAssumption DEF Addresses, Uint256
<1> DEFINE Kept == /\ \A s \in Tokens : balanceOf'[s][Escrow] >= balanceOf[s][Escrow]
                   /\ EscrowApprovesNobody'
<1>5. \A s \in Tokens : balanceOf[s][Escrow] \in Nat
  BY <1>1, <1>4, AmountAssumption DEF TokenInv, TokenTypeOK, Uint256
<1>6. ASSUME NEW to \in Recipients, mint(t, to, amount) PROVE Kept
  BY <1>1, <1>4, <1>5, <1>6 DEF mint, TokenInv, TokenTypeOK, EscrowApprovesNobody
<1>7. ASSUME NEW to \in Recipients, NEW from \in Addresses, from # Escrow,
             moveBalance(t, from, to, amount)
      PROVE  \A s \in Tokens : balanceOf'[s][Escrow] >= balanceOf[s][Escrow]
  <2>1. /\ \A s \in Tokens \ {t} : balanceOf'[s] = balanceOf[s]
        /\ Escrow # to => balanceOf'[t][Escrow] = balanceOf[t][Escrow]
        /\ Escrow = to => balanceOf'[t][Escrow] = balanceOf[t][Escrow] + amount
    BY <1>1, <1>4, <1>7, MoveBalanceEffect DEF TokenInv
  <2>2. QED
    BY <1>4, <1>5, <2>1
<1>8. ASSUME NEW to \in Recipients, transfer(t, u, to, amount) PROVE Kept
  BY <1>1, <1>4, <1>7, <1>8 DEF transfer, EscrowApprovesNobody
<1>9. ASSUME NEW to \in Recipients, NEW from \in Addresses,
             transferFrom(t, u, from, to, amount)
      PROVE  Kept
  <2>1. moveBalance(t, from, to, amount) /\ spendAllowance(t, from, u, amount)
    BY <1>9 DEF transferFrom
  <2>2. CASE from # Escrow
    <3>1. EscrowApprovesNobody'
      BY <1>1, <1>4, <2>1, <2>2, OthersSpend DEF TokenInv
    <3>2. QED
      BY <1>7, <2>1, <2>2, <3>1
  <2>3. CASE from = Escrow
    <3>1. allowance[t][Escrow][u] = 0
      BY <1>1, <1>4 DEF EscrowApprovesNobody
    <3>2. amount = 0
      BY <1>4, <2>1, <2>3, <3>1, AmountAssumption DEF spendAllowance, Uint256
    <3>3. EscrowApprovesNobody'
      <4>1. CASE UNCHANGED allowance
        BY <1>1, <4>1 DEF EscrowApprovesNobody
      <4>2. CASE allowance' = [allowance EXCEPT ![t][Escrow][u] = @ - amount]
        BY <1>1, <1>4, <3>1, <3>2, <4>2 DEF EscrowApprovesNobody, TokenInv, TokenTypeOK
      <4>3. QED
        BY <2>1, <2>3, <4>1, <4>2 DEF spendAllowance
    <3>4. \A s \in Tokens : balanceOf'[s][Escrow] >= balanceOf[s][Escrow]
      <4>1. /\ \A s \in Tokens \ {t} : balanceOf'[s] = balanceOf[s]
            /\ Escrow # to => balanceOf'[t][Escrow] = balanceOf[t][Escrow] - amount
            /\ Escrow = to => balanceOf'[t] = balanceOf[t]
        BY <1>1, <1>4, <2>1, <2>3, MoveBalanceEffect DEF TokenInv
      <4>2. QED
        BY <1>5, <3>2, <4>1
    <3>5. QED
      BY <3>3, <3>4
  <2>4. QED
    BY <2>2, <2>3
<1>10. ASSUME NEW spender \in Spenders, approve(t, u, spender, amount) PROVE Kept
  BY <1>1, <1>4, <1>5, <1>10 DEF approve, EscrowApprovesNobody, TokenInv, TokenTypeOK
<1>11. QED
  BY <1>3, <1>6, <1>8, <1>9, <1>10

LEMMA TokenStepKeepsInv ==
  ASSUME Inv, TokenStep
  PROVE  Inv'
<1>1. /\ TypeOK /\ TokenInv /\ DealsInUse /\ Solvency
      /\ TokenNext /\ UNCHANGED <<deals, now>>
  BY DEF Inv, TypeOK, TokenInv, TokenStep
<1>2. TokenInv'
  BY <1>1, TokenStepInv
<1>3. \A s \in Tokens : balanceOf[s][Escrow] \in Nat /\ balanceOf'[s][Escrow] \in Nat
  BY <1>1, <1>2, AmountAssumption DEF TokenInv, TokenTypeOK, Uint256, Addresses
<1>4. TypeOK'
  BY <1>1, <1>2 DEF TypeOK, TokenInv
<1>5. DealsInUse'
  BY <1>1 DEF DealsInUse
<1>6. Solvency'
  <2> SUFFICES ASSUME NEW s \in Tokens PROVE Owed(s)' <= balanceOf'[s][Escrow]
    BY DEF Solvency
  <2>1. Owed(s)' = Owed(s)
    BY <1>1 DEF Owed, custody, InCustody
  <2>2. Owed(s) \in Nat
    BY <1>1, CustodyNat
  <2>3. QED
    BY <1>1, <1>3, <2>1, <2>2, TokenStepOnlyGives DEF Solvency
<1>7. QED
  BY <1>2, <1>4, <1>5, <1>6, TokenStepOnlyGives DEF Inv, TokenInv

LEMMA DealStepKeepsInv ==
  ASSUME Inv, NEW r \in RfqIds, BuyerStep(r) \/ SellerStep(r) \/ KeeperStep(r)
  PROVE  Inv'
<1>1. TypeOK /\ DealsInUse
  BY DEF Inv
<1>2. deals[r] \in Deal /\ deals \in [RfqIds -> Deal]
  BY <1>1 DEF TypeOK
<1>3. deals[r].buyer \in Addresses /\ deals[r].seller \in Addresses
  BY <1>2 DEF Deal
<1>4. ASSUME NEW u \in Users, releaseFunds(u, r) PROVE Inv'
  BY <1>3, <1>4, PayoutKeepsInv DEF releaseFunds, release
<1>5. ASSUME optimisticRelease(r) PROVE Inv'
  BY <1>3, <1>5, PayoutKeepsInv DEF optimisticRelease, release
<1>6. ASSUME claimRefund(r) PROVE Inv'
  BY <1>3, <1>6, PayoutKeepsInv DEF claimRefund
<1>7. ASSUME NEW u \in Users, raiseDispute(u, r) PROVE Inv'
  <2> DEFINE d == [deals[r] EXCEPT !.state = "DISPUTED"]
  <2>1. d \in Deal
    BY <1>2 DEF Deal, State
  <2>2. deals' = [deals EXCEPT ![r] = d]
    BY <1>7 DEF raiseDispute
  <2>3. /\ deals[r].state = "DELIVERED" /\ d.state = "DISPUTED"
        /\ d.buyer = deals[r].buyer /\ d.token = deals[r].token
        /\ d.amount = deals[r].amount
        /\ UNCHANGED <<now, totalSupply, balanceOf, allowance>>
    BY <1>2, <1>7 DEF raiseDispute, Deal
  <2> HIDE DEF d
  <2>4. QED
    BY <2>1, <2>2, <2>3, NoMoneyMovesKeepsInv
<1>8. ASSUME NEW u \in Users, NEW h \in Hashes, confirmDelivery(u, r, h)
      PROVE  Inv'
  <2>1. PICK deadline \in DeadlineAfter(deals[r].disputeDeadline) :
          deals' = [deals EXCEPT ![r].resultHash = h,
                                 ![r].disputeDeadline = deadline,
                                 ![r].state = "DELIVERED"]
    BY <1>8 DEF confirmDelivery
  <2> DEFINE d == [deals[r] EXCEPT !.resultHash = h, !.disputeDeadline = deadline,
                                   !.state = "DELIVERED"]
  <2>2. d \in Deal
    BY <1>2 DEF Deal, State, DeadlineAfter
  <2>3. deals' = [deals EXCEPT ![r] = d]
    BY <1>2, <2>1
  <2>4. /\ deals[r].state = "LOCKED" /\ d.state = "DELIVERED"
        /\ d.buyer = deals[r].buyer /\ d.token = deals[r].token
        /\ d.amount = deals[r].amount
        /\ UNCHANGED <<now, totalSupply, balanceOf, allowance>>
    BY <1>2, <1>8 DEF confirmDelivery, Deal
  <2> HIDE DEF d
  <2>5. QED
    BY <2>2, <2>3, <2>4, NoMoneyMovesKeepsInv
<1>9. QED
  BY <1>4, <1>5, <1>6, <1>7, <1>8 DEF BuyerStep, SellerStep, KeeperStep

LEMMA UnchangedKeepsInv ==
  ASSUME Inv, UNCHANGED <<deals, totalSupply, balanceOf, allowance>>,
         now' \in 0 .. MaxTime
  PROVE  Inv'
<1>1. TypeOK' /\ Conservation' /\ DealsInUse' /\ EscrowApprovesNobody'
  BY DEF Inv, TypeOK, TokenTypeOK, Conservation, DealsInUse, EscrowApprovesNobody
<1>2. Solvency'
  BY DEF Inv, Solvency, Owed, custody, InCustody
<1>3. QED
  BY <1>1, <1>2 DEF Inv

LEMMA NextKeepsInv == Inv /\ [Next]_vars => Inv'
<1> SUFFICES ASSUME Inv, [Next]_vars PROVE Inv'
  OBVIOUS
<1>1. CASE LockStep
  <2>1. /\ Recipients \subseteq Addresses /\ Amounts \subseteq Uint256
        /\ DeliveryWindows \subseteq Uint64 /\ DisputeWindows \subseteq Uint64
    BY AmountAssumption, TimeAssumption
  <2>2. QED
    BY <1>1, <2>1, LockKeepsInv DEF LockStep
<1>2. CASE \E r \in RfqIds : BuyerStep(r) \/ SellerStep(r) \/ KeeperStep(r)
  BY <1>2, DealStepKeepsInv
<1>3. CASE TokenStep
  BY <1>3, TokenStepKeepsInv
<1>4. CASE Tick
  <2>1. now' \in 0 .. MaxTime
    BY <1>4, TimeAssumption DEF Tick, Inv, TypeOK
  <2>2. QED
    BY <1>4, <2>1, UnchangedKeepsInv DEF Tick
<1>5. CASE UNCHANGED vars
  BY <1>5, UnchangedKeepsInv DEF vars, Inv, TypeOK
<1>6. QED
  BY <1>1, <1>2, <1>3, <1>4, <1>5 DEF Next

LEMMA Invariant == Spec => []Inv
<1>1. QED
  BY InitInv, NextKeepsInv, PTL DEF Spec
---------------------------------------------------------------------------
(* Every field of every deal, a checked deadline included, and every       *)
(* balance stays in its Solidity type.                                     *)
THEOREM TypeCorrect == Spec => []TypeOK
<1>1. Inv => TypeOK
  BY DEF Inv
<1>2. QED
  BY <1>1, Invariant, PTL

(* The contract can always cover every deal in custody at once.            *)
THEOREM EscrowSolvent == Spec => []Solvency
<1>1. Inv => Solvency
  BY DEF Inv
<1>2. QED
  BY <1>1, Invariant, PTL

(* No deal in custody can become unpayable: the token transfer of a        *)
(* release or a refund has the funds and the room it needs.                *)
THEOREM PayoutAlwaysPossible == Spec => []PayoutNeverReverts
<1>1. ASSUME Inv PROVE PayoutNeverReverts
  <2> SUFFICES ASSUME NEW r \in RfqIds, NEW t \in Tokens, InCustody(r, t)
               PROVE  /\ deals[r].amount <= balanceOf[t][Escrow]
                      /\ \A payee \in {deals[r].buyer, deals[r].seller} \ {Escrow} :
                           balanceOf[t][payee] + deals[r].amount <= MaxUint256
    BY DEF PayoutNeverReverts
  <2>1. TypeOK /\ TokenInv
    BY <1>1 DEF Inv, TypeOK, TokenInv
  <2> DEFINE f == custody(t)
  <2>2. f \in [RfqIds -> Nat]
    BY <2>1, CustodyNat
  <2>3. f[r] = deals[r].amount
    BY DEF custody
  <2>4. SumFunctionOnSet(f, RfqIds) <= balanceOf[t][Escrow]
    BY <1>1 DEF Inv, Solvency, Owed
  <2>5. f[r] <= SumFunctionOnSet(f, RfqIds) /\ SumFunctionOnSet(f, RfqIds) \in Nat
    <3> HIDE DEF f
    <3>1. QED
      BY <2>2, FiniteIdsAssumption, SummandBound, SumNat
  <2>6. Escrow \in Addresses /\ \A a \in Addresses : balanceOf[t][a] \in Nat
    BY <2>1, AmountAssumption DEF TokenInv, TokenTypeOK, Uint256, Addresses
  <2>7. deals[r].amount \in Nat /\ deals[r].buyer \in Addresses
        /\ deals[r].seller \in Addresses
    BY <2>1, AmountAssumption DEF TypeOK, Deal, Uint256
  <2>8. deals[r].amount <= balanceOf[t][Escrow]
    <3> HIDE DEF f
    <3>1. QED
      BY <2>3, <2>4, <2>5, <2>6, <2>7
  <2>9. ASSUME NEW payee \in Addresses, payee # Escrow
        PROVE  balanceOf[t][payee] + deals[r].amount <= MaxUint256
    <3>1. balanceOf[t][payee] + balanceOf[t][Escrow] <= MaxUint256
      BY <2>1, <2>6, <2>9, PairBound
    <3>2. QED
      BY <2>6, <2>7, <2>8, <3>1, AmountAssumption
  <2>10. QED
    BY <2>7, <2>8, <2>9
<1>2. QED
  BY <1>1, Invariant, PTL
---------------------------------------------------------------------------
(* What one call about the deal r does: to the deal, and to the money.     *)
LEMMA DealStepEffect ==
  ASSUME Inv, NEW r \in RfqIds, BuyerStep(r) \/ SellerStep(r) \/ KeeperStep(r)
  PROVE  /\ deals[r].state \in {"LOCKED", "DELIVERED"}
         /\ \A q \in RfqIds \ {r} : deals'[q] = deals[q]
         /\ \A field \in {"buyer", "seller", "amount", "token", "deliveryDeadline"} :
              deals'[r][field] = deals[r][field]
<1>1. deals \in [RfqIds -> Deal]
  BY DEF Inv, TypeOK
<1>2. ASSUME NEW u \in Users, releaseFunds(u, r) \/ raiseDispute(u, r)
      PROVE  /\ deals[r].state = "DELIVERED"
             /\ \E end \in {"RELEASED", "DISPUTED"} :
                  deals' = [deals EXCEPT ![r].state = end]
  BY <1>2 DEF releaseFunds, raiseDispute, release
<1>3. ASSUME NEW u \in Users, NEW h \in Hashes, confirmDelivery(u, r, h)
      PROVE  /\ deals[r].state = "LOCKED"
             /\ \E deadline \in DeadlineAfter(deals[r].disputeDeadline) :
                  deals' = [deals EXCEPT ![r].resultHash = h,
                                         ![r].disputeDeadline = deadline,
                                         ![r].state = "DELIVERED"]
  BY <1>3 DEF confirmDelivery
<1>4. ASSUME KeeperStep(r)
      PROVE  /\ deals[r].state \in {"LOCKED", "DELIVERED"}
             /\ \E end \in {"RELEASED", "REFUNDED"} :
                  deals' = [deals EXCEPT ![r].state = end]
  BY <1>4 DEF KeeperStep, optimisticRelease, claimRefund, release
<1>5. ASSUME NEW end, deals' = [deals EXCEPT ![r].state = end]
      PROVE  /\ \A q \in RfqIds \ {r} : deals'[q] = deals[q]
             /\ \A field \in {"buyer", "seller", "amount", "token", "deliveryDeadline"} :
                  deals'[r][field] = deals[r][field]
  BY <1>1, <1>5 DEF Deal
<1>6. ASSUME NEW h, NEW deadline,
             deals' = [deals EXCEPT ![r].resultHash = h,
                                    ![r].disputeDeadline = deadline,
                                    ![r].state = "DELIVERED"]
      PROVE  /\ \A q \in RfqIds \ {r} : deals'[q] = deals[q]
             /\ \A field \in {"buyer", "seller", "amount", "token", "deliveryDeadline"} :
                  deals'[r][field] = deals[r][field]
  BY <1>1, <1>6 DEF Deal
<1>7. QED
  BY <1>2, <1>3, <1>4, <1>5, <1>6 DEF BuyerStep, SellerStep

(* The one thing lockFunds writes is the deal of an id nobody has used.    *)
LEMMA LockEffect ==
  ASSUME Inv, NEW u, NEW r \in RfqIds, NEW seller, NEW amount, NEW t,
         NEW w1, NEW w2, lockFunds(u, r, seller, amount, t, w1, w2)
  PROVE  /\ deals[r].state = "OPEN"
         /\ \A q \in RfqIds \ {r} : deals'[q] = deals[q]
<1>1. deals \in [RfqIds -> Deal] /\ DealsInUse
  BY DEF Inv, TypeOK
<1>2. deals[r].buyer = ZeroAddress
      /\ \E deadline \in DeadlineAfter(w1) :
           deals' = [deals EXCEPT ![r] = LockedDeal(u, seller, amount, t, deadline, w2)]
  BY DEF lockFunds
<1>3. QED
  BY <1>1, <1>2 DEF DealsInUse

(* A used id is never written again once settled or disputed, and nobody   *)
(* ever rewrites what it stands for: for any deals, calls and interleaving *)
(* (the id check of AgentBazaarEscrow.sol:65 is what a lock relies on).    *)
THEOREM UsedIdsFinal == Spec => UsedIdsAreFinal
<1> DEFINE Final(r) ==
      deals[r].state # "OPEN" =>
        /\ deals[r].state \in {"RELEASED", "REFUNDED", "DISPUTED"} =>
             deals'[r] = deals[r]
        /\ \A field \in {"buyer", "seller", "amount", "token", "deliveryDeadline"} :
             deals'[r][field] = deals[r][field]
<1>1. ASSUME Inv, [Next]_vars, NEW r \in RfqIds PROVE Final(r)
  <2>1. CASE LockStep
    BY <1>1, <2>1, LockEffect DEF LockStep
  <2>2. ASSUME NEW q \in RfqIds, BuyerStep(q) \/ SellerStep(q) \/ KeeperStep(q)
        PROVE  Final(r)
    <3>1. CASE q = r
      BY <1>1, <2>2, <3>1, DealStepEffect
    <3>2. CASE q # r
      BY <1>1, <2>2, <3>2, DealStepEffect
    <3>3. QED
      BY <3>1, <3>2
  <2>3. CASE UNCHANGED deals
    BY <2>3
  <2>4. QED
    BY <1>1, <2>1, <2>2, <2>3 DEF Next, TokenStep, Tick, vars
<1>2. Inv /\ [Next]_vars => \A r \in RfqIds : Final(r)
  BY <1>1
<1>3. QED
  BY <1>2, Invariant, PTL DEF Spec, UsedIdsAreFinal

(* The contract's balance of a token falls in the payout of one deal only, *)
(* by that deal's amount, to that deal's payee: for any number of deals    *)
(* that share the pool and any tokens sent to the contract besides.        *)
THEOREM EscrowPaysDealsOnly == Spec => EscrowPaysOnlyDeals
<1> DEFINE Paid(t, r, payee) ==
             /\ balanceOf'[t][Escrow] = balanceOf[t][Escrow] - deals[r].amount
             /\ balanceOf'[t][payee] = balanceOf[t][payee] + deals[r].amount
           Payee(r) == IF deals'[r].state = "RELEASED" THEN deals[r].seller
                                                       ELSE deals[r].buyer
           Explained(t) ==
             \E r \in RfqIds :
               /\ <<deals[r].state, deals'[r].state>> \in
                     {<<"DELIVERED", "RELEASED">>, <<"LOCKED", "REFUNDED">>}
               /\ Paid(t, r, Payee(r))
               /\ \A q \in RfqIds \ {r} : deals'[q] = deals[q]
           Falls(t) == balanceOf'[t][Escrow] < balanceOf[t][Escrow]
<1>1. ASSUME Inv PROVE /\ TokenTypeOK /\ DealsInUse /\ deals \in [RfqIds -> Deal]
                       /\ \A s \in Tokens : balanceOf[s][Escrow] \in Nat
                       /\ Escrow \in Addresses
  <2>1. TokenTypeOK /\ DealsInUse /\ deals \in [RfqIds -> Deal] /\ Escrow \in Addresses
    BY <1>1 DEF Inv, TypeOK, Addresses
  <2>2. QED
    BY <2>1, AmountAssumption DEF TokenTypeOK, Uint256
<1>2. ASSUME Inv, LockStep, NEW t \in Tokens PROVE ~Falls(t)
  <2>1. PICK u \in Users, r \in RfqIds, seller \in Recipients, amount \in Amounts,
             s \in Tokens, w1 \in DeliveryWindows, w2 \in DisputeWindows :
               lockFunds(u, r, seller, amount, s, w1, w2)
    BY <1>2 DEF LockStep
  <2>2. moveBalance(s, u, Escrow, amount)
    BY <2>1 DEF lockFunds, transferFrom
  <2>3. u \in Addresses /\ u # Escrow /\ amount \in Nat
    BY EscrowIsNoUser, AmountAssumption DEF Addresses, Uint256
  <2>4. /\ \A x \in Tokens \ {s} : balanceOf'[x] = balanceOf[x]
        /\ balanceOf'[s][Escrow] = balanceOf[s][Escrow] + amount
    BY <1>1, <1>2, <2>2, <2>3, MoveBalanceEffect
  <2>5. QED
    BY <1>1, <1>2, <2>3, <2>4
<1>3. ASSUME Inv, UNCHANGED balanceOf, NEW t \in Tokens PROVE ~Falls(t)
  BY <1>1, <1>3
<1>4. ASSUME Inv, TokenStep, NEW t \in Tokens PROVE ~Falls(t)
  <2>1. TokenNext /\ TokenInv
    BY <1>4 DEF TokenStep, Inv, TypeOK, TokenInv
  <2>2. balanceOf'[t][Escrow] \in Nat /\ balanceOf[t][Escrow] \in Nat
    BY <1>1, <1>4, <2>1, TokenStepInv, AmountAssumption
    DEF TokenInv, TokenTypeOK, Uint256
  <2>3. QED
    BY <1>4, <2>2, TokenStepOnlyGives
<1>5. ASSUME Inv, NEW r \in RfqIds, deals[r].state # "OPEN",
             NEW t \in Tokens, Falls(t), NEW payee \in Addresses,
             transfer(deals[r].token, Escrow, payee, deals[r].amount)
      PROVE  Paid(t, r, payee)
  <2> DEFINE s == deals[r].token
             amount == deals[r].amount
  <2>1. moveBalance(s, Escrow, payee, amount)
    BY <1>5 DEF transfer
  <2>2. s \in Tokens \cup {ZeroAddress} /\ amount \in Nat
    BY <1>1, <1>5, AmountAssumption DEF Deal, Uint256
  <2>3. s \in Tokens
    BY <1>1, <1>5 DEF DealsInUse
  <2> HIDE DEF s, amount
  <2>4. /\ \A x \in Tokens \ {s} : balanceOf'[x] = balanceOf[x]
        /\ Escrow # payee =>
             /\ balanceOf'[s][Escrow] = balanceOf[s][Escrow] - amount
             /\ balanceOf'[s][payee] = balanceOf[s][payee] + amount
        /\ Escrow = payee => balanceOf'[s] = balanceOf[s]
    BY <1>1, <1>5, <2>1, <2>2, <2>3, MoveBalanceEffect
  <2>5. t = s /\ Escrow # payee
    BY <1>1, <1>5, <2>4
  <2>6. QED
    BY <2>4, <2>5 DEF s, amount
<1>6. ASSUME Inv, NEW r \in RfqIds, BuyerStep(r) \/ SellerStep(r) \/ KeeperStep(r),
             NEW t \in Tokens, Falls(t)
      PROVE  Explained(t)
  <2>1. \/ UNCHANGED balanceOf
        \/ /\ deals[r].state = "DELIVERED" /\ release(r)
        \/ claimRefund(r)
    BY <1>6 DEF BuyerStep, SellerStep, KeeperStep, releaseFunds, raiseDispute,
                confirmDelivery, optimisticRelease
  <2>2. deals[r].seller \in Addresses /\ deals[r].buyer \in Addresses
    BY <1>1, <1>6 DEF Deal
  <2>3. CASE deals[r].state = "DELIVERED" /\ release(r)
    <3>1. deals'[r].state = "RELEASED"
      BY <1>1, <1>6, <2>3 DEF release, Deal
    <3>2. Paid(t, r, deals[r].seller)
      BY <1>5, <1>6, <2>2, <2>3 DEF release
    <3>3. QED
      BY <1>6, <2>3, <3>1, <3>2, DealStepEffect
  <2>4. CASE claimRefund(r)
    <3>1. deals[r].state = "LOCKED" /\ deals'[r].state = "REFUNDED"
      BY <1>1, <1>6, <2>4 DEF claimRefund, Deal
    <3>2. Paid(t, r, deals[r].buyer)
      BY <1>5, <1>6, <2>2, <2>4 DEF claimRefund
    <3>3. QED
      BY <1>6, <3>1, <3>2, DealStepEffect
  <2>5. QED
    BY <1>3, <1>6, <2>1, <2>3, <2>4
<1>7. ASSUME Inv, [Next]_vars, NEW t \in Tokens, Falls(t) PROVE Explained(t)
  BY <1>2, <1>3, <1>4, <1>6, <1>7 DEF Next, Tick, vars
<1>8. Inv /\ [Next]_vars =>
        \A t \in Tokens :
          balanceOf'[t][Escrow] < balanceOf[t][Escrow] =>
            \E r \in RfqIds :
              LET d == deals[r]
                  payee == IF deals'[r].state = "RELEASED" THEN d.seller ELSE d.buyer
              IN  /\ <<d.state, deals'[r].state>> \in
                        {<<"DELIVERED", "RELEASED">>, <<"LOCKED", "REFUNDED">>}
                  /\ balanceOf'[t][Escrow] = balanceOf[t][Escrow] - d.amount
                  /\ balanceOf'[t][payee] = balanceOf[t][payee] + d.amount
                  /\ \A q \in RfqIds \ {r} : deals'[q] = deals[q]
  BY <1>7, Zenon
<1>9. QED
  BY <1>8, Invariant, PTL DEF Spec, EscrowPaysOnlyDeals
===========================================================================
