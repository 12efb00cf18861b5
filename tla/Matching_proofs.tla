-------------------------- MODULE Matching_proofs --------------------------
(***************************************************************************)
(* The choice among quotes is right for any quotes, in any order and in    *)
(* any number, whatever their scores are rounded to, and its three         *)
(* implementations agree.  The prover has no induction over an operator,   *)
(* so the folds are unrolled into the steps of their loops, and an         *)
(* induction over them is one over a set of numbers.                       *)
(***************************************************************************)
EXTENDS Matching, FiniteSetTheorems, SequenceTheorems, WellFoundedInduction,
        TLAPS

(***************************************************************************)
(* Part 1: folds.                                                          *)
(***************************************************************************)
(* A set of numbers with 0 and the successor of each of its members up to  *)
(* n holds all the numbers up to n.                                        *)
LEMMA SetInduction ==
  ASSUME NEW n \in Nat, NEW B, 0 \in B,
         \A k \in Nat : k < n /\ k \in B => k + 1 \in B
  PROVE  \A k \in 0 .. n : k \in B
<1> DEFINE missing == {k \in 0 .. n : k \notin B}
<1>1. ASSUME missing # {} PROVE FALSE
  <2>1. missing \subseteq Nat
    OBVIOUS
  <2>2. \E x \in missing : \A y \in missing : ~ (<<y, x>> \in OpToRel(<, Nat))
    <3> HIDE DEF missing
    <3>1. QED
      BY <1>1, <2>1, NatLessThanWellFounded, WFMin
  <2>3. PICK x \in missing : \A y \in missing : ~ (<<y, x>> \in OpToRel(<, Nat))
    BY <2>2
  <2>4. \A y \in missing : ~ (y < x)
    BY <2>1, <2>3 DEF OpToRel
  <2>5. x # 0
    OBVIOUS
  <2>6. x - 1 \in Nat /\ x - 1 < n /\ x - 1 \notin missing
    BY <2>4, <2>5
  <2>7. x - 1 \in B /\ (x - 1) + 1 = x
    BY <2>6
  <2>8. x \in B
    BY <2>6, <2>7
  <2>9. QED
    BY <2>8
<1>2. QED
  BY <1>1

(* The library folds over sets of indices and removes the greatest first.  *)
LEMMA MaxOfInterval ==
  ASSUME NEW k \in Nat, k # 0
  PROVE  Max(1 .. k) = k /\ (1 .. k) \ {k} = 1 .. (k - 1)
<1>1. \A x \in 1 .. k : (\A y \in 1 .. k : x >= y) <=> x = k
  OBVIOUS
<1>2. Max(1 .. k) = CHOOSE x \in 1 .. k : x = k
  BY <1>1 DEF Max
<1>3. QED
  BY <1>2

LEMMA MaxOfSome ==
  ASSUME NEW n \in Nat, NEW T \in SUBSET (1 .. n), T # {}
  PROVE  Max(T) \in T /\ \A x \in T : Max(T) >= x
<1> DEFINE B == {k \in Nat : \A U \in SUBSET (1 .. k) :
                     U # {} => \E x \in U : \A y \in U : x >= y}
<1>1. 0 \in B
  <2>1. 1 .. 0 = {}
    OBVIOUS
  <2>2. QED
    BY <2>1
<1>2. ASSUME NEW k \in Nat, k < n, k \in B PROVE k + 1 \in B
  <2>1. ASSUME NEW U \in SUBSET (1 .. k + 1), U # {}
        PROVE  \E x \in U : \A y \in U : x >= y
    <3>1. CASE k + 1 \in U
      BY <3>1
    <3>2. CASE k + 1 \notin U
      <4>1. U \in SUBSET (1 .. k)
        BY <3>2
      <4>2. QED
        BY <1>2, <2>1, <4>1
    <3>3. QED
      BY <3>1, <3>2
  <2>2. QED
    BY <2>1
<1> HIDE DEF B
<1>3. n \in B
  BY <1>1, <1>2, SetInduction
<1>4. \E x \in T : \A y \in T : x >= y
  BY <1>3 DEF B
<1>5. QED
  BY <1>4 DEF Max

(* F[<<i, v>>] is the accumulator after item i when it was v before.       *)
IsTable(g, F, base, n) ==
  g = [T \in SUBSET (1 .. n) |->
         IF T = {} THEN base ELSE F[<<Max(T), g[T \ {Max(T)}]>>]]

(* A step of the loop turns a value of V into a value of V.                *)
LEMMA LongerTable ==
  ASSUME NEW n \in Nat, NEW V, NEW F \in [(1 .. n) \X V -> V], NEW base \in V,
         NEW k \in Nat, k < n,
         NEW g \in [SUBSET (1 .. k) -> V], IsTable(g, F, base, k)
  PROVE  \E h \in [SUBSET (1 .. k + 1) -> V] : IsTable(h, F, base, k + 1)
<1> DEFINE last == k + 1
           h == [T \in SUBSET (1 .. last) |->
                   IF last \in T THEN F[<<last, g[T \ {last}]>>] ELSE g[T]]
<1>1. ASSUME NEW T \in SUBSET (1 .. last)
      PROVE  /\ h[T] = IF T = {} THEN base ELSE F[<<Max(T), h[T \ {Max(T)}]>>]
             /\ h[T] \in V
  <2>1. CASE last \in T
    <3>1. \A x \in T : (\A y \in T : x >= y) <=> x = last
      BY <2>1
    <3>2. Max(T) = last
      BY <2>1, <3>1 DEF Max
    <3>3. /\ T \ {last} \in SUBSET (1 .. last) /\ last \notin T \ {last}
          /\ T \ {last} \in SUBSET (1 .. k)
      OBVIOUS
    <3>4. h[T \ {last}] = g[T \ {last}] /\ g[T \ {last}] \in V
      BY <3>3
    <3>5. h[T] = F[<<last, g[T \ {last}]>>]
      BY <2>1
    <3>6. <<last, g[T \ {last}]>> \in (1 .. n) \X V
      BY <3>4
    <3>7. h[T] \in V
      <4> HIDE DEF h, last
      <4>1. QED
        BY <3>5, <3>6
    <3>8. QED
      BY <2>1, <3>2, <3>4, <3>5, <3>7
  <2>2. CASE last \notin T
    <3>1. T \in SUBSET (1 .. k)
      BY <2>2
    <3>2. g[T] = IF T = {} THEN base ELSE F[<<Max(T), g[T \ {Max(T)}]>>]
      BY <3>1 DEF IsTable
    <3>3. \A U \in SUBSET (1 .. k) : U \in SUBSET (1 .. last) /\ last \notin U
      OBVIOUS
    <3>4. \A U \in SUBSET (1 .. k) : h[U] = g[U]
      BY <3>3
    <3>5. T \ {Max(T)} \in SUBSET (1 .. k)
      BY <3>1
    <3>6. QED
      BY <3>1, <3>2, <3>4, <3>5
  <2>3. QED
    BY <2>1, <2>2
<1>2. h \in [SUBSET (1 .. last) -> V]
  BY <1>1
<1>3. IsTable(h, F, base, last)
  <2> DEFINE G == [T \in SUBSET (1 .. last) |->
                     IF T = {} THEN base ELSE F[<<Max(T), h[T \ {Max(T)}]>>]]
  <2>1. h = [T \in SUBSET (1 .. last) |-> h[T]]
    OBVIOUS
  <2>2. \A T \in SUBSET (1 .. last) : h[T] = G[T]
    BY <1>1
  <2> HIDE DEF h
  <2>3. QED
    BY <2>1, <2>2 DEF IsTable
<1>4. QED
  BY <1>2, <1>3

LEMMA TableExists ==
  ASSUME NEW n \in Nat, NEW V, NEW F \in [(1 .. n) \X V -> V], NEW base \in V
  PROVE  \E g \in [SUBSET (1 .. n) -> V] : IsTable(g, F, base, n)
<1> DEFINE B == {k \in Nat : \E g \in [SUBSET (1 .. k) -> V] : IsTable(g, F, base, k)}
<1>1. 0 \in B
  <2> DEFINE g == [T \in SUBSET (1 .. 0) |-> base]
  <2>1. SUBSET (1 .. 0) = {{}}
    OBVIOUS
  <2>2. IsTable(g, F, base, 0) /\ g \in [SUBSET (1 .. 0) -> V]
    BY <2>1 DEF IsTable
  <2>3. QED
    BY <2>2
<1>2. ASSUME NEW k \in Nat, k < n, k \in B PROVE k + 1 \in B
  <2>1. PICK g \in [SUBSET (1 .. k) -> V] : IsTable(g, F, base, k)
    BY <1>2
  <2>2. \E h \in [SUBSET (1 .. k + 1) -> V] : IsTable(h, F, base, k + 1)
    BY <1>2, <2>1, LongerTable
  <2>3. QED
    BY <2>2
<1> HIDE DEF B
<1>3. n \in B
  BY <1>1, <1>2, SetInduction
<1>4. QED
  BY <1>3 DEF B

(***************************************************************************)
(* Part 2: the loops of the three choosers, step by step.                  *)
(***************************************************************************)
LEMMA InsertType ==
  ASSUME NEW s \in Seq(Offers), NEW q \in Offers
  PROVE  insert(s, q) \in Seq(Offers)
<1> DEFINE n == Cardinality({i \in DOMAIN s : ~before(q, s[i])})
<1>1. n \in 0 .. Len(s)
  <2>1. IsFiniteSet(1 .. Len(s)) /\ Cardinality(1 .. Len(s)) = Len(s)
    <3>1. Len(s) \in Nat
      OBVIOUS
    <3>2. 1 \in Int /\ Len(s) \in Int
      BY <3>1
    <3>3. QED
      BY <3>1, <3>2, FS_Interval
  <2>2. {i \in DOMAIN s : ~before(q, s[i])} \in SUBSET (1 .. Len(s))
    OBVIOUS
  <2>3. QED
    BY <2>1, <2>2, FS_Subset, FS_CardinalityType
<1> HIDE DEF n
<1>2. SubSeq(s, 1, n) \in Seq(Offers) /\ SubSeq(s, n + 1, Len(s)) \in Seq(Offers)
  BY <1>1
<1>3. insert(s, q) = SubSeq(s, 1, n) \o <<q>> \o SubSeq(s, n + 1, Len(s))
  BY DEF insert, n
<1>4. QED
  BY <1>2, <1>3

(* The table of the loop of rank_quotes over qs.                           *)
Lists == [eligible : Seq(Offers), rejected : Seq(Offers)]
NoLists == [eligible |-> <<>>, rejected |-> <<>>]

IsLoopTable(g, qs) ==
  g = [T \in SUBSET DOMAIN qs |->
         IF T = {} THEN NoLists ELSE turn(g[T \ {Max(T)}], qs[Max(T)])]

(* l holds the two lists after each turn.                                  *)
LoopSteps(l, qs) ==
  /\ l \in [0 .. Len(qs) -> Lists]
  /\ l[0] = NoLists
  /\ \A k \in 1 .. Len(qs) : l[k] = turn(l[k - 1], qs[k])

LEMMA TurnType ==
  ASSUME NEW l \in Lists, NEW q \in Offers
  PROVE  turn(l, q) \in Lists
<1>1. l.eligible \in Seq(Offers) /\ l.rejected \in Seq(Offers)
  BY DEF Lists
<1>2. insert(l.eligible, q) \in Seq(Offers) /\ Append(l.rejected, q) \in Seq(Offers)
  BY <1>1, InsertType
<1>3. QED
  BY <1>2 DEF turn, Lists

LEMMA LoopUnrolled ==
  ASSUME NEW qs \in Seq(Offers)
  PROVE  \E l : LoopSteps(l, qs) /\ l[Len(qs)] = loop(qs)
<1> DEFINE n == Len(qs)
           F == [p \in (1 .. n) \X Lists |-> turn(p[2], qs[p[1]])]
<1>1. n \in Nat /\ DOMAIN qs = 1 .. n /\ \A k \in 1 .. n : qs[k] \in Offers
  OBVIOUS
<1>2. NoLists \in Lists
  BY EmptySeq DEF Lists, NoLists
<1> HIDE DEF n
<1>3. \A k \in 1 .. n, x \in Lists : turn(x, qs[k]) \in Lists
  BY <1>1, TurnType
<1>4. F \in [(1 .. n) \X Lists -> Lists]
  BY <1>3
<1>5. \A k \in 1 .. n, x \in Lists : F[<<k, x>>] = turn(x, qs[k])
  OBVIOUS
<1> HIDE DEF F
<1>6. PICK g \in [SUBSET (1 .. n) -> Lists] : IsTable(g, F, NoLists, n)
  BY <1>1, <1>2, <1>4, TableExists
<1>7. \E h : IsLoopTable(h, qs)
  <2>1. ASSUME NEW T \in SUBSET (1 .. n)
        PROVE  g[T] = IF T = {} THEN NoLists ELSE turn(g[T \ {Max(T)}], qs[Max(T)])
    <3>1. g[T] = IF T = {} THEN NoLists ELSE F[<<Max(T), g[T \ {Max(T)}]>>]
      BY <1>6 DEF IsTable
    <3>2. T # {} => Max(T) \in T
      BY <1>1, MaxOfSome
    <3>3. T # {} => Max(T) \in 1 .. n /\ g[T \ {Max(T)}] \in Lists
      BY <1>6, <3>2
    <3>4. QED
      BY <1>5, <3>1, <3>3
  <2>2. g = [T \in SUBSET (1 .. n) |-> g[T]]
    BY <1>6
  <2>3. QED
    BY <1>1, <2>1, <2>2 DEF IsLoopTable
<1> DEFINE t == CHOOSE h : IsLoopTable(h, qs)
           l == [k \in 0 .. n |-> t[1 .. k]]
<1>8. IsLoopTable(t, qs)
  BY <1>7
<1>9. loop(qs) = t[1 .. n]
  BY <1>1 DEF loop, FoldLeft, MapThenFoldSet, IsLoopTable, NoLists
<1> HIDE DEF t
<1>10. l[0] = NoLists
  <2>1. 1 .. 0 = {} /\ {} \in SUBSET (1 .. n)
    OBVIOUS
  <2>2. t[{}] = NoLists
    BY <1>1, <1>8, <2>1 DEF IsLoopTable
  <2>3. 0 \in 0 .. n
    BY <1>1
  <2>4. QED
    BY <2>1, <2>2, <2>3
<1>11. \A k \in 1 .. n : l[k] = turn(l[k - 1], qs[k])
  <2> SUFFICES ASSUME NEW k \in 1 .. n PROVE l[k] = turn(l[k - 1], qs[k])
    OBVIOUS
  <2>1. k \in Nat /\ k # 0 /\ k \in 0 .. n /\ k - 1 \in 0 .. n /\ k <= n
    BY <1>1
  <2>2. 1 .. k \in SUBSET (1 .. n) /\ 1 .. k # {}
    <3>1. k \in 1 .. k
      BY <2>1
    <3>2. \A x \in 1 .. k : x \in 1 .. n
      BY <1>1, <2>1
    <3>3. QED
      BY <3>1, <3>2
  <2>3. Max(1 .. k) = k /\ (1 .. k) \ {k} = 1 .. (k - 1)
    BY <2>1, MaxOfInterval
  <2>4. t[1 .. k] = turn(t[(1 .. k) \ {Max(1 .. k)}], qs[Max(1 .. k)])
    BY <1>1, <1>8, <2>2 DEF IsLoopTable
  <2>5. QED
    BY <2>1, <2>3, <2>4
<1>12. l[n] = loop(qs)
  BY <1>1, <1>9
<1>13. \A k \in 0 .. n : l[k] \in Lists
  <2> HIDE DEF l
  <2> DEFINE B == {k \in 0 .. n : l[k] \in Lists}
  <2>1. 0 \in B
    BY <1>1, <1>2, <1>10
  <2>2. ASSUME NEW k \in Nat, k < n, k \in B PROVE k + 1 \in B
    <3>1. k + 1 \in 1 .. n /\ (k + 1) - 1 = k /\ k + 1 \in 0 .. n
      BY <1>1, <2>2
    <3>2. l[k + 1] = turn(l[k], qs[k + 1])
      BY <1>11, <3>1
    <3>3. l[k + 1] \in Lists
      BY <1>3, <2>2, <3>1, <3>2
    <3>4. QED
      BY <3>1, <3>3
  <2> HIDE DEF B
  <2>3. \A k \in 0 .. n : k \in B
    BY <1>1, <2>1, <2>2, SetInduction
  <2>4. QED
    BY <2>3 DEF B
<1>14. l \in [0 .. n -> Lists]
  BY <1>13
<1> HIDE DEF l
<1>15. QED
  BY <1>10, <1>11, <1>12, <1>14 DEF LoopSteps, n

(* The table of the market's scan over qs.                                 *)
IsScanTable(g, qs) ==
  g = [T \in SUBSET DOMAIN qs |->
         IF T = {} THEN {} ELSE scan(g[T \ {Max(T)}], qs[Max(T)])]

(* b holds the best so far, none or one, after each quote.                 *)
ScanSteps(b, qs) ==
  /\ b \in [0 .. Len(qs) -> SUBSET Offers]
  /\ b[0] = {}
  /\ \A k \in 1 .. Len(qs) : b[k] = scan(b[k - 1], qs[k])

LEMMA ScanUnrolled ==
  ASSUME NEW qs \in Seq(Offers)
  PROVE  \E b : ScanSteps(b, qs) /\ b[Len(qs)] = scanned(qs)
<1> DEFINE n == Len(qs)
           V == SUBSET Offers
           F == [p \in (1 .. n) \X V |-> scan(p[2], qs[p[1]])]
<1>1. n \in Nat /\ DOMAIN qs = 1 .. n /\ \A k \in 1 .. n : qs[k] \in Offers
  OBVIOUS
<1>2. {} \in V
  OBVIOUS
<1> HIDE DEF n
<1>3. \A k \in 1 .. n, x \in V : scan(x, qs[k]) \in V
  BY <1>1 DEF scan
<1> HIDE DEF V
<1>4. F \in [(1 .. n) \X V -> V]
  BY <1>3
<1>5. \A k \in 1 .. n, x \in V : F[<<k, x>>] = scan(x, qs[k])
  OBVIOUS
<1> HIDE DEF F
<1>6. PICK g \in [SUBSET (1 .. n) -> V] : IsTable(g, F, {}, n)
  BY <1>1, <1>2, <1>4, TableExists
<1>7. \E h : IsScanTable(h, qs)
  <2>1. ASSUME NEW T \in SUBSET (1 .. n)
        PROVE  g[T] = IF T = {} THEN {} ELSE scan(g[T \ {Max(T)}], qs[Max(T)])
    <3>1. g[T] = IF T = {} THEN {} ELSE F[<<Max(T), g[T \ {Max(T)}]>>]
      BY <1>6 DEF IsTable
    <3>2. T # {} => Max(T) \in T
      BY <1>1, MaxOfSome
    <3>3. T # {} => Max(T) \in 1 .. n /\ g[T \ {Max(T)}] \in V
      BY <1>6, <3>2
    <3>4. QED
      BY <1>5, <3>1, <3>3
  <2>2. g = [T \in SUBSET (1 .. n) |-> g[T]]
    BY <1>6
  <2>3. g = [T \in SUBSET DOMAIN qs |->
              IF T = {} THEN {} ELSE scan(g[T \ {Max(T)}], qs[Max(T)])]
    <3> HIDE DEF V
    <3>1. DOMAIN qs = 1 .. n
      BY <1>1
    <3>2. QED
      BY <2>1, <2>2, <3>1
  <2>4. IsScanTable(g, qs)
    BY <2>3 DEF IsScanTable
  <2>5. QED
    BY <2>4
<1> DEFINE t == CHOOSE h : IsScanTable(h, qs)
           b == [k \in 0 .. n |-> t[1 .. k]]
<1>8. IsScanTable(t, qs)
  BY <1>7
<1>9. scanned(qs) = t[1 .. n]
  BY <1>1 DEF scanned, FoldLeft, MapThenFoldSet, IsScanTable
<1> HIDE DEF t
<1>10. b[0] = {}
  <2>1. 1 .. 0 = {} /\ {} \in SUBSET (1 .. n)
    OBVIOUS
  <2>2. t[{}] = {}
    BY <1>1, <1>8, <2>1 DEF IsScanTable
  <2>3. 0 \in 0 .. n
    BY <1>1
  <2>4. QED
    BY <2>1, <2>2, <2>3
<1>11. \A k \in 1 .. n : b[k] = scan(b[k - 1], qs[k])
  <2> SUFFICES ASSUME NEW k \in 1 .. n PROVE b[k] = scan(b[k - 1], qs[k])
    OBVIOUS
  <2>1. k \in Nat /\ k # 0 /\ k \in 0 .. n /\ k - 1 \in 0 .. n /\ k <= n
    BY <1>1
  <2>2. 1 .. k \in SUBSET (1 .. n) /\ 1 .. k # {}
    <3>1. k \in 1 .. k
      BY <2>1
    <3>2. \A x \in 1 .. k : x \in 1 .. n
      BY <1>1, <2>1
    <3>3. QED
      BY <3>1, <3>2
  <2>3. Max(1 .. k) = k /\ (1 .. k) \ {k} = 1 .. (k - 1)
    BY <2>1, MaxOfInterval
  <2>4. t[1 .. k] = scan(t[(1 .. k) \ {Max(1 .. k)}], qs[Max(1 .. k)])
    BY <1>1, <1>8, <2>2 DEF IsScanTable
  <2>5. QED
    BY <2>1, <2>3, <2>4
<1>12. b[n] = scanned(qs)
  BY <1>1, <1>9
<1>13. \A k \in 0 .. n : b[k] \in V
  <2> HIDE DEF b
  <2> DEFINE B == {k \in 0 .. n : b[k] \in V}
  <2>1. 0 \in B
    <3>1. 0 \in 0 .. n /\ b[0] \in V
      BY <1>1, <1>2, <1>10
    <3>2. QED
      BY <3>1
  <2>2. ASSUME NEW k \in Nat, k < n, k \in B PROVE k + 1 \in B
    <3>1. k + 1 \in 1 .. n /\ (k + 1) - 1 = k /\ k + 1 \in 0 .. n
      BY <1>1, <2>2
    <3>2. b[k + 1] = scan(b[k], qs[k + 1])
      BY <1>11, <3>1
    <3>3. b[k + 1] \in V
      BY <1>3, <2>2, <3>1, <3>2
    <3>4. QED
      BY <3>1, <3>3
  <2> HIDE DEF B
  <2>3. \A k \in 0 .. n : k \in B
    BY <1>1, <2>1, <2>2, SetInduction
  <2>4. QED
    BY <2>3 DEF B
<1>14. b \in [0 .. n -> V]
  BY <1>13
<1> HIDE DEF b
<1>15. QED
  BY <1>10, <1>11, <1>12, <1>14 DEF ScanSteps, n, V

(***************************************************************************)
(* Part 3: the order of the quotes.                                        *)
(***************************************************************************)
LEMMA QuoteFacts ==
  ASSUME NEW q \in Offers
  PROVE  /\ q.price \in Nat /\ q.eta \in Nat /\ q.rate \in Nat
         /\ score_quote(q) \in Nat /\ score(q) \in Nat
<1>1. q \in Quote
  BY MatchingAssumption
<1>2. One \in Nat /\ score_quote(q) \in Nat /\ score(q) \in Nat
  BY MatchingAssumption
<1>3. q.price \in Nat /\ q.eta \in Nat /\ q.rate \in 0 .. One
  BY <1>1 DEF Quote, Unit
<1>4. QED
  BY <1>2, <1>3

(* Not to come after is transitive: the sort key is a weak order.          *)
LEMMA WeakOrder ==
  ASSUME NEW p \in Offers, NEW q \in Offers, NEW r \in Offers,
         ~before(q, p), ~before(r, q)
  PROVE  ~before(r, p)
<1>1. /\ score_quote(p) \in Nat /\ score_quote(q) \in Nat /\ score_quote(r) \in Nat
      /\ p.eta \in Nat /\ q.eta \in Nat /\ r.eta \in Nat
  BY QuoteFacts
<1>2. QED
  BY <1>1 DEF before

LEMMA BeforeIsStrict ==
  ASSUME NEW p \in Offers, NEW q \in Offers, before(p, q)
  PROVE  ~before(q, p)
<1>1. /\ score_quote(p) \in Nat /\ score_quote(q) \in Nat
      /\ p.eta \in Nat /\ q.eta \in Nat
  BY QuoteFacts
<1>2. QED
  BY <1>1 DEF before

(***************************************************************************)
(* Part 4: what insert does to a sorted list.                              *)
(***************************************************************************)
Sorted(s) == \A i, j \in 1 .. Len(s) : i < j => ~before(s[j], s[i])

(* A set of indices with everything below its members is an interval.      *)
LEMMA InitialSegment ==
  ASSUME NEW n \in Nat, NEW D \in SUBSET (1 .. n),
         \A i \in D, j \in 1 .. n : j < i => j \in D
  PROVE  Cardinality(D) \in 0 .. n /\ D = 1 .. Cardinality(D)
<1>1. CASE D = {}
  <2>1. Cardinality(D) = 0 /\ 1 .. 0 = {}
    BY <1>1, FS_EmptySet
  <2>2. QED
    BY <1>1, <2>1
<1>2. CASE D # {}
  <2>1. PICK m \in D : \A x \in D : m >= x
    <3>1. Max(D) \in D /\ \A x \in D : Max(D) >= x
      BY <1>2, MaxOfSome
    <3>2. QED
      BY <3>1
  <2>2. m \in 1 .. n /\ m \in Int /\ m > 0
    BY <2>1
  <2>3. D = 1 .. m
    <3>1. ASSUME NEW x \in D PROVE x \in 1 .. m
      <4>1. x \in 1 .. n /\ m >= x
        BY <2>1
      <4>2. QED
        BY <2>2, <4>1
    <3>2. ASSUME NEW x \in 1 .. m PROVE x \in D
      <4>1. x \in 1 .. n /\ (x < m \/ x = m)
        BY <2>2
      <4>2. QED
        BY <2>1, <4>1
    <3>3. QED
      BY <3>1, <3>2
  <2>4. Cardinality(1 .. m) = m
    <3>1. 1 \in Int /\ m \in Int /\ ~ (1 > m)
      BY <2>2
    <3>2. Cardinality(1 .. m) = IF 1 > m THEN 0 ELSE m - 1 + 1
      BY <3>1, FS_Interval
    <3>3. QED
      BY <3>1, <3>2
  <2>5. QED
    BY <2>2, <2>3, <2>4
<1>3. QED
  BY <1>1, <1>2

(* t is s with q put in after the first n.                                 *)
PutIn(s, q, n, t) ==
  /\ n \in 0 .. Len(s)
  /\ t \in Seq(Offers) /\ Len(t) = Len(s) + 1
  /\ \A i \in 1 .. Len(s) : IF i <= n THEN t[i] = s[i] ELSE t[i + 1] = s[i]
  /\ t[n + 1] = q

(* A quote goes after all those it does not beat, and before the others.   *)
LEMMA InsertPlace ==
  ASSUME NEW s \in Seq(Offers), NEW q \in Offers, Sorted(s)
  PROVE  \E n \in 0 .. Len(s) :
           /\ PutIn(s, q, n, insert(s, q))
           /\ \A i \in 1 .. Len(s) : i <= n <=> ~before(q, s[i])
<1> DEFINE L == Len(s)
           D == {i \in DOMAIN s : ~before(q, s[i])}
           n == Cardinality(D)
<1>1. L \in Nat /\ DOMAIN s = 1 .. L /\ \A i \in 1 .. L : s[i] \in Offers
  OBVIOUS
<1>2. \A i \in D, j \in 1 .. L : j < i => j \in D
  <2> SUFFICES ASSUME NEW i \in D, NEW j \in 1 .. L, j < i PROVE j \in D
    OBVIOUS
  <2>1. i \in 1 .. L /\ s[i] \in Offers /\ s[j] \in Offers /\ ~before(q, s[i])
    BY <1>1
  <2>2. ~before(s[i], s[j])
    BY <2>1 DEF Sorted
  <2>3. ~before(q, s[j])
    BY <2>1, <2>2, WeakOrder
  <2>4. QED
    BY <1>1, <2>3
<1>3. D \in SUBSET (1 .. L)
  BY <1>1
<1>4. n \in 0 .. L /\ D = 1 .. n
  <2> HIDE DEF D, L
  <2>1. QED
    BY <1>1, <1>2, <1>3, InitialSegment
<1>5. \A i \in 1 .. L : i <= n <=> ~before(q, s[i])
  <2>1. \A i \in 1 .. L : i \in D <=> ~before(q, s[i])
    BY <1>1
  <2> HIDE DEF D
  <2>2. \A i \in 1 .. L : i \in 1 .. n <=> i <= n
    BY <1>1, <1>4
  <2>3. QED
    BY <1>4, <2>1, <2>2
<1>6. insert(s, q) = SubSeq(s, 1, n) \o <<q>> \o SubSeq(s, n + 1, L)
  BY DEF insert
<1> HIDE DEF n, D
<1> DEFINE a == SubSeq(s, 1, n)
           b == SubSeq(s, n + 1, L)
           t == a \o <<q>> \o b
<1>7. /\ a \in Seq(Offers) /\ Len(a) = n
      /\ \A i \in 1 .. n : a[i] = s[i]
  BY <1>1, <1>4
<1>8. /\ b \in Seq(Offers) /\ Len(b) = L - n
      /\ \A i \in 1 .. L - n : b[i] = s[n + i]
  <2>1. /\ n + 1 \in Int /\ L \in Int
        /\ \A i \in n + 1 .. L : s[i] \in Offers
    BY <1>1, <1>4
  <2>2. /\ b \in Seq(Offers) /\ Len(b) = IF n + 1 <= L THEN L - (n + 1) + 1 ELSE 0
        /\ \A i \in 1 .. L - (n + 1) + 1 : b[i] = s[(n + 1) + i - 1]
    <3> HIDE DEF L
    <3>1. QED
      BY <2>1, SubSeqProperties DEF b
  <2>3. \A i \in 1 .. L - n : (n + 1) + i - 1 = n + i
    BY <1>1, <1>4
  <2>4. L - (n + 1) + 1 = L - n /\ (~ (n + 1 <= L) => L - n = 0)
    <3>1. \A x, y \in Nat : y <= x =>
            x - (y + 1) + 1 = x - y /\ (~ (y + 1 <= x) => x - y = 0)
      OBVIOUS
    <3>2. L \in Nat /\ n \in Nat /\ n <= L
      BY <1>1, <1>4
    <3>3. QED
      BY <3>1, <3>2
  <2> HIDE DEF b
  <2>5. QED
    BY <2>2, <2>3, <2>4
<1> HIDE DEF a, b
<1>9. /\ a \o <<q>> \in Seq(Offers) /\ Len(a \o <<q>>) = n + 1
      /\ \A i \in 1 .. n : (a \o <<q>>)[i] = a[i]
      /\ (a \o <<q>>)[n + 1] = q
  BY <1>4, <1>7
<1>10. t \in Seq(Offers) /\ Len(t) = (n + 1) + (L - n)
  BY <1>8, <1>9, ConcatProperties
<1>11. \A i \in 1 .. (n + 1) + (L - n) :
         t[i] = IF i <= n + 1 THEN (a \o <<q>>)[i] ELSE b[i - (n + 1)]
  BY <1>8, <1>9, ConcatProperties
<1> HIDE DEF t
<1>12. t[n + 1] = q
  <2>1. n + 1 \in 1 .. (n + 1) + (L - n) /\ n + 1 <= n + 1
    BY <1>1, <1>4
  <2>2. QED
    BY <1>9, <1>11, <2>1
<1>13. ASSUME NEW i \in 1 .. L
       PROVE  IF i <= n THEN t[i] = s[i] ELSE t[i + 1] = s[i]
  <2>1. CASE i <= n
    <3>1. i \in 1 .. (n + 1) + (L - n) /\ i <= n + 1 /\ i \in 1 .. n
      BY <1>1, <1>4, <2>1
    <3>2. QED
      BY <1>7, <1>9, <1>11, <2>1, <3>1
  <2>2. CASE ~ (i <= n)
    <3>1. /\ i + 1 \in 1 .. (n + 1) + (L - n) /\ ~ (i + 1 <= n + 1)
          /\ i - n \in 1 .. L - n /\ (i + 1) - (n + 1) = i - n /\ n + (i - n) = i
      BY <1>1, <1>4, <2>2
    <3>2. t[i + 1] = b[i - n]
      BY <1>11, <3>1
    <3>3. QED
      BY <1>8, <2>2, <3>1, <3>2
  <2>3. QED
    BY <2>1, <2>2
<1>14. Len(t) = L + 1
  BY <1>1, <1>4, <1>10
<1>15. PutIn(s, q, n, t)
  BY <1>4, <1>10, <1>12, <1>13, <1>14 DEF PutIn
<1>16. QED
  BY <1>4, <1>5, <1>6, <1>15 DEF t, a, b

(* What is at an index of t.                                               *)
LEMMA PutInInverse ==
  ASSUME NEW s \in Seq(Offers), NEW q \in Offers, NEW n, NEW t, PutIn(s, q, n, t),
         NEW i \in 1 .. Len(t)
  PROVE  \/ i <= n /\ i \in 1 .. Len(s) /\ t[i] = s[i]
         \/ i = n + 1 /\ t[i] = q
         \/ i > n + 1 /\ i - 1 \in 1 .. Len(s) /\ t[i] = s[i - 1]
<1>1. Len(s) \in Nat /\ n \in 0 .. Len(s) /\ i \in 1 .. Len(s) + 1
  BY DEF PutIn
<1>2. CASE i <= n
  BY <1>1, <1>2 DEF PutIn
<1>3. CASE i = n + 1
  BY <1>3 DEF PutIn
<1>4. CASE i > n + 1
  <2>1. PICK j \in 1 .. Len(s) : j = i - 1 /\ j + 1 = i /\ ~ (j <= n)
    BY <1>1, <1>4
  <2>2. t[j + 1] = s[j]
    BY <2>1 DEF PutIn
  <2>3. QED
    BY <1>4, <2>1, <2>2
<1>5. QED
  BY <1>1, <1>2, <1>3, <1>4

LEMMA InsertSorts ==
  ASSUME NEW s \in Seq(Offers), NEW q \in Offers, Sorted(s)
  PROVE  Sorted(insert(s, q))
<1> DEFINE t == insert(s, q)
<1>1. PICK n \in 0 .. Len(s) :
         /\ PutIn(s, q, n, t)
         /\ \A i \in 1 .. Len(s) : i <= n <=> ~before(q, s[i])
  BY InsertPlace
<1> HIDE DEF t
<1>2. ASSUME NEW i \in 1 .. Len(t), NEW j \in 1 .. Len(t), i < j
      PROVE  ~before(t[j], t[i])
  <2>1. \/ i <= n /\ i \in 1 .. Len(s) /\ t[i] = s[i]
        \/ i = n + 1 /\ t[i] = q
        \/ i > n + 1 /\ i - 1 \in 1 .. Len(s) /\ t[i] = s[i - 1]
    BY <1>1, PutInInverse
  <2>2. \/ j <= n /\ j \in 1 .. Len(s) /\ t[j] = s[j]
        \/ j = n + 1 /\ t[j] = q
        \/ j > n + 1 /\ j - 1 \in 1 .. Len(s) /\ t[j] = s[j - 1]
    BY <1>1, PutInInverse
  <2>3. i \in Int /\ j \in Int /\ n \in Nat /\ Len(s) \in Nat
    BY <1>1
  <2>4. CASE i <= n /\ i \in 1 .. Len(s) /\ t[i] = s[i]
    <3>1. CASE j <= n /\ j \in 1 .. Len(s) /\ t[j] = s[j]
      BY <1>2, <2>4, <3>1 DEF Sorted
    <3>2. CASE j = n + 1 /\ t[j] = q
      BY <1>1, <2>4, <3>2
    <3>3. CASE j > n + 1 /\ j - 1 \in 1 .. Len(s) /\ t[j] = s[j - 1]
      <4>1. i < j - 1
        BY <2>3, <2>4, <3>3
      <4>2. QED
        BY <2>4, <3>3, <4>1 DEF Sorted
    <3>4. QED
      BY <2>2, <3>1, <3>2, <3>3
  <2>5. CASE i = n + 1 /\ t[i] = q
    <3>1. j > n + 1
      BY <1>2, <2>3, <2>5
    <3>2. j - 1 \in 1 .. Len(s) /\ t[j] = s[j - 1] /\ ~ (j - 1 <= n)
      BY <2>2, <2>3, <3>1
    <3>3. before(q, s[j - 1]) /\ s[j - 1] \in Offers
      BY <1>1, <3>2
    <3>4. QED
      BY <2>5, <3>2, <3>3, BeforeIsStrict
  <2>6. CASE i > n + 1 /\ i - 1 \in 1 .. Len(s) /\ t[i] = s[i - 1]
    <3>1. j > n + 1 /\ i - 1 < j - 1
      BY <1>2, <2>3, <2>6
    <3>2. j - 1 \in 1 .. Len(s) /\ t[j] = s[j - 1]
      BY <2>2, <2>3, <3>1
    <3>3. QED
      BY <2>6, <3>1, <3>2 DEF Sorted
  <2>7. QED
    BY <2>1, <2>4, <2>5, <2>6
<1>3. QED
  BY <1>2 DEF Sorted, t

(***************************************************************************)
(* Part 5: how often a quote is in a list.                                 *)
(***************************************************************************)
HowOften(s, x) == Cardinality({i \in DOMAIN s : s[i] = x})

Times(q, x) == IF q = x THEN 1 ELSE 0

LEMMA SameSize ==
  ASSUME NEW S, NEW T, IsFiniteSet(S), NEW f \in [S -> T],
         \A x, y \in S : f[x] = f[y] => x = y,
         \A y \in T : \E x \in S : f[x] = y
  PROVE  IsFiniteSet(T) /\ Cardinality(T) = Cardinality(S)
<1>1. f \in Bijection(S, T)
  BY DEF Bijection, Injection, Surjection, IsInjective
<1>2. ExistsBijection(S, T)
  BY <1>1 DEF ExistsBijection
<1>3. QED
  BY <1>2, FS_Bijection

LEMMA Indices ==
  ASSUME NEW s \in Seq(Offers), NEW x
  PROVE  /\ IsFiniteSet({i \in DOMAIN s : s[i] = x})
         /\ {i \in DOMAIN s : s[i] = x} = {i \in 1 .. Len(s) : s[i] = x}
         /\ HowOften(s, x) \in Nat
<1> DEFINE I == {i \in DOMAIN s : s[i] = x}
<1>1. Len(s) \in Nat /\ DOMAIN s = 1 .. Len(s)
  OBVIOUS
<1>2. I \in SUBSET (1 .. Len(s)) /\ I = {i \in 1 .. Len(s) : s[i] = x}
  BY <1>1
<1>3. IsFiniteSet(1 .. Len(s))
  <2>1. 1 \in Int /\ Len(s) \in Int
    BY <1>1
  <2>2. QED
    BY <2>1, FS_Interval
<1> HIDE DEF I
<1>4. IsFiniteSet(I) /\ Cardinality(I) \in Nat
  BY <1>2, <1>3, FS_Subset, FS_CardinalityType
<1>5. QED
  BY <1>2, <1>4 DEF I, HowOften

LEMMA PutInCounts ==
  ASSUME NEW s \in Seq(Offers), NEW q \in Offers, NEW n, NEW t, PutIn(s, q, n, t), NEW x
  PROVE  HowOften(t, x) = HowOften(s, x) + Times(q, x)
<1> DEFINE I == {i \in DOMAIN s : s[i] = x}
           K == {i \in DOMAIN t : t[i] = x}
           J == K \ {n + 1}
           f == [i \in I |-> IF i <= n THEN i ELSE i + 1]
<1>1. /\ Len(s) \in Nat /\ DOMAIN s = 1 .. Len(s) /\ DOMAIN t = 1 .. Len(t)
      /\ t \in Seq(Offers) /\ Len(t) = Len(s) + 1 /\ n \in Nat /\ n <= Len(s)
  BY DEF PutIn
<1>2. ASSUME NEW i \in I PROVE f[i] \in J
  <2>1. i \in 1 .. Len(s) /\ s[i] = x
    BY <1>1
  <2>2. CASE i <= n
    <3>1. t[i] = x
      BY <2>1, <2>2 DEF PutIn
    <3>2. i \in 1 .. Len(t) /\ i # n + 1
      BY <1>1, <2>1, <2>2
    <3>3. QED
      BY <1>1, <2>2, <3>1, <3>2
  <2>3. CASE ~ (i <= n)
    <3>1. t[i + 1] = x
      BY <2>1, <2>3 DEF PutIn
    <3>2. i + 1 \in 1 .. Len(t) /\ i + 1 # n + 1
      BY <1>1, <2>1, <2>3
    <3>3. QED
      BY <1>1, <2>3, <3>1, <3>2
  <2>4. QED
    BY <2>2, <2>3
<1>3. f \in [I -> J]
  BY <1>2
<1>4. \A i, j \in I : f[i] = f[j] => i = j
  <2>1. I \subseteq Int
    BY <1>1
  <2> HIDE DEF I
  <2>2. QED
    BY <1>1, <2>1
<1>5. ASSUME NEW k \in J PROVE \E i \in I : f[i] = k
  <2>1. k \in 1 .. Len(t) /\ t[k] = x /\ k # n + 1
    BY <1>1
  <2>2. \/ k <= n /\ k \in 1 .. Len(s) /\ t[k] = s[k]
        \/ k > n + 1 /\ k - 1 \in 1 .. Len(s) /\ t[k] = s[k - 1]
    BY <2>1, PutInInverse
  <2>3. CASE k <= n /\ k \in 1 .. Len(s) /\ t[k] = s[k]
    <3>1. k \in I
      BY <1>1, <2>1, <2>3
    <3>2. QED
      BY <2>3, <3>1
  <2>4. CASE k > n + 1 /\ k - 1 \in 1 .. Len(s) /\ t[k] = s[k - 1]
    <3>1. k - 1 \in I /\ ~ (k - 1 <= n) /\ (k - 1) + 1 = k
      BY <1>1, <2>1, <2>4
    <3>2. QED
      BY <3>1
  <2>5. QED
    BY <2>2, <2>3, <2>4
<1>6. IsFiniteSet(I) /\ IsFiniteSet(K)
  BY <1>1, Indices
<1> HIDE DEF I, K, f
<1>7. Cardinality(J) = Cardinality(I)
  BY <1>3, <1>4, <1>5, <1>6, SameSize
<1>8. n + 1 \in K <=> q = x
  <2>1. n + 1 \in 1 .. Len(t)
    BY <1>1
  <2>2. t[n + 1] = q
    BY DEF PutIn
  <2>3. QED
    BY <1>1, <2>1, <2>2 DEF K
<1>9. Cardinality(J) = IF n + 1 \in K THEN Cardinality(K) - 1 ELSE Cardinality(K)
  BY <1>6, FS_RemoveElement
<1>10. Cardinality(K) \in Nat /\ Cardinality(I) \in Nat
  BY <1>6, FS_CardinalityType
<1>11. QED
  BY <1>7, <1>8, <1>9, <1>10 DEF HowOften, Times, I, K

LEMMA AppendPutsIn ==
  ASSUME NEW s \in Seq(Offers), NEW q \in Offers
  PROVE  PutIn(s, q, Len(s), Append(s, q))
<1>1. Len(s) \in Nat
  OBVIOUS
<1>2. QED
  BY <1>1, AppendProperties DEF PutIn

LEMMA ConcatCounts ==
  ASSUME NEW s \in Seq(Offers), NEW t \in Seq(Offers), NEW x
  PROVE  HowOften(s \o t, x) = HowOften(s, x) + HowOften(t, x)
<1> DEFINE u == s \o t
           I == {i \in DOMAIN s : s[i] = x}
           J == {i \in DOMAIN t : t[i] = x}
           K == {i \in DOMAIN u : u[i] = x}
           H == K \ I
           f == [i \in J |-> Len(s) + i]
<1>1. /\ Len(s) \in Nat /\ DOMAIN s = 1 .. Len(s)
      /\ Len(t) \in Nat /\ DOMAIN t = 1 .. Len(t)
      /\ u \in Seq(Offers) /\ DOMAIN u = 1 .. Len(s) + Len(t)
  <2>1. u \in Seq(Offers) /\ Len(u) = Len(s) + Len(t)
    BY ConcatProperties
  <2> HIDE DEF u
  <2>2. QED
    BY <2>1
<1>2. \A i \in 1 .. Len(s) + Len(t) : u[i] = IF i <= Len(s) THEN s[i] ELSE t[i - Len(s)]
  BY ConcatProperties
<1>3. IsFiniteSet(I) /\ IsFiniteSet(J) /\ IsFiniteSet(K)
  BY <1>1, Indices
<1> HIDE DEF u
<1>4. I \subseteq K
  <2> SUFFICES ASSUME NEW i \in I PROVE i \in K
    OBVIOUS
  <2>1. i \in 1 .. Len(s) /\ s[i] = x
    BY <1>1
  <2>2. i \in 1 .. Len(s) + Len(t) /\ i <= Len(s)
    BY <1>1, <2>1
  <2>3. QED
    BY <1>1, <1>2, <2>1, <2>2
<1>5. ASSUME NEW i \in J PROVE f[i] \in H
  <2>1. i \in 1 .. Len(t) /\ t[i] = x
    BY <1>1
  <2>2. /\ Len(s) + i \in 1 .. Len(s) + Len(t) /\ ~ (Len(s) + i <= Len(s))
        /\ (Len(s) + i) - Len(s) = i
    BY <1>1, <2>1
  <2>3. u[Len(s) + i] = x
    BY <1>2, <2>1, <2>2
  <2>4. Len(s) + i \notin 1 .. Len(s)
    BY <1>1, <2>2
  <2>5. QED
    BY <1>1, <2>2, <2>3, <2>4
<1>6. f \in [J -> H]
  BY <1>5
<1>7. \A i, j \in J : f[i] = f[j] => i = j
  <2>1. J \subseteq Int
    BY <1>1
  <2> HIDE DEF J
  <2>2. QED
    BY <1>1, <2>1
<1>8. ASSUME NEW k \in H PROVE \E i \in J : f[i] = k
  <2>1. k \in 1 .. Len(s) + Len(t) /\ u[k] = x
    BY <1>1
  <2>2. ~ (k <= Len(s))
    <3>1. SUFFICES ASSUME k <= Len(s) PROVE FALSE
      OBVIOUS
    <3>2. k \in 1 .. Len(s) /\ s[k] = x
      BY <1>1, <1>2, <2>1, <3>1
    <3>3. QED
      BY <1>1, <3>2
  <2>3. k - Len(s) \in 1 .. Len(t) /\ Len(s) + (k - Len(s)) = k
    BY <1>1, <2>1, <2>2
  <2>4. t[k - Len(s)] = x
    BY <1>2, <2>1, <2>2
  <2>5. k - Len(s) \in J
    BY <1>1, <2>3, <2>4
  <2>6. QED
    BY <2>3, <2>5
<1> HIDE DEF I, J, K, f
<1>9. Cardinality(H) = Cardinality(J)
  BY <1>3, <1>6, <1>7, <1>8, SameSize
<1>10. Cardinality(H) = Cardinality(K) - Cardinality(K \cap I)
  BY <1>3, FS_Difference
<1>11. K \cap I = I
  BY <1>4
<1>12. Cardinality(I) \in Nat /\ Cardinality(J) \in Nat /\ Cardinality(K) \in Nat
  BY <1>3, FS_CardinalityType
<1>13. /\ HowOften(s, x) = Cardinality(I) /\ HowOften(t, x) = Cardinality(J)
       /\ HowOften(s \o t, x) = Cardinality(K)
  BY DEF HowOften, I, J, K, u
<1>14. \A a, b, c \in Nat : b = c - a => c = a + b
  OBVIOUS
<1>15. Cardinality(J) = Cardinality(K) - Cardinality(I)
  BY <1>9, <1>10, <1>11
<1>16. Cardinality(K) = Cardinality(I) + Cardinality(J)
  BY <1>12, <1>14, <1>15
<1>17. QED
  BY <1>13, <1>16

(***************************************************************************)
(* Part 6: the ranking.                                                    *)
(***************************************************************************)
(* How often x is among the first k quotes.                                *)
UpTo(qs, k, x) == Cardinality({i \in 1 .. k : qs[i] = x})

LEMMA UpToNext ==
  ASSUME NEW qs \in Seq(Offers), NEW k \in Nat, k < Len(qs), NEW x
  PROVE  UpTo(qs, k + 1, x) = UpTo(qs, k, x) + Times(qs[k + 1], x)
<1> DEFINE I == {i \in 1 .. k : qs[i] = x}
           J == {i \in 1 .. k + 1 : qs[i] = x}
<1>1. IsFiniteSet(1 .. k) /\ I \in SUBSET (1 .. k)
  <2>1. 1 \in Int /\ k \in Int
    OBVIOUS
  <2>2. QED
    BY <2>1, FS_Interval
<1>2. IsFiniteSet(I) /\ Cardinality(I) \in Nat
  BY <1>1, FS_Subset, FS_CardinalityType
<1>3. CASE qs[k + 1] = x
  <2>1. J = I \cup {k + 1} /\ k + 1 \notin I
    BY <1>3
  <2> HIDE DEF I, J
  <2>2. Cardinality(J) = Cardinality(I) + 1
    BY <1>2, <2>1, FS_AddElement
  <2>3. QED
    BY <1>3, <2>2 DEF UpTo, Times, I, J
<1>4. CASE qs[k + 1] # x
  <2>1. J = I
    BY <1>4
  <2>2. UpTo(qs, k + 1, x) = UpTo(qs, k, x)
    BY <2>1 DEF UpTo
  <2>3. UpTo(qs, k, x) \in Nat
    BY <1>2 DEF UpTo
  <2>4. QED
    BY <1>4, <2>2, <2>3 DEF Times
<1>5. QED
  BY <1>3, <1>4

(* Of the first k quotes, the i-th beats every eligible one before it and  *)
(* no eligible one after it beats it.                                      *)
FirstBest(qs, k, i) ==
  /\ i \in 1 .. k /\ ~violates_hard_constraints(qs[i])
  /\ \A j \in 1 .. k : ~violates_hard_constraints(qs[j]) =>
       /\ j < i => before(qs[i], qs[j])
       /\ j > i => ~before(qs[j], qs[i])

LEMMA FirstBestIsOne ==
  ASSUME NEW qs, NEW k \in Nat, NEW i, NEW j, FirstBest(qs, k, i), FirstBest(qs, k, j)
  PROVE  i = j
<1>1. i \in Int /\ j \in Int
  BY DEF FirstBest
<1>2. CASE i < j
  BY <1>1, <1>2 DEF FirstBest
<1>3. CASE j < i
  BY <1>1, <1>3 DEF FirstBest
<1>4. QED
  BY <1>1, <1>2, <1>3

(* The two lists after k quotes.                                           *)
Constrained(l) ==
  /\ \A i \in 1 .. Len(l.eligible) : ~violates_hard_constraints(l.eligible[i])
  /\ \A i \in 1 .. Len(l.rejected) : violates_hard_constraints(l.rejected[i])

Counted(qs, k, l) ==
  /\ Len(l.eligible) + Len(l.rejected) = k
  /\ \A x : HowOften(l.eligible, x) + HowOften(l.rejected, x) = UpTo(qs, k, x)

HeadIsBest(qs, k, l) ==
  IF l.eligible = <<>> THEN \A j \in 1 .. k : violates_hard_constraints(qs[j])
  ELSE \E i \in 1 .. k : FirstBest(qs, k, i) /\ l.eligible[1] = qs[i]

LoopInv(qs, k, l) ==
  l \in Lists /\ Sorted(l.eligible) /\ Constrained(l) /\ Counted(qs, k, l)
    /\ HeadIsBest(qs, k, l)

LEMMA LoopStart ==
  ASSUME NEW qs \in Seq(Offers)
  PROVE  LoopInv(qs, 0, NoLists)
<1>1. NoLists \in Lists /\ NoLists.eligible = <<>> /\ NoLists.rejected = <<>>
  BY EmptySeq DEF NoLists, Lists
<1>2. 1 .. 0 = {} /\ Len(<<>>) = 0
  OBVIOUS
<1>3. Sorted(NoLists.eligible) /\ Constrained(NoLists) /\ HeadIsBest(qs, 0, NoLists)
  BY <1>1, <1>2 DEF Sorted, Constrained, HeadIsBest
<1>4. ASSUME NEW x PROVE HowOften(<<>>, x) = 0 /\ UpTo(qs, 0, x) = 0
  <2>1. {i \in DOMAIN <<>> : <<>>[i] = x} = {} /\ {i \in 1 .. 0 : qs[i] = x} = {}
    BY <1>2
  <2>2. QED
    BY <2>1, FS_EmptySet DEF HowOften, UpTo
<1>5. Counted(qs, 0, NoLists)
  BY <1>1, <1>2, <1>4 DEF Counted
<1>6. QED
  BY <1>1, <1>3, <1>5 DEF LoopInv

(* A quote that violates a constraint changes neither list's order.        *)
LEMMA TurnRejects ==
  ASSUME NEW qs \in Seq(Offers), NEW k \in Nat, k < Len(qs), NEW l, LoopInv(qs, k, l),
         violates_hard_constraints(qs[k + 1])
  PROVE  LoopInv(qs, k + 1, turn(l, qs[k + 1]))
<1> DEFINE q == qs[k + 1]
           m == turn(l, q)
<1>1. q \in Offers /\ l \in Lists /\ l.eligible \in Seq(Offers) /\ l.rejected \in Seq(Offers)
  BY DEF LoopInv, Lists
<1>2. m \in Lists
  <2> HIDE DEF q
  <2>1. QED
    BY <1>1, TurnType
<1>3. m.eligible = l.eligible /\ m.rejected = Append(l.rejected, q)
  BY <1>1 DEF turn, Lists
<1> HIDE DEF m, q
<1> DEFINE R == Append(l.rejected, q)
           n == Len(l.rejected)
<1>4. PutIn(l.rejected, q, n, R)
  BY <1>1, AppendPutsIn
<1>5. /\ n \in Nat /\ Len(R) = n + 1 /\ R[n + 1] = q
      /\ \A i \in 1 .. n : R[i] = l.rejected[i]
  BY <1>1, AppendProperties
<1>6. Constrained(m)
  <2>1. ASSUME NEW i \in 1 .. Len(m.rejected)
        PROVE  violates_hard_constraints(m.rejected[i])
    <3>1. i \in 1 .. n \/ i = n + 1
      BY <1>3, <1>5
    <3>2. CASE i \in 1 .. n
      BY <1>3, <1>5, <3>2 DEF LoopInv, Constrained
    <3>3. CASE i = n + 1
      BY <1>3, <1>5, <3>3 DEF q
    <3>4. QED
      BY <3>1, <3>2, <3>3
  <2>2. QED
    BY <1>3, <2>1 DEF Constrained, LoopInv
<1>7. Counted(qs, k + 1, m)
  <2>1. ASSUME NEW x
        PROVE  HowOften(l.eligible, x) + HowOften(R, x) = UpTo(qs, k + 1, x)
    <3>1. HowOften(R, x) = HowOften(l.rejected, x) + Times(q, x)
      BY <1>1, <1>4, PutInCounts
    <3>2. UpTo(qs, k + 1, x) = UpTo(qs, k, x) + Times(q, x)
      BY UpToNext DEF q
    <3>3. HowOften(l.eligible, x) + HowOften(l.rejected, x) = UpTo(qs, k, x)
      BY DEF LoopInv, Counted
    <3>4. /\ HowOften(l.eligible, x) \in Nat /\ HowOften(l.rejected, x) \in Nat
          /\ Times(q, x) \in Nat
      BY <1>1, Indices DEF Times
    <3>5. QED
      BY <3>1, <3>2, <3>3, <3>4
  <2>2. Len(l.eligible) + Len(R) = k + 1
    <3>1. Len(l.eligible) + n = k
      BY DEF LoopInv, Counted
    <3>2. Len(l.eligible) \in Nat
      BY <1>1
    <3>3. \A a, b \in Nat : a + b = k => a + (b + 1) = k + 1
      OBVIOUS
    <3> HIDE DEF n, R
    <3>4. Len(l.eligible) + (n + 1) = k + 1
      BY <1>5, <3>1, <3>2, <3>3
    <3>5. QED
      BY <1>5, <3>4
  <2>3. QED
    BY <1>3, <2>1, <2>2 DEF Counted
<1>8. HeadIsBest(qs, k + 1, m)
  <2>1. \A j \in 1 .. k + 1 : j \in 1 .. k \/ j = k + 1
    OBVIOUS
  <2>2. CASE l.eligible = <<>>
    BY <1>3, <2>1, <2>2 DEF LoopInv, HeadIsBest
  <2>3. CASE l.eligible # <<>>
    <3>1. PICK i \in 1 .. k : FirstBest(qs, k, i) /\ l.eligible[1] = qs[i]
      BY <2>3 DEF LoopInv, HeadIsBest
    <3>2. FirstBest(qs, k + 1, i)
      BY <2>1, <3>1 DEF FirstBest
    <3>3. i \in 1 .. k + 1
      BY <3>1
    <3>4. QED
      BY <1>3, <2>3, <3>1, <3>2, <3>3 DEF HeadIsBest
  <2>4. QED
    BY <2>2, <2>3
<1>9. Sorted(m.eligible)
  BY <1>3 DEF LoopInv
<1>10. QED
  BY <1>2, <1>6, <1>7, <1>8, <1>9 DEF LoopInv, m, q

(* An eligible quote takes the head if it beats the head, and with it all. *)
LEMMA TurnSortsIn ==
  ASSUME NEW qs \in Seq(Offers), NEW k \in Nat, k < Len(qs), NEW l, LoopInv(qs, k, l),
         ~violates_hard_constraints(qs[k + 1])
  PROVE  LoopInv(qs, k + 1, turn(l, qs[k + 1]))
<1> DEFINE q == qs[k + 1]
           m == turn(l, q)
           e == l.eligible
           E == insert(e, q)
<1>1. q \in Offers /\ l \in Lists /\ e \in Seq(Offers) /\ l.rejected \in Seq(Offers)
  BY DEF LoopInv, Lists
<1>2. m \in Lists
  <2> HIDE DEF q
  <2>1. QED
    BY <1>1, TurnType
<1>3. m.eligible = E /\ m.rejected = l.rejected
  BY <1>1 DEF turn, Lists
<1>4. Sorted(e) /\ ~violates_hard_constraints(q)
  BY DEF LoopInv
<1> HIDE DEF m, q, e, E
<1>5. PICK n \in 0 .. Len(e) :
         /\ PutIn(e, q, n, E)
         /\ \A i \in 1 .. Len(e) : i <= n <=> ~before(q, e[i])
  BY <1>1, <1>4, InsertPlace DEF E
<1>6. Sorted(E)
  BY <1>1, <1>4, InsertSorts DEF E
<1>7. Len(e) \in Nat /\ n \in Nat /\ Len(E) = Len(e) + 1 /\ E \in Seq(Offers)
  BY <1>1, <1>5 DEF PutIn
<1>8. Constrained(m)
  <2>1. ASSUME NEW i \in 1 .. Len(E) PROVE ~violates_hard_constraints(E[i])
    <3>1. \A j \in 1 .. Len(e) : ~violates_hard_constraints(e[j])
      BY DEF LoopInv, Constrained, e
    <3>2. \/ i \in 1 .. Len(e) /\ E[i] = e[i]
          \/ E[i] = q
          \/ i - 1 \in 1 .. Len(e) /\ E[i] = e[i - 1]
      BY <1>1, <1>5, PutInInverse
    <3>3. QED
      BY <1>4, <3>1, <3>2
  <2>2. QED
    BY <1>3, <2>1 DEF Constrained, LoopInv
<1>9. Counted(qs, k + 1, m)
  <2>1. ASSUME NEW x
        PROVE  HowOften(E, x) + HowOften(l.rejected, x) = UpTo(qs, k + 1, x)
    <3>1. HowOften(E, x) = HowOften(e, x) + Times(q, x)
      BY <1>1, <1>5, PutInCounts
    <3>2. UpTo(qs, k + 1, x) = UpTo(qs, k, x) + Times(q, x)
      BY UpToNext DEF q
    <3>3. HowOften(e, x) + HowOften(l.rejected, x) = UpTo(qs, k, x)
      BY DEF LoopInv, Counted, e
    <3>4. HowOften(e, x) \in Nat /\ HowOften(l.rejected, x) \in Nat /\ Times(q, x) \in Nat
      BY <1>1, Indices DEF Times
    <3>5. QED
      BY <3>1, <3>2, <3>3, <3>4
  <2>2. Len(E) + Len(l.rejected) = k + 1
    <3>1. Len(e) + Len(l.rejected) = k
      BY DEF LoopInv, Counted, e
    <3>2. Len(l.rejected) \in Nat
      BY <1>1
    <3>3. \A a, b \in Nat : a + b = k => (a + 1) + b = k + 1
      OBVIOUS
    <3>4. (Len(e) + 1) + Len(l.rejected) = k + 1
      BY <1>7, <3>1, <3>2, <3>3
    <3>5. QED
      BY <1>7, <3>4
  <2>3. QED
    BY <1>3, <2>1, <2>2 DEF Counted
<1>10. HeadIsBest(qs, k + 1, m)
  <2>1. \A j \in 1 .. k + 1 : j \in 1 .. k \/ j = k + 1
    OBVIOUS
  <2>2. E # <<>>
    BY <1>7
  <2>3. \A j \in 1 .. k + 1 : qs[j] \in Offers
    OBVIOUS
  <2>4. CASE e = <<>>
    <3>1. Len(e) = 0 /\ n = 0 /\ E[1] = q
      BY <1>5, <1>7, <2>4 DEF PutIn
    <3>2. \A j \in 1 .. k : violates_hard_constraints(qs[j])
      BY <2>4 DEF LoopInv, HeadIsBest, e
    <3>3. FirstBest(qs, k + 1, k + 1)
      BY <1>4, <2>1, <3>2 DEF FirstBest, q
    <3>4. QED
      BY <1>3, <2>2, <3>1, <3>3 DEF HeadIsBest, q
  <2>5. CASE e # <<>>
    <3>1. PICK i \in 1 .. k : FirstBest(qs, k, i) /\ e[1] = qs[i]
      BY <2>5 DEF LoopInv, HeadIsBest, e
    <3>2. 1 \in 1 .. Len(e)
      BY <1>1, <1>7, <2>5
    <3>3. CASE n = 0
      <4>1. E[1] = q
        BY <1>5, <3>3 DEF PutIn
      <4>2. before(q, qs[i])
        BY <1>5, <3>1, <3>2, <3>3
      <4>3. ASSUME NEW j \in 1 .. k, ~violates_hard_constraints(qs[j])
            PROVE  before(q, qs[j])
        <5>1. qs[i] \in Offers /\ qs[j] \in Offers
          BY <2>3
        <5>2. CASE j = i
          BY <4>2, <5>2
        <5>3. CASE j < i
          <6>1. ~before(qs[j], qs[i])
            BY <3>1, <4>3, <5>1, <5>3, BeforeIsStrict DEF FirstBest
          <6>2. QED
            BY <1>1, <4>2, <5>1, <6>1, WeakOrder
        <5>4. CASE j > i
          <6>1. ~before(qs[j], qs[i])
            BY <3>1, <4>3, <5>4 DEF FirstBest
          <6>2. QED
            BY <1>1, <4>2, <5>1, <6>1, WeakOrder
        <5>5. QED
          BY <5>2, <5>3, <5>4
      <4>4. FirstBest(qs, k + 1, k + 1)
        BY <1>4, <2>1, <4>3 DEF FirstBest, q
      <4>5. QED
        BY <1>3, <2>2, <4>1, <4>4 DEF HeadIsBest, q
    <3>4. CASE n # 0
      <4>1. 1 <= n
        BY <1>7, <3>4
      <4>2. E[1] = e[1] /\ ~before(q, e[1])
        BY <1>5, <3>2, <4>1 DEF PutIn
      <4>3. FirstBest(qs, k + 1, i)
        BY <2>1, <3>1, <4>2 DEF FirstBest, q
      <4>4. i \in 1 .. k + 1
        BY <3>1
      <4>5. QED
        BY <1>3, <2>2, <3>1, <4>2, <4>3, <4>4 DEF HeadIsBest
    <3>5. QED
      BY <3>3, <3>4
  <2>6. QED
    BY <2>4, <2>5
<1>11. QED
  BY <1>2, <1>3, <1>6, <1>8, <1>9, <1>10 DEF LoopInv, m, q

LEMMA LoopResult ==
  ASSUME NEW qs \in Seq(Offers)
  PROVE  LoopInv(qs, Len(qs), loop(qs))
<1> DEFINE n == Len(qs)
<1>1. PICK l : LoopSteps(l, qs) /\ l[n] = loop(qs)
  BY LoopUnrolled
<1> DEFINE B == {k \in 0 .. n : LoopInv(qs, k, l[k])}
<1>2. n \in Nat
  OBVIOUS
<1>3. 0 \in B
  BY <1>1, <1>2, LoopStart DEF LoopSteps
<1>4. ASSUME NEW k \in Nat, k < n, k \in B PROVE k + 1 \in B
  <2>1. LoopInv(qs, k, l[k]) /\ k + 1 \in 1 .. n /\ k + 1 \in 0 .. n /\ (k + 1) - 1 = k
    BY <1>2, <1>4
  <2>2. l[k + 1] = turn(l[k], qs[k + 1])
    BY <1>1, <2>1 DEF LoopSteps
  <2>3. LoopInv(qs, k + 1, turn(l[k], qs[k + 1]))
    BY <1>4, <2>1, TurnRejects, TurnSortsIn
  <2>4. QED
    BY <2>1, <2>2, <2>3
<1> HIDE DEF B, n
<1>5. \A k \in 0 .. n : k \in B
  BY <1>2, <1>3, <1>4, SetInduction
<1>6. n \in 0 .. n
  BY <1>2
<1>7. QED
  BY <1>1, <1>5, <1>6 DEF B, n

(* The choice: none, or the first of the best, at the head of the ranking. *)
LEMMA Choice ==
  ASSUME NEW qs \in Seq(Offers)
  PROVE  \/ /\ select_best(qs) = {}
            /\ loop(qs).eligible = <<>>
            /\ \A j \in 1 .. Len(qs) : violates_hard_constraints(qs[j])
         \/ \E i \in 1 .. Len(qs) :
              /\ FirstBest(qs, Len(qs), i) /\ select_best(qs) = {qs[i]}
              /\ Head(rank_quotes(qs)) = qs[i]
              /\ loop(qs).eligible # <<>> /\ loop(qs).eligible[1] = qs[i]
<1> DEFINE e == loop(qs).eligible
           r == loop(qs).rejected
           n == Len(qs)
<1>1. LoopInv(qs, n, loop(qs))
  BY LoopResult
<1>2. e \in Seq(Offers) /\ r \in Seq(Offers) /\ n \in Nat
  BY <1>1 DEF LoopInv, Lists
<1>3. rank_quotes(qs) = e \o r
  BY DEF rank_quotes
<1>4. HeadIsBest(qs, n, loop(qs)) /\ Constrained(loop(qs)) /\ Counted(qs, n, loop(qs))
  BY <1>1 DEF LoopInv
<1> HIDE DEF e, r
<1>5. CASE e = <<>>
  <2>1. \A j \in 1 .. n : violates_hard_constraints(qs[j])
    BY <1>4, <1>5 DEF HeadIsBest, e
  <2>2. rank_quotes(qs) = r
    BY <1>2, <1>3, <1>5, ConcatEmptySeq
  <2>3. CASE qs = <<>>
    BY <1>5, <2>1, <2>3 DEF select_best, e
  <2>4. CASE qs # <<>>
    <3>1. n # 0
      BY <2>4
    <3>2. Len(e) + Len(r) = n
      BY <1>4 DEF Counted, e, r
    <3>3. Len(e) = 0 /\ Len(r) \in Nat
      BY <1>2, <1>5
    <3>4. 1 \in 1 .. Len(r)
      BY <3>1, <3>2, <3>3
    <3>5. violates_hard_constraints(r[1])
      BY <1>4, <3>4 DEF Constrained, r
    <3>6. Head(r) = r[1]
      BY <1>2, <3>4
    <3>7. select_best(qs) = {}
      BY <2>2, <3>5, <3>6 DEF select_best
    <3>8. QED
      BY <1>5, <2>1, <3>7 DEF e
  <2>5. QED
    BY <2>3, <2>4
<1>6. CASE e # <<>>
  <2>1. PICK i \in 1 .. n : FirstBest(qs, n, i) /\ e[1] = qs[i]
    BY <1>4, <1>6 DEF HeadIsBest, e
  <2>2. Head(e \o r) = e[1]
    BY <1>2, <1>6
  <2>3. qs # <<>>
    BY <1>2, <2>1
  <2>4. ~violates_hard_constraints(qs[i])
    BY <2>1 DEF FirstBest
  <2>5. Head(rank_quotes(qs)) = qs[i]
    BY <1>3, <2>1, <2>2
  <2>6. select_best(qs) = {qs[i]}
    BY <2>3, <2>4, <2>5 DEF select_best
  <2>7. QED
    BY <1>6, <2>1, <2>5, <2>6 DEF e
<1>7. QED
  BY <1>5, <1>6

LEMMA EligibleKeeps ==
  ASSUME MatchingAssumption, NEW q \in Offers
  PROVE  Eligible(q) <=> ~violates_hard_constraints(q)
<1>1. q.price \in Nat /\ q.rate \in Nat /\ Budget \in Nat /\ MinRate \in Nat
  <2>1. One \in Nat /\ Budget \in Nat /\ MinRate \in 0 .. One
    BY MatchingAssumption DEF Unit
  <2>2. QED
    BY <2>1, QuoteFacts
<1>2. QED
  BY <1>1 DEF Eligible, violates_hard_constraints

(***************************************************************************)
(* Part 7: the market's scan.                                              *)
(***************************************************************************)
plainly(p, q) == score(p) > score(q)

PlainBest(qs, k, i) ==
  /\ i \in 1 .. k /\ ~violates_hard_constraints(qs[i])
  /\ \A j \in 1 .. k : ~violates_hard_constraints(qs[j]) => ~plainly(qs[j], qs[i])

(* The best of the first k quotes, none or one.                            *)
ScanInv(qs, k, best) ==
  \/ best = {} /\ \A j \in 1 .. k : violates_hard_constraints(qs[j])
  \/ \E i \in 1 .. k : best = {qs[i]} /\ PlainBest(qs, k, i)

LEMMA PlainOrder ==
  ASSUME NEW p \in Offers, NEW q \in Offers, NEW r \in Offers,
         ~plainly(p, q), plainly(r, q)
  PROVE  ~plainly(p, r)
<1>1. score(p) \in Nat /\ score(q) \in Nat /\ score(r) \in Nat
  BY QuoteFacts
<1>2. QED
  BY <1>1 DEF plainly

LEMMA PlainIrreflexive ==
  ASSUME NEW q \in Offers
  PROVE  ~plainly(q, q)
<1>1. score(q) \in Nat
  BY QuoteFacts
<1>2. QED
  BY <1>1 DEF plainly

LEMMA ScanTurn ==
  ASSUME NEW qs \in Seq(Offers), NEW k \in Nat, k < Len(qs), NEW best,
         ScanInv(qs, k, best)
  PROVE  ScanInv(qs, k + 1, scan(best, qs[k + 1]))
<1> DEFINE q == qs[k + 1]
<1>1. /\ \A j \in 1 .. k + 1 : qs[j] \in Offers /\ (j \in 1 .. k \/ j = k + 1)
      /\ \A j \in 1 .. k : j \in 1 .. k + 1
      /\ k + 1 \in 1 .. k + 1
  OBVIOUS
<1>2. q \in Offers /\ ~plainly(q, q)
  BY <1>1, PlainIrreflexive
<1>3. CASE violates_hard_constraints(q)
  <2>1. scan(best, q) = best
    BY <1>3 DEF scan, plainly
  <2>2. QED
    BY <1>1, <1>3, <2>1 DEF ScanInv, PlainBest
<1>4. CASE ~violates_hard_constraints(q) /\ best = {}
  <2>1. scan(best, q) = {q}
    BY <1>4 DEF scan, plainly
  <2>2. \A j \in 1 .. k : violates_hard_constraints(qs[j])
    BY <1>4 DEF ScanInv
  <2>3. PlainBest(qs, k + 1, k + 1)
    BY <1>1, <1>2, <1>4, <2>2 DEF PlainBest
  <2>4. QED
    BY <1>1, <2>1, <2>3 DEF ScanInv
<1>5. CASE ~violates_hard_constraints(q) /\ best # {}
  <2>1. PICK i \in 1 .. k : best = {qs[i]} /\ PlainBest(qs, k, i)
    BY <1>5 DEF ScanInv
  <2>2. i \in 1 .. k + 1 /\ qs[i] \in Offers
    BY <1>1, <2>1
  <2>3. CASE plainly(q, qs[i])
    <3>1. scan(best, q) = {q}
      BY <1>5, <2>1, <2>3 DEF scan, plainly
    <3>2. \A j \in 1 .. k : ~violates_hard_constraints(qs[j]) => ~plainly(qs[j], q)
      BY <1>1, <1>2, <2>1, <2>2, <2>3, PlainOrder DEF PlainBest
    <3>3. PlainBest(qs, k + 1, k + 1)
      BY <1>1, <1>2, <1>5, <3>2 DEF PlainBest
    <3>4. QED
      BY <1>1, <3>1, <3>3 DEF ScanInv
  <2>4. CASE ~plainly(q, qs[i])
    <3>1. scan(best, q) = best
      BY <2>1, <2>4 DEF scan, plainly
    <3>2. PlainBest(qs, k + 1, i)
      BY <1>1, <2>1, <2>2, <2>4 DEF PlainBest
    <3>3. QED
      BY <2>1, <2>2, <3>1, <3>2 DEF ScanInv
  <2>5. QED
    BY <2>3, <2>4
<1>6. QED
  BY <1>3, <1>4, <1>5

LEMMA ScanResult ==
  ASSUME NEW qs \in Seq(Offers)
  PROVE  ScanInv(qs, Len(qs), scanned(qs))
<1> DEFINE n == Len(qs)
<1>1. PICK b : ScanSteps(b, qs) /\ b[n] = scanned(qs)
  BY ScanUnrolled
<1> DEFINE B == {k \in 0 .. n : ScanInv(qs, k, b[k])}
<1>2. n \in Nat
  OBVIOUS
<1>3. 0 \in B
  <2>1. b[0] = {} /\ 1 .. 0 = {} /\ 0 \in 0 .. n
    BY <1>1, <1>2 DEF ScanSteps
  <2>2. QED
    BY <2>1 DEF ScanInv
<1>4. ASSUME NEW k \in Nat, k < n, k \in B PROVE k + 1 \in B
  <2>1. ScanInv(qs, k, b[k]) /\ k + 1 \in 1 .. n /\ k + 1 \in 0 .. n /\ (k + 1) - 1 = k
    BY <1>2, <1>4
  <2>2. b[k + 1] = scan(b[k], qs[k + 1])
    BY <1>1, <2>1 DEF ScanSteps
  <2>3. ScanInv(qs, k + 1, scan(b[k], qs[k + 1]))
    BY <1>4, <2>1, ScanTurn
  <2>4. QED
    BY <2>1, <2>2, <2>3
<1> HIDE DEF B, n
<1>5. \A k \in 0 .. n : k \in B
  BY <1>2, <1>3, <1>4, SetInduction
<1>6. n \in 0 .. n
  BY <1>2
<1>7. QED
  BY <1>1, <1>5, <1>6 DEF B, n

(* From a reputation of a hundredth on, the floor of the score is idle.    *)
LEMMA FloorIsIdle ==
  ASSUME MinRate >= Floor, NEW q \in Offers, ~violates_hard_constraints(q)
  PROVE  score(q) = score_quote(q)
<1>1. Floor \in Nat /\ MinRate \in Nat /\ q.rate \in Nat /\ q.rate >= MinRate
  <2>1. One \in Nat /\ Floor \in 0 .. One /\ MinRate \in 0 .. One
    BY MatchingAssumption DEF Unit
  <2>2. QED
    BY <2>1, EligibleKeeps, QuoteFacts, MatchingAssumption DEF Eligible
<1>2. (IF q.rate > Floor THEN q.rate ELSE Floor) = q.rate
  BY <1>1
<1>3. QED
  BY <1>2 DEF score, score_quote

(***************************************************************************)
(* Part 8: the properties, for any offers, constraints and number of       *)
(* quotes.                                                                 *)
(***************************************************************************)
MatchingInv ==
  /\ quotes \in Seq(Offers)
  /\ over \in BOOLEAN
  /\ over => ranked = rank_quotes(quotes)

LEMMA MatchingInitInv == MatchingInit => MatchingInv
BY EmptySeq DEF MatchingInit, MatchingInv

LEMMA MatchingNextInv ==
  ASSUME MatchingInv, [MatchingNext]_matchingVars
  PROVE  MatchingInv'
<1>1. CASE ConsumeQuote
  <2>1. PICK q \in Offers : quotes' = Append(quotes, q)
    BY <1>1 DEF ConsumeQuote
  <2>2. quotes' \in Seq(Offers)
    BY <2>1, AppendProperties DEF MatchingInv
  <2>3. ~over /\ over' = over
    BY <1>1 DEF ConsumeQuote
  <2>4. QED
    BY <2>2, <2>3 DEF MatchingInv
<1>2. CASE EndOfWindow
  <2>1. over' = TRUE /\ ranked' = rank_quotes(quotes) /\ quotes' = quotes
    BY <1>2 DEF EndOfWindow
  <2>2. ranked' = rank_quotes(quotes')
    BY <2>1
  <2>3. QED
    BY <2>1, <2>2 DEF MatchingInv
<1>3. CASE UNCHANGED matchingVars
  BY <1>3 DEF matchingVars, MatchingInv
<1>4. QED
  BY <1>1, <1>2, <1>3 DEF MatchingNext

LEMMA MatchingInvariant == MatchingSpec => []MatchingInv
<1>1. MatchingInv /\ [MatchingNext]_matchingVars => MatchingInv'
  BY MatchingNextInv, MatchingAssumption
<1>2. QED
  BY <1>1, MatchingInitInv, PTL DEF MatchingSpec

(* The ranking is right for any quotes: it keeps each as often as it was   *)
(* heard, the eligible ones first, and at its head is the best of them     *)
(* (rank_quotes and select_best, matching.py:46-71).                       *)
THEOREM BestQuoteWins == MatchingSpec => []BestEligibleWins
<1>1. ASSUME MatchingAssumption, MatchingInv, over PROVE BestEligibleWins
  <2> DEFINE e == loop(quotes).eligible
             r == loop(quotes).rejected
             n == Len(quotes)
  <2>1. quotes \in Seq(Offers) /\ n \in Nat /\ ranked = rank_quotes(quotes)
    BY <1>1 DEF MatchingInv
  <2>2. LoopInv(quotes, n, loop(quotes))
    BY <2>1, LoopResult
  <2>3. e \in Seq(Offers) /\ r \in Seq(Offers) /\ ranked = e \o r
    BY <2>1, <2>2 DEF LoopInv, Lists, rank_quotes
  <2>4. /\ \A i \in 1 .. Len(e) : ~violates_hard_constraints(e[i])
        /\ \A i \in 1 .. Len(r) : violates_hard_constraints(r[i])
    BY <2>2 DEF LoopInv, Constrained
  <2>5. \A x : HowOften(e, x) + HowOften(r, x) = UpTo(quotes, n, x)
    BY <2>2 DEF LoopInv, Counted
  <2>6. \A q \in ToSet(quotes) : \E i \in 1 .. n : q = quotes[i]
    BY <2>1 DEF ToSet
  <2>7. \A i \in 1 .. n : quotes[i] \in Offers /\ quotes[i] \in ToSet(quotes)
    BY <2>1 DEF ToSet
  <2> HIDE DEF e, r
  <2>8. \A q \in Offers : Cardinality({i \in DOMAIN ranked : ranked[i] = q})
                           = Cardinality({i \in DOMAIN quotes : quotes[i] = q})
    <3> SUFFICES ASSUME NEW q \in Offers
                 PROVE  HowOften(ranked, q) = HowOften(quotes, q)
      BY DEF HowOften
    <3>1. HowOften(ranked, q) = HowOften(e, q) + HowOften(r, q)
      BY <2>3, ConcatCounts
    <3>2. HowOften(quotes, q) = UpTo(quotes, n, q)
      BY <2>1, Indices DEF HowOften, UpTo
    <3>3. QED
      BY <2>5, <3>1, <3>2
  <2>9. \A i, j \in DOMAIN ranked : i < j /\ Eligible(ranked[j]) => Eligible(ranked[i])
    <3>1. /\ ranked \in Seq(Offers) /\ DOMAIN ranked = 1 .. Len(e) + Len(r)
          /\ Len(e) \in Nat /\ Len(r) \in Nat
          /\ \A i \in 1 .. Len(e) + Len(r) :
               ranked[i] = IF i <= Len(e) THEN e[i] ELSE r[i - Len(e)]
      <4>1. /\ ranked \in Seq(Offers) /\ Len(ranked) = Len(e) + Len(r)
            /\ \A i \in 1 .. Len(e) + Len(r) :
                 ranked[i] = IF i <= Len(e) THEN e[i] ELSE r[i - Len(e)]
        BY <2>3, ConcatProperties
      <4>2. Len(e) \in Nat /\ Len(r) \in Nat
        BY <2>3
      <4>3. QED
        BY <4>1, <4>2
    <3>2. ASSUME NEW i \in DOMAIN ranked
          PROVE  Eligible(ranked[i]) <=> i <= Len(e)
      <4>1. ranked[i] \in Offers
        BY <3>1
      <4>2. i <= Len(e) => i \in 1 .. Len(e) /\ ranked[i] = e[i]
        BY <3>1
      <4>3. ~ (i <= Len(e)) => i - Len(e) \in 1 .. Len(r) /\ ranked[i] = r[i - Len(e)]
        BY <3>1
      <4>4. QED
        BY <1>1, <2>4, <4>1, <4>2, <4>3, EligibleKeeps
    <3>3. \A i, j \in DOMAIN ranked : i < j /\ j <= Len(e) => i <= Len(e)
      BY <3>1
    <3>4. QED
      BY <3>2, <3>3
  <2>10. \A i \in 1 .. n : Eligible(quotes[i]) <=> ~violates_hard_constraints(quotes[i])
    BY <1>1, <2>7, EligibleKeeps
  <2>11. /\ select_best(quotes) = {} <=> \A q \in ToSet(quotes) : ~Eligible(q)
         /\ \A w \in select_best(quotes), q \in ToSet(quotes) :
              Eligible(w) /\ (Eligible(q) => ~before(q, w))
    <3>1. CASE /\ select_best(quotes) = {}
               /\ \A j \in 1 .. n : violates_hard_constraints(quotes[j])
      BY <2>6, <2>10, <3>1
    <3>2. CASE \E i \in 1 .. n : FirstBest(quotes, n, i) /\ select_best(quotes) = {quotes[i]}
      <4>1. PICK i \in 1 .. n : FirstBest(quotes, n, i) /\ select_best(quotes) = {quotes[i]}
        BY <3>2
      <4>2. Eligible(quotes[i]) /\ quotes[i] \in ToSet(quotes)
        BY <2>7, <2>10, <4>1 DEF FirstBest
      <4>3. ASSUME NEW j \in 1 .. n, Eligible(quotes[j])
            PROVE  ~before(quotes[j], quotes[i])
        <5>1. ~violates_hard_constraints(quotes[j])
          BY <2>10, <4>3
        <5>2. j < i \/ j = i \/ j > i
          BY <2>1
        <5>3. j <= i => ~before(quotes[j], quotes[i])
          BY <2>1, <2>7, <4>1, <5>1, BeforeIsStrict DEF FirstBest
        <5>4. QED
          BY <4>1, <5>1, <5>2, <5>3 DEF FirstBest
      <4>4. QED
        BY <2>6, <4>1, <4>2, <4>3
    <3>3. QED
      BY <2>1, <3>1, <3>2, Choice
  <2>12. QED
    BY <2>8, <2>9, <2>11 DEF BestEligibleWins
<1>2. MatchingInv => BestEligibleWins
  BY <1>1, MatchingAssumption DEF BestEligibleWins
<1>3. QED
  BY <1>2, MatchingInvariant, PTL

(* The three places that choose agree, from a demanded reputation of a     *)
(* hundredth on: below it the floor of score_quote, which the market's     *)
(* scan does not have, sets them apart (matching.py:38-43).                *)
THEOREM OneChoice == ASSUME MinRate >= Floor PROVE MatchingSpec => []ChoosersAgree
<1>1. ASSUME MatchingAssumption, MatchingInv, over PROVE ChoosersAgree
  <2> DEFINE n == Len(quotes)
  <2>1. quotes \in Seq(Offers) /\ n \in Nat /\ ranked = rank_quotes(quotes)
    BY <1>1 DEF MatchingInv
  <2>2. ScanInv(quotes, n, scanned(quotes))
    BY <2>1, ScanResult
  <2>3. \A i \in 1 .. n : quotes[i] \in Offers
    BY <2>1
  <2>4. CASE /\ select_best(quotes) = {}
             /\ \A j \in 1 .. n : violates_hard_constraints(quotes[j])
    <3>1. scanned(quotes) = {}
      BY <2>2, <2>4 DEF ScanInv, PlainBest
    <3>2. \A q \in ToSet(quotes) : ~Eligible(q)
      <4>1. \A q \in ToSet(quotes) : \E j \in 1 .. n : q = quotes[j]
        BY <2>1 DEF ToSet
      <4>2. QED
        BY <1>1, <2>3, <2>4, <4>1, EligibleKeeps
    <3>3. QED
      BY <2>4, <3>1, <3>2 DEF ChoosersAgree
  <2>5. CASE \E i \in 1 .. n : /\ FirstBest(quotes, n, i) /\ select_best(quotes) = {quotes[i]}
                               /\ Head(rank_quotes(quotes)) = quotes[i]
    <3>1. PICK i \in 1 .. n : /\ FirstBest(quotes, n, i) /\ select_best(quotes) = {quotes[i]}
                              /\ Head(rank_quotes(quotes)) = quotes[i]
      BY <2>5
    <3>2. ~violates_hard_constraints(quotes[i])
      BY <3>1 DEF FirstBest
    <3>3. PICK k \in 1 .. n : scanned(quotes) = {quotes[k]} /\ PlainBest(quotes, n, k)
      BY <2>2, <3>2 DEF ScanInv
    <3>4. ~violates_hard_constraints(quotes[k]) /\ ~plainly(quotes[i], quotes[k])
      BY <3>2, <3>3 DEF PlainBest
    <3>5. score(quotes[i]) = score_quote(quotes[i]) /\ score(quotes[k]) = score_quote(quotes[k])
      BY <2>3, <3>2, <3>4, FloorIsIdle
    <3>6. ~before(quotes[k], quotes[i])
      <4>1. k < i \/ k = i \/ k > i
        BY <2>1
      <4>2. k <= i => ~before(quotes[k], quotes[i])
        BY <2>1, <2>3, <3>1, <3>4, BeforeIsStrict DEF FirstBest
      <4>3. QED
        BY <3>1, <3>4, <4>1, <4>2 DEF FirstBest
    <3>7. score_quote(quotes[i]) \in Nat /\ score_quote(quotes[k]) \in Nat
      BY <2>3, QuoteFacts
    <3>8. score_quote(quotes[i]) = score_quote(quotes[k])
      BY <3>4, <3>5, <3>6, <3>7 DEF before, plainly
    <3>9. QED
      BY <2>1, <3>1, <3>3, <3>8 DEF ChoosersAgree, firstRanked
  <2>6. QED
    BY <2>1, <2>4, <2>5, Choice
<1>2. MatchingInv => ChoosersAgree
  BY <1>1, MatchingAssumption DEF ChoosersAgree
<1>3. QED
  BY <1>2, MatchingInvariant, PTL

(* A quote that arrives later leaves the choice alone or takes it, and     *)
(* takes it only from one it beats (_consume appends, rank_quotes sorts    *)
(* stably: buyer_agent.py:156-173, matching.py:60-63).                     *)
THEOREM LateQuotesAreFair == MatchingSpec => LateQuotesWinOnMerit
<1> DEFINE Fair == quotes' # quotes =>
                     \/ select_best(quotes') = select_best(quotes)
                     \/ /\ select_best(quotes') = {Last(quotes')}
                        /\ \A w \in select_best(quotes) : before(Last(quotes'), w)
<1>1. ASSUME MatchingInv, MatchingInv', ConsumeQuote PROVE Fair
  <2> DEFINE n == Len(quotes)
             N == Len(quotes')
  <2>1. PICK q \in Offers : quotes' = Append(quotes, q)
    BY <1>1 DEF ConsumeQuote
  <2>2. q \in Offers /\ quotes \in Seq(Offers) /\ quotes' \in Seq(Offers)
    BY <1>1, <2>1, MatchingAssumption DEF MatchingAssumption, MatchingInv
  <2>3. /\ n \in Nat /\ N = n + 1 /\ quotes'[n + 1] = q
        /\ \A i \in 1 .. n : quotes'[i] = quotes[i]
    BY <2>1, <2>2, AppendProperties
  <2>4. Last(quotes') = q
    BY <2>3 DEF Last
  <2> HIDE DEF N, n
  <2>5. \A i \in 1 .. n : i \in 1 .. N /\ i < n + 1
    BY <2>3
  <2>6. CASE \A j \in 1 .. N : violates_hard_constraints(quotes'[j])
    <3>1. \A j \in 1 .. n : violates_hard_constraints(quotes[j])
      BY <2>3, <2>5, <2>6
    <3>2. select_best(quotes) = {}
      BY <2>2, <3>1, Choice DEF FirstBest, n
    <3>3. select_best(quotes') = {}
      BY <2>2, <2>6, Choice DEF FirstBest, N
    <3>4. QED
      BY <3>2, <3>3
  <2>7. CASE \E i \in 1 .. N : FirstBest(quotes', N, i) /\ select_best(quotes') = {quotes'[i]}
    <3>1. PICK i \in 1 .. N : FirstBest(quotes', N, i) /\ select_best(quotes') = {quotes'[i]}
      BY <2>7
    <3>2. \/ select_best(quotes) = {} /\ \A j \in 1 .. n : violates_hard_constraints(quotes[j])
          \/ \E j \in 1 .. n : FirstBest(quotes, n, j) /\ select_best(quotes) = {quotes[j]}
      BY <2>2, Choice DEF n
    <3>3. CASE i = n + 1
      <4>1. select_best(quotes') = {q}
        BY <2>3, <3>1, <3>3
      <4>2. ASSUME NEW w \in select_best(quotes) PROVE before(q, w)
        <5>1. PICK j \in 1 .. n : FirstBest(quotes, n, j) /\ select_best(quotes) = {quotes[j]}
          BY <3>2, <4>2
        <5>2. w = quotes'[j] /\ j \in 1 .. N /\ j < i
          BY <2>3, <2>5, <3>3, <4>2, <5>1
        <5>3. ~violates_hard_constraints(quotes'[j])
          BY <2>3, <5>1 DEF FirstBest
        <5>4. QED
          BY <2>3, <3>1, <3>3, <5>2, <5>3 DEF FirstBest
      <4>3. QED
        BY <2>4, <4>1, <4>2
    <3>4. CASE i # n + 1
      <4>1. i \in 1 .. n
        BY <2>3, <3>4
      <4>2. FirstBest(quotes, n, i)
        BY <2>3, <2>5, <3>1, <4>1 DEF FirstBest
      <4>3. ~violates_hard_constraints(quotes[i])
        BY <4>2 DEF FirstBest
      <4>4. PICK j \in 1 .. n : FirstBest(quotes, n, j) /\ select_best(quotes) = {quotes[j]}
        BY <3>2, <4>1, <4>3
      <4>5. i = j
        BY <2>3, <4>2, <4>4, FirstBestIsOne
      <4>6. QED
        BY <2>3, <3>1, <4>1, <4>4, <4>5
    <3>5. QED
      BY <3>3, <3>4
  <2>8. QED
    BY <2>2, <2>6, <2>7, Choice DEF N
<1>2. MatchingInv /\ MatchingInv' /\ [MatchingNext]_matchingVars => [Fair]_matchingVars
  <2>1. EndOfWindow => Fair
    BY DEF EndOfWindow
  <2>2. QED
    BY <1>1, <2>1 DEF MatchingNext
<1>3. QED
  BY <1>2, MatchingInvariant, PTL DEF MatchingSpec, LateQuotesWinOnMerit
============================================================================
