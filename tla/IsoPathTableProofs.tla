------------------------- MODULE IsoPathTableProofs -------------------------
(***************************************************************************)
(* Proofs about FileTreeBuild and IsoPathTable, for folders of any size    *)
(* and depth, any names and any limits.                                    *)
(***************************************************************************)
EXTENDS IsoPathTable, FoldLemmas, FiniteSetTheorems

Names == Range(NameOrder)
Paths == Seq(Names)

-----------------------------------------------------------------------------
(* The order of the file set.                                              *)

(* The rank of a name is its place in NameOrder.                           *)
LEMMA RankIs ==
  /\ \A a \in Names : Rank[a] \in Nat
  /\ \A a, b \in Names : Rank[a] = Rank[b] => a = b
<1>1. NameOrder \in Seq(Names) /\ IsInjective(NameOrder)
  BY NamesAssumption DEF Names
<1>2. DOMAIN NameOrder \subseteq Nat
  BY <1>1
<1>3. \A a \in Names : \E i \in DOMAIN NameOrder : NameOrder[i] = a
  BY DEF Names, Range
<1>4. \A a \in Names : Rank[a] \in DOMAIN NameOrder /\ NameOrder[Rank[a]] = a
  BY <1>3 DEF Rank, Names
<1> QED
  BY <1>2, <1>4

(* Of two names one is lower, whatever follows them.                       *)
LEMMA OneIsLower ==
  ASSUME NEW a \in Names, NEW b \in Names, a # b, NEW x \in BOOLEAN, NEW y \in BOOLEAN
  PROVE  Lower(a, x, b, y) \/ Lower(b, y, a, x)
<1>1. Rank[a] \in Nat /\ Rank[b] \in Nat /\ Rank[a] # Rank[b]
  BY RankIs
<1>2. <<a, b>> \in LowEnd => <<b, a>> \notin LowEnd
  BY NamesAssumption
<1> QED
  BY <1>1, <1>2 DEF Lower

(* A name between the two forms of another one goes on below "/".          *)
LEMMA LowerBetween ==
  ASSUME NEW a \in Names, NEW b \in Names, NEW x \in BOOLEAN, NEW y \in BOOLEAN, NEW z \in BOOLEAN,
         Lower(a, x, b, y), Lower(b, y, a, z)
  PROVE  x /\ ~z
<1>1. Rank[a] \in Nat /\ Rank[b] \in Nat
  BY RankIs
<1>2. <<a, b>> \in LowEnd => <<b, a>> \notin LowEnd
  BY NamesAssumption
<1> QED
  BY <1>1, <1>2 DEF Lower

(* With "/" behind it, a name is greater.                                  *)
LEMMA LowerShorter ==
  ASSUME NEW a, NEW b, NEW x \in BOOLEAN
  PROVE  /\ Lower(a, FALSE, b, x) => Lower(a, TRUE, b, x)
         /\ Lower(a, x, b, TRUE) => Lower(a, x, b, FALSE)
  BY DEF Lower

(* Three names that differ.                                                *)
LEMMA LowerTransitive ==
  ASSUME NEW a \in Names, NEW b \in Names, NEW c \in Names, a # b, b # c, a # c,
         NEW x \in BOOLEAN, NEW y \in BOOLEAN, NEW z \in BOOLEAN,
         Lower(a, x, b, y), Lower(b, y, c, z)
  PROVE  Lower(a, x, c, z)
<1>1. Cardinality({a, b, c}) = 3
  <2>1. IsFiniteSet({a}) /\ Cardinality({a}) = 1
    BY FS_Singleton
  <2>2. IsFiniteSet({a} \cup {b}) /\ Cardinality({a} \cup {b}) = 1 + 1
    <3>1. b \notin {a}
      OBVIOUS
    <3> QED  BY <2>1, <3>1, FS_AddElement
  <2>3. Cardinality(({a} \cup {b}) \cup {c}) = 3
    <3>1. c \notin {a} \cup {b}
      OBVIOUS
    <3> QED  BY <2>2, <3>1, FS_AddElement
  <2>4. ({a} \cup {b}) \cup {c} = {a, b, c}
    OBVIOUS
  <2> QED  BY <2>3, <2>4
<1>2. \A u, v, w \in BOOLEAN : Lower(a, u, b, v) /\ Lower(b, v, c, w) => Lower(a, u, c, w)
  BY <1>1, NamesAssumption, Zenon DEF Names
<1> QED
  BY <1>2, Zenon

Ahead(p, q) == Len(p) < Len(q) /\ \A j \in 1 .. Len(p) : p[j] = q[j]

Goes(p, q, i) == Apart(p, q, i) /\ Lower(p[i], i = Len(p), q[i], i = Len(q))

(* Before, without prefixes.                                               *)
LEMMA BeforeIs ==
  ASSUME NEW p \in Paths, NEW q \in Paths
  PROVE  Before(p, q) <=> Ahead(p, q) \/ \E i \in 1 .. Len(p) : Goes(p, q, i)
<1>0. Len(p) \in Nat /\ Len(q) \in Nat
  BY DEF Paths
<1>1. Len(p) \in Nat /\ Len(q) \in Nat /\ DOMAIN p = 1 .. Len(p) /\ DOMAIN q = 1 .. Len(q)
  BY DEF Paths
<1>2. Len(p) <= Len(q) =>
        (SubSeq(p, 1, Len(p)) = SubSeq(q, 1, Len(p)) <=> \A j \in 1 .. Len(p) : p[j] = q[j])
  BY <1>1 DEF Paths
<1>3. IsStrictPrefix(p, q) <=> Ahead(p, q)
  <2>1. Len(p) = Len(q) /\ (\A j \in 1 .. Len(p) : p[j] = q[j]) => p = q
    BY <1>1, SeqEqual DEF Paths
  <2>2. p = q => ~(Len(p) < Len(q))
    BY <1>1
  <2>3. IsPrefix(p, q) <=> Len(p) <= Len(q) /\ \A j \in 1 .. Len(p) : p[j] = q[j]
    BY <1>2 DEF IsPrefix
  <2> DEFINE same == \A j \in 1 .. Len(p) : p[j] = q[j]
  <2>4. Ahead(p, q) <=> Len(p) < Len(q) /\ same
    BY DEF Ahead
  <2>5. IsStrictPrefix(p, q) <=> Len(p) <= Len(q) /\ same /\ p # q
    BY <2>3 DEF IsStrictPrefix
  <2>6. Len(p) = Len(q) /\ same => p = q
    BY <2>1
  <2>7. Len(p) <= Len(q) <=> Len(p) < Len(q) \/ Len(p) = Len(q)
    BY <1>0
  <2> HIDE DEF same
  <2> QED  BY <2>2, <2>4, <2>5, <2>6, <2>7, Zenon
<1> QED
  BY <1>1, <1>3 DEF Before, Goes

(* The paths of a folder have one order.                                   *)
LEMMA BeforeOrders ==
  /\ \A p \in Paths : ~Before(p, p)
  /\ \A p, q \in Paths : p # q => Before(p, q) \/ Before(q, p)
<1>1. ASSUME NEW p \in Paths PROVE ~Before(p, p)
  <2>1. Len(p) \in Nat
    BY DEF Paths
  <2> QED  BY <2>1, BeforeIs DEF Ahead, Goes, Apart
<1>2. ASSUME NEW p \in Paths, NEW q \in Paths, p # q PROVE Before(p, q) \/ Before(q, p)
  <2>1. Len(p) \in Nat /\ Len(q) \in Nat /\ DOMAIN p = 1 .. Len(p) /\ DOMAIN q = 1 .. Len(q)
    BY DEF Paths
  <2>2. /\ \A i \in 1 .. Len(p) : p[i] \in Names
        /\ \A i \in 1 .. Len(q) : q[i] \in Names
    BY ElementOfSeq DEF Paths
  <2> DEFINE D == {i \in DOMAIN p \cap DOMAIN q : p[i] # q[i]}
  <2>3. CASE D # {}
    <3>1. D \in SUBSET Nat
      BY <2>1
    <3> DEFINE i == Min(D)
    <3>2. i \in D /\ \A j \in D : i <= j
      <4> HIDE DEF D
      <4> QED  BY <2>3, <3>1, MinIsIn
    <3> HIDE DEF i
    <3>3. i \in 1 .. Len(p) /\ i \in 1 .. Len(q) /\ p[i] # q[i]
      BY <2>1, <3>2
    <3>4. \A j \in 1 .. i - 1 : p[j] = q[j]
      <4> TAKE j \in 1 .. i - 1
      <4>1. j \in DOMAIN p \cap DOMAIN q /\ ~(i <= j)
        BY <2>1, <3>3
      <4> QED  BY <3>2, <4>1
    <3>5. Apart(p, q, i) /\ Apart(q, p, i)
      BY <2>1, <3>3, <3>4 DEF Apart
    <3>6. Lower(p[i], i = Len(p), q[i], i = Len(q)) \/ Lower(q[i], i = Len(q), p[i], i = Len(p))
      <4>1. (i = Len(p)) \in BOOLEAN /\ (i = Len(q)) \in BOOLEAN
        OBVIOUS
      <4>2. p[i] \in Names /\ q[i] \in Names
        BY <2>2, <3>3
      <4> QED  BY <3>3, <4>1, <4>2, OneIsLower
    <3> QED  BY <3>3, <3>5, <3>6, BeforeIs DEF Goes
  <2>4. CASE D = {}
    <3>1. \A i \in 1 .. Len(p) : i <= Len(q) => p[i] = q[i]
      BY <2>1, <2>4
    <3>2. Len(p) # Len(q)
      <4> SUFFICES ASSUME Len(p) = Len(q) PROVE FALSE
        OBVIOUS
      <4>1. \A i \in 1 .. Len(p) : p[i] = q[i]
        BY <2>1, <3>1
      <4> QED  BY <1>2, <2>1, <4>1, SeqEqual DEF Paths
    <3>3. CASE Len(p) < Len(q)
      <4>1. \A i \in 1 .. Len(p) : p[i] = q[i]
        BY <2>1, <3>1, <3>3
      <4> QED  BY <3>3, <4>1, BeforeIs DEF Ahead
    <3>4. CASE Len(q) < Len(p)
      <4>1. \A i \in 1 .. Len(q) : q[i] = p[i]
        BY <2>1, <3>1, <3>4
      <4> QED  BY <3>4, <4>1, BeforeIs DEF Ahead
    <3>5. Len(p) < Len(q) \/ Len(q) < Len(p)
      <4>1. Len(p) \in Nat /\ Len(q) \in Nat
        BY DEF Paths
      <4> QED  BY <3>2, <4>1
    <3> QED  BY <3>3, <3>4, <3>5
  <2> QED  BY <2>3, <2>4
<1> QED
  BY <1>1, <1>2

(* That order is transitive.                                               *)
LEMMA BeforeTransitive ==
  ASSUME NEW p \in Paths, NEW q \in Paths, NEW r \in Paths, Before(p, q), Before(q, r)
  PROVE  Before(p, r)
<1>0. Len(p) \in Nat /\ Len(q) \in Nat /\ Len(r) \in Nat
  BY DEF Paths
<1>1. /\ Len(p) \in Nat /\ Len(q) \in Nat /\ Len(r) \in Nat
      /\ DOMAIN p = 1 .. Len(p) /\ DOMAIN q = 1 .. Len(q) /\ DOMAIN r = 1 .. Len(r)
  BY DEF Paths
<1>2. /\ \A i \in 1 .. Len(p) : p[i] \in Names
      /\ \A i \in 1 .. Len(q) : q[i] \in Names
      /\ \A i \in 1 .. Len(r) : r[i] \in Names
  BY ElementOfSeq DEF Paths
<1>3. CASE Ahead(p, q) /\ Ahead(q, r)
  BY <1>1, <1>3, BeforeIs DEF Ahead
<1>4. ASSUME Ahead(p, q), NEW i \in 1 .. Len(q), Goes(q, r, i)
      PROVE  Before(p, r)
  <2>1. i \in 1 .. Len(r) /\ q[i] # r[i] /\ \A j \in 1 .. i - 1 : q[j] = r[j]
    BY <1>1, <1>4 DEF Goes, Apart
  <2>2. Len(p) < Len(q) /\ \A j \in 1 .. Len(p) : p[j] = q[j]
    BY <1>4 DEF Ahead
  <2>3. CASE i > Len(p)
    <3>1. Ahead(p, r)
      BY <1>1, <2>1, <2>2, <2>3 DEF Ahead
    <3> QED  BY <3>1, BeforeIs
  <2>4. CASE i <= Len(p)
    <3>1. i \in 1 .. Len(p) /\ p[i] = q[i] /\ \A j \in 1 .. i - 1 : p[j] = r[j]
      BY <1>1, <2>1, <2>2, <2>4
    <3>2. Apart(p, r, i)
      BY <1>1, <2>1, <3>1 DEF Apart
    <3>3. Lower(q[i], FALSE, r[i], i = Len(r))
      <4>1. i # Len(q)
        BY <1>0, <2>2, <2>4
      <4> QED  BY <1>4, <4>1 DEF Goes, Lower
    <3>4. Lower(p[i], i = Len(p), r[i], i = Len(r))
      <4>1. (i = Len(p)) \in BOOLEAN /\ (i = Len(r)) \in BOOLEAN
        OBVIOUS
      <4> QED  BY <3>1, <3>3, <4>1, LowerShorter
    <3> QED  BY <3>1, <3>2, <3>4, BeforeIs DEF Goes
  <2> QED  BY <1>1, <2>3, <2>4
<1>5. ASSUME NEW i \in 1 .. Len(p), Goes(p, q, i), Ahead(q, r)
      PROVE  Before(p, r)
  <2>1. i \in 1 .. Len(q) /\ p[i] # q[i] /\ \A j \in 1 .. i - 1 : p[j] = q[j]
    BY <1>1, <1>5 DEF Goes, Apart
  <2>2. i \in 1 .. Len(r) /\ q[i] = r[i] /\ i # Len(r) /\ \A j \in 1 .. i - 1 : q[j] = r[j]
    BY <1>0, <1>5, <2>1 DEF Ahead
  <2>3. Apart(p, r, i)
    BY <1>1, <2>1, <2>2 DEF Apart
  <2>4. Lower(p[i], i = Len(p), r[i], i = Len(q))
    BY <1>5, <2>2 DEF Goes
  <2>5. Lower(p[i], i = Len(p), r[i], FALSE)
    <3>1. (i = Len(p)) \in BOOLEAN
      OBVIOUS
    <3>2. (i = Len(q)) = TRUE \/ (i = Len(q)) = FALSE
      OBVIOUS
    <3> QED  BY <2>4, <3>1, <3>2, LowerShorter
  <2>6. Goes(p, r, i)
    BY <2>2, <2>3, <2>5 DEF Goes, Lower
  <2> QED  BY <2>6, BeforeIs
<1>6. ASSUME NEW i \in 1 .. Len(p), Goes(p, q, i), NEW j \in 1 .. Len(q), Goes(q, r, j)
      PROVE  Before(p, r)
  <2>1. i \in 1 .. Len(q) /\ p[i] # q[i] /\ \A k \in 1 .. i - 1 : p[k] = q[k]
    BY <1>1, <1>6 DEF Goes, Apart
  <2>2. j \in 1 .. Len(r) /\ q[j] # r[j] /\ \A k \in 1 .. j - 1 : q[k] = r[k]
    BY <1>1, <1>6 DEF Goes, Apart
  <2>3. Lower(p[i], i = Len(p), q[i], i = Len(q)) /\ Lower(q[j], j = Len(q), r[j], j = Len(r))
    BY <1>6 DEF Goes
  <2>4. CASE i < j
    <3>1. i \in 1 .. Len(r) /\ q[i] = r[i] /\ \A k \in 1 .. i - 1 : q[k] = r[k]
      BY <1>1, <2>1, <2>2, <2>4
    <3>2. i # Len(q) /\ i # Len(r)
      BY <1>0, <2>2, <2>4
    <3>3. Apart(p, r, i)
      BY <1>1, <2>1, <3>1 DEF Apart
    <3>4. Goes(p, r, i)
      BY <2>3, <3>1, <3>2, <3>3 DEF Goes, Lower
    <3> QED  BY <3>4, BeforeIs
  <2>5. CASE j < i
    <3>1. j \in 1 .. Len(p) /\ p[j] = q[j] /\ \A k \in 1 .. j - 1 : p[k] = r[k]
      BY <1>1, <2>1, <2>2, <2>5
    <3>2. j # Len(q) /\ j # Len(p)
      BY <1>0, <2>1, <2>5
    <3>3. Apart(p, r, j)
      BY <1>1, <2>2, <3>1 DEF Apart
    <3>4. Goes(p, r, j)
      BY <2>3, <3>1, <3>2, <3>3 DEF Goes, Lower
    <3> QED  BY <3>1, <3>4, BeforeIs
  <2>6. CASE i = j
    <3>1. i \in 1 .. Len(r) /\ \A k \in 1 .. i - 1 : p[k] = r[k]
      BY <1>1, <2>1, <2>2, <2>6
    <3>2. /\ p[i] \in Names /\ q[i] \in Names /\ r[i] \in Names
          /\ (i = Len(p)) \in BOOLEAN /\ (i = Len(q)) \in BOOLEAN /\ (i = Len(r)) \in BOOLEAN
      BY <1>2, <2>1, <3>1
    <3>3. Lower(q[i], i = Len(q), r[i], i = Len(r))
      BY <2>3, <2>6
    <3>4. CASE p[i] = r[i]
      <4>1. i = Len(p) /\ ~(i = Len(r))
        BY <2>3, <3>2, <3>3, <3>4, LowerBetween
      <4>2. Len(p) < Len(r)
        BY <1>0, <3>1, <4>1
      <4>3. \A k \in 1 .. Len(p) : k \in 1 .. i - 1 \/ k = i
        BY <1>0, <4>1
      <4>4. Ahead(p, r)
        BY <3>1, <3>4, <4>2, <4>3 DEF Ahead
      <4> QED  BY <4>4, BeforeIs
    <3>5. CASE p[i] # r[i]
      <4>1. Lower(p[i], i = Len(p), r[i], i = Len(r))
        BY <2>1, <2>2, <2>3, <2>6, <3>2, <3>3, <3>5, LowerTransitive
      <4>2. Apart(p, r, i)
        BY <1>1, <3>1, <3>5 DEF Apart
      <4>3. Goes(p, r, i)
        BY <4>1, <4>2 DEF Goes
      <4> QED  BY <4>3, BeforeIs
    <3> QED  BY <3>4, <3>5
  <2> QED  BY <1>1, <2>4, <2>5, <2>6
<1> QED
  BY <1>3, <1>4, <1>5, <1>6, BeforeIs

(* The file set hands its paths out once each, in their order.             *)
LEMMA InOrderIs ==
  ASSUME NEW S \in SUBSET Paths, IsFiniteSet(S)
  PROVE  /\ InOrder(S) \in Seq(S) /\ Len(InOrder(S)) = Cardinality(S)
         /\ \A p \in S : \E i \in 1 .. Cardinality(S) : InOrder(S)[i] = p
         /\ \A i, j \in 1 .. Cardinality(S) : i < j => Before(InOrder(S)[i], InOrder(S)[j])
<1> DEFINE n == Cardinality(S)
           Lesser(p) == {q \in S : Before(q, p)}
           R == [p \in S |-> Cardinality(Lesser(p))]
           s == InOrder(S)
<1>1. n \in Nat
  BY FS_CardinalityType
<1>2. ASSUME NEW p \in S
      PROVE  IsFiniteSet(Lesser(p)) /\ Cardinality(Lesser(p)) \in 0 .. n - 1
  <2>1. Lesser(p) \in SUBSET (S \ {p})
    BY BeforeOrders
  <2>2. IsFiniteSet(S \ {p}) /\ Cardinality(S \ {p}) = n - 1
    BY FS_RemoveElement
  <2>3. IsFiniteSet(Lesser(p)) /\ Cardinality(Lesser(p)) <= n - 1
    BY <2>1, <2>2, FS_Subset
  <2>4. Cardinality(Lesser(p)) \in Nat
    BY <2>3, FS_CardinalityType
  <2> HIDE DEF Lesser, n
  <2> QED  BY <1>1, <2>3, <2>4
<1>3. ASSUME NEW p \in S, NEW q \in S, Before(p, q)
      PROVE  R[p] < R[q]
  <2>1. Lesser(p) \in SUBSET (Lesser(q) \ {p})
    BY <1>3, BeforeOrders, BeforeTransitive
  <2>2. p \in Lesser(q)
    BY <1>3
  <2>3. IsFiniteSet(Lesser(q)) /\ Cardinality(Lesser(q)) \in 0 .. n - 1 /\ Cardinality(Lesser(p)) \in 0 .. n - 1
    BY <1>2
  <2>4. IsFiniteSet(Lesser(q) \ {p}) /\ Cardinality(Lesser(q) \ {p}) = Cardinality(Lesser(q)) - 1
    BY <2>2, <2>3, FS_RemoveElement
  <2>5. Cardinality(Lesser(p)) <= Cardinality(Lesser(q)) - 1
    BY <2>1, <2>4, FS_Subset
  <2> HIDE DEF Lesser, n
  <2> QED  BY <1>1, <2>3, <2>5
<1>4. R \in [S -> 0 .. n - 1]
  BY <1>2
<1>5. \A p, q \in S : R[p] = R[q] => p = q
  <2> SUFFICES ASSUME NEW p \in S, NEW q \in S, R[p] = R[q], p # q PROVE FALSE
    OBVIOUS
  <2>1. R[p] < R[q] \/ R[q] < R[p]
    BY <1>3, BeforeOrders
  <2>2. R[p] \in Nat /\ R[q] \in Nat
    BY <1>1, <1>4
  <2> HIDE DEF R
  <2> QED  BY <2>1, <2>2
<1>6. \A k \in 0 .. n - 1 : \E p \in S : R[p] = k
  <2>1. R \in Injection(S, 0 .. n - 1)
    BY <1>4, <1>5 DEF Injection, IsInjective
  <2>2. IsFiniteSet(0 .. n - 1) /\ Cardinality(0 .. n - 1) = n
    <3>1. n - 1 \in Int /\ 0 \in Int /\ (IF 0 > n - 1 THEN 0 ELSE n - 1 - 0 + 1) = n
      BY <1>1
    <3> QED  BY <3>1, FS_Interval
  <2>3. R \in Surjection(S, 0 .. n - 1)
    BY <2>1, <2>2, FS_Injection
  <2> QED  BY <2>3 DEF Surjection
<1>7. s = [i \in 1 .. n |-> CHOOSE p \in S : Cardinality(Lesser(p)) = i - 1]
  BY Zenon DEF InOrder
<1>70. \A p \in S : R[p] = Cardinality(Lesser(p))
  OBVIOUS
<1> HIDE DEF R, s, n, Lesser
<1>8. \A i \in 1 .. n : s[i] \in S /\ R[s[i]] = i - 1
  <2> TAKE i \in 1 .. n
  <2>1. i - 1 \in 0 .. n - 1
    BY <1>1
  <2>2. \E p \in S : Cardinality(Lesser(p)) = i - 1
    BY <1>6, <1>70, <2>1
  <2>3. s[i] = CHOOSE p \in S : Cardinality(Lesser(p)) = i - 1
    BY <1>7
  <2>4. s[i] \in S /\ Cardinality(Lesser(s[i])) = i - 1
    BY <2>2, <2>3
  <2> QED  BY <1>70, <2>4
<1>9. s \in Seq(S) /\ Len(s) = n
  <2>1. s \in [1 .. n -> S]
    BY <1>7, <1>8
  <2> QED  BY <1>1, <2>1
<1>10. \A p \in S : \E i \in 1 .. n : s[i] = p
  <2> TAKE p \in S
  <2>1. R[p] + 1 \in 1 .. n /\ (R[p] + 1) - 1 = R[p]
    BY <1>1, <1>4
  <2> QED  BY <1>5, <1>8, <2>1
<1>11. \A i, j \in 1 .. n : i < j => Before(s[i], s[j])
  <2> SUFFICES ASSUME NEW i \in 1 .. n, NEW j \in 1 .. n, i < j PROVE Before(s[i], s[j])
    OBVIOUS
  <2>1. s[i] \in S /\ s[j] \in S /\ R[s[i]] = i - 1 /\ R[s[j]] = j - 1
    BY <1>8
  <2>2. s[i] # s[j] /\ ~(R[s[j]] < R[s[i]])
    BY <1>1, <2>1
  <2>3. ~Before(s[j], s[i])
    BY <1>3, <2>1, <2>2
  <2> QED  BY <2>1, <2>2, <2>3, BeforeOrders
<1> QED
  BY <1>9, <1>10, <1>11 DEF s, n

-----------------------------------------------------------------------------
(* Paths and trees of them.                                                *)

(* The path of a directory and a name in it make a path, and no other.     *)
LEMMA PathIs ==
  /\ \A d \in Paths, a \in Names : /\ Append(d, a) \in Paths /\ Append(d, a) # <<>>
                                   /\ Front(Append(d, a)) = d /\ Last(Append(d, a)) = a
                                   /\ Len(Append(d, a)) = Len(d) + 1
  /\ \A p \in Paths : p # <<>> =>
       /\ Front(p) \in Paths /\ Last(p) \in Names /\ Append(Front(p), Last(p)) = p
       /\ Len(Front(p)) = Len(p) - 1 /\ Len(p) \in Nat \ {0}
       /\ Ahead(Front(p), p)
<1>1. ASSUME NEW d \in Paths, NEW a \in Names
      PROVE  /\ Append(d, a) \in Paths /\ Append(d, a) # <<>> /\ Len(Append(d, a)) = Len(d) + 1
             /\ Front(Append(d, a)) = d /\ Last(Append(d, a)) = a
  <2>1. /\ Append(d, a) \in Paths /\ Append(d, a) # <<>> /\ Len(Append(d, a)) = Len(d) + 1
        /\ Append(d, a)[Len(d) + 1] = a /\ Len(d) \in Nat
    BY AppendProperties DEF Paths
  <2>2. Front(Append(d, a)) = d
    BY DEF Front, Paths
  <2> QED  BY <2>1, <2>2 DEF Last
<1>2. ASSUME NEW p \in Paths, p # <<>>
      PROVE  /\ Front(p) \in Paths /\ Last(p) \in Names /\ Append(Front(p), Last(p)) = p
             /\ Len(Front(p)) = Len(p) - 1 /\ Len(p) \in Nat \ {0} /\ Ahead(Front(p), p)
  <2>1. Len(p) \in Nat \ {0}
    BY <1>2 DEF Paths
  <2>2. Last(p) \in Names
    BY <2>1, ElementOfSeq DEF Last, Paths
  <2>3. Front(p) \in Paths /\ Len(Front(p)) = Len(p) - 1 /\ \A i \in 1 .. Len(p) - 1 : Front(p)[i] = p[i]
    <3>1. \A i \in 1 .. Len(p) - 1 : p[i] \in Names
      <4> TAKE i \in 1 .. Len(p) - 1
      <4>1. i \in 1 .. Len(p) /\ p \in Seq(Names)
        BY <2>1 DEF Paths
      <4> QED  BY <4>1, ElementOfSeq
    <3>2. Front(p) = [i \in 1 .. Len(p) - 1 |-> p[i]]
      BY <2>1 DEF Front
    <3>3. Front(p) \in [1 .. Len(p) - 1 -> Names] /\ Len(p) - 1 \in Nat
      BY <2>1, <3>1, <3>2
    <3> QED  BY <3>2, <3>3 DEF Paths
  <2>4. Append(Front(p), Last(p)) = p
    BY <1>2, <2>1, <2>2, <2>3 DEF Front, Last, Paths
  <2>5. Ahead(Front(p), p)
    BY <2>1, <2>3 DEF Ahead
  <2> QED  BY <2>1, <2>2, <2>3, <2>4, <2>5
<1> QED
  BY <1>1, <1>2

(* A node is the path it was added under, and is kept with the children of *)
(* the directory it is in.                                                 *)
IsPathTree(t) ==
  /\ t = [kids |-> t.kids, size |-> t.size]
  /\ Dirs(t) \subseteq Paths /\ Files(t) \subseteq Paths
  /\ Root \in Dirs(t) /\ Dirs(t) \cap Files(t) = {}
  /\ t.kids \in [Dirs(t) -> Seq(Nodes(t) \ {Root})]
  /\ \A d \in Dirs(t) : \A i \in 1 .. Len(t.kids[d]) : Front(t.kids[d][i]) = d
  /\ \A d \in Dirs(t) : \A i, j \in 1 .. Len(t.kids[d]) : t.kids[d][i] = t.kids[d][j] => i = j
  /\ \A n \in Nodes(t) \ {Root} : /\ Front(n) \in Dirs(t)
                                  /\ \E i \in 1 .. Len(t.kids[Front(n)]) : t.kids[Front(n)][i] = n

(* The root is the empty path, and no path is what stands for no node.     *)
LEMMA RootIs ==
  /\ Root = <<>> /\ Root \in Paths /\ Len(Root) = 0 /\ NoNode \notin Paths
<1>1. Root = <<>>
  BY DisksAssumption
<1>2. NoNode \notin Paths
  <2>1. "" \notin Names
    BY NamesAssumption DEF Names
  <2>2. NoNode[1] = "" /\ Len(NoNode) = 1
    BY DEF NoNode
  <2>3. \A p \in Paths : \A i \in 1 .. Len(p) : p[i] \in Names
    BY ElementOfSeq DEF Paths
  <2>4. 1 \in 1 .. 1
    OBVIOUS
  <2> HIDE DEF NoNode
  <2> QED  BY <2>1, <2>2, <2>3, <2>4
<1> QED
  BY <1>1, <1>2 DEF Paths

(* The children of a directory are its path and one name more.             *)
LEMMA KidsAre ==
  ASSUME NEW t, IsPathTree(t), NEW d \in Dirs(t)
  PROVE  /\ d \in Paths /\ Len(t.kids[d]) \in Nat /\ DOMAIN t.kids[d] = 1 .. Len(t.kids[d])
         /\ t.kids[d] \in Seq(Nodes(t) \ {Root})
         /\ \A k \in Range(t.kids[d]) : /\ k \in Nodes(t) \ {Root} /\ k \in Paths /\ Last(k) \in Names
                                        /\ Front(k) = d /\ k = Append(d, Last(k))
         /\ \A n \in Nodes(t) \ {Root} : Front(n) = d <=> n \in Range(t.kids[d])
<1>1. t.kids[d] \in Seq(Nodes(t) \ {Root}) /\ d \in Paths
  BY DEF IsPathTree
<1>2. Len(t.kids[d]) \in Nat /\ DOMAIN t.kids[d] = 1 .. Len(t.kids[d])
  BY <1>1
<1>3. ASSUME NEW k \in Range(t.kids[d])
      PROVE  k \in Nodes(t) \ {Root} /\ k \in Paths /\ Last(k) \in Names /\ Front(k) = d /\ k = Append(d, Last(k))
  <2>1. PICK i \in 1 .. Len(t.kids[d]) : k = t.kids[d][i]
    BY <1>2 DEF Range
  <2>2. k \in Nodes(t) \ {Root}
    BY <1>1, <2>1, ElementOfSeq
  <2>3. k \in Paths
    BY <2>2 DEF IsPathTree, Nodes
  <2>4. Front(k) = d
    BY <2>1 DEF IsPathTree
  <2> QED  BY <2>2, <2>3, <2>4, PathIs, RootIs
<1>4. ASSUME NEW n \in Nodes(t) \ {Root}, Front(n) = d
      PROVE  n \in Range(t.kids[d])
  <2>1. \E i \in 1 .. Len(t.kids[d]) : t.kids[d][i] = n
    BY <1>4 DEF IsPathTree
  <2> QED  BY <1>2, <2>1 DEF Range
<1> QED
  BY <1>1, <1>2, <1>3, <1>4

(* get_child_from_file_name finds the child of that name if there is one.  *)
LEMMA ChildIs ==
  ASSUME NEW t, IsPathTree(t), NEW node, NEW name \in Names
  PROVE  GetChild(t, node, name)
           = IF node \in Dirs(t) /\ Append(node, name) \in Nodes(t) THEN Append(node, name) ELSE NoNode
<1>1. CASE node \notin Dirs(t)
  BY <1>1 DEF GetChild
<1>2. CASE node \in Dirs(t)
  <2> DEFINE K == Range(t.kids[node])
             c == Append(node, name)
  <2>1. node \in Paths /\ \A k \in K : k \in Nodes(t) /\ k = Append(node, Last(k))
    BY <1>2, KidsAre
  <2>2. c # Root /\ Front(c) = node /\ Last(c) = name
    BY <2>1, PathIs, RootIs
  <2>3. c \in Nodes(t) <=> c \in K
    BY <1>2, <2>1, <2>2, KidsAre
  <2>4. \A k \in K : Last(k) = name => k = c
    BY <2>1
  <2>5. GetChild(t, node, name)
          = IF \A k \in K : Last(k) # name THEN NoNode ELSE CHOOSE k \in K : Last(k) = name
    BY <1>2 DEF GetChild
  <2> HIDE DEF K, c
  <2>6. CASE c \in K
    <3>1. (CHOOSE k \in K : Last(k) = name) = c
      BY <2>2, <2>4, <2>6
    <3> QED  BY <1>2, <2>2, <2>3, <2>5, <2>6, <3>1 DEF c
  <2>7. CASE c \notin K
    <3>1. \A k \in K : Last(k) # name
      BY <2>4, <2>7
    <3> QED  BY <2>3, <2>5, <2>7, <3>1 DEF c
  <2> QED  BY <2>6, <2>7
<1> QED
  BY <1>1, <1>2

(* The first k names of a path.                                            *)
Upper(p, k) == [i \in 1 .. k |-> p[i]]

LEMMA UpperIs ==
  ASSUME NEW p \in Paths
  PROVE  /\ Upper(p, 0) = Root /\ Upper(p, Len(p)) = p
         /\ \A k \in 1 .. Len(p) : /\ Upper(p, k) \in Paths /\ Len(Upper(p, k)) = k
                                   /\ Upper(p, k) = Append(Upper(p, k - 1), p[k])
                                   /\ Front(Upper(p, k)) = Upper(p, k - 1) /\ Last(Upper(p, k)) = p[k]
         /\ p # <<>> => Front(p) = Upper(p, Len(p) - 1)
<1>1. Len(p) \in Nat /\ DOMAIN p = 1 .. Len(p) /\ \A i \in 1 .. Len(p) : p[i] \in Names
  BY ElementOfSeq, LenProperties DEF Paths
<1>2. Upper(p, Len(p)) = p /\ Upper(p, 0) = Root
  <2>1. 1 .. 0 = {} /\ Root = <<>>
    BY RootIs
  <2>2. p = [i \in 1 .. Len(p) |-> p[i]]
    BY <1>1 DEF Paths
  <2> QED  BY <2>1, <2>2 DEF Upper
<1>3. ASSUME NEW k \in 0 .. Len(p)
      PROVE  Upper(p, k) \in Paths /\ Len(Upper(p, k)) = k
  <2>1. k \in Nat /\ \A i \in 1 .. k : p[i] \in Names
    BY <1>1
  <2>2. Upper(p, k) \in [1 .. k -> Names]
    BY <2>1 DEF Upper
  <2> QED  BY <2>1, <2>2 DEF Paths
<1>4. ASSUME NEW k \in 1 .. Len(p)
      PROVE  Upper(p, k) = Append(Upper(p, k - 1), p[k])
  <2>1. k \in 0 .. Len(p) /\ k - 1 \in 0 .. Len(p) /\ (k - 1) + 1 = k
    BY <1>1
  <2>2. /\ Upper(p, k) \in Seq(Names) /\ Upper(p, k - 1) \in Seq(Names)
        /\ Len(Upper(p, k)) = k /\ Len(Upper(p, k - 1)) = k - 1
    BY <1>3, <2>1 DEF Paths
  <2>3. p[k] \in Names
    BY <1>1
  <2>4. /\ Append(Upper(p, k - 1), p[k]) \in Seq(Names) /\ Len(Append(Upper(p, k - 1), p[k])) = k
        /\ \A i \in 1 .. k - 1 : Append(Upper(p, k - 1), p[k])[i] = p[i]
        /\ Append(Upper(p, k - 1), p[k])[k] = p[k]
    <3> DEFINE u == Upper(p, k - 1)
    <3>1. \A i \in 1 .. k - 1 : u[i] = p[i]
      BY DEF Upper
    <3> HIDE DEF u
    <3> QED  BY <2>1, <2>2, <2>3, <3>1, AppendProperties DEF u
  <2>5. \A i \in 1 .. k : Upper(p, k)[i] = p[i] /\ (i \in 1 .. k - 1 \/ i = k)
    BY <2>1 DEF Upper
  <2>6. \A i \in 1 .. k : Upper(p, k)[i] = Append(Upper(p, k - 1), p[k])[i]
    BY <2>4, <2>5
  <2> QED  BY <2>2, <2>4, <2>6, SeqEqual
<1>5. \A k \in 1 .. Len(p) : k \in 0 .. Len(p) /\ k - 1 \in 0 .. Len(p)
  BY <1>1
<1>6. \A k \in 1 .. Len(p) : Front(Upper(p, k)) = Upper(p, k - 1) /\ Last(Upper(p, k)) = p[k]
  <2> TAKE k \in 1 .. Len(p)
  <2>1. Upper(p, k - 1) \in Paths /\ p[k] \in Names /\ Upper(p, k) = Append(Upper(p, k - 1), p[k])
    BY <1>1, <1>3, <1>4, <1>5
  <2> QED  BY <2>1, PathIs
<1>7. p # <<>> => Len(p) \in 1 .. Len(p)
  BY <1>1, PathIs
<1> QED
  BY <1>2, <1>3, <1>4, <1>5, <1>6, <1>7

(* The nodes on the way to a path.                                         *)
Walks(w, t, names) ==
  /\ w[0] = Root
  /\ \A k \in 1 .. Len(names) : w[k] = GetChild(t, w[k - 1], names[k])

LEMMA WalkSteps ==
  ASSUME NEW t, IsPathTree(t), NEW names \in Paths
  PROVE  \E w : Walks(w, t, names) /\ w[Len(names)] = WalkTo(t, names)
<1> DEFINE n == Len(names)
           X == Nodes(t) \cup {NoNode}
           step == [at \in X \X (1 .. n) |-> GetChild(t, at[1], names[at[2]])]
           IsFold(h) == h = [s \in SUBSET (1 .. n) |->
                               IF s = {} THEN Root ELSE GetChild(t, h[s \ {Max(s)}], names[Max(s)])]
           H == CHOOSE h : IsFold(h)
           w == [k \in 0 .. n |-> H[1 .. k]]
<1>1. n \in Nat /\ DOMAIN names = 1 .. n /\ \A i \in 1 .. n : names[i] \in Names
  BY LenProperties, ElementOfSeq DEF Paths
<1>2. WalkTo(t, names) = H[1 .. n]
  BY <1>1 DEF WalkTo, FoldLeft, MapThenFoldSet
<1>3. step \in [X \X (1 .. n) -> X]
  <2> SUFFICES ASSUME NEW node \in X, NEW k \in 1 .. n PROVE GetChild(t, node, names[k]) \in X
    OBVIOUS
  <2> QED  BY <1>1, ChildIs
<1>4. \E h : IsFold(h)
  <2>1. PICK h \in [SUBSET (1 .. n) -> X] : Folds(h, n, Root, step)
    <3> HIDE DEF step
    <3>1. Root \in X
      BY DEF IsPathTree, Nodes
    <3> HIDE DEF X
    <3> QED  BY <1>1, <1>3, <3>1, FoldExists
  <2>2. \A s \in SUBSET (1 .. n) : s # {} =>
          step[<<h[s \ {Max(s)}], Max(s)>>] = GetChild(t, h[s \ {Max(s)}], names[Max(s)])
    <3> SUFFICES ASSUME NEW s \in SUBSET (1 .. n), s # {}
                 PROVE  step[<<h[s \ {Max(s)}], Max(s)>>] = GetChild(t, h[s \ {Max(s)}], names[Max(s)])
      OBVIOUS
    <3>1. s \in SUBSET (0 .. n)
      OBVIOUS
    <3>2. Max(s) \in 1 .. n
      BY <1>1, <3>1, MaxIsIn
    <3>3. h[s \ {Max(s)}] \in X
      OBVIOUS
    <3> HIDE DEF X
    <3> QED  BY <3>2, <3>3
  <2>3. IsFold(h)
    <3> HIDE DEF step
    <3> QED  BY <2>1, <2>2 DEF Folds
  <2> QED  BY <2>3
<1>5. IsFold(H)
  <2> HIDE DEF IsFold
  <2> QED  BY <1>4
<1> HIDE DEF H
<1>6. w[0] = Root
  BY <1>1, <1>5, FirstPositions
<1>7. \A k \in 1 .. n : w[k] = GetChild(t, w[k - 1], names[k])
  <2> TAKE k \in 1 .. n
  <2>1. 1 .. k \in SUBSET (1 .. n) /\ 1 .. k # {} /\ Max(1 .. k) = k /\ (1 .. k) \ {k} = 1 .. k - 1
    BY <1>1, FirstPositions
  <2>2. H[1 .. k] = GetChild(t, H[1 .. k - 1], names[k])
    BY <1>5, <2>1
  <2>3. k - 1 \in 0 .. n /\ k \in 0 .. n
    BY <1>1
  <2> QED  BY <2>2, <2>3
<1>8. w[n] = H[1 .. n]
  <2>1. n \in 0 .. n
    BY <1>1
  <2> QED  BY <2>1
<1>9. Walks(w, t, names)
  BY <1>6, <1>7 DEF Walks
<1> QED
  BY <1>2, <1>8, <1>9

(* A path leads to the node of that path if there is one, and otherwise    *)
(* nowhere.                                                                *)
LEMMA WalkToIs ==
  ASSUME NEW t, IsPathTree(t), NEW names \in Paths
  PROVE  WalkTo(t, names) = IF names \in Nodes(t) THEN names ELSE NoNode
<1> DEFINE n == Len(names)
           At(k) == IF Upper(names, k) \in Nodes(t) THEN Upper(names, k) ELSE NoNode
<1>1. PICK w : Walks(w, t, names) /\ w[n] = WalkTo(t, names)
  BY WalkSteps
<1>2. n \in Nat /\ \A i \in 1 .. n : names[i] \in Names
  BY LenProperties, ElementOfSeq DEF Paths
<1> DEFINE T == {k \in 0 .. n : w[k] = At(k)}
<1>3. 0 \in T
  <2>1. Upper(names, 0) = Root /\ Root \in Nodes(t) /\ 0 \in 0 .. n
    BY <1>2, UpperIs DEF IsPathTree, Nodes
  <2> QED  BY <1>1, <2>1 DEF Walks
<1>4. \A k \in 0 .. n - 1 : k \in T => k + 1 \in T
  <2> TAKE k \in 0 .. n - 1
  <2> HAVE k \in T
  <2>1. k + 1 \in 1 .. n /\ k + 1 \in 0 .. n /\ (k + 1) - 1 = k
    BY <1>2
  <2>2. w[k + 1] = GetChild(t, w[k], names[k + 1]) /\ names[k + 1] \in Names
    BY <1>1, <1>2, <2>1 DEF Walks
  <2>3. w[k] = At(k)
    OBVIOUS
  <2> DEFINE u == Upper(names, k)
             v == Upper(names, k + 1)
  <2>4. v = Append(u, names[k + 1]) /\ Front(v) = u /\ v \in Paths /\ Len(v) = k + 1
    <3>1. /\ v = Append(Upper(names, (k + 1) - 1), names[k + 1]) /\ Front(v) = Upper(names, (k + 1) - 1)
          /\ v \in Paths /\ Len(v) = k + 1
      BY <2>1, UpperIs
    <3> QED  BY <2>1, <3>1
  <2>5. v # Root
    BY <1>2, <2>1, <2>4, RootIs
  <2>6. v \in Nodes(t) => u \in Dirs(t)
    BY <2>4, <2>5 DEF IsPathTree
  <2>7. w[k + 1] = IF w[k] \in Dirs(t) /\ Append(w[k], names[k + 1]) \in Nodes(t)
                   THEN Append(w[k], names[k + 1]) ELSE NoNode
    BY <2>2, ChildIs
  <2>8. NoNode \notin Dirs(t) /\ Dirs(t) \subseteq Nodes(t)
    BY RootIs DEF IsPathTree, Nodes
  <2>9. w[k + 1] = IF v \in Nodes(t) THEN v ELSE NoNode
    <3> HIDE DEF u, v
    <3>1. CASE v \in Nodes(t)
      <4>1. u \in Dirs(t) /\ u \in Nodes(t) /\ w[k] = u
        BY <2>3, <2>6, <2>8, <3>1 DEF u
      <4> QED  BY <2>4, <2>7, <3>1, <4>1
    <3>2. CASE v \notin Nodes(t)
      BY <2>3, <2>4, <2>7, <2>8, <3>2 DEF u
    <3> QED  BY <3>1, <3>2
  <2> QED  BY <2>1, <2>9
<1>5. 0 .. n \subseteq T
  <2> HIDE DEF T
  <2> QED  BY <1>2, <1>3, <1>4, UpTo
<1>6. w[n] = At(n)
  <2>1. n \in 0 .. n
    BY <1>2
  <2> QED  BY <1>5, <2>1
<1> QED
  BY <1>1, <1>6, UpperIs

(* get_node_from_path finds every node but the root under its own path.    *)
LEMMA NodeIsFound ==
  ASSUME NEW t, IsPathTree(t), NEW path \in Nodes(t) \ {Root}
  PROVE  GetNodeFromPath(t, path) = path
<1>1. path \in Paths /\ path # <<>> /\ Front(path) \in Dirs(t)
  BY RootIs DEF IsPathTree, Nodes
<1>2. Front(path) \in Paths /\ Last(path) \in Names /\ Append(Front(path), Last(path)) = path
  BY <1>1, PathIs
<1>3. WalkTo(t, Front(path)) = Front(path)
  BY <1>1, <1>2, WalkToIs DEF Nodes
<1> QED
  BY <1>1, <1>2, <1>3, ChildIs DEF GetNodeFromPath

(* The parent of a node is the directory its path names.                   *)
LEMMA ParentIs ==
  ASSUME NEW t, IsPathTree(t), NEW n \in Nodes(t) \ {Root}
  PROVE  Parent(t, n) = Front(n) /\ Front(n) \in Dirs(t)
<1>1. Front(n) \in Dirs(t)
  BY DEF IsPathTree
<1>2. \A d \in Dirs(t) : n \in Range(t.kids[d]) <=> d = Front(n)
  BY KidsAre
<1> QED
  BY <1>1, <1>2 DEF Parent

(* level() counts the names of the path, and the root as 1.                *)
LEMMA LevelIs ==
  ASSUME NEW t, IsPathTree(t)
  PROVE  \A n \in Nodes(t) : Level(t)[n] = Len(n) + 1 /\ Len(n) \in Nat
<1> DEFINE IsLevel(f) == f = [n \in Nodes(t) |-> IF n = Root THEN 1 ELSE f[Parent(t, n)] + 1]
           F == [n \in Nodes(t) |-> Len(n) + 1]
<1>1. Level(t) = CHOOSE f : IsLevel(f)
  BY DEF Level
<1>2. /\ \A n \in Nodes(t) : n \in Paths /\ Len(n) \in Nat
      /\ \A n \in Nodes(t) : n # Root => /\ Parent(t, n) = Front(n) /\ Front(n) \in Nodes(t)
                                         /\ Len(Front(n)) = Len(n) - 1 /\ Len(n) # 0
      /\ Root \in Nodes(t) /\ Len(Root) = 0
  <2>1. \A n \in Nodes(t) : n \in Paths /\ Len(n) \in Nat
    BY LenProperties DEF IsPathTree, Nodes, Paths
  <2>2. ASSUME NEW n \in Nodes(t), n # Root
        PROVE  Parent(t, n) = Front(n) /\ Front(n) \in Nodes(t) /\ Len(Front(n)) = Len(n) - 1 /\ Len(n) # 0
    <3>1. Parent(t, n) = Front(n) /\ Front(n) \in Nodes(t)
      BY <2>2, ParentIs DEF Nodes
    <3> QED  BY <2>1, <2>2, <3>1, PathIs, RootIs
  <2> QED  BY <2>1, <2>2, RootIs DEF IsPathTree, Nodes
<1>3. IsLevel(F)
  <2> SUFFICES ASSUME NEW n \in Nodes(t)
               PROVE  Len(n) + 1 = IF n = Root THEN 1 ELSE F[Parent(t, n)] + 1
    OBVIOUS
  <2>1. CASE n = Root
    BY <1>2, <2>1
  <2>2. CASE n # Root
    <3>1. F[Parent(t, n)] = Len(Front(n)) + 1 /\ Len(Front(n)) = Len(n) - 1 /\ Len(n) \in Nat
      BY <1>2, <2>2
    <3> HIDE DEF F
    <3> QED  BY <2>2, <3>1
  <2> QED  BY <2>1, <2>2
<1>4. IsLevel(Level(t))
  <2> HIDE DEF IsLevel, F
  <2> QED  BY <1>1, <1>3
<1> DEFINE f == Level(t)
<1>5. \A n \in Nodes(t) : f[n] = IF n = Root THEN 1 ELSE f[Parent(t, n)] + 1
  <2> DEFINE G == [n \in Nodes(t) |-> IF n = Root THEN 1 ELSE f[Parent(t, n)] + 1]
  <2>1. f = G
    BY <1>4
  <2>2. \A n \in Nodes(t) : G[n] = IF n = Root THEN 1 ELSE f[Parent(t, n)] + 1
    OBVIOUS
  <2> HIDE DEF f, G
  <2> QED  BY <2>1, <2>2
<1> HIDE DEF f, IsLevel, F
<1> SUFFICES ASSUME NEW m \in Nodes(t) PROVE f[m] = Len(m) + 1
  BY <1>2 DEF f
<1> DEFINE T == {k \in 0 .. Len(m) : \A n \in Nodes(t) : Len(n) = k => f[n] = k + 1}
<1>6. 0 \in T
  BY <1>2, <1>5
<1>7. \A k \in 0 .. Len(m) - 1 : k \in T => k + 1 \in T
  <2> TAKE k \in 0 .. Len(m) - 1
  <2> HAVE k \in T
  <2>1. k \in Nat /\ k + 1 \in 0 .. Len(m)
    BY <1>2
  <2>2. ASSUME NEW n \in Nodes(t), Len(n) = k + 1
        PROVE  f[n] = (k + 1) + 1
    <3>1. n # Root
      BY <1>2, <2>1, <2>2
    <3>2. Front(n) \in Nodes(t) /\ Len(Front(n)) = k /\ f[n] = f[Front(n)] + 1
      BY <1>2, <1>5, <2>1, <2>2, <3>1
    <3> QED  BY <2>1, <3>2
  <2> QED  BY <2>1, <2>2
<1>8. 0 .. Len(m) \subseteq T
  <2> HIDE DEF T
  <2> QED  BY <1>2, <1>6, <1>7, UpTo
<1>9. Len(m) \in T
  <2>1. Len(m) \in 0 .. Len(m)
    BY <1>2
  <2> QED  BY <1>8, <2>1
<1> QED
  BY <1>9

(* A stack is filled with the directories below one, each once.            *)
LEMMA SubDirsAre ==
  ASSUME NEW t, IsPathTree(t), NEW d \in Dirs(t)
  PROVE  /\ SubDirs(t, d) \in Seq(Dirs(t) \ {Root}) /\ Len(SubDirs(t, d)) \in Nat
         /\ \A i \in 1 .. Len(SubDirs(t, d)) : Front(SubDirs(t, d)[i]) = d
         /\ \A n \in Dirs(t) \ {Root} : Front(n) = d => \E i \in 1 .. Len(SubDirs(t, d)) : SubDirs(t, d)[i] = n
         /\ \A i, j \in 1 .. Len(SubDirs(t, d)) : SubDirs(t, d)[i] = SubDirs(t, d)[j] => i = j
<1> DEFINE s == t.kids[d]
           E == Nodes(t) \ {Root}
           q == SubDirs(t, d)
<1>1. s \in Seq(E) /\ \A i, j \in 1 .. Len(s) : s[i] = s[j] => i = j
  BY DEF IsPathTree
<1>2. PICK p \in [0 .. Len(s) -> Seq(E)] : Selects(p, s, Dirs(t)) /\ p[Len(s)] = q
  <2>1. q = Selection(s, Dirs(t))
    BY DEF SubDirs, Among, Selection
  <2> HIDE DEF q, s, E
  <2> QED  BY <1>1, <2>1, SelectSteps
<1>3. Selected(q, Len(s), s, Dirs(t))
  <2> HIDE DEF q, s, E
  <2> QED  BY <1>1, <1>2, SelectIs
<1>4. q \in Seq(E) /\ Len(q) \in Nat
  <2>1. Len(s) \in 0 .. Len(s)
    BY <1>1
  <2> HIDE DEF q, s
  <2> QED  BY <1>2, <2>1
<1>5. \A i \in 1 .. Len(q) : q[i] \in Dirs(t) \ {Root} /\ Front(q[i]) = d
  <2> TAKE i \in 1 .. Len(q)
  <2>1. q[i] \in E
    <3> HIDE DEF q, E
    <3> QED  BY <1>4, ElementOfSeq
  <2>2. q[i] \in Dirs(t) /\ \E j \in 1 .. Len(s) : q[i] = s[j]
    <3> HIDE DEF q, s
    <3> QED  BY <1>3 DEF Selected
  <2>3. \A j \in 1 .. Len(s) : Front(s[j]) = d
    BY DEF IsPathTree
  <2> HIDE DEF q, s
  <2> QED  BY <2>1, <2>2, <2>3
<1>6. \A n \in Dirs(t) \ {Root} : Front(n) = d => \E i \in 1 .. Len(q) : q[i] = n
  <2> TAKE n \in Dirs(t) \ {Root}
  <2> HAVE Front(n) = d
  <2>1. PICK j \in 1 .. Len(s) : s[j] = n
    BY DEF IsPathTree, Nodes
  <2> HIDE DEF q, s
  <2> QED  BY <1>3, <2>1 DEF Selected
<1>7. \A i, j \in 1 .. Len(q) : q[i] = q[j] => i = j
  <2> HIDE DEF q, s
  <2> QED  BY <1>1, <1>3 DEF Selected
<1>8. q \in Seq(Dirs(t) \ {Root})
  <2>1. q = [i \in 1 .. Len(q) |-> q[i]]
    <3> HIDE DEF q
    <3> QED  BY <1>4
  <2>2. q \in [1 .. Len(q) -> Dirs(t) \ {Root}]
    <3> HIDE DEF q
    <3> QED  BY <1>5, <2>1
  <2> HIDE DEF q
  <2> QED  BY <1>4, <2>2
<1> QED
  BY <1>4, <1>5, <1>6, <1>7, <1>8

(* A tree with a node more is a tree.                                      *)
LEMMA AddNodeIs ==
  ASSUME NEW t, IsPathTree(t), NEW parent \in Dirs(t), NEW name \in Names, NEW isDir \in BOOLEAN,
         Append(parent, name) \notin Nodes(t)
  PROVE  /\ IsPathTree(AddNode(t, parent, name, isDir))
         /\ isDir => /\ Dirs(AddNode(t, parent, name, isDir)) = Dirs(t) \cup {Append(parent, name)}
                     /\ Files(AddNode(t, parent, name, isDir)) = Files(t)
         /\ ~isDir => /\ Dirs(AddNode(t, parent, name, isDir)) = Dirs(t)
                      /\ Files(AddNode(t, parent, name, isDir)) = Files(t) \cup {Append(parent, name)}
<1> DEFINE node == Append(parent, name)
           kids == [t.kids EXCEPT ![parent] = Append(@, node)]
           u == AddNode(t, parent, name, isDir)
           D == IF isDir THEN Dirs(t) \cup {node} ELSE Dirs(t)
           N == Nodes(t) \cup {node}
<1>1. /\ parent \in Paths /\ node \in Paths /\ Front(node) = parent /\ node # Root
      /\ t.kids \in [Dirs(t) -> Seq(Nodes(t) \ {Root})]
  BY PathIs, RootIs DEF IsPathTree
<1>2. /\ u.kids = [d \in D |-> IF d = node THEN <<>> ELSE IF d = parent THEN Append(t.kids[parent], node) ELSE t.kids[d]]
      /\ DOMAIN u.size = IF isDir THEN Files(t) ELSE Files(t) \cup {node}
      /\ u = [kids |-> u.kids, size |-> u.size]
  <2>1. \A d \in Dirs(t) : kids[d] = IF d = parent THEN Append(t.kids[parent], node) ELSE t.kids[d]
    BY <1>1
  <2>2. DOMAIN kids = Dirs(t) /\ node \notin Dirs(t)
    BY <1>1 DEF Nodes
  <2>3. t = [kids |-> t.kids, size |-> t.size]
    BY DEF IsPathTree
  <2>4. CASE isDir
    <3>1. u = [t EXCEPT !.kids = [d \in Dirs(t) \cup {node} |-> IF d = node THEN <<>> ELSE kids[d]]]
      BY <2>4 DEF AddNode
    <3>2. u.kids = [d \in Dirs(t) \cup {node} |-> IF d = node THEN <<>> ELSE kids[d]] /\ u.size = t.size
          /\ u = [kids |-> u.kids, size |-> u.size]
      BY <2>3, <3>1
    <3> HIDE DEF u, kids
    <3> QED  BY <2>1, <2>4, <3>2 DEF Files
  <2>5. CASE ~isDir
    <3>1. u = [kids |-> kids,
               size |-> [f \in Files(t) \cup {node} |-> IF f = node THEN 0 ELSE t.size[f]]]
      BY <2>5 DEF AddNode
    <3>2. u.kids = kids /\ DOMAIN u.size = Files(t) \cup {node} /\ u = [kids |-> u.kids, size |-> u.size]
      BY <3>1
    <3>3. kids = [d \in Dirs(t) |-> kids[d]]
      BY <1>1
    <3> HIDE DEF u, kids
    <3> QED  BY <2>1, <2>2, <2>5, <3>2, <3>3
  <2> QED  BY <2>4, <2>5
<1> HIDE DEF u
<1>3. Dirs(u) = D /\ Files(u) = (IF isDir THEN Files(t) ELSE Files(t) \cup {node}) /\ Nodes(u) = N
  BY <1>2 DEF Dirs, Files, Nodes
<1> HIDE DEF N, kids
<1>4. /\ Nodes(t) \ {Root} \subseteq N \ {Root} /\ node \in N \ {Root} /\ D \subseteq N
      /\ Dirs(t) \subseteq D /\ \A d \in D : d \in Dirs(t) \/ d = node
  BY <1>1 DEF N, Nodes
<1>5. node \notin Dirs(t) /\ parent \in D /\ parent # node /\ \A d \in Dirs(t) : d # node
  BY DEF Nodes
<1> HIDE DEF D
<1>6. /\ u.kids[node] = <<>> \/ node \notin D
      /\ u.kids[parent] = Append(t.kids[parent], node)
      /\ \A d \in Dirs(t) : d # parent => u.kids[d] = t.kids[d]
  BY <1>2, <1>4, <1>5
<1>7. /\ t.kids[parent] \in Seq(N \ {Root}) /\ Len(t.kids[parent]) \in Nat
      /\ Append(t.kids[parent], node) \in Seq(N \ {Root})
      /\ Len(Append(t.kids[parent], node)) = Len(t.kids[parent]) + 1
      /\ Append(t.kids[parent], node)[Len(t.kids[parent]) + 1] = node
      /\ \A i \in 1 .. Len(t.kids[parent]) : Append(t.kids[parent], node)[i] = t.kids[parent][i]
  <2>1. t.kids[parent] \in Seq(Nodes(t) \ {Root}) /\ Seq(Nodes(t) \ {Root}) \subseteq Seq(N \ {Root})
    BY <1>1, <1>4
  <2> HIDE DEF node
  <2> QED  BY <1>4, <2>1, AppendProperties
<1>8. u.kids \in [D -> Seq(N \ {Root})]
  <2>1. \A d \in Dirs(t) : t.kids[d] \in Seq(N \ {Root})
    <3>1. Seq(Nodes(t) \ {Root}) \subseteq Seq(N \ {Root})
      BY <1>4
    <3> QED  BY <1>1, <3>1
  <2>2. DOMAIN u.kids = D /\ u.kids = [d \in D |-> u.kids[d]]
    BY <1>2
  <2>3. \A d \in D : u.kids[d] \in Seq(N \ {Root})
    <3>1. <<>> \in Seq(N \ {Root})
      OBVIOUS
    <3> HIDE DEF node
    <3> QED  BY <1>4, <1>6, <1>7, <2>1, <3>1
  <2> QED  BY <2>2, <2>3
<1>9. \A d \in D : \A i \in 1 .. Len(u.kids[d]) : Front(u.kids[d][i]) = d
  <2> TAKE d \in D
  <2>1. CASE d = parent
    <3> TAKE i \in 1 .. Len(u.kids[d])
    <3>1. i \in 1 .. Len(t.kids[parent]) \/ i = Len(t.kids[parent]) + 1
      BY <1>6, <1>7, <2>1
    <3>2. \A j \in 1 .. Len(t.kids[parent]) : Front(t.kids[parent][j]) = parent
      BY DEF IsPathTree
    <3> HIDE DEF node
    <3> QED  BY <1>1, <1>6, <1>7, <2>1, <3>1, <3>2
  <2>2. CASE d \in Dirs(t) /\ d # parent
    BY <1>6, <2>2 DEF IsPathTree
  <2>3. CASE d = node
    <3>1. u.kids[d] = <<>> /\ Len(u.kids[d]) = 0
      BY <1>6, <2>3
    <3> QED  BY <3>1
  <2> QED  BY <1>4, <2>1, <2>2, <2>3
<1>10. \A d \in D : \A i, j \in 1 .. Len(u.kids[d]) : u.kids[d][i] = u.kids[d][j] => i = j
  <2> TAKE d \in D
  <2>1. CASE d = parent
    <3> DEFINE s == t.kids[parent]
               v == u.kids[parent]
    <3>1. /\ Len(s) \in Nat /\ Len(v) = Len(s) + 1 /\ v[Len(s) + 1] = node
          /\ \A i \in 1 .. Len(s) : v[i] = s[i]
      BY <1>6, <1>7
    <3>2. \A i \in 1 .. Len(s) : s[i] # node
      <4>1. \A i \in 1 .. Len(s) : s[i] \in Nodes(t)
        <5>1. s \in Seq(Nodes(t) \ {Root})
          BY <1>1
        <5> QED  BY <5>1, ElementOfSeq
      <4> QED  BY <4>1
    <3>3. \A i, j \in 1 .. Len(s) : s[i] = s[j] => i = j
      BY DEF IsPathTree
    <3>4. \A i \in 1 .. Len(v) : i \in 1 .. Len(s) \/ i = Len(s) + 1
      BY <3>1
    <3> HIDE DEF node, s, v
    <3>5. \A i, j \in 1 .. Len(v) : v[i] = v[j] => i = j
      BY <3>1, <3>2, <3>3, <3>4
    <3> QED  BY <2>1, <3>5 DEF v
  <2>2. CASE d \in Dirs(t) /\ d # parent
    BY <1>6, <2>2 DEF IsPathTree
  <2>3. CASE d = node
    <3>1. u.kids[d] = <<>> /\ Len(u.kids[d]) = 0
      BY <1>6, <2>3
    <3> QED  BY <3>1
  <2> QED  BY <1>4, <2>1, <2>2, <2>3
<1>11. \A n \in N \ {Root} : Front(n) \in D /\ \E i \in 1 .. Len(u.kids[Front(n)]) : u.kids[Front(n)][i] = n
  <2> TAKE n \in N \ {Root}
  <2>1. CASE n = node
    <3>1. Len(t.kids[parent]) + 1 \in 1 .. Len(u.kids[parent])
      BY <1>6, <1>7
    <3> HIDE DEF node
    <3> QED  BY <1>1, <1>5, <1>6, <1>7, <2>1, <3>1
  <2>2. CASE n \in Nodes(t)
    <3>1. Front(n) \in Dirs(t) /\ \E i \in 1 .. Len(t.kids[Front(n)]) : t.kids[Front(n)][i] = n
      BY <2>2 DEF IsPathTree
    <3>2. PICK i \in 1 .. Len(t.kids[Front(n)]) : t.kids[Front(n)][i] = n
      BY <3>1
    <3>3. CASE Front(n) = parent
      <4>1. i \in 1 .. Len(u.kids[parent]) /\ u.kids[parent][i] = t.kids[parent][i]
        BY <1>6, <1>7, <3>2, <3>3
      <4> QED  BY <1>5, <3>2, <3>3, <4>1
    <3>4. CASE Front(n) # parent
      BY <1>4, <1>6, <3>1, <3>4
    <3> QED  BY <3>3, <3>4
  <2> QED  BY <2>1, <2>2 DEF N
<1>12. /\ D \subseteq Paths /\ Files(u) \subseteq Paths /\ Root \in D /\ D \cap Files(u) = {}
  <2>1. /\ Dirs(t) \subseteq Paths /\ Files(t) \subseteq Paths /\ Root \in Dirs(t)
        /\ Dirs(t) \cap Files(t) = {} /\ node \notin Dirs(t) /\ node \notin Files(t)
    BY DEF IsPathTree, Nodes
  <2> HIDE DEF node
  <2> QED  BY <1>1, <1>3, <2>1 DEF D
<1>13. IsPathTree(u)
  BY <1>2, <1>3, <1>8, <1>9, <1>10, <1>11, <1>12 DEF IsPathTree
<1> QED
  BY <1>3, <1>13 DEF u, D

-----------------------------------------------------------------------------
(* From the folder to the tree.                                            *)

FoldersFirst == \A p \in fileSet : Front(p) # Root => Front(p) \in fileSet /\ disk[Front(p)]

(* What has been taken from todo.                                          *)
Added == IF phase = "traverse" THEN {} ELSE {p \in fileSet : \A i \in 1 .. Len(todo) : todo[i] # p}

Todo ==
  /\ todo \in Seq(fileSet)
  /\ \A i, j \in 1 .. Len(todo) : i < j => Before(todo[i], todo[j])
  /\ phase \notin {"build", "not opened"} => todo = <<>>

Holds(added) ==
  phase # "not opened" =>
    /\ Dirs(tree)  = {p \in added : disk[p]} \cup {Root}
    /\ Files(tree) = {p \in added : ~disk[p]}
    /\ count = [dirs  |-> Cardinality({p \in added : disk[p]}),
                files |-> Cardinality({p \in added : ~disk[p]})]

Phases == {"traverse", "build", "not opened", "populate", "sort", "entries", "too many"}

TreeInv ==
  /\ disk \in Disks /\ fileSet \in SUBSET DOMAIN disk /\ IsFiniteSet(fileSet) /\ FoldersFirst
  /\ phase \in Phases
  /\ Todo
  /\ IsPathTree(tree)
  /\ Holds(Added)

(* Below a folder of the disk there are only paths, and folders above them.*)
LEMMA DiskIs ==
  ASSUME NEW d \in Disks
  PROVE  /\ \A p \in DOMAIN d : p \in Paths /\ p # <<>> /\ p # Root /\ d[p] \in BOOLEAN
         /\ \A p \in DOMAIN d : Front(p) # Root => Front(p) \in DOMAIN d /\ d[Front(p)]
<1>1. /\ d \in [DOMAIN d -> BOOLEAN] /\ DOMAIN d \subseteq Seq(Range(NameOrder)) \ {Root}
      /\ \A p \in DOMAIN d : Front(p) # Root => Front(p) \in DOMAIN d /\ d[Front(p)]
  BY DisksAssumption
<1> QED
  BY <1>1, RootIs DEF Paths, Names

LEMMA TreeStarts == TreeInit => TreeInv
<1> SUFFICES ASSUME TreeInit PROVE TreeInv
  OBVIOUS
<1> USE DEF TreeInit
<1>1. Dirs(tree) = {Root} /\ Files(tree) = {} /\ Nodes(tree) = {Root}
  BY DEF Dirs, Files, Nodes
<1>2. tree.kids = [d \in {Root} |-> <<>>] /\ tree.kids[Root] = <<>> /\ Len(tree.kids[Root]) = 0
  OBVIOUS
<1>3. IsPathTree(tree)
  <2>1. tree = [kids |-> tree.kids, size |-> tree.size]
    OBVIOUS
  <2>2. tree.kids \in [{Root} -> Seq({})]
    <3>1. <<>> \in Seq({})
      OBVIOUS
    <3> QED  BY <1>2, <3>1
  <2>3. \A d \in {Root} : 1 .. Len(tree.kids[d]) = {}
    BY <1>2
  <2> HIDE DEF TreeInit
  <2> QED  BY <1>1, <2>1, <2>2, <2>3, RootIs DEF IsPathTree
<1>4. Added = {}
  BY DEF Added
<1>5. {p \in Added : disk[p]} = {} /\ {p \in Added : ~disk[p]} = {}
  BY <1>4
<1>6. IsFiniteSet({}) /\ Cardinality({}) = 0
  BY FS_EmptySet
<1>7. Holds(Added)
  BY <1>1, <1>5, <1>6 DEF Holds
<1>8. Todo
  <2>1. <<>> \in Seq(fileSet) /\ Len(<<>>) = 0
    OBVIOUS
  <2> QED  BY <2>1 DEF Todo
<1> QED
  BY <1>3, <1>6, <1>7, <1>8 DEF TreeInv, FoldersFirst, Phases

LEMMA TraverseHolds == TreeInv /\ Traverse => TreeInv'
<1> SUFFICES ASSUME TreeInv, Traverse PROVE TreeInv'
  OBVIOUS
<1>1. PICK path \in DOMAIN disk \ fileSet : /\ Front(path) = Root \/ Front(path) \in fileSet
                                            /\ OnDir(path) \/ OnFile(path)
  BY DEF Traverse
<1>2. /\ phase = "traverse" /\ phase' = phase /\ disk' = disk /\ todo' = todo /\ tree' = tree /\ count' = count
      /\ fileSet' = fileSet \cup {path}
  BY <1>1 DEF Traverse, OnDir, OnFile
<1>3. disk \in Disks /\ fileSet \in SUBSET DOMAIN disk /\ IsFiniteSet(fileSet)
  BY DEF TreeInv
<1>4. fileSet' \in SUBSET DOMAIN disk' /\ IsFiniteSet(fileSet')
  BY <1>1, <1>2, <1>3, FS_AddElement
<1>5. FoldersFirst'
  <2>1. \A p \in fileSet : Front(p) # Root => Front(p) \in fileSet /\ disk[Front(p)]
    BY DEF TreeInv, FoldersFirst
  <2>2. Front(path) # Root => Front(path) \in fileSet /\ disk[Front(path)]
    <3>1. \A p \in DOMAIN disk : Front(p) # Root => Front(p) \in DOMAIN disk /\ disk[Front(p)]
      BY <1>3, DiskIs
    <3>2. Front(path) = Root \/ Front(path) \in fileSet
      BY <1>1
    <3>3. Front(path) # Root => disk[Front(path)]
      BY <3>1
    <3> QED  BY <3>2, <3>3
  <2> QED  BY <1>2, <2>1, <2>2 DEF FoldersFirst
<1>6. todo = <<>> /\ todo' \in Seq(fileSet')
  BY <1>2 DEF TreeInv, Todo
<1>7. Todo'
  BY <1>2, <1>6 DEF Todo
<1>8. Added = {} /\ Added' = {}
  BY <1>2 DEF Added
<1>9. Holds(Added)'
  BY <1>2, <1>8 DEF TreeInv, Holds
<1> QED
  BY <1>2, <1>3, <1>4, <1>5, <1>7, <1>9 DEF TreeInv

LEMMA CreateHolds == TreeInv /\ CreateFromFileSet => TreeInv'
<1> SUFFICES ASSUME TreeInv, CreateFromFileSet PROVE TreeInv'
  OBVIOUS
<1>1. /\ phase = "traverse" /\ phase' = "build" /\ todo' = InOrder(fileSet)
      /\ UNCHANGED <<disk, fileSet, tree, count>>
  BY DEF CreateFromFileSet
<1>2. fileSet \in SUBSET Paths /\ IsFiniteSet(fileSet)
  BY DiskIs DEF TreeInv
<1>3. /\ todo' \in Seq(fileSet) /\ Len(todo') = Cardinality(fileSet)
      /\ \A p \in fileSet : \E i \in 1 .. Cardinality(fileSet) : todo'[i] = p
      /\ \A i, j \in 1 .. Cardinality(fileSet) : i < j => Before(todo'[i], todo'[j])
  BY <1>1, <1>2, InOrderIs
<1>4. Todo'
  BY <1>1, <1>3 DEF Todo
<1>5. Added = {} /\ Added' = {}
  BY <1>1, <1>3 DEF Added
<1>6. Holds(Added)'
  BY <1>1, <1>5 DEF TreeInv, Holds
<1>7. FoldersFirst'
  BY <1>1 DEF TreeInv, FoldersFirst
<1> QED
  BY <1>1, <1>4, <1>6, <1>7 DEF TreeInv, Phases

(* The first path of todo, and the directory it goes into.                 *)
LEMMA NextPathIs ==
  ASSUME TreeInv, phase = "build", todo # <<>>
  PROVE  /\ Head(todo) \in fileSet \ Added /\ Head(todo) \in Paths \ {<<>>}
         /\ Head(todo) \notin Nodes(tree)
         /\ Front(Head(todo)) \in Dirs(tree) /\ WalkTo(tree, Front(Head(todo))) = Front(Head(todo))
         /\ Tail(todo) \in Seq(fileSet) /\ Len(Tail(todo)) = Len(todo) - 1 /\ Len(todo) \in Nat \ {0}
         /\ \A i \in 1 .. Len(Tail(todo)) : /\ Tail(todo)[i] = todo[i + 1] /\ i + 1 \in 1 .. Len(todo)
                                            /\ Before(Head(todo), Tail(todo)[i])
         /\ {p \in fileSet : \A i \in 1 .. Len(Tail(todo)) : Tail(todo)[i] # p} = Added \cup {Head(todo)}
<1> DEFINE path == Head(todo)
           rest == Tail(todo)
<1>1. /\ todo \in Seq(fileSet) /\ \A i, j \in 1 .. Len(todo) : i < j => Before(todo[i], todo[j])
      /\ disk \in Disks /\ fileSet \in SUBSET DOMAIN disk /\ FoldersFirst /\ IsPathTree(tree)
      /\ Holds(Added)
  BY DEF TreeInv, Todo
<1>2. /\ Len(todo) \in Nat \ {0} /\ path = todo[1] /\ path \in fileSet
      /\ rest \in Seq(fileSet) /\ Len(rest) = Len(todo) - 1
      /\ \A i \in 1 .. Len(rest) : rest[i] = todo[i + 1] /\ i + 1 \in 1 .. Len(todo)
  BY <1>1, HeadTailProperties
<1>3. \A p \in fileSet : p \in Paths /\ p # <<>> /\ p # Root /\ disk[p] \in BOOLEAN
  BY <1>1, DiskIs
<1>4. Added = {p \in fileSet : \A i \in 1 .. Len(todo) : todo[i] # p}
  BY DEF Added
<1>5. path \notin Added
  BY <1>2, <1>4
<1>6. path \notin Nodes(tree)
  BY <1>1, <1>2, <1>3, <1>5 DEF Holds, Nodes
<1>7. \A i \in 1 .. Len(todo) : i > 1 => Before(path, todo[i])
  BY <1>1, <1>2
<1>8. \A i \in 1 .. Len(rest) : Before(path, rest[i])
  BY <1>2, <1>7
<1>9. Front(path) \in Dirs(tree)
  <2>1. CASE Front(path) = Root
    BY <1>1, <2>1 DEF IsPathTree
  <2>2. CASE Front(path) # Root
    <3>1. Front(path) \in fileSet /\ disk[Front(path)]
      BY <1>1, <1>2, <2>2 DEF FoldersFirst
    <3>2. Before(Front(path), path)
      BY <1>2, <1>3, PathIs, BeforeIs
    <3>3. \A i \in 1 .. Len(todo) : todo[i] # Front(path)
      <4> SUFFICES ASSUME NEW i \in 1 .. Len(todo), todo[i] = Front(path) PROVE FALSE
        OBVIOUS
      <4>1. path \in Paths /\ Front(path) \in Paths
        BY <1>2, <1>3, <3>1
      <4>2. i = 1 \/ i > 1
        BY <1>2
      <4>3. Before(path, path)
        BY <1>2, <1>7, <3>2, <4>1, <4>2, BeforeTransitive
      <4> QED  BY <4>1, <4>3, BeforeOrders
    <3>4. Front(path) \in Added
      BY <1>4, <3>1, <3>3
    <3> QED  BY <1>1, <3>1, <3>4 DEF Holds
  <2> QED  BY <2>1, <2>2
<1>10. WalkTo(tree, Front(path)) = Front(path)
  BY <1>1, <1>9, WalkToIs DEF IsPathTree, Nodes
<1>11. {p \in fileSet : \A i \in 1 .. Len(rest) : rest[i] # p} = Added \cup {path}
  <2>1. ASSUME NEW p \in fileSet
        PROVE  (\A i \in 1 .. Len(rest) : rest[i] # p) <=> p \in Added \/ p = path
    <3>1. CASE p = path
      <4>1. \A i \in 1 .. Len(rest) : rest[i] \in fileSet
        BY <1>2, ElementOfSeq
      <4> QED  BY <1>3, <1>8, <3>1, <4>1, BeforeOrders
    <3>2. CASE p # path
      <4>1. p \in Added <=> \A i \in 1 .. Len(todo) : todo[i] # p
        BY <1>4
      <4>2. ASSUME NEW i \in 1 .. Len(todo), todo[i] = p
            PROVE  \E j \in 1 .. Len(rest) : rest[j] = p
        <5>1. i # 1
          BY <1>2, <3>2, <4>2
        <5>2. i - 1 \in 1 .. Len(rest) /\ (i - 1) + 1 = i
          BY <1>2, <5>1
        <5>3. rest[i - 1] = p
          BY <1>2, <4>2, <5>2
        <5> QED  BY <5>2, <5>3
      <4>3. \A j \in 1 .. Len(rest) : rest[j] = p => \E i \in 1 .. Len(todo) : todo[i] = p
        BY <1>2
      <4> QED  BY <3>2, <4>1, <4>2, <4>3
    <3> QED  BY <3>1, <3>2
  <2>2. Added \subseteq fileSet /\ path \in fileSet
    BY <1>2, <1>4
  <2> HIDE DEF path, rest
  <2> QED  BY <2>1, <2>2
<1> QED
  BY <1>2, <1>3, <1>5, <1>6, <1>8, <1>9, <1>10, <1>11

LEMMA AddHolds == TreeInv /\ AddFileFromPath => TreeInv'
<1> SUFFICES ASSUME TreeInv, AddFileFromPath PROVE TreeInv'
  OBVIOUS
<1> DEFINE path == Head(todo)
<1>1. phase = "build" /\ todo # <<>> /\ todo' = Tail(todo) /\ disk' = disk /\ fileSet' = fileSet
  BY DEF AddFileFromPath
<1>2. /\ path \in fileSet \ Added /\ path \in Paths \ {<<>>} /\ path \notin Nodes(tree)
      /\ Front(path) \in Dirs(tree) /\ WalkTo(tree, Front(path)) = Front(path)
      /\ todo' \in Seq(fileSet) /\ Len(todo') = Len(todo) - 1 /\ Len(todo) \in Nat \ {0}
      /\ \A i \in 1 .. Len(todo') : todo'[i] = todo[i + 1] /\ i + 1 \in 1 .. Len(todo)
      /\ {p \in fileSet : \A i \in 1 .. Len(todo') : todo'[i] # p} = Added \cup {path}
  <2> DEFINE rest == Tail(todo)
  <2>1. /\ path \in fileSet \ Added /\ path \in Paths \ {<<>>} /\ path \notin Nodes(tree)
        /\ Front(path) \in Dirs(tree) /\ WalkTo(tree, Front(path)) = Front(path)
        /\ rest \in Seq(fileSet) /\ Len(rest) = Len(todo) - 1 /\ Len(todo) \in Nat \ {0}
        /\ \A i \in 1 .. Len(rest) : rest[i] = todo[i + 1] /\ i + 1 \in 1 .. Len(todo)
        /\ {p \in fileSet : \A i \in 1 .. Len(rest) : rest[i] # p} = Added \cup {path}
    BY <1>1, NextPathIs, Zenon
  <2>2. todo' = rest
    BY <1>1
  <2> HIDE DEF rest, path
  <2> QED  BY <2>1, <2>2
<1>3. /\ disk \in Disks /\ fileSet \in SUBSET DOMAIN disk /\ IsFiniteSet(fileSet) /\ FoldersFirst
      /\ IsPathTree(tree) /\ Holds(Added)
      /\ \A i, j \in 1 .. Len(todo) : i < j => Before(todo[i], todo[j])
  BY DEF TreeInv, Todo
<1>4. Front(path) # NoNode
  BY <1>2, <1>3, RootIs DEF IsPathTree
<1>5. \/ /\ tree' = AddNode(tree, Front(path), Last(path), disk[path])
         /\ count' = IF disk[path] THEN [count EXCEPT !.dirs = @ + 1] ELSE [count EXCEPT !.files = @ + 1]
         /\ phase' = "build"
      \/ phase' = "not opened" /\ tree' = tree /\ count' = count
  BY <1>1, <1>2, <1>4, Zenon DEF AddFileFromPath
<1>6. phase' \in {"build", "not opened"}
  BY <1>5
<1>7. Todo'
  <2>1. \A i, j \in 1 .. Len(todo') : i < j => Before(todo'[i], todo'[j])
    <3> SUFFICES ASSUME NEW i \in 1 .. Len(todo'), NEW j \in 1 .. Len(todo'), i < j
                 PROVE  Before(todo'[i], todo'[j])
      OBVIOUS
    <3>1. todo'[i] = todo[i + 1] /\ todo'[j] = todo[j + 1] /\ i + 1 \in 1 .. Len(todo) /\ j + 1 \in 1 .. Len(todo)
      BY <1>2
    <3>2. i + 1 < j + 1
      BY <1>2
    <3> QED  BY <1>3, <3>1, <3>2
  <2> QED  BY <1>1, <1>2, <1>6, <2>1 DEF Todo
<1>8. Added' = Added \cup {path}
  BY <1>1, <1>2, <1>6 DEF Added
<1>9. IsPathTree(tree)' /\ Holds(Added)'
  <2>1. CASE phase' = "not opened" /\ tree' = tree
    BY <1>3, <2>1 DEF Holds
  <2>2. CASE /\ tree' = AddNode(tree, Front(path), Last(path), disk[path])
             /\ count' = IF disk[path] THEN [count EXCEPT !.dirs = @ + 1] ELSE [count EXCEPT !.files = @ + 1]
             /\ phase' = "build"
    <3>1. Last(path) \in Names /\ Append(Front(path), Last(path)) = path /\ disk[path] \in BOOLEAN
      BY <1>2, <1>3, PathIs, DiskIs
    <3>2. /\ IsPathTree(tree')
          /\ Dirs(tree') = IF disk[path] THEN Dirs(tree) \cup {path} ELSE Dirs(tree)
          /\ Files(tree') = IF disk[path] THEN Files(tree) ELSE Files(tree) \cup {path}
      <4>1. Front(path) \in Dirs(tree) /\ Append(Front(path), Last(path)) \notin Nodes(tree) /\ IsPathTree(tree)
        BY <1>2, <1>3, <3>1
      <4> DEFINE d == Front(path)
                 name == Last(path)
      <4>2. d \in Dirs(tree) /\ Append(d, name) \notin Nodes(tree) /\ IsPathTree(tree) /\ name \in Names
        BY <3>1, <4>1
      <4> HIDE DEF path, d, name
      <4>3. \A b \in BOOLEAN :
              /\ IsPathTree(AddNode(tree, d, name, b))
              /\ b => /\ Dirs(AddNode(tree, d, name, b)) = Dirs(tree) \cup {Append(d, name)}
                      /\ Files(AddNode(tree, d, name, b)) = Files(tree)
              /\ ~b => /\ Dirs(AddNode(tree, d, name, b)) = Dirs(tree)
                       /\ Files(AddNode(tree, d, name, b)) = Files(tree) \cup {Append(d, name)}
        BY <4>2, AddNodeIs
      <4>4. CASE disk[path] = TRUE
        BY <2>2, <3>1, <4>3, <4>4 DEF d, name
      <4>5. CASE disk[path] = FALSE
        BY <2>2, <3>1, <4>3, <4>5 DEF d, name
      <4> QED  BY <3>1, <4>4, <4>5
    <3> DEFINE D == {p \in Added : disk[p]}
               F == {p \in Added : ~disk[p]}
    <3>3. /\ Dirs(tree) = D \cup {Root} /\ Files(tree) = F
          /\ count = [dirs |-> Cardinality(D), files |-> Cardinality(F)]
      BY <1>1, <1>3 DEF Holds
    <3>4. /\ IsFiniteSet(D) /\ IsFiniteSet(F) /\ path \notin D /\ path \notin F
      <4>1. D \subseteq fileSet /\ F \subseteq fileSet
        BY <1>1 DEF Added
      <4>2. path \notin D /\ path \notin F
        BY <1>2
      <4> HIDE DEF D, F
      <4> QED  BY <1>3, <4>1, <4>2, FS_Subset
    <3>5. /\ Cardinality(D \cup {path}) = Cardinality(D) + 1
          /\ Cardinality(F \cup {path}) = Cardinality(F) + 1
      BY <3>4, FS_AddElement
    <3>6. CASE disk[path]
      <4>1. {p \in Added \cup {path} : disk[p]} = D \cup {path} /\ {p \in Added \cup {path} : ~disk[p]} = F
        BY <3>6
      <4>2. count' = [dirs |-> Cardinality(D) + 1, files |-> Cardinality(F)]
        BY <2>2, <3>3, <3>6
      <4> HIDE DEF D, F
      <4> QED  BY <1>1, <1>8, <3>2, <3>3, <3>5, <3>6, <4>1, <4>2 DEF Holds
    <3>7. CASE ~disk[path]
      <4>1. {p \in Added \cup {path} : disk[p]} = D /\ {p \in Added \cup {path} : ~disk[p]} = F \cup {path}
        BY <3>7
      <4>2. count' = [dirs |-> Cardinality(D), files |-> Cardinality(F) + 1]
        BY <2>2, <3>3, <3>7
      <4> HIDE DEF D, F
      <4> QED  BY <1>1, <1>8, <3>2, <3>3, <3>5, <3>7, <4>1, <4>2 DEF Holds
    <3> QED  BY <3>6, <3>7
  <2> QED  BY <1>5, <2>1, <2>2
<1>10. FoldersFirst'
  BY <1>1, <1>3 DEF FoldersFirst
<1> QED
  BY <1>1, <1>3, <1>6, <1>7, <1>9, <1>10 DEF TreeInv, Phases

-----------------------------------------------------------------------------
(* Stacks, and counting.                                                   *)

Members(s) == {s[i] : i \in 1 .. Len(s)}
Once(s)    == \A i, j \in 1 .. Len(s) : s[i] = s[j] => i = j

(* The last one is taken off a stack, and others go onto it.               *)
LEMMA PopPush ==
  ASSUME NEW E, NEW s \in Seq(E), s # <<>>, NEW q \in Seq(E)
  PROVE  /\ Front(s) \in Seq(E) /\ Last(s) \in E /\ Members(s) = Members(Front(s)) \cup {Last(s)}
         /\ Front(s) \o q \in Seq(E) /\ Members(Front(s) \o q) = Members(Front(s)) \cup Members(q)
         /\ Once(s) => Once(Front(s)) /\ Last(s) \notin Members(Front(s))
         /\ Once(s) /\ Once(q) /\ Members(Front(s)) \cap Members(q) = {} => Once(Front(s) \o q)
<1> DEFINE n == Len(s) - 1
           f == Front(s)
           l == Last(s)
           r == f \o q
<1>1. Len(s) \in Nat \ {0} /\ n \in Nat /\ Len(q) \in Nat /\ \A i \in 1 .. Len(s) : s[i] \in E
  BY ElementOfSeq
<1>2. f = [i \in 1 .. n |-> s[i]]
  <2>1. Len(s) \in Nat \ {0}
    BY <1>1
  <2>2. Front(s) = [i \in 1 .. Len(s) - 1 |-> s[i]]
    BY <2>1 DEF Front
  <2> QED  BY <2>2
<1>3. \A i \in 1 .. n : i \in 1 .. Len(s)
  BY <1>1
<1>4. f \in Seq(E) /\ Len(f) = n /\ \A i \in 1 .. n : f[i] = s[i]
  <2>1. f \in [1 .. n -> E]
    BY <1>1, <1>2, <1>3
  <2> HIDE DEF f
  <2> QED  BY <1>1, <1>2, <2>1
<1>5. l = s[n + 1] /\ l \in E /\ n + 1 \in 1 .. Len(s) /\ Len(s) = n + 1
  BY <1>1 DEF Last
<1>6. \A i \in 1 .. Len(s) : i \in 1 .. n \/ i = n + 1
  BY <1>1
<1>7. /\ r \in Seq(E) /\ Len(r) = n + Len(q)
      /\ \A i \in 1 .. n : r[i] = s[i]
      /\ \A j \in 1 .. Len(q) : r[n + j] = q[j]
  <2> HIDE DEF f
  <2>1. r \in Seq(E) /\ Len(r) = Len(f) + Len(q)
    BY <1>4, ConcatProperties
  <2>2. \A i \in 1 .. Len(r) : r[i] = IF i <= Len(f) THEN f[i] ELSE q[i - Len(f)]
    BY <1>4, <2>1, ConcatProperties
  <2>3. \A i \in 1 .. n : r[i] = s[i]
    BY <1>1, <1>4, <2>1, <2>2
  <2>4. \A j \in 1 .. Len(q) : r[n + j] = q[j]
    <3> TAKE j \in 1 .. Len(q)
    <3>1. n + j \in 1 .. Len(r) /\ ~(n + j <= Len(f)) /\ (n + j) - Len(f) = j
      BY <1>1, <1>4, <2>1
    <3> QED  BY <2>2, <3>1
  <2> QED  BY <1>4, <2>1, <2>3, <2>4
<1>8. \A i \in 1 .. Len(r) : i \in 1 .. n \/ \E j \in 1 .. Len(q) : i = n + j
  <2> SUFFICES ASSUME NEW i \in 1 .. Len(r), i \notin 1 .. n PROVE \E j \in 1 .. Len(q) : i = n + j
    OBVIOUS
  <2>1. i - n \in 1 .. Len(q) /\ i = n + (i - n)
    BY <1>1, <1>7
  <2> QED  BY <2>1
<1>9. (\A i \in 1 .. n : i \in 1 .. Len(r)) /\ \A j \in 1 .. Len(q) : n + j \in 1 .. Len(r)
  BY <1>1, <1>7
<1> HIDE DEF n, f, l, r
<1>10. Members(s) = Members(f) \cup {l}
  BY <1>3, <1>4, <1>5, <1>6 DEF Members
<1>11. Members(r) = Members(f) \cup Members(q)
  <2>1. \A x \in Members(r) : x \in Members(f) \cup Members(q)
    <3> SUFFICES ASSUME NEW i \in 1 .. Len(r) PROVE r[i] \in Members(f) \cup Members(q)
      BY DEF Members
    <3>1. CASE i \in 1 .. n
      BY <1>4, <1>7, <3>1 DEF Members
    <3>2. ASSUME NEW j \in 1 .. Len(q), i = n + j PROVE r[i] \in Members(q)
      BY <1>7, <3>2 DEF Members
    <3> QED  BY <1>8, <3>1, <3>2
  <2>2. \A x \in Members(f) : x \in Members(r)
    BY <1>4, <1>7, <1>9 DEF Members
  <2>3. \A x \in Members(q) : x \in Members(r)
    BY <1>7, <1>9 DEF Members
  <2> QED  BY <2>1, <2>2, <2>3
<1>12. Once(s) => Once(f) /\ l \notin Members(f)
  <2> SUFFICES ASSUME Once(s) PROVE Once(f) /\ l \notin Members(f)
    OBVIOUS
  <2>1. Once(f)
    BY <1>3, <1>4 DEF Once
  <2>2. \A i \in 1 .. n : i # n + 1
    BY <1>1 DEF n
  <2>3. \A i \in 1 .. n : s[i] # s[n + 1]
    BY <1>3, <1>5, <2>2 DEF Once
  <2> QED  BY <1>4, <1>5, <2>1, <2>3 DEF Members
<1>13. ASSUME Once(s), Once(q), Members(f) \cap Members(q) = {}
       PROVE  Once(r)
  <2>1. Once(f)
    BY <1>12, <1>13
  <2>2. \A i \in 1 .. n, j \in 1 .. Len(q) : r[i] # r[n + j]
    <3>1. \A i \in 1 .. n, j \in 1 .. Len(q) : s[i] # q[j]
      BY <1>4, <1>13 DEF Members
    <3> QED  BY <1>7, <3>1
  <2>3. \A i, j \in 1 .. n : r[i] = r[j] => i = j
    BY <1>4, <1>7, <2>1 DEF Once
  <2>4. \A i, j \in 1 .. Len(q) : r[n + i] = r[n + j] => i = j
    BY <1>7, <1>13 DEF Once
  <2> QED  BY <1>8, <2>2, <2>3, <2>4 DEF Once
<1> QED
  BY <1>4, <1>5, <1>7, <1>10, <1>11, <1>12, <1>13 DEF f, l, r

(* A set of positions with all before them is the first so many.           *)
LEMMA DownSetIs ==
  ASSUME NEW n \in Nat, NEW D \in SUBSET (1 .. n), \A i \in D : \A j \in 1 .. n : j < i => j \in D
  PROVE  Cardinality(D) \in 0 .. n /\ D = 1 .. Cardinality(D)
<1>1. CASE D = {}
  <2>1. Cardinality(D) = 0 /\ 1 .. 0 = {}
    BY <1>1, FS_EmptySet
  <2> QED  BY <1>1, <2>1
<1>2. CASE D # {}
  <2> DEFINE m == Max(D)
  <2>1. D \in SUBSET (0 .. n)
    OBVIOUS
  <2>2. m \in D /\ \A k \in D : k <= m
    BY <1>2, <2>1, MaxIsIn
  <2> HIDE DEF m
  <2>3. D = 1 .. m
    <3>1. m \in 1 .. n
      BY <2>2
    <3>2. \A k \in 1 .. m : k = m \/ (k \in 1 .. n /\ k < m)
      BY <3>1
    <3>3. \A k \in D : k \in 1 .. m
      BY <2>2
    <3> QED  BY <2>2, <3>2, <3>3
  <2>4. Cardinality(1 .. m) = m
    <3>1. m \in Nat \ {0} /\ 1 \in Int /\ (IF 1 > m THEN 0 ELSE m - 1 + 1) = m
      BY <2>2
    <3> QED  BY <3>1, FS_Interval
  <2>5. m \in 0 .. n
    BY <2>2
  <2> QED  BY <2>3, <2>4, <2>5
<1> QED
  BY <1>1, <1>2

(* What goes into n places and fills no place twice fills all there are.   *)
LEMMA Permutes ==
  ASSUME NEW S, IsFiniteSet(S), NEW n \in Nat, n = Cardinality(S), NEW f \in [1 .. n -> S],
         \A i, j \in 1 .. n : f[i] = f[j] => i = j
  PROVE  \A x \in S : \E i \in 1 .. n : f[i] = x
<1>2. f \in Injection(1 .. n, S)
  BY DEF Injection, IsInjective
<1>3. Cardinality(1 .. n) = n
  <2>1. n \in Int /\ 1 \in Int /\ (IF 1 > n THEN 0 ELSE n - 1 + 1) = n
    OBVIOUS
  <2> QED  BY <2>1, FS_Interval
<1>4. f \in Surjection(1 .. n, S)
  BY <1>2, <1>3, FS_Injection
<1> QED
  BY <1>4 DEF Surjection

-----------------------------------------------------------------------------
(* The directories of the table.                                           *)

(* Those that are not too deep.                                            *)
Shallow == {d \in Dirs(tree) \ {Root} : Len(d) + 1 <= MaxDirLevel}

Listed == {table[i].node : i \in 1 .. Len(table)}

IsTable ==
  /\ table \in Seq([node : Shallow, parent : 0 .. MaxId])
  /\ \A i, j \in 1 .. Len(table) : table[i].node = table[j].node => i = j

(* What is on the stack comes below what is listed, and is all of it that  *)
(* belongs into the table.                                                 *)
Populates ==
  /\ stack \in Seq(Dirs(tree) \ {Root}) /\ Once(stack)
  /\ Listed \cap Members(stack) = {}
  /\ \A n \in Listed \cup Members(stack) : Front(n) # Root => Front(n) \in Listed
  /\ \A d \in Shallow : Front(d) \in Listed \cup {Root} => d \in Listed \cup Members(stack)

(* The levels come after each other, and those below level have numbers.   *)
Sorts ==
  /\ Listed = Shallow /\ level \in Nat \ {0, 1}
  /\ \A i, j \in 1 .. Len(table) : i < j => Len(table[i].node) <= Len(table[j].node)
  /\ \A i \in 1 .. Len(table) : Len(table[i].node) + 1 < level =>
       IF Len(table[i].node) = 1 THEN table[i].parent = 1
       ELSE \E j \in 1 .. i - 1 : table[j].node = Front(table[i].node) /\ table[i].parent = j + 1

(* The walk has seen, or will see, what is below a directory it has seen.  *)
Walked == {walk[i][1] : i \in 1 .. Len(walk)}

WalksDown ==
  /\ walk \in Seq({<<d, Len(d) + 2>> : d \in Shallow \cup {Root}})
  /\ entered \subseteq Shallow \cup {Root}
  /\ Root \in entered \cup Walked
  /\ \A d \in Shallow : Front(d) \in entered => d \in entered \cup Walked

Numbered == \A i \in 1 .. Len(table) : Len(table[i].node) + 1 < level

TableInv ==
  /\ phase \in {"traverse", "build", "not opened"} => table = <<>> /\ stack = <<>>
  /\ phase \in {"traverse", "build", "not opened", "populate"} => level = 2
  /\ phase # "entries" => entered = {}
  /\ phase = "populate" => IsTable /\ Populates
  /\ phase \in {"sort", "entries", "too many"} => IsTable /\ Sorts /\ stack = <<>>
  /\ phase = "entries" => WalksDown /\ Numbered

Inv == TreeInv /\ TableInv

(* Levels, parents and depths are those of the paths.                      *)
LEMMA DirIs ==
  ASSUME IsPathTree(tree), NEW d \in Dirs(tree) \ {Root}
  PROVE  /\ d \in Nodes(tree) /\ d \in Paths /\ d # <<>> /\ Len(d) \in Nat \ {0}
         /\ Level(tree)[d] = Len(d) + 1
         /\ Parent(tree, d) = Front(d) /\ Front(d) \in Dirs(tree)
         /\ Len(Front(d)) = Len(d) - 1 /\ Front(d) \in Paths
         /\ Front(d) = Root <=> Len(d) = 1
         /\ d \in Shallow /\ Front(d) # Root => Front(d) \in Shallow
<1>1. d \in Nodes(tree) /\ d \in Paths /\ d # <<>>
  BY RootIs DEF IsPathTree, Nodes
<1>2. /\ Len(d) \in Nat \ {0} /\ Front(d) \in Paths /\ Len(Front(d)) = Len(d) - 1
      /\ Level(tree)[d] = Len(d) + 1 /\ Parent(tree, d) = Front(d) /\ Front(d) \in Dirs(tree)
  BY <1>1, PathIs, LevelIs, ParentIs
<1>3. Front(d) = Root <=> Len(d) = 1
  <2>1. Front(d) = Root => Len(d) - 1 = 0
    BY <1>2, RootIs
  <2>2. Len(Front(d)) = 0 => Front(d) = <<>>
    BY <1>2, EmptySeq DEF Paths
  <2>3. Len(d) = 1 <=> Len(d) - 1 = 0
    BY <1>2
  <2> QED  BY <1>2, <2>1, <2>2, <2>3, RootIs
<1>4. d \in Shallow /\ Front(d) # Root => Front(d) \in Shallow
  <2>1. MaxDirLevel \in Nat
    BY LimitsAssumption
  <2>2. Len(d) + 1 <= MaxDirLevel => (Len(d) - 1) + 1 <= MaxDirLevel
    BY <1>2, <2>1
  <2> QED  BY <1>2, <2>2 DEF Shallow
<1> QED
  BY <1>1, <1>2, <1>3, <1>4

(* The rows of the table.                                                  *)
LEMMA RowsAre ==
  ASSUME IsTable
  PROVE  /\ Len(table) \in Nat /\ DOMAIN table = 1 .. Len(table)
         /\ \A i \in 1 .. Len(table) : /\ table[i] \in [node : Shallow, parent : 0 .. MaxId]
                                       /\ table[i].node \in Shallow /\ table[i].parent \in 0 .. MaxId
                                       /\ table[i].node \in Dirs(tree) \ {Root}
<1>1. table \in Seq([node : Shallow, parent : 0 .. MaxId])
  BY DEF IsTable
<1>2. \A i \in 1 .. Len(table) : table[i] \in [node : Shallow, parent : 0 .. MaxId]
  BY <1>1, ElementOfSeq
<1> QED
  BY <1>1, <1>2 DEF Shallow

LEMMA StartHolds == TreeInv /\ TableInv /\ StartTable => TableInv'
<1> SUFFICES ASSUME TreeInv, TableInv, StartTable PROVE TableInv'
  OBVIOUS
<1>1. /\ phase = "build" /\ phase' = "populate" /\ stack' = SubDirs(tree, Root) /\ tree' = tree
      /\ table' = table /\ level' = level /\ entered' = entered
  BY DEF StartTable
<1>2. table = <<>> /\ level = 2 /\ entered = {} /\ IsPathTree(tree) /\ Root \in Dirs(tree)
  BY <1>1 DEF TreeInv, TableInv, IsPathTree
<1>3. IsTable' /\ Listed' = {}
  <2>1. <<>> \in Seq([node : Shallow', parent : 0 .. MaxId]) /\ Len(<<>>) = 0
    OBVIOUS
  <2> QED  BY <1>1, <1>2, <2>1 DEF IsTable, Listed
<1>4. Populates'
  <2>1. /\ stack' \in Seq(Dirs(tree) \ {Root}) /\ Once(stack')
        /\ \A i \in 1 .. Len(stack') : Front(stack'[i]) = Root
        /\ \A n \in Dirs(tree) \ {Root} : Front(n) = Root => \E i \in 1 .. Len(stack') : stack'[i] = n
    <3> DEFINE q == SubDirs(tree, Root)
    <3>1. /\ q \in Seq(Dirs(tree) \ {Root}) /\ Once(q)
          /\ \A i \in 1 .. Len(q) : Front(q[i]) = Root
          /\ \A n \in Dirs(tree) \ {Root} : Front(n) = Root => \E i \in 1 .. Len(q) : q[i] = n
      <4>1. Once(q) <=> \A i, j \in 1 .. Len(q) : q[i] = q[j] => i = j
        BY DEF Once
      <4> QED  BY <1>2, <4>1, SubDirsAre
    <3>2. stack' = q
      BY <1>1
    <3> HIDE DEF q
    <3> QED  BY <3>1, <3>2
  <2>2. /\ \A n \in Members(stack') : Front(n) = Root
        /\ \A n \in Dirs(tree) \ {Root} : Front(n) = Root => n \in Members(stack')
    BY <2>1 DEF Members
  <2>3. Shallow' = Shallow /\ Shallow \subseteq Dirs(tree) \ {Root}
    BY <1>1 DEF Shallow
  <2> QED  BY <1>1, <1>3, <2>1, <2>2, <2>3 DEF Populates
<1> QED
  BY <1>1, <1>2, <1>3, <1>4 DEF TableInv

LEMMA PopulateHolds == TreeInv /\ TableInv /\ Populate => TableInv'
<1> SUFFICES ASSUME TreeInv, TableInv, Populate PROVE TableInv'
  OBVIOUS
<1> DEFINE node == Last(stack)
<1>1. /\ phase = "populate" /\ stack # <<>> /\ phase' = phase /\ tree' = tree /\ level' = level /\ entered' = entered
      /\ IF Level(tree)[node] > MaxDirLevel
         THEN stack' = Front(stack) /\ table' = table
         ELSE /\ stack' = Front(stack) \o SubDirs(tree, node)
              /\ table' = Append(table, [node |-> node, parent |-> 0])
  BY DEF Populate, treeVars
<1>2. IsTable /\ Populates /\ level = 2 /\ entered = {} /\ IsPathTree(tree)
  BY <1>1 DEF TreeInv, TableInv
<1> DEFINE rest == Front(stack)
           new  == SubDirs(tree, node)
<1>3. /\ stack \in Seq(Dirs(tree) \ {Root}) /\ rest \in Seq(Dirs(tree) \ {Root}) /\ node \in Dirs(tree) \ {Root}
      /\ Members(stack) = Members(rest) \cup {node} /\ Once(rest) /\ node \notin Members(rest)
  <2>1. stack \in Seq(Dirs(tree) \ {Root}) /\ Once(stack) /\ <<>> \in Seq(Dirs(tree) \ {Root})
    BY <1>2 DEF Populates
  <2> QED  BY <1>1, <2>1, PopPush
<1>4. /\ Level(tree)[node] = Len(node) + 1 /\ Len(node) \in Nat
      /\ MaxDirLevel \in Nat /\ MaxId \in Nat \ {0}
  BY <1>2, <1>3, DirIs, LimitsAssumption
<1>5. Shallow' = Shallow /\ \A d \in Shallow : d \in Dirs(tree) \ {Root}
  BY <1>1 DEF Shallow
<1>6. /\ Listed \cap Members(stack) = {}
      /\ \A n \in Listed \cup Members(stack) : Front(n) # Root => Front(n) \in Listed
      /\ \A d \in Shallow : Front(d) \in Listed \cup {Root} => d \in Listed \cup Members(stack)
  BY <1>2 DEF Populates
<1>7. CASE Level(tree)[node] > MaxDirLevel
  <2>1. stack' = rest /\ table' = table /\ Listed' = Listed /\ IsTable'
    BY <1>1, <1>2, <1>5, <1>7 DEF Listed, IsTable
  <2>2. node \notin Shallow
    BY <1>4, <1>7 DEF Shallow
  <2>3. Members(stack') = Members(rest)
    BY <2>1
  <2> HIDE DEF rest, node
  <2>4. Populates'
    BY <1>1, <1>3, <1>5, <1>6, <2>1, <2>2, <2>3 DEF Populates
  <2> QED  BY <1>1, <1>2, <2>1, <2>4 DEF TableInv
<1>8. CASE ~(Level(tree)[node] > MaxDirLevel)
  <2>1. /\ stack' = rest \o new /\ table' = Append(table, [node |-> node, parent |-> 0])
    BY <1>1, <1>8
  <2>2. node \in Shallow
    BY <1>3, <1>4, <1>8 DEF Shallow
  <2>3. node \notin Listed
    BY <1>3, <1>6
  <2>4. IsTable' /\ Listed' = Listed \cup {node}
    <3> DEFINE row == [node |-> node, parent |-> 0]
    <3>1. row \in [node : Shallow, parent : 0 .. MaxId] /\ row.node = node
      BY <1>4, <2>2
    <3> HIDE DEF row, node
    <3>2. /\ table \in Seq([node : Shallow, parent : 0 .. MaxId]) /\ Len(table) \in Nat
          /\ \A i, j \in 1 .. Len(table) : table[i].node = table[j].node => i = j
      BY <1>2, RowsAre DEF IsTable
    <3>3. /\ table' \in Seq([node : Shallow, parent : 0 .. MaxId]) /\ Len(table') = Len(table) + 1
          /\ table'[Len(table) + 1] = row /\ \A i \in 1 .. Len(table) : table'[i] = table[i]
      BY <2>1, <3>1, <3>2, AppendProperties DEF row
    <3>4. /\ \A i \in 1 .. Len(table') : i \in 1 .. Len(table) \/ i = Len(table) + 1
          /\ \A i \in 1 .. Len(table) : i \in 1 .. Len(table')
          /\ Len(table) + 1 \in 1 .. Len(table')
      BY <3>2, <3>3
    <3>5. \A i \in 1 .. Len(table) : table[i].node # node
      BY <2>3 DEF Listed
    <3>6. IsTable'
      BY <1>5, <3>1, <3>2, <3>3, <3>4, <3>5 DEF IsTable
    <3>7. \A i \in 1 .. Len(table') : table'[i].node \in Listed \cup {node}
      BY <3>1, <3>3, <3>4 DEF Listed
    <3>8. \A i \in 1 .. Len(table) : table[i].node \in Listed'
      BY <3>3, <3>4 DEF Listed
    <3>9. node \in Listed'
      BY <3>1, <3>3, <3>4 DEF Listed
    <3>10. Listed' \subseteq Listed \cup {node}
      BY <3>7 DEF Listed
    <3>11. Listed \subseteq Listed'
      BY <3>8 DEF Listed
    <3> QED  BY <3>6, <3>9, <3>10, <3>11
  <2>5. /\ new \in Seq(Dirs(tree) \ {Root}) /\ Once(new)
        /\ \A n \in Members(new) : Front(n) = node
        /\ \A n \in Dirs(tree) \ {Root} : Front(n) = node => n \in Members(new)
    <3>1. Once(new) <=> \A i, j \in 1 .. Len(new) : new[i] = new[j] => i = j
      BY DEF Once
    <3>2. \A n : n \in Members(new) <=> \E i \in 1 .. Len(new) : new[i] = n
      BY DEF Members
    <3>3. /\ new \in Seq(Dirs(tree) \ {Root})
          /\ \A i \in 1 .. Len(new) : Front(new[i]) = node
          /\ \A n \in Dirs(tree) \ {Root} : Front(n) = node => \E i \in 1 .. Len(new) : new[i] = n
          /\ \A i, j \in 1 .. Len(new) : new[i] = new[j] => i = j
      <4> HIDE DEF node
      <4> QED  BY <1>2, <1>3, SubDirsAre
    <3> HIDE DEF new, node
    <3> QED  BY <3>1, <3>2, <3>3
  <2> HIDE DEF new, node
  <2>6. \A n \in Members(new) : n \notin Listed \cup Members(stack)
    <3>1. node # Root /\ node \notin Listed
      BY <1>3, <2>3
    <3> QED  BY <1>6, <2>5, <3>1
  <2>7. /\ stack' \in Seq(Dirs(tree) \ {Root}) /\ Once(stack')
        /\ Members(stack') = Members(rest) \cup Members(new)
    <3>1. Members(rest) \cap Members(new) = {}
      BY <1>3, <2>6
    <3>2. Once(stack)
      BY <1>2 DEF Populates
    <3>3. /\ rest \o new \in Seq(Dirs(tree) \ {Root})
          /\ Members(rest \o new) = Members(rest) \cup Members(new)
          /\ Once(rest \o new)
      <4>1. stack \in Seq(Dirs(tree) \ {Root}) /\ stack # <<>> /\ new \in Seq(Dirs(tree) \ {Root})
        BY <1>1, <1>3, <2>5
      <4>2. Once(new)
        BY <2>5
      <4> QED  BY <3>1, <3>2, <4>1, <4>2, PopPush
    <3> HIDE DEF rest
    <3> QED  BY <2>1, <3>3
  <2> HIDE DEF rest
  <2>8. node \notin Members(new)
    BY <1>3, <2>6
  <2>9. \A n \in Listed' \cup Members(stack') : Front(n) # Root => Front(n) \in Listed'
    BY <1>3, <1>6, <2>4, <2>5, <2>7
  <2>10. \A d \in Shallow : Front(d) \in Listed' \cup {Root} => d \in Listed' \cup Members(stack')
    BY <1>3, <1>5, <1>6, <2>4, <2>5, <2>7
  <2>11. Listed' \cap Members(stack') = {}
    BY <1>3, <1>6, <2>4, <2>6, <2>7, <2>8
  <2>12. Populates'
    <3>1. Populates' <=> /\ stack' \in Seq(Dirs(tree) \ {Root}) /\ Once(stack')
                         /\ Listed' \cap Members(stack') = {}
                         /\ \A n \in Listed' \cup Members(stack') : Front(n) # Root => Front(n) \in Listed'
                         /\ \A d \in Shallow : Front(d) \in Listed' \cup {Root} => d \in Listed' \cup Members(stack')
      BY <1>1, <1>5 DEF Populates
    <3> QED  BY <2>7, <2>9, <2>10, <2>11, <3>1
  <2> QED  BY <1>1, <1>2, <2>4, <2>12 DEF TableInv
<1> QED
  BY <1>7, <1>8

(* When the stack is empty every directory is listed that is not too deep. *)
LEMMA ListedAll ==
  ASSUME TreeInv, IsTable, Populates, stack = <<>>
  PROVE  Listed = Shallow
<1>1. IsPathTree(tree) /\ Members(stack) = {}
  BY DEF TreeInv, Members
<1>2. Listed \subseteq Shallow
  BY RowsAre DEF Listed
<1>3. ASSUME NEW d \in Shallow
      PROVE  d \in Listed
  <2>1. Len(d) \in Nat \ {0}
    BY <1>1, DirIs DEF Shallow
  <2> DEFINE T == {k \in 0 .. Len(d) : \A e \in Shallow : Len(e) = k => e \in Listed}
  <2>2. 0 \in T
    BY <1>1, <2>1, DirIs DEF Shallow
  <2>3. \A k \in 0 .. Len(d) - 1 : k \in T => k + 1 \in T
    <3> TAKE k \in 0 .. Len(d) - 1
    <3> HAVE k \in T
    <3>1. k \in Nat /\ k + 1 \in 0 .. Len(d)
      BY <2>1
    <3>2. ASSUME NEW e \in Shallow, Len(e) = k + 1
          PROVE  e \in Listed
      <4>1. /\ Len(Front(e)) = Len(e) - 1
            /\ Front(e) # Root => Front(e) \in Shallow
        BY <1>1, DirIs DEF Shallow
      <4>2. Len(Front(e)) = k
        BY <3>1, <3>2, <4>1
      <4>3. Front(e) \in Listed \cup {Root}
        BY <4>1, <4>2
      <4> QED  BY <1>1, <4>3 DEF Populates
    <3> QED  BY <3>1, <3>2
  <2>4. 0 .. Len(d) \subseteq T
    <3> HIDE DEF T
    <3> QED  BY <2>1, <2>2, <2>3, UpTo
  <2>5. Len(d) \in T
    <3>1. Len(d) \in 0 .. Len(d)
      BY <2>1
    <3> QED  BY <2>4, <3>1
  <2> QED  BY <2>5
<1> QED
  BY <1>2, <1>3

LEMMA SortByLevelHolds == TreeInv /\ TableInv /\ SortByLevel => TableInv'
<1> SUFFICES ASSUME TreeInv, TableInv, SortByLevel PROVE TableInv'
  OBVIOUS
<1>1. /\ phase = "populate" /\ stack = <<>> /\ phase' = "sort" /\ stack' = stack /\ level' = level
      /\ entered' = entered /\ tree' = tree
      /\ \A i, j \in DOMAIN table : i < j => Level(tree)[table'[i].node] <= Level(tree)[table'[j].node]
  BY DEF SortByLevel
<1>2. PICK order \in [DOMAIN table -> DOMAIN table] :
        IsInjective(order) /\ table' = [i \in DOMAIN table |-> table[order[i]]]
  BY DEF SortByLevel
<1>3. IsTable /\ Populates /\ level = 2 /\ entered = {} /\ IsPathTree(tree)
  BY <1>1 DEF TreeInv, TableInv
<1>4. /\ Len(table) \in Nat /\ DOMAIN table = 1 .. Len(table)
      /\ \A i \in 1 .. Len(table) : /\ table[i] \in [node : Shallow, parent : 0 .. MaxId]
                                    /\ table[i].node \in Dirs(tree) \ {Root}
  BY <1>3, RowsAre
<1> DEFINE n == Len(table)
<1>5. /\ order \in [1 .. n -> 1 .. n] /\ \A i, j \in 1 .. n : order[i] = order[j] => i = j
  BY <1>2, <1>4 DEF IsInjective
<1>6. \A k \in 1 .. n : \E i \in 1 .. n : order[i] = k
  <2>1. IsFiniteSet(1 .. n) /\ Cardinality(1 .. n) = n
    <3>1. n \in Int /\ 1 \in Int /\ (IF 1 > n THEN 0 ELSE n - 1 + 1) = n
      BY <1>4
    <3> HIDE DEF n
    <3> QED  BY <3>1, FS_Interval
  <2>2. order \in Injection(1 .. n, 1 .. n)
    BY <1>5 DEF Injection, IsInjective
  <2>3. order \in Surjection(1 .. n, 1 .. n)
    BY <2>1, <2>2, FS_Injection
  <2> QED  BY <2>3 DEF Surjection
<1>7. /\ table' \in Seq([node : Shallow, parent : 0 .. MaxId]) /\ Len(table') = n
      /\ \A i \in 1 .. n : table'[i] = table[order[i]]
  <2>1. table' = [i \in 1 .. n |-> table[order[i]]]
    BY <1>2, <1>4
  <2>2. table' \in [1 .. n -> [node : Shallow, parent : 0 .. MaxId]]
    BY <1>4, <1>5, <2>1
  <2> QED  BY <1>4, <2>1, <2>2
<1>8. Shallow' = Shallow
  BY <1>1 DEF Shallow
<1>9. IsTable'
  <2>1. \A i, j \in 1 .. n : table'[i].node = table'[j].node => i = j
    <3>1. \A i, j \in 1 .. n : table[i].node = table[j].node => i = j
      BY <1>3 DEF IsTable
    <3> HIDE DEF n
    <3> SUFFICES ASSUME NEW i \in 1 .. n, NEW j \in 1 .. n, table'[i].node = table'[j].node PROVE i = j
      OBVIOUS
    <3>2. order[i] \in 1 .. n /\ order[j] \in 1 .. n /\ table[order[i]].node = table[order[j]].node
      BY <1>5, <1>7
    <3> QED  BY <1>5, <3>1, <3>2
  <2> HIDE DEF n
  <2> QED  BY <1>7, <1>8, <2>1 DEF IsTable
<1>10. Listed' = Listed
  <2>1. \A i \in 1 .. n : table'[i].node \in Listed
    BY <1>5, <1>7 DEF Listed
  <2>2. \A k \in 1 .. n : table[k].node \in Listed'
    <3> TAKE k \in 1 .. n
    <3>1. PICK i \in 1 .. n : order[i] = k
      BY <1>6
    <3> QED  BY <1>7, <3>1 DEF Listed
  <2>3. Listed' \subseteq Listed
    BY <1>7, <2>1 DEF Listed
  <2>4. Listed \subseteq Listed'
    BY <2>2 DEF Listed
  <2> QED  BY <2>3, <2>4
<1>11. \A i \in 1 .. n : Level(tree)[table'[i].node] = Len(table'[i].node) + 1 /\ Len(table'[i].node) \in Nat \ {0}
  <2> TAKE i \in 1 .. n
  <2>1. table'[i].node \in Dirs(tree) \ {Root}
    BY <1>4, <1>5, <1>7
  <2> QED  BY <1>3, <2>1, DirIs
<1>12. \A i, j \in 1 .. n : i < j => Len(table'[i].node) <= Len(table'[j].node)
  <2> SUFFICES ASSUME NEW i \in 1 .. n, NEW j \in 1 .. n, i < j
               PROVE  Len(table'[i].node) <= Len(table'[j].node)
    OBVIOUS
  <2>1. Level(tree)[table'[i].node] <= Level(tree)[table'[j].node]
    BY <1>1, <1>4
  <2> QED  BY <1>11, <2>1
<1>13. \A i \in 1 .. n : ~(Len(table'[i].node) + 1 < 2)
  BY <1>11
<1>14. Listed' = Shallow'
  BY <1>1, <1>3, <1>8, <1>10, ListedAll
<1>15. Sorts'
  <2> HIDE DEF n
  <2> QED  BY <1>1, <1>3, <1>7, <1>12, <1>13, <1>14 DEF Sorts
<1> QED
  BY <1>1, <1>3, <1>9, <1>15 DEF TableInv

(* The directories of one level stand together.                            *)
LEMMA LevelIsInterval ==
  ASSUME TreeInv, IsTable, Sorts
  PROVE  LET first == Cardinality({i \in DOMAIN table : Level(tree)[table[i].node] < level})
             last  == Cardinality({i \in DOMAIN table : Level(tree)[table[i].node] <= level})
         IN  /\ first \in Nat /\ last \in Nat /\ first <= last /\ last <= Len(table)
             /\ OfLevel = first + 1 .. last
             /\ \A i \in 1 .. Len(table) : /\ i <= first <=> Len(table[i].node) + 1 < level
                                           /\ i \in OfLevel <=> Len(table[i].node) + 1 = level
<1> DEFINE n  == Len(table)
           v(i) == Len(table[i].node) + 1
           A  == {i \in DOMAIN table : Level(tree)[table[i].node] < level}
           B  == {i \in DOMAIN table : Level(tree)[table[i].node] <= level}
           first == Cardinality(A)
           last  == Cardinality(B)
<1>1. /\ n \in Nat /\ DOMAIN table = 1 .. n
      /\ \A i \in 1 .. n : table[i].node \in Dirs(tree) \ {Root}
      /\ IsPathTree(tree) /\ level \in Nat
  BY RowsAre DEF TreeInv, Sorts
<1>2. \A i \in 1 .. n : Level(tree)[table[i].node] = v(i) /\ v(i) \in Nat
  BY <1>1, DirIs
<1>3. \A i, j \in 1 .. n : i < j => v(i) <= v(j)
  <2> SUFFICES ASSUME NEW i \in 1 .. n, NEW j \in 1 .. n, i < j PROVE v(i) <= v(j)
    OBVIOUS
  <2>1. Len(table[i].node) <= Len(table[j].node)
    BY DEF Sorts
  <2>2. Len(table[i].node) \in Nat /\ Len(table[j].node) \in Nat
    BY <1>1, DirIs
  <2> QED  BY <2>1, <2>2
<1>4. A = {i \in 1 .. n : v(i) < level} /\ B = {i \in 1 .. n : v(i) <= level} /\ OfLevel = {i \in 1 .. n : v(i) = level}
  BY <1>1, <1>2 DEF OfLevel
<1> HIDE DEF A, B, v, n
<1>5. first \in 0 .. n /\ A = 1 .. first
  <2>1. A \in SUBSET (1 .. n) /\ \A i \in A : \A j \in 1 .. n : j < i => j \in A
    BY <1>1, <1>2, <1>3, <1>4
  <2> QED  BY <1>1, <2>1, DownSetIs
<1>6. last \in 0 .. n /\ B = 1 .. last
  <2>1. B \in SUBSET (1 .. n) /\ \A i \in B : \A j \in 1 .. n : j < i => j \in B
    BY <1>1, <1>2, <1>3, <1>4
  <2> QED  BY <1>1, <2>1, DownSetIs
<1> HIDE DEF first, last
<1>7. first <= last
  <2>1. A \subseteq B
    BY <1>1, <1>2, <1>4
  <2>2. first = 0 \/ first \in A
    BY <1>5
  <2> QED  BY <1>5, <1>6, <2>1, <2>2
<1>8. \A i \in 1 .. n : /\ i <= first <=> v(i) < level
                        /\ i <= last <=> v(i) <= level
  <2> TAKE i \in 1 .. n
  <2>1. i <= first <=> i \in A
    BY <1>5
  <2>2. i <= last <=> i \in B
    BY <1>6
  <2> QED  BY <1>4, <2>1, <2>2
<1>9. OfLevel = first + 1 .. last
  <2>1. \A i \in 1 .. n : v(i) = level <=> v(i) <= level /\ ~(v(i) < level)
    BY <1>1, <1>2
  <2>2. \A i \in 1 .. n : i \in first + 1 .. last <=> i <= last /\ ~(i <= first)
    BY <1>1, <1>5, <1>6
  <2>3. \A i \in first + 1 .. last : i \in 1 .. n
    BY <1>1, <1>5, <1>6
  <2> QED  BY <1>4, <1>8, <2>1, <2>2, <2>3
<1>10. /\ first \in Nat /\ last \in Nat /\ first <= last /\ last <= n
       /\ \A i \in 1 .. n : i \in OfLevel <=> v(i) = level
  BY <1>1, <1>4, <1>5, <1>6, <1>7
<1> QED
  BY <1>8, <1>9, <1>10 DEF first, last, A, B, n, v

(* The row of a directory of the level that is sorted.                     *)
NewRow(d) == [node |-> d, parent |-> IF level = 2 THEN 1 ELSE ParentNumber(Parent(tree, d))]

(* Sorting a level puts its directories into new places among themselves,  *)
(* with their numbers.                                                     *)
LEMMA LevelIsSorted ==
  ASSUME TreeInv, IsTable, Sorts, SortLevel
  PROVE  /\ table' = [i \in 1 .. Len(table) |-> table'[i]]
         /\ \A i \in 1 .. Len(table) : i \notin OfLevel => table'[i] = table[i]
         /\ \A i \in OfLevel : \E k \in OfLevel : table'[i] = NewRow(table[k].node)
         /\ \A k \in OfLevel : \E i \in OfLevel : table'[i] = NewRow(table[k].node)
         /\ \A i, j \in OfLevel : table'[i] = table'[j] => i = j
<1> DEFINE n == Len(table)
           first == Cardinality({i \in DOMAIN table : Level(tree)[table[i].node] < level})
           last  == Cardinality({i \in DOMAIN table : Level(tree)[table[i].node] <= level})
           m == last - first
           row(i) == NewRow(table[i].node)
           entries == {row(i) : i \in OfLevel}
<1>1. /\ n \in Nat /\ DOMAIN table = 1 .. n
      /\ \A i, j \in 1 .. n : table[i].node = table[j].node => i = j
  BY RowsAre DEF IsTable
<1>2. first \in Nat /\ last \in Nat /\ first <= last /\ last <= n /\ OfLevel = first + 1 .. last
  BY LevelIsInterval
<1>3. PICK order \in SortedOrders(entries) :
        table' = [i \in DOMAIN table |-> IF i \in OfLevel THEN order[i - first] ELSE table[i]]
  BY DEF SortLevel, NewRow
<1> HIDE DEF first, last
<1>4. m \in Nat /\ (\A i \in OfLevel : i \in 1 .. n /\ i - first \in 1 .. m /\ first + (i - first) = i)
      /\ \A k \in 1 .. m : first + k \in OfLevel /\ (first + k) - first = k
  BY <1>2
<1>5. \A i, j \in OfLevel : row(i) = row(j) => i = j
  <2> SUFFICES ASSUME NEW i \in OfLevel, NEW j \in OfLevel, row(i) = row(j) PROVE i = j
    OBVIOUS
  <2>1. row(i).node = table[i].node /\ row(j).node = table[j].node
    BY DEF NewRow
  <2> QED  BY <1>1, <1>4, <2>1
<1> HIDE DEF m, n, row
<1>6. Cardinality(entries) = m /\ IsFiniteSet(entries)
  <2> DEFINE b == [k \in 1 .. m |-> row(first + k)]
  <2>1. b \in [1 .. m -> entries]
    BY <1>4
  <2>2. \A k, l \in 1 .. m : b[k] = b[l] => k = l
    <3> SUFFICES ASSUME NEW k \in 1 .. m, NEW l \in 1 .. m, b[k] = b[l] PROVE k = l
      OBVIOUS
    <3>1. first + k = first + l
      BY <1>4, <1>5
    <3> QED  BY <1>2, <3>1
  <2>3. \A x \in entries : \E k \in 1 .. m : b[k] = x
    <3> SUFFICES ASSUME NEW i \in OfLevel PROVE \E k \in 1 .. m : b[k] = row(i)
      OBVIOUS
    <3>1. i - first \in 1 .. m /\ first + (i - first) = i
      BY <1>4
    <3>2. b[i - first] = row(i)
      BY <3>1
    <3> QED  BY <3>1, <3>2
  <2> HIDE DEF entries, b
  <2>4. b \in Bijection(1 .. m, entries)
    BY <2>1, <2>2, <2>3 DEF Bijection, Injection, Surjection, IsInjective
  <2>5. ExistsBijection(1 .. m, entries)
    BY <2>4 DEF ExistsBijection
  <2> QED  BY <1>4, <2>5, FS_CountingElements, FS_NatBijection
<1>7. /\ order \in [1 .. m -> entries] /\ \A k, l \in 1 .. m : order[k] = order[l] => k = l
      /\ \A x \in entries : \E k \in 1 .. m : order[k] = x
  <2> HIDE DEF entries
  <2>1. /\ order \in [1 .. m -> entries]
        /\ \A k, l \in DOMAIN order : k < l => order[k] # order[l]
    BY <1>6 DEF SortedOrders
  <2>2. \A k, l \in 1 .. m : k < l => order[k] # order[l]
    BY <2>1
  <2>3. \A k, l \in 1 .. m : order[k] = order[l] => k = l
    <3> SUFFICES ASSUME NEW k \in 1 .. m, NEW l \in 1 .. m, k # l PROVE order[k] # order[l]
      OBVIOUS
    <3>1. k < l \/ l < k
      OBVIOUS
    <3> QED  BY <2>2, <3>1
  <2>4. order \in Injection(1 .. m, entries)
    BY <2>1, <2>3 DEF Injection, IsInjective
  <2>5. Cardinality(1 .. m) = m
    <3>1. m \in Int /\ 1 \in Int /\ (IF 1 > m THEN 0 ELSE m - 1 + 1) = m
      BY <1>4
    <3> QED  BY <3>1, FS_Interval
  <2>6. order \in Surjection(1 .. m, entries)
    BY <1>6, <2>4, <2>5, FS_Injection
  <2> QED  BY <2>1, <2>3, <2>6 DEF Surjection
<1>8. table' = [i \in 1 .. n |-> IF i \in OfLevel THEN order[i - first] ELSE table[i]]
  BY <1>1, <1>3
<1>9. /\ \A i \in OfLevel : table'[i] = order[i - first]
      /\ \A i \in 1 .. n : i \notin OfLevel => table'[i] = table[i]
  BY <1>4, <1>8
<1>10. table' = [i \in 1 .. n |-> table'[i]]
  BY <1>8
<1>11. \A i \in OfLevel : \E k \in OfLevel : table'[i] = row(k)
  <2> TAKE i \in OfLevel
  <2>1. order[i - first] \in entries
    <3> HIDE DEF entries
    <3> QED  BY <1>4, <1>7
  <2> QED  BY <1>9, <2>1
<1>12. \A k \in OfLevel : \E i \in OfLevel : table'[i] = row(k)
  <2> TAKE k \in OfLevel
  <2>1. row(k) \in entries
    OBVIOUS
  <2>2. PICK l \in 1 .. m : order[l] = row(k)
    <3> HIDE DEF entries
    <3> QED  BY <1>7, <2>1
  <2>3. first + l \in OfLevel /\ table'[first + l] = row(k)
    BY <1>4, <1>9, <2>2
  <2> QED  BY <2>3
<1>13. \A i, j \in OfLevel : table'[i] = table'[j] => i = j
  <2> SUFFICES ASSUME NEW i \in OfLevel, NEW j \in OfLevel, table'[i] = table'[j] PROVE i = j
    OBVIOUS
  <2>1. i - first = j - first
    <3> HIDE DEF entries
    <3> QED  BY <1>4, <1>7, <1>9
  <2>2. first + (i - first) = i /\ first + (j - first) = j
    BY <1>4
  <2> QED  BY <2>1, <2>2
<1> QED
  BY <1>9, <1>10, <1>11, <1>12, <1>13 DEF n, row

(* The number of a parent is its place, after the root.                    *)
LEMMA NumberIs ==
  ASSUME IsTable, NEW p \in 1 .. Len(table), p + 1 <= MaxId
  PROVE  Position(table[p].node) = p /\ ParentNumber(table[p].node) = p + 1
<1>1. /\ Len(table) \in Nat /\ DOMAIN table = 1 .. Len(table)
      /\ \A i, j \in 1 .. Len(table) : table[i].node = table[j].node => i = j
  BY RowsAre DEF IsTable
<1>2. Position(table[p].node) = p
  BY <1>1 DEF Position
<1>3. MaxId + 1 \in Nat \ {0} /\ p + 1 \in 0 .. (MaxId + 1) - 1 /\ p + 1 \in Nat
  BY <1>1, LimitsAssumption
<1>4. (p + 1) % (MaxId + 1) = p + 1
  <2> DEFINE N == MaxId + 1
             x == p + 1
  <2>1. N \in Nat \ {0} /\ x \in 0 .. N - 1
    BY <1>3
  <2> HIDE DEF N, x
  <2>2. x % N = x
    BY <2>1
  <2> QED  BY <2>2 DEF N, x
<1> QED
  BY <1>2, <1>4 DEF ParentNumber

LEMMA SortLevelHolds == TreeInv /\ TableInv /\ SortLevel => TableInv'
<1> SUFFICES ASSUME TreeInv, TableInv, SortLevel PROVE TableInv'
  OBVIOUS
<1>1. /\ phase = "sort" /\ phase' = phase /\ stack' = stack /\ level' = level + 1 /\ entered' = entered
      /\ tree' = tree /\ (level = 2 \/ ~TooMany)
  BY DEF SortLevel, treeVars
<1>2. IsTable /\ Sorts /\ stack = <<>> /\ entered = {} /\ IsPathTree(tree)
  BY <1>1 DEF TreeInv, TableInv
<1> DEFINE n == Len(table)
           first == Cardinality({i \in DOMAIN table : Level(tree)[table[i].node] < level})
<1>3. /\ table' = [i \in 1 .. n |-> table'[i]]
      /\ \A i \in 1 .. n : i \notin OfLevel => table'[i] = table[i]
      /\ \A i \in OfLevel : \E k \in OfLevel : table'[i] = NewRow(table[k].node)
      /\ \A k \in OfLevel : \E i \in OfLevel : table'[i] = NewRow(table[k].node)
      /\ \A i, j \in OfLevel : table'[i] = table'[j] => i = j
  BY <1>2, LevelIsSorted
<1>4. /\ first \in Nat /\ \A i \in OfLevel : i \in 1 .. n /\ first < i
      /\ \A i \in 1 .. n : /\ i <= first <=> Len(table[i].node) + 1 < level
                           /\ i \in OfLevel <=> Len(table[i].node) + 1 = level
  <2> DEFINE last == Cardinality({i \in DOMAIN table : Level(tree)[table[i].node] <= level})
  <2>1. /\ first \in Nat /\ last \in Nat /\ first <= last /\ last <= n /\ OfLevel = first + 1 .. last
        /\ \A i \in 1 .. n : /\ i <= first <=> Len(table[i].node) + 1 < level
                             /\ i \in OfLevel <=> Len(table[i].node) + 1 = level
    BY <1>2, LevelIsInterval
  <2> HIDE DEF first, last
  <2>2. n \in Nat
    BY <1>2, RowsAre
  <2>3. \A i \in OfLevel : i \in 1 .. n /\ first < i
    <3> HIDE DEF n
    <3> QED  BY <2>1, <2>2
  <2> QED  BY <2>1, <2>3
<1> HIDE DEF first
<1>5. /\ n \in Nat /\ level \in Nat \ {0, 1} /\ Listed = Shallow
      /\ \A i \in 1 .. n : /\ table[i] \in [node : Shallow, parent : 0 .. MaxId]
                           /\ table[i].node \in Shallow /\ table[i].node \in Dirs(tree) \ {Root}
                           /\ Len(table[i].node) \in Nat \ {0}
      /\ \A i, j \in 1 .. n : table[i].node = table[j].node => i = j
      /\ MaxId \in Nat \ {0}
  BY <1>2, RowsAre, DirIs, LimitsAssumption DEF Sorts, IsTable
<1>6. Shallow' = Shallow
  BY <1>1 DEF Shallow
(* What the row of the directory k of the level is.                        *)
<1>7. ASSUME NEW k \in OfLevel
      PROVE  /\ NewRow(table[k].node) \in [node : Shallow, parent : 0 .. MaxId]
             /\ NewRow(table[k].node).node = table[k].node
             /\ IF Len(table[k].node) = 1 THEN NewRow(table[k].node).parent = 1
                ELSE \E j \in 1 .. first : /\ j \in 1 .. n /\ table[j].node = Front(table[k].node)
                                           /\ NewRow(table[k].node).parent = j + 1
  <2> DEFINE d == table[k].node
  <2>1. /\ k \in 1 .. n /\ d \in Shallow /\ d \in Dirs(tree) \ {Root} /\ Len(d) + 1 = level /\ Len(d) \in Nat \ {0}
    BY <1>4, <1>5
  <2>2. /\ Parent(tree, d) = Front(d) /\ Len(Front(d)) = Len(d) - 1
        /\ Front(d) = Root <=> Len(d) = 1
        /\ Front(d) # Root => Front(d) \in Shallow
    BY <1>2, <2>1, DirIs
  <2> HIDE DEF d
  <2>3. CASE level = 2
    <3>1. NewRow(d) = [node |-> d, parent |-> 1] /\ Len(d) = 1 /\ 1 \in 0 .. MaxId
      <4> DEFINE l == Len(d)
      <4>1. l \in Nat /\ l + 1 = 2
        BY <2>1, <2>3
      <4> HIDE DEF l
      <4>2. l = 1 /\ 1 \in 0 .. MaxId
        BY <1>5, <4>1
      <4> QED  BY <2>3, <4>2 DEF NewRow, l
    <3> QED  BY <2>1, <3>1 DEF d
  <2>4. CASE level # 2
    <3>1. Len(d) # 1 /\ Front(d) \in Shallow
      BY <1>5, <2>1, <2>2, <2>4
    <3>2. PICK p \in 1 .. n : table[p].node = Front(d)
      BY <1>5, <3>1 DEF Listed
    <3>3. p <= first
      BY <1>4, <1>5, <2>1, <2>2, <3>2
    <3>4. p < k /\ k <= n
      BY <1>4, <2>1, <3>3
    <3>5. p + 1 <= MaxId
      <4>1. n <= MaxId
        BY <1>1, <1>5, <2>4 DEF TooMany
      <4> QED  BY <1>5, <2>1, <3>4, <4>1
    <3>6. ParentNumber(table[p].node) = p + 1
      <4> HIDE DEF n
      <4> QED  BY <1>2, <3>5, NumberIs DEF n
    <3>7. NewRow(d) = [node |-> d, parent |-> p + 1]
      BY <2>2, <2>4, <3>2, <3>6 DEF NewRow
    <3>8. p + 1 \in 0 .. MaxId /\ p \in 1 .. first
      BY <1>4, <1>5, <3>3, <3>5
    <3> QED  BY <2>1, <3>1, <3>2, <3>7, <3>8 DEF d
  <2> QED  BY <2>3, <2>4
<1> HIDE DEF n
<1>8. ASSUME NEW i \in 1 .. n
      PROVE  /\ table'[i] \in [node : Shallow, parent : 0 .. MaxId] /\ table'[i].node \in Listed
             /\ Len(table'[i].node) = Len(table[i].node)
             /\ i \in OfLevel =>
                  IF Len(table'[i].node) = 1 THEN table'[i].parent = 1
                  ELSE \E j \in 1 .. first : j \in 1 .. n /\ table[j].node = Front(table'[i].node) /\ table'[i].parent = j + 1
  <2>1. CASE i \notin OfLevel
    BY <1>3, <1>5, <2>1
  <2>2. CASE i \in OfLevel
    <3>1. PICK k \in OfLevel : table'[i] = NewRow(table[k].node)
      BY <1>3, <2>2
    <3>2. k \in 1 .. n /\ table'[i].node = table[k].node
      BY <1>4, <1>7, <3>1
    <3>3. Len(table[k].node) + 1 = level /\ Len(table[i].node) + 1 = level
      BY <1>4, <2>2, <3>2
    <3>4. Len(table'[i].node) = Len(table[i].node)
      BY <1>5, <3>2, <3>3
    <3> QED  BY <1>5, <1>7, <3>1, <3>2, <3>4
  <2> QED  BY <2>1, <2>2
<1>9. table' \in Seq([node : Shallow, parent : 0 .. MaxId]) /\ Len(table') = n
  <2>1. table' \in [1 .. n -> [node : Shallow, parent : 0 .. MaxId]]
    BY <1>3, <1>8
  <2>2. n \in Nat
    BY <1>5
  <2> QED  BY <2>1, <2>2, SeqIs
<1>10. \A i, j \in 1 .. n : table'[i].node = table'[j].node => i = j
  <2> SUFFICES ASSUME NEW i \in 1 .. n, NEW j \in 1 .. n, table'[i].node = table'[j].node PROVE i = j
    OBVIOUS
  <2>1. Len(table[i].node) = Len(table[j].node)
    BY <1>8
  <2>2. i \in OfLevel <=> j \in OfLevel
    BY <1>4, <2>1
  <2>3. CASE i \in OfLevel
    <3>1. PICK k \in OfLevel : table'[i] = NewRow(table[k].node)
      BY <1>3, <2>3
    <3>2. PICK l \in OfLevel : table'[j] = NewRow(table[l].node)
      BY <1>3, <2>2, <2>3
    <3>3. table[k].node = table[l].node
      BY <1>7, <3>1, <3>2
    <3>4. table'[i] = table'[j]
      BY <3>1, <3>2, <3>3
    <3> QED  BY <1>3, <2>2, <2>3, <3>4
  <2>4. CASE i \notin OfLevel
    BY <1>3, <1>5, <2>2, <2>4
  <2> QED  BY <2>3, <2>4
<1>11. Listed' = Listed
  <2>1. \A k \in 1 .. n : \E i \in 1 .. n : table'[i].node = table[k].node
    <3> TAKE k \in 1 .. n
    <3>1. CASE k \in OfLevel
      <4>1. PICK i \in OfLevel : table'[i] = NewRow(table[k].node)
        BY <1>3, <3>1
      <4> QED  BY <1>4, <1>7, <3>1, <4>1
    <3>2. CASE k \notin OfLevel
      BY <1>3, <3>2
    <3> QED  BY <3>1, <3>2
  <2>2. Listed' \subseteq Listed
    BY <1>8, <1>9 DEF Listed
  <2>3. Listed \subseteq Listed'
    <3>1. \A k \in 1 .. n : table[k].node \in Listed'
      BY <1>9, <2>1 DEF Listed
    <3> QED  BY <3>1 DEF Listed, n
  <2> QED  BY <2>2, <2>3
<1>12. \A i, j \in 1 .. n : i < j => Len(table'[i].node) <= Len(table'[j].node)
  <2>1. \A i, j \in 1 .. n : i < j => Len(table[i].node) <= Len(table[j].node)
    BY <1>2 DEF Sorts, n
  <2> QED  BY <1>8, <2>1
<1>13. ASSUME NEW i \in 1 .. n, Len(table'[i].node) + 1 < level + 1
       PROVE  IF Len(table'[i].node) = 1 THEN table'[i].parent = 1
              ELSE \E j \in 1 .. i - 1 : table'[j].node = Front(table'[i].node) /\ table'[i].parent = j + 1
  <2>1. Len(table[i].node) + 1 < level \/ Len(table[i].node) + 1 = level
    BY <1>5, <1>8, <1>13
  <2>2. \A j \in 1 .. n : j <= first => table'[j] = table[j]
    BY <1>3, <1>4, <1>5
  <2>3. CASE Len(table[i].node) + 1 = level
    <3>1. i \in OfLevel /\ first < i
      BY <1>4, <2>3
    <3>2. ASSUME NEW j \in 1 .. first, j \in 1 .. n, table[j].node = Front(table'[i].node)
          PROVE  j \in 1 .. i - 1 /\ table'[j].node = Front(table'[i].node)
      <4>1. j <= first
        OBVIOUS
      <4>2. j \in 1 .. i - 1
        BY <1>4, <1>5, <3>1, <4>1
      <4> QED  BY <2>2, <3>2, <4>1, <4>2
    <3> QED  BY <1>8, <3>1, <3>2
  <2>4. CASE Len(table[i].node) + 1 < level
    <3>1. i <= first /\ table'[i] = table[i]
      BY <1>4, <2>2, <2>4
    <3>2. IF Len(table[i].node) = 1 THEN table[i].parent = 1
          ELSE \E j \in 1 .. i - 1 : table[j].node = Front(table[i].node) /\ table[i].parent = j + 1
      BY <1>2, <2>4 DEF Sorts, n
    <3>3. \A j \in 1 .. i - 1 : table'[j] = table[j]
      <4> TAKE j \in 1 .. i - 1
      <4>1. j \in 1 .. n /\ j <= first
        BY <1>4, <1>5, <3>1
      <4> QED  BY <2>2, <4>1
    <3> QED  BY <3>1, <3>2, <3>3
  <2> QED  BY <2>1, <2>3, <2>4
<1>14. IsTable'
  BY <1>6, <1>9, <1>10 DEF IsTable
<1>15. Sorts'
  <2>1. level' \in Nat \ {0, 1}
    BY <1>1, <1>5
  <2> QED  BY <1>1, <1>5, <1>6, <1>9, <1>11, <1>12, <1>13, <2>1 DEF Sorts
<1> QED
  BY <1>1, <1>2, <1>14, <1>15 DEF TableInv

(* No level is left out: when there is none to sort, all are sorted.       *)
LEMMA NoneLeft ==
  ASSUME TreeInv, IsTable, Sorts, OfLevel = {}
  PROVE  Numbered
<1>1. /\ Len(table) \in Nat /\ IsPathTree(tree) /\ level \in Nat \ {0, 1} /\ Listed = Shallow
      /\ \A i \in 1 .. Len(table) : table[i].node \in Shallow
  BY RowsAre DEF TreeInv, Sorts
<1>2. \A d \in Shallow : d \in Dirs(tree) \ {Root}
  BY DEF Shallow
<1> DEFINE L == {k \in Nat : k + 1 >= level /\ \E d \in Shallow : Len(d) = k}
<1>3. \A d \in Shallow : Len(d) + 1 # level
  <2> SUFFICES ASSUME NEW d \in Shallow, Len(d) + 1 = level PROVE FALSE
    OBVIOUS
  <2>1. PICK i \in 1 .. Len(table) : table[i].node = d
    BY <1>1 DEF Listed
  <2>2. i \in OfLevel
    BY <2>1, LevelIsInterval
  <2> QED  BY <2>2
<1>4. L = {}
  <2> SUFFICES ASSUME L # {} PROVE FALSE
    OBVIOUS
  <2> DEFINE k == Min(L)
  <2>1. L \in SUBSET Nat
    OBVIOUS
  <2>2. k \in L /\ \A l \in L : k <= l
    <3> HIDE DEF L
    <3> QED  BY <2>1, MinIsIn
  <2> HIDE DEF k
  <2>3. PICK d \in Shallow : Len(d) = k
    BY <2>2
  <2>4. k \in Nat /\ k + 1 >= level
    BY <2>2
  <2>5. k + 1 # level
    BY <1>3, <2>3
  <2>6. k - 1 \in Nat /\ (k - 1) + 1 >= level /\ k # 1
    BY <1>1, <2>4, <2>5
  <2>7. Front(d) \in Shallow /\ Len(Front(d)) = k - 1
    BY <1>1, <1>2, <2>3, <2>6, DirIs
  <2>8. k - 1 \in L
    BY <2>6, <2>7
  <2> HIDE DEF L
  <2> QED  BY <2>2, <2>4, <2>8
<1>5. ASSUME NEW i \in 1 .. Len(table)
      PROVE  Len(table[i].node) + 1 < level
  <2> DEFINE l == Len(table[i].node)
  <2>1. l \in Nat /\ table[i].node \in Shallow
    BY <1>1, <1>2, DirIs
  <2>2. l \notin L
    BY <1>4
  <2>3. ~(l + 1 >= level)
    BY <2>1, <2>2
  <2> HIDE DEF l
  <2>4. l + 1 < level
    BY <1>1, <2>1, <2>3
  <2> QED  BY <2>4 DEF l
<1> QED
  BY <1>5 DEF Numbered

LEMMA ThrowsHolds == TreeInv /\ TableInv /\ FindParentThrows => TableInv'
<1> SUFFICES ASSUME TreeInv, TableInv, FindParentThrows PROVE TableInv'
  OBVIOUS
<1>1. /\ phase = "sort" /\ phase' = "too many" /\ tree' = tree /\ stack' = stack /\ table' = table
      /\ level' = level /\ entered' = entered
  BY DEF FindParentThrows, tableVars
<1>2. IsTable /\ Sorts /\ stack = <<>> /\ entered = {}
  BY <1>1 DEF TableInv
<1>3. IsTable' /\ Sorts'
  BY <1>1, <1>2 DEF IsTable, Sorts, Listed, Shallow
<1> QED
  BY <1>1, <1>2, <1>3 DEF TableInv

LEMMA StartEntriesHolds == TreeInv /\ TableInv /\ StartEntries => TableInv'
<1> SUFFICES ASSUME TreeInv, TableInv, StartEntries PROVE TableInv'
  OBVIOUS
<1>1. /\ phase = "sort" /\ OfLevel = {} /\ phase' = "entries" /\ walk' = << <<Root, 2>> >>
      /\ tree' = tree /\ stack' = stack /\ table' = table /\ level' = level /\ entered' = entered
  BY DEF StartEntries, RootStack
<1>2. IsTable /\ Sorts /\ stack = <<>> /\ entered = {}
  BY <1>1 DEF TableInv
<1>3. IsTable' /\ Sorts' /\ Numbered'
  BY <1>1, <1>2, NoneLeft DEF IsTable, Sorts, Listed, Shallow, Numbered
<1>4. WalksDown'
  <2>1. <<Root, 2>> \in {<<d, Len(d) + 2>> : d \in Shallow \cup {Root}}
    <3>1. Len(Root) + 2 = 2
      BY RootIs
    <3> QED  BY <3>1
  <2>2. Shallow' = Shallow
    BY <1>1 DEF Shallow
  <2>3. walk' \in Seq({<<d, Len(d) + 2>> : d \in Shallow \cup {Root}})
    <3> DEFINE W == {<<d, Len(d) + 2>> : d \in Shallow \cup {Root}}
               e == <<Root, 2>>
    <3> HIDE DEF W, e
    <3>1. e \in W => <<e>> \in Seq(W)
      OBVIOUS
    <3> QED  BY <1>1, <2>1, <3>1 DEF W, e
  <2>4. Root \in Walked'
    <3>1. Len(walk') = 1 /\ walk'[1][1] = Root
      BY <1>1
    <3> QED  BY <3>1 DEF Walked
  <2> QED  BY <1>1, <1>2, <2>2, <2>3, <2>4 DEF WalksDown
<1> QED
  BY <1>1, <1>2, <1>3, <1>4 DEF TableInv

LEMMA SizeEntriesHolds == TreeInv /\ TableInv /\ SizeEntries => TableInv'
<1> SUFFICES ASSUME TreeInv, TableInv, SizeEntries PROVE TableInv'
  OBVIOUS
<1> DEFINE here == Last(walk)[1]
           W == {<<d, Len(d) + 2>> : d \in Shallow \cup {Root}}
           rest == Front(walk)
<1>1. /\ phase = "entries" /\ walk # <<>> /\ phase' = phase /\ entered' = entered \cup {here}
      /\ walk' = PushDirs(walk, tree, here, Last(walk)[2], MaxDirLevel)
      /\ tree' = tree /\ stack' = stack /\ table' = table /\ level' = level
  BY DEF SizeEntries, treeVars
<1>2. IsTable /\ Sorts /\ stack = <<>> /\ WalksDown /\ Numbered /\ IsPathTree(tree)
  BY <1>1 DEF TreeInv, TableInv
<1>3. IsTable' /\ Sorts' /\ Numbered' /\ Shallow' = Shallow
  BY <1>1, <1>2 DEF IsTable, Sorts, Listed, Shallow, Numbered
<1>4. walk \in Seq(W) /\ <<>> \in Seq(W)
  BY <1>2 DEF WalksDown
<1>5. rest \in Seq(W) /\ Last(walk) \in W /\ Members(walk) = Members(rest) \cup {Last(walk)}
  <2> HIDE DEF W
  <2> QED  BY <1>1, <1>4, PopPush
<1>6. here \in Shallow \cup {Root} /\ Last(walk)[2] = Len(here) + 2
  <2>1. PICK d \in Shallow \cup {Root} : Last(walk) = <<d, Len(d) + 2>>
    BY <1>5
  <2> QED  BY <2>1
<1> HIDE DEF here
<1>7. here \in Dirs(tree) /\ Len(here) \in Nat /\ MaxDirLevel \in Nat
  BY <1>2, <1>6, DirIs, RootIs, LimitsAssumption DEF Shallow, IsPathTree
<1> DEFINE below == SubDirs(tree, here)
           more == [i \in 1 .. Len(below) |-> <<below[i], (Len(here) + 2) + 1>>]
<1>8. walk' = IF Len(here) + 2 > MaxDirLevel THEN rest ELSE rest \o more
  BY <1>1, <1>6 DEF PushDirs
<1>9. /\ Len(below) \in Nat
      /\ \A i \in 1 .. Len(below) : below[i] \in Dirs(tree) \ {Root} /\ Front(below[i]) = here
      /\ \A d \in Dirs(tree) \ {Root} : Front(d) = here => \E i \in 1 .. Len(below) : below[i] = d
  <2>1. below \in Seq(Dirs(tree) \ {Root})
    BY <1>2, <1>7, SubDirsAre
  <2>2. \A i \in 1 .. Len(below) : below[i] \in Dirs(tree) \ {Root}
    <3> HIDE DEF below
    <3> QED  BY <2>1, ElementOfSeq
  <2> QED  BY <1>2, <1>7, <2>2, SubDirsAre
<1> HIDE DEF below, rest
<1>10. \A d \in Dirs(tree) \ {Root} : Front(d) = here => Len(d) = Len(here) + 1
  <2> TAKE d \in Dirs(tree) \ {Root}
  <2> HAVE Front(d) = here
  <2>1. Len(here) = Len(d) - 1 /\ Len(d) \in Nat
    BY <1>2, DirIs
  <2> QED  BY <2>1
<1>11. /\ walk' \in Seq(W)
       /\ \A d \in Shallow : Front(d) = here => \E e \in Members(walk') : e[1] = d
       /\ \A e \in Members(rest) : e \in Members(walk')
  <2>1. CASE Len(here) + 2 > MaxDirLevel
    <3>1. walk' = rest
      BY <1>8, <2>1
    <3>2. \A d \in Shallow : Front(d) # here
      <4> SUFFICES ASSUME NEW d \in Shallow, Front(d) = here PROVE FALSE
        OBVIOUS
      <4>1. Len(d) = Len(here) + 1 /\ Len(d) + 1 <= MaxDirLevel
        BY <1>10 DEF Shallow
      <4> QED  BY <1>7, <2>1, <4>1
    <3> HIDE DEF W
    <3> QED  BY <1>5, <3>1, <3>2
  <2>2. CASE ~(Len(here) + 2 > MaxDirLevel)
    <3>1. walk' = rest \o more
      BY <1>8, <2>2
    <3>2. \A i \in 1 .. Len(below) : more[i] = <<below[i], (Len(here) + 2) + 1>> /\ more[i] \in W
      <4> TAKE i \in 1 .. Len(below)
      <4>1. below[i] \in Dirs(tree) \ {Root} /\ Len(below[i]) = Len(here) + 1
        BY <1>9, <1>10
      <4>2. Len(below[i]) + 1 <= MaxDirLevel /\ (Len(here) + 2) + 1 = Len(below[i]) + 2
        BY <1>7, <2>2, <4>1
      <4>3. below[i] \in Shallow
        BY <4>1, <4>2 DEF Shallow
      <4> QED  BY <4>2, <4>3
    <3>3. more \in Seq(W) /\ Len(more) = Len(below)
      <4>1. more \in [1 .. Len(below) -> W]
        BY <3>2
      <4> HIDE DEF more, W
      <4> QED  BY <1>9, <4>1, SeqIs
    <3> HIDE DEF more, W
    <3>4. walk' \in Seq(W) /\ Members(walk') = Members(rest) \cup Members(more)
      BY <1>1, <1>4, <3>1, <3>3, PopPush DEF rest
    <3>5. ASSUME NEW d \in Shallow, Front(d) = here
          PROVE  \E e \in Members(more) : e[1] = d
      <4>1. PICK i \in 1 .. Len(below) : below[i] = d
        BY <1>9, <3>5 DEF Shallow
      <4>2. more[i] \in Members(more) /\ more[i][1] = d
        BY <3>2, <3>3, <4>1 DEF Members
      <4> QED  BY <4>2
    <3> QED  BY <3>4, <3>5
  <2> QED  BY <2>1, <2>2
<1>12. /\ \A d : d \in Walked <=> \E e \in Members(walk) : e[1] = d
       /\ \A d : d \in Walked' <=> \E e \in Members(walk') : e[1] = d
  BY DEF Walked, Members
<1>13. /\ entered \subseteq Shallow \cup {Root} /\ Root \in entered \cup Walked
       /\ \A d \in Shallow : Front(d) \in entered => d \in entered \cup Walked
  BY <1>2 DEF WalksDown
<1>14. \A d \in Walked : d = here \/ d \in Walked'
  <2> SUFFICES ASSUME NEW d \in Walked, d # here PROVE d \in Walked'
    OBVIOUS
  <2>1. PICK e \in Members(walk) : e[1] = d
    BY <1>12
  <2>2. e \in Members(rest)
    BY <1>5, <2>1 DEF here
  <2> QED  BY <1>11, <1>12, <2>1, <2>2
<1>15. \A d \in Shallow : Front(d) = here => d \in Walked'
  BY <1>11, <1>12
<1>16. WalksDown'
  <2>1. entered' \subseteq Shallow' \cup {Root}
    BY <1>1, <1>3, <1>6, <1>13
  <2>2. Root \in entered' \cup Walked'
    BY <1>1, <1>13, <1>14
  <2>3. \A d \in Shallow' : Front(d) \in entered' => d \in entered' \cup Walked'
    BY <1>1, <1>3, <1>13, <1>14, <1>15
  <2>4. walk' \in Seq({<<d, Len(d) + 2>> : d \in Shallow' \cup {Root}})
    BY <1>3, <1>11
  <2> QED  BY <2>1, <2>2, <2>3, <2>4 DEF WalksDown
<1> QED
  BY <1>1, <1>2, <1>3, <1>16 DEF TableInv

-----------------------------------------------------------------------------
(* The whole of it.                                                        *)

LEMMA BuildHolds == Inv /\ BuildTree => Inv'
<1> SUFFICES ASSUME TreeInv, TableInv, BuildTree PROVE TreeInv' /\ TableInv'
  BY DEF Inv
<1>1. TreeNext /\ stack' = stack /\ table' = table /\ level' = level /\ entered' = entered
  BY DEF BuildTree, tableVars
<1>2. TreeInv'
  BY <1>1, TraverseHolds, CreateHolds, AddHolds DEF TreeNext
<1>3. /\ phase \in {"traverse", "build"}
      /\ phase' \in {"traverse", "build", "not opened", "no parent"}
  BY <1>1 DEF TreeNext, Traverse, CreateFromFileSet, AddFileFromPath
<1>4. phase' # "no parent"
  BY <1>2 DEF TreeInv, Phases
<1>5. TableInv'
  BY <1>1, <1>3, <1>4 DEF TableInv
<1> QED
  BY <1>2, <1>5

(* The table changes nothing of the tree it is made from.                  *)
LEMMA TreeStays ==
  ASSUME TreeInv, UNCHANGED <<disk, fileSet, todo, tree, count>>,
         phase' \in Phases,
         \/ phase' = phase
         \/ /\ phase \notin {"traverse", "not opened"} /\ todo = <<>>
            /\ phase' \notin {"traverse", "not opened"}
  PROVE  TreeInv'
<1>1. /\ disk' = disk /\ fileSet' = fileSet /\ todo' = todo /\ tree' = tree /\ count' = count
  OBVIOUS
<1>2. CASE phase' = phase
  BY <1>1, <1>2 DEF TreeInv, FoldersFirst, Todo, Holds, Added
<1>3. CASE /\ phase \notin {"traverse", "not opened"} /\ todo = <<>>
           /\ phase' \notin {"traverse", "not opened"}
  <2>1. Added' = Added
    BY <1>1, <1>3 DEF Added
  <2>2. Holds(Added)'
    BY <1>1, <1>3, <2>1 DEF TreeInv, Holds
  <2>3. Todo'
    BY <1>1, <1>3 DEF TreeInv, Todo
  <2> QED  BY <1>1, <2>2, <2>3 DEF TreeInv, FoldersFirst
<1> QED
  BY <1>2, <1>3

LEMMA InvStarts == Init => Inv
<1> SUFFICES ASSUME Init PROVE Inv
  OBVIOUS
<1>1. TreeInit /\ stack = <<>> /\ table = <<>> /\ level = 2 /\ entered = {}
  BY DEF Init
<1>2. phase = "traverse"
  BY <1>1 DEF TreeInit
<1> QED
  BY <1>1, <1>2, TreeStarts DEF Inv, TableInv

LEMMA InvSteps == Inv /\ [Next]_vars => Inv'
<1> SUFFICES ASSUME Inv, [Next]_vars PROVE Inv'
  OBVIOUS
<1>1. TreeInv /\ TableInv
  BY DEF Inv
<1>2. phase \notin {"build", "not opened", "traverse"} => todo = <<>>
  BY <1>1 DEF TreeInv, Todo
<1>3. CASE BuildTree
  BY <1>3, BuildHolds
<1>4. CASE StartTable
  <2>1. phase = "build" /\ todo = <<>> /\ phase' = "populate" /\ UNCHANGED <<disk, fileSet, todo, tree, count>>
    BY <1>4 DEF StartTable
  <2>2. TreeInv'
    BY <1>1, <2>1, TreeStays DEF Phases
  <2> QED  BY <1>1, <1>4, <2>2, StartHolds DEF Inv
<1>5. CASE Populate
  <2>1. phase' = phase /\ UNCHANGED <<disk, fileSet, todo, tree, count>>
    BY <1>5 DEF Populate, treeVars
  <2>2. TreeInv'
    BY <1>1, <2>1, TreeStays DEF TreeInv
  <2> QED  BY <1>1, <1>5, <2>2, PopulateHolds DEF Inv
<1>6. CASE SortByLevel
  <2>1. phase = "populate" /\ phase' = "sort" /\ UNCHANGED <<disk, fileSet, todo, tree, count>>
    BY <1>6 DEF SortByLevel
  <2>2. TreeInv'
    BY <1>1, <1>2, <2>1, TreeStays DEF Phases
  <2> QED  BY <1>1, <1>6, <2>2, SortByLevelHolds DEF Inv
<1>7. CASE SortLevel
  <2>1. phase' = phase /\ UNCHANGED <<disk, fileSet, todo, tree, count>>
    BY <1>7 DEF SortLevel, treeVars
  <2>2. TreeInv'
    BY <1>1, <2>1, TreeStays DEF TreeInv
  <2> QED  BY <1>1, <1>7, <2>2, SortLevelHolds DEF Inv
<1>8. CASE FindParentThrows
  <2>1. phase = "sort" /\ phase' = "too many" /\ UNCHANGED <<disk, fileSet, todo, tree, count>>
    BY <1>8 DEF FindParentThrows
  <2>2. TreeInv'
    BY <1>1, <1>2, <2>1, TreeStays DEF Phases
  <2> QED  BY <1>1, <1>8, <2>2, ThrowsHolds DEF Inv
<1>9. CASE StartEntries
  <2>1. phase = "sort" /\ phase' = "entries" /\ UNCHANGED <<disk, fileSet, todo, tree, count>>
    BY <1>9 DEF StartEntries
  <2>2. TreeInv'
    BY <1>1, <1>2, <2>1, TreeStays DEF Phases
  <2> QED  BY <1>1, <1>9, <2>2, StartEntriesHolds DEF Inv
<1>10. CASE SizeEntries
  <2>1. phase' = phase /\ UNCHANGED <<disk, fileSet, todo, tree, count>>
    BY <1>10 DEF SizeEntries, treeVars
  <2>2. TreeInv'
    BY <1>1, <2>1, TreeStays DEF TreeInv
  <2> QED  BY <1>1, <1>10, <2>2, SizeEntriesHolds DEF Inv
<1>11. CASE Stop \/ UNCHANGED vars
  <2>1. /\ phase' = phase /\ UNCHANGED <<disk, fileSet, todo, tree, count>>
        /\ stack' = stack /\ table' = table /\ level' = level /\ walk' = walk /\ entered' = entered
    BY <1>11 DEF Stop, vars, treeVars
  <2>2. TreeInv'
    BY <1>1, <2>1, TreeStays DEF TreeInv
  <2>3. /\ Shallow' = Shallow /\ Listed' = Listed /\ Walked' = Walked
        /\ Members(stack)' = Members(stack) /\ Once(stack)' = Once(stack)
    BY <2>1 DEF Shallow, Listed, Walked
  <2>4. TableInv'
    BY <1>1, <2>1, <2>3 DEF TableInv, IsTable, Populates, Sorts, WalksDown, Numbered
  <2> QED  BY <2>2, <2>4 DEF Inv
<1> QED
  BY <1>3, <1>4, <1>5, <1>6, <1>7, <1>8, <1>9, <1>10, <1>11 DEF Next

LEMMA InvHolds == Spec => []Inv
<1>1. Init => Inv
  BY InvStarts
<1>2. Inv /\ [Next]_vars => Inv'
  BY InvSteps
<1> QED
  BY <1>1, <1>2, PTL DEF Spec

(* What TreeIsFileSet says of the tree once it is built: the entries of    *)
(* the file set are its nodes, each found under its own path, folders as   *)
(* directories, and counted.                                               *)
LEMMA TreeInvSays == TreeInv => TreeIsFileSet
<1> SUFFICES ASSUME TreeInv, ~Building
             PROVE  /\ Nodes(tree) = fileSet \cup {Root}
                    /\ \A path \in fileSet : /\ GetNodeFromPath(tree, path) = path
                                             /\ path \in Dirs(tree) <=> disk[path]
                    /\ count = [dirs  |-> Cardinality({p \in fileSet : disk[p]}),
                                files |-> Cardinality({p \in fileSet : ~disk[p]})]
  BY DEF TreeIsFileSet, TreeInv, Phases
<1>1. phase # "traverse" /\ phase # "not opened" /\ todo = <<>>
  BY DEF Building, TreeInv, Todo
<1>2. Added = fileSet
  <2>1. Len(todo) = 0 /\ 1 .. Len(todo) = {}
    <3>1. Len(<<>>) = 0 /\ 1 .. 0 = {}
      OBVIOUS
    <3> QED  BY <1>1, <3>1
  <2> QED  BY <1>1, <2>1 DEF Added
<1>3. /\ Dirs(tree)  = {p \in fileSet : disk[p]} \cup {Root}
      /\ Files(tree) = {p \in fileSet : ~disk[p]}
      /\ count = [dirs  |-> Cardinality({p \in fileSet : disk[p]}),
                  files |-> Cardinality({p \in fileSet : ~disk[p]})]
  BY <1>1, <1>2 DEF TreeInv, Holds
<1>4. Nodes(tree) = fileSet \cup {Root} /\ IsPathTree(tree)
  BY <1>3 DEF Nodes, TreeInv
<1>5. Root \notin fileSet
  BY DiskIs DEF TreeInv
<1>6. \A path \in fileSet : GetNodeFromPath(tree, path) = path
  BY <1>4, <1>5, NodeIsFound
<1> QED
  BY <1>3, <1>4, <1>5, <1>6

(* CONTENTS OF THE TREE.  Whatever folder is taken, and in whatever order  *)
(* its names sort, create_from_file_set finds the parent of every path,    *)
(* and the tree it builds has the entries of the file set and no others,   *)
(* each where get_node_from_path looks for it.                             *)
THEOREM TreeIsFileSetHolds == Spec => []TreeIsFileSet
<1>1. Inv => TreeIsFileSet
  BY TreeInvSays DEF Inv
<1> QED
  BY <1>1, InvHolds, PTL

(* Lemmas about positions of the table.                                    *)
LEMMA PositionIs ==
  ASSUME IsTable, NEW d \in Listed
  PROVE  Position(d) \in 1 .. Len(table) /\ table[Position(d)].node = d
<1>1. \E i \in 1 .. Len(table) : table[i].node = d
  BY DEF Listed
<1>2. DOMAIN table = 1 .. Len(table)
  BY RowsAre
<1> QED
  BY <1>1, <1>2 DEF Position

LEMMA TypeSays == Inv => TypeOK
<1> SUFFICES ASSUME TreeInv, TableInv PROVE TypeOK
  BY DEF Inv
<1>1. phase \in Phases /\ IsPathTree(tree)
  BY DEF TreeInv
<1>2. IsTable
  <2>1. CASE phase \in {"traverse", "build", "not opened"}
    <3>1. table = <<>>
      BY <2>1 DEF TableInv
    <3>2. <<>> \in Seq([node : Shallow, parent : 0 .. MaxId]) /\ Len(<<>>) = 0
      OBVIOUS
    <3> QED  BY <3>1, <3>2 DEF IsTable
  <2> QED  BY <1>1, <2>1 DEF TableInv, Phases
<1>3. stack \in Seq(Dirs(tree) \ {Root})
  <2>1. <<>> \in Seq(Dirs(tree) \ {Root})
    OBVIOUS
  <2>2. phase = "populate" \/ stack = <<>>
    BY <1>1 DEF TableInv, Phases
  <2> QED  BY <2>1, <2>2 DEF TableInv, Populates
<1>4. Range(stack) \subseteq Dirs(tree) \ {Root}
  <2> DEFINE D == Dirs(tree) \ {Root}
  <2>1. stack \in Seq(D)
    BY <1>3
  <2> HIDE DEF D
  <2>2. Range(stack) \subseteq D
    BY <2>1 DEF Range
  <2> QED  BY <2>2 DEF D
<1>5. IsInjective([i \in DOMAIN table |-> table[i].node])
  <2>1. \A i, j \in DOMAIN table : table[i].node = table[j].node => i = j
    BY <1>2, RowsAre DEF IsTable
  <2> QED  BY <2>1 DEF IsInjective
<1>6. entered \subseteq Dirs(tree)
  <2>1. entered = {} \/ entered \subseteq Shallow \cup {Root}
    BY DEF TableInv, WalksDown
  <2> QED  BY <1>1, <2>1 DEF Shallow, IsPathTree
<1> QED
  BY <1>2, <1>4, <1>5, <1>6, RowsAre DEF TypeOK

LEMMA NumbersSay == Inv => NumbersHold
<1> SUFFICES ASSUME TreeInv, TableInv, phase \in {"sort", "entries"},
                    NEW i \in DOMAIN table, Level(tree)[table[i].node] < level
             PROVE  IF Parent(tree, table[i].node) = Root THEN table[i].parent = 1
                    ELSE /\ table[i].parent - 1 \in 1 .. i - 1
                         /\ table[table[i].parent - 1].node = Parent(tree, table[i].node)
  BY DEF Inv, NumbersHold
<1>1. IsTable /\ Sorts /\ IsPathTree(tree)
  BY DEF TableInv, TreeInv
<1>2. i \in 1 .. Len(table) /\ Len(table) \in Nat /\ table[i].node \in Dirs(tree) \ {Root}
  BY <1>1, RowsAre
<1> DEFINE node == table[i].node
<1>3. /\ Level(tree)[node] = Len(node) + 1 /\ Len(node) \in Nat \ {0} /\ Parent(tree, node) = Front(node)
      /\ Front(node) = Root <=> Len(node) = 1
  BY <1>1, <1>2, DirIs
<1>4. IF Len(node) = 1 THEN table[i].parent = 1
      ELSE \E j \in 1 .. i - 1 : table[j].node = Front(node) /\ table[i].parent = j + 1
  BY <1>1, <1>2, <1>3 DEF Sorts
<1>5. CASE Len(node) = 1
  BY <1>3, <1>4, <1>5
<1>6. CASE Len(node) # 1
  <2>1. PICK j \in 1 .. i - 1 : table[j].node = Front(node) /\ table[i].parent = j + 1
    BY <1>4, <1>6
  <2>2. table[i].parent - 1 = j
    BY <1>2, <2>1
  <2> QED  BY <1>3, <1>6, <2>1, <2>2
<1> QED
  BY <1>5, <1>6

(* The walk goes through all that is not too deep.                         *)
LEMMA AllEntered ==
  ASSUME TreeInv, TableInv, Written
  PROVE  entered = Shallow \cup {Root} /\ Listed = Shallow /\ IsTable /\ Sorts /\ Numbered
<1>1. WalksDown /\ Numbered /\ IsTable /\ Sorts /\ IsPathTree(tree)
  BY DEF Written, TableInv, TreeInv
<1>2. Walked = {}
  <2>1. 1 .. Len(walk) = {}
    BY DEF Written
  <2> QED  BY <2>1 DEF Walked
<1>3. Root \in entered /\ entered \subseteq Shallow \cup {Root}
  BY <1>1, <1>2 DEF WalksDown
<1>4. ASSUME NEW d \in Shallow
      PROVE  d \in entered
  <2>1. Len(d) \in Nat \ {0}
    BY <1>1, DirIs DEF Shallow
  <2> DEFINE T == {k \in 0 .. Len(d) : \A e \in Shallow : Len(e) = k => e \in entered}
  <2>2. 0 \in T
    BY <1>1, <2>1, DirIs DEF Shallow
  <2>3. \A k \in 0 .. Len(d) - 1 : k \in T => k + 1 \in T
    <3> TAKE k \in 0 .. Len(d) - 1
    <3> HAVE k \in T
    <3>1. k \in Nat /\ k + 1 \in 0 .. Len(d)
      BY <2>1
    <3>2. ASSUME NEW e \in Shallow, Len(e) = k + 1
          PROVE  e \in entered
      <4>1. /\ Len(Front(e)) = Len(e) - 1
            /\ Front(e) # Root => Front(e) \in Shallow
        BY <1>1, DirIs DEF Shallow
      <4>2. Len(Front(e)) = k
        BY <3>1, <3>2, <4>1
      <4>3. Front(e) \in entered
        BY <1>3, <4>1, <4>2
      <4> QED  BY <1>1, <1>2, <4>3 DEF WalksDown
    <3> QED  BY <3>1, <3>2
  <2>4. 0 .. Len(d) \subseteq T
    <3> HIDE DEF T
    <3> QED  BY <2>1, <2>2, <2>3, UpTo
  <2>5. Len(d) \in T
    <3>1. Len(d) \in 0 .. Len(d)
      BY <2>1
    <3> QED  BY <2>4, <3>1
  <2> QED  BY <2>5
<1> QED
  BY <1>1, <1>3, <1>4 DEF Sorts

LEMMA TableSays == Inv => TableIsWritten
<1> SUFFICES ASSUME TreeInv, TableInv, Written
             PROVE  {table[i].node : i \in DOMAIN table} \cup {Root} = entered
  BY DEF Inv, TableIsWritten
<1>1. entered = Shallow \cup {Root} /\ Listed = Shallow /\ IsTable
  BY AllEntered
<1>2. DOMAIN table = 1 .. Len(table)
  BY <1>1, RowsAre
<1> QED
  BY <1>1, <1>2 DEF Listed

(* The number of a directory: its place, with the root as 1.               *)
Number(d) == IF d = Root THEN 1 ELSE Position(d) + 1

(* In the table that is written, a row names the number of its parent, and *)
(* no two directories have one number.                                     *)
LEMMA NumbersAre ==
  ASSUME TreeInv, TableInv, Written
  PROVE  /\ \A d \in Shallow : Position(d) \in 1 .. Len(table) /\ table[Position(d)].node = d
         /\ \A i \in 1 .. Len(table) : /\ table[i].node \in Shallow /\ Position(table[i].node) = i
                                       /\ table[i].parent = Number(Front(table[i].node))
         /\ \A d, e \in Shallow \cup {Root} : Number(d) = Number(e) => d = e
         /\ \A d \in Shallow : Front(d) \in Shallow \cup {Root}
<1>1. Listed = Shallow /\ IsTable /\ Sorts /\ Numbered /\ IsPathTree(tree)
  BY AllEntered DEF TreeInv
<1>2. /\ Len(table) \in Nat
      /\ \A i \in 1 .. Len(table) : table[i].node \in Shallow /\ table[i].parent \in 0 .. MaxId
  BY <1>1, RowsAre
<1>3. \A d \in Shallow : Position(d) \in 1 .. Len(table) /\ table[Position(d)].node = d
  BY <1>1, PositionIs
<1>4. \A i \in 1 .. Len(table) : Position(table[i].node) = i
  BY <1>1, <1>2, <1>3 DEF IsTable
<1>5. \A d \in Shallow : d \in Dirs(tree) \ {Root}
  BY DEF Shallow
<1>6. \A d \in Shallow : Front(d) \in Shallow \cup {Root}
  BY <1>1, <1>5, DirIs
<1>7. ASSUME NEW i \in 1 .. Len(table)
      PROVE  table[i].parent = Number(Front(table[i].node))
  <2> DEFINE node == table[i].node
  <2>1. /\ Len(node) \in Nat \ {0} /\ Len(node) + 1 < level
        /\ Front(node) = Root <=> Len(node) = 1
    BY <1>1, <1>2, <1>5, DirIs DEF Numbered
  <2>2. IF Len(node) = 1 THEN table[i].parent = 1
        ELSE \E j \in 1 .. i - 1 : table[j].node = Front(node) /\ table[i].parent = j + 1
    BY <1>1, <2>1 DEF Sorts
  <2>3. CASE Len(node) = 1
    BY <2>1, <2>2, <2>3 DEF Number
  <2>4. CASE Len(node) # 1
    <3>1. PICK j \in 1 .. i - 1 : table[j].node = Front(node) /\ table[i].parent = j + 1
      BY <2>2, <2>4
    <3>2. j \in 1 .. Len(table)
      BY <1>2, <3>1
    <3>3. Position(Front(node)) = j /\ Front(node) # Root
      BY <1>4, <2>1, <2>4, <3>1, <3>2
    <3> QED  BY <3>1, <3>3 DEF Number
  <2> QED  BY <2>3, <2>4
<1>8. ASSUME NEW d \in Shallow \cup {Root}, NEW e \in Shallow \cup {Root}, Number(d) = Number(e)
      PROVE  d = e
  <2>1. Root \notin Shallow
    BY DEF Shallow
  <2>2. CASE d = Root
    BY <1>2, <1>3, <1>8, <2>1, <2>2 DEF Number
  <2>3. CASE e = Root
    BY <1>2, <1>3, <1>8, <2>1, <2>3 DEF Number
  <2>4. CASE d # Root /\ e # Root
    <3>1. Position(d) + 1 = Position(e) + 1 /\ Position(d) \in Nat /\ Position(e) \in Nat
      BY <1>2, <1>3, <1>8, <2>4 DEF Number
    <3>2. Position(d) = Position(e)
      BY <3>1
    <3> QED  BY <1>3, <2>4, <3>2
  <2> QED  BY <2>2, <2>3, <2>4
<1> QED
  BY <1>2, <1>3, <1>4, <1>6, <1>7, <1>8

(* The directories a reader is at after k names.                           *)
Follows(w, names) ==
  /\ w[0] = {1}
  /\ \A k \in 1 .. Len(names) : w[k] = Follow(w[k - 1], names[k])

LEMMA FollowSteps ==
  ASSUME IsTable, NEW V, NEW names \in Seq(V)
  PROVE  \E w : Follows(w, names) /\ w[Len(names)] = Found(names)
<1> DEFINE n == Len(names)
           X == SUBSET Nat
           step == [at \in X \X (1 .. n) |-> Follow(at[1], names[at[2]])]
           IsFold(h) == h = [s \in SUBSET (1 .. n) |->
                               IF s = {} THEN {1} ELSE Follow(h[s \ {Max(s)}], names[Max(s)])]
           H == CHOOSE h : IsFold(h)
           w == [k \in 0 .. n |-> H[1 .. k]]
<1>1. n \in Nat /\ DOMAIN names = 1 .. n
  BY LenProperties
<1>2. Found(names) = H[1 .. n]
  BY <1>1 DEF Found, FoldLeft, MapThenFoldSet
<1>3. step \in [X \X (1 .. n) -> X]
  <2>1. \A numbers, name : Follow(numbers, name) \in X
    BY RowsAre DEF Follow
  <2> QED  BY <2>1
<1>4. \E h : IsFold(h)
  <2>1. PICK h \in [SUBSET (1 .. n) -> X] : Folds(h, n, {1}, step)
    <3> HIDE DEF step
    <3>1. {1} \in X
      OBVIOUS
    <3> HIDE DEF X
    <3> QED  BY <1>1, <1>3, <3>1, FoldExists
  <2>2. \A s \in SUBSET (1 .. n) : s # {} =>
          step[<<h[s \ {Max(s)}], Max(s)>>] = Follow(h[s \ {Max(s)}], names[Max(s)])
    <3> SUFFICES ASSUME NEW s \in SUBSET (1 .. n), s # {}
                 PROVE  step[<<h[s \ {Max(s)}], Max(s)>>] = Follow(h[s \ {Max(s)}], names[Max(s)])
      OBVIOUS
    <3>1. s \in SUBSET (0 .. n)
      OBVIOUS
    <3>2. Max(s) \in 1 .. n
      BY <1>1, <3>1, MaxIsIn
    <3>3. h[s \ {Max(s)}] \in X
      OBVIOUS
    <3> HIDE DEF X
    <3> QED  BY <3>2, <3>3
  <2>3. IsFold(h)
    <3> HIDE DEF step
    <3> QED  BY <2>1, <2>2 DEF Folds
  <2> QED  BY <2>3
<1>5. IsFold(H)
  <2> HIDE DEF IsFold
  <2> QED  BY <1>4
<1> HIDE DEF H
<1>6. w[0] = {1}
  BY <1>1, <1>5, FirstPositions
<1>7. \A k \in 1 .. n : w[k] = Follow(w[k - 1], names[k])
  <2> TAKE k \in 1 .. n
  <2>1. 1 .. k \in SUBSET (1 .. n) /\ 1 .. k # {} /\ Max(1 .. k) = k /\ (1 .. k) \ {k} = 1 .. k - 1
    BY <1>1, FirstPositions
  <2>2. H[1 .. k] = Follow(H[1 .. k - 1], names[k])
    BY <1>5, <2>1
  <2>3. k - 1 \in 0 .. n /\ k \in 0 .. n
    BY <1>1
  <2> QED  BY <2>2, <2>3
<1>8. w[n] = H[1 .. n]
  <2>1. n \in 0 .. n
    BY <1>1
  <2> QED  BY <2>1
<1>9. Follows(w, names)
  BY <1>6, <1>7 DEF Follows
<1> QED
  BY <1>2, <1>8, <1>9

(* Two directories of one directory that have one name on the disc.        *)
Twins ==
  \E a, b \in entered \ {Root} : a # b /\ Parent(tree, a) = Parent(tree, b) /\ DiscName(a) = DiscName(b)

(* One step of a reader on the way to d.                                   *)
LEMMA FollowIs ==
  ASSUME TreeInv, TableInv, Written, NEW u \in Shallow, NEW numbers
  PROVE  /\ Number(Front(u)) \in numbers => Number(u) \in Follow(numbers, DiscName(u))
         /\ ~Twins /\ numbers \subseteq {Number(Front(u))} => Follow(numbers, DiscName(u)) \subseteq {Number(u)}
<1>1. /\ DOMAIN table = 1 .. Len(table) /\ entered = Shallow \cup {Root} /\ Root \notin Shallow
      /\ IsPathTree(tree)
  BY AllEntered, RowsAre DEF Shallow, TreeInv
<1>2. /\ Position(u) \in 1 .. Len(table) /\ table[Position(u)].node = u
      /\ table[Position(u)].parent = Number(Front(u)) /\ Number(u) = Position(u) + 1
  BY <1>1, NumbersAre DEF Number
<1>3. Number(Front(u)) \in numbers => Number(u) \in Follow(numbers, DiscName(u))
  BY <1>1, <1>2 DEF Follow
<1>4. ASSUME ~Twins, numbers \subseteq {Number(Front(u))}, NEW m \in Follow(numbers, DiscName(u))
      PROVE  m = Number(u)
  <2>1. PICK j \in 1 .. Len(table) : /\ m = j + 1 /\ table[j].parent \in numbers
                                     /\ DiscName(table[j].node) = DiscName(u)
    BY <1>1, <1>4 DEF Follow
  <2> DEFINE v == table[j].node
  <2>2. /\ v \in Shallow /\ Position(v) = j /\ Number(Front(v)) = Number(Front(u))
        /\ Front(v) \in Shallow \cup {Root} /\ Front(u) \in Shallow \cup {Root}
    BY <1>4, <2>1, NumbersAre
  <2>3. Front(v) = Front(u)
    BY <2>2, NumbersAre
  <2>4. Parent(tree, v) = Front(v) /\ Parent(tree, u) = Front(u)
    BY <1>1, <2>2, DirIs DEF Shallow
  <2>5. v = u
    BY <1>1, <1>4, <2>1, <2>2, <2>3, <2>4 DEF Twins
  <2> QED  BY <1>2, <2>1, <2>2, <2>5
<1> QED
  BY <1>3, <1>4

(* The directories above a directory that is not too deep are not either.  *)
LEMMA UpperShallow ==
  ASSUME TreeInv, NEW d \in Shallow
  PROVE  /\ d \in Paths /\ Len(d) \in Nat \ {0}
         /\ \A k \in 1 .. Len(d) : Upper(d, k) \in Shallow
<1>1. IsPathTree(tree) /\ \A e \in Shallow : e \in Dirs(tree) \ {Root}
  BY DEF TreeInv, Shallow
<1>2. d \in Paths /\ Len(d) \in Nat \ {0}
  BY <1>1, DirIs
<1> DEFINE n == Len(d)
           T == {k \in 0 .. n : k < n => Upper(d, n - k) \in Shallow}
<1>3. 0 \in T
  <2>1. Upper(d, n) = d /\ n - 0 = n
    BY <1>2, UpperIs
  <2> QED  BY <1>2, <2>1
<1>4. \A k \in 0 .. n - 1 : k \in T => k + 1 \in T
  <2> TAKE k \in 0 .. n - 1
  <2> HAVE k \in T
  <2>1. k + 1 \in 0 .. n
    BY <1>2
  <2>2. ASSUME k + 1 < n
        PROVE  Upper(d, n - (k + 1)) \in Shallow
    <3> DEFINE j == n - k
               i == n - (k + 1)
    <3>1. j \in 1 .. n /\ j - 1 = i /\ i \in 1 .. n /\ k < n
      BY <1>2, <2>2
    <3>2. Upper(d, j) \in Shallow
      BY <3>1
    <3> HIDE DEF i, j
    <3>3. Front(Upper(d, j)) = Upper(d, i) /\ Len(Upper(d, i)) = i
      BY <1>2, <3>1, UpperIs
    <3>4. Upper(d, i) # Root
      BY <3>1, <3>3, RootIs
    <3>5. Upper(d, i) \in Shallow
      BY <1>1, <3>2, <3>3, <3>4, DirIs
    <3> QED  BY <3>5 DEF i
  <2> QED  BY <2>1, <2>2
<1>5. 0 .. n \subseteq T
  <2> HIDE DEF T
  <2> QED  BY <1>2, <1>3, <1>4, UpTo
<1>6. ASSUME NEW k \in 1 .. n
      PROVE  Upper(d, k) \in Shallow
  <2>1. n - k \in 0 .. n /\ n - k < n /\ n - (n - k) = k
    BY <1>2
  <2>2. n - k \in T
    BY <1>5, <2>1
  <2> QED  BY <2>1, <2>2
<1> QED
  BY <1>2, <1>6

(* file_path_map has for a file the names of the directories above it.     *)
LEMMA MapIs ==
  ASSUME TreeInv, NEW file \in Files(tree), Front(file) \in Shallow
  PROVE  /\ Front(FilePathMap[file]) \in Seq({NameOnDisc(a) : a \in Names})
         /\ Len(Front(FilePathMap[file])) = Len(Front(file))
         /\ \A k \in 1 .. Len(Front(file)) : Front(FilePathMap[file])[k] = NameOnDisc(Front(file)[k])
<1>1. IsPathTree(tree)
  BY DEF TreeInv
<1>2. file \in Paths /\ file # <<>>
  BY <1>1, RootIs DEF IsPathTree
<1> DEFINE m == Len(file)
           path == [i \in 1 .. m |-> NameOnDisc(file[i])]
           V == {NameOnDisc(a) : a \in Names}
<1>3. m \in Nat \ {0} /\ DOMAIN file = 1 .. m /\ \A i \in 1 .. m : file[i] \in Names
  <2>1. m \in Nat \ {0}
    BY <1>2, PathIs
  <2> QED  BY <1>2, <2>1, ElementOfSeq DEF Paths
<1>4. FilePathMap[file] = path
  BY <1>3 DEF FilePathMap, InternalPath
<1>5. Front(file) = [i \in 1 .. m - 1 |-> file[i]] /\ Len(Front(file)) = m - 1
  <2>1. Front(file) = Upper(file, m - 1)
    BY <1>2, UpperIs
  <2>2. Len(Front(file)) = m - 1
    BY <1>2, PathIs
  <2> QED  BY <2>1, <2>2 DEF Upper
<1>6. path \in Seq(V) /\ Len(path) = m
  <2>1. path \in [1 .. m -> V]
    BY <1>3
  <2> HIDE DEF path, V
  <2> QED  BY <1>3, <2>1, SeqIs
<1> DEFINE front == [i \in 1 .. m - 1 |-> path[i]]
<1>7. Front(path) = front
  <2> HIDE DEF path, V
  <2>1. Front(path) = SubSeq(path, 1, m - 1)
    BY <1>6 DEF Front
  <2> QED  BY <1>3, <1>6, <2>1
<1>8. front \in Seq(V) /\ Len(front) = m - 1
  <2>1. m - 1 \in Nat /\ \A i \in 1 .. m - 1 : i \in 1 .. m
    BY <1>3
  <2>2. front \in [1 .. m - 1 -> V]
    BY <1>3, <2>1
  <2> HIDE DEF front, V
  <2> QED  BY <2>1, <2>2, SeqIs
<1>9. \A k \in 1 .. m - 1 : front[k] = NameOnDisc(Front(file)[k])
  <2> TAKE k \in 1 .. m - 1
  <2>1. k \in 1 .. m
    BY <1>3
  <2> QED  BY <1>5, <2>1
<1> HIDE DEF front, path, m
<1> QED
  BY <1>4, <1>5, <1>7, <1>8, <1>9

LEMMA ReadersSay == Inv => ReadersFindFiles
<1> SUFFICES ASSUME TreeInv, TableInv, Written,
                    NEW file \in Files(tree), Front(file) \in entered \ {Root}
             PROVE  /\ Position(Front(file)) + 1 \in Found(Front(FilePathMap[file]))
                    /\ Found(Front(FilePathMap[file])) # {Position(Front(file)) + 1} => Twins
  BY DEF Inv, ReadersFindFiles, Twins
<1> DEFINE d == Front(file)
           names == Front(FilePathMap[file])
           V == {NameOnDisc(a) : a \in Names}
<1>1. d \in Shallow /\ d # Root /\ IsTable
  BY AllEntered DEF Shallow
<1>2. names \in Seq(V) /\ Len(names) = Len(d) /\ \A k \in 1 .. Len(d) : names[k] = NameOnDisc(d[k])
  BY <1>1, MapIs
<1>3. d \in Paths /\ Len(d) \in Nat \ {0} /\ \A k \in 1 .. Len(d) : Upper(d, k) \in Shallow
  BY <1>1, UpperShallow
<1> HIDE DEF d, names, V
<1>4. PICK w : Follows(w, names) /\ w[Len(names)] = Found(names)
  BY <1>1, <1>2, FollowSteps
<1> DEFINE n == Len(d)
           T == {k \in 0 .. n : /\ Number(Upper(d, k)) \in w[k]
                                /\ ~Twins => w[k] = {Number(Upper(d, k))}}
<1>5. 0 \in T
  <2>1. Number(Upper(d, 0)) = 1 /\ w[0] = {1} /\ 0 \in 0 .. n
    BY <1>3, <1>4, UpperIs DEF Number, Follows
  <2> QED  BY <2>1
<1>6. \A k \in 0 .. n - 1 : k \in T => k + 1 \in T
  <2> TAKE k \in 0 .. n - 1
  <2> HAVE k \in T
  <2>1. k + 1 \in 1 .. n /\ k + 1 \in 0 .. n /\ (k + 1) - 1 = k
    BY <1>3
  <2> DEFINE j == k + 1
             u == Upper(d, j)
  <2>2. j \in 1 .. n /\ j - 1 = k
    BY <2>1
  <2> HIDE DEF j
  <2>3. u \in Shallow /\ Front(u) = Upper(d, k) /\ Last(u) = d[j]
    BY <1>3, <2>2, UpperIs
  <2>4. w[j] = Follow(w[k], DiscName(u))
    <3>1. w[j] = Follow(w[k], names[j])
      BY <1>2, <1>4, <2>2 DEF Follows
    <3> QED  BY <1>2, <2>2, <2>3, <3>1 DEF DiscName
  <2> HIDE DEF u
  <2>5. Number(u) \in w[j] /\ (~Twins => w[j] = {Number(u)})
    BY <2>3, <2>4, FollowIs
  <2> QED  BY <2>1, <2>5 DEF u, j
<1>7. 0 .. n \subseteq T
  <2> HIDE DEF T
  <2> QED  BY <1>3, <1>5, <1>6, UpTo
<1>8. n \in T /\ Upper(d, n) = d /\ Number(d) = Position(d) + 1 /\ w[n] = Found(names)
  <2>1. n \in 0 .. n
    BY <1>3
  <2> QED  BY <1>1, <1>2, <1>3, <1>4, <1>7, <2>1, UpperIs DEF Number
<1>9. Position(d) + 1 \in Found(names) /\ (~Twins => Found(names) = {Position(d) + 1})
  BY <1>8
<1> QED
  BY <1>9 DEF d, names

(* TYPES.  The rows of the path table stand for directories of the tree,   *)
(* each in one row and with a number of 16 bits; stack and walk stay in    *)
(* the tree, too.                                                          *)
THEOREM TypeOKHolds == Spec => []TypeOK
<1>1. Inv => TypeOK
  BY TypeSays
<1> QED
  BY <1>1, InvHolds, PTL

(* NUMBERS.  The parent number of a sorted row is the place of the row of  *)
(* its parent, which comes before it: sorting a level never moves a row    *)
(* that has been named as a parent, and no number is cut to 16 bits.       *)
THEOREM NumbersHoldAlways == Spec => []NumbersHold
<1>1. Inv => NumbersHold
  BY NumbersSay
<1> QED
  BY <1>1, InvHolds, PTL

(* TABLE AND RECORDS.  populate and calc_dir_entries_len, which look at    *)
(* the limit of levels in different ways, leave out the same directories.  *)
THEOREM TableIsWrittenHolds == Spec => []TableIsWritten
<1>1. Inv => TableIsWritten
  BY TableSays
<1> QED
  BY <1>1, InvHolds, PTL

(* READERS.  Who follows the names of file_path_map through the path table *)
(* comes to the directory of the file, and to no other one unless some     *)
(* directory has two directories with one name on the disc.                *)
THEOREM ReadersFindFilesHolds == Spec => []ReadersFindFiles
<1>1. Inv => ReadersFindFiles
  BY ReadersSay
<1> QED
  BY <1>1, InvHolds, PTL
=============================================================================
