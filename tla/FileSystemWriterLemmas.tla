----------------------- MODULE FileSystemWriterLemmas -----------------------
(***************************************************************************)
(* Lemmas about the operators FileSystemWriter is made of, for the inputs  *)
(* on which its passes agree: what a pass foresees or reserves is what the *)
(* stream has gone over when the same thing has been written.              *)
(*                                                                         *)
(* Every pass is a fold over the children of a directory, the boot images  *)
(* or the tree.  Two of them are compared along the positions of the       *)
(* sequence, by the lemmas of FoldLemmas.  A pass over the whole tree is a *)
(* trace: what dir_node_stack and the counter of sectors were before each  *)
(* round.                                                                  *)
(***************************************************************************)
EXTENDS FileSystemWriter, FoldLemmas, FiniteSetTheorems

-----------------------------------------------------------------------------
(* Sectors and sums.                                                       *)

(* bytes_to_sec rounds up. *)
LEMMA BytesToSecIs ==
  ASSUME NEW q \in Nat, NEW r \in 0 .. SectorSize - 1
  PROVE  BytesToSec(q * SectorSize + r) = q + (IF r = 0 THEN 0 ELSE 1)
<1>1. SectorSize \in Nat \ {0} /\ q * SectorSize \in Nat
  BY SectorSizeAssumption
<1>2. CASE r # 0
  <2>1. q * SectorSize + r - 1 = q * SectorSize + (r - 1) /\ r - 1 \in 0 .. SectorSize - 1
    BY <1>1, <1>2
  <2>2. (q * SectorSize + r - 1) \div SectorSize = q
    BY <1>1, <2>1, DivModIs
  <2>3. q * SectorSize + r # 0
    BY <1>1, <1>2
  <2> QED  BY <1>1, <1>2, <2>2, <2>3 DEF BytesToSec
<1>3. CASE r = 0 /\ q = 0
  BY <1>1, <1>3 DEF BytesToSec
<1>4. CASE r = 0 /\ q # 0
  <2>1. q - 1 \in Nat /\ q * SectorSize + r - 1 = (q - 1) * SectorSize + (SectorSize - 1)
    BY <1>1, <1>4
  <2>2. (q * SectorSize + r - 1) \div SectorSize = q - 1
    BY <1>1, <2>1, DivModIs
  <2>3. q * SectorSize + r # 0
    BY <1>1, <1>4, <2>1
  <2> QED  BY <1>1, <1>4, <2>2, <2>3 DEF BytesToSec
<1> QED
  BY <1>2, <1>3, <1>4

-----------------------------------------------------------------------------
(* The stream, at the start of a sector.                                   *)

At(n) == [sector |-> n, written |-> 0]

(* Whole sectors leave the stream at the start of one.                     *)
LEMMA WholeSectors ==
  ASSUME NEW n \in Nat, NEW k \in Nat
  PROVE  WriteSectors(At(n), k) = At(n + k)
<1>1. SectorSize \in Nat \ {0} /\ 0 \in 0 .. SectorSize - 1
  BY SectorSizeAssumption
<1>2. (k * SectorSize + 0) \div SectorSize = k /\ (k * SectorSize + 0) % SectorSize = 0
  BY <1>1, DivModIs
<1>3. k * SectorSize \in Nat
  BY <1>1
<1>4. 0 + k * SectorSize = k * SectorSize + 0
  BY <1>3
<1> QED
  BY <1>2, <1>4 DEF WriteSectors, WriteBytes, At

(* Bytes from the start of a sector.                                       *)
LEMMA BytesFromStart ==
  ASSUME NEW n \in Nat, NEW c \in Nat
  PROVE  /\ WriteBytes(At(n), c) = [sector |-> n + c \div SectorSize, written |-> c % SectorSize]
         /\ c \div SectorSize \in Nat /\ c % SectorSize \in 0 .. SectorSize - 1
<1>1. SectorSize \in Nat \ {0}
  BY SectorSizeAssumption
<1>2. c \div SectorSize \in Nat /\ c % SectorSize \in 0 .. SectorSize - 1
  BY <1>1, DivModOf
<1>3. 0 + c = c
  OBVIOUS
<1> QED
  BY <1>2, <1>3 DEF WriteBytes, At

(* A pad ends the sector it is in.                                         *)
LEMMA PadIs ==
  ASSUME NEW n \in Nat, NEW w \in 0 .. SectorSize - 1
  PROVE  PadSector([sector |-> n, written |-> w]) = At(n + 1)
<1>1. SectorSize \in Nat \ {0} /\ 0 \in 0 .. SectorSize - 1
  BY SectorSizeAssumption
<1>2. w + (SectorSize - w) = 1 * SectorSize + 0
  BY <1>1
<1>3. (w + (SectorSize - w)) \div SectorSize = 1 /\ (w + (SectorSize - w)) % SectorSize = 0
  BY <1>1, <1>2, DivModIs
<1> QED
  BY <1>3 DEF PadSector, Remaining, WriteBytes, At

(* bytes_to_sec as quotient and remainder.                                 *)
LEMMA SectorsOf ==
  ASSUME NEW c \in Nat
  PROVE  BytesToSec(c) = c \div SectorSize + (IF c % SectorSize = 0 THEN 0 ELSE 1)
<1>1. SectorSize \in Nat \ {0}
  BY SectorSizeAssumption
<1>2. /\ c \div SectorSize \in Nat /\ c % SectorSize \in 0 .. SectorSize - 1
      /\ c = (c \div SectorSize) * SectorSize + (c % SectorSize)
  BY <1>1, DivModOf
<1> QED
  BY <1>2, BytesToSecIs

(* Bytes and the pad after them take the sectors bytes_to_sec counts.      *)
LEMMA PaddedBytes ==
  ASSUME NEW n \in Nat, NEW c \in Nat
  PROVE  PadIfOpen(WriteBytes(At(n), c)) = At(n + BytesToSec(c))
<1>1. /\ WriteBytes(At(n), c) = [sector |-> n + c \div SectorSize, written |-> c % SectorSize]
      /\ c \div SectorSize \in Nat /\ c % SectorSize \in 0 .. SectorSize - 1
  BY BytesFromStart
<1>2. n + c \div SectorSize \in Nat
  BY <1>1
<1>3. PadSector([sector |-> n + c \div SectorSize, written |-> c % SectorSize])
        = At(n + c \div SectorSize + 1)
  BY <1>1, <1>2, PadIs
<1>4. BytesToSec(c) = c \div SectorSize + (IF c % SectorSize = 0 THEN 0 ELSE 1)
  BY SectorsOf
<1> DEFINE q == c \div SectorSize
           r == c % SectorSize
<1> HIDE DEF q, r
<1>5. q \in Nat /\ BytesToSec(c) = q + (IF r = 0 THEN 0 ELSE 1)
  BY <1>1, <1>4 DEF q, r
<1>6. PadIfOpen([sector |-> n + q, written |-> r]) = IF r # 0 THEN At(n + q + 1) ELSE At(n + q)
  BY <1>3 DEF PadIfOpen, At, q, r
<1>7. WriteBytes(At(n), c) = [sector |-> n + q, written |-> r]
  BY <1>1 DEF q, r
<1> QED
  BY <1>5, <1>6, <1>7

-----------------------------------------------------------------------------
(* Sums over sequences.                                                    *)

(* The fold that adds w over s goes through the sums.                      *)
LEMMA SumSteps ==
  ASSUME NEW E, NEW s \in Seq(E), NEW w, \A i \in 1 .. Len(s) : w[s[i]] \in Int
  PROVE  \E p : /\ Sums(p, Len(s), [i \in 1 .. Len(s) |-> w[s[i]]])
                /\ SumOver(w, s) = p[Len(s)]
<1> DEFINE n == Len(s)
           v == [i \in 1 .. n |-> w[s[i]]]
           step == [at \in Int \X (1 .. n) |-> at[1] + v[at[2]]]
           IsFold(h) == h = [t \in SUBSET (1 .. n) |->
                               IF t = {} THEN 0 ELSE h[t \ {Max(t)}] + w[s[Max(t)]]]
           H == CHOOSE h : IsFold(h)
           p == [k \in 0 .. n |-> H[1 .. k]]
<1>1. n \in Nat /\ DOMAIN s = 1 .. n
  BY LenProperties
<1>2. SumOver(w, s) = H[1 .. n]
  BY <1>1 DEF SumOver, FoldLeft, MapThenFoldSet
<1>3. step \in [Int \X (1 .. n) -> Int]
  <2>1. \A at \in Int \X (1 .. n) : at[1] \in Int /\ at[2] \in 1 .. n
    OBVIOUS
  <2>2. \A i \in 1 .. n : v[i] \in Int
    OBVIOUS
  <2> HIDE DEF v, n
  <2>3. \A at \in Int \X (1 .. n) : at[1] + v[at[2]] \in Int
    BY <2>1, <2>2
  <2> QED  BY <2>3
<1>4. \E h : IsFold(h)
  <2>1. PICK h \in [SUBSET (1 .. n) -> Int] : Folds(h, n, 0, step)
    <3> HIDE DEF step
    <3>1. 0 \in Int
      OBVIOUS
    <3> QED  BY <1>1, <1>3, <3>1, FoldExists
  <2>2. \A t \in SUBSET (1 .. n) : t # {} =>
          step[<<h[t \ {Max(t)}], Max(t)>>] = h[t \ {Max(t)}] + w[s[Max(t)]]
    <3> SUFFICES ASSUME NEW t \in SUBSET (1 .. n), t # {}
                 PROVE  step[<<h[t \ {Max(t)}], Max(t)>>] = h[t \ {Max(t)}] + w[s[Max(t)]]
      OBVIOUS
    <3>1. t \in SUBSET (0 .. n)
      OBVIOUS
    <3>2. Max(t) \in 1 .. n
      BY <1>1, <3>1, MaxIsIn
    <3>3. h[t \ {Max(t)}] \in Int
      OBVIOUS
    <3> QED  BY <3>2, <3>3
  <2>3. IsFold(h)
    <3> HIDE DEF step
    <3> QED  BY <2>1, <2>2 DEF Folds
  <2> QED  BY <2>3
<1>5. IsFold(H)
  <2> HIDE DEF IsFold
  <2> QED  BY <1>4
<1> HIDE DEF H
<1>6. p[0] = 0
  BY <1>1, <1>5, FirstPositions
<1>7. \A k \in 1 .. n : p[k] = p[k - 1] + v[k]
  <2> TAKE k \in 1 .. n
  <2>1. 1 .. k \in SUBSET (1 .. n) /\ 1 .. k # {} /\ Max(1 .. k) = k /\ (1 .. k) \ {k} = 1 .. k - 1
    BY <1>1, FirstPositions
  <2>2. H[1 .. k] = H[1 .. k - 1] + w[s[k]]
    BY <1>5, <2>1
  <2>3. k - 1 \in 0 .. n /\ k \in 0 .. n
    BY <1>1
  <2> QED  BY <2>2, <2>3
<1>8. p \in [0 .. n -> Int]
  <2> DEFINE S == {k \in 0 .. n : p[k] \in Int}
  <2>1. 0 \in S
    BY <1>1, <1>6
  <2>2. \A k \in 0 .. n - 1 : k \in S => k + 1 \in S
    <3> TAKE k \in 0 .. n - 1
    <3> HAVE k \in S
    <3>1. k + 1 \in 1 .. n /\ k + 1 \in 0 .. n /\ (k + 1) - 1 = k
      BY <1>1
    <3>2. p[k + 1] = p[k] + v[k + 1]
      BY <1>7, <3>1
    <3>3. p[k] \in Int /\ v[k + 1] \in Int
      BY <3>1
    <3> HIDE DEF p, v
    <3> QED  BY <3>1, <3>2, <3>3
  <2>3. 0 .. n \subseteq S
    <3> HIDE DEF S
    <3> QED  BY <1>1, <2>1, <2>2, UpTo
  <2> QED  BY <2>3
<1>9. Sums(p, n, v)
  <2> HIDE DEF p, v
  <2> QED  BY <1>6, <1>7, <1>8 DEF Sums
<1>10. H[1 .. n] = p[n]
  BY <1>1
<1> QED
  BY <1>2, <1>9, <1>10

(* The sums over the beginnings of a sequence.                             *)
LEMMA SumOverPrefixes ==
  ASSUME NEW E, NEW s \in Seq(E), NEW w, \A i \in 1 .. Len(s) : w[s[i]] \in Int
  PROVE  /\ SumOver(w, SubSeq(s, 1, 0)) = 0
         /\ \A k \in 1 .. Len(s) :
              SumOver(w, SubSeq(s, 1, k)) = SumOver(w, SubSeq(s, 1, k - 1)) + w[s[k]]
         /\ \A k \in 0 .. Len(s) : SumOver(w, SubSeq(s, 1, k)) \in Int
         /\ SumOver(w, SubSeq(s, 1, Len(s))) = SumOver(w, s)
<1>1. Len(s) \in Nat
  OBVIOUS
<1> DEFINE V(x) == [i \in 1 .. Len(x) |-> w[x[i]]]
<1>2. PICK p : Sums(p, Len(s), V(s)) /\ SumOver(w, s) = p[Len(s)]
  BY SumSteps
<1>3. \A k \in 0 .. Len(s) : SumOver(w, SubSeq(s, 1, k)) = p[k]
  <2> TAKE k \in 0 .. Len(s)
  <2> DEFINE u == SubSeq(s, 1, k)
  <2>1. u \in Seq(E) /\ Len(u) = k /\ \A i \in 1 .. k : u[i] = s[i]
    BY <1>1
  <2>2. \A i \in 1 .. Len(u) : w[u[i]] \in Int
    BY <1>1, <2>1
  <2> HIDE DEF u
  <2>3. PICK q : Sums(q, Len(u), V(u)) /\ SumOver(w, u) = q[Len(u)]
    BY <2>1, <2>2, SumSteps
  <2>4. \A i \in 1 .. k : V(u)[i] = V(s)[i]
    BY <1>1, <2>1
  <2> HIDE DEF V
  <2>5. k \in Nat /\ k <= Len(s) /\ Sums(q, k, V(u))
    BY <1>1, <2>1, <2>3
  <2>6. q[k] = p[k]
    BY <1>1, <1>2, <2>4, <2>5, SumsAgree
  <2> QED  BY <2>1, <2>3, <2>6 DEF u
<1>4. \A k \in 1 .. Len(s) : V(s)[k] = w[s[k]]
  OBVIOUS
<1> HIDE DEF V
<1>5. p[0] = 0 /\ \A k \in 0 .. Len(s) : p[k] \in Int
  BY <1>2 DEF Sums
<1>6. \A k \in 1 .. Len(s) : p[k] = p[k - 1] + w[s[k]] /\ k \in 0 .. Len(s) /\ k - 1 \in 0 .. Len(s)
  BY <1>1, <1>2, <1>4 DEF Sums
<1>7. 0 \in 0 .. Len(s) /\ Len(s) \in 0 .. Len(s)
  BY <1>1
<1> QED
  BY <1>2, <1>3, <1>5, <1>6, <1>7

(* Only what the members take makes the sum.                               *)
LEMMA SumOverSame ==
  ASSUME NEW E, NEW s \in Seq(E), NEW v, NEW w,
         \A i \in 1 .. Len(s) : w[s[i]] \in Int /\ v[s[i]] = w[s[i]]
  PROVE  SumOver(v, s) = SumOver(w, s)
<1>1. \A i \in 1 .. Len(s) : v[s[i]] \in Int
  OBVIOUS
<1> DEFINE V == [i \in 1 .. Len(s) |-> v[s[i]]]
           W == [i \in 1 .. Len(s) |-> w[s[i]]]
<1>2. PICK p : Sums(p, Len(s), V) /\ SumOver(v, s) = p[Len(s)]
  BY <1>1, SumSteps
<1>3. PICK q : Sums(q, Len(s), W) /\ SumOver(w, s) = q[Len(s)]
  BY SumSteps
<1>4. \A i \in 1 .. Len(s) : V[i] = W[i]
  OBVIOUS
<1>5. Len(s) \in Nat
  OBVIOUS
<1> HIDE DEF V, W
<1> QED
  BY <1>2, <1>3, <1>4, <1>5, SumsAgree

(* A sum of sizes is a size.                                               *)
LEMMA SumOverNat ==
  ASSUME NEW E, NEW s \in Seq(E), NEW w, \A i \in 1 .. Len(s) : w[s[i]] \in Nat
  PROVE  SumOver(w, s) \in Nat
<1>1. \A i \in 1 .. Len(s) : w[s[i]] \in Int
  OBVIOUS
<1> DEFINE V == [i \in 1 .. Len(s) |-> w[s[i]]]
<1>2. PICK p : Sums(p, Len(s), V) /\ SumOver(w, s) = p[Len(s)]
  BY <1>1, SumSteps
<1>3. Len(s) \in Nat /\ \A i \in 1 .. Len(s) : V[i] \in Nat
  OBVIOUS
<1> HIDE DEF V
<1>4. p \in [0 .. Len(s) -> Nat]
  BY <1>2, <1>3, SumsInNat
<1> QED
  BY <1>2, <1>3, <1>4

-----------------------------------------------------------------------------
(* Identifiers of a directory.                                             *)

(* A tree as it is made from a file set.                                   *)
NamedTree(t) ==
  /\ IsTree(t) /\ IsFiniteSet(Nodes(t)) /\ \A n \in Nodes(t) : IsName(t.name[n])
  /\ AreSizes(t)

(* An identifier has some size.                                            *)
LEMMA IdentsNat ==
  ASSUME NEW f, NEW t, NamedTree(t), NEW n \in Nodes(t)
  PROVE  CalcIdentSize(f, t.name[n]) \in Nat /\ WriteIdentSize(f, t.name[n]) \in Nat
<1>1. FullLen(t.name[n]) \in Nat
  BY DEF NamedTree, IsName, FullLen, NoDot
<1>2. Least(FullLen(t.name[n]), 254) \in Nat /\ Least(FullLen(t.name[n]), 127) \in Nat
  BY <1>1 DEF Least
<1>3. \A k \in Nat : IdentSize(k, IsDvd(f)) \in Nat
  <2> SUFFICES ASSUME NEW k \in Nat PROVE IdentSize(k, IsDvd(f)) \in Nat
    OBVIOUS
  <2>1. \A raw \in Nat : ((raw + 3) \div 4) * 4 \in Nat
    OBVIOUS
  <2>2. 38 + 1 + (IF IsDvd(f) THEN k ELSE 2 * k) \in Nat
    OBVIOUS
  <2> QED  BY <2>1, <2>2 DEF IdentSize
<1> QED
  BY <1>2, <1>3 DEF CalcIdentSize, WriteIdentSize

(* What Regular says of UDF.                                               *)
UdfRegular(f, t) ==
  /\ NamedTree(t)
  /\ \A d \in Dirs(t) : IdentBytes(f, t, d) % SectorSize # 0
  /\ \A n \in Nodes(t) : FullLen(t.name[n]) <= 127 /\ CalcIdentSize(f, t.name[n]) <= SectorSize

(* What is foreseen for an identifier is what is written, and fits a       *)
(* sector.                                                                 *)
LEMMA IdentsFit ==
  ASSUME NEW f, NEW t, UdfRegular(f, t), NEW n \in Nodes(t)
  PROVE  /\ CalcIdentSize(f, t.name[n]) \in 0 .. SectorSize
         /\ WriteIdentSize(f, t.name[n]) = CalcIdentSize(f, t.name[n])
<1>1. FullLen(t.name[n]) \in Nat /\ FullLen(t.name[n]) <= 127
  BY DEF UdfRegular, NamedTree, IsName, FullLen, NoDot
<1>2. Least(FullLen(t.name[n]), 254) = FullLen(t.name[n])
      /\ Least(FullLen(t.name[n]), 127) = FullLen(t.name[n])
  BY <1>1 DEF Least
<1>3. CalcIdentSize(f, t.name[n]) \in Nat /\ CalcIdentSize(f, t.name[n]) <= SectorSize
  BY IdentsNat DEF UdfRegular
<1> QED
  BY <1>2, <1>3, SectorSizeAssumption DEF CalcIdentSize, WriteIdentSize

(* The children of a directory.                                            *)
LEMMA KidsOf ==
  ASSUME NEW t, IsTree(t), NEW d \in Dirs(t)
  PROVE  /\ t.kids[d] \in Seq(Nodes(t)) /\ Len(t.kids[d]) \in Nat
         /\ DOMAIN t.kids[d] = 1 .. Len(t.kids[d])
         /\ \A i \in 1 .. Len(t.kids[d]) :
              t.kids[d][i] \in Nodes(t) \ {Root} /\ t.kids[d][i] \in Range(t.kids[d])
<1>1. t.kids[d] \in Seq(Nodes(t) \ {Root})
  BY DEF IsTree
<1>2. \A S, T : S \subseteq T => \A s \in Seq(S) : s \in Seq(T)
  OBVIOUS
<1>3. t.kids[d] \in Seq(Nodes(t))
  BY <1>1, <1>2
<1> QED
  BY <1>1, <1>3 DEF Range

(* No entry is in a directory twice.                                       *)
LEMMA KidsDiffer ==
  ASSUME NEW t, IsTree(t), NEW d \in Dirs(t),
         NEW i \in DOMAIN t.kids[d], NEW j \in DOMAIN t.kids[d], t.kids[d][i] = t.kids[d][j]
  PROVE  i = j
<1>1. \A e \in Dirs(t) : \A k \in DOMAIN t.kids[d], l \in DOMAIN t.kids[e] :
        t.kids[d][k] = t.kids[e][l] => d = e /\ k = l
  BY DEF IsTree
<1> QED  BY <1>1

(* They have some size together.                                           *)
LEMMA IdentBytesNat ==
  ASSUME NEW f, NEW t, NamedTree(t), NEW d \in Dirs(t)
  PROVE  IdentBytes(f, t, d) \in Nat
<1> DEFINE s == t.kids[d]
           w == [n \in Range(s) |-> CalcIdentSize(f, t.name[n])]
<1>1. IsTree(t)
  BY DEF NamedTree
<1>2. s \in Seq(Nodes(t)) /\ \A i \in 1 .. Len(s) : s[i] \in Nodes(t) /\ s[i] \in Range(s)
  BY <1>1, KidsOf
<1> HIDE DEF s
<1>3. \A i \in 1 .. Len(s) : w[s[i]] \in Nat
  BY <1>2, IdentsNat
<1>4. IdentBytes(f, t, d) = ParentIdentSize + SumOver(w, s)
  BY DEF IdentBytes, s
<1> HIDE DEF w
<1>5. SumOver(w, s) \in Nat
  BY <1>2, <1>3, SumOverNat
<1> QED
  BY <1>4, <1>5 DEF ParentIdentSize

(* What is foreseen for the identifiers of a directory, one after the      *)
(* other.                                                                  *)
LEMMA IdentsSum ==
  ASSUME NEW f, NEW t, UdfRegular(f, t), NEW d \in Dirs(t)
  PROVE  /\ IdentBytes(f, t, d) \in Nat
         /\ \E q : /\ q \in [0 .. Len(t.kids[d]) -> Nat] /\ q[0] = 0
                   /\ \A k \in 1 .. Len(t.kids[d]) :
                        q[k] = q[k - 1] + CalcIdentSize(f, t.name[t.kids[d][k]])
                   /\ IdentBytes(f, t, d) = ParentIdentSize + q[Len(t.kids[d])]
<1> DEFINE s == t.kids[d]
           w == [n \in Range(s) |-> CalcIdentSize(f, t.name[n])]
           v == [i \in 1 .. Len(s) |-> w[s[i]]]
<1>1. IsTree(t) /\ NamedTree(t)
  BY DEF NamedTree, UdfRegular
<1>2. /\ s \in Seq(Nodes(t)) /\ Len(s) \in Nat
      /\ \A i \in 1 .. Len(s) : s[i] \in Nodes(t) /\ s[i] \in Range(s)
  BY <1>1, KidsOf
<1> HIDE DEF s
<1>3. \A i \in 1 .. Len(s) : w[s[i]] = CalcIdentSize(f, t.name[s[i]]) /\ w[s[i]] \in Nat
  BY <1>1, <1>2, IdentsNat
<1>4. \A i \in 1 .. Len(s) : v[i] = w[s[i]]
  OBVIOUS
<1>5. IdentBytes(f, t, d) = ParentIdentSize + SumOver(w, s)
  BY DEF IdentBytes, s
<1> HIDE DEF w
<1>6. \A i \in 1 .. Len(s) : w[s[i]] \in Int
  BY <1>3
<1>7. PICK q : Sums(q, Len(s), v) /\ SumOver(w, s) = q[Len(s)]
  BY <1>2, <1>6, SumSteps
<1> HIDE DEF v
<1>8. q \in [0 .. Len(s) -> Nat]
  BY <1>2, <1>3, <1>4, <1>7, SumsInNat
<1>9. q[0] = 0 /\ \A k \in 1 .. Len(s) : q[k] = q[k - 1] + CalcIdentSize(f, t.name[s[k]])
  BY <1>3, <1>4, <1>7 DEF Sums
<1>10. IdentBytes(f, t, d) = ParentIdentSize + q[Len(s)] /\ q[Len(s)] \in Nat
  BY <1>2, <1>5, <1>7, <1>8
<1>11. \E p : /\ p \in [0 .. Len(s) -> Nat] /\ p[0] = 0
              /\ \A k \in 1 .. Len(s) : p[k] = p[k - 1] + CalcIdentSize(f, t.name[s[k]])
              /\ IdentBytes(f, t, d) = ParentIdentSize + p[Len(s)]
  BY <1>8, <1>9, <1>10
<1>12. IdentBytes(f, t, d) \in Nat
  BY <1>10 DEF ParentIdentSize
<1> QED
  BY <1>11, <1>12 DEF s

(* The count of sectors that goes along with the identifiers comes to what *)
(* was foreseen.                                                           *)
LEMMA NextPartSecIs ==
  ASSUME NEW f, NEW t, UdfRegular(f, t), NEW d \in Dirs(t), NEW e \in Nat
  PROVE  NextPartSec(f, t, d, e) = e + 1 + BytesToSec(IdentBytes(f, t, d))
<1> DEFINE s == t.kids[d]
           n == Len(s)
           Takes(k) == CalcIdentSize(f, t.name[s[k]])
           After(run, k) ==
             LET bytes == run.bytes + Takes(k)
             IN IF bytes >= SectorSize THEN [sec |-> run.sec + 1, bytes |-> bytes - SectorSize]
                ELSE [run EXCEPT !.bytes = bytes]
           base == [sec |-> e + 1, bytes |-> ParentIdentSize]
           X    == [sec : Int, bytes : Int]
           step == [at \in X \X (1 .. n) |-> After(at[1], at[2])]
           IsFold(h) == h = [u \in SUBSET (1 .. n) |->
                               IF u = {} THEN base ELSE After(h[u \ {Max(u)}], Max(u))]
           H    == CHOOSE h : IsFold(h)
           run_ == H[1 .. n]
<1>1. IsTree(t) /\ SectorSize \in Nat \ {0} /\ SectorSize > 40
  BY SectorSizeAssumption, PartitionAssumption DEF UdfRegular, NamedTree
<1>2. n \in Nat /\ DOMAIN s = 1 .. n /\ \A k \in 1 .. n : Takes(k) \in 0 .. SectorSize
  BY <1>1, KidsOf, IdentsFit
<1>3. NextPartSec(f, t, d, e) = IF run_.bytes > 0 THEN run_.sec + 1 ELSE run_.sec
  BY <1>2 DEF NextPartSec, FoldLeft, MapThenFoldSet
<1>4. step \in [X \X (1 .. n) -> X]
  <2> SUFFICES ASSUME NEW run \in X, NEW k \in 1 .. n PROVE After(run, k) \in X
    <3> HIDE DEF X, After
    <3>1. \A at \in X \X (1 .. n) : at[1] \in X /\ at[2] \in 1 .. n
      OBVIOUS
    <3> QED  BY <3>1
  <2>1. Takes(k) \in Int /\ SectorSize \in Int
    BY <1>1, <1>2
  <2>2. run.sec \in Int /\ run.bytes \in Int
    OBVIOUS
  <2> DEFINE bytes == run.bytes + Takes(k)
  <2>3. bytes \in Int /\ bytes - SectorSize \in Int /\ run.sec + 1 \in Int
    <3> HIDE DEF Takes
    <3> QED  BY <2>1, <2>2
  <2>4. After(run, k) = IF bytes >= SectorSize THEN [sec |-> run.sec + 1, bytes |-> bytes - SectorSize]
                        ELSE [run EXCEPT !.bytes = bytes]
    OBVIOUS
  <2> HIDE DEF bytes, After
  <2> QED  BY <2>2, <2>3, <2>4
<1>5. \E h : IsFold(h)
  <2>1. PICK h \in [SUBSET (1 .. n) -> X] : Folds(h, n, base, step)
    <3>1. base \in X
      BY DEF ParentIdentSize
    <3> HIDE DEF X, step, base
    <3> QED  BY <1>2, <1>4, <3>1, FoldExists
  <2>2. \A u \in SUBSET (1 .. n) : u # {} =>
          step[<<h[u \ {Max(u)}], Max(u)>>] = After(h[u \ {Max(u)}], Max(u))
    <3> HIDE DEF X, After
    <3> SUFFICES ASSUME NEW u \in SUBSET (1 .. n), u # {}
                 PROVE  step[<<h[u \ {Max(u)}], Max(u)>>] = After(h[u \ {Max(u)}], Max(u))
      OBVIOUS
    <3>1. u \in SUBSET (0 .. n)
      OBVIOUS
    <3>2. Max(u) \in u
      BY <1>2, <3>1, MaxIsIn
    <3>3. h[u \ {Max(u)}] \in X
      OBVIOUS
    <3> QED  BY <3>2, <3>3
  <2>3. IsFold(h)
    <3> HIDE DEF X, step, After, base
    <3> QED  BY <2>1, <2>2 DEF Folds
  <2> QED  BY <2>3
<1>6. IsFold(H)
  <2> HIDE DEF IsFold
  <2> QED  BY <1>5
<1> HIDE DEF H
<1>7. PICK q : /\ q \in [0 .. n -> Nat] /\ q[0] = 0
               /\ \A k \in 1 .. n : q[k] = q[k - 1] + Takes(k)
               /\ IdentBytes(f, t, d) = ParentIdentSize + q[n]
  BY IdentsSum
<1> DEFINE Is(k) == H[1 .. k] = [sec   |-> e + 1 + (40 + q[k]) \div SectorSize,
                                 bytes |-> (40 + q[k]) % SectorSize]
           S == {k \in 0 .. n : Is(k)}
<1>8. 0 \in S
  <2>1. H[1 .. 0] = base
    <3> HIDE DEF base, After
    <3> QED  BY <1>2, <1>6, FirstPositions
  <2>2. (40 + q[0]) \div SectorSize = 0 /\ (40 + q[0]) % SectorSize = 40
    <3>1. 40 + q[0] = 0 * SectorSize + 40 /\ 40 \in 0 .. SectorSize - 1
      BY <1>1, <1>7
    <3> QED  BY <1>1, <3>1, DivModIs
  <2> QED  BY <1>2, <2>1, <2>2 DEF ParentIdentSize
<1>9. \A k \in 0 .. n - 1 : k \in S => k + 1 \in S
  <2> SUFFICES ASSUME NEW k \in 0 .. n - 1, k \in S PROVE Is(k + 1)
    <3>1. \A k \in 0 .. n - 1 : k + 1 \in 0 .. n
      <4> HIDE DEF n
      <4> QED  BY <1>2
    <3> HIDE DEF n, Is
    <3> QED  BY <3>1
  <2> DEFINE x == 40 + q[k]
             c == Takes(k + 1)
  <2>1. k + 1 \in 1 .. n /\ (k + 1) - 1 = k
    BY <1>2
  <2>2. x \in Nat /\ c \in 0 .. SectorSize /\ 40 + q[k + 1] = x + c
    <3>1. q[k] \in Nat /\ q[k + 1] = q[k] + Takes(k + 1) /\ Takes(k + 1) \in 0 .. SectorSize
      BY <1>2, <1>7, <2>1
    <3> QED  BY <3>1
  <2>3. H[1 .. k + 1] = After(H[1 .. k], k + 1)
    <3>1. /\ 1 .. k + 1 \in SUBSET (1 .. n) /\ 1 .. k + 1 # {} /\ Max(1 .. k + 1) = k + 1
          /\ (1 .. k + 1) \ {k + 1} = 1 .. k
      <4>1. \A j \in 1 .. n : /\ 1 .. j \in SUBSET (1 .. n) /\ 1 .. j # {} /\ Max(1 .. j) = j
                              /\ (1 .. j) \ {j} = 1 .. j - 1
        BY <1>2, FirstPositions
      <4> QED  BY <2>1, <4>1
    <3> HIDE DEF After, base
    <3> QED  BY <1>6, <3>1
  <2>4. IF (x % SectorSize) + c >= SectorSize
        THEN (x + c) \div SectorSize = (x \div SectorSize) + 1
             /\ (x + c) % SectorSize = (x % SectorSize) + c - SectorSize
        ELSE (x + c) \div SectorSize = x \div SectorSize
             /\ (x + c) % SectorSize = (x % SectorSize) + c
    BY <1>1, <2>2, StepOver
  <2>5. x \div SectorSize \in Nat /\ x % SectorSize \in 0 .. SectorSize - 1
    BY <1>1, <2>2, DivModOf
  <2>6. H[1 .. k] = [sec |-> e + 1 + x \div SectorSize, bytes |-> x % SectorSize]
    OBVIOUS
  <2>7. After(H[1 .. k], k + 1) =
          IF (x % SectorSize) + c >= SectorSize
          THEN [sec |-> e + 1 + x \div SectorSize + 1, bytes |-> (x % SectorSize) + c - SectorSize]
          ELSE [sec |-> e + 1 + x \div SectorSize, bytes |-> (x % SectorSize) + c]
    <3>1. \A a, b \in Int : After([sec |-> a, bytes |-> b], k + 1) =
                      IF b + c >= SectorSize
                      THEN [sec |-> a + 1, bytes |-> b + c - SectorSize]
                      ELSE [sec |-> a, bytes |-> b + c]
      <4>1. \A a, b, z : /\ [[sec |-> a, bytes |-> b] EXCEPT !.bytes = z] = [sec |-> a, bytes |-> z]
                         /\ [sec |-> a, bytes |-> b].bytes = b /\ [sec |-> a, bytes |-> b].sec = a
        OBVIOUS
      <4> SUFFICES ASSUME NEW a \in Int, NEW b \in Int
                   PROVE  After([sec |-> a, bytes |-> b], k + 1) =
                            IF b + c >= SectorSize
                            THEN [sec |-> a + 1, bytes |-> b + c - SectorSize]
                            ELSE [sec |-> a, bytes |-> b + c]
        OBVIOUS
      <4> HIDE DEF Takes
      <4>2. CASE b + c >= SectorSize
        BY <1>1, <2>2, <4>1, <4>2
      <4>3. CASE ~(b + c >= SectorSize)
        BY <1>1, <2>2, <4>1, <4>3
      <4> QED  BY <4>2, <4>3
    <3>2. e + 1 + x \div SectorSize \in Int /\ x % SectorSize \in Int
      BY <1>1, <2>5
    <3> HIDE DEF x, c, After
    <3> QED  BY <2>6, <3>1, <3>2
  <2>8. H[1 .. k + 1] = [sec |-> e + 1 + (x + c) \div SectorSize, bytes |-> (x + c) % SectorSize]
    <3> DEFINE a == x \div SectorSize
    <3>1. a \in Nat /\ e + 1 + (a + 1) = e + 1 + a + 1
      BY <2>5
    <3> HIDE DEF x, c, After, a
    <3>2. CASE (x % SectorSize) + c >= SectorSize
      <4>1. /\ H[1 .. k + 1] = [sec |-> e + 1 + a + 1, bytes |-> (x % SectorSize) + c - SectorSize]
            /\ (x + c) \div SectorSize = a + 1
            /\ (x + c) % SectorSize = (x % SectorSize) + c - SectorSize
        BY <2>3, <2>4, <2>7, <3>2 DEF a
      <4> QED  BY <3>1, <4>1
    <3>3. CASE ~((x % SectorSize) + c >= SectorSize)
      <4>1. /\ H[1 .. k + 1] = [sec |-> e + 1 + a, bytes |-> (x % SectorSize) + c]
            /\ (x + c) \div SectorSize = a /\ (x + c) % SectorSize = (x % SectorSize) + c
        BY <2>3, <2>4, <2>7, <3>3 DEF a
      <4> QED  BY <4>1
    <3> QED  BY <3>2, <3>3
  <2> QED  BY <2>2, <2>8
<1>10. n \in S
  <2>1. 0 .. n \subseteq S
    <3> HIDE DEF S
    <3> QED  BY <1>2, <1>8, <1>9, UpTo
  <2> HIDE DEF S
  <2> QED  BY <1>2, <2>1
<1>11. /\ run_.sec = e + 1 + IdentBytes(f, t, d) \div SectorSize
       /\ run_.bytes = IdentBytes(f, t, d) % SectorSize
  BY <1>7, <1>10 DEF ParentIdentSize
<1>12. IdentBytes(f, t, d) \in Nat
  BY IdentsSum DEF UdfRegular
<1>13. /\ BytesToSec(IdentBytes(f, t, d)) = IdentBytes(f, t, d) \div SectorSize
            + (IF IdentBytes(f, t, d) % SectorSize = 0 THEN 0 ELSE 1)
       /\ IdentBytes(f, t, d) \div SectorSize \in Nat
       /\ IdentBytes(f, t, d) % SectorSize \in 0 .. SectorSize - 1
  BY <1>1, <1>12, SectorsOf, DivModOf
<1> HIDE DEF run_, s
<1> QED
  BY <1>1, <1>3, <1>11, <1>13

(* And so does the stream.                                                 *)
LEMMA UdfDirWritten ==
  ASSUME NEW f, NEW t, UdfRegular(f, t), NEW d \in Dirs(t), NEW k \in Nat
  PROVE  WriteUdfDir(At(k), f, t, d) = At(k + 1 + BytesToSec(IdentBytes(f, t, d)))
<1> DEFINE s == t.kids[d]
           w == [n \in Range(s) |-> CalcIdentSize(f, t.name[n])]
           v == [n \in Range(s) |-> WriteIdentSize(f, t.name[n])]
           bytes == IdentBytes(f, t, d)
<1>1. IsTree(t)
  BY DEF UdfRegular, NamedTree
<1>2. s \in Seq(Nodes(t)) /\ \A i \in 1 .. Len(s) : s[i] \in Nodes(t) /\ s[i] \in Range(s)
  BY <1>1, KidsOf
<1>3. \A i \in 1 .. Len(s) : w[s[i]] \in Int /\ v[s[i]] = w[s[i]]
  <2> HIDE DEF s
  <2> QED  BY <1>2, IdentsFit
<1>4. SumOver(v, s) = SumOver(w, s)
  <2> HIDE DEF s, v, w
  <2> QED  BY <1>2, <1>3, SumOverSame
<1>5. WriteUdfDir(At(k), f, t, d) = PadSector(WriteBytes(WriteSectors(At(k), 1), bytes))
  <2>1. WriteUdfDir(At(k), f, t, d)
          = PadSector(WriteBytes(WriteSectors(At(k), 1), ParentIdentSize + SumOver(v, s)))
    BY DEF WriteUdfDir
  <2>2. bytes = ParentIdentSize + SumOver(w, s)
    BY DEF IdentBytes
  <2> HIDE DEF v, w, s, bytes
  <2> QED  BY <1>4, <2>1, <2>2
<1>6. bytes \in Nat /\ bytes % SectorSize # 0
  BY IdentsSum DEF UdfRegular, NamedTree
<1> HIDE DEF bytes
<1>7. WriteSectors(At(k), 1) = At(k + 1)
  BY WholeSectors
<1>8. /\ WriteBytes(At(k + 1), bytes)
           = [sector |-> k + 1 + bytes \div SectorSize, written |-> bytes % SectorSize]
      /\ bytes \div SectorSize \in Nat /\ bytes % SectorSize \in 0 .. SectorSize - 1
  BY <1>6, BytesFromStart
<1>9. PadSector(WriteBytes(At(k + 1), bytes)) = At(k + 1 + bytes \div SectorSize + 1)
  BY <1>8, PadIs
<1>10. BytesToSec(bytes) = bytes \div SectorSize + 1
  BY <1>6, SectorsOf
<1>11. k + 1 + bytes \div SectorSize + 1 = k + 1 + BytesToSec(bytes)
  BY <1>8, <1>10
<1> QED
  BY <1>5, <1>7, <1>9, <1>11 DEF bytes

-----------------------------------------------------------------------------
(* What a node takes with everything below it.                             *)

(* A node takes its entry at least, a file no more.                        *)
LEMMA UdfSizeIs ==
  ASSUME NEW f, NEW t, NamedTree(t), NEW n \in Nodes(t)
  PROVE  /\ UdfSize(f, t, n) \in Nat \ {0}
         /\ n \in Files(t) => UdfSize(f, t, n) = 1
<1>1. Dirs(t) \cap Files(t) = {}
  BY DEF NamedTree, IsTree
<1>2. CASE n \in Dirs(t)
  <2>1. IdentBytes(f, t, n) \in Nat
    BY <1>2, IdentBytesNat
  <2>2. BytesToSec(IdentBytes(f, t, n)) \in Nat
    <3>1. IdentBytes(f, t, n) \div SectorSize \in Nat
      BY <2>1, SectorSizeAssumption, DivModOf
    <3> QED  BY <2>1, <3>1, SectorsOf
  <2> QED  BY <1>1, <1>2, <2>2 DEF UdfSize
<1>3. CASE n \notin Dirs(t)
  BY <1>3 DEF UdfSize
<1> QED
  BY <1>2, <1>3

(* g is what the nodes of S and all files take; S has the children of its  *)
(* directories.                                                            *)
Totals(f, t, S, g) ==
  /\ \A d \in S : \A i \in 1 .. Len(t.kids[d]) : t.kids[d][i] \in S \cup Files(t)
  /\ g \in [S \cup Files(t) -> Nat]
  /\ \A n \in Files(t) : g[n] = UdfSize(f, t, n)
  /\ \A d \in S : g[d] = UdfSize(f, t, d) + SumOver(g, t.kids[d])

(* One more directory, when the numbers of its children are there.         *)
LEMMA TotalsExtend ==
  ASSUME NEW f, NEW t, NamedTree(t), NEW S \in SUBSET Dirs(t), NEW g, Totals(f, t, S, g),
         NEW d \in Dirs(t) \ S, \A i \in 1 .. Len(t.kids[d]) : t.kids[d][i] \in S \cup Files(t)
  PROVE  \E h : Totals(f, t, S \cup {d}, h)
<1>1. IsTree(t) /\ Dirs(t) \cap Files(t) = {} /\ d \notin S \cup Files(t)
  BY DEF NamedTree, IsTree
<1>2. \A e \in S \cup {d} : /\ e \in Dirs(t) /\ t.kids[e] \in Seq(Nodes(t))
                            /\ \A i \in 1 .. Len(t.kids[e]) : t.kids[e][i] \in S \cup Files(t)
  BY <1>1, KidsOf DEF Totals
<1> DEFINE total == UdfSize(f, t, d) + SumOver(g, t.kids[d])
           h == [n \in (S \cup {d}) \cup Files(t) |-> IF n = d THEN total ELSE g[n]]
<1>3. \A n \in S \cup Files(t) : h[n] = g[n] /\ g[n] \in Nat
  BY <1>1 DEF Totals
<1>4. h[d] = total
  OBVIOUS
<1>5. \A e \in S \cup {d} : SumOver(h, t.kids[e]) = SumOver(g, t.kids[e])
                            /\ SumOver(g, t.kids[e]) \in Nat
  <2> HIDE DEF h
  <2> TAKE e \in S \cup {d}
  <2>1. \A i \in 1 .. Len(t.kids[e]) : /\ g[t.kids[e][i]] \in Int /\ g[t.kids[e][i]] \in Nat
                                       /\ h[t.kids[e][i]] = g[t.kids[e][i]]
    BY <1>2, <1>3
  <2> QED  BY <1>2, <2>1, SumOverSame, SumOverNat
<1>6. total \in Nat
  <2>1. UdfSize(f, t, d) \in Nat
    BY UdfSizeIs DEF Nodes
  <2>2. SumOver(g, t.kids[d]) \in Nat
    BY <1>5
  <2> QED  BY <2>1, <2>2
<1>7. h \in [(S \cup {d}) \cup Files(t) -> Nat]
  <2> HIDE DEF total
  <2> QED  BY <1>3, <1>6
<1>8. \A e \in S \cup {d} : h[e] = UdfSize(f, t, e) + SumOver(h, t.kids[e])
  <2> HIDE DEF h
  <2> QED  BY <1>3, <1>4, <1>5 DEF Totals
<1>9. \A n \in Files(t) : h[n] = UdfSize(f, t, n)
  <2> HIDE DEF h
  <2> QED  BY <1>3 DEF Totals
<1>10. \A e \in S \cup {d} : \A i \in 1 .. Len(t.kids[e]) : t.kids[e][i] \in (S \cup {d}) \cup Files(t)
  BY <1>2
<1> HIDE DEF h
<1>11. Totals(f, t, S \cup {d}, h)
  BY <1>7, <1>8, <1>9, <1>10 DEF Totals
<1> QED
  BY <1>11

(* The tree ends somewhere, so there are such numbers for all of it.       *)
LEMMA TotalsExist ==
  ASSUME NEW f, NEW t, NamedTree(t)
  PROVE  \E g : Totals(f, t, Dirs(t), g)
<1> DEFINE Good  == {S \in SUBSET Dirs(t) : \E g : Totals(f, t, S, g)}
           Sizes == {Cardinality(S) : S \in Good}
           n     == Cardinality(Dirs(t))
<1>1. IsTree(t) /\ IsFiniteSet(Dirs(t)) /\ n \in Nat
  BY FS_Subset, FS_CardinalityType DEF NamedTree, Nodes
<1>2. \A S \in SUBSET Dirs(t) : IsFiniteSet(S) /\ Cardinality(S) \in 0 .. n
  BY <1>1, FS_Subset, FS_CardinalityType
<1>3. {} \in Good
  <2> DEFINE g == [m \in {} \cup Files(t) |-> UdfSize(f, t, m)]
  <2>1. \A m \in Files(t) : g[m] = UdfSize(f, t, m) /\ UdfSize(f, t, m) \in Nat
    BY UdfSizeIs DEF Nodes
  <2>2. g \in [{} \cup Files(t) -> Nat]
    BY <2>1
  <2> HIDE DEF g
  <2>3. Totals(f, t, {}, g)
    BY <2>1, <2>2 DEF Totals
  <2> QED  BY <2>3
<1>4. Sizes \in SUBSET (0 .. n) /\ Sizes # {}
  <2> HIDE DEF n
  <2> QED  BY <1>2, <1>3
<1> HIDE DEF Good
<1>5. Max(Sizes) \in Sizes /\ \A k \in Sizes : k <= Max(Sizes)
  <2> HIDE DEF Sizes, n
  <2> QED  BY <1>1, <1>4, MaxIsIn
<1>6. PICK S \in Good : \A T \in Good : Cardinality(T) <= Cardinality(S)
  BY <1>5
<1>7. S \in SUBSET Dirs(t) /\ \E g : Totals(f, t, S, g)
  BY DEF Good
<1>8. ASSUME S # Dirs(t) PROVE FALSE
  <2> DEFINE Out == Dirs(t) \ S
  <2>1. Out \in SUBSET Dirs(t) /\ Out # {}
    BY <1>7, <1>8
  <2>2. PICK d \in Out : Range(t.kids[d]) \cap Out = {}
    <3> HIDE DEF Out
    <3> QED  BY <1>1, <2>1 DEF IsTree
  <2>3. \A i \in 1 .. Len(t.kids[d]) : t.kids[d][i] \in S \cup Files(t)
    <3> TAKE i \in 1 .. Len(t.kids[d])
    <3>1. t.kids[d][i] \in Nodes(t) /\ t.kids[d][i] \in Range(t.kids[d])
      BY <1>1, KidsOf
    <3> QED  BY <2>2, <3>1 DEF Nodes
  <2>4. \E g : Totals(f, t, S \cup {d}, g)
    BY <1>7, <2>3, TotalsExtend
  <2>5. S \cup {d} \in Good
    BY <1>7, <2>4 DEF Good
  <2>6. Cardinality(S \cup {d}) = Cardinality(S) + 1
    BY <1>2, <1>7, FS_AddElement
  <2>7. Cardinality(S) \in Nat
    BY <1>2, <1>7
  <2> QED  BY <1>6, <2>5, <2>6, <2>7
<1> QED
  BY <1>7, <1>8

(* calc_node_size_total gives the numbers: there is only one such          *)
(* function.                                                               *)
LEMMA TotalsAre ==
  ASSUME NEW f, NEW t, NamedTree(t)
  PROVE  Totals(f, t, Dirs(t), UdfSizeTotal(f, t))
<1> DEFINE IsTot(g) == g = [n \in Nodes(t) |->
                              IF n \in Files(t) THEN UdfSize(f, t, n)
                              ELSE UdfSize(f, t, n) + SumOver(g, t.kids[n])]
           tot == CHOOSE g : IsTot(g)
<1>1. UdfSizeTotal(f, t) = tot
  BY DEF UdfSizeTotal
<1>2. PICK g : Totals(f, t, Dirs(t), g)
  BY TotalsExist
<1>3. Dirs(t) \cup Files(t) = Nodes(t) /\ Dirs(t) \cap Files(t) = {}
  BY DEF Nodes, NamedTree, IsTree
<1>4. IsTot(g)
  <2>1. g = [n \in Nodes(t) |-> g[n]]
    BY <1>2, <1>3 DEF Totals
  <2>2. \A n \in Nodes(t) : g[n] = IF n \in Files(t) THEN UdfSize(f, t, n)
                                   ELSE UdfSize(f, t, n) + SumOver(g, t.kids[n])
    BY <1>2, <1>3 DEF Totals
  <2> QED  BY <2>1, <2>2
<1>5. IsTot(tot)
  <2> HIDE DEF IsTot
  <2> QED  BY <1>4
<1> HIDE DEF tot
<1> DEFINE Agree == {d \in Dirs(t) : tot[d] = g[d]}
<1>6. \A n \in Files(t) : tot[n] = UdfSize(f, t, n) /\ n \in Nodes(t)
  BY <1>3, <1>5
<1>7. \A d \in Dirs(t) : tot[d] = UdfSize(f, t, d) + SumOver(tot, t.kids[d])
  BY <1>3, <1>5
<1>8. Agree = Dirs(t)
  <2> SUFFICES ASSUME Dirs(t) \ Agree # {} PROVE FALSE
    OBVIOUS
  <2> DEFINE Out == Dirs(t) \ Agree
  <2>1. IsTree(t) /\ Out \in SUBSET Dirs(t)
    BY DEF NamedTree
  <2>2. PICK d \in Out : Range(t.kids[d]) \cap Out = {}
    <3> HIDE DEF Out
    <3> QED  BY <2>1 DEF IsTree, Out
  <2>3. \A i \in 1 .. Len(t.kids[d]) : tot[t.kids[d][i]] = g[t.kids[d][i]] /\ g[t.kids[d][i]] \in Int
    <3> TAKE i \in 1 .. Len(t.kids[d])
    <3>1. t.kids[d][i] \in Nodes(t) /\ t.kids[d][i] \in Range(t.kids[d])
      BY <2>1, KidsOf
    <3> QED  BY <1>2, <1>3, <1>6, <2>2, <3>1 DEF Totals
  <2>4. d \in Dirs(t) /\ t.kids[d] \in Seq(Nodes(t))
    BY <2>1, KidsOf
  <2>5. SumOver(tot, t.kids[d]) = SumOver(g, t.kids[d])
    BY <2>3, <2>4, SumOverSame
  <2> QED  BY <1>2, <1>7, <2>4, <2>5 DEF Totals
<1>9. \A n \in Dirs(t) \cup Files(t) : tot[n] = g[n]
  BY <1>2, <1>6, <1>8 DEF Totals
<1>10. tot = g
  <2>1. tot = [n \in Nodes(t) |-> tot[n]]
    BY <1>5
  <2>2. g = [n \in Nodes(t) |-> g[n]]
    BY <1>2, <1>3 DEF Totals
  <2> QED  BY <1>3, <1>9, <2>1, <2>2
<1> QED
  BY <1>1, <1>2, <1>10

(* The children's places follow each other, and what a directory takes     *)
(* ends where the last of them ends.                                       *)
LEMMA ChildrenFollow ==
  ASSUME NEW f, NEW t, UdfRegular(f, t), NEW d \in Dirs(t), NEW e \in Nat
  PROVE  LET locs  == ChildEntries(f, t, d, e)
             tot   == UdfSizeTotal(f, t)
             kids  == t.kids[d]
             first == e + UdfSize(f, t, d)
         IN /\ \A i \in 1 .. Len(kids) : locs[i] \in Nat /\ tot[kids[i]] \in Nat
            /\ kids = <<>> => tot[d] = UdfSize(f, t, d)
            /\ kids # <<>> => /\ locs[1] = first
                              /\ locs[Len(kids)] + tot[kids[Len(kids)]] = e + tot[d]
            /\ \A i \in 1 .. Len(kids) - 1 : locs[i + 1] = locs[i] + tot[kids[i]]
<1> DEFINE tot   == UdfSizeTotal(f, t)
           kids  == t.kids[d]
           first == e + UdfSize(f, t, d)
           locs  == ChildEntries(f, t, d, e)
           Sum(k) == SumOver(tot, SubSeq(kids, 1, k))
<1>1. IsTree(t) /\ Totals(f, t, Dirs(t), tot)
  BY TotalsAre DEF UdfRegular, NamedTree
<1>2. /\ kids \in Seq(Nodes(t)) /\ Len(kids) \in Nat /\ DOMAIN kids = 1 .. Len(kids)
      /\ \A i \in 1 .. Len(kids) : kids[i] \in Nodes(t)
  BY <1>1, KidsOf
<1>3. first \in Nat /\ first = e + 1 + BytesToSec(IdentBytes(f, t, d))
  <2>1. d \in Nodes(t)
    BY DEF Nodes
  <2>2. UdfSize(f, t, d) = 1 + BytesToSec(IdentBytes(f, t, d)) /\ UdfSize(f, t, d) \in Nat
    BY <2>1, UdfSizeIs DEF UdfRegular, UdfSize
  <2>3. BytesToSec(IdentBytes(f, t, d)) \in Nat
    <3>1. IdentBytes(f, t, d) \in Nat
      BY IdentsSum DEF UdfRegular
    <3>2. IdentBytes(f, t, d) \div SectorSize \in Nat
      BY <3>1, SectorSizeAssumption, DivModOf DEF UdfRegular
    <3> QED  BY <3>1, <3>2, SectorsOf
  <2> QED  BY <2>2, <2>3
<1>4. \A i \in 1 .. Len(kids) : locs[i] = first + Sum(i - 1)
  <2>1. locs = [i \in DOMAIN kids |->
                  e + 1 + BytesToSec(IdentBytes(f, t, d)) + SumOver(tot, SubSeq(kids, 1, i - 1))]
    BY DEF ChildEntries
  <2> HIDE DEF tot, first, locs, kids
  <2> QED  BY <1>2, <1>3, <2>1
<1>5. \A i \in 1 .. Len(kids) : tot[kids[i]] \in Nat
  <2> HIDE DEF kids, tot
  <2> QED  BY <1>1, <1>2 DEF Totals, Nodes
<1>6. tot[d] = UdfSize(f, t, d) + SumOver(tot, kids)
  BY <1>1 DEF Totals
<1> HIDE DEF tot, kids
<1>7. /\ Sum(0) = 0 /\ \A k \in 1 .. Len(kids) : Sum(k) = Sum(k - 1) + tot[kids[k]]
      /\ \A k \in 0 .. Len(kids) : Sum(k) \in Int
      /\ Sum(Len(kids)) = SumOver(tot, kids)
  <2>1. \A i \in 1 .. Len(kids) : tot[kids[i]] \in Int
    BY <1>5
  <2> QED  BY <1>2, <2>1, SumOverPrefixes
<1> HIDE DEF Sum
<1>8. \A k \in 0 .. Len(kids) : Sum(k) \in Nat
  <2> DEFINE S == {k \in 0 .. Len(kids) : Sum(k) \in Nat}
  <2>1. 0 \in S
    BY <1>2, <1>7
  <2>2. \A k \in 0 .. Len(kids) - 1 : k \in S => k + 1 \in S
    <3> TAKE k \in 0 .. Len(kids) - 1
    <3> HAVE k \in S
    <3>1. k + 1 \in 1 .. Len(kids) /\ k + 1 \in 0 .. Len(kids) /\ (k + 1) - 1 = k
      BY <1>2
    <3>2. Sum(k + 1) = Sum(k) + tot[kids[k + 1]]
      BY <1>7, <3>1
    <3> QED  BY <1>5, <3>1, <3>2
  <2>3. 0 .. Len(kids) \subseteq S
    <3> HIDE DEF S
    <3> QED  BY <1>2, <2>1, <2>2, UpTo
  <2> QED  BY <2>3
<1>9. UdfSize(f, t, d) \in Nat
  BY UdfSizeIs DEF UdfRegular, Nodes
<1> HIDE DEF first, locs
<1>10. \A i \in 1 .. Len(kids) : locs[i] \in Nat
  <2> TAKE i \in 1 .. Len(kids)
  <2>1. i - 1 \in 0 .. Len(kids)
    BY <1>2
  <2> QED  BY <1>3, <1>4, <1>8, <2>1
<1>11. kids = <<>> => tot[d] = UdfSize(f, t, d)
  <2> SUFFICES ASSUME kids = <<>> PROVE tot[d] = UdfSize(f, t, d)
    OBVIOUS
  <2>1. Len(kids) = 0
    OBVIOUS
  <2> QED  BY <1>6, <1>7, <1>9, <2>1
<1>12. kids # <<>> => locs[1] = first /\ locs[Len(kids)] + tot[kids[Len(kids)]] = e + tot[d]
  <2> SUFFICES ASSUME kids # <<>>
               PROVE  locs[1] = first /\ locs[Len(kids)] + tot[kids[Len(kids)]] = e + tot[d]
    OBVIOUS
  <2>1. 1 \in 1 .. Len(kids) /\ Len(kids) \in 1 .. Len(kids) /\ Len(kids) - 1 \in 0 .. Len(kids)
    BY <1>2
  <2>2. locs[1] = first
    BY <1>3, <1>4, <1>7, <2>1
  <2>3. locs[Len(kids)] = first + Sum(Len(kids) - 1)
    BY <1>4, <2>1
  <2>4. Sum(Len(kids)) = Sum(Len(kids) - 1) + tot[kids[Len(kids)]]
    BY <1>7, <2>1
  <2>5. first + Sum(Len(kids)) = e + tot[d]
    <3>1. Sum(Len(kids)) \in Nat
      BY <1>2, <1>8
    <3> QED  BY <1>6, <1>7, <1>9, <3>1 DEF first
  <2>6. Sum(Len(kids) - 1) \in Nat /\ tot[kids[Len(kids)]] \in Nat
    BY <1>5, <1>8, <2>1
  <2>7. locs[Len(kids)] + tot[kids[Len(kids)]] = first + Sum(Len(kids))
    <3>1. ASSUME NEW a \in Nat, NEW b \in Nat, NEW c \in Nat
          PROVE  (a + b) + c = a + (b + c)
      OBVIOUS
    <3> QED  BY <1>3, <2>3, <2>4, <2>6, <3>1
  <2> QED  BY <2>2, <2>5, <2>7
<1>13. \A i \in 1 .. Len(kids) - 1 : locs[i + 1] = locs[i] + tot[kids[i]]
  <2> TAKE i \in 1 .. Len(kids) - 1
  <2>1. i \in 1 .. Len(kids) /\ i + 1 \in 1 .. Len(kids) /\ (i + 1) - 1 = i /\ i - 1 \in 0 .. Len(kids)
    BY <1>2
  <2>2. locs[i + 1] = first + Sum(i) /\ locs[i] = first + Sum(i - 1) /\ Sum(i) = Sum(i - 1) + tot[kids[i]]
    BY <1>4, <1>7, <2>1
  <2>3. first \in Nat /\ Sum(i - 1) \in Nat /\ tot[kids[i]] \in Nat
    BY <1>3, <1>5, <1>8, <2>1
  <2> QED  BY <2>2, <2>3
<1>14. ChildEntries(f, t, d, e) = locs /\ UdfSizeTotal(f, t) = tot /\ t.kids[d] = kids
       /\ e + UdfSize(f, t, d) = first
  BY DEF tot, kids, first, locs
<1> QED
  BY <1>5, <1>10, <1>11, <1>12, <1>13, <1>14 DEF first

-----------------------------------------------------------------------------
(* The header, as it is reserved and as it is written.                     *)

One(cond) == IF cond THEN 1 ELSE 0

Descriptors(f) == 2 + One(f.images # <<>>) + One(HasSuppl(f)) + One(IsJoliet(f))

HeaderSectors(f) ==
  IF ~IsIso(f) THEN 0
  ELSE IF f.extended \/ f.images = <<>> THEN Descriptors(f)
  ELSE Descriptors(f) + BytesToSec(BootCatSize(f.images)) + BytesToSec(BootDataSize(f.images))

(* The manager's fields that the proofs look at.                           *)
Places(m) == {"next", "start"} \subseteq DOMAIN m /\ DOMAIN m.start = Regions

(* Counters below 2^64 do not wrap.                                        *)
LEMMA InWord ==
  ASSUME NEW x \in Nat, x < Word
  PROVE  x % Word = x
<1>1. Word \in Nat \ {0} /\ x \in 0 .. Word - 1 /\ 0 * Word + x = x
  BY WordAssumption
<1> QED
  BY <1>1, DivModIs

(* alloc_sectors: the range starts where the one before ended.             *)
LEMMA PlacedInOrder ==
  ASSUME NEW m, Places(m), NEW r \in Regions, NEW k
  PROVE  /\ Places(AllocSectors(m, r, k))
         /\ AllocSectors(m, r, k).start[r] = m.next
         /\ AllocSectors(m, r, k).next = (m.next + k) % Word
         /\ \A q \in Regions : q # r => AllocSectors(m, r, k).start[q] = m.start[q]
BY DEF Places, AllocSectors

(* Sizes of boot images and of the catalog.                                *)
LEMMA ImagesSize ==
  ASSUME NEW images, AreImages(images)
  PROVE  BootDataSize(images) \in Nat /\ BootCatSize(images) \in Nat
<1> DEFINE w == [image \in Range(images) |-> image.size]
<1>1. images \in Seq(Range(images)) /\ \A i \in 1 .. Len(images) : images[i] \in Range(images)
  BY DEF AreImages
<1>2. \A i \in 1 .. Len(images) : w[images[i]] \in Nat
  BY <1>1 DEF AreImages
<1> HIDE DEF w
<1>3. SumOver(w, images) \in Nat
  BY <1>1, <1>2, SumOverNat
<1>4. Len(images) \in Nat
  BY <1>1
<1> QED
  BY <1>3, <1>4 DEF BootDataSize, BootCatSize, w

(* Sectors are counted from 0.                                             *)
LEMMA SectorsNat ==
  ASSUME NEW c \in Nat
  PROVE  BytesToSec(c) \in Nat
<1>1. c \div SectorSize \in Nat
  BY SectorSizeAssumption, DivModOf
<1> QED
  BY <1>1, SectorsOf

(* The header leaves room for the descriptors of UDF before sector 257.    *)
LEMMA HeaderFits ==
  ASSUME NEW f, NEW t, Regular(f, t), IsUdf(f), AreImages(f.images)
  PROVE  HeaderSectors(f) \in Nat /\ HeaderSectors(f) + 19 <= 222
<1>1. Descriptors(f) \in 2 .. 5
  BY DEF Descriptors, One
<1>2. BytesToSec(BootCatSize(f.images)) \in Nat /\ BytesToSec(BootDataSize(f.images)) \in Nat
  BY ImagesSize, SectorsNat
<1>3. ~f.extended => 8 + BytesToSec(BootCatSize(f.images)) + BytesToSec(BootDataSize(f.images)) <= 222 - 16
  BY DEF Regular
<1> DEFINE c == BytesToSec(BootCatSize(f.images))
           d == BytesToSec(BootDataSize(f.images))
<1> HIDE DEF c, d
<1>4. c \in Nat /\ d \in Nat /\ (~f.extended => 8 + c + d <= 222 - 16)
  BY <1>2, <1>3 DEF c, d
<1>5. HeaderSectors(f) = IF ~IsIso(f) THEN 0
                         ELSE IF f.extended \/ f.images = <<>> THEN Descriptors(f)
                         ELSE Descriptors(f) + c + d
  BY DEF HeaderSectors, c, d
<1>6. CASE HeaderSectors(f) = 0
  BY <1>6
<1>7. CASE HeaderSectors(f) = Descriptors(f)
  BY <1>1, <1>7
<1>8. CASE ~f.extended /\ HeaderSectors(f) = Descriptors(f) + c + d
  BY <1>1, <1>4, <1>8
<1> QED
  BY <1>5, <1>6, <1>7, <1>8

(* The main descriptors are reserved behind the header and the initial     *)
(* descriptors of UDF.                                                     *)
LEMMA MainReserved ==
  ASSUME NEW f, NEW t, Regular(f, t), IsUdf(f), AreImages(f.images)
  PROVE  LET m == AllocUdf(IF IsIso(f) THEN AllocIsoHeader(NewManager(16), f) ELSE NewManager(16), f, t)
         IN Places(m) /\ m.start["main"] = 19 + HeaderSectors(f)
<1> DEFINE iso == IF IsIso(f) THEN AllocIsoHeader(NewManager(16), f) ELSE NewManager(16)
           new == NewManager(16)
<1>1. \A r \in {"descriptors", "bootcatalog", "bootdata", "initial", "main", "fileset"} : r \in Regions
  BY RegionsAssumption DEF IsoRegions, UdfRegions
<1>2. HeaderSectors(f) \in Nat /\ HeaderSectors(f) + 19 <= 222 /\ Word > 258 /\ Word \in Nat
  BY HeaderFits, PartitionAssumption, WordAssumption
<1>3. Places(new) /\ new.next = 16
  BY DEF Places, NewManager
<1>4. Places(iso) /\ iso.next = 16 + HeaderSectors(f)
  <2>1. CASE ~IsIso(f)
    BY <1>3, <2>1 DEF HeaderSectors
  <2>2. CASE IsIso(f)
    <3> DEFINE header == AllocSectors(new, "descriptors", Descriptors(f))
               c == BytesToSec(BootCatSize(f.images))
               d == BytesToSec(BootDataSize(f.images))
    <3>1. Descriptors(f) \in 2 .. 5 /\ c \in Nat /\ d \in Nat
      <4>1. c \in Nat /\ d \in Nat
        BY ImagesSize, SectorsNat
      <4> HIDE DEF c, d
      <4> QED  BY <4>1 DEF Descriptors, One
    <3>2. BytesToSec(SectorSize * (2 + (IF f.images # <<>> THEN 1 ELSE 0)
                                     + (IF HasSuppl(f) THEN 1 ELSE 0)
                                     + (IF IsJoliet(f) THEN 1 ELSE 0))) = Descriptors(f)
      <4>1. SectorSize * Descriptors(f) = Descriptors(f) * SectorSize + 0
        BY <3>1, SectorSizeAssumption
      <4>2. BytesToSec(Descriptors(f) * SectorSize + 0) = Descriptors(f)
        <5>1. Descriptors(f) \in Nat /\ 0 \in 0 .. SectorSize - 1
          BY <3>1, SectorSizeAssumption
        <5> QED  BY <5>1, BytesToSecIs
      <4> QED  BY <4>1, <4>2 DEF Descriptors, One
    <3>3. AllocBytes(new, "descriptors", SectorSize * (2 + (IF f.images # <<>> THEN 1 ELSE 0)
                                     + (IF HasSuppl(f) THEN 1 ELSE 0)
                                     + (IF IsJoliet(f) THEN 1 ELSE 0))) = header
      BY <3>2 DEF AllocBytes
    <3>4. iso = IF f.extended \/ f.images = <<>> THEN header
                ELSE AllocSectors(AllocSectors(header, "bootcatalog", c), "bootdata", d)
      <4>1. iso = AllocIsoHeader(new, f)
        BY <2>2
      <4> HIDE DEF iso, new, header
      <4> QED  BY <3>3, <4>1 DEF AllocIsoHeader, AllocBytes
    <3> HIDE DEF iso, new, c, d
    <3>5. Places(header) /\ header.next = (16 + Descriptors(f)) % Word
      BY <1>1, <1>3, PlacedInOrder
    <3> HIDE DEF header
    <3>6. CASE f.extended \/ f.images = <<>>
      <4>1. HeaderSectors(f) = Descriptors(f) /\ 16 + Descriptors(f) \in Nat /\ 16 + Descriptors(f) < Word
        BY <1>2, <2>2, <3>1, <3>6 DEF HeaderSectors
      <4> QED  BY <3>4, <3>5, <3>6, <4>1, InWord
    <3>7. CASE ~(f.extended \/ f.images = <<>>)
      <4>1. HeaderSectors(f) = Descriptors(f) + c + d
        BY <2>2, <3>7 DEF HeaderSectors, c, d
      <4>2. header.next = 16 + Descriptors(f)
        <5>1. 16 + Descriptors(f) \in Nat /\ 16 + Descriptors(f) < Word
          BY <1>2, <3>1, <4>1
        <5> QED  BY <3>5, <5>1, InWord
      <4> DEFINE cat == AllocSectors(header, "bootcatalog", c)
      <4>3. Places(cat) /\ cat.next = 16 + Descriptors(f) + c
        <5>1. 16 + Descriptors(f) + c \in Nat /\ 16 + Descriptors(f) + c < Word
          BY <1>2, <3>1, <4>1
        <5>2. Places(cat) /\ cat.next = (header.next + c) % Word
          BY <1>1, <3>5, PlacedInOrder
        <5> QED  BY <4>2, <5>1, <5>2, InWord
      <4> HIDE DEF cat
      <4>4. Places(AllocSectors(cat, "bootdata", d))
            /\ AllocSectors(cat, "bootdata", d).next = 16 + Descriptors(f) + c + d
        <5>1. 16 + Descriptors(f) + c + d \in Nat /\ 16 + Descriptors(f) + c + d < Word
          BY <1>2, <3>1, <4>1
        <5>2. Places(AllocSectors(cat, "bootdata", d))
              /\ AllocSectors(cat, "bootdata", d).next = (cat.next + d) % Word
          BY <1>1, <4>3, PlacedInOrder
        <5> QED  BY <4>3, <5>1, <5>2, InWord
      <4>5. iso = AllocSectors(cat, "bootdata", d)
        BY <3>4, <3>7 DEF cat
      <4> QED  BY <3>1, <4>1, <4>4, <4>5
    <3> QED  BY <3>6, <3>7
  <2> QED  BY <2>1, <2>2
<1> HIDE DEF iso, new
<1> DEFINE initial == AllocSectors(iso, "initial", 3)
           main    == AllocSectors(initial, "main", 258 - initial.next)
           fileset == AllocSectors(main, "fileset", UdfSizeTotal(f, t)[Root])
<1>5. Places(initial) /\ initial.next = 19 + HeaderSectors(f)
  <2>1. Places(initial) /\ initial.next = (16 + HeaderSectors(f) + 3) % Word
    BY <1>1, <1>4, PlacedInOrder
  <2>2. 16 + HeaderSectors(f) + 3 \in Nat /\ 16 + HeaderSectors(f) + 3 < Word
    BY <1>2
  <2>3. (16 + HeaderSectors(f) + 3) % Word = 16 + HeaderSectors(f) + 3
    BY <2>2, InWord
  <2>4. 16 + HeaderSectors(f) + 3 = 19 + HeaderSectors(f)
    BY <1>2
  <2> QED  BY <2>1, <2>3, <2>4
<1> HIDE DEF initial
<1>6. Places(main) /\ main.start["main"] = 19 + HeaderSectors(f)
  BY <1>1, <1>5, PlacedInOrder
<1> HIDE DEF main
<1>7. Places(fileset) /\ fileset.start["main"] = 19 + HeaderSectors(f)
  BY <1>1, <1>6, PlacedInOrder
<1>8. AllocUdf(iso, f, t) = fileset
  BY DEF AllocUdf, fileset, main, initial
<1> QED
  BY <1>7, <1>8 DEF iso, new

(* The stream stays one.                                                   *)
LEMMA StreamTyped ==
  ASSUME NEW s \in StreamType, NEW c \in Nat
  PROVE  WriteBytes(s, c) \in StreamType /\ PadIfOpen(WriteBytes(s, c)) \in StreamType
<1>1. \A u \in StreamType, k \in Nat : WriteBytes(u, k) \in StreamType
  <2> SUFFICES ASSUME NEW u \in StreamType, NEW k \in Nat PROVE WriteBytes(u, k) \in StreamType
    OBVIOUS
  <2>1. u.sector \in Nat /\ u.written \in Nat /\ u.written + k \in Nat
    BY SectorSizeAssumption DEF StreamType
  <2>2. (u.written + k) \div SectorSize \in Nat /\ (u.written + k) % SectorSize \in 0 .. SectorSize - 1
    BY <2>1, SectorSizeAssumption, DivModOf
  <2> QED  BY <2>1, <2>2 DEF StreamType, WriteBytes
<1>2. \A u \in StreamType : Remaining(u) \in Nat
  BY SectorSizeAssumption DEF StreamType, Remaining
<1> QED
  BY <1>1, <1>2 DEF PadIfOpen, PadSector

(* What comes behind whole sectors is counted by itself.                   *)
LEMMA BehindWhole ==
  ASSUME NEW x \in Nat, x % SectorSize = 0, NEW c \in Nat
  PROVE  /\ BytesToSec(x + c) = BytesToSec(x) + BytesToSec(c)
         /\ c % SectorSize = 0 => (x + c) % SectorSize = 0
<1> DEFINE a == x \div SectorSize
           b == c \div SectorSize
           r == c % SectorSize
<1>1. SectorSize \in Nat \ {0}
  BY SectorSizeAssumption
<1>2. a \in Nat /\ x = a * SectorSize /\ b \in Nat /\ r \in 0 .. SectorSize - 1 /\ c = b * SectorSize + r
  <2>1. /\ x \div SectorSize \in Nat /\ x % SectorSize \in 0 .. SectorSize - 1
        /\ x = (x \div SectorSize) * SectorSize + (x % SectorSize)
    BY <1>1, DivModOf
  <2>2. /\ c \div SectorSize \in Nat /\ c % SectorSize \in 0 .. SectorSize - 1
        /\ c = (c \div SectorSize) * SectorSize + (c % SectorSize)
    BY <1>1, DivModOf
  <2>3. (x \div SectorSize) * SectorSize \in Nat
    BY <1>1, <2>1
  <2> QED  BY <2>1, <2>2, <2>3
<1>3. BytesToSec(x) = a + 0 /\ BytesToSec(c) = b + (IF r = 0 THEN 0 ELSE 1)
  <2>1. BytesToSec(x) = a + (IF x % SectorSize = 0 THEN 0 ELSE 1)
    BY SectorsOf
  <2>2. BytesToSec(c) = b + (IF r = 0 THEN 0 ELSE 1)
    BY SectorsOf
  <2> QED  BY <2>1, <2>2
<1>4. r = c % SectorSize
  OBVIOUS
<1> HIDE DEF a, b, r
<1>5. x + c = (a + b) * SectorSize + r /\ a + b \in Nat
  BY <1>1, <1>2
<1>6. BytesToSec(x + c) = a + b + (IF r = 0 THEN 0 ELSE 1)
  BY <1>2, <1>5, BytesToSecIs
<1>7. (x + c) % SectorSize = r
  BY <1>1, <1>2, <1>5, DivModIs
<1> QED
  BY <1>2, <1>3, <1>4, <1>6, <1>7

(* Images of whole sectors, but for the last, take what was reserved.      *)
LEMMA ImagesWritten ==
  ASSUME NEW images, AreImages(images), NEW c \in Nat,
         \A i \in DOMAIN images : i < Len(images) => images[i].size % SectorSize = 0
  PROVE  WriteBootImages(At(c), images).out = At(c + BytesToSec(BootDataSize(images)))
<1> DEFINE n == Len(images)
           After(run, k) ==
             [at  |-> Append(run.at, run.out.sector),
              out |-> PadIfOpen(WriteBytes(run.out, images[k].size))]
           base == [at |-> <<>>, out |-> At(c)]
           X    == [at : Seq(Nat), out : StreamType]
           step == [x \in X \X (1 .. n) |-> After(x[1], x[2])]
           IsFold(h) == h = [u \in SUBSET (1 .. n) |->
                               IF u = {} THEN base ELSE After(h[u \ {Max(u)}], Max(u))]
           H    == CHOOSE h : IsFold(h)
<1>1. /\ n \in Nat /\ DOMAIN images = 1 .. n
      /\ \A k \in 1 .. n : images[k].size \in Nat /\ images[k] \in Range(images)
  BY DEF AreImages
<1>2. WriteBootImages(At(c), images) = H[1 .. n]
  BY <1>1 DEF WriteBootImages, FoldLeft, MapThenFoldSet
<1>3. step \in [X \X (1 .. n) -> X]
  <2> SUFFICES ASSUME NEW run \in X, NEW k \in 1 .. n PROVE After(run, k) \in X
    <3> HIDE DEF X, After
    <3>1. \A x \in X \X (1 .. n) : x[1] \in X /\ x[2] \in 1 .. n
      OBVIOUS
    <3> QED  BY <3>1
  <2>1. run.at \in Seq(Nat) /\ run.out \in StreamType
    OBVIOUS
  <2>2. PadIfOpen(WriteBytes(run.out, images[k].size)) \in StreamType
    BY <1>1, <2>1, StreamTyped
  <2>3. Append(run.at, run.out.sector) \in Seq(Nat)
    BY <2>1 DEF StreamType
  <2> QED  BY <2>2, <2>3
<1>4. \E h : IsFold(h)
  <2>1. PICK h \in [SUBSET (1 .. n) -> X] : Folds(h, n, base, step)
    <3>1. base \in X
      BY SectorSizeAssumption DEF At, StreamType
    <3> HIDE DEF X, step, base
    <3> QED  BY <1>1, <1>3, <3>1, FoldExists
  <2>2. \A u \in SUBSET (1 .. n) : u # {} =>
          step[<<h[u \ {Max(u)}], Max(u)>>] = After(h[u \ {Max(u)}], Max(u))
    <3> HIDE DEF X, After
    <3> SUFFICES ASSUME NEW u \in SUBSET (1 .. n), u # {}
                 PROVE  step[<<h[u \ {Max(u)}], Max(u)>>] = After(h[u \ {Max(u)}], Max(u))
      OBVIOUS
    <3>1. u \in SUBSET (0 .. n)
      OBVIOUS
    <3>2. Max(u) \in u
      BY <1>1, <3>1, MaxIsIn
    <3>3. h[u \ {Max(u)}] \in X
      OBVIOUS
    <3> QED  BY <3>2, <3>3
  <2>3. IsFold(h)
    <3> HIDE DEF X, step, After, base
    <3> QED  BY <2>1, <2>2 DEF Folds
  <2> QED  BY <2>3
<1>5. IsFold(H)
  <2> HIDE DEF IsFold
  <2> QED  BY <1>4
<1> HIDE DEF H
<1> DEFINE w == [image \in Range(images) |-> image.size]
           v == [i \in 1 .. n |-> w[images[i]]]
<1>6. \A i \in 1 .. n : w[images[i]] = images[i].size /\ v[i] = images[i].size
  BY <1>1
<1>7. PICK q : Sums(q, n, v) /\ BootDataSize(images) = q[n]
  <2>1. images \in Seq(Range(images)) /\ \A i \in 1 .. Len(images) : w[images[i]] \in Int
    BY <1>1, <1>6 DEF AreImages
  <2> HIDE DEF w
  <2>2. PICK q : Sums(q, Len(images), [i \in 1 .. Len(images) |-> w[images[i]]])
                 /\ SumOver(w, images) = q[Len(images)]
    BY <2>1, SumSteps
  <2> QED  BY <2>2 DEF BootDataSize, w
<1> HIDE DEF v, w
<1>8. q \in [0 .. n -> Nat] /\ q[0] = 0 /\ \A k \in 1 .. n : q[k] = q[k - 1] + images[k].size
  <2>1. \A i \in 1 .. n : v[i] \in Nat
    BY <1>1, <1>6
  <2>2. q \in [0 .. n -> Nat]
    BY <1>1, <1>7, <2>1, SumsInNat
  <2> QED  BY <1>6, <1>7, <2>2 DEF Sums
<1> HIDE DEF n
<1> DEFINE Is(k) == /\ H[1 .. k].out = At(c + BytesToSec(q[k]))
                    /\ k < n => q[k] % SectorSize = 0
           S == {k \in 0 .. n : Is(k)}
<1>9. 0 \in S
  <2>1. H[1 .. 0] = base
    <3> HIDE DEF base, After
    <3> QED  BY <1>1, <1>5, FirstPositions
  <2>2. q[0] % SectorSize = 0 /\ BytesToSec(q[0]) = 0
    <3>1. 0 % SectorSize = 0
      <4>1. 0 \in 0 .. SectorSize - 1 /\ 0 * SectorSize + 0 = 0 /\ SectorSize \in Nat \ {0}
        BY SectorSizeAssumption
      <4> QED  BY <4>1, DivModIs
    <3> QED  BY <1>8, <3>1 DEF BytesToSec
  <2> QED  BY <1>1, <2>1, <2>2
<1>10. \A k \in 0 .. n - 1 : k \in S => k + 1 \in S
  <2> SUFFICES ASSUME NEW k \in 0 .. n - 1, k \in S PROVE Is(k + 1)
    BY <1>1
  <2> DEFINE z == images[k + 1].size
  <2>1. k + 1 \in 1 .. n /\ (k + 1) - 1 = k /\ k < n
    BY <1>1
  <2>2. q[k] \in Nat /\ q[k] % SectorSize = 0 /\ z \in Nat /\ q[k + 1] = q[k] + z
    BY <1>1, <1>8, <2>1
  <2>3. H[1 .. k + 1].out = PadIfOpen(WriteBytes(H[1 .. k].out, z))
    <3>1. /\ 1 .. k + 1 \in SUBSET (1 .. n) /\ 1 .. k + 1 # {} /\ Max(1 .. k + 1) = k + 1
          /\ (1 .. k + 1) \ {k + 1} = 1 .. k
      <4>1. \A j \in 1 .. n : /\ 1 .. j \in SUBSET (1 .. n) /\ 1 .. j # {} /\ Max(1 .. j) = j
                              /\ (1 .. j) \ {j} = 1 .. j - 1
        BY <1>1, FirstPositions
      <4> QED  BY <2>1, <4>1
    <3>2. H[1 .. k + 1] = After(H[1 .. k], k + 1)
      <4> HIDE DEF After, base
      <4> QED  BY <1>5, <3>1
    <3> QED  BY <3>2
  <2> HIDE DEF z
  <2>4. BytesToSec(q[k]) \in Nat /\ BytesToSec(z) \in Nat
    BY <2>2, SectorsNat
  <2>5. H[1 .. k + 1].out = At(c + BytesToSec(q[k]) + BytesToSec(z))
    <3>1. c + BytesToSec(q[k]) \in Nat
      BY <2>4
    <3> QED  BY <2>2, <2>3, <3>1, PaddedBytes
  <2>6. /\ BytesToSec(q[k + 1]) = BytesToSec(q[k]) + BytesToSec(z)
        /\ z % SectorSize = 0 => q[k + 1] % SectorSize = 0
    BY <2>2, BehindWhole
  <2>7. k + 1 < n => z % SectorSize = 0
    BY <1>1, <2>1 DEF z, n
  <2> QED  BY <2>4, <2>5, <2>6, <2>7
<1>11. n \in S
  <2>1. 0 .. n \subseteq S
    <3> HIDE DEF S
    <3> QED  BY <1>1, <1>9, <1>10, UpTo
  <2> HIDE DEF S
  <2> QED  BY <1>1, <2>1
<1> QED
  BY <1>2, <1>7, <1>11

(* The volume descriptors: a boot record only with a place for it.         *)
LEMMA VolumesNumber ==
  ASSUME NEW m, NEW f, NEW t, NEW dirs, NEW root, NEW catalog,
         catalog = <<>> \/ \E place_ : catalog = <<place_>>
  PROVE  Len(VolumeDescriptors(m, f, t, dirs, root, catalog))
           = 2 + One(catalog # <<>>) + One(HasSuppl(f)) + One(IsJoliet(f))
<1> DEFINE If(cond, d) == IF cond THEN <<d>> ELSE <<>>
           boot_ == [i \in DOMAIN catalog |-> BootRecord(catalog[i])]
<1>1. boot_ \in Seq(Range(boot_)) /\ Len(boot_) = One(catalog # <<>>)
  <2>1. CASE catalog = <<>>
    <3>1. boot_ = <<>>
      BY <2>1
    <3> QED  BY <2>1, <3>1 DEF One
  <2>2. CASE catalog # <<>>
    <3>1. PICK p : catalog = <<p>>
      BY <2>2
    <3>2. boot_ = <<BootRecord(p)>>
      BY <3>1
    <3> HIDE DEF boot_
    <3>3. BootRecord(p) \in Range(boot_)
      BY <3>2 DEF Range
    <3> QED  BY <2>2, <3>2, <3>3 DEF One
  <2> QED  BY <2>1, <2>2
<1> HIDE DEF boot_
<1>2. \A cond, d : If(cond, d) \in Seq({d}) /\ Len(If(cond, d)) = One(cond)
  <2> SUFFICES ASSUME NEW cond, NEW d
               PROVE  If(cond, d) \in Seq({d}) /\ Len(If(cond, d)) = One(cond)
    OBVIOUS
  <2>1. <<d>> \in Seq({d}) /\ Len(<<d>>) = 1 /\ <<>> \in Seq({d}) /\ Len(<<>>) = 0
    OBVIOUS
  <2>2. CASE cond
    BY <2>1, <2>2 DEF One
  <2>3. CASE ~cond
    BY <2>1, <2>3 DEF One
  <2> QED  BY <2>2, <2>3
<1> HIDE DEF If
<1>3. \A a, b, d, e, x, E1, E2, E3 :
        a \in Seq(E1) /\ b \in Seq(E2) /\ d \in Seq(E3) =>
          Len(<<x>> \o a \o b \o d \o <<e>>) = 2 + Len(a) + Len(b) + Len(d)
  <2> SUFFICES ASSUME NEW a, NEW b, NEW d, NEW e, NEW x, NEW E1, NEW E2, NEW E3,
                      a \in Seq(E1), b \in Seq(E2), d \in Seq(E3)
               PROVE  Len(<<x>> \o a \o b \o d \o <<e>>) = 2 + Len(a) + Len(b) + Len(d)
    OBVIOUS
  <2> DEFINE E == (E1 \cup E2) \cup (E3 \cup {x, e})
  <2>1. a \in Seq(E) /\ b \in Seq(E) /\ d \in Seq(E) /\ <<x>> \in Seq(E) /\ <<e>> \in Seq(E)
    <3>1. E1 \subseteq E /\ E2 \subseteq E /\ E3 \subseteq E /\ x \in E /\ e \in E
      OBVIOUS
    <3> HIDE DEF E
    <3>2. \A S : S \subseteq E => \A s \in Seq(S) : s \in Seq(E)
      OBVIOUS
    <3> QED  BY <3>1, <3>2
  <2> HIDE DEF E
  <2>2. \A s, u \in Seq(E) : s \o u \in Seq(E) /\ Len(s \o u) = Len(s) + Len(u) /\ Len(s) \in Nat
    OBVIOUS
  <2>3. Len(<<x>>) = 1 /\ Len(<<e>>) = 1
    OBVIOUS
  <2>4. <<x>> \o a \in Seq(E) /\ Len(<<x>> \o a) = 1 + Len(a)
    BY <2>1, <2>2, <2>3
  <2>5. <<x>> \o a \o b \in Seq(E) /\ Len(<<x>> \o a \o b) = 1 + Len(a) + Len(b)
    BY <2>1, <2>2, <2>4
  <2>6. <<x>> \o a \o b \o d \in Seq(E) /\ Len(<<x>> \o a \o b \o d) = 1 + Len(a) + Len(b) + Len(d)
    BY <2>1, <2>2, <2>5
  <2> QED  BY <2>1, <2>2, <2>3, <2>6
<1> DEFINE size == PathTableBytes(f, t, dirs, FALSE)
           suppl == If(HasSuppl(f), SupplementaryVolume(m, size, root))
           joliet == If(IsJoliet(f), JolietVolume(m, PathTableBytes(f, t, dirs, TRUE), root))
<1>4. VolumeDescriptors(m, f, t, dirs, root, catalog)
        = <<PrimaryVolume(m, size, root)>> \o boot_ \o suppl \o joliet \o <<[type |-> "terminator"]>>
  BY DEF VolumeDescriptors, boot_, If
<1>5. \E E2 : suppl \in Seq(E2) /\ Len(suppl) = One(HasSuppl(f))
  BY <1>2
<1>6. \E E3 : joliet \in Seq(E3) /\ Len(joliet) = One(IsJoliet(f))
  BY <1>2
<1> HIDE DEF suppl, joliet
<1>7. Len(VolumeDescriptors(m, f, t, dirs, root, catalog)) = 2 + Len(boot_) + Len(suppl) + Len(joliet)
  <2>1. PICK E2 : suppl \in Seq(E2)
    BY <1>5
  <2>2. PICK E3 : joliet \in Seq(E3)
    BY <1>6
  <2> DEFINE first == PrimaryVolume(m, size, root)
             last  == [type |-> "terminator"]
  <2> HIDE DEF first, last
  <2>3. Len(<<first>> \o boot_ \o suppl \o joliet \o <<last>>) = 2 + Len(boot_) + Len(suppl) + Len(joliet)
    <3>1. boot_ \in Seq(Range(boot_))
      BY <1>1
    <3> HIDE DEF boot_
    <3> QED  BY <1>3, <2>1, <2>2, <3>1
  <2> QED  BY <1>4, <2>3 DEF first, last
<1> QED
  BY <1>1, <1>5, <1>6, <1>7

(* As many volume descriptors are made as were counted.                    *)
LEMMA VolumesCounted ==
  ASSUME NEW m, NEW f, NEW t, NEW dirs, NEW root, NEW catalog,
         IF f.images = <<>> THEN catalog = <<>> ELSE \E place_ : catalog = <<place_>>
  PROVE  Len(VolumeDescriptors(m, f, t, dirs, root, catalog)) = Descriptors(f)
<1>1. Len(VolumeDescriptors(m, f, t, dirs, root, catalog))
        = 2 + One(catalog # <<>>) + One(HasSuppl(f)) + One(IsJoliet(f))
  BY VolumesNumber
<1>2. catalog # <<>> <=> f.images # <<>>
  OBVIOUS
<1> QED
  BY <1>1, <1>2 DEF Descriptors, One

(* The stream after the header, inside or outside of which the boot images *)
(* are.                                                                    *)
LEMMA HeaderWritten ==
  ASSUME NEW f, NEW t, Regular(f, t), IsIso(f), AreImages(f.images)
  PROVE  /\ WriteSectors(NewStream, Descriptors(f)) = At(Descriptors(f))
         /\ ~(f.extended \/ f.images = <<>>) =>
              WriteBootImages(WriteBootCatalog(WriteSectors(NewStream, Descriptors(f)), f.images),
                              f.images).out = At(HeaderSectors(f))
<1>1. Descriptors(f) \in Nat /\ NewStream = At(0)
  BY DEF Descriptors, One, NewStream, At
<1>2. WriteSectors(NewStream, Descriptors(f)) = At(Descriptors(f))
  <2>1. WriteSectors(At(0), Descriptors(f)) = At(0 + Descriptors(f))
    BY <1>1, WholeSectors
  <2>2. 0 + Descriptors(f) = Descriptors(f)
    BY <1>1
  <2> QED  BY <1>1, <2>1, <2>2
<1>3. ASSUME ~(f.extended \/ f.images = <<>>)
      PROVE  WriteBootImages(WriteBootCatalog(WriteSectors(NewStream, Descriptors(f)), f.images),
                              f.images).out = At(HeaderSectors(f))
  <2> DEFINE c == BytesToSec(BootCatSize(f.images))
  <2>1. BootCatSize(f.images) \in Nat /\ c \in Nat
    BY ImagesSize, SectorsNat
  <2>2. WriteBootCatalog(At(Descriptors(f)), f.images) = At(Descriptors(f) + c)
    BY <1>1, <2>1, PaddedBytes DEF WriteBootCatalog
  <2>3. \A i \in DOMAIN f.images : i < Len(f.images) => f.images[i].size % SectorSize = 0
    BY <1>3 DEF Regular
  <2>4. Descriptors(f) + c \in Nat
    BY <1>1, <2>1
  <2>5. WriteBootImages(At(Descriptors(f) + c), f.images).out
          = At(Descriptors(f) + c + BytesToSec(BootDataSize(f.images)))
    BY <2>3, <2>4, ImagesWritten
  <2> QED  BY <1>2, <1>3, <2>2, <2>5 DEF HeaderSectors
<1> QED
  BY <1>2, <1>3

-----------------------------------------------------------------------------
(* What a directory takes, foreseen and written.                           *)

(* A file has one record at least.                                         *)
LEMMA ExtentsCounted ==
  ASSUME NEW size \in Nat
  PROVE  ExtentCount(size) \in Nat \ {0}
<1>1. CASE size = 0
  BY <1>1 DEF ExtentCount
<1>2. CASE size # 0
  <2>1. size - 1 \in Nat /\ MaxExtent \in Nat \ {0}
    BY <1>2, MaxExtentAssumption
  <2>2. (size - 1) \div MaxExtent \in Nat
    BY <2>1, DivModOf
  <2> QED  BY <1>2, <2>2 DEF ExtentCount
<1> QED
  BY <1>1, <1>2

(* A name is cut to what is allowed.                                       *)
LEMMA NameCut ==
  ASSUME NEW nm, IsName(nm), NEW max \in Nat \ {0}
  PROVE  /\ WriteNameCut(nm, max) \in 0 .. max /\ WriteNameL1(nm) \in 0 .. 12
         /\ FullLen(nm) \in Nat /\ Least(FullLen(nm), max) \in 0 .. max
<1>1. nm.base \in Nat /\ nm.ext \in Nat \cup {NoDot} /\ NoDot = -1
  BY DEF IsName, NoDot
<1>2. CASE nm.ext = NoDot
  BY <1>1, <1>2 DEF WriteNameCut, WriteNameL1, FullLen, Least
<1>3. CASE nm.ext \in Nat
  BY <1>1, <1>3 DEF WriteNameCut, WriteNameL1, FullLen, Least
<1> QED
  BY <1>1, <1>2, <1>3

(* The bytes of a name in a record.                                        *)
LEMMA NameBytes ==
  ASSUME NEW f, NEW nm, IsName(nm), NEW isDir \in BOOLEAN
  PROVE  /\ IsoWriteLen(f, nm, isDir) \in 0 .. 209
         /\ JolietWriteLen(f, nm, isDir) \in 0 .. JolietMax(f) + 2
         /\ JolietMax(f) \in {MaxJoliet, MaxJolietRelaxed} /\ JolietMax(f) \in Nat \ {0}
<1> DEFINE max == IsoNameMax(f)
           ver == IF f.version /\ f.level # "ISO9660_1999" THEN 2 ELSE 0
<1>1. max \in {31, 207, 8}
  BY DEF IsoNameMax
<1>2. max \in Nat \ {0} /\ max <= 207
  BY <1>1
<1>3. ver \in 0 .. 2
  OBVIOUS
<1>4. IsoWriteLen(f, nm, isDir)
        = IF isDir THEN Least(FullLen(nm), max)
          ELSE (IF max = 8 THEN WriteNameL1(nm) ELSE WriteNameCut(nm, max)) + ver
  BY DEF IsoWriteLen
<1> HIDE DEF max, ver
<1>5. /\ WriteNameCut(nm, max) \in 0 .. max /\ WriteNameL1(nm) \in 0 .. 12
      /\ FullLen(nm) \in Nat /\ Least(FullLen(nm), max) \in 0 .. max
  BY <1>2, NameCut
<1>6. IsoWriteLen(f, nm, isDir) \in 0 .. 209
  BY <1>2, <1>3, <1>4, <1>5
<1>7. JolietMax(f) \in {MaxJoliet, MaxJolietRelaxed} /\ JolietMax(f) \in Nat \ {0}
  BY LimitsAssumption DEF JolietMax
<1>8. JolietWriteLen(f, nm, isDir) \in 0 .. JolietMax(f) + 2
  <2> DEFINE jmax == JolietMax(f)
             extra == IF ~isDir /\ f.version THEN 2 ELSE 0
  <2>1. extra \in 0 .. 2
    OBVIOUS
  <2>2. JolietWriteLen(f, nm, isDir)
          = (IF FullLen(nm) > jmax THEN WriteNameCut(nm, jmax) ELSE FullLen(nm)) + extra
    BY DEF JolietWriteLen
  <2>3. jmax \in Nat \ {0}
    BY <1>7
  <2> HIDE DEF jmax, extra
  <2>4. WriteNameCut(nm, jmax) \in 0 .. jmax
    BY <2>3, NameCut
  <2>5. JolietWriteLen(f, nm, isDir) \in 0 .. jmax + 2
    BY <1>5, <2>1, <2>2, <2>3, <2>4
  <2> QED  BY <2>5 DEF jmax
<1> QED
  BY <1>6, <1>7, <1>8

(* A record is never empty, and leaves room in its sector.                 *)
LEMMA RecordFits ==
  ASSUME NEW f, NEW t, NEW n, IsName(t.name[n]), NEW joliet \in BOOLEAN
  PROVE  RecordSize(f, t, n, joliet) \in 1 .. SectorSize - 1
<1> DEFINE isDir == n \in Dirs(t)
           x == WriteBytesOf(f, t.name[n], isDir, joliet)
<1>1. isDir \in BOOLEAN
  OBVIOUS
<1> HIDE DEF isDir
<1>2. /\ IsoWriteLen(f, t.name[n], isDir) \in 0 .. 209
      /\ JolietWriteLen(f, t.name[n], isDir) \in 0 .. JolietMax(f) + 2
      /\ JolietMax(f) \in {MaxJoliet, MaxJolietRelaxed} /\ JolietMax(f) \in Nat \ {0}
  BY <1>1, NameBytes
<1>3. x \in Nat /\ 34 + x < SectorSize
  <2>1. 34 + 209 < SectorSize /\ 34 + 2 * (MaxJoliet + 2) < SectorSize
        /\ 34 + 2 * (MaxJolietRelaxed + 2) < SectorSize
    BY RecordsAssumption DEF DirRecord
  <2>2. SectorSize \in Nat
    BY SectorSizeAssumption
  <2>3. CASE joliet
    <3>1. 34 + 2 * (JolietMax(f) + 2) < SectorSize
      BY <1>2, <2>1
    <3>2. x = 2 * JolietWriteLen(f, t.name[n], isDir)
      BY <2>3 DEF WriteBytesOf
    <3> HIDE DEF x
    <3> QED  BY <1>2, <2>2, <3>1, <3>2
  <2>4. CASE ~joliet
    <3>1. x = IsoWriteLen(f, t.name[n], isDir)
      BY <2>4 DEF WriteBytesOf
    <3> HIDE DEF x
    <3> QED  BY <1>2, <2>1, <2>2, <3>1
  <2> QED  BY <2>3, <2>4
<1>4. RecordSize(f, t, n, joliet) = Even(DirRecord - 1 + x)
  BY DEF RecordSize, isDir
<1> HIDE DEF x
<1> DEFINE y == DirRecord - 1 + x
           r == y % 2
<1>5. y \in Nat /\ y = 33 + x
  BY <1>3 DEF DirRecord
<1> HIDE DEF y
<1>6. r \in 0 .. 1
  BY <1>5
<1>7. RecordSize(f, t, n, joliet) = y + r
  BY <1>4 DEF Even, y
<1> HIDE DEF r
<1> QED
  BY <1>3, <1>5, <1>6, <1>7, SectorSizeAssumption

(* What all records of a node take.                                        *)
NodeBytes(f, t, n, joliet) == RecordSize(f, t, n, joliet) * ExtentCount(SizeOf(t, n))

(* They are a number of bytes, one at least.                               *)
LEMMA NodeBytesNat ==
  ASSUME NEW f, NEW t, NamedTree(t), NEW n \in Nodes(t), NEW joliet \in BOOLEAN
  PROVE  /\ RecordSize(f, t, n, joliet) \in 1 .. SectorSize - 1
         /\ ExtentCount(SizeOf(t, n)) \in Nat \ {0}
         /\ NodeBytes(f, t, n, joliet) \in Nat \ {0}
<1>1. RecordSize(f, t, n, joliet) \in 1 .. SectorSize - 1
  BY RecordFits DEF NamedTree
<1>2. SizeOf(t, n) \in Nat
  BY DEF NamedTree, AreSizes, SizeOf, Files
<1>3. ExtentCount(SizeOf(t, n)) \in Nat \ {0}
  BY <1>2, ExtentsCounted
<1>4. \A a, b \in Nat \ {0} : a * b \in Nat \ {0}
  OBVIOUS
<1>5. RecordSize(f, t, n, joliet) \in Nat \ {0}
  BY <1>1, SectorSizeAssumption
<1> QED
  BY <1>1, <1>3, <1>4, <1>5 DEF NodeBytes

(* The nodes of a directory in a set keep their order: they are selected   *)
(* one by one.                                                             *)
LEMMA AmongIs ==
  ASSUME NEW E, NEW s \in Seq(E), NEW S
  PROVE  /\ Among(s, S) = Selection(s, S)
         /\ Among(s, S) \in Seq(E) /\ Len(Among(s, S)) \in Nat
         /\ Selected(Among(s, S), Len(s), s, S)
<1>1. Among(s, S) = Selection(s, S)
  BY DEF Among, Selection
<1>2. PICK p \in [0 .. Len(s) -> Seq(E)] : Selects(p, s, S) /\ p[Len(s)] = Selection(s, S)
  BY SelectSteps
<1>3. Selected(p[Len(s)], Len(s), s, S)
  BY <1>2, SelectIs
<1>4. Len(s) \in 0 .. Len(s)
  OBVIOUS
<1>5. p[Len(s)] \in Seq(E)
  BY <1>4
<1> QED
  BY <1>1, <1>2, <1>3, <1>5

(* calc_local_dir_entry_len, child by child.                               *)
CalcType == [data : Nat \ {0}, len : Nat]

CalcSteps(p, f, t, list, joliet) ==
  /\ p[0] = [data |-> 68, len |-> 0]
  /\ \A k \in 1 .. Len(list) :
       LET bytes == NodeBytes(f, t, list[k], joliet)
       IN p[k] = IF p[k - 1].data + bytes > SectorSize
                 THEN [data |-> bytes, len |-> p[k - 1].len + 1]
                 ELSE [data |-> p[k - 1].data + bytes, len |-> p[k - 1].len]

(* The fold of calc_local_dir_entry_len goes by CalcSteps.                 *)
LEMMA CalcDirSteps ==
  ASSUME NEW f, NEW t, NamedTree(t), NEW d, NEW level, NEW joliet \in BOOLEAN,
         NEW list \in Seq(Nodes(t)), Listed(f, t, d, level) = list
  PROVE  \E p \in [0 .. Len(list) -> CalcType] :
           /\ CalcSteps(p, f, t, list, joliet)
           /\ CalcDirSectors(f, t, d, level, joliet) = p[Len(list)].len + 1
<1> DEFINE n == Len(list)
           X == [data : Nat \ {0}, len : Nat]
           base == [data |-> 2 * DirRecord, len |-> 0]
           b(k) == NodeBytes(f, t, list[k], joliet)
           After(run, k) ==
             LET bytes == RecordSize(f, t, list[k], joliet) * ExtentCount(SizeOf(t, list[k]))
             IN IF run.data + bytes > SectorSize
                THEN [data |-> bytes, len |-> run.len + 1]
                ELSE [run EXCEPT !.data = @ + bytes]
           step == [x \in X \X (1 .. n) |-> After(x[1], x[2])]
           IsFold(h) == h = [u \in SUBSET (1 .. n) |->
                               IF u = {} THEN base ELSE After(h[u \ {Max(u)}], Max(u))]
           H    == CHOOSE h : IsFold(h)
<1>1. n \in Nat /\ DOMAIN list = 1 .. n /\ \A k \in 1 .. n : list[k] \in Nodes(t)
  OBVIOUS
<1>2. FoldLeft(LAMBDA run, m : LET bytes == RecordSize(f, t, m, joliet) * ExtentCount(SizeOf(t, m))
                               IN IF run.data + bytes > SectorSize
                                  THEN [data |-> bytes, len |-> run.len + 1]
                                  ELSE [run EXCEPT !.data = @ + bytes], base, list) = H[1 .. n]
  BY <1>1 DEF FoldLeft, MapThenFoldSet
<1>3. CalcDirSectors(f, t, d, level, joliet)
        = IF H[1 .. n].data # 0 THEN H[1 .. n].len + 1 ELSE H[1 .. n].len
  <2> HIDE DEF H, n
  <2> QED  BY <1>2 DEF CalcDirSectors
<1>4. \A run \in X, k \in 1 .. n :
         After(run, k) = IF run.data + b(k) > SectorSize
                         THEN [data |-> b(k), len |-> run.len + 1]
                         ELSE [data |-> run.data + b(k), len |-> run.len]
  <2> TAKE run \in X, k \in 1 .. n
  <2>1. b(k) = RecordSize(f, t, list[k], joliet) * ExtentCount(SizeOf(t, list[k]))
    BY DEF NodeBytes
  <2> DEFINE c == b(k)
  <2>2. After(run, k) = IF run.data + c > SectorSize
                        THEN [data |-> c, len |-> run.len + 1]
                        ELSE [run EXCEPT !.data = @ + c]
    BY <2>1
  <2> HIDE DEF c, After
  <2>3. [run EXCEPT !.data = @ + c] = [data |-> run.data + c, len |-> run.len]
    OBVIOUS
  <2> QED  BY <2>2, <2>3 DEF c
<1>5. \A k \in 1 .. n : b(k) \in Nat \ {0}
  BY <1>1, NodeBytesNat
<1> HIDE DEF b
<1>6. \A run \in X, k \in 1 .. n : After(run, k) \in X
  <2> TAKE run \in X, k \in 1 .. n
  <2> HIDE DEF After
  <2> QED  BY <1>4, <1>5
<1>7. step \in [X \X (1 .. n) -> X]
  <2> HIDE DEF X, After
  <2> QED  BY <1>6
<1>8. base \in X
  BY DEF DirRecord
<1>9. \E h : IsFold(h)
  <2> HIDE DEF X, After, base, n
  <2>1. PICK h \in [SUBSET (1 .. n) -> X] : Folds(h, n, base, step)
    <3> HIDE DEF step
    <3> QED  BY <1>1, <1>7, <1>8, FoldExists
  <2>2. \A u \in SUBSET (1 .. n) : u # {} =>
          step[<<h[u \ {Max(u)}], Max(u)>>] = After(h[u \ {Max(u)}], Max(u))
    <3> TAKE u \in SUBSET (1 .. n)
    <3> HAVE u # {}
    <3>1. u \in SUBSET (0 .. n)
      OBVIOUS
    <3>2. Max(u) \in 1 .. n
      BY <1>1, <3>1, MaxIsIn
    <3>3. h[u \ {Max(u)}] \in X
      OBVIOUS
    <3> QED  BY <3>2, <3>3
  <2> HIDE DEF step
  <2>3. IsFold(h)
    BY <2>1, <2>2 DEF Folds
  <2> QED  BY <2>3
<1>10. IsFold(H)
  <2> HIDE DEF IsFold
  <2> QED  BY <1>9
<1> HIDE DEF H, X, After, base, n
<1>11. H[1 .. 0] = base
  BY <1>1, <1>10, FirstPositions
<1>12. \A k \in 1 .. n : H[1 .. k - 1] \in X => H[1 .. k] = step[<<H[1 .. k - 1], k>>]
  <2> TAKE k \in 1 .. n
  <2>1. 1 .. k \in SUBSET (1 .. n) /\ 1 .. k # {} /\ Max(1 .. k) = k /\ (1 .. k) \ {k} = 1 .. k - 1
    BY <1>1, FirstPositions
  <2>2. H[1 .. k] = After(H[1 .. k - 1], k)
    BY <1>10, <2>1
  <2> QED  BY <2>2
<1>13. PICK p \in [0 .. n -> X] : StepByStep(p, n, base, step) /\ Ends(p, n, H[1 .. n])
  <2> HIDE DEF step, IsFold
  <2> QED  BY <1>1, <1>7, <1>8, <1>11, <1>12, FoldSteps
<1>14. \A k \in 1 .. n : p[k] = After(p[k - 1], k)
  <2> TAKE k \in 1 .. n
  <2>1. p[k - 1] \in X
    BY <1>1
  <2>2. step[<<p[k - 1], k>>] = After(p[k - 1], k)
    BY <2>1
  <2> QED  BY <1>13, <2>2 DEF StepByStep
<1>15. CalcSteps(p, f, t, list, joliet)
  <2>1. p[0] = [data |-> 68, len |-> 0]
    BY <1>13 DEF StepByStep, base, DirRecord
  <2>2. ASSUME NEW k \in 1 .. n
        PROVE  p[k] = IF p[k - 1].data + b(k) > SectorSize
                      THEN [data |-> b(k), len |-> p[k - 1].len + 1]
                      ELSE [data |-> p[k - 1].data + b(k), len |-> p[k - 1].len]
    <3>1. p[k - 1] \in X
      BY <1>1
    <3> QED  BY <1>4, <1>14, <3>1
  <2> QED  BY <2>1, <2>2 DEF CalcSteps, n, b
<1>16. H[1 .. n].data # 0
  <2>1. p[n] \in X
    BY <1>1
  <2> QED  BY <1>13, <2>1 DEF X, Ends
<1> QED
  BY <1>3, <1>13, <1>15, <1>16 DEF n, X, Ends, CalcType

(* What write_local_dir_entry keeps: the bytes in its sector, the stream.  *)
RunType == [data : Nat, out : StreamType]

(* A record leaves a count of bytes and a stream.                          *)
LEMMA RecordTyped ==
  ASSUME NEW run \in RunType, NEW bytes \in Nat
  PROVE  WriteRecord(run, bytes) \in RunType
<1>1. run.data \in Nat /\ run.out \in StreamType
  BY DEF RunType
<1>2. PadSector(run.out) \in StreamType
  <2>1. Remaining(run.out) \in Nat
    BY <1>1, SectorSizeAssumption DEF StreamType, Remaining
  <2> QED  BY <1>1, <2>1, StreamTyped DEF PadSector
<1> DEFINE s == IF run.data + bytes > SectorSize THEN PadSector(run.out) ELSE run.out
<1>3. s \in StreamType
  BY <1>1, <1>2
<1>4. WriteRecord(run, bytes).out = WriteBytes(s, bytes)
  BY DEF WriteRecord
<1> HIDE DEF s
<1>5. WriteBytes(s, bytes) \in StreamType
  BY <1>3, StreamTyped
<1> DEFINE d == CASE run.data + bytes > SectorSize -> bytes
                  [] run.data + bytes = SectorSize -> 0
                  [] OTHER -> run.data + bytes
<1>6. d \in Nat
  BY <1>1, SectorSizeAssumption
<1>7. WriteRecord(run, bytes) = [data |-> d, out |-> WriteBytes(s, bytes)]
  BY DEF WriteRecord, s
<1> HIDE DEF d
<1> QED
  BY <1>5, <1>6, <1>7 DEF RunType

(* The records of one child, one by one.                                   *)
LEMMA RecordsSteps ==
  ASSUME NEW run \in RunType, NEW bytes \in Nat, NEW count \in Nat
  PROVE  \E p \in [0 .. count -> RunType] :
           /\ p[0] = run
           /\ \A k \in 1 .. count : p[k] = WriteRecord(p[k - 1], bytes)
           /\ Ends(p, count, WriteRecords(run, bytes, count))
<1> DEFINE n == count
           X == RunType
           base == run
           list == [i \in 1 .. n |-> bytes]
           After(r, k) == WriteRecord(r, list[k])
           step == [x \in X \X (1 .. n) |-> After(x[1], x[2])]
           IsFold(h) == h = [u \in SUBSET (1 .. n) |->
                               IF u = {} THEN base ELSE After(h[u \ {Max(u)}], Max(u))]
           H    == CHOOSE h : IsFold(h)
<1>1. n \in Nat
  OBVIOUS
<1>2. \A r \in X, k \in 1 .. n : After(r, k) \in X
  BY RecordTyped
<1>3. base \in X
  OBVIOUS
<1>4. WriteRecords(run, bytes, count) = H[1 .. n]
  <2>1. Len(list) = n /\ DOMAIN list = 1 .. n
    OBVIOUS
  <2>2. FoldLeft(WriteRecord, run, list) = H[1 .. n]
    BY <1>1, <2>1 DEF FoldLeft, MapThenFoldSet
  <2>3. WriteRecords(run, bytes, count) = FoldLeft(WriteRecord, run, list)
    BY DEF WriteRecords
  <2> HIDE DEF H, list
  <2> QED  BY <2>2, <2>3
<1>5. step \in [X \X (1 .. n) -> X]
  <2> HIDE DEF X, After
  <2> QED  BY <1>2
<1>6. \E h : IsFold(h)
  <2> HIDE DEF X, After, base, n
  <2>1. PICK h \in [SUBSET (1 .. n) -> X] : Folds(h, n, base, step)
    <3> HIDE DEF step
    <3> QED  BY <1>1, <1>3, <1>5, FoldExists
  <2>2. \A u \in SUBSET (1 .. n) : u # {} =>
          step[<<h[u \ {Max(u)}], Max(u)>>] = After(h[u \ {Max(u)}], Max(u))
    <3> TAKE u \in SUBSET (1 .. n)
    <3> HAVE u # {}
    <3>1. u \in SUBSET (0 .. n)
      OBVIOUS
    <3>2. Max(u) \in 1 .. n
      BY <1>1, <3>1, MaxIsIn
    <3>3. h[u \ {Max(u)}] \in X
      OBVIOUS
    <3> QED  BY <3>2, <3>3
  <2> HIDE DEF step
  <2>3. IsFold(h)
    BY <2>1, <2>2 DEF Folds
  <2> QED  BY <2>3
<1>7. IsFold(H)
  <2> HIDE DEF IsFold
  <2> QED  BY <1>6
<1> HIDE DEF H, X, After, base, n
<1>8. H[1 .. 0] = base
  BY <1>1, <1>7, FirstPositions
<1>9. \A k \in 1 .. n : H[1 .. k - 1] \in X => H[1 .. k] = step[<<H[1 .. k - 1], k>>]
  <2> TAKE k \in 1 .. n
  <2>1. 1 .. k \in SUBSET (1 .. n) /\ 1 .. k # {} /\ Max(1 .. k) = k /\ (1 .. k) \ {k} = 1 .. k - 1
    BY <1>1, FirstPositions
  <2>2. H[1 .. k] = After(H[1 .. k - 1], k)
    BY <1>7, <2>1
  <2> QED  BY <2>2
<1>10. PICK p \in [0 .. n -> X] : StepByStep(p, n, base, step) /\ Ends(p, n, H[1 .. n])
  <2> HIDE DEF step, IsFold
  <2> QED  BY <1>1, <1>3, <1>5, <1>8, <1>9, FoldSteps
<1>11. p[0] = base /\ p[n] = H[1 .. n] /\ \A k \in 1 .. n : p[k - 1] \in X /\ p[k] = After(p[k - 1], k)
  <2>1. p[0] = base /\ p[n] = H[1 .. n]
    BY <1>10 DEF StepByStep, Ends
  <2>2. ASSUME NEW k \in 1 .. n PROVE p[k - 1] \in X /\ p[k] = After(p[k - 1], k)
    <3>1. p[k - 1] \in X
      BY <1>1
    <3>2. step[<<p[k - 1], k>>] = After(p[k - 1], k)
      BY <3>1
    <3> QED  BY <1>10, <3>1, <3>2 DEF StepByStep
  <2> QED  BY <2>1, <2>2
<1>12. \A k \in 1 .. n : p[k] = WriteRecord(p[k - 1], bytes)
  <2> TAKE k \in 1 .. n
  <2>1. After(p[k - 1], k) = WriteRecord(p[k - 1], bytes)
    BY DEF After
  <2> QED  BY <1>11, <2>1
<1> QED
  BY <1>4, <1>10, <1>11, <1>12 DEF n, X, base, Ends

(* A pad leaves a stream.                                                  *)
LEMMA PadTyped ==
  ASSUME NEW u \in StreamType
  PROVE  PadSector(u) \in StreamType /\ PadIfOpen(u) \in StreamType
<1>1. Remaining(u) \in Nat
  BY SectorSizeAssumption DEF StreamType, Remaining
<1>2. WriteBytes(u, Remaining(u)) \in StreamType
  BY <1>1, StreamTyped
<1> QED
  BY <1>2 DEF PadSector, PadIfOpen

(* So do the records of one node.                                          *)
LEMMA RecordsTyped ==
  ASSUME NEW run \in RunType, NEW bytes \in Nat, NEW count \in Nat
  PROVE  WriteRecords(run, bytes, count) \in RunType
<1>1. PICK p \in [0 .. count -> RunType] : Ends(p, count, WriteRecords(run, bytes, count))
  BY RecordsSteps
<1>2. p[count] \in RunType
  OBVIOUS
<1> QED
  BY <1>1, <1>2 DEF Ends

(* write_local_dir_entry, child by child.                                  *)
DirSteps(p, s, f, t, list, joliet) ==
  /\ p[0] = [data |-> 68, out |-> WriteBytes(s, 68)]
  /\ \A k \in 1 .. Len(list) :
       p[k] = WriteRecords(p[k - 1], RecordSize(f, t, list[k], joliet),
                           ExtentCount(SizeOf(t, list[k])))

(* The fold of write_local_dir_entry goes by DirSteps.                     *)
LEMMA WriteDirSteps ==
  ASSUME NEW s \in StreamType, NEW f, NEW t, NamedTree(t), NEW d, NEW level,
         NEW joliet \in BOOLEAN,
         NEW list \in Seq(Nodes(t)), Listed(f, t, d, level) = list
  PROVE  \E p \in [0 .. Len(list) -> RunType] :
           /\ DirSteps(p, s, f, t, list, joliet)
           /\ WriteDir(s, f, t, d, level, joliet) = PadIfOpen(p[Len(list)].out)
<1> DEFINE n == Len(list)
           X == RunType
           base == [data |-> 2 * DirRecord, out |-> WriteBytes(s, 2 * DirRecord)]
           After(r, k) == WriteRecords(r, RecordSize(f, t, list[k], joliet), ExtentCount(SizeOf(t, list[k])))
           step == [x \in X \X (1 .. n) |-> After(x[1], x[2])]
           IsFold(h) == h = [u \in SUBSET (1 .. n) |->
                               IF u = {} THEN base ELSE After(h[u \ {Max(u)}], Max(u))]
           H    == CHOOSE h : IsFold(h)
<1>1. n \in Nat
  OBVIOUS
<1>2. \A r \in X, k \in 1 .. n : After(r, k) \in X
  <2> TAKE r \in X, k \in 1 .. n
  <2>1. list[k] \in Nodes(t)
    OBVIOUS
  <2>2. RecordSize(f, t, list[k], joliet) \in Nat /\ ExtentCount(SizeOf(t, list[k])) \in Nat
    <3> DEFINE m == list[k]
               z == RecordSize(f, t, m, joliet)
    <3> HIDE DEF m
    <3>1. m \in Nodes(t)
      BY <2>1 DEF m
    <3>2. z \in 1 .. SectorSize - 1 /\ ExtentCount(SizeOf(t, m)) \in Nat \ {0}
      BY <3>1, NodeBytesNat
    <3> HIDE DEF z
    <3>3. z \in Nat
      BY <3>2, SectorSizeAssumption
    <3> QED  BY <3>2, <3>3 DEF m, z
  <2> QED  BY <2>2, RecordsTyped
<1>3. base \in X
  BY StreamTyped DEF RunType, DirRecord
<1>4. WriteDir(s, f, t, d, level, joliet) = PadIfOpen(H[1 .. n].out)
  <2>1. DOMAIN list = 1 .. n
    OBVIOUS
  <2>2. FoldLeft(LAMBDA r, m : WriteRecords(r, RecordSize(f, t, m, joliet), ExtentCount(SizeOf(t, m))),
                 base, list) = H[1 .. n]
    BY <1>1, <2>1 DEF FoldLeft, MapThenFoldSet
  <2> HIDE DEF H, n
  <2> QED  BY <2>2 DEF WriteDir
<1>5. step \in [X \X (1 .. n) -> X]
  <2> HIDE DEF X, After
  <2> QED  BY <1>2
<1>6. \E h : IsFold(h)
  <2> HIDE DEF X, After, base, n
  <2>1. PICK h \in [SUBSET (1 .. n) -> X] : Folds(h, n, base, step)
    <3> HIDE DEF step
    <3> QED  BY <1>1, <1>3, <1>5, FoldExists
  <2>2. \A u \in SUBSET (1 .. n) : u # {} =>
          step[<<h[u \ {Max(u)}], Max(u)>>] = After(h[u \ {Max(u)}], Max(u))
    <3> TAKE u \in SUBSET (1 .. n)
    <3> HAVE u # {}
    <3>1. u \in SUBSET (0 .. n)
      OBVIOUS
    <3>2. Max(u) \in 1 .. n
      BY <1>1, <3>1, MaxIsIn
    <3>3. h[u \ {Max(u)}] \in X
      OBVIOUS
    <3> QED  BY <3>2, <3>3
  <2> HIDE DEF step
  <2>3. IsFold(h)
    BY <2>1, <2>2 DEF Folds
  <2> QED  BY <2>3
<1>7. IsFold(H)
  <2> HIDE DEF IsFold
  <2> QED  BY <1>6
<1> HIDE DEF H, X, After, base, n
<1>8. H[1 .. 0] = base
  BY <1>1, <1>7, FirstPositions
<1>9. \A k \in 1 .. n : H[1 .. k - 1] \in X => H[1 .. k] = step[<<H[1 .. k - 1], k>>]
  <2> TAKE k \in 1 .. n
  <2>1. 1 .. k \in SUBSET (1 .. n) /\ 1 .. k # {} /\ Max(1 .. k) = k /\ (1 .. k) \ {k} = 1 .. k - 1
    BY <1>1, FirstPositions
  <2>2. H[1 .. k] = After(H[1 .. k - 1], k)
    BY <1>7, <2>1
  <2> QED  BY <2>2
<1>10. PICK p \in [0 .. n -> X] : StepByStep(p, n, base, step) /\ Ends(p, n, H[1 .. n])
  <2> HIDE DEF step, IsFold
  <2> QED  BY <1>1, <1>3, <1>5, <1>8, <1>9, FoldSteps
<1>11. p[0] = base /\ p[n] = H[1 .. n] /\ \A k \in 1 .. n : p[k - 1] \in X /\ p[k] = After(p[k - 1], k)
  <2>1. p[0] = base /\ p[n] = H[1 .. n]
    BY <1>10 DEF StepByStep, Ends
  <2>2. ASSUME NEW k \in 1 .. n PROVE p[k - 1] \in X /\ p[k] = After(p[k - 1], k)
    <3>1. p[k - 1] \in X
      BY <1>1
    <3>2. step[<<p[k - 1], k>>] = After(p[k - 1], k)
      BY <3>1
    <3> QED  BY <1>10, <3>1, <3>2 DEF StepByStep
  <2> QED  BY <2>1, <2>2
<1>12. DirSteps(p, s, f, t, list, joliet)
  <2>1. p[0] = [data |-> 68, out |-> WriteBytes(s, 68)]
    BY <1>11 DEF base, DirRecord
  <2>2. \A k \in 1 .. n : p[k] = WriteRecords(p[k - 1], RecordSize(f, t, list[k], joliet),
                                             ExtentCount(SizeOf(t, list[k])))
    BY <1>11 DEF After
  <2> QED  BY <2>1, <2>2 DEF DirSteps, n
<1>13. p \in [0 .. Len(list) -> RunType] /\ H[1 .. n] = p[Len(list)]
  BY <1>11 DEF n, X
<1> QED
  BY <1>4, <1>12, <1>13

(* A directory leaves a stream, and takes one sector at least.             *)
LEMMA WriteDirTyped ==
  ASSUME NEW s \in StreamType, NEW f, NEW t, NamedTree(t), NEW d \in Dirs(t), NEW level,
         NEW joliet \in BOOLEAN
  PROVE  /\ WriteDir(s, f, t, d, level, joliet) \in StreamType
         /\ CalcDirSectors(f, t, d, level, joliet) \in Nat \ {0}
         /\ Listed(f, t, d, level) \in Seq(Nodes(t))
<1> DEFINE list == Listed(f, t, d, level)
<1>1. list \in Seq(Nodes(t))
  <2> DEFINE S == {n \in Nodes(t) : IF n \in Dirs(t) THEN level <= GetMaxDirLevel(f)
                                    ELSE t.size[n] <= MaxExtent \/ AllowsFragmentation(f)}
             kids == t.kids[d]
  <2>1. kids \in Seq(Nodes(t))
    BY KidsOf DEF NamedTree
  <2>2. list = Among(kids, S)
    BY DEF Listed
  <2> HIDE DEF list, kids, S
  <2> QED  BY <2>1, <2>2, AmongIs
<1> HIDE DEF list
<1>2. Listed(f, t, d, level) = list
  BY DEF list
<1>3. WriteDir(s, f, t, d, level, joliet) \in StreamType
  <2>1. PICK p \in [0 .. Len(list) -> RunType] :
          /\ DirSteps(p, s, f, t, list, joliet)
          /\ WriteDir(s, f, t, d, level, joliet) = PadIfOpen(p[Len(list)].out)
    BY <1>1, <1>2, WriteDirSteps
  <2>2. p[Len(list)].out \in StreamType
    <3>1. p[Len(list)] \in RunType
      BY <1>1
    <3> QED  BY <3>1 DEF RunType
  <2> QED  BY <2>1, <2>2, PadTyped
<1>4. CalcDirSectors(f, t, d, level, joliet) \in Nat \ {0}
  <2>1. PICK p \in [0 .. Len(list) -> CalcType] :
          /\ CalcSteps(p, f, t, list, joliet)
          /\ CalcDirSectors(f, t, d, level, joliet) = p[Len(list)].len + 1
    BY <1>1, <1>2, CalcDirSteps
  <2>2. p[Len(list)].len \in Nat
    <3>1. Len(list) \in 0 .. Len(list)
      BY <1>1
    <3> QED  BY <3>1 DEF CalcType
  <2> QED  BY <2>1, <2>2
<1> QED
  BY <1>1, <1>2, <1>3, <1>4

-----------------------------------------------------------------------------
(* The places of files.                                                    *)

(* What a node remembers of its place, and the run of calc_local_filesys_data. *)
PlaceType == [normal : Nat, joliet : Nat, sizeN : Nat, sizeJ : Nat]
RunOf(t) == [sec : Nat, place : [Nodes(t) -> PlaceType]]

(* What a file takes of the data.                                          *)
TakenBy(t, n) == BytesToSec(t.size[n]) + t.pad[n]

(* calc_local_filesys_data, file by file.                                  *)
PlaceSteps(p, t, start, files) ==
  /\ p[0] = start
  /\ \A k \in 1 .. Len(files) :
       p[k] = [sec   |-> p[k - 1].sec + TakenBy(t, files[k]),
               place |-> [p[k - 1].place EXCEPT ![files[k]] =
                            [normal |-> p[k - 1].sec, joliet |-> p[k - 1].sec,
                             sizeN |-> t.size[files[k]], sizeJ |-> t.size[files[k]]]]]

(* The fold of calc_local_filesys_data goes by PlaceSteps.                 *)
LEMMA PlaceAllSteps ==
  ASSUME NEW t, NamedTree(t), NEW start \in RunOf(t), NEW files \in Seq(Files(t))
  PROVE  \E p \in [0 .. Len(files) -> RunOf(t)] :
           /\ PlaceSteps(p, t, start, files)
           /\ Ends(p, Len(files), PlaceAll(t, start, files))
<1> DEFINE n == Len(files)
           X == RunOf(t)
           base == start
           After(r, k) ==
             [sec   |-> r.sec + BytesToSec(t.size[files[k]]) + t.pad[files[k]],
              place |-> [r.place EXCEPT ![files[k]] =
                           [normal |-> r.sec, joliet |-> r.sec,
                            sizeN |-> t.size[files[k]], sizeJ |-> t.size[files[k]]]]]
           step == [x \in X \X (1 .. n) |-> After(x[1], x[2])]
           IsFold(h) == h = [u \in SUBSET (1 .. n) |->
                               IF u = {} THEN base ELSE After(h[u \ {Max(u)}], Max(u))]
           H    == CHOOSE h : IsFold(h)
<1>1. n \in Nat
  OBVIOUS
<1>0. \A k \in 1 .. n : /\ files[k] \in Files(t) /\ files[k] \in Nodes(t)
                        /\ t.size[files[k]] \in Nat /\ t.pad[files[k]] \in Nat
                        /\ BytesToSec(t.size[files[k]]) \in Nat
  <2> TAKE k \in 1 .. n
  <2>1. files[k] \in Files(t)
    OBVIOUS
  <2>2. t.size[files[k]] \in Nat /\ t.pad[files[k]] \in Nat
    BY <2>1 DEF NamedTree, AreSizes
  <2> QED  BY <2>1, <2>2, SectorsNat DEF Nodes
<1>2. \A r \in X, k \in 1 .. n : After(r, k) \in X
  <2> TAKE r \in X, k \in 1 .. n
  <2> DEFINE it == [normal |-> r.sec, joliet |-> r.sec, sizeN |-> t.size[files[k]], sizeJ |-> t.size[files[k]]]
             s == r.sec + BytesToSec(t.size[files[k]]) + t.pad[files[k]]
  <2>1. r.sec \in Nat /\ r.place \in [Nodes(t) -> PlaceType]
    BY DEF RunOf
  <2>2. s \in Nat
    <3> DEFINE x == BytesToSec(t.size[files[k]])
               y == t.pad[files[k]]
               z == r.sec
    <3>1. x \in Nat /\ y \in Nat /\ z \in Nat
      BY <1>0, <2>1
    <3> HIDE DEF x, y, z
    <3>2. z + x + y \in Nat
      BY <3>1
    <3> QED  BY <3>2 DEF x, y, z
  <2>3. it \in PlaceType
    BY <1>0, <2>1 DEF PlaceType
  <2> HIDE DEF it, s
  <2>4. [r.place EXCEPT ![files[k]] = it] \in [Nodes(t) -> PlaceType]
    BY <2>1, <2>3
  <2>5. After(r, k) = [sec |-> s, place |-> [r.place EXCEPT ![files[k]] = it]]
    BY DEF s, it
  <2> HIDE DEF After
  <2> QED  BY <2>2, <2>4, <2>5 DEF RunOf
<1>3. base \in X
  OBVIOUS
<1>4. PlaceAll(t, start, files) = H[1 .. n]
  <2>1. DOMAIN files = 1 .. n
    OBVIOUS
  <2> QED  BY <1>1, <2>1 DEF PlaceAll, FoldLeft, MapThenFoldSet
<1>5. step \in [X \X (1 .. n) -> X]
  <2> HIDE DEF X, After
  <2> QED  BY <1>2
<1>6. \E h : IsFold(h)
  <2> HIDE DEF X, After, base, n
  <2>1. PICK h \in [SUBSET (1 .. n) -> X] : Folds(h, n, base, step)
    <3> HIDE DEF step
    <3> QED  BY <1>1, <1>3, <1>5, FoldExists
  <2>2. \A u \in SUBSET (1 .. n) : u # {} =>
          step[<<h[u \ {Max(u)}], Max(u)>>] = After(h[u \ {Max(u)}], Max(u))
    <3> TAKE u \in SUBSET (1 .. n)
    <3> HAVE u # {}
    <3>1. u \in SUBSET (0 .. n)
      OBVIOUS
    <3>2. Max(u) \in 1 .. n
      BY <1>1, <3>1, MaxIsIn
    <3>3. h[u \ {Max(u)}] \in X
      OBVIOUS
    <3> QED  BY <3>2, <3>3
  <2> HIDE DEF step
  <2>3. IsFold(h)
    BY <2>1, <2>2 DEF Folds
  <2> QED  BY <2>3
<1>7. IsFold(H)
  <2> HIDE DEF IsFold
  <2> QED  BY <1>6
<1> HIDE DEF H, X, After, base, n
<1>8. H[1 .. 0] = base
  BY <1>1, <1>7, FirstPositions
<1>9. \A k \in 1 .. n : H[1 .. k - 1] \in X => H[1 .. k] = step[<<H[1 .. k - 1], k>>]
  <2> TAKE k \in 1 .. n
  <2>1. 1 .. k \in SUBSET (1 .. n) /\ 1 .. k # {} /\ Max(1 .. k) = k /\ (1 .. k) \ {k} = 1 .. k - 1
    BY <1>1, FirstPositions
  <2>2. H[1 .. k] = After(H[1 .. k - 1], k)
    BY <1>7, <2>1
  <2> QED  BY <2>2
<1>10. PICK p \in [0 .. n -> X] : StepByStep(p, n, base, step) /\ Ends(p, n, H[1 .. n])
  <2> HIDE DEF step, IsFold
  <2> QED  BY <1>1, <1>3, <1>5, <1>8, <1>9, FoldSteps
<1>11. p[0] = base /\ p[n] = H[1 .. n] /\ \A k \in 1 .. n : p[k - 1] \in X /\ p[k] = After(p[k - 1], k)
  <2>1. p[0] = base /\ p[n] = H[1 .. n]
    BY <1>10 DEF StepByStep, Ends
  <2>2. ASSUME NEW k \in 1 .. n PROVE p[k - 1] \in X /\ p[k] = After(p[k - 1], k)
    <3>1. p[k - 1] \in X
      BY <1>1
    <3>2. step[<<p[k - 1], k>>] = After(p[k - 1], k)
      BY <3>1
    <3> QED  BY <1>10, <3>1, <3>2 DEF StepByStep
  <2> QED  BY <2>1, <2>2
<1>12. PlaceSteps(p, t, start, files)
  <2>1. ASSUME NEW k \in 1 .. n
        PROVE p[k] = [sec   |-> p[k - 1].sec + TakenBy(t, files[k]),
                      place |-> [p[k - 1].place EXCEPT ![files[k]] =
                            [normal |-> p[k - 1].sec, joliet |-> p[k - 1].sec,
                             sizeN |-> t.size[files[k]], sizeJ |-> t.size[files[k]]]]]
    <3>1. p[k] = After(p[k - 1], k)
      BY <1>11
    <3>2. p[k - 1].sec \in Nat
      <4>1. p[k - 1] \in X
        BY <1>11
      <4> QED  BY <4>1 DEF X, RunOf
    <3> DEFINE s == p[k - 1].sec
               a == BytesToSec(t.size[files[k]])
               b == t.pad[files[k]]
    <3>3. s + a + b = s + (a + b)
      <4>1. s \in Nat /\ a \in Nat /\ b \in Nat
        BY <1>0, <3>2
      <4> HIDE DEF s, a, b
      <4> QED  BY <4>1
    <3>4. s + a + b = s + TakenBy(t, files[k])
      BY <3>3 DEF TakenBy
    <3>5. After(p[k - 1], k) =
            [sec   |-> s + a + b,
             place |-> [p[k - 1].place EXCEPT ![files[k]] =
                            [normal |-> p[k - 1].sec, joliet |-> p[k - 1].sec,
                             sizeN |-> t.size[files[k]], sizeJ |-> t.size[files[k]]]]]
      BY DEF After
    <3> HIDE DEF a, b
    <3> QED  BY <3>1, <3>4, <3>5
  <2> QED  BY <1>11, <2>1 DEF PlaceSteps, n, base
<1> QED
  BY <1>4, <1>10, <1>11, <1>12 DEF n, X, base, Ends

(* It goes forwards, and its places are numbers.                           *)
LEMMA PlaceAllTyped ==
  ASSUME NEW t, NamedTree(t), NEW start \in RunOf(t), NEW files \in Seq(Files(t))
  PROVE  PlaceAll(t, start, files) \in RunOf(t) /\ PlaceAll(t, start, files).sec >= start.sec
<1>1. PICK p \in [0 .. Len(files) -> RunOf(t)] :
        PlaceSteps(p, t, start, files) /\ Ends(p, Len(files), PlaceAll(t, start, files))
  BY PlaceAllSteps
<1> DEFINE n == Len(files)
           S == {k \in 0 .. n : p[k].sec >= start.sec}
<1>2. n \in Nat /\ \A k \in 0 .. n : p[k] \in RunOf(t) /\ p[k].sec \in Nat
  BY DEF RunOf
<1>3. start.sec \in Nat
  BY DEF RunOf
<1>4. 0 \in S
  BY <1>1, <1>2, <1>3 DEF PlaceSteps
<1>7. \A k \in 1 .. n : p[k].sec = p[k - 1].sec + TakenBy(t, files[k])
  <2> TAKE k \in 1 .. n
  <2> DEFINE x == [p[k - 1].place EXCEPT ![files[k]] =
                            [normal |-> p[k - 1].sec, joliet |-> p[k - 1].sec,
                             sizeN |-> t.size[files[k]], sizeJ |-> t.size[files[k]]]]
  <2>1. p[k] = [sec |-> p[k - 1].sec + TakenBy(t, files[k]), place |-> x]
    BY <1>1 DEF PlaceSteps
  <2> HIDE DEF x
  <2> QED  BY <2>1
<1>5. \A k \in 0 .. n - 1 : k \in S => k + 1 \in S
  <2> TAKE k \in 0 .. n - 1
  <2> HAVE k \in S
  <2>1. k + 1 \in 1 .. n /\ (k + 1) - 1 = k
    BY <1>2
  <2>2. p[k + 1].sec = p[k].sec + TakenBy(t, files[k + 1])
    BY <1>7, <2>1
  <2>3. TakenBy(t, files[k + 1]) \in Nat
    <3>1. files[k + 1] \in Files(t)
      BY <2>1
    <3>2. t.size[files[k + 1]] \in Nat /\ t.pad[files[k + 1]] \in Nat
      BY <3>1 DEF NamedTree, AreSizes
    <3>3. BytesToSec(t.size[files[k + 1]]) \in Nat
      BY <3>2, SectorsNat
    <3> QED  BY <3>2, <3>3 DEF TakenBy
  <2> QED  BY <1>2, <1>3, <2>1, <2>2, <2>3
<1>6. n \in S
  <2>1. 0 .. n \subseteq S
    <3> HIDE DEF S
    <3> QED  BY <1>2, <1>4, <1>5, UpTo
  <2>2. n \in 0 .. n
    BY <1>2
  <2> HIDE DEF S
  <2> QED  BY <2>1, <2>2
<1> QED
  BY <1>1, <1>2, <1>6 DEF Ends

(* The boot images leave a stream.                                         *)
LEMMA BootImagesTyped ==
  ASSUME NEW images, AreImages(images), NEW s \in StreamType
  PROVE  WriteBootImages(s, images).out \in StreamType
<1> DEFINE n == Len(images)
           X == [at : Seq(Nat), out : StreamType]
           base == [at |-> <<>>, out |-> s]
           After(run, k) ==
             [at  |-> Append(run.at, run.out.sector),
              out |-> PadIfOpen(WriteBytes(run.out, images[k].size))]
           step == [x \in X \X (1 .. n) |-> After(x[1], x[2])]
           IsFold(h) == h = [u \in SUBSET (1 .. n) |->
                               IF u = {} THEN base ELSE After(h[u \ {Max(u)}], Max(u))]
           H    == CHOOSE h : IsFold(h)
<1>1. n \in Nat
  BY DEF AreImages
<1>0. DOMAIN images = 1 .. n /\ \A k \in 1 .. n : images[k].size \in Nat
  BY DEF AreImages
<1>2. \A r \in X, k \in 1 .. n : After(r, k) \in X
  <2> TAKE run \in X, k \in 1 .. n
  <2>1. run.at \in Seq(Nat) /\ run.out \in StreamType
    OBVIOUS
  <2>2. PadIfOpen(WriteBytes(run.out, images[k].size)) \in StreamType
    BY <1>0, <2>1, StreamTyped
  <2>3. Append(run.at, run.out.sector) \in Seq(Nat)
    BY <2>1 DEF StreamType
  <2> QED  BY <2>2, <2>3
<1>3. base \in X
  OBVIOUS
<1>4. WriteBootImages(s, images) = H[1 .. n]
  BY <1>0, <1>1 DEF WriteBootImages, FoldLeft, MapThenFoldSet
<1>5. step \in [X \X (1 .. n) -> X]
  <2> HIDE DEF X, After
  <2> QED  BY <1>2
<1>6. \E h : IsFold(h)
  <2> HIDE DEF X, After, base, n
  <2>1. PICK h \in [SUBSET (1 .. n) -> X] : Folds(h, n, base, step)
    <3> HIDE DEF step
    <3> QED  BY <1>1, <1>3, <1>5, FoldExists
  <2>2. \A u \in SUBSET (1 .. n) : u # {} =>
          step[<<h[u \ {Max(u)}], Max(u)>>] = After(h[u \ {Max(u)}], Max(u))
    <3> TAKE u \in SUBSET (1 .. n)
    <3> HAVE u # {}
    <3>1. u \in SUBSET (0 .. n)
      OBVIOUS
    <3>2. Max(u) \in 1 .. n
      BY <1>1, <3>1, MaxIsIn
    <3>3. h[u \ {Max(u)}] \in X
      OBVIOUS
    <3> QED  BY <3>2, <3>3
  <2> HIDE DEF step
  <2>3. IsFold(h)
    BY <2>1, <2>2 DEF Folds
  <2> QED  BY <2>3
<1>7. IsFold(H)
  <2> HIDE DEF IsFold
  <2> QED  BY <1>6
<1> HIDE DEF H, X, After, base, n
<1>8. H[1 .. 0] = base
  BY <1>1, <1>7, FirstPositions
<1>9. \A k \in 1 .. n : H[1 .. k - 1] \in X => H[1 .. k] = step[<<H[1 .. k - 1], k>>]
  <2> TAKE k \in 1 .. n
  <2>1. 1 .. k \in SUBSET (1 .. n) /\ 1 .. k # {} /\ Max(1 .. k) = k /\ (1 .. k) \ {k} = 1 .. k - 1
    BY <1>1, FirstPositions
  <2>2. H[1 .. k] = After(H[1 .. k - 1], k)
    BY <1>7, <2>1
  <2> QED  BY <2>2
<1>10. PICK p \in [0 .. n -> X] : StepByStep(p, n, base, step) /\ Ends(p, n, H[1 .. n])
  <2> HIDE DEF step, IsFold
  <2> QED  BY <1>1, <1>3, <1>5, <1>8, <1>9, FoldSteps
<1>11. p[0] = base /\ p[n] = H[1 .. n] /\ \A k \in 1 .. n : p[k - 1] \in X /\ p[k] = After(p[k - 1], k)
  <2>1. p[0] = base /\ p[n] = H[1 .. n]
    BY <1>10 DEF StepByStep, Ends
  <2>2. ASSUME NEW k \in 1 .. n PROVE p[k - 1] \in X /\ p[k] = After(p[k - 1], k)
    <3>1. p[k - 1] \in X
      BY <1>1
    <3>2. step[<<p[k - 1], k>>] = After(p[k - 1], k)
      BY <3>1
    <3> QED  BY <1>10, <3>1, <3>2 DEF StepByStep
  <2> QED  BY <2>1, <2>2
<1>12. p[n] \in X
  BY <1>1, <1>10
<1> QED
  BY <1>4, <1>11, <1>12 DEF X

(* Bytes that do not go beyond the sector.                                 *)
LEMMA InSector ==
  ASSUME NEW sector \in Nat, NEW w \in Nat, NEW count \in Nat, w + count <= SectorSize
  PROVE  WriteBytes([sector |-> sector, written |-> w], count)
           = IF w + count = SectorSize THEN [sector |-> sector + 1, written |-> 0]
             ELSE [sector |-> sector, written |-> w + count]
<1>1. SectorSize \in Nat \ {0}
  BY SectorSizeAssumption
<1> DEFINE x == w + count
           a == x \div SectorSize
           b == x % SectorSize
<1>2. WriteBytes([sector |-> sector, written |-> w], count) = [sector |-> sector + a, written |-> b]
  BY DEF WriteBytes
<1>3. x \in Nat /\ x <= SectorSize
  OBVIOUS
<1>4. CASE x = SectorSize
  <2>1. x = 1 * SectorSize + 0 /\ 1 \in Nat /\ 0 \in 0 .. SectorSize - 1
    BY <1>1, <1>4
  <2> HIDE DEF x
  <2>2. a = 1 /\ b = 0
    BY <1>1, <2>1, DivModIs
  <2> HIDE DEF a, b
  <2> QED  BY <1>2, <1>4, <2>2 DEF x
<1>5. CASE x # SectorSize
  <2>1. x = 0 * SectorSize + x /\ 0 \in Nat /\ x \in 0 .. SectorSize - 1
    BY <1>1, <1>3, <1>5
  <2> HIDE DEF x
  <2>2. a = 0 /\ b = x
    BY <1>1, <2>1, DivModIs
  <2> HIDE DEF a, b
  <2>3. sector + a = sector
    BY <2>2
  <2> QED  BY <1>2, <1>5, <2>2, <2>3 DEF x
<1> QED
  BY <1>4, <1>5

(* What write_local_dir_entry has done when calc_local_dir_entry_len is at *)
(* r: a full sector is closed at once by the one, and later by the other.  *)
Open(r)   == IF r.data = SectorSize THEN 0 ELSE r.data
Closed(r) == r.len + (IF r.data = SectorSize THEN 1 ELSE 0)

AsCalculated(c, r) ==
  [data |-> Open(r), out |-> [sector |-> c + Closed(r), written |-> Open(r)]]

CalcStep(r, bytes) ==
  IF r.data + bytes > SectorSize THEN [data |-> bytes, len |-> r.len + 1]
  ELSE [data |-> r.data + bytes, len |-> r.len]

CalcSmall == {r \in CalcType : r.data <= SectorSize}

(* One record.                                                             *)
LEMMA RecordAsCalculated ==
  ASSUME NEW c \in Nat, NEW r \in CalcSmall, NEW bytes \in 1 .. SectorSize - 1
  PROVE  WriteRecord(AsCalculated(c, r), bytes) = AsCalculated(c, CalcStep(r, bytes))
<1>1. r.data \in Nat \ {0} /\ r.len \in Nat /\ r.data <= SectorSize /\ SectorSize \in Nat \ {0}
  BY SectorSizeAssumption DEF CalcSmall, CalcType
<1> DEFINE w == Open(r)
           sector == c + Closed(r)
           out_ == [sector |-> sector, written |-> w]
<1>2. w \in Nat /\ w < SectorSize /\ sector \in Nat
  BY <1>1 DEF Open, Closed
<1>3. /\ WriteRecord(AsCalculated(c, r), bytes).data
           = (CASE w + bytes > SectorSize -> bytes [] w + bytes = SectorSize -> 0 [] OTHER -> w + bytes)
      /\ WriteRecord(AsCalculated(c, r), bytes).out
           = WriteBytes(IF w + bytes > SectorSize THEN PadSector(out_) ELSE out_, bytes)
      /\ WriteRecord(AsCalculated(c, r), bytes)
           = [data |-> WriteRecord(AsCalculated(c, r), bytes).data,
              out  |-> WriteRecord(AsCalculated(c, r), bytes).out]
  BY DEF WriteRecord, AsCalculated
<1>4. PadSector(out_) = [sector |-> sector + 1, written |-> 0]
  <2>1. Remaining(out_) = SectorSize - w
    BY DEF Remaining
  <2> HIDE DEF w, sector
  <2> DEFINE rest == SectorSize - w
  <2>2. rest \in Nat /\ w + rest = SectorSize /\ w + rest <= SectorSize
    BY <1>1, <1>2
  <2>3. WriteBytes(out_, rest) = [sector |-> sector + 1, written |-> 0]
    <3> HIDE DEF rest
    <3>1. WriteBytes([sector |-> sector, written |-> w], rest)
            = IF w + rest = SectorSize THEN [sector |-> sector + 1, written |-> 0]
              ELSE [sector |-> sector, written |-> w + rest]
      BY <1>2, <2>2, InSector
    <3> QED  BY <2>2, <3>1
  <2> HIDE DEF rest
  <2>4. Remaining(out_) = rest
    BY <2>1 DEF rest
  <2> QED  BY <2>3, <2>4 DEF PadSector
<1>5. CASE w + bytes > SectorSize
  <2>1. /\ WriteBytes([sector |-> sector + 1, written |-> 0], bytes)
             = [sector |-> sector + 1, written |-> bytes]
    <3> HIDE DEF w, sector
    <3>1. sector + 1 \in Nat /\ 0 \in Nat /\ bytes \in Nat /\ 0 + bytes <= SectorSize
          /\ 0 + bytes # SectorSize /\ 0 + bytes = bytes
      BY <1>1, <1>2
    <3>2. WriteBytes([sector |-> sector + 1, written |-> 0], bytes)
            = IF 0 + bytes = SectorSize THEN [sector |-> (sector + 1) + 1, written |-> 0]
              ELSE [sector |-> sector + 1, written |-> 0 + bytes]
      BY <3>1, InSector
    <3> QED  BY <3>1, <3>2
  <2>2. WriteRecord(AsCalculated(c, r), bytes)
          = [data |-> bytes, out |-> [sector |-> sector + 1, written |-> bytes]]
    <3> HIDE DEF w, sector
    <3> QED  BY <1>1, <1>2, <1>3, <1>4, <1>5, <2>1
  <2>3. w = r.data /\ sector = c + r.len
    BY <1>1, <1>5 DEF Open, Closed
  <2>4. CalcStep(r, bytes) = [data |-> bytes, len |-> r.len + 1]
    BY <1>5, <2>3 DEF CalcStep
  <2>5. Open([data |-> bytes, len |-> r.len + 1]) = bytes /\ Closed([data |-> bytes, len |-> r.len + 1]) = r.len + 1
    BY <1>1 DEF Open, Closed
  <2>6. sector + 1 = c + (r.len + 1)
    BY <1>1, <2>3
  <2> HIDE DEF w, sector
  <2> QED  BY <2>2, <2>4, <2>5, <2>6 DEF AsCalculated
<1>6. CASE ~(w + bytes > SectorSize)
  <2>1. WriteBytes(out_, bytes) = IF w + bytes = SectorSize THEN [sector |-> sector + 1, written |-> 0]
                                  ELSE [sector |-> sector, written |-> w + bytes]
    <3> HIDE DEF w, sector
    <3> QED  BY <1>1, <1>2, <1>6, InSector
  <2> DEFINE d == IF w + bytes = SectorSize THEN 0 ELSE w + bytes
             e == IF w + bytes = SectorSize THEN 1 ELSE 0
  <2>2. WriteRecord(AsCalculated(c, r), bytes) = [data |-> d, out |-> [sector |-> sector + e, written |-> d]]
    <3> HIDE DEF w, sector
    <3>1. sector + 0 = sector
      BY <1>2
    <3> QED  BY <1>3, <1>6, <2>1, <3>1
  <2>3. CASE r.data = SectorSize
    <3>1. w = 0 /\ sector = c + r.len + 1 /\ d = bytes /\ e = 0
      BY <1>1, <2>3 DEF Open, Closed
    <3>2. CalcStep(r, bytes) = [data |-> bytes, len |-> r.len + 1]
      BY <1>1, <2>3 DEF CalcStep
    <3>3. Open([data |-> bytes, len |-> r.len + 1]) = bytes
          /\ Closed([data |-> bytes, len |-> r.len + 1]) = r.len + 1
      BY <1>1 DEF Open, Closed
    <3>4. sector + e = c + (r.len + 1)
      BY <1>1, <3>1
    <3> HIDE DEF w, sector, d, e
    <3> QED  BY <2>2, <3>1, <3>2, <3>3, <3>4 DEF AsCalculated
  <2>4. CASE r.data # SectorSize
    <3>1. w = r.data /\ sector = c + r.len
      BY <1>1, <2>4 DEF Open, Closed
    <3> DEFINE z == [data |-> r.data + bytes, len |-> r.len]
    <3>2. CalcStep(r, bytes) = z
      BY <1>6, <3>1 DEF CalcStep
    <3>3. Open(z) = d /\ Closed(z) = r.len + e
      BY <1>1, <3>1 DEF Open, Closed
    <3>4. sector + e = c + (r.len + e)
      BY <1>1, <3>1
    <3> HIDE DEF w, sector, d, e, z
    <3> QED  BY <2>2, <3>2, <3>3, <3>4 DEF AsCalculated
  <2> QED  BY <2>3, <2>4
<1> QED
  BY <1>5, <1>6

(* A record leaves less than a sector of the directory being filled.       *)
LEMMA CalcStepSmall ==
  ASSUME NEW r \in CalcSmall, NEW bytes \in Nat \ {0},
         r.data + bytes > SectorSize => bytes <= SectorSize
  PROVE  CalcStep(r, bytes) \in CalcSmall
BY SectorSizeAssumption DEF CalcSmall, CalcType, CalcStep

(* The records of one child: one, or all in this sector.                   *)
LEMMA RecordsAsCalculated ==
  ASSUME NEW c \in Nat, NEW r \in CalcSmall, NEW bytes \in 1 .. SectorSize - 1,
         NEW count \in Nat \ {0}, count = 1 \/ r.data + bytes * count <= SectorSize
  PROVE  /\ WriteRecords(AsCalculated(c, r), bytes, count) = AsCalculated(c, CalcStep(r, bytes * count))
         /\ CalcStep(r, bytes * count) \in CalcSmall
<1>1. r.data \in Nat \ {0} /\ r.len \in Nat /\ r.data <= SectorSize /\ SectorSize \in Nat \ {0}
      /\ bytes \in Nat \ {0}
  BY SectorSizeAssumption DEF CalcSmall, CalcType
<1>2. AsCalculated(c, r) \in RunType
  <2>1. Open(r) \in 0 .. SectorSize - 1 /\ Closed(r) \in Nat
    BY <1>1 DEF Open, Closed
  <2> QED  BY <2>1 DEF AsCalculated, RunType, StreamType
<1>3. PICK p \in [0 .. count -> RunType] :
        /\ p[0] = AsCalculated(c, r)
        /\ \A k \in 1 .. count : p[k] = WriteRecord(p[k - 1], bytes)
        /\ Ends(p, count, WriteRecords(AsCalculated(c, r), bytes, count))
  BY <1>1, <1>2, RecordsSteps
<1>4. CASE count = 1
  <2>1. p[1] = WriteRecord(AsCalculated(c, r), bytes)
    BY <1>3, <1>4
  <2>2. WriteRecords(AsCalculated(c, r), bytes, count) = p[1] /\ bytes * count = bytes
    BY <1>1, <1>3, <1>4 DEF Ends
  <2>3. CalcStep(r, bytes) \in CalcSmall
    BY <1>1, CalcStepSmall
  <2> QED  BY <2>1, <2>2, <2>3, RecordAsCalculated
<1>5. CASE r.data + bytes * count <= SectorSize
  <2> DEFINE z(m) == [data |-> r.data + bytes * m, len |-> r.len]
             S == {m \in 0 .. count : p[m] = AsCalculated(c, z(m))}
  <2>1. \A a, b \in Nat : a * b \in Nat
    OBVIOUS
  <2>2. \A m \in 0 .. count : z(m) \in CalcSmall
    <3> TAKE m \in 0 .. count
    <3>1. count - m \in Nat /\ m \in Nat
      OBVIOUS
    <3>2. bytes * (count - m) \in Nat /\ bytes * m \in Nat
      BY <1>1, <2>1, <3>1
    <3>3. bytes * count = bytes * m + bytes * (count - m)
      BY <1>1, <3>1
    <3>4. bytes * m <= bytes * count
      BY <3>2, <3>3
    <3>5. r.data + bytes * m <= SectorSize /\ r.data + bytes * m \in Nat \ {0}
      BY <1>1, <1>5, <3>2, <3>3
    <3> QED  BY <1>1, <3>5 DEF CalcSmall, CalcType
  <2>3. 0 \in S
    <3>1. bytes * 0 = 0 /\ r.data + 0 = r.data
      BY <1>1
    <3>2. z(0) = r
      BY <3>1 DEF CalcSmall, CalcType
    <3> QED  BY <1>3, <3>2
  <2>4. \A m \in 0 .. count - 1 : m \in S => m + 1 \in S
    <3> TAKE m \in 0 .. count - 1
    <3> HAVE m \in S
    <3>1. m + 1 \in 1 .. count /\ (m + 1) - 1 = m /\ m \in 0 .. count /\ m + 1 \in 0 .. count
      OBVIOUS
    <3>2. p[m + 1] = WriteRecord(p[m], bytes)
      BY <1>3, <3>1
    <3>3. z(m) \in CalcSmall /\ z(m + 1) \in CalcSmall
      BY <2>2, <3>1
    <3>4. WriteRecord(AsCalculated(c, z(m)), bytes) = AsCalculated(c, CalcStep(z(m), bytes))
      <4> HIDE DEF z
      <4> QED  BY <3>3, RecordAsCalculated
    <3>5. CalcStep(z(m), bytes) = z(m + 1)
      <4>1. bytes * (m + 1) = bytes * m + bytes
        BY <1>1
      <4>2. r.data + bytes * m + bytes = r.data + bytes * (m + 1)
        BY <1>1, <4>1
      <4>3. r.data + bytes * (m + 1) <= SectorSize
        BY <3>3 DEF CalcSmall
      <4>4. z(m).data = r.data + bytes * m /\ z(m).len = r.len
        OBVIOUS
      <4>5. ~(z(m).data + bytes > SectorSize)
        <5> HIDE DEF z
        <5> DEFINE y == r.data + bytes * (m + 1)
        <5>1. z(m).data + bytes = y
          BY <4>2, <4>4
        <5>2. y \in Nat /\ y <= SectorSize
          BY <1>1, <2>1, <4>3
        <5> HIDE DEF y
        <5> QED  BY <1>1, <5>1, <5>2
      <4>6. CalcStep(z(m), bytes) = [data |-> z(m).data + bytes, len |-> z(m).len]
        <5> HIDE DEF z
        <5> QED  BY <4>5 DEF CalcStep
      <4> QED  BY <4>2, <4>4, <4>6
    <3> HIDE DEF z
    <3> QED  BY <3>1, <3>2, <3>4, <3>5
  <2>5. count \in S
    <3>1. 0 .. count \subseteq S
      <4> HIDE DEF S
      <4> QED  BY <2>3, <2>4, UpTo
    <3>2. count \in 0 .. count
      OBVIOUS
    <3> HIDE DEF S
    <3> QED  BY <3>1, <3>2
  <2>6. CalcStep(r, bytes * count) = z(count)
    <3> DEFINE y == bytes * count
    <3>1. y \in Nat
      BY <1>1, <2>1
    <3>2. z(count) = [data |-> r.data + y, len |-> r.len] /\ r.data + y <= SectorSize
      BY <1>5
    <3> HIDE DEF y, z
    <3>3. CalcStep(r, y) = [data |-> r.data + y, len |-> r.len]
      BY <1>1, <3>1, <3>2 DEF CalcStep
    <3>4. CalcStep(r, y) = z(count)
      BY <3>2, <3>3
    <3> QED  BY <3>4 DEF y
  <2>7. WriteRecords(AsCalculated(c, r), bytes, count) = p[count]
    BY <1>3 DEF Ends
  <2>8. z(count) \in CalcSmall
    BY <2>2
  <2> HIDE DEF z
  <2> QED  BY <2>5, <2>6, <2>7, <2>8
<1> QED
  BY <1>4, <1>5

(* The first members of a sequence.                                        *)
LEMMA PrefixIs ==
  ASSUME NEW E, NEW s \in Seq(E)
  PROVE  /\ SubSeq(s, 1, 0) = <<>> /\ SubSeq(s, 1, Len(s)) = s
         /\ \A k \in 0 .. Len(s) : SubSeq(s, 1, k) \in Seq(E) /\ Len(SubSeq(s, 1, k)) = k
         /\ \A k \in 1 .. Len(s) :
              s[k] \in E /\ SubSeq(s, 1, k) = Append(SubSeq(s, 1, k - 1), s[k])
<1>1. Len(s) \in Nat
  OBVIOUS
<1>2. \A k \in 0 .. Len(s) :
        /\ SubSeq(s, 1, k) \in Seq(E) /\ Len(SubSeq(s, 1, k)) = k
        /\ \A i \in 1 .. k : SubSeq(s, 1, k)[i] = s[i]
  BY <1>1
<1>3. SubSeq(s, 1, 0) = <<>>
  <2>1. 0 \in 0 .. Len(s)
    BY <1>1
  <2>2. SubSeq(s, 1, 0) \in Seq(E) /\ Len(SubSeq(s, 1, 0)) = 0
    BY <1>2, <2>1
  <2> QED  BY <2>2, EmptySeq
<1>4. SubSeq(s, 1, Len(s)) = s
  <2>1. Len(s) \in 0 .. Len(s)
    BY <1>1
  <2> DEFINE u == SubSeq(s, 1, Len(s))
  <2>2. u \in Seq(E) /\ Len(u) = Len(s) /\ \A i \in 1 .. Len(s) : u[i] = s[i]
    BY <1>2, <2>1
  <2> HIDE DEF u
  <2>3. u = s
    BY <2>2, SeqEqual
  <2> QED  BY <2>3 DEF u
<1>5. \A k \in 1 .. Len(s) : s[k] \in E /\ SubSeq(s, 1, k) = Append(SubSeq(s, 1, k - 1), s[k])
  <2> TAKE k \in 1 .. Len(s)
  <2> DEFINE u == SubSeq(s, 1, k)
             v == SubSeq(s, 1, k - 1)
  <2>1. k \in 0 .. Len(s) /\ k - 1 \in 0 .. Len(s) /\ s[k] \in E
    BY <1>1
  <2>2. u \in Seq(E) /\ Len(u) = k /\ \A i \in 1 .. k : u[i] = s[i]
    BY <1>2, <2>1
  <2>3. v \in Seq(E) /\ Len(v) = k - 1 /\ \A i \in 1 .. k - 1 : v[i] = s[i]
    BY <1>2, <2>1
  <2> HIDE DEF u, v
  <2> DEFINE x == Append(v, s[k])
  <2>4. x \in Seq(E) /\ Len(x) = k /\ \A i \in 1 .. k : x[i] = s[i]
    BY <2>1, <2>3
  <2> HIDE DEF x
  <2>5. u = x
    <3>1. \A i \in 1 .. Len(u) : u[i] = x[i]
      BY <2>2, <2>4
    <3> QED  BY <2>2, <2>4, <3>1, SeqEqual
  <2> QED  BY <2>1, <2>5 DEF u, v, x
<1> QED
  BY <1>2, <1>3, <1>4, <1>5

(* One more member of a sum.                                               *)
LEMMA SumAppend ==
  ASSUME NEW E, NEW s \in Seq(E), NEW x \in E, NEW w, \A i \in 1 .. Len(s) : w[s[i]] \in Int,
         w[x] \in Int
  PROVE  /\ SumOver(w, Append(s, x)) = SumOver(w, s) + w[x]
         /\ SumOver(w, s) \in Int
<1> DEFINE u == Append(s, x)
           n == Len(s)
<1>1. n \in Nat /\ u \in Seq(E) /\ Len(u) = n + 1 /\ u[n + 1] = x /\ \A i \in 1 .. n : u[i] = s[i]
  OBVIOUS
<1>2. \A i \in 1 .. n + 1 : w[u[i]] \in Int
  <2> TAKE i \in 1 .. n + 1
  <2>1. i = n + 1 \/ i \in 1 .. n
    BY <1>1
  <2> QED  BY <1>1, <2>1
<1>3. SubSeq(u, 1, n) = s
  <2>1. SubSeq(u, 1, n) \in Seq(E) /\ Len(SubSeq(u, 1, n)) = n
        /\ \A i \in 1 .. n : SubSeq(u, 1, n)[i] = u[i]
    BY <1>1
  <2>2. \A i \in 1 .. n : SubSeq(u, 1, n)[i] = s[i]
    BY <1>1, <2>1
  <2> HIDE DEF u
  <2> QED  BY <2>1, <2>2, SeqEqual
<1> HIDE DEF u, n
<1>4. \A i \in 1 .. Len(u) : w[u[i]] \in Int
  BY <1>1, <1>2
<1>5. /\ \A k \in 1 .. Len(u) : SumOver(w, SubSeq(u, 1, k)) = SumOver(w, SubSeq(u, 1, k - 1)) + w[u[k]]
      /\ \A k \in 0 .. Len(u) : SumOver(w, SubSeq(u, 1, k)) \in Int
      /\ SumOver(w, SubSeq(u, 1, Len(u))) = SumOver(w, u)
  BY <1>1, <1>4, SumOverPrefixes
<1>6. n + 1 \in 1 .. Len(u) /\ (n + 1) - 1 = n /\ n \in 0 .. Len(u)
  BY <1>1
<1>7. SumOver(w, SubSeq(u, 1, n + 1)) = SumOver(w, SubSeq(u, 1, n)) + w[u[n + 1]]
  BY <1>5, <1>6
<1>8. SumOver(w, SubSeq(u, 1, n + 1)) = SumOver(w, u) /\ SumOver(w, SubSeq(u, 1, n)) \in Int
  BY <1>1, <1>5, <1>6
<1> QED
  BY <1>1, <1>3, <1>7, <1>8 DEF u

(* One more member to choose from.                                         *)
LEMMA AmongAppend ==
  ASSUME NEW E, NEW s \in Seq(E), NEW x \in E, NEW S
  PROVE  Among(Append(s, x), S) = IF x \in S THEN Append(Among(s, S), x) ELSE Among(s, S)
<1> DEFINE u == Append(s, x)
           n == Len(s)
<1>1. n \in Nat /\ u \in Seq(E) /\ Len(u) = n + 1 /\ u[n + 1] = x /\ \A i \in 1 .. n : u[i] = s[i]
  OBVIOUS
<1>2. PICK p \in [0 .. n -> Seq(E)] : Selects(p, s, S) /\ p[n] = Selection(s, S)
  BY SelectSteps
<1> HIDE DEF u
<1>3. PICK q \in [0 .. Len(u) -> Seq(E)] : Selects(q, u, S) /\ q[Len(u)] = Selection(u, S)
  BY <1>1, SelectSteps
<1> DEFINE T == {k \in 0 .. n : q[k] = p[k]}
<1>4. 0 \in T
  BY <1>1, <1>2, <1>3 DEF Selects
<1>5. \A k \in 0 .. n - 1 : k \in T => k + 1 \in T
  <2> TAKE k \in 0 .. n - 1
  <2> HAVE k \in T
  <2>1. k + 1 \in 1 .. n /\ k + 1 \in 1 .. Len(u) /\ (k + 1) - 1 = k /\ k + 1 \in 0 .. n
    BY <1>1
  <2>2. p[k + 1] = IF s[k + 1] \in S THEN Append(p[k], s[k + 1]) ELSE p[k]
    BY <1>2, <2>1 DEF Selects
  <2>3. q[k + 1] = IF u[k + 1] \in S THEN Append(q[k], u[k + 1]) ELSE q[k]
    BY <1>3, <2>1 DEF Selects
  <2>4. u[k + 1] = s[k + 1]
    BY <1>1, <2>1
  <2> QED  BY <2>1, <2>2, <2>3, <2>4
<1>6. n \in T
  <2>1. 0 .. n \subseteq T
    <3> HIDE DEF T, n
    <3> QED  BY <1>1, <1>4, <1>5, UpTo
  <2>2. n \in 0 .. n
    BY <1>1
  <2> HIDE DEF T
  <2> QED  BY <2>1, <2>2
<1>7. n + 1 \in 1 .. Len(u) /\ (n + 1) - 1 = n
  BY <1>1
<1>8. q[n + 1] = IF u[n + 1] \in S THEN Append(q[n], u[n + 1]) ELSE q[n]
  BY <1>3, <1>7 DEF Selects
<1>9. Selection(u, S) = q[n + 1] /\ q[n] = Selection(s, S)
  BY <1>1, <1>2, <1>3, <1>6
<1>10. Among(u, S) = Selection(u, S) /\ Among(s, S) = Selection(s, S)
  BY DEF Among, Selection
<1> HIDE DEF n
<1> QED
  BY <1>1, <1>8, <1>9, <1>10 DEF u

(* From nothing nothing is chosen.                                         *)
LEMMA AmongNone ==
  ASSUME NEW S
  PROVE  Among(<<>>, S) = <<>>
<1>1. <<>> \in Seq({1})
  OBVIOUS
<1>2. PICK p \in [0 .. Len(<<>>) -> Seq({1})] : Selects(p, <<>>, S) /\ p[Len(<<>>)] = Selection(<<>>, S)
  BY <1>1, SelectSteps
<1>3. Len(<<>>) = 0
  OBVIOUS
<1> QED
  BY <1>2, <1>3 DEF Among, Selection, Selects

(* What is chosen takes no more than the whole, and is no longer.          *)
LEMMA SumAmong ==
  ASSUME NEW E, NEW s \in Seq(E), NEW w, \A i \in 1 .. Len(s) : w[s[i]] \in Nat, NEW S
  PROVE  /\ SumOver(w, Among(s, S)) \in Nat /\ SumOver(w, s) \in Nat
         /\ SumOver(w, Among(s, S)) <= SumOver(w, s)
         /\ Len(Among(s, S)) <= Len(s)
<1> DEFINE n == Len(s)
           P(k) == SubSeq(s, 1, k)
           F == {x \in E : w[x] \in Nat}
           T == {k \in 0 .. n : /\ Among(P(k), S) \in Seq(F)
                                /\ SumOver(w, Among(P(k), S)) <= SumOver(w, P(k))
                                /\ Len(Among(P(k), S)) <= k}
<1>1. n \in Nat /\ 0 \in 0 .. n /\ n \in 0 .. n
  OBVIOUS
<1>2. s \in Seq(F)
  <2>1. \A i \in 1 .. n : s[i] \in F
    OBVIOUS
  <2>2. s \in [1 .. n -> F]
    BY <2>1
  <2> HIDE DEF F
  <2> QED  BY <1>1, <2>2, SeqIs
<1>3. \A u \in Seq(F) : SumOver(w, u) \in Nat
  <2> TAKE u \in Seq(F)
  <2>1. \A i \in 1 .. Len(u) : w[u[i]] \in Nat
    OBVIOUS
  <2> HIDE DEF F
  <2> QED  BY <2>1, SumOverNat
<1>4. /\ P(0) = <<>> /\ P(n) = s
      /\ \A k \in 0 .. n : P(k) \in Seq(F)
      /\ \A k \in 1 .. n : s[k] \in F /\ P(k) = Append(P(k - 1), s[k])
  <2> HIDE DEF F
  <2> QED  BY <1>2, PrefixIs
<1>5. 0 \in T
  <2>1. Among(P(0), S) = <<>> /\ P(0) = <<>>
    BY <1>4, AmongNone
  <2>2. <<>> \in Seq(F) /\ Len(<<>>) = 0
    OBVIOUS
  <2>3. SumOver(w, <<>>) \in Nat
    BY <1>3, <2>2
  <2>4. /\ Among(P(0), S) \in Seq(F) /\ Len(Among(P(0), S)) <= 0
        /\ SumOver(w, Among(P(0), S)) <= SumOver(w, P(0))
    <3> DEFINE a == Among(P(0), S)
               u == P(0)
    <3>1. a = <<>> /\ u = <<>>
      BY <2>1
    <3> HIDE DEF P, F, a, u
    <3>2. a \in Seq(F) /\ Len(a) = 0
      BY <2>2, <3>1
    <3>3. SumOver(w, a) = SumOver(w, u) /\ SumOver(w, u) \in Nat
      BY <2>3, <3>1
    <3> QED  BY <3>2, <3>3 DEF a, u
  <2> QED  BY <1>1, <2>4
<1>6. \A k \in 0 .. n - 1 : k \in T => k + 1 \in T
  <2> TAKE k \in 0 .. n - 1
  <2> HAVE k \in T
  <2> DEFINE u == P(k)
             a == Among(u, S)
             x == s[k + 1]
  <2>1. k + 1 \in 1 .. n /\ (k + 1) - 1 = k /\ k \in 0 .. n /\ k + 1 \in 0 .. n
    BY <1>1
  <2>2. u \in Seq(F) /\ x \in F /\ P(k + 1) = Append(u, x)
    <3>1. P(k + 1) = Append(P((k + 1) - 1), s[k + 1])
      BY <1>4, <2>1
    <3> QED  BY <1>4, <2>1, <3>1
  <2>3. a \in Seq(F) /\ SumOver(w, a) <= SumOver(w, u) /\ Len(a) <= k
    OBVIOUS
  <2>4. w[x] \in Nat
    BY <2>2
  <2>5. \A i \in 1 .. Len(u) : w[u[i]] \in Int
    <3> HIDE DEF u, x
    <3> QED  BY <2>2
  <2>6. \A i \in 1 .. Len(a) : w[a[i]] \in Int
    <3> HIDE DEF a, u, x
    <3> QED  BY <2>3
  <2> HIDE DEF a, u, x, F, P
  <2>7. SumOver(w, Append(u, x)) = SumOver(w, u) + w[x]
    BY <2>2, <2>4, <2>5, SumAppend
  <2>8. SumOver(w, Append(a, x)) = SumOver(w, a) + w[x]
    BY <2>2, <2>3, <2>4, <2>6, SumAppend
  <2>9. Among(Append(u, x), S) = IF x \in S THEN Append(a, x) ELSE a
    BY <2>2, AmongAppend DEF a
  <2>10. Append(a, x) \in Seq(F) /\ Len(Append(a, x)) = Len(a) + 1 /\ Len(a) \in Nat
    BY <2>2, <2>3
  <2>11. SumOver(w, u) \in Nat /\ SumOver(w, a) \in Nat
    BY <1>3, <2>2, <2>3
  <2>12. /\ Among(P(k + 1), S) \in Seq(F)
         /\ SumOver(w, Among(P(k + 1), S)) <= SumOver(w, P(k + 1))
         /\ Len(Among(P(k + 1), S)) <= k + 1
    <3>1. CASE x \in S
      <4>1. Among(P(k + 1), S) = Append(a, x)
        BY <2>2, <2>9, <3>1
      <4>2. Len(a) + 1 <= k + 1
        BY <1>1, <2>1, <2>3, <2>10
      <4>3. SumOver(w, a) + w[x] <= SumOver(w, u) + w[x]
        BY <2>3, <2>4, <2>11
      <4>4. SumOver(w, Append(a, x)) <= SumOver(w, Append(u, x))
        BY <2>7, <2>8, <4>3
      <4> QED  BY <2>2, <2>10, <4>1, <4>2, <4>4
    <3>2. CASE x \notin S
      <4>1. Among(P(k + 1), S) = a
        BY <2>2, <2>9, <3>2
      <4>2. Len(a) <= k + 1
        BY <1>1, <2>1, <2>3, <2>10
      <4>3. SumOver(w, a) <= SumOver(w, u) + w[x]
        BY <2>3, <2>4, <2>11
      <4>4. SumOver(w, a) <= SumOver(w, Append(u, x))
        BY <2>7, <4>3
      <4> QED  BY <2>2, <2>3, <4>1, <4>2, <4>4
    <3> QED  BY <3>1, <3>2
  <2> QED  BY <2>1, <2>12
<1>7. n \in T
  <2>1. 0 .. n \subseteq T
    <3> HIDE DEF T, n
    <3> QED  BY <1>1, <1>5, <1>6, UpTo
  <2> HIDE DEF T
  <2> QED  BY <1>1, <2>1
<1>8. Among(P(n), S) \in Seq(F) /\ SumOver(w, Among(P(n), S)) <= SumOver(w, P(n)) /\ Len(Among(P(n), S)) <= n
  BY <1>7
<1> HIDE DEF P, F, n
<1> QED
  BY <1>2, <1>3, <1>4, <1>8 DEF n

(* A part of a sum of what is not negative.                                *)
LEMMA PrefixLess ==
  ASSUME NEW E, NEW s \in Seq(E), NEW w, \A i \in 1 .. Len(s) : w[s[i]] \in Nat
  PROVE  \A k \in 0 .. Len(s) : SumOver(w, SubSeq(s, 1, k)) \in Nat /\ SumOver(w, SubSeq(s, 1, k)) <= SumOver(w, s)
<1> DEFINE n == Len(s)
           G(k) == SumOver(w, SubSeq(s, 1, k))
           T == {k \in 0 .. n : G(n - k) \in Int /\ G(n - k) <= G(n)}
           U == {k \in 0 .. n : G(k) \in Nat}
<1>1. n \in Nat
  OBVIOUS
<1>2. /\ \A k \in 1 .. n : G(k) = G(k - 1) + w[s[k]]
      /\ \A k \in 0 .. n : G(k) \in Int
      /\ G(n) = SumOver(w, s) /\ G(0) = 0
  <2>1. \A i \in 1 .. Len(s) : w[s[i]] \in Int
    OBVIOUS
  <2> QED  BY <2>1, SumOverPrefixes
<1>3. \A k \in 1 .. n : w[s[k]] \in Nat
  OBVIOUS
<1> HIDE DEF n, G
<1>4. 0 \in T
  <2>1. n - 0 = n /\ n \in 0 .. n /\ 0 \in 0 .. n
    BY <1>1
  <2> QED  BY <1>2, <2>1
<1>5. \A k \in 0 .. n - 1 : k \in T => k + 1 \in T
  <2> TAKE k \in 0 .. n - 1
  <2> HAVE k \in T
  <2>1. n - k \in 1 .. n /\ (n - k) - 1 = n - (k + 1) /\ n - (k + 1) \in 0 .. n /\ k + 1 \in 0 .. n
    BY <1>1
  <2>2. G(n - k) = G(n - (k + 1)) + w[s[n - k]]
    BY <1>2, <2>1
  <2>3. w[s[n - k]] \in Nat /\ G(n - (k + 1)) \in Int /\ G(n) \in Int /\ G(n - k) <= G(n)
    <3>1. n \in 0 .. n
      BY <1>1
    <3> QED  BY <1>2, <1>3, <2>1, <3>1
  <2>4. G(n - (k + 1)) <= G(n)
    BY <2>2, <2>3
  <2> QED  BY <2>1, <2>3, <2>4
<1>6. 0 \in U
  BY <1>1, <1>2
<1>7. \A k \in 0 .. n - 1 : k \in U => k + 1 \in U
  <2> TAKE k \in 0 .. n - 1
  <2> HAVE k \in U
  <2>1. k + 1 \in 1 .. n /\ (k + 1) - 1 = k /\ k + 1 \in 0 .. n
    BY <1>1
  <2>2. G(k + 1) = G(k) + w[s[k + 1]]
    BY <1>2, <2>1
  <2> QED  BY <1>3, <2>1, <2>2
<1>8. 0 .. n \subseteq T /\ 0 .. n \subseteq U
  <2> HIDE DEF T, U
  <2> QED  BY <1>1, <1>4, <1>5, <1>6, <1>7, UpTo
<1>9. \A k \in 0 .. n : G(k) \in Nat /\ G(k) <= G(n)
  <2> TAKE k \in 0 .. n
  <2>1. n - k \in 0 .. n /\ n - (n - k) = k
    BY <1>1
  <2>2. n - k \in T /\ k \in U
    BY <1>8, <2>1
  <2> QED  BY <2>1, <2>2
<1> QED
  BY <1>2, <1>9 DEF n, G

(* The two passes count alike: each node has one record, or all are in one *)
(* sector.                                                                 *)
DirRegular(f, t, d, joliet) ==
  \/ \A n \in Range(t.kids[d]) : ExtentCount(SizeOf(t, n)) = 1
  \/ 68 + SumOver([n \in Range(t.kids[d]) |-> NodeBytes(f, t, n, joliet)], t.kids[d]) <= SectorSize

(* What is listed of a directory.                                          *)
LEMMA ListedOf ==
  ASSUME NEW f, NEW t, NamedTree(t), NEW d \in Dirs(t), NEW level,
         NEW list, list = Listed(f, t, d, level)
  PROVE  /\ list \in Seq(Nodes(t)) /\ Len(list) \in Nat /\ Len(list) <= Len(t.kids[d])
         /\ \A k \in 1 .. Len(list) : list[k] \in Range(t.kids[d]) /\ list[k] \in Nodes(t)
         /\ \A w : (\A n \in Range(t.kids[d]) : w[n] \in Nat) =>
              /\ SumOver(w, list) \in Nat /\ SumOver(w, t.kids[d]) \in Nat
              /\ SumOver(w, list) <= SumOver(w, t.kids[d])
<1> DEFINE S == {n \in Nodes(t) : IF n \in Dirs(t) THEN level <= GetMaxDirLevel(f)
                                  ELSE t.size[n] <= MaxExtent \/ AllowsFragmentation(f)}
           kids == t.kids[d]
<1>1. list = Among(kids, S)
  BY DEF Listed
<1>2. /\ kids \in Seq(Nodes(t)) /\ Len(kids) \in Nat /\ DOMAIN kids = 1 .. Len(kids)
      /\ \A i \in 1 .. Len(kids) : kids[i] \in Nodes(t) /\ kids[i] \in Range(kids)
  BY KidsOf DEF NamedTree
<1> HIDE DEF S, kids
<1>3. list \in Seq(Nodes(t)) /\ Len(list) \in Nat /\ Selected(list, Len(kids), kids, S)
  BY <1>1, <1>2, AmongIs
<1>4. \A k \in 1 .. Len(list) : list[k] \in Range(kids) /\ list[k] \in Nodes(t)
  BY <1>2, <1>3 DEF Selected
<1>5. ASSUME NEW w, \A n \in Range(kids) : w[n] \in Nat
      PROVE  /\ SumOver(w, list) \in Nat /\ SumOver(w, kids) \in Nat
             /\ SumOver(w, list) <= SumOver(w, kids)
  <2>1. \A i \in 1 .. Len(kids) : w[kids[i]] \in Nat
    BY <1>2, <1>5
  <2> QED  BY <1>1, <1>2, <2>1, SumAmong
<1>6. Len(list) <= Len(kids)
  <2> DEFINE zero == [n \in Nodes(t) |-> 0]
  <2>1. \A i \in 1 .. Len(kids) : zero[kids[i]] \in Nat
    BY <1>2
  <2> HIDE DEF zero
  <2> QED  BY <1>1, <1>2, <2>1, SumAmong
<1> QED
  BY <1>3, <1>4, <1>5, <1>6 DEF kids

(* Where calc_local_dir_entry_len is, in one sector.                       *)
LEMMA CalcInSector ==
  ASSUME NEW f, NEW t, NamedTree(t), NEW d \in Dirs(t), NEW joliet \in BOOLEAN,
         NEW list \in Seq(Nodes(t)), \A k \in 1 .. Len(list) : list[k] \in Range(t.kids[d]),
         NEW w, w = [n \in Range(t.kids[d]) |-> NodeBytes(f, t, n, joliet)],
         68 + SumOver(w, list) <= SectorSize,
         NEW p \in [0 .. Len(list) -> CalcType], CalcSteps(p, f, t, list, joliet)
  PROVE  \A k \in 1 .. Len(list) :
           p[k - 1].data + NodeBytes(f, t, list[k], joliet) <= SectorSize
<1> DEFINE n == Len(list)
           G(k) == SumOver(w, SubSeq(list, 1, k))
           T == {k \in 0 .. n : p[k].data = 68 + G(k)}
<1>1. n \in Nat
  OBVIOUS
<1>2. \A k \in 1 .. n : w[list[k]] = NodeBytes(f, t, list[k], joliet) /\ w[list[k]] \in Nat
  BY NodeBytesNat
<1>3. /\ G(0) = 0 /\ \A k \in 1 .. n : G(k) = G(k - 1) + w[list[k]]
      /\ G(n) = SumOver(w, list)
  <2>1. \A k \in 1 .. Len(list) : w[list[k]] \in Int
    BY <1>2
  <2> QED  BY <2>1, SumOverPrefixes
<1>4. \A k \in 0 .. n : G(k) \in Nat /\ G(k) <= SumOver(w, list)
  BY <1>2, PrefixLess
<1>5. /\ p[0] = [data |-> 68, len |-> 0]
      /\ \A k \in 1 .. n : p[k] = IF p[k - 1].data + NodeBytes(f, t, list[k], joliet) > SectorSize
                                  THEN [data |-> NodeBytes(f, t, list[k], joliet), len |-> p[k - 1].len + 1]
                                  ELSE [data |-> p[k - 1].data + NodeBytes(f, t, list[k], joliet), len |-> p[k - 1].len]
  BY DEF CalcSteps
<1>6. SectorSize \in Nat /\ SumOver(w, list) \in Nat
  <2>1. n \in 0 .. n
    BY <1>1
  <2> QED  BY <1>3, <1>4, <2>1, SectorSizeAssumption
<1> HIDE DEF n, G
<1>7. \A k \in 1 .. n : k - 1 \in T => p[k - 1].data + NodeBytes(f, t, list[k], joliet) <= SectorSize
                                      /\ p[k - 1].data + NodeBytes(f, t, list[k], joliet) = 68 + G(k)
  <2> TAKE k \in 1 .. n
  <2> HAVE k - 1 \in T
  <2>1. k \in 0 .. n /\ k - 1 \in 0 .. n
    BY <1>1
  <2> DEFINE b == NodeBytes(f, t, list[k], joliet)
             g == G(k)
             h == G(k - 1)
             total == SumOver(w, list)
  <2>2. b \in Nat /\ g = h + b /\ g \in Nat /\ h \in Nat /\ g <= total /\ p[k - 1].data = 68 + h
    BY <1>2, <1>3, <1>4, <2>1
  <2>3. 68 + total <= SectorSize /\ total \in Nat /\ SectorSize \in Nat
    BY <1>6
  <2> HIDE DEF b, g, h, total
  <2>4. p[k - 1].data + b <= SectorSize /\ p[k - 1].data + b = 68 + g
    BY <2>2, <2>3
  <2> QED  BY <2>4 DEF b, g
<1>8. 0 \in T
  <2>1. p[0].data = 68
    BY <1>5
  <2> QED  BY <1>1, <1>3, <2>1
<1>9. \A k \in 0 .. n - 1 : k \in T => k + 1 \in T
  <2> TAKE k \in 0 .. n - 1
  <2>1. k + 1 \in 1 .. n /\ (k + 1) - 1 = k /\ k + 1 \in 0 .. n
    BY <1>1
  <2> HAVE k \in T
  <2> DEFINE b == NodeBytes(f, t, list[k + 1], joliet)
             e == p[k].data + b
  <2>2. e <= SectorSize /\ e = 68 + G(k + 1)
    BY <1>7, <2>1
  <2>3. p[k + 1] = IF p[k].data + b > SectorSize THEN [data |-> b, len |-> p[k].len + 1]
                   ELSE [data |-> p[k].data + b, len |-> p[k].len]
    BY <1>5, <2>1
  <2>4. e \in Nat
    <3>1. G(k + 1) \in Nat
      BY <1>4, <2>1
    <3> HIDE DEF e
    <3> QED  BY <2>2, <3>1
  <2>5. ~(e > SectorSize)
    <3> HIDE DEF e
    <3> QED  BY <1>6, <2>2, <2>4
  <2>6. p[k + 1].data = e
    BY <2>3, <2>5
  <2> HIDE DEF e
  <2> QED  BY <2>1, <2>2, <2>6
<1>10. 0 .. n \subseteq T
  <2> HIDE DEF T
  <2> QED  BY <1>1, <1>8, <1>9, UpTo
<1>11. \A k \in 1 .. n : k - 1 \in T
  BY <1>1, <1>10
<1> HIDE DEF T
<1> QED
  BY <1>7, <1>11 DEF n

(* A directory is written into the sectors that were calculated for it,    *)
(* and begins and ends with a sector.                                      *)
LEMMA DirWritten ==
  ASSUME NEW c \in Nat, NEW f, NEW t, NamedTree(t), NEW d \in Dirs(t), NEW level,
         NEW joliet \in BOOLEAN, DirRegular(f, t, d, joliet)
  PROVE  /\ WriteDir(At(c), f, t, d, level, joliet) = At(c + CalcDirSectors(f, t, d, level, joliet))
         /\ CalcDirSectors(f, t, d, level, joliet) \in Nat \ {0}
         /\ CalcDirSectors(f, t, d, level, joliet) <= 1 + Len(t.kids[d])
<1> DEFINE list == Listed(f, t, d, level)
           n == Len(list)
           w == [m \in Range(t.kids[d]) |-> NodeBytes(f, t, m, joliet)]
           bytes(k) == RecordSize(f, t, list[k], joliet)
           count(k) == ExtentCount(SizeOf(t, list[k]))
<1>1. /\ list \in Seq(Nodes(t)) /\ n \in Nat /\ n <= Len(t.kids[d])
      /\ \A k \in 1 .. n : list[k] \in Range(t.kids[d]) /\ list[k] \in Nodes(t)
      /\ \A v : (\A m \in Range(t.kids[d]) : v[m] \in Nat) =>
           /\ SumOver(v, list) \in Nat /\ SumOver(v, t.kids[d]) \in Nat
           /\ SumOver(v, list) <= SumOver(v, t.kids[d])
  BY ListedOf
<1>2. At(c) \in StreamType
  BY SectorSizeAssumption DEF At, StreamType
<1>3. 68 < SectorSize /\ SectorSize \in Nat \ {0}
  BY RecordsAssumption, SectorSizeAssumption DEF DirRecord
<1>4. \A k \in 1 .. n : /\ bytes(k) \in 1 .. SectorSize - 1 /\ count(k) \in Nat \ {0}
                        /\ NodeBytes(f, t, list[k], joliet) = bytes(k) * count(k)
  BY <1>1, NodeBytesNat DEF NodeBytes
<1>5. \A m \in Range(t.kids[d]) : m \in Nodes(t)
  BY KidsOf DEF NamedTree, Range
<1>6. \A m \in Range(t.kids[d]) : w[m] \in Nat
  BY <1>5, NodeBytesNat
<1> HIDE DEF list, w
<1>7. PICK p \in [0 .. n -> CalcType] :
        /\ CalcSteps(p, f, t, list, joliet)
        /\ CalcDirSectors(f, t, d, level, joliet) = p[n].len + 1
  BY <1>1, CalcDirSteps DEF list
<1>8. PICK q \in [0 .. n -> RunType] :
        /\ DirSteps(q, At(c), f, t, list, joliet)
        /\ WriteDir(At(c), f, t, d, level, joliet) = PadIfOpen(q[n].out)
  BY <1>1, <1>2, WriteDirSteps DEF list
<1>9. \A k \in 1 .. n : count(k) = 1 \/ p[k - 1].data + bytes(k) * count(k) <= SectorSize
  <2>1. CASE \A m \in Range(t.kids[d]) : ExtentCount(SizeOf(t, m)) = 1
    BY <1>1, <2>1
  <2>2. CASE 68 + SumOver(w, t.kids[d]) <= SectorSize
    <3>1. SumOver(w, list) \in Nat /\ SumOver(w, t.kids[d]) \in Nat
          /\ SumOver(w, list) <= SumOver(w, t.kids[d])
      BY <1>1, <1>6
    <3>2. 68 + SumOver(w, list) <= SectorSize
      BY <1>3, <2>2, <3>1
    <3>3. \A k \in 1 .. n : p[k - 1].data + NodeBytes(f, t, list[k], joliet) <= SectorSize
      BY <1>1, <1>7, <3>2, CalcInSector DEF w
    <3> HIDE DEF bytes, count
    <3> QED  BY <1>4, <3>3
  <2> QED  BY <2>1, <2>2 DEF DirRegular, w
<1> HIDE DEF bytes, count
<1> DEFINE T == {k \in 0 .. n : q[k] = AsCalculated(c, p[k]) /\ p[k] \in CalcSmall /\ p[k].len <= k}
<1>10. 0 \in T
  <2>1. p[0] = [data |-> 68, len |-> 0] /\ q[0] = [data |-> 68, out |-> WriteBytes(At(c), 68)]
    BY <1>7, <1>8 DEF CalcSteps, DirSteps
  <2>2. WriteBytes(At(c), 68) = [sector |-> c, written |-> 68]
    <3> DEFINE z == 0
               y == 68
    <3>1. z + y = y /\ z + y <= SectorSize /\ z + y # SectorSize /\ z \in Nat /\ y \in Nat
      BY <1>3
    <3> HIDE DEF z, y
    <3>2. WriteBytes([sector |-> c, written |-> z], y)
            = IF z + y = SectorSize THEN [sector |-> c + 1, written |-> 0]
              ELSE [sector |-> c, written |-> z + y]
      BY <3>1, InSector
    <3>3. WriteBytes([sector |-> c, written |-> z], y) = [sector |-> c, written |-> y]
      BY <3>1, <3>2
    <3> QED  BY <3>3 DEF At, z, y
  <2>3. Open(p[0]) = 68 /\ Closed(p[0]) = 0 /\ c + 0 = c
    BY <1>3, <2>1 DEF Open, Closed
  <2>4. q[0] = AsCalculated(c, p[0])
    BY <2>1, <2>2, <2>3 DEF AsCalculated
  <2>5. p[0] \in CalcSmall /\ p[0].len = 0
    BY <1>3, <2>1 DEF CalcSmall, CalcType
  <2> QED  BY <1>1, <2>4, <2>5
<1>11. \A k \in 0 .. n - 1 : k \in T => k + 1 \in T
  <2> TAKE k \in 0 .. n - 1
  <2>1. k + 1 \in 1 .. n /\ (k + 1) - 1 = k /\ k + 1 \in 0 .. n /\ k \in 0 .. n
    BY <1>1
  <2> HAVE k \in T
  <2> DEFINE b == bytes(k + 1)
             m == count(k + 1)
             r == p[k]
  <2>2. q[k + 1] = WriteRecords(AsCalculated(c, r), b, m)
    <3>1. q[k + 1] = WriteRecords(q[k], b, m)
      BY <1>8, <2>1 DEF DirSteps, bytes, count
    <3> QED  BY <3>1
  <2>3. p[k + 1] = CalcStep(r, b * m)
    <3>1. p[k + 1] = LET y == NodeBytes(f, t, list[k + 1], joliet)
                     IN IF p[k].data + y > SectorSize
                        THEN [data |-> y, len |-> p[k].len + 1]
                        ELSE [data |-> p[k].data + y, len |-> p[k].len]
      BY <1>7, <2>1 DEF CalcSteps
    <3>2. NodeBytes(f, t, list[k + 1], joliet) = b * m
      BY <1>4, <2>1
    <3> DEFINE y == b * m
    <3> HIDE DEF y
    <3>3. NodeBytes(f, t, list[k + 1], joliet) = y
      BY <3>2 DEF y
    <3>4. p[k + 1] = CalcStep(r, y)
      BY <3>1, <3>3 DEF CalcStep
    <3> QED  BY <3>4 DEF y
  <2>4. r \in CalcSmall /\ b \in 1 .. SectorSize - 1 /\ m \in Nat \ {0}
        /\ (m = 1 \/ r.data + b * m <= SectorSize) /\ r.len <= k
    BY <1>4, <1>9, <2>1
  <2> HIDE DEF b, m, r, T
  <2>5. /\ WriteRecords(AsCalculated(c, r), b, m) = AsCalculated(c, CalcStep(r, b * m))
        /\ CalcStep(r, b * m) \in CalcSmall
    BY <2>4, RecordsAsCalculated
  <2>6. CalcStep(r, b * m).len <= k + 1
    <3>1. CalcStep(r, b * m).len \in {r.len, r.len + 1} /\ r.len \in Nat
      BY <2>4 DEF CalcStep, CalcSmall, CalcType
    <3> HIDE DEF T
    <3> QED  BY <1>1, <2>1, <2>4, <3>1
  <2>7. q[k + 1] = AsCalculated(c, p[k + 1]) /\ p[k + 1] \in CalcSmall /\ p[k + 1].len <= k + 1
    BY <2>2, <2>3, <2>5, <2>6
  <2> QED  BY <2>1, <2>7 DEF T
<1>12. n \in T
  <2>1. 0 .. n \subseteq T
    <3> HIDE DEF T, n
    <3>1. n \in Nat
      BY <1>1
    <3> QED  BY <1>10, <1>11, <3>1, UpTo
  <2>2. n \in 0 .. n
    BY <1>1
  <2> HIDE DEF T
  <2> QED  BY <2>1, <2>2
<1>13. q[n] = AsCalculated(c, p[n]) /\ p[n] \in CalcSmall /\ p[n].len <= n
  BY <1>12
<1> DEFINE r == p[n]
<1>14. r.len \in Nat /\ r.data \in Nat \ {0} /\ r.data <= SectorSize /\ r.len <= n
  BY <1>13 DEF CalcSmall, CalcType
<1>15. PadIfOpen(q[n].out) = At(c + (r.len + 1))
  <2>1. q[n].out = [sector |-> c + Closed(r), written |-> Open(r)]
    BY <1>13 DEF AsCalculated
  <2>2. CASE r.data = SectorSize
    <3>1. Closed(r) = r.len + 1 /\ Open(r) = 0
      BY <2>2 DEF Open, Closed
    <3> HIDE DEF r
    <3> QED  BY <2>1, <3>1 DEF PadIfOpen, At
  <2>3. CASE r.data # SectorSize
    <3>1. Closed(r) = r.len /\ Open(r) = r.data
      BY <1>14, <2>3 DEF Open, Closed
    <3>2. r.data \in 0 .. SectorSize - 1 /\ r.data # 0
      BY <1>3, <1>14, <2>3
    <3> DEFINE s == c + r.len
               x == r.data
    <3>3. s \in Nat /\ s + 1 = c + (r.len + 1)
      BY <1>14
    <3>4. q[n].out = [sector |-> s, written |-> x]
      BY <2>1, <3>1
    <3> HIDE DEF r, s, x
    <3>5. PadSector([sector |-> s, written |-> x]) = At(s + 1)
      BY <3>2, <3>3, PadIs DEF x
    <3>6. PadIfOpen(q[n].out) = PadSector([sector |-> s, written |-> x])
      BY <3>2, <3>4 DEF PadIfOpen, x
    <3> QED  BY <3>3, <3>5, <3>6
  <2> QED  BY <2>2, <2>3
<1> HIDE DEF r, n
<1>16. CalcDirSectors(f, t, d, level, joliet) = r.len + 1
  BY <1>7 DEF r
<1>17. Len(t.kids[d]) \in Nat
  BY KidsOf DEF NamedTree
<1>18. r.len + 1 \in Nat \ {0} /\ r.len + 1 <= 1 + Len(t.kids[d])
  BY <1>1, <1>14, <1>17
<1> QED
  BY <1>8, <1>15, <1>16, <1>18

-----------------------------------------------------------------------------
(* Folds over sets, and the path tables.                                   *)

(* The member of a set that a fold takes first.                            *)
Chosen(u) == CHOOSE x \in u : TRUE

(* h is the value of the fold for each part of S.                          *)
SetFolds(h, S, base, step) ==
  h = [u \in SUBSET S |-> IF u = {} THEN base ELSE step[<<h[u \ {Chosen(u)}], Chosen(u)>>]]

(* The parts of a finite set with one member fewer.                        *)
LEMMA WithoutChosen ==
  ASSUME NEW S, IsFiniteSet(S), NEW u \in SUBSET S, u # {}
  PROVE  /\ Chosen(u) \in u /\ Chosen(u) \in S /\ u \ {Chosen(u)} \in SUBSET S
         /\ Cardinality(u) \in Nat \ {0} /\ Cardinality(u \ {Chosen(u)}) = Cardinality(u) - 1
<1>1. Chosen(u) \in u
  BY DEF Chosen
<1>2. IsFiniteSet(u)
  BY FS_Subset
<1>3. Cardinality(u) \in Nat /\ Cardinality(u) # 0
  BY <1>2, FS_CardinalityType, FS_EmptySet
<1>4. Cardinality(u \ {Chosen(u)}) = Cardinality(u) - 1
  BY <1>1, <1>2, FS_RemoveElement
<1> QED
  BY <1>1, <1>3, <1>4

(* Whatever a step does with the value and the member, there is a fold of  *)
(* it over a finite set.                                                   *)
LEMMA SetFoldExists ==
  ASSUME NEW S, IsFiniteSet(S), NEW X, NEW base \in X, NEW step \in [X \X S -> X]
  PROVE  \E h \in [SUBSET S -> X] : SetFolds(h, S, base, step)
<1> DEFINE n == Cardinality(S)
           Small(k) == {u \in SUBSET S : Cardinality(u) <= k}
           Value(h, u) == IF u = {} THEN base ELSE step[<<h[u \ {Chosen(u)}], Chosen(u)>>]
           Good == {k \in 0 .. n : \E h \in [Small(k) -> X] : \A u \in Small(k) : h[u] = Value(h, u)}
<1>1. n \in Nat /\ \A u \in SUBSET S : Cardinality(u) \in Nat /\ Cardinality(u) <= n
  BY FS_Subset, FS_CardinalityType
<1>2. \A u \in SUBSET S : Cardinality(u) = 0 <=> u = {}
  BY FS_Subset, FS_EmptySet
<1> HIDE DEF n
<1>3. 0 \in Good
  <2> DEFINE h == [u \in Small(0) |-> base]
  <2>1. \A u \in Small(0) : u = {}
    BY <1>1, <1>2
  <2>2. h \in [Small(0) -> X] /\ \A u \in Small(0) : h[u] = Value(h, u)
    BY <2>1
  <2>3. 0 \in 0 .. n
    BY <1>1
  <2> HIDE DEF h, Small, Value
  <2> QED  BY <2>2, <2>3
<1>4. ASSUME NEW k \in 0 .. n - 1, k \in Good
      PROVE  k + 1 \in Good
  <2>1. PICK g \in [Small(k) -> X] : \A u \in Small(k) : g[u] = Value(g, u)
    BY <1>4
  <2> DEFINE h == [u \in Small(k + 1) |-> Value(g, u)]
  <2>2. ASSUME NEW u \in Small(k + 1), u # {}
        PROVE  u \ {Chosen(u)} \in Small(k) /\ Chosen(u) \in S
    <3>1. /\ Chosen(u) \in S /\ u \ {Chosen(u)} \in SUBSET S
          /\ Cardinality(u) \in Nat \ {0} /\ Cardinality(u \ {Chosen(u)}) = Cardinality(u) - 1
      BY <2>2, WithoutChosen
    <3>2. Cardinality(u) <= k + 1
      OBVIOUS
    <3>3. Cardinality(u \ {Chosen(u)}) <= k
      BY <1>1, <3>1, <3>2
    <3> QED  BY <3>1, <3>3
  <2>3. \A u \in Small(k + 1) : Value(g, u) \in X
    <3> TAKE u \in Small(k + 1)
    <3>1. CASE u = {}
      BY <3>1
    <3>2. CASE u # {}
      <4>1. g[u \ {Chosen(u)}] \in X /\ Chosen(u) \in S
        BY <2>2, <3>2
      <4>2. <<g[u \ {Chosen(u)}], Chosen(u)>> \in X \X S
        BY <4>1
      <4>3. step[<<g[u \ {Chosen(u)}], Chosen(u)>>] \in X
        BY <4>2
      <4> QED  BY <3>2, <4>3
    <3> QED  BY <3>1, <3>2
  <2>4. \A u \in Small(k) : u \in Small(k + 1) /\ h[u] = g[u]
    <3> TAKE u \in Small(k)
    <3>1. Cardinality(u) \in Nat /\ Cardinality(u) <= k + 1
      BY <1>1
    <3>2. u \in Small(k + 1)
      BY <3>1
    <3> HIDE DEF Small, Value
    <3> QED  BY <2>1, <3>2
  <2>5. \A u \in Small(k + 1) : h[u] = Value(h, u)
    <3> TAKE u \in Small(k + 1)
    <3>1. CASE u = {}
      BY <3>1
    <3>2. CASE u # {}
      <4>1. h[u \ {Chosen(u)}] = g[u \ {Chosen(u)}]
        <5> HIDE DEF h, Small
        <5> QED  BY <2>2, <2>4, <3>2
      <4>2. h[u] = step[<<g[u \ {Chosen(u)}], Chosen(u)>>]
        BY <3>2
      <4> HIDE DEF h, Small
      <4> QED  BY <3>2, <4>1, <4>2
    <3> QED  BY <3>1, <3>2
  <2>6. h \in [Small(k + 1) -> X]
    <3> HIDE DEF Small, Value
    <3> QED  BY <2>3
  <2>7. k + 1 \in 0 .. n
    BY <1>1
  <2> HIDE DEF h, Small, Value
  <2> QED  BY <2>5, <2>6, <2>7
<1>5. n \in Good
  <2> HIDE DEF Good
  <2>1. 0 .. n \subseteq Good
    BY <1>1, <1>3, <1>4, UpTo
  <2>2. n \in 0 .. n
    BY <1>1
  <2> QED  BY <2>1, <2>2
<1>6. PICK h \in [Small(n) -> X] : \A u \in Small(n) : h[u] = Value(h, u)
  BY <1>5
<1>7. Small(n) = SUBSET S
  BY <1>1
<1>8. h \in [SUBSET S -> X] /\ \A u \in SUBSET S : h[u] = Value(h, u)
  <2> HIDE DEF Small, Value
  <2> QED  BY <1>6, <1>7
<1>9. h = [u \in SUBSET S |-> h[u]]
  BY <1>8
<1>10. h = [u \in SUBSET S |-> Value(h, u)]
  <2> HIDE DEF Value
  <2> QED  BY <1>8, <1>9
<1> QED
  BY <1>8, <1>10 DEF SetFolds

(* H goes from a part of S to a greater one by the step.                   *)
SetSteps(H, S, X, base, step) ==
  /\ H[{}] = base
  /\ \A u \in SUBSET S : u # {} /\ H[u \ {Chosen(u)}] \in X =>
       H[u] = step[<<H[u \ {Chosen(u)}], Chosen(u)>>]

(* Two folds over a set are the same when every step is, and both stay in  *)
(* the type of the values.                                                 *)
LEMMA SetFoldIs ==
  ASSUME NEW S, IsFiniteSet(S), NEW X, NEW base \in X, NEW step \in [X \X S -> X], NEW G, NEW H,
         SetSteps(G, S, X, base, step), SetSteps(H, S, X, base, step)
  PROVE  G[S] = H[S] /\ G[S] \in X
<1> DEFINE n == Cardinality(S)
           Good == {k \in 0 .. n : \A u \in SUBSET S : Cardinality(u) <= k => G[u] = H[u] /\ G[u] \in X}
<1>1. n \in Nat /\ \A u \in SUBSET S : Cardinality(u) \in Nat /\ Cardinality(u) <= n
  BY FS_Subset, FS_CardinalityType
<1>2. \A u \in SUBSET S : Cardinality(u) = 0 <=> u = {}
  BY FS_Subset, FS_EmptySet
<1> HIDE DEF n
<1>3. 0 \in Good
  <2>1. \A u \in SUBSET S : Cardinality(u) <= 0 => u = {}
    BY <1>1, <1>2
  <2>2. 0 \in 0 .. n
    BY <1>1
  <2> QED  BY <2>1, <2>2 DEF SetSteps
<1>4. ASSUME NEW k \in 0 .. n - 1, k \in Good
      PROVE  k + 1 \in Good
  <2>1. ASSUME NEW u \in SUBSET S, Cardinality(u) <= k + 1
        PROVE  G[u] = H[u] /\ G[u] \in X
    <3>1. CASE u = {}
      BY <3>1 DEF SetSteps
    <3>2. CASE u # {}
      <4> DEFINE c == Chosen(u)
                 v == u \ {c}
      <4>1. c \in S /\ v \in SUBSET S /\ Cardinality(u) \in Nat \ {0} /\ Cardinality(v) = Cardinality(u) - 1
        BY <3>2, WithoutChosen
      <4>2. Cardinality(v) <= k
        BY <2>1, <4>1
      <4>3. G[v] = H[v] /\ G[v] \in X
        BY <1>4, <4>1, <4>2
      <4>4. G[u] = step[<<G[v], c>>] /\ H[u] = step[<<H[v], c>>]
        BY <3>2, <4>3 DEF SetSteps
      <4>5. <<G[v], c>> \in X \X S
        BY <4>1, <4>3
      <4> QED  BY <4>3, <4>4, <4>5
    <3> QED  BY <3>1, <3>2
  <2>2. k + 1 \in 0 .. n
    BY <1>1
  <2> QED  BY <2>1, <2>2
<1>5. n \in Good
  <2> HIDE DEF Good
  <2>1. 0 .. n \subseteq Good
    BY <1>1, <1>3, <1>4, UpTo
  <2>2. n \in 0 .. n
    BY <1>1
  <2> QED  BY <2>1, <2>2
<1>6. S \in SUBSET S /\ Cardinality(S) <= n
  BY <1>1
<1> QED
  BY <1>5, <1>6

(* The bytes of a name are counted from 0.                                 *)
LEMMA WriteBytesNat ==
  ASSUME NEW f, NEW nm, IsName(nm), NEW isDir \in BOOLEAN, NEW joliet \in BOOLEAN
  PROVE  WriteBytesOf(f, nm, isDir, joliet) \in Nat
<1>1. IsoWriteLen(f, nm, isDir) \in Nat
  <2>1. IsoWriteLen(f, nm, isDir) \in 0 .. 209
    BY NameBytes
  <2> QED  BY <2>1
<1>2. JolietWriteLen(f, nm, isDir) \in Nat
  <2>1. JolietWriteLen(f, nm, isDir) \in 0 .. JolietMax(f) + 2 /\ JolietMax(f) \in Nat
    BY NameBytes
  <2> QED  BY <2>1
<1> QED
  BY <1>1, <1>2 DEF WriteBytesOf

(* What a path table takes is foreseen as it is written: the names of      *)
(* directories have no version, and both pads make the record even.        *)
LEMMA TablesAgree ==
  ASSUME NEW f, NEW t, NamedTree(t), NEW dirs \in SUBSET Dirs(t), NEW joliet \in BOOLEAN
  PROVE  /\ PathTableBytes(f, t, dirs, joliet) \in Nat \ {0}
         /\ PathTableLength(f, t, dirs, joliet) = PathTableBytes(f, t, dirs, joliet)
<1> DEFINE a(d) == Even(PathRecord - 1 + CalcBytesOf(f, t.name[d], TRUE, joliet))
           b(d) == PathRecord - 1 + Even(WriteBytesOf(f, t.name[d], TRUE, joliet))
           x(d) == WriteBytesOf(f, t.name[d], TRUE, joliet)
           base == PathRecord + 1
           X    == Nat \ {0}
           IsG(h) == h = [u \in SUBSET dirs |-> IF u = {} THEN base
                            ELSE h[u \ {CHOOSE e \in u : TRUE}] + a(CHOOSE e \in u : TRUE)]
           IsH(h) == h = [u \in SUBSET dirs |-> IF u = {} THEN base
                            ELSE h[u \ {CHOOSE e \in u : TRUE}] + PathRecord - 1
                                   + Even(WriteBytesOf(f, t.name[CHOOSE e \in u : TRUE], TRUE, joliet))]
           G == CHOOSE h : IsG(h)
           H == CHOOSE h : IsH(h)
           step == [y \in X \X dirs |-> y[1] + b(y[2])]
<1>1. PathTableBytes(f, t, dirs, joliet) = G[dirs]
  BY DEF PathTableBytes, FoldSet, MapThenFoldSet
<1>2. PathTableLength(f, t, dirs, joliet) = H[dirs]
  BY DEF PathTableLength, FoldSet, MapThenFoldSet
<1>3. IsFiniteSet(dirs)
  <2>1. dirs \in SUBSET Nodes(t)
    BY DEF Nodes
  <2> QED  BY <2>1, FS_Subset DEF NamedTree
<1>4. \A d \in dirs : a(d) = b(d) /\ b(d) \in Nat /\ PathRecord = 9
  <2> TAKE d \in dirs
  <2>1. IsName(t.name[d])
    BY DEF NamedTree, Nodes
  <2>2. JolietMax(f) \in Nat \ {0}
    BY <2>1, NameBytes
  <2>3. x(d) \in Nat
    BY <2>1, WriteBytesNat
  <2>4. CalcBytesOf(f, t.name[d], TRUE, joliet) = x(d)
    <3>1. IsoCalcLen(f, t.name[d], TRUE) = IsoWriteLen(f, t.name[d], TRUE)
      BY DEF IsoCalcLen, IsoWriteLen
    <3>2. JolietCalcLen(f, t.name[d], TRUE) = JolietWriteLen(f, t.name[d], TRUE)
      <4> DEFINE nm == t.name[d]
                 max == JolietMax(f)
      <4>1. nm.base \in Nat /\ nm.ext \in Nat \cup {NoDot} /\ NoDot = -1
        BY <2>1 DEF IsName, NoDot
      <4>2. max \in Nat \ {0}
        BY <2>2
      <4>3. FullLen(nm) > max => WriteNameCut(nm, max) = max
        <5> HIDE DEF max, nm
        <5>1. CASE nm.ext = NoDot
          BY <4>1, <4>2, <5>1 DEF WriteNameCut, FullLen, Least
        <5>2. CASE nm.ext \in Nat
          BY <4>1, <4>2, <5>2 DEF WriteNameCut, FullLen, Least
        <5> QED  BY <4>1, <5>1, <5>2
      <4>4. FullLen(nm) \in Nat
        <5> HIDE DEF nm
        <5> QED  BY <4>1 DEF FullLen
      <4>5. (IF FullLen(nm) > max THEN WriteNameCut(nm, max) ELSE FullLen(nm)) = Least(FullLen(nm), max)
        <5> HIDE DEF max, nm
        <5> QED  BY <4>2, <4>3, <4>4 DEF Least
      <4> QED  BY <4>5 DEF JolietCalcLen, JolietWriteLen
    <3> QED  BY <3>1, <3>2 DEF CalcBytesOf, WriteBytesOf
  <2> HIDE DEF x
  <2>5. a(d) = Even(8 + x(d)) /\ b(d) = 8 + Even(x(d))
    <3>1. PathRecord - 1 = 8
      BY DEF PathRecord
    <3>2. a(d) = Even(PathRecord - 1 + x(d)) /\ b(d) = PathRecord - 1 + Even(x(d))
      BY <2>4 DEF x
    <3> HIDE DEF a, b
    <3> QED  BY <3>1, <3>2
  <2> DEFINE z == x(d)
             q == z \div 2
             r == z % 2
  <2>6. q \in Nat /\ r \in 0 .. 1 /\ z = q * 2 + r
    <3>1. r \in 0 .. 2 - 1
      BY <2>3, DivModOf
    <3> QED  BY <2>3, <3>1, DivModOf
  <2>7. r = z % 2
    OBVIOUS
  <2> HIDE DEF z, q, r
  <2>8. (8 + z) % 2 = r
    <3>1. 8 + z = (q + 4) * 2 + r /\ q + 4 \in Nat /\ r \in 0 .. 2 - 1
      BY <2>6
    <3> QED  BY <3>1, DivModIs
  <2>9. Even(8 + z) = 8 + z + r /\ Even(z) = z + r
    BY <2>7, <2>8 DEF Even
  <2>10. a(d) = b(d) /\ b(d) \in Nat
    <3>1. z \in Nat
      BY <2>3 DEF z
    <3> HIDE DEF a, b
    <3> QED  BY <2>5, <2>6, <2>9, <3>1 DEF z
  <2> HIDE DEF a, b
  <2> QED  BY <2>10 DEF PathRecord
<1>5. base \in X
  BY DEF PathRecord
<1>17. \A d \in dirs, y \in X :
        y + PathRecord - 1 + Even(WriteBytesOf(f, t.name[d], TRUE, joliet)) = y + b(d)
  <2> TAKE d \in dirs, y \in X
  <2> DEFINE e == Even(WriteBytesOf(f, t.name[d], TRUE, joliet))
  <2>1. PathRecord - 1 + e \in Nat /\ PathRecord = 9
    BY <1>4
  <2>2. e \in Int
    <3> DEFINE z == WriteBytesOf(f, t.name[d], TRUE, joliet)
    <3>1. z \in Nat
      <4>1. IsName(t.name[d])
        BY DEF NamedTree, Nodes
      <4> QED  BY <4>1, WriteBytesNat
    <3>2. e = z + (z % 2)
      BY DEF Even
    <3> HIDE DEF z, e
    <3> QED  BY <3>1, <3>2
  <2>3. b(d) = PathRecord - 1 + e
    OBVIOUS
  <2> HIDE DEF e, b
  <2>4. y + PathRecord - 1 + e = y + b(d)
    BY <2>1, <2>2, <2>3
  <2> QED  BY <2>4 DEF e
<1> HIDE DEF a, b, x, base
<1>6. step \in [X \X dirs -> X]
  BY <1>4
<1>7. \A u \in SUBSET dirs : u # {} => (CHOOSE e \in u : TRUE) = Chosen(u) /\ Chosen(u) \in dirs
  BY <1>3, WithoutChosen DEF Chosen
<1>8. PICK h \in [SUBSET dirs -> X] : SetFolds(h, dirs, base, step)
  <2> HIDE DEF step, X
  <2> QED  BY <1>3, <1>5, <1>6, SetFoldExists
<1>9. \A u \in SUBSET dirs : u # {} =>
        step[<<h[u \ {Chosen(u)}], Chosen(u)>>] = h[u \ {Chosen(u)}] + b(Chosen(u))
  <2> TAKE u \in SUBSET dirs
  <2> HAVE u # {}
  <2>1. h[u \ {Chosen(u)}] \in X /\ Chosen(u) \in dirs
    BY <1>7
  <2> HIDE DEF X
  <2> QED  BY <2>1
<1>10. IsG(h)
  <2>1. \A u \in SUBSET dirs : u # {} => step[<<h[u \ {Chosen(u)}], Chosen(u)>>] = h[u \ {Chosen(u)}] + a(Chosen(u))
    BY <1>4, <1>7, <1>9
  <2> HIDE DEF step, X
  <2> QED  BY <1>7, <1>8, <2>1 DEF SetFolds, Chosen
<1>11. IsH(h)
  <2>1. \A u \in SUBSET dirs : u # {} =>
          step[<<h[u \ {Chosen(u)}], Chosen(u)>>]
            = h[u \ {Chosen(u)}] + PathRecord - 1
                + Even(WriteBytesOf(f, t.name[Chosen(u)], TRUE, joliet))
    <3> TAKE u \in SUBSET dirs
    <3> HAVE u # {}
    <3>1. h[u \ {Chosen(u)}] \in X /\ Chosen(u) \in dirs
      BY <1>7
    <3> HIDE DEF X, step
    <3> QED  BY <1>17, <1>9, <3>1
  <2> DEFINE g(u) == h[u \ {Chosen(u)}] + PathRecord - 1
                       + Even(WriteBytesOf(f, t.name[Chosen(u)], TRUE, joliet))
  <2>2. h = [u \in SUBSET dirs |-> IF u = {} THEN base
                                   ELSE step[<<h[u \ {Chosen(u)}], Chosen(u)>>]]
    BY <1>8 DEF SetFolds
  <2>3. \A u \in SUBSET dirs : u # {} => step[<<h[u \ {Chosen(u)}], Chosen(u)>>] = g(u)
    BY <2>1
  <2>4. h = [u \in SUBSET dirs |-> IF u = {} THEN base ELSE g(u)]
    <3> HIDE DEF g, step, X
    <3> QED  BY <2>2, <2>3
  <2> HIDE DEF step, X
  <2> QED  BY <2>4 DEF Chosen
<1>12. IsG(G) /\ IsH(H)
  <2> HIDE DEF IsG, IsH
  <2> QED  BY <1>10, <1>11
<1> HIDE DEF G, H
<1>13. G[{}] = base /\ H[{}] = base
  BY <1>12
<1>14. \A u \in SUBSET dirs : u # {} /\ G[u \ {Chosen(u)}] \in X =>
         G[u] = step[<<G[u \ {Chosen(u)}], Chosen(u)>>]
  <2> TAKE u \in SUBSET dirs
  <2> HAVE u # {} /\ G[u \ {Chosen(u)}] \in X
  <2>1. G[u] = G[u \ {Chosen(u)}] + a(Chosen(u))
    <3> HIDE DEF step, X
    <3> QED  BY <1>12 DEF Chosen
  <2>2. Chosen(u) \in dirs
    BY <1>7
  <2>3. step[<<G[u \ {Chosen(u)}], Chosen(u)>>] = G[u \ {Chosen(u)}] + b(Chosen(u))
    <3> HIDE DEF X
    <3> QED  BY <2>2
  <2> HIDE DEF step
  <2> QED  BY <1>4, <2>1, <2>2, <2>3
<1>15. \A u \in SUBSET dirs : u # {} /\ H[u \ {Chosen(u)}] \in X =>
         H[u] = step[<<H[u \ {Chosen(u)}], Chosen(u)>>]
  <2> TAKE u \in SUBSET dirs
  <2> HAVE u # {} /\ H[u \ {Chosen(u)}] \in X
  <2>1. H[u] = H[u \ {Chosen(u)}] + PathRecord - 1
               + Even(WriteBytesOf(f, t.name[Chosen(u)], TRUE, joliet))
    <3> HIDE DEF step, X
    <3> QED  BY <1>12 DEF Chosen
  <2>2. Chosen(u) \in dirs
    BY <1>7
  <2>3. step[<<H[u \ {Chosen(u)}], Chosen(u)>>] = H[u \ {Chosen(u)}] + b(Chosen(u))
    <3> HIDE DEF X
    <3> QED  BY <2>2
  <2> HIDE DEF step, X
  <2> QED  BY <1>17, <2>1, <2>2, <2>3
<1>16. SetSteps(G, dirs, X, base, step) /\ SetSteps(H, dirs, X, base, step)
  <2> HIDE DEF step, X
  <2> QED  BY <1>13, <1>14, <1>15 DEF SetSteps
<1>18. G[dirs] = H[dirs] /\ G[dirs] \in X
  <2> HIDE DEF IsG, IsH, step, X
  <2> QED  BY <1>3, <1>5, <1>6, <1>16, SetFoldIs
<1> QED
  BY <1>1, <1>2, <1>18

-----------------------------------------------------------------------------
(* Reserving.                                                              *)

(* The manager stays one, whatever is asked for: its counters wrap.        *)
LEMMA AllocTyped ==
  ASSUME NEW m \in ManagerType, NEW r \in Regions, NEW k \in Int
  PROVE  AllocSectors(m, r, k) \in ManagerType
<1> DEFINE next == (m.next + k) % Word
<1>1. m.next \in Nat /\ m.start \in [Regions -> Nat] /\ m.dataStart \in Nat /\ m.dataLen \in Nat
  BY DEF ManagerType
<1>2. next \in Nat
  BY <1>1, WordAssumption
<1> DEFINE start == [m.start EXCEPT ![r] = m.next]
<1>3. start \in [Regions -> Nat]
  BY <1>1
<1>4. AllocSectors(m, r, k) = [next |-> next, start |-> start, dataStart |-> m.dataStart, dataLen |-> m.dataLen]
  <2>1. AllocSectors(m, r, k) = [m EXCEPT !.start[r] = m.next, !.next = next]
    BY DEF AllocSectors
  <2> HIDE DEF next
  <2>2. m = [next |-> m.next, start |-> m.start, dataStart |-> m.dataStart, dataLen |-> m.dataLen]
    BY DEF ManagerType
  <2> QED  BY <2>1, <2>2
<1> HIDE DEF next, start
<1> QED
  BY <1>1, <1>2, <1>3, <1>4 DEF ManagerType

(* It stays one when it is asked for bytes.                                *)
LEMMA AllocBytesTyped ==
  ASSUME NEW m \in ManagerType, NEW r \in Regions, NEW k \in Nat
  PROVE  AllocBytes(m, r, k) \in ManagerType
<1>1. BytesToSec(k) \in Int
  BY SectorsNat
<1> QED
  BY <1>1, AllocTyped DEF AllocBytes

(* It stays one when the passes that reserve have ended.                   *)
LEMMA AllocDataTyped ==
  ASSUME NEW m \in ManagerType, NEW k \in Nat
  PROVE  AllocDataSectors(m, k) \in ManagerType
<1> DEFINE next == (m.next + k) % Word
<1>1. m.next \in Nat /\ m.start \in [Regions -> Nat] /\ m.dataStart \in Nat /\ m.dataLen \in Nat
  BY DEF ManagerType
<1>2. next \in Nat
  BY <1>1, WordAssumption
<1>3. AllocDataSectors(m, k) = [next |-> next, start |-> m.start, dataStart |-> m.next, dataLen |-> k]
  <2>1. AllocDataSectors(m, k) = [m EXCEPT !.dataStart = m.next, !.dataLen = k, !.next = next]
    BY DEF AllocDataSectors
  <2> HIDE DEF next
  <2>2. m = [next |-> m.next, start |-> m.start, dataStart |-> m.dataStart, dataLen |-> m.dataLen]
    BY DEF ManagerType
  <2> QED  BY <2>1, <2>2
<1> HIDE DEF next
<1> QED
  BY <1>1, <1>2, <1>3 DEF ManagerType

(* The regions that are asked for by name are regions.                     *)
LEMMA RegionsHave ==
  \A r \in {"descriptors", "bootcatalog", "bootdata", "path L", "path M", "joliet path L",
            "joliet path M", "direntries", "initial", "main", "fileset"} : r \in Regions
BY RegionsAssumption DEF IsoRegions, UdfRegions

(* The header is reserved.                                                 *)
LEMMA HeaderTyped ==
  ASSUME NEW m \in ManagerType, NEW f, AreImages(f.images), NEW t, NamedTree(t)
  PROVE  AllocIsoHeader(m, f) \in ManagerType /\ AllocUdf(m, f, t) \in ManagerType
<1> DEFINE voldesc == SectorSize * (2 + (IF f.images # <<>> THEN 1 ELSE 0)
                                 + (IF HasSuppl(f) THEN 1 ELSE 0)
                                 + (IF IsJoliet(f) THEN 1 ELSE 0))
           header  == AllocBytes(m, "descriptors", voldesc)
           catalog == AllocBytes(header, "bootcatalog", BootCatSize(f.images))
<1>1. voldesc \in Nat
  BY SectorSizeAssumption
<1>2. BootDataSize(f.images) \in Nat /\ BootCatSize(f.images) \in Nat
  BY ImagesSize
<1>3. AllocIsoHeader(m, f) = IF f.extended \/ f.images = <<>> THEN header
                             ELSE AllocBytes(catalog, "bootdata", BootDataSize(f.images))
  BY DEF AllocIsoHeader
<1> HIDE DEF voldesc
<1>4. header \in ManagerType
  BY <1>1, RegionsHave, AllocBytesTyped
<1> HIDE DEF header
<1>5. catalog \in ManagerType
  BY <1>2, <1>4, RegionsHave, AllocBytesTyped
<1> HIDE DEF catalog
<1>6. AllocBytes(catalog, "bootdata", BootDataSize(f.images)) \in ManagerType
  BY <1>2, <1>5, RegionsHave, AllocBytesTyped
<1> DEFINE initial == AllocSectors(m, "initial", 3)
           main    == AllocSectors(initial, "main", 258 - initial.next)
           all     == UdfSizeTotal(f, t)[Root]
<1>7. initial \in ManagerType
  <2>1. "initial" \in Regions
    BY RegionsHave
  <2>2. 3 \in Int
    OBVIOUS
  <2> QED  BY <2>1, <2>2, AllocTyped
<1> HIDE DEF initial
<1>8. main \in ManagerType
  <2>1. 258 - initial.next \in Int
    BY <1>7 DEF ManagerType
  <2> QED  BY <1>7, <2>1, RegionsHave, AllocTyped
<1> HIDE DEF main
<1>9. all \in Int
  <2>1. Root \in Dirs(t) \cup Files(t)
    BY DEF NamedTree, IsTree
  <2>2. UdfSizeTotal(f, t) \in [Dirs(t) \cup Files(t) -> Nat]
    BY TotalsAre DEF Totals
  <2> QED  BY <2>1, <2>2
<1> HIDE DEF all
<1>10. AllocSectors(main, "fileset", all) \in ManagerType
  BY <1>8, <1>9, RegionsHave, AllocTyped
<1>11. AllocUdf(m, f, t) = AllocSectors(main, "fileset", all)
  BY DEF AllocUdf, initial, main, all
<1> QED
  BY <1>3, <1>4, <1>6, <1>10, <1>11

(* The path tables are reserved.                                           *)
LEMMA TablesTyped ==
  ASSUME NEW m \in ManagerType, NEW f, NEW t, NamedTree(t), NEW dirs \in SUBSET Dirs(t)
  PROVE  AllocPathTables(m, f, t, dirs) \in ManagerType
<1> DEFINE normal == PathTableBytes(f, t, dirs, FALSE)
           joliet == IF IsJoliet(f) THEN PathTableBytes(f, t, dirs, TRUE) ELSE 0
<1>1. normal \in Nat /\ PathTableBytes(f, t, dirs, TRUE) \in Nat
  BY TablesAgree
<1>2. joliet \in Nat
  BY <1>1
<1> HIDE DEF normal, joliet
<1> DEFINE l == AllocBytes(m, "path L", normal)
           be == AllocBytes(l, "path M", normal)
           jl == AllocBytes(be, "joliet path L", joliet)
<1>3. l \in ManagerType
  BY <1>1, RegionsHave, AllocBytesTyped
<1> HIDE DEF l
<1>4. be \in ManagerType
  BY <1>1, <1>3, RegionsHave, AllocBytesTyped
<1> HIDE DEF be
<1>5. jl \in ManagerType
  BY <1>2, <1>4, RegionsHave, AllocBytesTyped
<1> HIDE DEF jl
<1>6. AllocBytes(jl, "joliet path M", joliet) \in ManagerType
  BY <1>2, <1>5, RegionsHave, AllocBytesTyped
<1>7. AllocPathTables(m, f, t, dirs) = AllocBytes(jl, "joliet path M", joliet)
  BY DEF AllocPathTables, l, be, jl, normal, joliet
<1> QED
  BY <1>6, <1>7

(* What a pass pushes are directories.                                     *)
LEMMA PushTyped ==
  ASSUME NEW t, IsTree(t), NEW stack \in Seq(Dirs(t) \X Nat), stack # <<>>,
         NEW d \in Dirs(t), NEW level \in Nat, NEW max
  PROVE  PushDirs(stack, t, d, level, max) \in Seq(Dirs(t) \X Nat)
<1>1. t.kids[d] \in Seq(Nodes(t))
  BY KidsOf
<1>2. SubDirs(t, d) = Selection(t.kids[d], Dirs(t)) /\ SubDirs(t, d) \in Seq(Nodes(t))
      /\ Selected(SubDirs(t, d), Len(t.kids[d]), t.kids[d], Dirs(t))
  BY <1>1, AmongIs DEF SubDirs
<1>3. \A i \in 1 .. Len(SubDirs(t, d)) : SubDirs(t, d)[i] \in Dirs(t)
  BY <1>2 DEF Selected
<1> DEFINE n == Len(SubDirs(t, d))
           pushed == [i \in 1 .. n |-> <<SubDirs(t, d)[i], level + 1>>]
<1>4. n \in Nat
  BY <1>2
<1> HIDE DEF n
<1>5. pushed \in Seq(Dirs(t) \X Nat)
  <2>1. \A i \in 1 .. n : <<SubDirs(t, d)[i], level + 1>> \in Dirs(t) \X Nat
    BY <1>3 DEF n
  <2> QED  BY <1>4, <2>1, SeqIs
<1>6. Front(stack) \in Seq(Dirs(t) \X Nat)
  BY DEF Front
<1>7. Front(stack) \o pushed \in Seq(Dirs(t) \X Nat)
  <2> HIDE DEF pushed
  <2> QED  BY <1>5, <1>6
<1> QED
  BY <1>6, <1>7 DEF PushDirs, n

-----------------------------------------------------------------------------
(* The passes over the tree.                                               *)

StackOf(t) == Seq(Dirs(t) \X Nat)
TopIn(stack) == stack[Len(stack)][1]

(* One round of a pass over the tree: what it does to dir_node_stack.      *)
Pushes(stack, t, max) ==
  PushDirs(stack, t, stack[Len(stack)][1], stack[Len(stack)][2], max)

(* What is left, and on top of it the directories in the one taken off.    *)
LEMMA PushesIs ==
  ASSUME NEW t, IsTree(t), NEW stack \in StackOf(t), stack # <<>>, NEW max
  PROVE  LET next == Pushes(stack, t, max)
             k    == Len(stack) - 1
             d    == TopIn(stack)
         IN /\ next \in StackOf(t) /\ Len(next) \in Nat /\ k \in Nat /\ k <= Len(next)
            /\ d \in Dirs(t) /\ stack[Len(stack)][2] \in Nat
            /\ \A x \in 1 .. k : next[x] = stack[x]
            /\ \A x \in k + 1 .. Len(next) : next[x][1] \in Range(t.kids[d]) \cap Dirs(t)
            /\ \A x, y \in k + 1 .. Len(next) : next[x][1] = next[y][1] => x = y
<1> DEFINE n == Len(stack)
           k == n - 1
           d == stack[n][1]
           level == stack[n][2]
           kids == t.kids[d]
           sub == SubDirs(t, d)
           m == Len(sub)
           pushed == [i \in 1 .. m |-> <<sub[i], level + 1>>]
           next == Pushes(stack, t, max)
<1>1. n \in Nat \ {0} /\ stack[n] \in Dirs(t) \X Nat /\ d \in Dirs(t) /\ level \in Nat /\ k \in Nat
  <2>1. n \in Nat \ {0}
    BY DEF StackOf
  <2>2. stack[n] \in Dirs(t) \X Nat
    BY <2>1 DEF StackOf
  <2> HIDE DEF n
  <2> QED  BY <2>1, <2>2
<1>2. next \in StackOf(t)
  BY <1>1, PushTyped DEF Pushes, StackOf
<1>3. Front(stack) \in StackOf(t) /\ Len(Front(stack)) = k /\ \A x \in 1 .. k : Front(stack)[x] = stack[x]
  <2>1. Front(stack) = SubSeq(stack, 1, k)
    BY DEF Front
  <2>2. stack \in Seq(Dirs(t) \X Nat) /\ 1 .. k \subseteq 1 .. Len(stack)
    BY <1>1 DEF StackOf
  <2> HIDE DEF k
  <2>3. SubSeq(stack, 1, k) \in Seq(Dirs(t) \X Nat) /\ Len(SubSeq(stack, 1, k)) = k
        /\ \A x \in 1 .. k : SubSeq(stack, 1, k)[x] = stack[x]
    BY <1>1, <2>2
  <2> QED  BY <2>1, <2>3 DEF StackOf
<1>4. kids \in Seq(Nodes(t)) /\ Len(kids) \in Nat /\ DOMAIN kids = 1 .. Len(kids)
      /\ \A i \in 1 .. Len(kids) : kids[i] \in Range(kids)
  BY <1>1, KidsOf
<1>5. sub \in Seq(Nodes(t)) /\ m \in Nat /\ Selected(sub, Len(kids), kids, Dirs(t))
  <2> HIDE DEF kids
  <2>1. sub = Among(kids, Dirs(t))
    BY DEF SubDirs, kids
  <2> HIDE DEF sub
  <2> QED  BY <1>4, <2>1, AmongIs
<1>6. \A i, j \in 1 .. Len(kids) : kids[i] = kids[j] => i = j
  <2>1. \A i, j \in DOMAIN t.kids[d] : t.kids[d][i] = t.kids[d][j] => i = j
    BY <1>1 DEF IsTree
  <2> HIDE DEF d
  <2> QED  BY <1>4, <2>1
<1>7. \A i \in 1 .. m : sub[i] \in Range(kids) \cap Dirs(t)
  <2> HIDE DEF kids, sub
  <2> QED  BY <1>4, <1>5 DEF Selected
<1>8. \A i, j \in 1 .. m : sub[i] = sub[j] => i = j
  <2> HIDE DEF kids, sub
  <2> QED  BY <1>5, <1>6 DEF Selected
<1>9. next = IF level > max THEN Front(stack) ELSE Front(stack) \o pushed
  BY DEF Pushes, PushDirs
<1> HIDE DEF next, kids, sub, m
<1>10. CASE level > max
  <2>1. next = Front(stack)
    BY <1>9, <1>10
  <2>2. Len(next) = k /\ \A x \in 1 .. k : next[x] = stack[x]
    BY <1>3, <2>1
  <2> HIDE DEF k, d, n
  <2>3. \A x \in k + 1 .. Len(next) : FALSE
    BY <1>1, <2>2
  <2>4. k <= Len(next) /\ Len(next) \in Nat
    BY <1>1, <2>2
  <2> QED  BY <1>1, <1>2, <2>2, <2>3, <2>4 DEF next, k, d, n, TopIn
<1>11. CASE ~(level > max)
  <2>1. next = Front(stack) \o pushed
    BY <1>9, <1>11
  <2>2. Len(pushed) = m /\ pushed \in Seq(Nodes(t) \X Nat)
    <3>1. \A i \in 1 .. m : <<sub[i], level + 1>> \in Nodes(t) \X Nat
      BY <1>1, <1>5 DEF m
    <3> HIDE DEF level
    <3> QED  BY <1>5, <3>1, SeqIs
  <2>3. \A i \in 1 .. m : pushed[i][1] = sub[i]
    BY <1>5
  <2> HIDE DEF pushed, k, d, n
  <2>4. /\ Len(next) = k + m
        /\ \A x \in 1 .. k : next[x] = Front(stack)[x]
        /\ \A x \in k + 1 .. k + m : next[x] = pushed[x - k]
    <3>1. Len(Front(stack)) = k /\ Front(stack) \in StackOf(t)
      BY <1>3
    <3> DEFINE s == Front(stack)
    <3> HIDE DEF s
    <3>2. s \in Seq(Dirs(t) \X Nat) /\ Len(s) = k /\ next = s \o pushed
      BY <2>1, <3>1 DEF s, StackOf
    <3>3. Len(s \o pushed) = k + m /\ \A x \in 1 .. k + m : (s \o pushed)[x] = IF x <= k THEN s[x] ELSE pushed[x - k]
      BY <1>1, <1>5, <2>2, <3>2
    <3> QED  BY <1>1, <1>5, <3>2, <3>3 DEF s
  <2>5. \A x \in k + 1 .. k + m : x - k \in 1 .. m
    BY <1>1, <1>5
  <2>6. \A x \in k + 1 .. Len(next) : next[x][1] = sub[x - k] /\ x - k \in 1 .. m
    BY <2>3, <2>4, <2>5
  <2>7. \A x \in k + 1 .. Len(next) : next[x][1] \in Range(kids) \cap Dirs(t)
    BY <1>7, <2>6
  <2>8. \A x, y \in k + 1 .. Len(next) : next[x][1] = next[y][1] => x = y
    <3> TAKE x, y \in k + 1 .. Len(next)
    <3> HAVE next[x][1] = next[y][1]
    <3>1. x - k = y - k
      BY <1>8, <2>6
    <3> QED  BY <1>1, <3>1
  <2>9. \A x \in 1 .. k : next[x] = stack[x]
    BY <1>3, <2>4
  <2>10. k <= Len(next) /\ Len(next) \in Nat
    BY <1>1, <1>5, <2>4
  <2> QED  BY <1>1, <1>2, <2>7, <2>8, <2>9, <2>10 DEF next, k, d, n, TopIn, kids
<1> QED  BY <1>1, <1>10, <1>11

(***************************************************************************)
(* The first n rounds of a pass: dir_node_stack before each, and a counter *)
(* to which a directory at its level adds what it takes.                   *)
(***************************************************************************)
Trace(q, a, n, t, max, from, takes) ==
  /\ q \in [0 .. n -> StackOf(t)] /\ a \in [0 .. n -> Nat]
  /\ q[0] = RootStack /\ a[0] = from
  /\ \A i \in 1 .. n : /\ q[i - 1] # <<>>
                       /\ q[i] = Pushes(q[i - 1], t, max)
                       /\ a[i] = a[i - 1] + takes[q[i - 1][Len(q[i - 1])]]

Extends(r, b, q, a, n) == \A i \in 0 .. n : r[i] = q[i] /\ b[i] = a[i]

(* One round more.                                                         *)
LEMMA TraceStep ==
  ASSUME NEW t, IsTree(t), NEW max, NEW from, NEW takes \in [Dirs(t) \X Nat -> Nat],
         NEW n \in Nat, NEW q, NEW a, Trace(q, a, n, t, max, from, takes), q[n] # <<>>
  PROVE  \E r, b : /\ Trace(r, b, n + 1, t, max, from, takes)
                   /\ Extends(r, b, q, a, n)
<1> DEFINE new == Pushes(q[n], t, max)
           e   == a[n] + takes[q[n][Len(q[n])]]
           r   == [i \in 0 .. n + 1 |-> IF i = n + 1 THEN new ELSE q[i]]
           b   == [i \in 0 .. n + 1 |-> IF i = n + 1 THEN e ELSE a[i]]
<1>1. n \in 0 .. n /\ q[n] \in StackOf(t) /\ a[n] \in Nat
  BY DEF Trace
<1>2. new \in StackOf(t)
  BY <1>1, PushesIs
<1>3. e \in Nat
  <2>1. q[n][Len(q[n])] \in Dirs(t) \X Nat
    BY <1>1 DEF StackOf
  <2>2. takes[q[n][Len(q[n])]] \in Nat
    BY <2>1
  <2> QED  BY <1>1, <2>2
<1>4. new = Pushes(q[n], t, max) /\ e = a[n] + takes[q[n][Len(q[n])]]
  OBVIOUS
<1> HIDE DEF new, e
<1>5. \A i \in 0 .. n : i \in 0 .. n + 1 /\ i # n + 1
  OBVIOUS
<1>6. \A i \in 0 .. n : r[i] = q[i] /\ b[i] = a[i]
  BY <1>5
<1>7. r[n + 1] = new /\ b[n + 1] = e
  OBVIOUS
<1>9. r \in [0 .. n + 1 -> StackOf(t)] /\ b \in [0 .. n + 1 -> Nat]
  <2>1. \A i \in 0 .. n + 1 : i = n + 1 \/ i \in 0 .. n
    OBVIOUS
  <2>2. \A i \in 0 .. n : q[i] \in StackOf(t) /\ a[i] \in Nat
    BY DEF Trace
  <2> QED  BY <1>2, <1>3, <2>1, <2>2
<1> HIDE DEF r, b
<1>8. \A i \in 1 .. n + 1 : /\ r[i - 1] # <<>>
                            /\ r[i] = Pushes(r[i - 1], t, max)
                            /\ b[i] = b[i - 1] + takes[r[i - 1][Len(r[i - 1])]]
  <2> TAKE i \in 1 .. n + 1
  <2>1. CASE i \in 1 .. n
    <3>1. i \in 0 .. n /\ i - 1 \in 0 .. n
      BY <2>1
    <3>2. /\ q[i - 1] # <<>>
          /\ q[i] = Pushes(q[i - 1], t, max)
          /\ a[i] = a[i - 1] + takes[q[i - 1][Len(q[i - 1])]]
      BY <2>1 DEF Trace
    <3> QED  BY <1>6, <3>1, <3>2
  <2>2. CASE i = n + 1
    <3>1. i - 1 = n /\ r[n] = q[n] /\ b[n] = a[n]
      BY <1>1, <1>6, <2>2
    <3> QED  BY <1>4, <1>7, <2>2, <3>1
  <2> QED  BY <2>1, <2>2
<1>10. r[0] = RootStack /\ b[0] = from
  <2>1. 0 \in 0 .. n
    OBVIOUS
  <2> QED  BY <1>6, <2>1 DEF Trace
<1>11. Trace(r, b, n + 1, t, max, from, takes)
  BY <1>8, <1>9, <1>10 DEF Trace
<1>12. Extends(r, b, q, a, n)
  BY <1>6 DEF Extends
<1> QED
  BY <1>11, <1>12

(* The directories taken off before round k.                               *)
Seen(q, k) == {TopIn(q[i]) : i \in 0 .. k - 1}

(* What is left is new, once there, and below what was taken off.          *)
FreshStack(s, seen, t) ==
  /\ \A x \in 1 .. Len(s) :
       s[x][1] \notin seen /\ (s[x][1] = Root \/ \E e \in seen : s[x][1] \in Range(t.kids[e]))
  /\ \A x, y \in 1 .. Len(s) : s[x][1] = s[y][1] => x = y
  /\ seen \subseteq Dirs(t)
  /\ \A m \in seen : m = Root \/ \E e \in seen : m \in Range(t.kids[e])

Fresh(q, k, t) == FreshStack(q[k], Seen(q, k), t)

(* That stays so.                                                          *)
LEMMA StackFresh ==
  ASSUME NEW t, IsTree(t), NEW max, NEW from, NEW takes,
         NEW n \in Nat, NEW q, NEW a, Trace(q, a, n, t, max, from, takes)
  PROVE  \A k \in 0 .. n : Fresh(q, k, t)
<1>1. \A d, e \in Dirs(t) : \A m \in Range(t.kids[d]) : m \in Range(t.kids[e]) => d = e
  <2> TAKE d, e \in Dirs(t)
  <2> TAKE m \in Range(t.kids[d])
  <2> HAVE m \in Range(t.kids[e])
  <2>1. PICK i \in DOMAIN t.kids[d] : m = t.kids[d][i]
    BY DEF Range
  <2>2. PICK j \in DOMAIN t.kids[e] : m = t.kids[e][j]
    BY DEF Range
  <2> QED  BY <2>1, <2>2 DEF IsTree
<1>2. \A d \in Dirs(t) : Root \notin Range(t.kids[d])
  BY KidsOf DEF Range
<1> DEFINE T == {k \in 0 .. n : Fresh(q, k, t)}
<1>3. 0 \in T
  <2>1. Seen(q, 0) = {}
    BY DEF Seen
  <2>2. q[0] = << <<Root, 2>> >>
    BY DEF Trace, RootStack
  <2>3. Len(q[0]) = 1 /\ q[0][1][1] = Root
    BY <2>2
  <2> DEFINE u == q[0]
  <2> HIDE DEF u
  <2>4. FreshStack(u, {}, t)
    <3>1. Len(u) = 1 /\ u[1][1] = Root
      BY <2>3 DEF u
    <3>2. \A x \in 1 .. Len(u) : x = 1
      BY <3>1
    <3> QED  BY <3>1, <3>2 DEF FreshStack
  <2> QED  BY <2>1, <2>4 DEF Fresh, u
<1>4. \A k \in 0 .. n - 1 : k \in T => k + 1 \in T
  <2> TAKE k \in 0 .. n - 1
  <2> HAVE k \in T
  <2> DEFINE s == q[k]
             d == TopIn(s)
             u == q[k + 1]
             l == Len(s) - 1
             old == Seen(q, k)
  <2>1. k + 1 \in 0 .. n /\ k \in 0 .. n /\ k + 1 \in 1 .. n /\ (k + 1) - 1 = k
    OBVIOUS
  <2>2. Fresh(q, k, t)
    OBVIOUS
  <2>3. s \in StackOf(t) /\ s # <<>> /\ u = Pushes(s, t, max)
    BY <2>1 DEF Trace
  <2>4. /\ u \in StackOf(t) /\ Len(u) \in Nat /\ l \in Nat /\ l <= Len(u)
        /\ d \in Dirs(t)
        /\ \A x \in 1 .. l : u[x] = s[x]
        /\ \A x \in l + 1 .. Len(u) : u[x][1] \in Range(t.kids[d]) \cap Dirs(t)
        /\ \A x, y \in l + 1 .. Len(u) : u[x][1] = u[y][1] => x = y
    <3> HIDE DEF s, u
    <3> QED  BY <2>3, PushesIs
  <2>5. Seen(q, k + 1) = Seen(q, k) \cup {d}
    <3>1. 0 .. (k + 1) - 1 = (0 .. k - 1) \cup {k}
      BY <2>1
    <3> HIDE DEF d
    <3>2. d = TopIn(q[k])
      BY DEF d
    <3> QED  BY <3>1, <3>2 DEF Seen
  <2>6. \A x \in 1 .. l : x \in 1 .. Len(s) /\ x # Len(s)
    BY <2>4
  <2>15. Len(s) \in 1 .. Len(s)
    BY <2>3 DEF StackOf
  <2>7. FreshStack(s, old, t)
    BY <2>2 DEF Fresh
  <2> HIDE DEF s, u, old
  <2>8. d \notin old /\ (d = Root \/ \E e \in old : d \in Range(t.kids[e]))
    BY <2>7, <2>15 DEF FreshStack, TopIn
  <2>16. /\ \A x \in 1 .. Len(s) :
              s[x][1] \notin old /\ (s[x][1] = Root \/ \E e \in old : s[x][1] \in Range(t.kids[e]))
         /\ \A x, y \in 1 .. Len(s) : s[x][1] = s[y][1] => x = y
         /\ old \subseteq Dirs(t) /\ \A m \in old : m = Root \/ \E e \in old : m \in Range(t.kids[e])
    BY <2>7 DEF FreshStack
  <2>17. d = s[Len(s)][1]
    BY DEF d, TopIn
  <2> HIDE DEF d, l
  <2>18. l = Len(s) - 1
    BY DEF l
  <2>9. \A m \in Range(t.kids[d]) : m \notin old /\ m # d /\ m # Root
    <3> TAKE m \in Range(t.kids[d])
    <3>1. m # Root
      BY <1>2, <2>4
    <3>2. ~ \E e \in old : m \in Range(t.kids[e])
      <4> SUFFICES ASSUME NEW e \in old, m \in Range(t.kids[e]) PROVE FALSE
        OBVIOUS
      <4>1. e = d
        BY <1>1, <2>4, <2>16
      <4> QED  BY <2>8, <4>1
    <3>3. m \notin old
      BY <2>16, <3>1, <3>2
    <3>4. m # d
      BY <2>8, <3>1, <3>2
    <3> QED  BY <3>1, <3>3, <3>4
  <2> DEFINE new == old \cup {d}
  <2>14. new = old \cup {d}
    OBVIOUS
  <2> HIDE DEF new
  <2>10. \A x \in 1 .. Len(u) :
           u[x][1] \notin new /\ (u[x][1] = Root \/ \E e \in new : u[x][1] \in Range(t.kids[e]))
    <3> TAKE x \in 1 .. Len(u)
    <3>1. CASE x \in 1 .. l
      <4>1. u[x] = s[x] /\ x \in 1 .. Len(s) /\ x # Len(s) /\ Len(s) \in 1 .. Len(s)
        BY <2>4, <2>6, <2>15, <3>1
      <4>2. s[x][1] # d
        BY <2>6, <2>15, <2>16, <2>17, <4>1
      <4> QED  BY <2>14, <2>16, <4>1, <4>2
    <3>2. CASE x \in l + 1 .. Len(u)
      <4>1. u[x][1] \in Range(t.kids[d])
        BY <2>4, <3>2
      <4> QED  BY <2>9, <2>14, <4>1
    <3>3. x \in 1 .. l \/ x \in l + 1 .. Len(u)
      BY <2>4
    <3> QED  BY <3>1, <3>2, <3>3
  <2>11. \A x, y \in 1 .. Len(u) : u[x][1] = u[y][1] => x = y
    <3>1. \A x \in 1 .. l, y \in l + 1 .. Len(u) : u[x][1] # u[y][1]
      <4> TAKE x \in 1 .. l, y \in l + 1 .. Len(u)
      <4>1. u[x] = s[x] /\ x \in 1 .. Len(s) /\ u[y][1] \in Range(t.kids[d])
        BY <2>4, <2>6
      <4>2. u[y][1] # Root /\ ~ \E e \in old : u[y][1] \in Range(t.kids[e])
        <5>1. u[y][1] # Root
          BY <2>9, <4>1
        <5>2. ASSUME NEW e \in old, u[y][1] \in Range(t.kids[e]) PROVE FALSE
          <6>1. e = d
            BY <1>1, <2>4, <2>16, <4>1, <5>2
          <6> QED  BY <2>8, <6>1
        <5> QED  BY <5>1, <5>2
      <4>3. s[x][1] = Root \/ \E e \in old : s[x][1] \in Range(t.kids[e])
        BY <2>16, <4>1
      <4> QED  BY <4>1, <4>2, <4>3
    <3>2. \A x, y \in 1 .. l : u[x][1] = u[y][1] => x = y
      BY <2>4, <2>6, <2>16
    <3>3. \A x \in 1 .. Len(u) : x \in 1 .. l \/ x \in l + 1 .. Len(u)
      BY <2>4
    <3>4. \A x, y \in l + 1 .. Len(u) : u[x][1] = u[y][1] => x = y
      BY <2>4
    <3> TAKE x, y \in 1 .. Len(u)
    <3> HAVE u[x][1] = u[y][1]
    <3> QED  BY <3>1, <3>2, <3>3, <3>4
  <2>12. new \subseteq Dirs(t) /\ \A m \in new : m = Root \/ \E e \in new : m \in Range(t.kids[e])
    BY <2>4, <2>8, <2>14, <2>16
  <2>13. Fresh(q, k + 1, t)
    <3>1. Seen(q, k + 1) = new
      BY <2>5, <2>14 DEF old, d
    <3>2. u = q[k + 1]
      BY DEF u
    <3>3. FreshStack(u, new, t)
      BY <2>10, <2>11, <2>12 DEF FreshStack
    <3> QED  BY <3>1, <3>2, <3>3 DEF Fresh
  <2> QED  BY <2>1, <2>13 DEF T
<1>5. 0 .. n \subseteq T
  <2> HIDE DEF T
  <2> QED  BY <1>3, <1>4, UpTo
<1> QED
  BY <1>5

(* No directory is taken off twice.                                        *)
TopsApart(q, n) ==
  \A i, j \in 0 .. n : i # j /\ q[i] # <<>> /\ q[j] # <<>> => TopIn(q[i]) # TopIn(q[j])

(* No directory is on top of the stack twice.                              *)
LEMMA TopsDiffer ==
  ASSUME NEW t, IsTree(t), NEW max, NEW from, NEW takes,
         NEW n \in Nat, NEW q, NEW a, Trace(q, a, n, t, max, from, takes)
  PROVE  TopsApart(q, n)
<1>1. \A i, j \in 0 .. n : i < j /\ q[j] # <<>> => TopIn(q[i]) # TopIn(q[j])
  <2> TAKE i, j \in 0 .. n
  <2> HAVE i < j /\ q[j] # <<>>
  <2>1. Fresh(q, j, t)
    BY StackFresh
  <2>2. q[j] \in StackOf(t)
    BY DEF Trace
  <2>3. Len(q[j]) \in 1 .. Len(q[j])
    BY <2>2 DEF StackOf
  <2>4. TopIn(q[j]) \notin Seen(q, j)
    BY <2>1, <2>3 DEF Fresh, FreshStack, TopIn
  <2>5. TopIn(q[i]) \in Seen(q, j)
    <3>1. i \in 0 .. j - 1
      OBVIOUS
    <3> QED  BY <3>1 DEF Seen
  <2> QED  BY <2>4, <2>5
<1>2. \A i, j \in 0 .. n : i # j => i < j \/ j < i
  OBVIOUS
<1> QED
  BY <1>1, <1>2 DEF TopsApart

(* So there are no more rounds than directories.                           *)
LEMMA TraceShort ==
  ASSUME NEW t, IsTree(t), IsFiniteSet(Dirs(t)), NEW max, NEW from, NEW takes,
         NEW n \in Nat, NEW q, NEW a, Trace(q, a, n, t, max, from, takes)
  PROVE  Cardinality(Dirs(t)) \in Nat /\ n <= Cardinality(Dirs(t))
<1> DEFINE f == [i \in 1 .. n |-> TopIn(q[i - 1])]
<1>1. \A i \in 1 .. n : i - 1 \in 0 .. n /\ q[i - 1] # <<>> /\ q[i - 1] \in StackOf(t)
  <2>1. \A i \in 1 .. n : i - 1 \in 0 .. n
    OBVIOUS
  <2> QED  BY <2>1 DEF Trace
<1>2. \A i \in 1 .. n : TopIn(q[i - 1]) \in Dirs(t)
  <2> TAKE i \in 1 .. n
  <2> DEFINE s == q[i - 1]
  <2>1. s \in Seq(Dirs(t) \X Nat) /\ s # <<>>
    BY <1>1 DEF StackOf
  <2> HIDE DEF s
  <2>2. s[Len(s)] \in Dirs(t) \X Nat
    BY <2>1
  <2>3. s[Len(s)][1] \in Dirs(t)
    BY <2>2
  <2> QED  BY <2>3 DEF TopIn, s
<1>3. \A i, j \in 1 .. n : f[i] = f[j] => i = j
  <2> TAKE i, j \in 1 .. n
  <2> HAVE f[i] = f[j]
  <2>1. TopIn(q[i - 1]) = TopIn(q[j - 1])
    OBVIOUS
  <2>2. i - 1 = j - 1
    BY <1>1, <2>1, TopsDiffer DEF TopsApart
  <2> QED  BY <2>2
<1>4. f \in Injection(1 .. n, Dirs(t))
  BY <1>2, <1>3 DEF Injection, IsInjective
<1> HIDE DEF f
<1>5. Cardinality(1 .. n) <= Cardinality(Dirs(t))
  BY <1>4, FS_Injection
<1>6. Cardinality(1 .. n) = n
  BY FS_Interval
<1> QED
  BY <1>5, <1>6, FS_CardinalityType

(* What a pass counts is bounded.                                          *)
LEMMA TraceBound ==
  ASSUME NEW t, IsTree(t), IsFiniteSet(Dirs(t)), NEW max, NEW from \in Nat,
         NEW takes \in [Dirs(t) \X Nat -> Nat], NEW most \in Nat,
         \A x \in Dirs(t) \X Nat : takes[x] <= most,
         NEW n \in Nat, NEW q, NEW a, Trace(q, a, n, t, max, from, takes)
  PROVE  /\ a[n] <= from + most * Cardinality(Dirs(t))
         /\ \A i \in 0 .. n : a[i] \in Nat /\ a[i] >= from
<1> DEFINE T == {i \in 0 .. n : a[i] \in Nat /\ a[i] >= from /\ a[i] <= from + most * i}
<1>1. \A x, y \in Nat : x * y \in Nat
  OBVIOUS
<1>2. 0 \in T
  <2>1. most * 0 = 0
    OBVIOUS
  <2> QED  BY <2>1 DEF Trace
<1>3. \A i \in 0 .. n - 1 : i \in T => i + 1 \in T
  <2> TAKE i \in 0 .. n - 1
  <2>1. i + 1 \in 1 .. n /\ (i + 1) - 1 = i /\ i \in 0 .. n /\ i + 1 \in 0 .. n /\ i \in Nat
    OBVIOUS
  <2> HAVE i \in T
  <2> DEFINE x == q[i][Len(q[i])]
             y == most * i
             z == most * (i + 1)
  <2>2. a[i + 1] = a[i] + takes[x] /\ q[i] # <<>> /\ q[i] \in StackOf(t)
    BY <2>1 DEF Trace
  <2>3. x \in Dirs(t) \X Nat
    BY <2>2 DEF StackOf
  <2>4. takes[x] \in Nat /\ takes[x] <= most
    BY <2>3
  <2>5. z = y + most /\ y \in Nat
    BY <1>1, <2>1
  <2>6. a[i] \in Nat /\ a[i] >= from /\ a[i] <= from + y
    OBVIOUS
  <2> HIDE DEF x, y, z
  <2>7. a[i + 1] \in Nat /\ a[i + 1] >= from /\ a[i + 1] <= from + z
    BY <2>2, <2>4, <2>5, <2>6
  <2> QED  BY <2>1, <2>7 DEF z
<1>4. 0 .. n \subseteq T
  <2> HIDE DEF T
  <2> QED  BY <1>2, <1>3, UpTo
<1>5. \A i \in 0 .. n : a[i] \in Nat /\ a[i] >= from /\ a[i] <= from + most * i
  BY <1>4
<1>6. n \in 0 .. n
  OBVIOUS
<1> DEFINE c == Cardinality(Dirs(t))
<1>7. c \in Nat /\ n <= c
  BY TraceShort
<1> HIDE DEF c
<1>8. most * n <= most * c
  <2>1. c - n \in Nat
    BY <1>7
  <2>2. most * c = most * n + most * (c - n)
    BY <1>7, <2>1
  <2>3. most * n \in Nat /\ most * (c - n) \in Nat
    BY <1>1, <2>1
  <2> QED  BY <2>2, <2>3
<1>9. a[n] <= from + most * c
  <2>1. most * n \in Nat /\ most * c \in Nat
    BY <1>1, <1>7
  <2> QED  BY <1>5, <1>6, <1>8, <2>1
<1> QED
  BY <1>5, <1>9 DEF c

(* One file more.                                                          *)
PlaceOne(t, run, f) ==
  [sec   |-> run.sec + TakenBy(t, f),
   place |-> [run.place EXCEPT ![f] = [normal |-> run.sec, joliet |-> run.sec,
                                       sizeN |-> t.size[f], sizeJ |-> t.size[f]]]]

(* The last file is given its place after the others.                      *)
LEMMA PlaceAllAppend ==
  ASSUME NEW t, NamedTree(t), NEW start \in RunOf(t), NEW files \in Seq(Files(t)), NEW x \in Files(t)
  PROVE  PlaceAll(t, start, Append(files, x)) = PlaceOne(t, PlaceAll(t, start, files), x)
<1> DEFINE u == Append(files, x)
           n == Len(files)
<1>1. n \in Nat /\ u \in Seq(Files(t)) /\ Len(u) = n + 1 /\ u[n + 1] = x /\ \A i \in 1 .. n : u[i] = files[i]
  OBVIOUS
<1>2. PICK p \in [0 .. Len(files) -> RunOf(t)] :
        PlaceSteps(p, t, start, files) /\ Ends(p, Len(files), PlaceAll(t, start, files))
  BY PlaceAllSteps
<1> HIDE DEF u
<1>3. PICK r \in [0 .. Len(u) -> RunOf(t)] :
        PlaceSteps(r, t, start, u) /\ Ends(r, Len(u), PlaceAll(t, start, u))
  BY <1>1, PlaceAllSteps
<1>4. p[0] = start /\ \A k \in 1 .. n : p[k] = PlaceOne(t, p[k - 1], files[k])
  BY <1>2 DEF PlaceSteps, PlaceOne
<1>5. r[0] = start /\ \A k \in 1 .. n + 1 : r[k] = PlaceOne(t, r[k - 1], u[k])
  BY <1>1, <1>3 DEF PlaceSteps, PlaceOne
<1> DEFINE T == {k \in 0 .. n : r[k] = p[k]}
<1> HIDE DEF n
<1>6. 0 \in T
  BY <1>1, <1>4, <1>5
<1>7. \A k \in 0 .. n - 1 : k \in T => k + 1 \in T
  <2> TAKE k \in 0 .. n - 1
  <2> HAVE k \in T
  <2>1. k + 1 \in 1 .. n /\ k + 1 \in 1 .. n + 1 /\ (k + 1) - 1 = k /\ k + 1 \in 0 .. n
    BY <1>1
  <2>2. p[k + 1] = PlaceOne(t, p[k], files[k + 1])
    BY <1>4, <2>1
  <2>3. r[k + 1] = PlaceOne(t, r[k], files[k + 1])
    BY <1>1, <1>5, <2>1
  <2> QED  BY <2>1, <2>2, <2>3
<1>8. r[n] = p[n]
  <2>1. 0 .. n \subseteq T
    <3> HIDE DEF T
    <3> QED  BY <1>1, <1>6, <1>7, UpTo
  <2>2. n \in 0 .. n
    BY <1>1
  <2> QED  BY <2>1, <2>2
<1>9. r[n + 1] = PlaceOne(t, p[n], x)
  <2>1. n + 1 \in 1 .. n + 1 /\ (n + 1) - 1 = n
    BY <1>1
  <2> QED  BY <1>1, <1>5, <1>8, <2>1
<1>10. p[n] = PlaceAll(t, start, files)
  BY <1>2 DEF Ends, n
<1>11. r[n + 1] = PlaceAll(t, start, u)
  BY <1>1, <1>3 DEF Ends
<1> QED
  BY <1>9, <1>10, <1>11 DEF u

(* What the entries of a directory take: nothing but the files chosen.     *)
Weights(t, S) == [n \in Nodes(t) |-> IF n \in S THEN TakenBy(t, n) ELSE 0]

Ahead(t, S, d, k) == SumOver(Weights(t, S), SubSeq(t.kids[d], 1, k))

(* What a node weighs.                                                     *)
LEMMA WeightsNat ==
  ASSUME NEW t, NamedTree(t), NEW S \in SUBSET Files(t), NEW n \in Nodes(t)
  PROVE  /\ Weights(t, S)[n] \in Nat
         /\ n \in S => Weights(t, S)[n] = TakenBy(t, n)
         /\ n \notin S => Weights(t, S)[n] = 0
<1>1. ASSUME n \in S PROVE TakenBy(t, n) \in Nat
  <2>1. n \in Files(t)
    BY <1>1
  <2>2. t.size[n] \in Nat /\ t.pad[n] \in Nat
    BY <2>1 DEF NamedTree, AreSizes
  <2>3. BytesToSec(t.size[n]) \in Nat
    BY <2>2, SectorsNat
  <2> QED  BY <2>2, <2>3 DEF TakenBy
<1> QED
  BY <1>1 DEF Weights

(* Along the entries of a directory.                                       *)
LEMMA AheadSteps ==
  ASSUME NEW t, NamedTree(t), NEW S \in SUBSET Files(t), NEW d \in Dirs(t)
  PROVE  /\ Ahead(t, S, d, 0) = 0
         /\ \A k \in 0 .. Len(t.kids[d]) : Ahead(t, S, d, k) \in Nat
         /\ \A k \in 1 .. Len(t.kids[d]) :
              Ahead(t, S, d, k) = Ahead(t, S, d, k - 1) + Weights(t, S)[t.kids[d][k]]
<1> DEFINE kids == t.kids[d]
           w    == Weights(t, S)
<1>1. kids \in Seq(Nodes(t)) /\ Len(kids) \in Nat /\ \A i \in 1 .. Len(kids) : kids[i] \in Nodes(t)
  BY KidsOf DEF NamedTree
<1>2. \A i \in 1 .. Len(kids) : w[kids[i]] \in Nat
  BY <1>1, WeightsNat
<1>3. \A k : Ahead(t, S, d, k) = SumOver(w, SubSeq(kids, 1, k))
  BY DEF Ahead
<1> HIDE DEF kids, w
<1>4. \A i \in 1 .. Len(kids) : w[kids[i]] \in Int
  BY <1>2
<1>5. /\ SumOver(w, SubSeq(kids, 1, 0)) = 0
      /\ \A k \in 1 .. Len(kids) :
           SumOver(w, SubSeq(kids, 1, k)) = SumOver(w, SubSeq(kids, 1, k - 1)) + w[kids[k]]
  BY <1>1, <1>4, SumOverPrefixes
<1>6. \A k \in 0 .. Len(kids) : SumOver(w, SubSeq(kids, 1, k)) \in Nat
  BY <1>1, <1>2, PrefixLess
<1> QED
  BY <1>3, <1>5, <1>6 DEF kids, w

(* The first k entries of a directory have their places.                   *)
PlacedUpTo(run, start, t, S, d, k) ==
  /\ run \in RunOf(t)
  /\ run.sec = start.sec + Ahead(t, S, d, k)
  /\ \A j \in 1 .. k : t.kids[d][j] \in S =>
       run.place[t.kids[d][j]].normal = start.sec + Ahead(t, S, d, j - 1)
  /\ \A n \in Nodes(t) : n \notin S \/ n \notin Range(t.kids[d]) => run.place[n] = start.place[n]

(* calc_local_filesys_data in one directory.                               *)
LEMMA DirPlaced ==
  ASSUME NEW t, NamedTree(t), NEW S \in SUBSET Files(t), NEW d \in Dirs(t), NEW start \in RunOf(t)
  PROVE  PlacedUpTo(PlaceAll(t, start, Among(t.kids[d], S)), start, t, S, d, Len(t.kids[d]))
<1> DEFINE kids == t.kids[d]
           n    == Len(kids)
           P(k) == SubSeq(kids, 1, k)
           A(k) == Among(P(k), S)
           run(k) == PlaceAll(t, start, A(k))
           T == {k \in 0 .. n : A(k) \in Seq(Files(t)) /\ PlacedUpTo(run(k), start, t, S, d, k)}
<1>1. /\ kids \in Seq(Nodes(t)) /\ n \in Nat
      /\ \A i \in 1 .. n : kids[i] \in Nodes(t) /\ kids[i] \in Range(kids)
      /\ \A i, j \in 1 .. n : kids[i] = kids[j] => i = j
  <2>1. IsTree(t) /\ DOMAIN kids = 1 .. n
    BY KidsOf DEF NamedTree
  <2> QED  BY <2>1, KidsOf, KidsDiffer
<1>2. /\ P(0) = <<>> /\ P(n) = kids
      /\ \A k \in 0 .. n : P(k) \in Seq(Nodes(t))
      /\ \A k \in 1 .. n : kids[k] \in Nodes(t) /\ P(k) = Append(P(k - 1), kids[k])
  <2> HIDE DEF kids
  <2> QED  BY <1>1, PrefixIs
<1>3. \A k \in 1 .. n : A(k) = IF kids[k] \in S THEN Append(A(k - 1), kids[k]) ELSE A(k - 1)
  <2> TAKE k \in 1 .. n
  <2>1. k - 1 \in 0 .. n
    BY <1>1
  <2> DEFINE u == P(k - 1)
  <2>2. u \in Seq(Nodes(t)) /\ kids[k] \in Nodes(t) /\ P(k) = Append(u, kids[k])
    BY <1>2, <2>1
  <2>3. A(k - 1) = Among(u, S) /\ A(k) = Among(P(k), S)
    OBVIOUS
  <2> DEFINE x == kids[k]
  <2>4. x = kids[k]
    OBVIOUS
  <2> HIDE DEF u, x
  <2>5. Among(Append(u, x), S) = IF x \in S THEN Append(Among(u, S), x) ELSE Among(u, S)
    <3> DEFINE E == Nodes(t)
    <3>1. u \in Seq(E) /\ x \in E
      BY <2>2, <2>4
    <3> HIDE DEF E
    <3> QED  BY <3>1, AmongAppend
  <2> HIDE DEF P, A, kids
  <2> QED  BY <2>2, <2>3, <2>4, <2>5
<1>4. A(0) = <<>>
  <2>1. A(0) = Among(P(0), S)
    OBVIOUS
  <2> HIDE DEF P, A
  <2> QED  BY <1>2, <2>1, AmongNone
<1> HIDE DEF A
<1>5. /\ Ahead(t, S, d, 0) = 0
      /\ \A k \in 0 .. n : Ahead(t, S, d, k) \in Nat
      /\ \A k \in 1 .. n : Ahead(t, S, d, k) = Ahead(t, S, d, k - 1) + Weights(t, S)[kids[k]]
  BY AheadSteps
<1>6. start.sec \in Nat /\ start.place \in [Nodes(t) -> PlaceType]
  BY DEF RunOf
<1>7. 0 \in T
  <2>1. A(0) \in Seq(Files(t))
    <3>1. <<>> \in Seq(Files(t))
      OBVIOUS
    <3> QED  BY <1>4, <3>1
  <2>2. PICK p \in [0 .. Len(A(0)) -> RunOf(t)] :
          PlaceSteps(p, t, start, A(0)) /\ Ends(p, Len(A(0)), PlaceAll(t, start, A(0)))
    BY <2>1, PlaceAllSteps
  <2>3. Len(A(0)) = 0
    BY <1>4
  <2>4. run(0) = start
    BY <2>2, <2>3 DEF Ends, PlaceSteps
  <2> HIDE DEF run
  <2>5. PlacedUpTo(run(0), start, t, S, d, 0)
    BY <1>5, <1>6, <2>4 DEF PlacedUpTo
  <2> QED  BY <1>1, <2>1, <2>5
<1>8. \A k \in 0 .. n - 1 : k \in T => k + 1 \in T
  <2> TAKE k \in 0 .. n - 1
  <2> HAVE k \in T
  <2>1. k + 1 \in 1 .. n /\ (k + 1) - 1 = k /\ k \in 0 .. n /\ k + 1 \in 0 .. n
    BY <1>1
  <2> DEFINE x == kids[k + 1]
             a == A(k)
             old == run(k)
             new == run(k + 1)
             b == Ahead(t, S, d, k)
  <2>2. a \in Seq(Files(t)) /\ PlacedUpTo(old, start, t, S, d, k)
    OBVIOUS
  <2>3. x \in Nodes(t) /\ x \in Range(kids)
    BY <1>1, <2>1
  <2>4. A(k + 1) = IF x \in S THEN Append(a, x) ELSE a
    BY <1>3, <2>1
  <2>5. b \in Nat /\ Ahead(t, S, d, k + 1) = b + Weights(t, S)[x]
    BY <1>5, <2>1
  <2>6. /\ Weights(t, S)[x] \in Nat
        /\ x \in S => Weights(t, S)[x] = TakenBy(t, x)
        /\ x \notin S => Weights(t, S)[x] = 0
    BY <2>3, WeightsNat
  <2>7. old = PlaceAll(t, start, a) /\ new = PlaceAll(t, start, A(k + 1))
    OBVIOUS
  <2>8. \A j \in 1 .. k + 1 : j \in 1 .. k \/ j = k + 1
    BY <2>1
  <2>9. \A j \in 1 .. k : j \in 1 .. n /\ kids[j] # x /\ kids[j] \in Nodes(t)
    <3> TAKE j \in 1 .. k
    <3>1. j \in 1 .. n /\ j # k + 1
      BY <2>1
    <3> QED  BY <1>1, <2>1, <3>1
  <2> HIDE DEF x, a, old, new, b, n
  <2>10. /\ old \in RunOf(t) /\ old.sec = start.sec + b
         /\ \A j \in 1 .. k : kids[j] \in S =>
              old.place[kids[j]].normal = start.sec + Ahead(t, S, d, j - 1)
         /\ \A m \in Nodes(t) : m \notin S \/ m \notin Range(kids) => old.place[m] = start.place[m]
    BY <2>2 DEF PlacedUpTo, b
  <2>11. CASE x \in S
    <3>1. x \in Files(t) /\ A(k + 1) = Append(a, x) /\ A(k + 1) \in Seq(Files(t))
      <4>1. x \in Files(t)
        BY <2>11
      <4>2. Append(a, x) \in Seq(Files(t))
        BY <2>2, <4>1
      <4> QED  BY <2>4, <2>11, <4>1, <4>2
    <3>2. new = PlaceOne(t, old, x)
      BY <2>2, <2>7, <3>1, PlaceAllAppend
    <3>3. new \in RunOf(t)
      BY <2>7, <3>1, PlaceAllTyped
    <3> DEFINE e == [normal |-> old.sec, joliet |-> old.sec, sizeN |-> t.size[x], sizeJ |-> t.size[x]]
    <3>4. e.normal = old.sec
      OBVIOUS
    <3>5. new = [sec |-> old.sec + TakenBy(t, x), place |-> [old.place EXCEPT ![x] = e]]
      BY <3>2 DEF PlaceOne
    <3>6. old.place \in [Nodes(t) -> PlaceType] /\ old.sec \in Nat
      BY <2>10 DEF RunOf
    <3> HIDE DEF e
    <3>7. /\ new.sec = old.sec + TakenBy(t, x)
          /\ new.place[x] = e
          /\ \A m \in Nodes(t) : m # x => new.place[m] = old.place[m]
      BY <2>3, <3>5, <3>6
    <3>8. new.sec = start.sec + Ahead(t, S, d, k + 1)
      BY <1>6, <2>5, <2>6, <2>10, <2>11, <3>7
    <3>9. \A j \in 1 .. k + 1 : kids[j] \in S =>
            new.place[kids[j]].normal = start.sec + Ahead(t, S, d, j - 1)
      <4> TAKE j \in 1 .. k + 1
      <4> HAVE kids[j] \in S
      <4>1. CASE j \in 1 .. k
        BY <2>9, <2>10, <3>7, <4>1
      <4>2. CASE j = k + 1
        BY <2>1, <2>10, <3>4, <3>7, <4>2 DEF x, b
      <4> QED  BY <2>8, <4>1, <4>2
    <3>10. \A m \in Nodes(t) : m \notin S \/ m \notin Range(kids) => new.place[m] = start.place[m]
      BY <2>3, <2>10, <2>11, <3>7
    <3>11. PlacedUpTo(new, start, t, S, d, k + 1)
      BY <3>3, <3>8, <3>9, <3>10 DEF PlacedUpTo
    <3> QED  BY <2>1, <3>1, <3>11 DEF new
  <2>12. CASE x \notin S
    <3>1. A(k + 1) = a /\ new = old
      BY <2>4, <2>7, <2>12
    <3>2. new.sec = start.sec + Ahead(t, S, d, k + 1)
      BY <1>6, <2>5, <2>6, <2>10, <2>12, <3>1
    <3>3. \A j \in 1 .. k + 1 : kids[j] \in S =>
            new.place[kids[j]].normal = start.sec + Ahead(t, S, d, j - 1)
      BY <2>8, <2>10, <2>12, <3>1 DEF x
    <3>4. PlacedUpTo(new, start, t, S, d, k + 1)
      BY <2>10, <3>1, <3>2, <3>3 DEF PlacedUpTo
    <3> QED  BY <2>1, <2>2, <3>1, <3>4 DEF new
  <2> QED  BY <2>11, <2>12
<1>9. n \in T
  <2>1. 0 .. n \subseteq T
    <3> HIDE DEF T, n
    <3> QED  BY <1>1, <1>7, <1>8, UpTo
  <2>2. n \in 0 .. n
    BY <1>1
  <2> HIDE DEF T
  <2> QED  BY <2>1, <2>2
<1>10. run(n) = PlaceAll(t, start, Among(kids, S))
  BY <1>2 DEF A
<1> QED
  BY <1>9, <1>10

(* Sums compare as what is summed does.                                    *)
LEMMA SumOverLess ==
  ASSUME NEW E, NEW s \in Seq(E), NEW v, NEW w,
         \A i \in 1 .. Len(s) : v[s[i]] \in Nat /\ w[s[i]] \in Nat /\ v[s[i]] <= w[s[i]]
  PROVE  SumOver(v, s) <= SumOver(w, s)
<1> DEFINE n == Len(s)
           V(k) == SumOver(v, SubSeq(s, 1, k))
           W(k) == SumOver(w, SubSeq(s, 1, k))
           T == {k \in 0 .. n : V(k) <= W(k)}
<1>1. n \in Nat /\ \A i \in 1 .. Len(s) : v[s[i]] \in Int /\ w[s[i]] \in Int
  OBVIOUS
<1>2. /\ V(0) = 0 /\ V(n) = SumOver(v, s) /\ \A k \in 0 .. n : V(k) \in Int
      /\ \A k \in 1 .. n : V(k) = V(k - 1) + v[s[k]]
  BY <1>1, SumOverPrefixes
<1>3. /\ W(0) = 0 /\ W(n) = SumOver(w, s) /\ \A k \in 0 .. n : W(k) \in Int
      /\ \A k \in 1 .. n : W(k) = W(k - 1) + w[s[k]]
  BY <1>1, SumOverPrefixes
<1>6. \A i \in 1 .. n : v[s[i]] \in Nat /\ w[s[i]] \in Nat /\ v[s[i]] <= w[s[i]]
  OBVIOUS
<1> HIDE DEF V, W, n
<1>4. 0 \in T
  BY <1>1, <1>2, <1>3 DEF n
<1>5. \A k \in 0 .. n - 1 : k \in T => k + 1 \in T
  <2> TAKE k \in 0 .. n - 1
  <2>1. k + 1 \in 1 .. n /\ (k + 1) - 1 = k /\ k \in 0 .. n /\ k + 1 \in 0 .. n
    BY <1>1 DEF n
  <2> HAVE k \in T
  <2>2. V(k + 1) = V(k) + v[s[k + 1]] /\ W(k + 1) = W(k) + w[s[k + 1]] /\ V(k) <= W(k)
    BY <1>2, <1>3, <2>1
  <2>3. V(k) \in Int /\ W(k) \in Int
    BY <1>2, <1>3, <2>1
  <2>4. V(k + 1) <= W(k + 1)
    BY <1>6, <2>1, <2>2, <2>3
  <2> QED  BY <2>1, <2>4
<1>7. n \in T
  <2>1. 0 .. n \subseteq T
    <3> HIDE DEF T
    <3> QED  BY <1>1, <1>4, <1>5, UpTo DEF n
  <2>2. n \in 0 .. n
    BY <1>1 DEF n
  <2> QED  BY <2>1, <2>2
<1> QED
  BY <1>2, <1>3, <1>7

(* What the passes add for a directory at a level.                         *)
DirTakes(f, t) ==
  [x \in Dirs(t) \X Nat |->
     CalcDirSectors(f, t, x[1], x[2], FALSE)
     + (IF IsJoliet(f) THEN CalcDirSectors(f, t, x[1], x[2], TRUE) ELSE 0)]

FileTakes(t, S) == [x \in Dirs(t) \X Nat |-> Ahead(t, S, x[1], Len(t.kids[x[1]]))]

(* Regular, of one directory.                                              *)
LEMMA SomeRegular ==
  ASSUME NEW f, NEW t, Regular(f, t), IsIso(f), NEW d \in Dirs(t), NEW joliet \in {FALSE, IsJoliet(f)}
  PROVE  DirRegular(f, t, d, joliet)
<1>1. \/ \A n \in Range(t.kids[d]) : ExtentCount(SizeOf(t, n)) = 1
      \/ OneSector(f, t, d)
  BY DEF Regular
<1>2. CASE OneSector(f, t, d)
  <2> DEFINE v == [n \in Range(t.kids[d]) |-> RecordSize(f, t, n, joliet) * ExtentCount(SizeOf(t, n))]
             w == [n \in Range(t.kids[d]) |-> NodeBytes(f, t, n, joliet)]
  <2>1. 2 * DirRecord + SumOver(v, t.kids[d]) <= SectorSize
    BY <1>2 DEF OneSector
  <2>2. v = w
    BY DEF NodeBytes
  <2>3. 2 * DirRecord = 68
    BY DEF DirRecord
  <2> HIDE DEF v, w
  <2>4. 68 + SumOver(w, t.kids[d]) <= SectorSize
    BY <2>1, <2>2, <2>3
  <2> QED  BY <2>4 DEF DirRegular, w
<1> QED
  BY <1>1, <1>2 DEF DirRegular

(* No directory takes more than it needs.                                  *)
LEMMA FilesBounded ==
  ASSUME NEW t, NamedTree(t), NEW S \in SUBSET Files(t), NEW d \in Dirs(t)
  PROVE  /\ DirNeeds(t, d) \in Nat
         /\ 2 * (1 + Len(t.kids[d])) <= DirNeeds(t, d)
         /\ Ahead(t, S, d, Len(t.kids[d])) \in Nat
         /\ Ahead(t, S, d, Len(t.kids[d])) <= DirNeeds(t, d)
<1> DEFINE kids == t.kids[d]
           v == Weights(t, S)
           w == [n \in Range(kids) |-> IF n \in Files(t) THEN BytesToSec(t.size[n]) + t.pad[n] ELSE 0]
<1>1. kids \in Seq(Nodes(t)) /\ Len(kids) \in Nat
      /\ \A i \in 1 .. Len(kids) : kids[i] \in Nodes(t) /\ kids[i] \in Range(kids)
  BY KidsOf DEF NamedTree
<1>2. \A i \in 1 .. Len(kids) : v[kids[i]] \in Nat /\ w[kids[i]] \in Nat /\ v[kids[i]] <= w[kids[i]]
  <2> TAKE i \in 1 .. Len(kids)
  <2> DEFINE n == kids[i]
  <2>1. n \in Nodes(t) /\ n \in Range(kids)
    BY <1>1
  <2>2. w[n] = IF n \in Files(t) THEN BytesToSec(t.size[n]) + t.pad[n] ELSE 0
    BY <2>1
  <2> HIDE DEF n, w, kids
  <2>3. /\ v[n] \in Nat
        /\ n \in S => v[n] = TakenBy(t, n)
        /\ n \notin S => v[n] = 0
    BY <2>1, WeightsNat
  <2>4. CASE n \in Files(t)
    <3>1. t.size[n] \in Nat /\ t.pad[n] \in Nat
      BY <2>4 DEF NamedTree, AreSizes
    <3>2. BytesToSec(t.size[n]) \in Nat
      BY <3>1, SectorsNat
    <3>3. w[n] \in Nat /\ TakenBy(t, n) = w[n]
      BY <2>2, <2>4, <3>1, <3>2 DEF TakenBy
    <3> QED  BY <2>3, <3>3 DEF n
  <2>5. CASE n \notin Files(t)
    <3>1. n \notin S
      BY <2>5
    <3> QED  BY <2>2, <2>3, <2>5, <3>1 DEF n
  <2> QED  BY <2>4, <2>5
<1>3. DirNeeds(t, d) = 2 * (1 + Len(kids)) + SumOver(w, kids)
  BY DEF DirNeeds
<1>4. Ahead(t, S, d, Len(kids)) = SumOver(v, SubSeq(kids, 1, Len(kids)))
  BY DEF Ahead
<1> HIDE DEF kids, v, w
<1>5. SubSeq(kids, 1, Len(kids)) = kids
  BY <1>1, PrefixIs
<1>6. SumOver(v, kids) <= SumOver(w, kids)
  BY <1>1, <1>2, SumOverLess
<1>7. SumOver(v, kids) \in Nat /\ SumOver(w, kids) \in Nat
  BY <1>1, <1>2, SumOverNat
<1> DEFINE sv == SumOver(v, kids)
           sw == SumOver(w, kids)
           l  == Len(kids)
<1>8. DirNeeds(t, d) = 2 * (1 + l) + sw /\ Ahead(t, S, d, l) = sv
  BY <1>3, <1>4, <1>5
<1>9. sv \in Nat /\ sw \in Nat /\ sv <= sw /\ l \in Nat
  BY <1>1, <1>6, <1>7
<1>10. l = Len(t.kids[d])
  BY DEF kids
<1> HIDE DEF sv, sw, l
<1>11. DirNeeds(t, d) \in Nat /\ 2 * (1 + l) <= DirNeeds(t, d) /\ sv <= DirNeeds(t, d)
  BY <1>8, <1>9
<1> QED
  BY <1>8, <1>9, <1>10, <1>11

(* No directory takes more than DirNeeds allows, in either pass.           *)
LEMMA TakesBounded ==
  ASSUME NEW f, NEW t, NamedTree(t), Regular(f, t), NEW S \in SUBSET Files(t),
         NEW most \in Nat, \A d \in Dirs(t) : DirNeeds(t, d) <= most
  PROVE  /\ FileTakes(t, S) \in [Dirs(t) \X Nat -> Nat]
         /\ \A x \in Dirs(t) \X Nat : FileTakes(t, S)[x] <= most
         /\ IsIso(f) => /\ DirTakes(f, t) \in [Dirs(t) \X Nat -> Nat]
                        /\ \A x \in Dirs(t) \X Nat : DirTakes(f, t)[x] <= most
<1>1. \A x \in Dirs(t) \X Nat : FileTakes(t, S)[x] \in Nat /\ FileTakes(t, S)[x] <= most
  <2> TAKE x \in Dirs(t) \X Nat
  <2>1. x[1] \in Dirs(t) /\ FileTakes(t, S)[x] = Ahead(t, S, x[1], Len(t.kids[x[1]]))
    BY DEF FileTakes
  <2> DEFINE d == x[1]
             a == Ahead(t, S, d, Len(t.kids[d]))
  <2>2. d \in Dirs(t) /\ FileTakes(t, S)[x] = a
    BY <2>1
  <2>3. DirNeeds(t, d) \in Nat /\ a \in Nat /\ a <= DirNeeds(t, d)
    BY <2>1, FilesBounded
  <2>4. DirNeeds(t, d) <= most
    BY <2>1
  <2> HIDE DEF a, d
  <2> QED  BY <2>2, <2>3, <2>4
<1>2. ASSUME IsIso(f), NEW x \in Dirs(t) \X Nat PROVE DirTakes(f, t)[x] \in Nat /\ DirTakes(f, t)[x] <= most
  <2> DEFINE d == x[1]
             n == CalcDirSectors(f, t, x[1], x[2], FALSE)
             j == CalcDirSectors(f, t, x[1], x[2], TRUE)
             l == Len(t.kids[d])
  <2>1. d \in Dirs(t)
    OBVIOUS
  <2>2. DirTakes(f, t)[x] = n + (IF IsJoliet(f) THEN j ELSE 0)
    BY DEF DirTakes
  <2>3. n \in Nat /\ n <= 1 + l
    <3>1. DirRegular(f, t, d, FALSE)
      BY <1>2, <2>1, SomeRegular
    <3>2. 0 \in Nat
      OBVIOUS
    <3> QED  BY <2>1, <3>1, <3>2, DirWritten
  <2>4. IsJoliet(f) => j \in Nat /\ j <= 1 + l
    <3> SUFFICES ASSUME IsJoliet(f) PROVE j \in Nat /\ j <= 1 + l
      OBVIOUS
    <3>0. TRUE \in {FALSE, IsJoliet(f)}
      OBVIOUS
    <3>1. DirRegular(f, t, d, TRUE)
      BY <1>2, <2>1, <3>0, SomeRegular
    <3>2. 0 \in Nat
      OBVIOUS
    <3> QED  BY <2>1, <3>1, <3>2, DirWritten
  <2>5. DirNeeds(t, d) \in Nat /\ 2 * (1 + l) <= DirNeeds(t, d) /\ DirNeeds(t, d) <= most
    BY <2>1, FilesBounded
  <2>6. l \in Nat
    BY <2>1, KidsOf DEF NamedTree
  <2> HIDE DEF d, n, j, l
  <2> QED  BY <2>2, <2>3, <2>4, <2>5, <2>6
<1>3. IsIso(f) => \A x \in Dirs(t) \X Nat : DirTakes(f, t)[x] \in Nat /\ DirTakes(f, t)[x] <= most
  BY <1>2
<1> QED
  BY <1>1, <1>3 DEF FileTakes, DirTakes

-----------------------------------------------------------------------------
(* Where the sector manager lets everything start.                         *)

(* r was reserved, k sectors from at.                                      *)
Reserved(old, m, r, at, k) ==
  /\ Places(m) /\ m.start[r] = at /\ m.next = at + k
  /\ \A q \in Regions : q # r => m.start[q] = old.start[q]

(* alloc_sectors, when the counter does not wrap.                          *)
LEMMA ReservedAt ==
  ASSUME NEW m, Places(m), NEW r \in Regions, NEW at \in Nat, m.next = at, NEW k \in Nat, at + k < Word
  PROVE  Reserved(m, AllocSectors(m, r, k), r, at, k)
<1>1. at + k \in Nat
  OBVIOUS
<1>2. (at + k) % Word = at + k
  BY <1>1, InWord
<1> QED
  BY <1>2, PlacedInOrder DEF Reserved

TableSectors(f, t, joliet) ==
  BytesToSec(PathTableBytes(f, t, ReachedDirs(t, GetMaxDirLevel(f)) \ {Root}, joliet))

JolietSectors(f, t) == IF IsJoliet(f) THEN TableSectors(f, t, TRUE) ELSE 0

UdfSectors(f, t) == IF IsUdf(f) THEN UdfSizeTotal(f, t)[Root] ELSE 0

(* The path tables follow the file entries, or the header; then come the   *)
(* directories, or the files.                                              *)
TablesStart(f, t) == IF IsUdf(f) THEN 258 + UdfSectors(f, t) ELSE 16 + HeaderSectors(f)

PassesStart(f, t) ==
  TablesStart(f, t) + (IF IsIso(f) THEN 2 * TableSectors(f, t, FALSE) + 2 * JolietSectors(f, t) ELSE 0)

(* Fits: up to the passes nothing wraps, nor after them when each adds no  *)
(* more than most for every directory.                                     *)
Bounds(f, t, most) ==
  /\ most \in Nat /\ \A d \in Dirs(t) : DirNeeds(t, d) <= most
  /\ Cardinality(Dirs(t)) \in Nat
  /\ PassesStart(f, t) + 2 * (most * Cardinality(Dirs(t))) < Word

(* A path table takes whole sectors.                                       *)
LEMMA TableNat ==
  ASSUME NEW f, NEW t, NamedTree(t), NEW joliet \in BOOLEAN
  PROVE  TableSectors(f, t, joliet) \in Nat
<1> DEFINE dirs == ReachedDirs(t, GetMaxDirLevel(f)) \ {Root}
<1>1. dirs \in SUBSET Dirs(t)
  BY DEF ReachedDirs
<1> HIDE DEF dirs
<1>2. PathTableBytes(f, t, dirs, joliet) \in Nat
  BY <1>1, TablesAgree
<1>3. TableSectors(f, t, joliet) = BytesToSec(PathTableBytes(f, t, dirs, joliet))
  BY DEF TableSectors, dirs
<1> QED
  BY <1>2, <1>3, SectorsNat

(* A file entry takes whole sectors, with all below it.                    *)
LEMMA TotalNat ==
  ASSUME NEW f, NEW t, NamedTree(t), NEW n \in Nodes(t)
  PROVE  UdfSizeTotal(f, t)[n] \in Nat
<1>1. Totals(f, t, Dirs(t), UdfSizeTotal(f, t))
  BY TotalsAre
<1>2. UdfSizeTotal(f, t) \in [Dirs(t) \cup Files(t) -> Nat]
  BY <1>1 DEF Totals
<1> QED
  BY <1>2 DEF Nodes

(* Where the structures of the image begin, in sectors.                    *)
LEMMA StartsNat ==
  ASSUME NEW f, NEW t, NamedTree(t), AreImages(f.images)
  PROVE  /\ HeaderSectors(f) \in Nat /\ Descriptors(f) \in 2 .. 5
         /\ BytesToSec(BootCatSize(f.images)) \in Nat /\ BytesToSec(BootDataSize(f.images)) \in Nat
         /\ HeaderSectors(f) <= 5 + BytesToSec(BootCatSize(f.images)) + BytesToSec(BootDataSize(f.images))
         /\ UdfSectors(f, t) \in Nat /\ TablesStart(f, t) \in Nat
         /\ TableSectors(f, t, FALSE) \in Nat /\ JolietSectors(f, t) \in Nat
         /\ JolietSectors(f, t) <= TableSectors(f, t, TRUE) /\ TableSectors(f, t, TRUE) \in Nat
         /\ PassesStart(f, t) \in Nat /\ PassesStart(f, t) >= 16
<1> DEFINE c == BytesToSec(BootCatSize(f.images))
           b == BytesToSec(BootDataSize(f.images))
           h == HeaderSectors(f)
           u == UdfSectors(f, t)
           s == TablesStart(f, t)
           n == TableSectors(f, t, FALSE)
           j == JolietSectors(f, t)
           k == TableSectors(f, t, TRUE)
<1>1. c \in Nat /\ b \in Nat
  BY ImagesSize, SectorsNat
<1>2. n \in Nat /\ k \in Nat
  BY TableNat
<1>3. u \in Nat
  <2>1. Root \in Nodes(t)
    BY DEF NamedTree, IsTree, Nodes
  <2>2. UdfSizeTotal(f, t)[Root] \in Nat
    BY <2>1, TotalNat
  <2> QED  BY <2>2 DEF UdfSectors
<1> HIDE DEF c, b
<1>4. Descriptors(f) \in 2 .. 5
  BY DEF Descriptors, One
<1>5. h = IF ~IsIso(f) THEN 0 ELSE IF f.extended \/ f.images = <<>> THEN Descriptors(f)
          ELSE Descriptors(f) + c + b
  BY DEF HeaderSectors, c, b
<1> HIDE DEF h
<1>6. h \in Nat /\ h <= 5 + c + b
  BY <1>1, <1>4, <1>5
<1>7. s = IF IsUdf(f) THEN 258 + u ELSE 16 + h
  BY DEF TablesStart, h
<1> HIDE DEF u, s, n, k
<1>8. s \in Nat /\ s >= 16
  BY <1>3, <1>6, <1>7
<1>9. j \in Nat /\ j <= k
  <2>1. j = IF IsJoliet(f) THEN k ELSE 0
    BY DEF JolietSectors, k
  <2> HIDE DEF j
  <2> QED  BY <1>2, <2>1
<1> HIDE DEF j
<1>10. PassesStart(f, t) = s + (IF IsIso(f) THEN 2 * n + 2 * j ELSE 0)
  BY DEF PassesStart, s, n, j
<1>11. PassesStart(f, t) \in Nat /\ PassesStart(f, t) >= 16
  BY <1>2, <1>8, <1>9, <1>10
<1> QED
  BY <1>1, <1>2, <1>3, <1>4, <1>6, <1>8, <1>9, <1>11 DEF c, b, h, u, s, n, j, k

(* Fits leaves room for both passes behind the structures.                 *)
LEMMA FitsIs ==
  ASSUME NEW f, NEW t, NamedTree(t), IsFiniteSet(Dirs(t)), AreImages(f.images), Fits(f, t)
  PROVE  \E most : Bounds(f, t, most)
<1> DEFINE c == BytesToSec(BootCatSize(f.images))
           b == BytesToSec(BootDataSize(f.images))
           h == HeaderSectors(f)
           u == UdfSectors(f, t)
           s == TablesStart(f, t)
           n == TableSectors(f, t, FALSE)
           j == JolietSectors(f, t)
           k == TableSectors(f, t, TRUE)
           card == Cardinality(Dirs(t))
<1>1. PICK most \in {DirNeeds(t, d) : d \in Dirs(t)} :
        /\ \A d \in Dirs(t) : DirNeeds(t, d) <= most
        /\ 263 + c + b + (IF IsUdf(f) THEN UdfSizeTotal(f, t)[Root] ELSE 0)
             + 2 * (n + k) + 2 * most * card < Word
  BY DEF Fits, TableSectors
<1>2. most \in Nat
  <2>1. PICK d \in Dirs(t) : most = DirNeeds(t, d)
    BY <1>1
  <2>2. {} \in SUBSET Files(t)
    OBVIOUS
  <2> QED  BY <2>1, <2>2, FilesBounded
<1>3. card \in Nat
  BY FS_CardinalityType
<1>4. /\ h \in Nat /\ c \in Nat /\ b \in Nat /\ h <= 5 + c + b /\ u \in Nat /\ n \in Nat
      /\ j \in Nat /\ j <= k /\ k \in Nat
  BY StartsNat
<1>5. 263 + c + b + u + 2 * (n + k) + 2 * most * card < Word
  BY <1>1 DEF UdfSectors
<1>6. s = IF IsUdf(f) THEN 258 + u ELSE 16 + h
  BY DEF TablesStart
<1>7. PassesStart(f, t) = s + (IF IsIso(f) THEN 2 * n + 2 * j ELSE 0)
  BY DEF PassesStart
<1> DEFINE room == most * card
<1>8. 2 * most * card = 2 * room /\ room \in Nat
  <2>1. \A x, y \in Nat : x * y \in Nat /\ 2 * x * y = 2 * (x * y)
    OBVIOUS
  <2> HIDE DEF card
  <2> QED  BY <1>2, <1>3, <2>1
<1> HIDE DEF c, b, h, u, s, n, j, k, card, room
<1>9. 263 + c + b + u + 2 * (n + k) + 2 * room < Word
  BY <1>5, <1>8
<1>10. PassesStart(f, t) + 2 * room < Word
  <2>1. s <= 258 + u + c + b
    BY <1>4, <1>6
  <2>2. s \in Nat
    BY <1>4, <1>6
  <2>3. PassesStart(f, t) <= s + 2 * n + 2 * k /\ PassesStart(f, t) \in Nat
    BY <1>4, <1>7, <2>2
  <2> QED  BY <1>4, <1>8, <1>9, <2>1, <2>2, <2>3, WordAssumption
<1>11. Bounds(f, t, most)
  BY <1>1, <1>2, <1>3, <1>10 DEF Bounds, card, room
<1> QED
  BY <1>11

(* The counters do not overflow before the passes begin.                   *)
LEMMA RoomLeft ==
  ASSUME NEW f, NEW t, NamedTree(t), AreImages(f.images), NEW most, Bounds(f, t, most)
  PROVE  /\ TablesStart(f, t) <= PassesStart(f, t) /\ PassesStart(f, t) < Word /\ Word \in Nat
         /\ most * Cardinality(Dirs(t)) \in Nat
<1> DEFINE room == most * Cardinality(Dirs(t))
           s == TablesStart(f, t)
           n == TableSectors(f, t, FALSE)
           j == JolietSectors(f, t)
<1>1. room \in Nat /\ PassesStart(f, t) + 2 * room < Word
  <2>1. \A x, y \in Nat : x * y \in Nat
    OBVIOUS
  <2> QED  BY <2>1 DEF Bounds
<1>2. n \in Nat /\ j \in Nat /\ s \in Nat /\ PassesStart(f, t) \in Nat
  BY StartsNat
<1>3. PassesStart(f, t) = s + (IF IsIso(f) THEN 2 * n + 2 * j ELSE 0)
  BY DEF PassesStart
<1> HIDE DEF room, s, n, j
<1>4. s <= PassesStart(f, t)
  BY <1>2, <1>3
<1>5. PassesStart(f, t) < Word
  BY <1>1, <1>2, WordAssumption
<1> QED
  BY <1>1, <1>4, <1>5, WordAssumption DEF room, s

(* What was reserved for the header, and for UDF.                          *)
HeaderLaid(m, f) ==
  /\ Places(m)
  /\ IsIso(f) => /\ m.start["descriptors"] = 16
                 /\ ~(f.extended \/ f.images = <<>>) =>
                      /\ m.start["bootcatalog"] = 16 + Descriptors(f)
                      /\ m.start["bootdata"] = 16 + Descriptors(f) + BytesToSec(BootCatSize(f.images))
  /\ IsUdf(f) => /\ m.start["initial"] = 16 + HeaderSectors(f)
                 /\ m.start["main"] = 19 + HeaderSectors(f)
                 /\ m.start["fileset"] = 258

TablesLaid(m, f, t) ==
  IsIso(f) =>
    LET n == TableSectors(f, t, FALSE)
        s == TablesStart(f, t)
    IN /\ m.start["path L"] = s /\ m.start["path M"] = s + n
       /\ m.start["joliet path L"] = s + 2 * n
       /\ m.start["joliet path M"] = s + 2 * n + JolietSectors(f, t)

(* The bytes of the descriptors are whole sectors.                         *)
LEMMA DescriptorSectors ==
  ASSUME NEW f
  PROVE  BytesToSec(SectorSize * (2 + (IF f.images # <<>> THEN 1 ELSE 0)
                                    + (IF HasSuppl(f) THEN 1 ELSE 0)
                                    + (IF IsJoliet(f) THEN 1 ELSE 0))) = Descriptors(f)
<1>1. Descriptors(f) \in 2 .. 5
  BY DEF Descriptors, One
<1>2. SectorSize * Descriptors(f) = Descriptors(f) * SectorSize + 0
  BY <1>1, SectorSizeAssumption
<1>3. BytesToSec(Descriptors(f) * SectorSize + 0) = Descriptors(f)
  <2>1. Descriptors(f) \in Nat /\ 0 \in 0 .. SectorSize - 1
    BY <1>1, SectorSizeAssumption
  <2> QED  BY <2>1, BytesToSecIs
<1> QED
  BY <1>2, <1>3 DEF Descriptors, One

(* The header, and what UDF reserves behind it.                            *)
LEMMA HeaderReserved ==
  ASSUME NEW f, NEW t, NamedTree(t), IsFiniteSet(Dirs(t)), AreImages(f.images), Regular(f, t),
         NEW most, Bounds(f, t, most),
         NEW iso, iso = IF IsIso(f) THEN AllocIsoHeader(NewManager(16), f) ELSE NewManager(16),
         NEW m, m = IF IsUdf(f) THEN AllocUdf(iso, f, t) ELSE iso
  PROVE  HeaderLaid(m, f) /\ m.next = TablesStart(f, t)
<1> DEFINE c == BytesToSec(BootCatSize(f.images))
           b == BytesToSec(BootDataSize(f.images))
           h == HeaderSectors(f)
           u == UdfSectors(f, t)
           d == Descriptors(f)
           new == NewManager(16)
           inside == ~(f.extended \/ f.images = <<>>)
<1>1. \A r \in {"descriptors", "bootcatalog", "bootdata", "initial", "main", "fileset"} : r \in Regions
  BY RegionsHave
<1>2. /\ h \in Nat /\ d \in 2 .. 5 /\ c \in Nat /\ b \in Nat /\ u \in Nat
      /\ TablesStart(f, t) \in Nat /\ PassesStart(f, t) \in Nat
  BY StartsNat
<1>3. h = IF ~IsIso(f) THEN 0 ELSE IF inside THEN d + c + b ELSE d
  BY DEF HeaderSectors
<1>4. TablesStart(f, t) = IF IsUdf(f) THEN 258 + u ELSE 16 + h
  BY DEF TablesStart
<1>5. TablesStart(f, t) < Word
  <2>1. TablesStart(f, t) <= PassesStart(f, t) /\ PassesStart(f, t) < Word /\ Word \in Nat
    BY RoomLeft
  <2> QED  BY <1>2, <2>1
<1>6. Word \in Nat /\ (IsUdf(f) => h + 19 <= 222)
  BY HeaderFits, WordAssumption
<1>7. Places(new) /\ new.next = 16
  BY DEF Places, NewManager
<1> HIDE DEF new, c, b, h, u, d
<1>8. 16 + h < Word
  BY <1>2, <1>4, <1>5, <1>6
<1>9. /\ Places(iso) /\ iso.next = 16 + h
      /\ IsIso(f) => /\ iso.start["descriptors"] = 16
                     /\ inside => iso.start["bootcatalog"] = 16 + d /\ iso.start["bootdata"] = 16 + d + c
  <2>1. CASE ~IsIso(f)
    <3>1. iso = new
      BY <2>1 DEF new
    <3> QED  BY <1>3, <1>7, <2>1, <3>1
  <2>2. CASE IsIso(f)
    <3> DEFINE header == AllocSectors(new, "descriptors", d)
               cat == AllocSectors(header, "bootcatalog", c)
               last == AllocSectors(cat, "bootdata", b)
    <3>1. iso = IF inside THEN last ELSE header
      <4>1. iso = AllocIsoHeader(new, f)
        BY <2>2 DEF new
      <4>2. AllocBytes(new, "descriptors", SectorSize * (2 + (IF f.images # <<>> THEN 1 ELSE 0)
                                     + (IF HasSuppl(f) THEN 1 ELSE 0)
                                     + (IF IsJoliet(f) THEN 1 ELSE 0))) = header
        BY DescriptorSectors DEF AllocBytes, d
      <4> HIDE DEF header
      <4> QED  BY <4>1, <4>2 DEF AllocIsoHeader, AllocBytes, c, b
    <3> DEFINE e == 16 + d
    <3>2. d \in Nat /\ 16 \in Nat /\ 16 + d < Word /\ e \in Nat
      <4>1. h = IF inside THEN d + c + b ELSE d
        BY <1>3, <2>2
      <4> HIDE DEF inside
      <4>2. d \in Nat /\ d <= h
        BY <1>2, <4>1
      <4> QED  BY <1>2, <1>6, <1>8, <4>2
    <3>3. Reserved(new, header, "descriptors", 16, d)
      BY <1>1, <1>7, <3>2, ReservedAt
    <3>6. /\ Places(header) /\ header.start["descriptors"] = 16 /\ header.next = e
      BY <3>3 DEF Reserved
    <3> HIDE DEF header
    <3>4. CASE ~inside
      BY <1>3, <2>2, <3>1, <3>4, <3>6
    <3>5. CASE inside
      <4> DEFINE g == e + c
      <4>1. g < Word /\ g \in Nat /\ 16 + h = g + b /\ g + b < Word /\ g = 16 + d + c
        BY <1>2, <1>3, <1>6, <1>8, <2>2, <3>2, <3>5
      <4>5. e + c < Word /\ e = 16 + d
        BY <4>1
      <4> HIDE DEF e
      <4>2. Reserved(header, cat, "bootcatalog", e, c)
        BY <1>1, <1>2, <3>2, <3>6, <4>5, ReservedAt
      <4>6. Places(cat) /\ cat.start["bootcatalog"] = e /\ cat.next = g
            /\ cat.start["descriptors"] = header.start["descriptors"]
        BY <1>1, <4>2 DEF Reserved
      <4> HIDE DEF cat, g
      <4>3. Reserved(cat, last, "bootdata", g, b)
        BY <1>1, <1>2, <4>1, <4>6, ReservedAt
      <4> HIDE DEF last
      <4>4. /\ Places(last) /\ last.start["bootdata"] = g /\ last.next = g + b
            /\ last.start["bootcatalog"] = e /\ last.start["descriptors"] = 16
        BY <1>1, <3>6, <4>3, <4>6 DEF Reserved
      <4> QED  BY <2>2, <3>1, <3>5, <4>1, <4>4, <4>5
    <3> QED  BY <3>4, <3>5
  <2> QED  BY <2>1, <2>2
<1>10. CASE ~IsUdf(f)
  <2>1. m = iso
    BY <1>10
  <2> QED  BY <1>4, <1>9, <1>10, <2>1 DEF HeaderLaid, d, c, h
<1>11. CASE IsUdf(f)
  <2> DEFINE initial == AllocSectors(iso, "initial", 3)
             main == AllocSectors(initial, "main", 258 - initial.next)
             last == AllocSectors(main, "fileset", u)
  <2>1. m = last
    BY <1>11 DEF AllocUdf, u, UdfSectors
  <2> DEFINE x == 16 + h
             a == x + 3
             k == 258 - a
  <2>2. /\ x \in Nat /\ 3 \in Nat /\ x + 3 < Word /\ a \in Nat /\ k \in Nat /\ a + k = 258
        /\ 258 \in Nat /\ 258 < Word /\ 258 + u < Word /\ a = 19 + h
    BY <1>2, <1>4, <1>5, <1>6, <1>11
  <2>3. x = 16 + h /\ a = x + 3 /\ k = 258 - a
    OBVIOUS
  <2> HIDE DEF x
  <2>15. Places(iso) /\ iso.next = x /\ "initial" \in Regions /\ x \in Nat
    BY <1>1, <1>9, <2>2, <2>3
  <2>16. initial = AllocSectors(iso, "initial", 3) /\ 3 \in Nat /\ x + 3 < Word
    BY <2>2
  <2> HIDE DEF a, k, initial, main, last
  <2>4. Reserved(iso, initial, "initial", x, 3)
    <3> USE DEF initial
    <3> QED  BY <2>15, <2>16, ReservedAt
  <2>5. /\ Places(initial) /\ initial.start["initial"] = x /\ initial.next = a
        /\ \A q \in Regions : q # "initial" => initial.start[q] = iso.start[q]
    BY <2>3, <2>4 DEF Reserved
  <2>6. main = AllocSectors(initial, "main", k)
    BY <2>3, <2>5 DEF main
  <2>7. a + k < Word
    BY <2>2
  <2>11. Reserved(initial, main, "main", a, k)
    BY <1>1, <2>2, <2>5, <2>6, <2>7, ReservedAt
  <2>12. /\ Places(main) /\ main.start["main"] = a /\ main.next = 258
         /\ \A q \in Regions : q # "main" => main.start[q] = initial.start[q]
    BY <2>2, <2>11 DEF Reserved
  <2>13. Reserved(main, last, "fileset", 258, u)
    BY <1>1, <1>2, <2>2, <2>12, ReservedAt DEF last
  <2>14. /\ Places(last) /\ last.start["fileset"] = 258 /\ last.next = 258 + u
         /\ \A q \in Regions : q # "fileset" => last.start[q] = main.start[q]
    BY <2>13 DEF Reserved
  <2>8. /\ last.start["main"] = 19 + h /\ last.start["initial"] = 16 + h
        /\ \A q \in {"descriptors", "bootcatalog", "bootdata"} : last.start[q] = iso.start[q]
    BY <1>1, <2>2, <2>3, <2>5, <2>12, <2>14
  <2>9. m.next = TablesStart(f, t)
    BY <1>4, <1>11, <2>1, <2>14
  <2>10. HeaderLaid(m, f)
    BY <1>9, <2>1, <2>8, <2>14 DEF HeaderLaid, d, c, h
  <2> QED  BY <2>9, <2>10
<1> QED
  BY <1>10, <1>11

(* The path tables.                                                        *)
LEMMA TablesReserved ==
  ASSUME NEW f, NEW t, NamedTree(t), AreImages(f.images), IsIso(f), NEW most, Bounds(f, t, most),
         NEW old, HeaderLaid(old, f), old.next = TablesStart(f, t),
         NEW m, m = AllocPathTables(old, f, t, ReachedDirs(t, GetMaxDirLevel(f)) \ {Root})
  PROVE  HeaderLaid(m, f) /\ TablesLaid(m, f, t) /\ m.next = PassesStart(f, t)
<1> DEFINE dirs == ReachedDirs(t, GetMaxDirLevel(f)) \ {Root}
           n == TableSectors(f, t, FALSE)
           j == JolietSectors(f, t)
           s == TablesStart(f, t)
           a == AllocSectors(old, "path L", n)
           b == AllocSectors(a, "path M", n)
           c == AllocSectors(b, "joliet path L", j)
           d == AllocSectors(c, "joliet path M", j)
<1>1. \A r \in {"descriptors", "bootcatalog", "bootdata", "path L", "path M", "joliet path L",
                "joliet path M", "initial", "main", "fileset"} : r \in Regions
  BY RegionsHave
<1>2. n \in Nat /\ j \in Nat /\ s \in Nat /\ PassesStart(f, t) = s + 2 * n + 2 * j
      /\ PassesStart(f, t) \in Nat
  <2>1. PassesStart(f, t) = s + (2 * n + 2 * j)
    BY DEF PassesStart
  <2>2. n \in Nat /\ j \in Nat /\ s \in Nat
    BY StartsNat
  <2> HIDE DEF n, j, s
  <2> QED  BY <2>1, <2>2
<1>3. PassesStart(f, t) < Word /\ Word \in Nat
  BY RoomLeft
<1>4. m = d
  <2>1. BytesToSec(IF IsJoliet(f) THEN PathTableBytes(f, t, dirs, TRUE) ELSE 0) = j
    <3>1. BytesToSec(0) = 0
      BY DEF BytesToSec
    <3> QED  BY <3>1 DEF JolietSectors, TableSectors
  <2>2. BytesToSec(PathTableBytes(f, t, dirs, FALSE)) = n
    BY DEF TableSectors
  <2> HIDE DEF n, j
  <2>3. m = AllocPathTables(old, f, t, dirs)
    OBVIOUS
  <2> HIDE DEF dirs
  <2> QED  BY <2>1, <2>2, <2>3 DEF AllocPathTables, AllocBytes
<1>5. Places(old) /\ old.next = s
  BY DEF HeaderLaid
<1>13. n = TableSectors(f, t, FALSE) /\ j = JolietSectors(f, t) /\ s = TablesStart(f, t)
  OBVIOUS
<1> DEFINE s1 == s + n
           s2 == s1 + n
           s3 == s2 + j
<1> HIDE DEF n, j, s, dirs
<1>6. /\ s1 \in Nat /\ s2 \in Nat /\ s3 \in Nat /\ s3 + j = PassesStart(f, t)
      /\ s + n < Word /\ s1 + n < Word /\ s2 + j < Word /\ s3 + j < Word
      /\ s1 = s + n /\ s2 = s + 2 * n /\ s3 = s + 2 * n + j /\ s2 = s1 + n /\ s3 = s2 + j
  BY <1>2, <1>3
<1> HIDE DEF s1, s2, s3
<1>7. Reserved(old, a, "path L", s, n)
  BY <1>1, <1>2, <1>5, <1>6, ReservedAt
<1>16. Places(a) /\ a.next = s1
  BY <1>6, <1>7 DEF Reserved
<1> HIDE DEF a
<1>8. Reserved(a, b, "path M", s1, n)
  BY <1>1, <1>2, <1>6, <1>16, ReservedAt
<1>17. Places(b) /\ b.next = s2
  BY <1>6, <1>8 DEF Reserved
<1> HIDE DEF b
<1>9. Reserved(b, c, "joliet path L", s2, j)
  BY <1>1, <1>2, <1>6, <1>17, ReservedAt
<1>18. Places(c) /\ c.next = s3
  BY <1>6, <1>9 DEF Reserved
<1> HIDE DEF c
<1>10. Reserved(c, d, "joliet path M", s3, j)
  BY <1>1, <1>2, <1>6, <1>18, ReservedAt
<1> HIDE DEF d
<1>19. ASSUME NEW q \in {"descriptors", "bootcatalog", "bootdata", "initial", "main", "fileset"}
       PROVE  d.start[q] = old.start[q]
  BY <1>1, <1>7, <1>8, <1>9, <1>10 DEF Reserved
<1>11. \A q \in {"descriptors", "bootcatalog", "bootdata", "initial", "main", "fileset"} :
         d.start[q] = old.start[q]
  BY <1>19
<1>20. d.start["path L"] = s /\ d.start["path M"] = s1 /\ d.start["joliet path L"] = s2
       /\ d.start["joliet path M"] = s3
  BY <1>1, <1>7, <1>8, <1>9, <1>10 DEF Reserved
<1>12. d.next = PassesStart(f, t) /\ Places(d)
  BY <1>6, <1>10 DEF Reserved
<1>14. TablesLaid(m, f, t)
  BY <1>4, <1>6, <1>13, <1>20 DEF TablesLaid
<1>15. HeaderLaid(m, f)
  BY <1>4, <1>11, <1>12 DEF HeaderLaid
<1> QED
  BY <1>4, <1>12, <1>14, <1>15

-----------------------------------------------------------------------------
(* write_file_data pushes the directories one by one, as it comes to them. *)

(* The directories of a sequence, and their level.                         *)
Tagged(s, l) == [i \in 1 .. Len(s) |-> <<s[i], l>>]

(* dir_node_stack after the first k entries of the directory taken off.    *)
PushedUpTo(stack, t, max, k) ==
  LET level == stack[Len(stack)][2]
      sub   == Among(SubSeq(t.kids[TopIn(stack)], 1, k), Dirs(t))
  IN IF level > max THEN Front(stack)
     ELSE Front(stack) \o Tagged(sub, level + 1)

(* One sequence behind the other.                                          *)
LEMMA CatIs ==
  ASSUME NEW D, NEW s \in Seq(D), NEW v \in Seq(D)
  PROVE  s \o v \in Seq(D) /\ Len(s \o v) = Len(s) + Len(v)
OBVIOUS

(* One directory more is one member more on the stack.                     *)
TaggedLast(front, sub, x, l) ==
  front \o Tagged(Append(sub, x), l) = Append(front \o Tagged(sub, l), <<x, l>>)

(* It is so.                                                               *)
LEMMA PushedOne ==
  ASSUME NEW E, NEW sub \in Seq(E), NEW x \in E, NEW l \in Nat, NEW front \in Seq(E \X Nat)
  PROVE  TaggedLast(front, sub, x, l)
<1> DEFINE more == Append(sub, x)
           n == Len(sub)
           u == [i \in 1 .. Len(more) |-> <<more[i], l>>]
           v == [i \in 1 .. n |-> <<sub[i], l>>]
           y == <<x, l>>
           D == E \X Nat
<1>1. n \in Nat /\ Len(more) = n + 1 /\ more[n + 1] = x /\ \A i \in 1 .. n : more[i] = sub[i] /\ sub[i] \in E
  OBVIOUS
<1> HIDE DEF more, n
<1>2. v \in Seq(D) /\ Len(v) = n
  <2>1. \A i \in 1 .. n : <<sub[i], l>> \in D
    BY <1>1
  <2> QED  BY <1>1, <2>1, SeqIs
<1>3. u \in Seq(D) /\ Len(u) = n + 1
  <2>1. \A i \in 1 .. n + 1 : more[i] \in E
    BY <1>1
  <2>2. \A i \in 1 .. n + 1 : <<more[i], l>> \in D
    BY <2>1
  <2> QED  BY <1>1, <2>2, SeqIs
<1>4. y \in D
  OBVIOUS
<1>5. u[n + 1] = y /\ \A i \in 1 .. n : u[i] = v[i]
  BY <1>1
<1>11. front \in Seq(D)
  OBVIOUS
<1> HIDE DEF u, v, y, D
<1> DEFINE a == front \o u
           b == Append(front \o v, y)
           k == Len(front)
<1>7. k \in Nat
  OBVIOUS
<1>10. front \o v \in Seq(D) /\ Len(front \o v) = k + n
  BY <1>1, <1>2, <1>11, CatIs
<1>6. a \in Seq(D) /\ b \in Seq(D) /\ Len(a) = k + (n + 1) /\ Len(b) = (k + n) + 1
  <2>1. a \in Seq(D) /\ Len(a) = k + (n + 1)
    BY <1>1, <1>3, <1>11, CatIs
  <2> DEFINE w == front \o v
  <2>2. w \in Seq(D) /\ Len(w) = k + n /\ b = Append(w, y)
    BY <1>10
  <2> HIDE DEF w, b
  <2> QED  BY <1>4, <2>1, <2>2
<1>8. \A i \in 1 .. k + (n + 1) : a[i] = b[i]
  <2> TAKE i \in 1 .. k + (n + 1)
  <2>1. CASE i <= k
    BY <1>1, <1>2, <1>3, <1>4, <1>11, <2>1
  <2>2. CASE i > k /\ i <= k + n
    <3>1. a[i] = u[i - k]
      BY <1>3, <1>11, <2>2
    <3>2. b[i] = v[i - k]
      BY <1>1, <1>2, <1>4, <1>11, <2>2
    <3>3. i - k \in 1 .. n
      BY <1>1, <1>7, <2>2
    <3> QED  BY <1>5, <3>1, <3>2, <3>3
  <2>3. CASE i = (k + n) + 1
    <3>1. a[i] = u[n + 1]
      BY <1>1, <1>3, <1>7, <1>11, <2>3
    <3>2. b[i] = y
      BY <1>1, <1>2, <1>4, <1>7, <1>11, <2>3
    <3> QED  BY <1>5, <3>1, <3>2
  <2>4. i <= k \/ (i > k /\ i <= k + n) \/ i = (k + n) + 1
    BY <1>1, <1>7
  <2> QED  BY <2>1, <2>2, <2>3, <2>4
<1> HIDE DEF a, b, k
<1>9. a = b
  BY <1>1, <1>6, <1>7, <1>8, SeqEqual
<1> QED
  BY <1>9 DEF a, b, u, v, y, n, more, Tagged, TaggedLast

(* It begins with what is left, and ends with what every pass pushes.      *)
LEMMA PushedSteps ==
  ASSUME NEW t, IsTree(t), NEW stack \in StackOf(t), stack # <<>>, NEW max
  PROVE  LET kids  == t.kids[TopIn(stack)]
             level == stack[Len(stack)][2]
         IN /\ PushedUpTo(stack, t, max, 0) = Front(stack)
            /\ PushedUpTo(stack, t, max, Len(kids)) = Pushes(stack, t, max)
            /\ \A k \in 1 .. Len(kids) :
                 PushedUpTo(stack, t, max, k) =
                   IF level > max \/ kids[k] \notin Dirs(t) THEN PushedUpTo(stack, t, max, k - 1)
                   ELSE Append(PushedUpTo(stack, t, max, k - 1), <<kids[k], level + 1>>)
<1> DEFINE d == TopIn(stack)
           kids == t.kids[d]
           level == stack[Len(stack)][2]
           front == Front(stack)
           P(k) == SubSeq(kids, 1, k)
           A(k) == Among(P(k), Dirs(t))
           U(k) == PushedUpTo(stack, t, max, k)
<1>1. stack[Len(stack)] \in Dirs(t) \X Nat /\ front \in StackOf(t)
  <2>1. stack \in Seq(Dirs(t) \X Nat)
    BY DEF StackOf
  <2> QED  BY <2>1 DEF Front, StackOf
<1>2. d \in Dirs(t) /\ level \in Nat
  BY <1>1 DEF TopIn
<1>3. kids \in Seq(Nodes(t)) /\ Len(kids) \in Nat /\ DOMAIN kids = 1 .. Len(kids)
  BY <1>2, KidsOf
<1>4. \A k : U(k) = IF level > max THEN front
                    ELSE front \o Tagged(A(k), level + 1)
  BY DEF PushedUpTo
<1>5. /\ P(0) = <<>> /\ P(Len(kids)) = kids
      /\ \A k \in 0 .. Len(kids) : P(k) \in Seq(Nodes(t))
      /\ \A k \in 1 .. Len(kids) : kids[k] \in Nodes(t) /\ P(k) = Append(P(k - 1), kids[k])
  <2> HIDE DEF kids
  <2> QED  BY <1>3, PrefixIs
<1>6. A(0) = <<>>
  <2>1. A(0) = Among(P(0), Dirs(t))
    OBVIOUS
  <2> HIDE DEF A, P
  <2> QED  BY <1>5, <2>1, AmongNone
<1>7. \A k \in 1 .. Len(kids) : A(k) = IF kids[k] \in Dirs(t) THEN Append(A(k - 1), kids[k]) ELSE A(k - 1)
  <2> TAKE k \in 1 .. Len(kids)
  <2> DEFINE u == P(k - 1)
             x == kids[k]
  <2>1. k - 1 \in 0 .. Len(kids)
    BY <1>3
  <2>2. u \in Seq(Nodes(t)) /\ x \in Nodes(t) /\ P(k) = Append(u, x)
    BY <1>5, <2>1
  <2>3. A(k - 1) = Among(u, Dirs(t)) /\ A(k) = Among(P(k), Dirs(t)) /\ x = kids[k]
    OBVIOUS
  <2> HIDE DEF u, x, P, A, kids
  <2>4. Among(Append(u, x), Dirs(t)) = IF x \in Dirs(t) THEN Append(Among(u, Dirs(t)), x) ELSE Among(u, Dirs(t))
    <3> DEFINE E == Nodes(t)
    <3>1. u \in Seq(E) /\ x \in E
      BY <2>2
    <3> HIDE DEF E
    <3> QED  BY <3>1, AmongAppend
  <2> QED  BY <2>2, <2>3, <2>4
<1>8. \A k \in 0 .. Len(kids) : A(k) \in Seq(Dirs(t))
  <2> DEFINE D == Dirs(t)
             n == Len(kids)
             Ok(k) == A(k) \in Seq(D)
             T == {k \in 0 .. n : Ok(k)}
  <2>4. Ok(0)
    <3>1. A(0) \in Seq(D)
      <4>1. <<>> \in Seq(D)
        OBVIOUS
      <4> HIDE DEF A, D
      <4> QED  BY <1>6, <4>1
    <3> QED  BY <3>1
  <2>5. \A k \in 1 .. n : Ok(k - 1) => Ok(k)
    <3> TAKE k \in 1 .. n
    <3> HAVE Ok(k - 1)
    <3> DEFINE u == A(k - 1)
               x == kids[k]
    <3>1. u \in Seq(D) /\ A(k) = IF x \in D THEN Append(u, x) ELSE u
      BY <1>7
    <3> HIDE DEF A, u, x, D
    <3>2. A(k) \in Seq(D)
      BY <3>1
    <3> QED  BY <3>2
  <2>6. n \in Nat
    BY <1>3
  <2> HIDE DEF Ok, n
  <2>1. 0 \in T
    BY <2>4, <2>6
  <2>2. \A k \in 0 .. n - 1 : k \in T => k + 1 \in T
    <3> TAKE k \in 0 .. n - 1
    <3> HAVE k \in T
    <3>1. k + 1 \in 1 .. n /\ (k + 1) - 1 = k /\ k + 1 \in 0 .. n
      BY <2>6
    <3> QED  BY <2>5, <3>1
  <2>3. 0 .. n \subseteq T
    <3> HIDE DEF T
    <3> QED  BY <2>1, <2>2, <2>6, UpTo
  <2> QED  BY <2>3 DEF n, Ok
<1>9. front \in Seq(Dirs(t) \X Nat) /\ Pushes(stack, t, max) = (IF level > max THEN front
        ELSE front \o Tagged(SubDirs(t, d), level + 1))
  BY <1>1 DEF Pushes, PushDirs, TopIn, StackOf, Tagged
<1>10. SubDirs(t, d) = A(Len(kids))
  BY <1>5 DEF SubDirs
<1>11. U(Len(kids)) = Pushes(stack, t, max)
  <2> HIDE DEF U, A, front
  <2> QED  BY <1>4, <1>9, <1>10
<1>12. U(0) = front
  <2> HIDE DEF U, A, front
  <2>1. front \o <<>> = front
    BY <1>9
  <2>2. Tagged(A(0), level + 1) = <<>>
    BY <1>6 DEF Tagged
  <2> QED  BY <1>4, <2>1, <2>2
<1>13. \A k \in 1 .. Len(kids) : U(k) = IF level > max \/ kids[k] \notin Dirs(t) THEN U(k - 1)
                                        ELSE Append(U(k - 1), <<kids[k], level + 1>>)
  <2> TAKE k \in 1 .. Len(kids)
  <2>1. k - 1 \in 0 .. Len(kids)
    BY <1>3
  <2> DEFINE sub == A(k - 1)
             x == kids[k]
             l == level + 1
  <2>2. sub \in Seq(Dirs(t))
    BY <1>8, <2>1
  <2>3. A(k) = IF x \in Dirs(t) THEN Append(sub, x) ELSE sub
    BY <1>7
  <2>4. /\ U(k) = IF level > max THEN front ELSE front \o Tagged(A(k), l)
        /\ U(k - 1) = IF level > max THEN front ELSE front \o Tagged(sub, l)
    BY <1>4
  <2>5. l \in Nat /\ x = kids[k] /\ l = level + 1
    BY <1>2
  <2> HIDE DEF U, A, sub, x, l, front, level, kids
  <2>6. CASE level > max \/ x \notin Dirs(t)
    BY <2>3, <2>4, <2>5, <2>6
  <2>7. CASE ~(level > max) /\ x \in Dirs(t)
    <3>1. TaggedLast(front, sub, x, l)
      <4> DEFINE E == Dirs(t)
      <4>1. sub \in Seq(E) /\ x \in E /\ front \in Seq(E \X Nat) /\ l \in Nat
        BY <1>9, <2>2, <2>5, <2>7
      <4> HIDE DEF E
      <4> QED  BY <4>1, PushedOne
    <3>2. A(k) = Append(sub, x)
      BY <2>3, <2>7
    <3> QED  BY <2>4, <2>5, <2>7, <3>1, <3>2 DEF TaggedLast
  <2> QED  BY <2>6, <2>7
<1> QED
  BY <1>11, <1>12, <1>13

-----------------------------------------------------------------------------
(* Where the writing passes put things.                                    *)

(* A path table takes the sectors that were reserved for it.               *)
LEMMA TableWritten ==
  ASSUME NEW c \in Nat, NEW f, NEW t, NamedTree(t), NEW joliet \in BOOLEAN,
         NEW dirs, dirs = ReachedDirs(t, GetMaxDirLevel(f)) \ {Root}
  PROVE  WritePathTable(At(c), f, t, dirs, joliet) = At(c + TableSectors(f, t, joliet))
<1>1. dirs \in SUBSET Dirs(t)
  BY DEF ReachedDirs
<1>2. PathTableLength(f, t, dirs, joliet) = PathTableBytes(f, t, dirs, joliet)
      /\ PathTableBytes(f, t, dirs, joliet) \in Nat
  BY <1>1, TablesAgree
<1>3. TableSectors(f, t, joliet) = BytesToSec(PathTableBytes(f, t, dirs, joliet))
  BY DEF TableSectors
<1> QED
  BY <1>2, <1>3, PaddedBytes DEF WritePathTable

(* A file takes its sectors, and those of its pad.                         *)
LEMMA FileWritten ==
  ASSUME NEW c \in Nat, NEW t, NamedTree(t), NEW n \in Files(t)
  PROVE  /\ WriteSectors(PadIfOpen(WriteBytes(At(c), t.size[n])), t.pad[n]) = At(c + TakenBy(t, n))
         /\ TakenBy(t, n) \in Nat
<1>1. t.size[n] \in Nat /\ t.pad[n] \in Nat
  BY DEF NamedTree, AreSizes
<1>2. BytesToSec(t.size[n]) \in Nat
  BY <1>1, SectorsNat
<1> DEFINE b == BytesToSec(t.size[n])
           e == c + b
           p == t.pad[n]
<1>3. PadIfOpen(WriteBytes(At(c), t.size[n])) = At(e)
  BY <1>1, PaddedBytes
<1>4. e \in Nat /\ b \in Nat /\ p \in Nat /\ e + p = c + (b + p) /\ b + p \in Nat
  BY <1>1, <1>2
<1>5. TakenBy(t, n) = b + p
  BY DEF TakenBy
<1> HIDE DEF e, b
<1>6. WriteSectors(At(e), p) = At(e + p)
  BY <1>4, WholeSectors
<1> QED
  BY <1>3, <1>4, <1>5, <1>6

(* Every boot image begins where the ones before it end.                   *)
LEMMA ImagesPlaced ==
  ASSUME NEW images, AreImages(images), NEW c \in Nat
  PROVE  /\ WriteBootImages(At(c), images).at = BootImagePos(images, c)
         /\ DOMAIN BootImagePos(images, c) = 1 .. Len(images)
         /\ images # <<>> => 1 \in 1 .. Len(images) /\ BootImagePos(images, c)[1] = c
         /\ \A k : \A i \in 1 .. Len(images) :
              k \in Nat => BootImagePos(images, k + c)[i] = k + BootImagePos(images, c)[i]
<1> DEFINE n == Len(images)
           X == [at : Seq(Nat), out : StreamType]
           base == [at |-> <<>>, out |-> At(c)]
           After(run, k) ==
             [at  |-> Append(run.at, run.out.sector),
              out |-> PadIfOpen(WriteBytes(run.out, images[k].size))]
           step == [x \in X \X (1 .. n) |-> After(x[1], x[2])]
           IsFold(h) == h = [u \in SUBSET (1 .. n) |->
                               IF u = {} THEN base ELSE After(h[u \ {Max(u)}], Max(u))]
           H    == CHOOSE h : IsFold(h)
           v    == ImageSectors(images)
           S(k) == SumOver(v, SubSeq(images, 1, k))
<1>1. n \in Nat
  BY DEF AreImages
<1>0. DOMAIN images = 1 .. n /\ \A k \in 1 .. n : images[k].size \in Nat /\ images[k] \in Range(images)
  BY DEF AreImages
<1>20. /\ S(0) = 0 /\ \A k \in 0 .. n : S(k) \in Nat
       /\ \A k \in 1 .. n : S(k) = S(k - 1) + BytesToSec(images[k].size)
  <2>1. \A k \in 1 .. n : v[images[k]] = BytesToSec(images[k].size) /\ v[images[k]] \in Nat
    BY <1>0, SectorsNat DEF ImageSectors
  <2>2. images \in Seq(Range(images))
    BY DEF AreImages
  <2> HIDE DEF v
  <2>3. \A k \in 1 .. n : v[images[k]] \in Int
    BY <2>1
  <2>4. S(0) = 0 /\ \A k \in 1 .. n : S(k) = S(k - 1) + v[images[k]]
    BY <2>2, <2>3, SumOverPrefixes
  <2>5. \A k \in 0 .. n : S(k) \in Nat
    BY <2>1, <2>2, PrefixLess
  <2> QED  BY <2>1, <2>4, <2>5
<1>21. \A k : BootImagePos(images, k) = [i \in 1 .. n |-> k + S(i - 1)]
  BY DEF BootImagePos
<1> HIDE DEF S, v
<1>2. \A r \in X, k \in 1 .. n : After(r, k) \in X
  <2> TAKE run \in X, k \in 1 .. n
  <2>1. run.at \in Seq(Nat) /\ run.out \in StreamType
    OBVIOUS
  <2>2. PadIfOpen(WriteBytes(run.out, images[k].size)) \in StreamType
    BY <1>0, <2>1, StreamTyped
  <2>3. Append(run.at, run.out.sector) \in Seq(Nat)
    BY <2>1 DEF StreamType
  <2> QED  BY <2>2, <2>3
<1>3. base \in X
  BY SectorSizeAssumption DEF At, StreamType
<1>4. WriteBootImages(At(c), images) = H[1 .. n]
  BY <1>0, <1>1 DEF WriteBootImages, FoldLeft, MapThenFoldSet
<1>5. step \in [X \X (1 .. n) -> X]
  <2> HIDE DEF X, After
  <2> QED  BY <1>2
<1>6. \E h : IsFold(h)
  <2> HIDE DEF X, After, base, n
  <2>1. PICK h \in [SUBSET (1 .. n) -> X] : Folds(h, n, base, step)
    <3> HIDE DEF step
    <3> QED  BY <1>1, <1>3, <1>5, FoldExists
  <2>2. \A u \in SUBSET (1 .. n) : u # {} =>
          step[<<h[u \ {Max(u)}], Max(u)>>] = After(h[u \ {Max(u)}], Max(u))
    <3> TAKE u \in SUBSET (1 .. n)
    <3> HAVE u # {}
    <3>1. u \in SUBSET (0 .. n)
      OBVIOUS
    <3>2. Max(u) \in 1 .. n
      BY <1>1, <3>1, MaxIsIn
    <3>3. h[u \ {Max(u)}] \in X
      OBVIOUS
    <3> QED  BY <3>2, <3>3
  <2> HIDE DEF step
  <2>3. IsFold(h)
    BY <2>1, <2>2 DEF Folds
  <2> QED  BY <2>3
<1>7. IsFold(H)
  <2> HIDE DEF IsFold
  <2> QED  BY <1>6
<1> HIDE DEF H, X, After, base, n
<1>8. H[1 .. 0] = base
  BY <1>1, <1>7, FirstPositions
<1>9. \A k \in 1 .. n : H[1 .. k] = After(H[1 .. k - 1], k)
  <2> TAKE k \in 1 .. n
  <2>1. 1 .. k \in SUBSET (1 .. n) /\ 1 .. k # {} /\ Max(1 .. k) = k /\ (1 .. k) \ {k} = 1 .. k - 1
    BY <1>1, FirstPositions
  <2> QED  BY <1>7, <2>1
<1> DEFINE Is(k) == /\ H[1 .. k].out = At(c + S(k))
                    /\ H[1 .. k].at \in Seq(Nat) /\ Len(H[1 .. k].at) = k
                    /\ \A i \in 1 .. k : H[1 .. k].at[i] = c + S(i - 1)
           T == {k \in 0 .. n : Is(k)}
<1>10. Is(0)
  <2>1. \A i \in 1 .. 0 : FALSE
    OBVIOUS
  <2>2. c + S(0) = c
    BY <1>20
  <2>3. base.at = <<>> /\ base.out = At(c) /\ <<>> \in Seq(Nat) /\ Len(<<>>) = 0
    BY DEF base
  <2>4. H[1 .. 0].at = <<>> /\ H[1 .. 0].out = At(c)
    BY <1>8, <2>3
  <2> QED  BY <2>1, <2>2, <2>3, <2>4
<1>11. \A k \in 0 .. n - 1 : Is(k) => Is(k + 1)
  <2> TAKE k \in 0 .. n - 1
  <2> HAVE Is(k)
  <2>1. k + 1 \in 1 .. n /\ (k + 1) - 1 = k /\ k \in 0 .. n /\ k \in Nat
    BY <1>1
  <2> DEFINE old == H[1 .. k]
             new == H[1 .. k + 1]
             z == images[k + 1].size
             a == old.at
             e == c + S(k)
             b == BytesToSec(z)
  <2>2. new = After(old, k + 1) /\ z \in Nat
    BY <1>0, <1>9, <2>1
  <2>3. a \in Seq(Nat) /\ Len(a) = k /\ old.out = At(e) /\ \A i \in 1 .. k : a[i] = c + S(i - 1)
    OBVIOUS
  <2>4. e \in Nat /\ e = c + S(k)
    BY <1>20, <2>1
  <2>8. b \in Nat /\ S(k + 1) = S(k) + b /\ S(k) \in Nat /\ b = BytesToSec(z)
    BY <1>20, <2>1, <2>2, SectorsNat
  <2> HIDE DEF old, new, z, a, e, b
  <2>5. new.at = Append(a, old.out.sector) /\ new.out = PadIfOpen(WriteBytes(old.out, z))
    BY <2>2 DEF After, a, z
  <2>6. old.out.sector = e
    BY <2>3 DEF At
  <2>7. new.out = At(e + b)
    BY <2>2, <2>3, <2>4, <2>5, <2>8, PaddedBytes
  <2>9. c + S(k + 1) = e + b
    BY <2>4, <2>8
  <2>10. /\ new.at \in Seq(Nat) /\ Len(new.at) = k + 1
         /\ \A i \in 1 .. k + 1 : new.at[i] = IF i = k + 1 THEN e ELSE a[i]
    BY <2>1, <2>3, <2>4, <2>5, <2>6
  <2>11. \A i \in 1 .. k + 1 : new.at[i] = c + S(i - 1)
    <3> TAKE i \in 1 .. k + 1
    <3>1. CASE i = k + 1
      BY <2>1, <2>4, <2>10, <3>1
    <3>2. CASE i # k + 1
      <4>1. i \in 1 .. k
        BY <2>1, <3>2
      <4> QED  BY <2>3, <2>10, <3>2, <4>1
    <3> QED  BY <3>1, <3>2
  <2>12. Is(k + 1)
    <3> USE DEF new
    <3> QED  BY <2>7, <2>9, <2>10, <2>11
  <2> QED  BY <2>12
<1>12. Is(n)
  <2> HIDE DEF Is
  <2>1. 0 \in T
    BY <1>1, <1>10
  <2>2. \A k \in 0 .. n - 1 : k \in T => k + 1 \in T
    <3> TAKE k \in 0 .. n - 1
    <3> HAVE k \in T
    <3>1. k + 1 \in 0 .. n
      BY <1>1
    <3> QED  BY <1>11, <3>1
  <2>3. 0 .. n \subseteq T
    <3> HIDE DEF T
    <3> QED  BY <1>1, <2>1, <2>2, UpTo
  <2>4. n \in 0 .. n
    BY <1>1
  <2> QED  BY <2>3, <2>4
<1>13. H[1 .. n].at = [i \in 1 .. n |-> c + S(i - 1)]
  <2> DEFINE a == H[1 .. n].at
  <2>1. a \in Seq(Nat) /\ Len(a) = n /\ \A i \in 1 .. n : a[i] = c + S(i - 1)
    BY <1>12
  <2> HIDE DEF a
  <2>2. DOMAIN a = 1 .. n /\ a = [i \in DOMAIN a |-> a[i]]
    BY <2>1
  <2>3. a = [i \in 1 .. n |-> c + S(i - 1)]
    BY <2>1, <2>2
  <2> QED  BY <2>3 DEF a
<1>14. \A k : DOMAIN BootImagePos(images, k) = 1 .. n /\ \A i \in 1 .. n : BootImagePos(images, k)[i] = k + S(i - 1)
  BY <1>21
<1>15. \A i \in 1 .. n : i - 1 \in 0 .. n
  BY <1>1
<1>16. ASSUME images # <<>> PROVE 1 \in 1 .. n /\ BootImagePos(images, c)[1] = c
  <2>1. n # 0
    BY <1>16 DEF n, AreImages
  <2>2. 1 \in 1 .. n /\ 1 - 1 = 0
    BY <1>1, <2>1
  <2> QED  BY <1>14, <1>20, <2>2
<1>17. ASSUME NEW k \in Nat, NEW i \in 1 .. n
       PROVE  BootImagePos(images, k + c)[i] = k + BootImagePos(images, c)[i]
  <2>1. S(i - 1) \in Nat
    BY <1>15, <1>20
  <2>2. BootImagePos(images, k + c)[i] = k + c + S(i - 1) /\ BootImagePos(images, c)[i] = c + S(i - 1)
    BY <1>14
  <2> HIDE DEF S
  <2> QED  BY <2>1, <2>2
<1> QED
  BY <1>4, <1>13, <1>14, <1>16, <1>17, <1>21 DEF n

(* Before the first round.                                                 *)
LEMMA TraceBegin ==
  ASSUME NEW t, IsTree(t), NEW max, NEW from \in Nat, NEW takes
  PROVE  \E q, a : Trace(q, a, 0, t, max, from, takes)
<1> DEFINE q == [i \in 0 .. 0 |-> RootStack]
           a == [i \in 0 .. 0 |-> from]
<1>1. RootStack \in StackOf(t)
  <2>1. Root \in Dirs(t)
    BY DEF IsTree
  <2> QED  BY <2>1 DEF RootStack, StackOf
<1>2. 0 \in 0 .. 0 /\ 1 .. 0 = {}
  OBVIOUS
<1>3. q[0] = RootStack /\ a[0] = from
  BY <1>2
<1>4. q \in [0 .. 0 -> StackOf(t)] /\ a \in [0 .. 0 -> Nat]
  BY <1>1
<1> HIDE DEF q, a
<1>5. Trace(q, a, 0, t, max, from, takes)
  BY <1>2, <1>3, <1>4 DEF Trace
<1> QED
  BY <1>3, <1>5

(* What is on the stack and in the counter before each round.              *)
Stacks(q, n, t) ==
  \A i \in 0 .. n :
    /\ q[i] \in StackOf(t)
    /\ q[i] # <<>> => /\ TopIn(q[i]) \in Dirs(t) /\ q[i][Len(q[i])][2] \in Nat
                      /\ q[i][Len(q[i])] \in Dirs(t) \X Nat
                      /\ q[i][Len(q[i])] = <<TopIn(q[i]), q[i][Len(q[i])][2]>>

Rounds(q, a, n, t, max, takes) ==
  \A i \in 0 .. n - 1 : /\ q[i] # <<>> /\ q[i + 1] = Pushes(q[i], t, max)
                        /\ a[i + 1] = a[i] + takes[q[i][Len(q[i])]]

(* The rounds of a pass, one after the other.                              *)
LEMMA TraceIs ==
  ASSUME NEW t, IsTree(t), NEW max, NEW from, NEW takes,
         NEW n \in Nat, NEW q, NEW a, Trace(q, a, n, t, max, from, takes)
  PROVE  Stacks(q, n, t) /\ Rounds(q, a, n, t, max, takes)
<1>1. \A i \in 0 .. n : q[i] \in StackOf(t) /\ a[i] \in Nat
  BY DEF Trace
<1>2. \A s \in StackOf(t) : s # <<>> =>
        /\ TopIn(s) \in Dirs(t) /\ s[Len(s)][2] \in Nat
        /\ s[Len(s)] \in Dirs(t) \X Nat /\ s[Len(s)] = <<TopIn(s), s[Len(s)][2]>>
  <2> SUFFICES ASSUME NEW s \in StackOf(t), s # <<>>
               PROVE  /\ TopIn(s) \in Dirs(t) /\ s[Len(s)][2] \in Nat
                      /\ s[Len(s)] \in Dirs(t) \X Nat /\ s[Len(s)] = <<TopIn(s), s[Len(s)][2]>>
    OBVIOUS
  <2>1. s[Len(s)] \in Dirs(t) \X Nat
    BY DEF StackOf
  <2> DEFINE x == s[Len(s)]
  <2>2. x[1] \in Dirs(t) /\ x[2] \in Nat /\ x = <<x[1], x[2]>>
    <3>1. x \in Dirs(t) \X Nat
      BY <2>1
    <3> HIDE DEF x
    <3> QED  BY <3>1
  <2> QED  BY <2>1, <2>2 DEF TopIn
<1>3. ASSUME NEW i \in 0 .. n - 1
      PROVE  /\ q[i] # <<>> /\ q[i + 1] = Pushes(q[i], t, max)
             /\ a[i + 1] = a[i] + takes[q[i][Len(q[i])]]
  <2>1. i + 1 \in 1 .. n /\ (i + 1) - 1 = i
    OBVIOUS
  <2> QED  BY <2>1 DEF Trace
<1> QED
  BY <1>1, <1>2, <1>3 DEF Stacks, Rounds

-----------------------------------------------------------------------------
(* The pass that reserves for the directories.                             *)

(* What calc_local_dir_entries_len leaves in the node of a directory.      *)
Reserves(f, t, p, d, level, at) ==
  /\ p[d].normal = at
  /\ p[d].joliet = at + CalcDirSectors(f, t, d, level, FALSE)
  /\ p[d].sizeN = CalcDirSectors(f, t, d, level, FALSE) * SectorSize

DirPass(f, t, p, n, q, a) ==
  /\ n \in Nat
  /\ Trace(q, a, n, t, GetMaxDirLevel(f), PassesStart(f, t), DirTakes(f, t))
  /\ \A i \in 0 .. n - 1 : Reserves(f, t, p, TopIn(q[i]), q[i][Len(q[i])][2], a[i])

(* So far, with w left on the stack and the next sector at s.              *)
DirsUpTo(f, t, p, w, s) == \E n, q, a : DirPass(f, t, p, n, q, a) /\ w = q[n] /\ s = a[n]

(* Nothing is reserved yet.                                                *)
LEMMA DirsBegin ==
  ASSUME NEW f, NEW t, IsTree(t), NEW p, PassesStart(f, t) \in Nat
  PROVE  DirsUpTo(f, t, p, RootStack, PassesStart(f, t))
<1> DEFINE max == GetMaxDirLevel(f)
           from == PassesStart(f, t)
           takes == DirTakes(f, t)
<1>1. from \in Nat /\ IsTree(t)
  OBVIOUS
<1> HIDE DEF max, from, takes
<1>2. PICK q, a : Trace(q, a, 0, t, max, from, takes)
  BY <1>1, TraceBegin
<1>3. DirPass(f, t, p, 0, q, a)
  <2>1. \A i \in 0 .. 0 - 1 : FALSE
    OBVIOUS
  <2> QED  BY <1>2, <2>1 DEF DirPass, max, from, takes
<1>4. RootStack = q[0] /\ from = a[0]
  BY <1>2 DEF Trace
<1>5. DirsUpTo(f, t, p, RootStack, from)
  BY <1>3, <1>4 DEF DirsUpTo
<1> QED
  BY <1>5 DEF from

(* One round: the places of the others stay.                               *)
LEMMA DirsStep ==
  ASSUME NEW f, NEW t, IsTree(t), DirTakes(f, t) \in [Dirs(t) \X Nat -> Nat],
         NEW p, NEW w, NEW s, DirsUpTo(f, t, p, w, s), w # <<>>,
         NEW v, \A x \in Dirs(t) : x # TopIn(w) => v[x] = p[x],
         Reserves(f, t, v, TopIn(w), w[Len(w)][2], s)
  PROVE  DirsUpTo(f, t, v, Pushes(w, t, GetMaxDirLevel(f)), s + DirTakes(f, t)[w[Len(w)]])
<1> DEFINE max == GetMaxDirLevel(f)
           from == PassesStart(f, t)
           takes == DirTakes(f, t)
<1>1. PICK n, q, a : DirPass(f, t, p, n, q, a) /\ w = q[n] /\ s = a[n]
  BY DEF DirsUpTo
<1>2. n \in Nat /\ Trace(q, a, n, t, max, from, takes) /\ q[n] # <<>>
  BY <1>1 DEF DirPass
<1>3. takes \in [Dirs(t) \X Nat -> Nat] /\ IsTree(t)
  OBVIOUS
<1> HIDE DEF max, from, takes
<1>4. PICK r, b : /\ Trace(r, b, n + 1, t, max, from, takes)
                  /\ Extends(r, b, q, a, n)
  BY <1>2, <1>3, TraceStep
<1>5. \A i \in 0 .. n : r[i] = q[i] /\ b[i] = a[i]
  BY <1>4 DEF Extends
<1>6. ASSUME NEW i \in 0 .. (n + 1) - 1
      PROVE  Reserves(f, t, v, TopIn(r[i]), r[i][Len(r[i])][2], b[i])
  <2>1. i \in 0 .. n /\ n \in 0 .. n /\ (i # n => i \in 0 .. n - 1)
    BY <1>2
  <2>2. r[i] = q[i] /\ b[i] = a[i]
    BY <1>5, <2>1
  <2>3. CASE i = n
    BY <1>1, <2>2, <2>3
  <2>4. CASE i # n
    <3>1. q[i] # <<>> /\ TopIn(q[i]) \in Dirs(t)
      <4>1. Stacks(q, n, t) /\ Rounds(q, a, n, t, max, takes)
        BY <1>2, <1>3, TraceIs
      <4> QED  BY <2>1, <2>4, <4>1 DEF Stacks, Rounds
    <3>2. TopIn(q[i]) # TopIn(q[n])
      <4>1. TopsApart(q, n)
        BY <1>2, TopsDiffer
      <4> QED  BY <1>2, <2>1, <2>4, <3>1, <4>1 DEF TopsApart
    <3>3. v[TopIn(q[i])] = p[TopIn(q[i])]
      BY <1>1, <3>1, <3>2
    <3>4. Reserves(f, t, p, TopIn(q[i]), q[i][Len(q[i])][2], a[i])
      BY <1>1, <2>1, <2>4 DEF DirPass
    <3> QED  BY <2>2, <3>3, <3>4 DEF Reserves
  <2> QED  BY <2>3, <2>4
<1>7. DirPass(f, t, v, n + 1, r, b)
  <2>1. n + 1 \in Nat
    BY <1>2
  <2> QED  BY <1>4, <1>6, <2>1 DEF DirPass, max, from, takes
<1>8. Pushes(w, t, max) = r[n + 1] /\ s + takes[w[Len(w)]] = b[n + 1]
  <2>1. n + 1 \in Nat /\ n \in 0 .. (n + 1) - 1 /\ n \in 0 .. n
    BY <1>2
  <2>2. Rounds(r, b, n + 1, t, max, takes)
    BY <1>3, <1>4, <2>1, TraceIs
  <2>3. r[n] = w /\ b[n] = s
    BY <1>1, <1>5, <2>1
  <2> QED  BY <2>1, <2>2, <2>3 DEF Rounds
<1>9. DirsUpTo(f, t, v, Pushes(w, t, max), s + takes[w[Len(w)]])
  BY <1>7, <1>8 DEF DirsUpTo
<1> QED
  BY <1>9 DEF max, takes

(* What the pass reserved stays when the files get their places.           *)
LEMMA DirsStay ==
  ASSUME NEW f, NEW t, IsTree(t), NEW p, NEW w, NEW s, DirsUpTo(f, t, p, w, s),
         NEW v, \A x \in Dirs(t) : v[x] = p[x]
  PROVE  DirsUpTo(f, t, v, w, s)
<1>1. PICK n, q, a : DirPass(f, t, p, n, q, a) /\ w = q[n] /\ s = a[n]
  BY DEF DirsUpTo
<1>2. /\ n \in Nat
      /\ Trace(q, a, n, t, GetMaxDirLevel(f), PassesStart(f, t), DirTakes(f, t))
  BY <1>1 DEF DirPass
<1>0. IsTree(t)
  OBVIOUS
<1>3. ASSUME NEW i \in 0 .. n - 1
      PROVE  Reserves(f, t, v, TopIn(q[i]), q[i][Len(q[i])][2], a[i])
  <2>1. TopIn(q[i]) \in Dirs(t)
    <3>1. Stacks(q, n, t) /\ Rounds(q, a, n, t, GetMaxDirLevel(f), DirTakes(f, t))
      BY <1>0, <1>2, TraceIs
    <3>2. i \in 0 .. n
      BY <1>2
    <3> QED  BY <3>1, <3>2 DEF Stacks, Rounds
  <2> QED  BY <1>1, <2>1 DEF DirPass, Reserves
<1>4. DirPass(f, t, v, n, q, a)
  BY <1>2, <1>3 DEF DirPass
<1> QED
  BY <1>1, <1>4 DEF DirsUpTo

(* There is room for it.                                                   *)
LEMMA DirsBounded ==
  ASSUME NEW f, NEW t, NamedTree(t), IsFiniteSet(Dirs(t)), AreImages(f.images), Regular(f, t),
         IsIso(f), NEW most, Bounds(f, t, most),
         NEW p, NEW w, NEW s, DirsUpTo(f, t, p, w, s)
  PROVE  /\ s \in Nat /\ s >= PassesStart(f, t)
         /\ s <= PassesStart(f, t) + most * Cardinality(Dirs(t))
<1> DEFINE max == GetMaxDirLevel(f)
           from == PassesStart(f, t)
           takes == DirTakes(f, t)
<1>1. PICK n, q, a : DirPass(f, t, p, n, q, a) /\ w = q[n] /\ s = a[n]
  BY DEF DirsUpTo
<1>2. n \in Nat /\ Trace(q, a, n, t, max, from, takes)
  BY <1>1 DEF DirPass
<1>3. most \in Nat /\ \A d \in Dirs(t) : DirNeeds(t, d) <= most
  BY DEF Bounds
<1>4. takes \in [Dirs(t) \X Nat -> Nat] /\ \A x \in Dirs(t) \X Nat : takes[x] <= most
  BY <1>3, TakesBounded
<1>5. from \in Nat /\ IsTree(t)
  BY StartsNat DEF NamedTree
<1> HIDE DEF max, from, takes
<1>6. /\ a[n] <= from + most * Cardinality(Dirs(t))
      /\ \A i \in 0 .. n : a[i] \in Nat /\ a[i] >= from
  BY <1>2, <1>3, <1>4, <1>5, TraceBound
<1>7. n \in 0 .. n
  BY <1>2
<1> QED
  BY <1>1, <1>6, <1>7 DEF from

-----------------------------------------------------------------------------
(* The pass that gives the files their places.                             *)

(* The files that are in the image at all: those that are not TooLarge.    *)
Kept(f, t) ==
  {n \in Files(t) : ~(/\ t.size[n] > MaxExtent /\ ~AllowsFragmentation(f)
                      /\ IsIso(f) /\ ~IsUdf(f))}

(* What calc_local_filesys_data leaves in the files of a directory.        *)
HasPlaces(f, t, p, d, at) ==
  \A j \in 1 .. Len(t.kids[d]) : t.kids[d][j] \in Kept(f, t) =>
    p[t.kids[d][j]].normal = at + Ahead(t, Kept(f, t), d, j - 1)

FilePass(f, t, p, n, q, b, first) ==
  /\ n \in Nat
  /\ Trace(q, b, n, t, GetMaxDirLevel(f), first, FileTakes(t, Kept(f, t)))
  /\ \A i \in 0 .. n - 1 : HasPlaces(f, t, p, TopIn(q[i]), b[i])

(* So far, with w left on the stack and the next sector at s.              *)
FilesUpTo(f, t, p, first, w, s) ==
  \E n, q, b : FilePass(f, t, p, n, q, b, first) /\ w = q[n] /\ s = b[n]

(* Nothing has its place yet.                                              *)
LEMMA FilesBegin ==
  ASSUME NEW f, NEW t, IsTree(t), NEW p, NEW first \in Nat
  PROVE  FilesUpTo(f, t, p, first, RootStack, first)
<1> DEFINE max == GetMaxDirLevel(f)
           takes == FileTakes(t, Kept(f, t))
<1>1. IsTree(t)
  OBVIOUS
<1> HIDE DEF max, takes
<1>2. PICK q, b : Trace(q, b, 0, t, max, first, takes)
  BY <1>1, TraceBegin
<1>3. FilePass(f, t, p, 0, q, b, first)
  <2>1. \A i \in 0 .. 0 - 1 : FALSE
    OBVIOUS
  <2> QED  BY <1>2, <2>1 DEF FilePass, max, takes
<1>4. RootStack = q[0] /\ first = b[0]
  BY <1>2 DEF Trace
<1> QED
  BY <1>3, <1>4 DEF FilesUpTo

(* A file is in one directory.                                             *)
LEMMA OneParent ==
  ASSUME NEW t, IsTree(t), NEW d \in Dirs(t), NEW e \in Dirs(t), d # e,
         NEW j \in 1 .. Len(t.kids[d])
  PROVE  t.kids[d][j] \notin Range(t.kids[e]) /\ t.kids[d][j] \in Nodes(t) \ {Root}
<1>1. t.kids[d] \in Seq(Nodes(t) \ {Root}) /\ t.kids[e] \in Seq(Nodes(t) \ {Root})
  BY DEF IsTree
<1>2. \A i \in DOMAIN t.kids[d], k \in DOMAIN t.kids[e] : t.kids[d][i] = t.kids[e][k] => d = e /\ i = k
  BY DEF IsTree
<1> DEFINE a == t.kids[d]
           b == t.kids[e]
<1>3. a \in Seq(Nodes(t) \ {Root}) /\ b \in Seq(Nodes(t) \ {Root}) /\ j \in 1 .. Len(a)
      /\ \A i \in DOMAIN a, k \in DOMAIN b : a[i] # b[k]
  BY <1>1, <1>2
<1> HIDE DEF a, b
<1>4. j \in DOMAIN a /\ a[j] \in Nodes(t) \ {Root}
  BY <1>3
<1>5. a[j] \notin Range(b)
  BY <1>3, <1>4 DEF Range
<1> QED
  BY <1>4, <1>5 DEF a, b

(* One round: the places of what is in other directories stay.             *)
LEMMA FilesStep ==
  ASSUME NEW f, NEW t, IsTree(t), FileTakes(t, Kept(f, t)) \in [Dirs(t) \X Nat -> Nat],
         NEW p, NEW first, NEW w, NEW s, FilesUpTo(f, t, p, first, w, s), w # <<>>,
         NEW v, \A x \in Nodes(t) : x \notin Range(t.kids[TopIn(w)]) => v[x] = p[x],
         HasPlaces(f, t, v, TopIn(w), s)
  PROVE  FilesUpTo(f, t, v, first, Pushes(w, t, GetMaxDirLevel(f)),
                   s + FileTakes(t, Kept(f, t))[w[Len(w)]])
<1> DEFINE max == GetMaxDirLevel(f)
           takes == FileTakes(t, Kept(f, t))
<1>1. PICK n, q, b : FilePass(f, t, p, n, q, b, first) /\ w = q[n] /\ s = b[n]
  BY DEF FilesUpTo
<1>2. n \in Nat /\ Trace(q, b, n, t, max, first, takes) /\ q[n] # <<>>
  BY <1>1 DEF FilePass
<1>3. takes \in [Dirs(t) \X Nat -> Nat] /\ IsTree(t)
  OBVIOUS
<1> HIDE DEF max, takes
<1>4. PICK r, c : /\ Trace(r, c, n + 1, t, max, first, takes)
                  /\ Extends(r, c, q, b, n)
  BY <1>2, <1>3, TraceStep
<1>5. \A i \in 0 .. n : r[i] = q[i] /\ c[i] = b[i]
  BY <1>4 DEF Extends
<1>6. ASSUME NEW i \in 0 .. (n + 1) - 1
      PROVE  HasPlaces(f, t, v, TopIn(r[i]), c[i])
  <2>1. i \in 0 .. n /\ n \in 0 .. n /\ (i # n => i \in 0 .. n - 1)
    BY <1>2
  <2>2. r[i] = q[i] /\ c[i] = b[i]
    BY <1>5, <2>1
  <2>3. CASE i = n
    BY <1>1, <2>2, <2>3
  <2>4. CASE i # n
    <3>1. q[i] # <<>> /\ TopIn(q[i]) \in Dirs(t) /\ TopIn(q[n]) \in Dirs(t)
      <4>1. Stacks(q, n, t) /\ Rounds(q, b, n, t, max, takes)
        BY <1>2, <1>3, TraceIs
      <4> QED  BY <1>2, <2>1, <2>4, <4>1 DEF Stacks, Rounds
    <3>2. TopIn(q[i]) # TopIn(q[n])
      <4>1. TopsApart(q, n)
        BY <1>2, TopsDiffer
      <4> QED  BY <1>2, <2>1, <2>4, <3>1, <4>1 DEF TopsApart
    <3> DEFINE d == TopIn(q[i])
    <3>3. ASSUME NEW j \in 1 .. Len(t.kids[d]) PROVE v[t.kids[d][j]] = p[t.kids[d][j]]
      <4>1. t.kids[d][j] \notin Range(t.kids[TopIn(q[n])]) /\ t.kids[d][j] \in Nodes(t)
        BY <1>3, <3>1, <3>2, OneParent
      <4> QED  BY <1>1, <4>1
    <3>4. HasPlaces(f, t, p, d, b[i])
      BY <1>1, <2>1, <2>4 DEF FilePass
    <3> QED  BY <2>2, <3>3, <3>4 DEF HasPlaces
  <2> QED  BY <2>3, <2>4
<1>7. FilePass(f, t, v, n + 1, r, c, first)
  <2>1. n + 1 \in Nat
    BY <1>2
  <2> QED  BY <1>4, <1>6, <2>1 DEF FilePass, max, takes
<1>8. Pushes(w, t, max) = r[n + 1] /\ s + takes[w[Len(w)]] = c[n + 1]
  <2>1. n + 1 \in Nat /\ n \in 0 .. (n + 1) - 1 /\ n \in 0 .. n
    BY <1>2
  <2>2. Rounds(r, c, n + 1, t, max, takes)
    BY <1>3, <1>4, <2>1, TraceIs
  <2>3. r[n] = w /\ c[n] = s
    BY <1>1, <1>5, <2>1
  <2> QED  BY <2>1, <2>2, <2>3 DEF Rounds
<1>9. FilesUpTo(f, t, v, first, Pushes(w, t, max), s + takes[w[Len(w)]])
  BY <1>7, <1>8 DEF FilesUpTo
<1> QED
  BY <1>9 DEF max, takes

(* There is room for them, behind the directories.                         *)
LEMMA FilesFit ==
  ASSUME NEW f, NEW t, NamedTree(t), IsFiniteSet(Dirs(t)), Regular(f, t),
         NEW most, Bounds(f, t, most), NEW first \in Nat,
         NEW p, NEW w, NEW s, FilesUpTo(f, t, p, first, w, s)
  PROVE  s \in Nat /\ s >= first /\ s <= first + most * Cardinality(Dirs(t))
<1> DEFINE max == GetMaxDirLevel(f)
           takes == FileTakes(t, Kept(f, t))
<1>1. PICK n, q, b : FilePass(f, t, p, n, q, b, first) /\ w = q[n] /\ s = b[n]
  BY DEF FilesUpTo
<1>2. n \in Nat /\ Trace(q, b, n, t, max, first, takes)
  BY <1>1 DEF FilePass
<1>3. most \in Nat /\ \A d \in Dirs(t) : DirNeeds(t, d) <= most
  BY DEF Bounds
<1>4. takes \in [Dirs(t) \X Nat -> Nat] /\ \A x \in Dirs(t) \X Nat : takes[x] <= most
  <2>1. Kept(f, t) \in SUBSET Files(t)
    BY DEF Kept
  <2> QED  BY <1>3, <2>1, TakesBounded
<1>5. IsTree(t)
  BY DEF NamedTree
<1> HIDE DEF max, takes
<1>6. /\ b[n] <= first + most * Cardinality(Dirs(t))
      /\ \A i \in 0 .. n : b[i] \in Nat /\ b[i] >= first
  BY <1>2, <1>3, <1>4, <1>5, TraceBound
<1>7. n \in 0 .. n
  BY <1>2
<1> QED
  BY <1>1, <1>6, <1>7

-----------------------------------------------------------------------------
(* The passes that write, on what the passes that reserve left.            *)

(* The inputs in question, all of what is known of them.                   *)
Sound(f, t) ==
  /\ NamedTree(t) /\ IsFiniteSet(Dirs(t)) /\ AreImages(f.images) /\ Regular(f, t)
  /\ \E most : Bounds(f, t, most)

(* The next byte goes to the beginning of a sector of the image.           *)
StreamAt(s, at) == at \in Nat /\ at >= 16 /\ s = At(at - 16)

(* The counters of both passes, behind the structures before them.         *)
LEMMA PassesNat ==
  ASSUME NEW f, NEW t, Sound(f, t)
  PROVE  /\ IsTree(t) /\ PassesStart(f, t) \in Nat /\ PassesStart(f, t) >= 16
         /\ FileTakes(t, Kept(f, t)) \in [Dirs(t) \X Nat -> Nat]
         /\ IsIso(f) => DirTakes(f, t) \in [Dirs(t) \X Nat -> Nat]
         /\ \A p, n, q, a : IsIso(f) /\ DirPass(f, t, p, n, q, a) =>
              \A i \in 0 .. n : a[i] \in Nat /\ a[i] >= 16
         /\ \A p, n, q, b, first : first \in Nat /\ first >= 16 /\ FilePass(f, t, p, n, q, b, first) =>
              \A i \in 0 .. n : b[i] \in Nat /\ b[i] >= first
<1>1. PICK most : Bounds(f, t, most)
  BY DEF Sound
<1>2. most \in Nat /\ \A d \in Dirs(t) : DirNeeds(t, d) <= most
  BY <1>1 DEF Bounds
<1>3. NamedTree(t) /\ IsFiniteSet(Dirs(t)) /\ AreImages(f.images) /\ Regular(f, t)
  BY DEF Sound
<1>4. IsTree(t)
  BY <1>3 DEF NamedTree
<1>5. PassesStart(f, t) \in Nat /\ PassesStart(f, t) >= 16
  BY <1>3, StartsNat
<1>6. Kept(f, t) \in SUBSET Files(t)
  BY DEF Kept
<1> DEFINE ft == FileTakes(t, Kept(f, t))
           dt == DirTakes(f, t)
<1>7. /\ ft \in [Dirs(t) \X Nat -> Nat] /\ \A x \in Dirs(t) \X Nat : ft[x] <= most
      /\ IsIso(f) => dt \in [Dirs(t) \X Nat -> Nat] /\ \A x \in Dirs(t) \X Nat : dt[x] <= most
  BY <1>2, <1>3, <1>6, TakesBounded
<1> HIDE DEF ft, dt
<1>8. ASSUME NEW p, NEW n, NEW q, NEW a, IsIso(f), DirPass(f, t, p, n, q, a)
      PROVE  \A i \in 0 .. n : a[i] \in Nat /\ a[i] >= 16
  <2> DEFINE from == PassesStart(f, t)
             max == GetMaxDirLevel(f)
  <2>1. n \in Nat /\ Trace(q, a, n, t, max, from, dt)
    BY <1>8 DEF DirPass, dt
  <2>2. from \in Nat /\ from >= 16
    BY <1>5
  <2> HIDE DEF from, max
  <2>3. dt \in [Dirs(t) \X Nat -> Nat] /\ \A x \in Dirs(t) \X Nat : dt[x] <= most
    BY <1>7, <1>8
  <2>4. \A i \in 0 .. n : a[i] \in Nat /\ a[i] >= from
    BY <1>2, <1>3, <1>4, <2>1, <2>2, <2>3, TraceBound
  <2> QED  BY <2>2, <2>4
<1>9. ASSUME NEW p, NEW n, NEW q, NEW b, NEW first, first \in Nat, first >= 16,
             FilePass(f, t, p, n, q, b, first)
      PROVE  \A i \in 0 .. n : b[i] \in Nat /\ b[i] >= first
  <2> DEFINE max == GetMaxDirLevel(f)
  <2>1. n \in Nat /\ Trace(q, b, n, t, max, first, ft)
    BY <1>9 DEF FilePass, ft
  <2> HIDE DEF max
  <2>2. ft \in [Dirs(t) \X Nat -> Nat] /\ \A x \in Dirs(t) \X Nat : ft[x] <= most
    BY <1>7
  <2>3. first \in Nat
    BY <1>9
  <2> QED  BY <1>2, <1>3, <1>4, <2>1, <2>2, <2>3, TraceBound
<1> QED
  BY <1>4, <1>5, <1>7, <1>8, <1>9 DEF ft, dt

(* The directories are written up to those on the stack; the files follow  *)
(* at first.                                                               *)
DirsAt(f, t, p, first, w, s) ==
  \E n, q, a : /\ DirPass(f, t, p, n, q, a) /\ q[n] = <<>> /\ a[n] = first
               /\ \E i \in 0 .. n : w = q[i] /\ StreamAt(s, a[i])

(* The root is written where the pass that reserved began.                 *)
LEMMA DirsAtBegin ==
  ASSUME NEW f, NEW t, Sound(f, t), IsIso(f), NEW p, NEW first, DirsUpTo(f, t, p, <<>>, first),
         NEW s, StreamAt(s, PassesStart(f, t))
  PROVE  DirsAt(f, t, p, first, RootStack, s)
<1>1. PICK n, q, a : DirPass(f, t, p, n, q, a) /\ <<>> = q[n] /\ first = a[n]
  BY DEF DirsUpTo
<1>2. n \in Nat /\ q[0] = RootStack /\ a[0] = PassesStart(f, t)
  BY <1>1 DEF DirPass, Trace
<1>3. 0 \in 0 .. n /\ StreamAt(s, a[0])
  BY <1>2
<1> QED
  BY <1>1, <1>2, <1>3 DEF DirsAt

(* The next directory is where it was reserved, and the one after it       *)
(* behind what was reserved for it.                                        *)
DirIsHere(f, t, p, first, w, s, at) ==
  /\ StreamAt(s, at)
  /\ TopIn(w) \in Dirs(t) /\ w[Len(w)][2] \in Nat
  /\ Reserves(f, t, p, TopIn(w), w[Len(w)][2], at)
  /\ TopIn(w) = Root => at = PassesStart(f, t)
  /\ at + DirTakes(f, t)[<<TopIn(w), w[Len(w)][2]>>] >= 16
  /\ \A v : StreamAt(v, at + DirTakes(f, t)[<<TopIn(w), w[Len(w)][2]>>]) =>
       DirsAt(f, t, p, first, Pushes(w, t, GetMaxDirLevel(f)), v)

(* The next round of the pass over the directories.                        *)
LEMMA DirsAtRound ==
  ASSUME NEW f, NEW t, Sound(f, t), IsIso(f), NEW p, NEW first, NEW w, NEW s,
         DirsAt(f, t, p, first, w, s), w # <<>>
  PROVE  \E at : DirIsHere(f, t, p, first, w, s, at)
<1> DEFINE max == GetMaxDirLevel(f)
           from == PassesStart(f, t)
           takes == DirTakes(f, t)
<1>1. PICK n, q, a : /\ DirPass(f, t, p, n, q, a) /\ q[n] = <<>> /\ a[n] = first
                     /\ \E i \in 0 .. n : w = q[i] /\ StreamAt(s, a[i])
  BY DEF DirsAt
<1>2. PICK i \in 0 .. n : w = q[i] /\ StreamAt(s, a[i])
  BY <1>1
<1>3. n \in Nat /\ Trace(q, a, n, t, max, from, takes)
  BY <1>1 DEF DirPass
<1>4. IsTree(t) /\ \A j \in 0 .. n : a[j] \in Nat /\ a[j] >= 16
  BY <1>1, PassesNat
<1> HIDE DEF max, from, takes
<1>5. i \in 0 .. n - 1 /\ i + 1 \in 0 .. n /\ 0 \in 0 .. n
  <2>1. i # n
    BY <1>1, <1>2
  <2> QED  BY <1>3, <2>1
<1>6. Stacks(q, n, t) /\ Rounds(q, a, n, t, max, takes)
  BY <1>3, <1>4, TraceIs
<1>7. TopIn(w) \in Dirs(t) /\ w[Len(w)][2] \in Nat /\ w[Len(w)] = <<TopIn(w), w[Len(w)][2]>>
  BY <1>2, <1>6 DEF Stacks
<1>8. q[i + 1] = Pushes(w, t, max) /\ a[i + 1] = a[i] + takes[<<TopIn(w), w[Len(w)][2]>>]
  BY <1>2, <1>5, <1>6, <1>7 DEF Rounds
<1>9. Reserves(f, t, p, TopIn(w), w[Len(w)][2], a[i])
  BY <1>1, <1>2, <1>5 DEF DirPass
<1>10. TopIn(w) = Root => a[i] = from
  <2> SUFFICES ASSUME TopIn(w) = Root PROVE a[i] = from
    OBVIOUS
  <2>1. TopsApart(q, n)
    <3>1. IsTree(t)
      BY <1>4
    <3> QED  BY <1>3, <3>1, TopsDiffer
  <2>2. q[0] = RootStack /\ a[0] = from
    BY <1>3 DEF Trace
  <2>3. RootStack # <<>> /\ TopIn(RootStack) = Root
    BY DEF RootStack, TopIn
  <2>4. i = 0
    BY <1>2, <1>5, <2>1, <2>2, <2>3 DEF TopsApart
  <2> QED  BY <2>2, <2>4
<1>11. ASSUME NEW v, StreamAt(v, a[i + 1])
       PROVE  DirsAt(f, t, p, first, Pushes(w, t, max), v)
  BY <1>1, <1>5, <1>8, <1>11 DEF DirsAt
<1>12. a[i + 1] >= 16
  BY <1>4, <1>5
<1>13. DirIsHere(f, t, p, first, w, s, a[i])
  BY <1>2, <1>7, <1>8, <1>9, <1>10, <1>11, <1>12 DEF DirIsHere, max, from, takes
<1> QED
  BY <1>13

(* Behind the last directory the files begin.                              *)
LEMMA DirsAtEnd ==
  ASSUME NEW f, NEW t, Sound(f, t), IsIso(f), NEW p, NEW first, NEW s,
         DirsAt(f, t, p, first, <<>>, s)
  PROVE  StreamAt(s, first)
<1>1. PICK n, q, a : /\ DirPass(f, t, p, n, q, a) /\ q[n] = <<>> /\ a[n] = first
                     /\ \E i \in 0 .. n : <<>> = q[i] /\ StreamAt(s, a[i])
  BY DEF DirsAt
<1>2. PICK i \in 0 .. n : <<>> = q[i] /\ StreamAt(s, a[i])
  BY <1>1
<1>3. n \in Nat /\ Trace(q, a, n, t, GetMaxDirLevel(f), PassesStart(f, t), DirTakes(f, t))
  BY <1>1 DEF DirPass
<1>4. IsTree(t)
  BY PassesNat
<1>5. Rounds(q, a, n, t, GetMaxDirLevel(f), DirTakes(f, t))
  BY <1>3, <1>4, TraceIs
<1>6. i = n
  <2>1. i \in 0 .. n - 1 \/ i = n
    BY <1>3
  <2> QED  BY <1>2, <1>5, <2>1 DEF Rounds
<1> QED
  BY <1>1, <1>2, <1>6

(* The first k children of a directory that are in the image are where     *)
(* their nodes say.                                                        *)
StoredUpTo(f, t, p, data, d, k) ==
  \A j \in 1 .. k : t.kids[d][j] \in Kept(f, t) => data[t.kids[d][j]] = p[t.kids[d][j]].normal

(* Inside a directory: before its child k + 1.                             *)
InDir(f, t, p, data, stack, at, w, c, s) ==
  /\ stack # <<>>
  /\ \E k \in 0 .. Len(t.kids[TopIn(stack)]) :
       /\ c = <<TopIn(stack), stack[Len(stack)][2], k + 1>>
       /\ w = PushedUpTo(stack, t, GetMaxDirLevel(f), k)
       /\ StreamAt(s, at + Ahead(t, Kept(f, t), TopIn(stack), k))
       /\ StoredUpTo(f, t, p, data, TopIn(stack), k)

(* The files are stored up to the directories on the stack and the place   *)
(* in the one that is open.                                                *)
FilesAt(f, t, p, data, first, last, w, c, s) ==
  \E n, q, b :
    /\ FilePass(f, t, p, n, q, b, first) /\ q[n] = <<>> /\ b[n] = last
    /\ \E i \in 0 .. n :
         /\ \A j \in 0 .. i - 1 : StoredUpTo(f, t, p, data, TopIn(q[j]), Len(t.kids[TopIn(q[j])]))
         /\ \/ c = <<>> /\ w = q[i] /\ StreamAt(s, b[i])
            \/ InDir(f, t, p, data, q[i], b[i], w, c, s)

(* All are stored.                                                         *)
AllStored(f, t, p, data, first, last) ==
  \E n, q, b :
    /\ FilePass(f, t, p, n, q, b, first) /\ q[n] = <<>> /\ b[n] = last
    /\ \A j \in 0 .. n - 1 : StoredUpTo(f, t, p, data, TopIn(q[j]), Len(t.kids[TopIn(q[j])]))

(* The first file comes behind what is before it.                          *)
LEMMA FilesAtBegin ==
  ASSUME NEW f, NEW t, NEW p, NEW data, NEW first, NEW last,
         FilesUpTo(f, t, p, first, <<>>, last), NEW s, StreamAt(s, first)
  PROVE  FilesAt(f, t, p, data, first, last, RootStack, <<>>, s)
<1>1. PICK n, q, b : FilePass(f, t, p, n, q, b, first) /\ <<>> = q[n] /\ last = b[n]
  BY DEF FilesUpTo
<1>2. n \in Nat /\ q[0] = RootStack /\ b[0] = first
  BY <1>1 DEF FilePass, Trace
<1>3. 0 \in 0 .. n /\ StreamAt(s, b[0]) /\ \A j \in 0 .. 0 - 1 : FALSE
  BY <1>2
<1> QED
  BY <1>1, <1>2, <1>3 DEF FilesAt

(* A directory is opened.                                                  *)
LEMMA FilesAtOpen ==
  ASSUME NEW f, NEW t, Sound(f, t), NEW p, NEW data, NEW first, NEW last, NEW w, NEW s,
         FilesAt(f, t, p, data, first, last, w, <<>>, s), w # <<>>
  PROVE  FilesAt(f, t, p, data, first, last, Front(w), <<w[Len(w)][1], w[Len(w)][2], 1>>, s)
<1> DEFINE max == GetMaxDirLevel(f)
<1>1. PICK n, q, b :
        /\ FilePass(f, t, p, n, q, b, first) /\ q[n] = <<>> /\ b[n] = last
        /\ \E i \in 0 .. n :
             /\ \A j \in 0 .. i - 1 : StoredUpTo(f, t, p, data, TopIn(q[j]), Len(t.kids[TopIn(q[j])]))
             /\ \/ <<>> = <<>> /\ w = q[i] /\ StreamAt(s, b[i])
                \/ InDir(f, t, p, data, q[i], b[i], w, <<>>, s)
  BY DEF FilesAt
<1>2. PICK i \in 0 .. n :
        /\ \A j \in 0 .. i - 1 : StoredUpTo(f, t, p, data, TopIn(q[j]), Len(t.kids[TopIn(q[j])]))
        /\ \/ <<>> = <<>> /\ w = q[i] /\ StreamAt(s, b[i])
           \/ InDir(f, t, p, data, q[i], b[i], w, <<>>, s)
  BY <1>1
<1>3. w = q[i] /\ StreamAt(s, b[i])
  <2>1. \A x, y, z : <<>> # <<x, y, z>>
    OBVIOUS
  <2> QED  BY <1>2, <2>1 DEF InDir
<1>4. n \in Nat /\ Trace(q, b, n, t, max, first, FileTakes(t, Kept(f, t)))
  BY <1>1 DEF FilePass
<1>5. IsTree(t) /\ NamedTree(t)
  BY DEF Sound, NamedTree
<1> HIDE DEF max
<1>6. Stacks(q, n, t)
  BY <1>4, <1>5, TraceIs
<1>7. w \in StackOf(t) /\ TopIn(w) \in Dirs(t)
  BY <1>3, <1>6 DEF Stacks
<1>8. PushedUpTo(w, t, max, 0) = Front(w)
  BY <1>5, <1>7, PushedSteps
<1>9. Len(t.kids[TopIn(w)]) \in Nat /\ Ahead(t, Kept(f, t), TopIn(w), 0) = 0
  <2>1. Kept(f, t) \in SUBSET Files(t)
    BY DEF Kept
  <2> QED  BY <1>5, <1>7, <2>1, KidsOf, AheadSteps
<1>10. StreamAt(s, b[i] + Ahead(t, Kept(f, t), TopIn(w), 0))
  <2>1. b[i] \in Nat
    BY <1>3 DEF StreamAt
  <2>2. b[i] + Ahead(t, Kept(f, t), TopIn(w), 0) = b[i]
    BY <1>9, <2>1
  <2> QED  BY <1>3, <2>2
<1>11. StoredUpTo(f, t, p, data, TopIn(w), 0)
  <2>1. \A j \in 1 .. 0 : FALSE
    OBVIOUS
  <2> QED  BY <2>1 DEF StoredUpTo
<1>12. InDir(f, t, p, data, q[i], b[i], Front(w), <<w[Len(w)][1], w[Len(w)][2], 1>>, s)
  <2>1. 0 \in 0 .. Len(t.kids[TopIn(w)]) /\ 0 + 1 = 1
    BY <1>9
  <2>2. InDir(f, t, p, data, w, b[i], Front(w), <<TopIn(w), w[Len(w)][2], 0 + 1>>, s)
    BY <1>8, <1>10, <1>11, <2>1 DEF InDir, max
  <2> QED  BY <1>3, <2>1, <2>2 DEF TopIn
<1> QED
  BY <1>1, <1>2, <1>12 DEF FilesAt

(* The open directory.                                                     *)
LEMMA FilesAtInDir ==
  ASSUME NEW f, NEW t, NEW p, NEW data, NEW first, NEW last, NEW w, NEW c, NEW s,
         FilesAt(f, t, p, data, first, last, w, c, s), c # <<>>
  PROVE  \E n, q, b :
           /\ FilePass(f, t, p, n, q, b, first) /\ q[n] = <<>> /\ b[n] = last
           /\ \E i \in 0 .. n :
                /\ \A j \in 0 .. i - 1 :
                     StoredUpTo(f, t, p, data, TopIn(q[j]), Len(t.kids[TopIn(q[j])]))
                /\ InDir(f, t, p, data, q[i], b[i], w, c, s)
BY DEF FilesAt

(* The other files stay.                                                   *)
OthersStay(f, t, data2, data, child) == \A x \in Kept(f, t) : x # child => data2[x] = data[x]

(* The next child.  data2 is where the files are afterwards, v the stream.  *)
LEMMA InDirNext ==
  ASSUME NEW f, NEW t, Sound(f, t), NEW p, NEW data, NEW stack \in StackOf(t), NEW at \in Nat,
         NEW w, NEW c, NEW s, InDir(f, t, p, data, stack, at, w, c, s),
         c[3] <= Len(t.kids[c[1]]), NEW child, child = t.kids[c[1]][c[3]],
         NEW w2, w2 = IF c[2] > GetMaxDirLevel(f) \/ child \notin Dirs(t) THEN w
                      ELSE Append(w, <<child, c[2] + 1>>),
         NEW data2, OthersStay(f, t, data2, data, child),
         child \in Kept(f, t) => data2[child] = p[child].normal,
         NEW here, StreamAt(s, here), NEW v, StreamAt(v, here + Weights(t, Kept(f, t))[child])
  PROVE  InDir(f, t, p, data2, stack, at, w2, <<c[1], c[2], c[3] + 1>>, v)
<1> DEFINE max == GetMaxDirLevel(f)
           S == Kept(f, t)
           d == TopIn(stack)
           level == stack[Len(stack)][2]
           kids == t.kids[d]
<1>1. PICK k \in 0 .. Len(kids) :
        /\ c = <<d, level, k + 1>>
        /\ w = PushedUpTo(stack, t, max, k)
        /\ StreamAt(s, at + Ahead(t, S, d, k))
        /\ StoredUpTo(f, t, p, data, d, k)
  BY DEF InDir
<1>2. stack # <<>>
  BY DEF InDir
<1>3. c[1] = d /\ c[2] = level /\ c[3] = k + 1
  <2> HIDE DEF d, level
  <2> QED  BY <1>1
<1>4. IsTree(t) /\ NamedTree(t) /\ S \in SUBSET Files(t)
  BY DEF Sound, NamedTree, Kept
<1>5. d \in Dirs(t)
  BY <1>2, <1>4, PushesIs
<1>6. Len(kids) \in Nat /\ kids \in Seq(Nodes(t)) /\ \A i \in 1 .. Len(kids) : kids[i] \in Nodes(t)
  <2> HIDE DEF d
  <2> QED  BY <1>4, <1>5, KidsOf
<1>7. k + 1 \in 1 .. Len(kids) /\ (k + 1) - 1 = k /\ child = kids[k + 1] /\ k \in Nat
      /\ k + 1 \in 0 .. Len(kids)
  <2> HIDE DEF d, level
  <2>1. k + 1 <= Len(kids) /\ child = kids[k + 1]
    BY <1>3
  <2> HIDE DEF kids
  <2> QED  BY <1>6, <2>1
<1>8. w2 = PushedUpTo(stack, t, max, k + 1)
  <2>1. \A j \in 1 .. Len(kids) :
          PushedUpTo(stack, t, max, j) =
            IF level > max \/ kids[j] \notin Dirs(t) THEN PushedUpTo(stack, t, max, j - 1)
            ELSE Append(PushedUpTo(stack, t, max, j - 1), <<kids[j], level + 1>>)
    <3> HIDE DEF max
    <3> QED  BY <1>2, <1>4, PushedSteps
  <2>2. w2 = IF level > max \/ child \notin Dirs(t) THEN w ELSE Append(w, <<child, level + 1>>)
    <3> HIDE DEF d, level, kids, max
    <3>1. w2 = IF c[2] > max \/ child \notin Dirs(t) THEN w ELSE Append(w, <<child, c[2] + 1>>)
      BY DEF max
    <3> QED  BY <1>3, <3>1
  <2> HIDE DEF d, level, kids, max
  <2> QED  BY <1>1, <1>7, <2>1, <2>2
<1>9. Ahead(t, S, d, k + 1) = Ahead(t, S, d, k) + Weights(t, S)[child]
      /\ Ahead(t, S, d, k) \in Nat /\ Weights(t, S)[child] \in Nat
  <2>1. Weights(t, S)[child] \in Nat
    <3>1. child \in Nodes(t)
      BY <1>6, <1>7
    <3> HIDE DEF S
    <3> QED  BY <1>4, <3>1, WeightsNat
  <2>2. Ahead(t, S, d, k + 1) = Ahead(t, S, d, (k + 1) - 1) + Weights(t, S)[t.kids[d][k + 1]]
        /\ Ahead(t, S, d, k) \in Nat
    <3> HIDE DEF S, d
    <3> QED  BY <1>4, <1>5, <1>7, AheadSteps
  <2> HIDE DEF S, d
  <2> QED  BY <1>7, <2>1, <2>2
<1>10. here = at + Ahead(t, S, d, k)
  <2> DEFINE x == at + Ahead(t, S, d, k)
  <2>1. StreamAt(s, x)
    BY <1>1
  <2> HIDE DEF x
  <2>2. At(here - 16).sector = At(x - 16).sector /\ here \in Nat /\ x \in Nat
    BY <2>1 DEF StreamAt
  <2>3. here - 16 = x - 16
    BY <2>2 DEF At
  <2>4. here = x
    BY <2>2, <2>3
  <2> QED  BY <2>4 DEF x
<1>11. StreamAt(v, at + Ahead(t, S, d, k + 1))
  <2> DEFINE e == Weights(t, S)[child]
             x == Ahead(t, S, d, k)
  <2>1. here + e = at + Ahead(t, S, d, k + 1)
    <3>1. here = at + x /\ x \in Nat /\ e \in Nat /\ Ahead(t, S, d, k + 1) = x + e
      BY <1>9, <1>10
    <3> HIDE DEF e, x, d, S
    <3> QED  BY <3>1
  <2>2. StreamAt(v, here + e)
    OBVIOUS
  <2> HIDE DEF e
  <2> QED  BY <2>1, <2>2
<1>12. StoredUpTo(f, t, p, data2, d, k + 1)
  <2>1. ASSUME NEW j \in 1 .. k + 1, kids[j] \in S
        PROVE  data2[kids[j]] = p[kids[j]].normal
    <3>1. CASE kids[j] = child
      BY <2>1, <3>1
    <3>2. CASE kids[j] # child
      <4>1. j \in 1 .. k
        BY <1>7, <3>2
      <4>2. data[kids[j]] = p[kids[j]].normal
        BY <1>1, <2>1, <4>1 DEF StoredUpTo
      <4> QED  BY <2>1, <3>2, <4>2 DEF OthersStay
    <3> QED  BY <3>1, <3>2
  <2> QED  BY <2>1 DEF StoredUpTo
<1>13. <<c[1], c[2], c[3] + 1>> = <<d, level, (k + 1) + 1>>
  BY <1>3
<1> QED
  BY <1>2, <1>7, <1>8, <1>11, <1>12, <1>13 DEF InDir

(* The child is stored where its place is.                                 *)
LEMMA InDirPlace ==
  ASSUME NEW f, NEW t, Sound(f, t), NEW p, NEW data, NEW stack \in StackOf(t), NEW at \in Nat,
         NEW w, NEW c, NEW s, InDir(f, t, p, data, stack, at, w, c, s),
         HasPlaces(f, t, p, TopIn(stack), at),
         c[3] <= Len(t.kids[c[1]]), NEW child, child = t.kids[c[1]][c[3]]
  PROVE  /\ \E here : StreamAt(s, here)
         /\ child \in Kept(f, t) => StreamAt(s, p[child].normal)
<1> DEFINE S == Kept(f, t)
           d == TopIn(stack)
           level == stack[Len(stack)][2]
           kids == t.kids[d]
<1>1. PICK k \in 0 .. Len(kids) :
        /\ c = <<d, level, k + 1>>
        /\ w = PushedUpTo(stack, t, GetMaxDirLevel(f), k)
        /\ StreamAt(s, at + Ahead(t, S, d, k))
        /\ StoredUpTo(f, t, p, data, d, k)
  BY DEF InDir
<1>3. c[1] = d /\ c[2] = level /\ c[3] = k + 1
  <2> HIDE DEF d, level
  <2> QED  BY <1>1
<1>5. d \in Dirs(t)
  BY PushesIs DEF Sound, NamedTree, InDir
<1>6. Len(kids) \in Nat
  <2> HIDE DEF d
  <2> QED  BY <1>5, KidsOf DEF Sound, NamedTree
<1>7. k + 1 \in 1 .. Len(kids) /\ (k + 1) - 1 = k /\ child = kids[k + 1]
  <2> HIDE DEF d, level
  <2>1. k + 1 <= Len(kids) /\ child = kids[k + 1]
    BY <1>3
  <2> HIDE DEF kids
  <2> QED  BY <1>6, <2>1
<1>8. child \in S => p[child].normal = at + Ahead(t, S, d, k)
  <2>1. \A j \in 1 .. Len(kids) : kids[j] \in S => p[kids[j]].normal = at + Ahead(t, S, d, j - 1)
    BY DEF HasPlaces
  <2> HIDE DEF S, d, kids
  <2> QED  BY <1>7, <2>1
<1> QED
  BY <1>1, <1>8

(* The open directory is one of those the pass goes through.               *)
IsOpen(f, t, p, n, q, b, i) ==
  /\ n \in Nat /\ i \in 0 .. n - 1 /\ i + 1 \in 0 .. n
  /\ q[i] \in StackOf(t) /\ TopIn(q[i]) \in Dirs(t) /\ b[i] \in Nat /\ b[i + 1] \in Nat
  /\ HasPlaces(f, t, p, TopIn(q[i]), b[i])
  /\ Rounds(q, b, n, t, GetMaxDirLevel(f), FileTakes(t, Kept(f, t)))
  /\ q[i][Len(q[i])] \in Dirs(t) \X Nat

(* The stack of an open directory is that of one of the rounds.            *)
LEMMA OpenIs ==
  ASSUME NEW f, NEW t, Sound(f, t), NEW p, NEW first \in Nat, first >= 16,
         NEW n, NEW q, NEW b, FilePass(f, t, p, n, q, b, first), q[n] = <<>>,
         NEW i \in 0 .. n, q[i] # <<>>
  PROVE  IsOpen(f, t, p, n, q, b, i)
<1>1. n \in Nat /\ Trace(q, b, n, t, GetMaxDirLevel(f), first, FileTakes(t, Kept(f, t)))
  BY DEF FilePass
<1>2. i \in 0 .. n - 1 /\ i + 1 \in 0 .. n
  <2>1. i # n
    OBVIOUS
  <2> QED  BY <1>1, <2>1
<1>3. IsTree(t)
  BY DEF Sound, NamedTree
<1>4. Stacks(q, n, t) /\ Rounds(q, b, n, t, GetMaxDirLevel(f), FileTakes(t, Kept(f, t)))
  BY <1>1, <1>3, TraceIs
<1>5. \A j \in 0 .. n : b[j] \in Nat
  BY <1>1 DEF Trace
<1> QED
  BY <1>1, <1>2, <1>4, <1>5 DEF Stacks, FilePass, IsOpen

(* The next child is stored where its place is.                            *)
LEMMA FilesAtPlace ==
  ASSUME NEW f, NEW t, Sound(f, t), NEW p, NEW data, NEW first \in Nat, first >= 16, NEW last,
         NEW w, NEW c, NEW s, FilesAt(f, t, p, data, first, last, w, c, s), c # <<>>,
         c[3] <= Len(t.kids[c[1]]), NEW child, child = t.kids[c[1]][c[3]]
  PROVE  /\ \E here : StreamAt(s, here)
         /\ child \in Kept(f, t) => StreamAt(s, p[child].normal)
<1>1. PICK n, q, b :
        /\ FilePass(f, t, p, n, q, b, first) /\ q[n] = <<>> /\ b[n] = last
        /\ \E i \in 0 .. n :
             /\ \A j \in 0 .. i - 1 : StoredUpTo(f, t, p, data, TopIn(q[j]), Len(t.kids[TopIn(q[j])]))
             /\ InDir(f, t, p, data, q[i], b[i], w, c, s)
  BY FilesAtInDir
<1>2. PICK i \in 0 .. n : InDir(f, t, p, data, q[i], b[i], w, c, s)
  BY <1>1
<1>3. q[i] # <<>>
  BY <1>2 DEF InDir
<1>4. q[i] \in StackOf(t) /\ b[i] \in Nat /\ HasPlaces(f, t, p, TopIn(q[i]), b[i])
  <2>1. FilePass(f, t, p, n, q, b, first) /\ q[n] = <<>> /\ q[i] # <<>> /\ i \in 0 .. n
    BY <1>1, <1>3
  <2>2. IsOpen(f, t, p, n, q, b, i)
    BY <2>1, OpenIs
  <2> QED  BY <2>2 DEF IsOpen
<1> DEFINE stack == q[i]
           at == b[i]
<1>5. stack \in StackOf(t) /\ at \in Nat /\ HasPlaces(f, t, p, TopIn(stack), at)
      /\ InDir(f, t, p, data, stack, at, w, c, s)
  BY <1>2, <1>4
<1> HIDE DEF stack, at
<1> QED
  BY <1>5, InDirPlace

(* What follows it.                                                        *)
LEMMA FilesAtNext ==
  ASSUME NEW f, NEW t, Sound(f, t), NEW p, NEW data, NEW first \in Nat, first >= 16, NEW last,
         NEW w, NEW c, NEW s, FilesAt(f, t, p, data, first, last, w, c, s), c # <<>>,
         c[3] <= Len(t.kids[c[1]]), NEW child, child = t.kids[c[1]][c[3]],
         NEW w2, w2 = IF c[2] > GetMaxDirLevel(f) \/ child \notin Dirs(t) THEN w
                      ELSE Append(w, <<child, c[2] + 1>>),
         NEW data2, OthersStay(f, t, data2, data, child),
         child \in Kept(f, t) => data2[child] = p[child].normal,
         NEW here, StreamAt(s, here), NEW v, StreamAt(v, here + Weights(t, Kept(f, t))[child])
  PROVE  FilesAt(f, t, p, data2, first, last, w2, <<c[1], c[2], c[3] + 1>>, v)
<1>1. PICK n, q, b :
        /\ FilePass(f, t, p, n, q, b, first) /\ q[n] = <<>> /\ b[n] = last
        /\ \E i \in 0 .. n :
             /\ \A j \in 0 .. i - 1 : StoredUpTo(f, t, p, data, TopIn(q[j]), Len(t.kids[TopIn(q[j])]))
             /\ InDir(f, t, p, data, q[i], b[i], w, c, s)
  BY FilesAtInDir
<1>2. PICK i \in 0 .. n :
        /\ \A j \in 0 .. i - 1 : StoredUpTo(f, t, p, data, TopIn(q[j]), Len(t.kids[TopIn(q[j])]))
        /\ InDir(f, t, p, data, q[i], b[i], w, c, s)
  BY <1>1
<1>3. q[i] # <<>>
  BY <1>2 DEF InDir
<1>4. q[i] \in StackOf(t) /\ b[i] \in Nat
  <2>1. FilePass(f, t, p, n, q, b, first) /\ q[n] = <<>> /\ q[i] # <<>> /\ i \in 0 .. n
    BY <1>1, <1>3
  <2>2. IsOpen(f, t, p, n, q, b, i)
    BY <2>1, OpenIs
  <2> QED  BY <2>2 DEF IsOpen
<1> DEFINE stack == q[i]
           at == b[i]
           c2 == <<c[1], c[2], c[3] + 1>>
<1>5. stack \in StackOf(t) /\ at \in Nat /\ InDir(f, t, p, data, stack, at, w, c, s)
  BY <1>2, <1>4
<1>6. InDir(f, t, p, data2, q[i], b[i], w2, c2, v)
  <2> HIDE DEF stack, at
  <2>1. InDir(f, t, p, data2, stack, at, w2, <<c[1], c[2], c[3] + 1>>, v)
    BY <1>5, InDirNext
  <2> QED  BY <2>1 DEF stack, at
<1>7. ASSUME NEW j \in 0 .. i - 1
      PROVE  StoredUpTo(f, t, p, data2, TopIn(q[j]), Len(t.kids[TopIn(q[j])]))
  <2> DEFINE d == TopIn(q[j])
  <2>1. StoredUpTo(f, t, p, data, d, Len(t.kids[d]))
    BY <1>2
  <2> HIDE DEF d
  <2>2. \A x \in Kept(f, t) : data[x] = p[x].normal => data2[x] = p[x].normal
    BY DEF OthersStay
  <2>3. StoredUpTo(f, t, p, data2, d, Len(t.kids[d]))
    BY <2>1, <2>2 DEF StoredUpTo
  <2> QED  BY <2>3 DEF d
<1> HIDE DEF c2
<1>8. FilesAt(f, t, p, data2, first, last, w2, c2, v)
  BY <1>1, <1>6, <1>7 DEF FilesAt
<1> QED
  BY <1>8 DEF c2

(* The open directory is left behind its last child.                       *)
LEMMA FilesAtClose ==
  ASSUME NEW f, NEW t, Sound(f, t), NEW p, NEW data, NEW first \in Nat, first >= 16, NEW last,
         NEW w, NEW c, NEW s, FilesAt(f, t, p, data, first, last, w, c, s), c # <<>>,
         ~(c[3] <= Len(t.kids[c[1]]))
  PROVE  FilesAt(f, t, p, data, first, last, w, <<>>, s)
<1> DEFINE max == GetMaxDirLevel(f)
           S == Kept(f, t)
<1>1. PICK n, q, b :
        /\ FilePass(f, t, p, n, q, b, first) /\ q[n] = <<>> /\ b[n] = last
        /\ \E i \in 0 .. n :
             /\ \A j \in 0 .. i - 1 : StoredUpTo(f, t, p, data, TopIn(q[j]), Len(t.kids[TopIn(q[j])]))
             /\ InDir(f, t, p, data, q[i], b[i], w, c, s)
  BY FilesAtInDir
<1>2. PICK i \in 0 .. n :
        /\ \A j \in 0 .. i - 1 : StoredUpTo(f, t, p, data, TopIn(q[j]), Len(t.kids[TopIn(q[j])]))
        /\ InDir(f, t, p, data, q[i], b[i], w, c, s)
  BY <1>1
<1>3. q[i] # <<>>
  BY <1>2 DEF InDir
<1> DEFINE stack == q[i]
           d == TopIn(stack)
           level == stack[Len(stack)][2]
           kids == t.kids[d]
<1>4. /\ n \in Nat /\ i \in 0 .. n - 1 /\ i + 1 \in 0 .. n
      /\ stack \in StackOf(t) /\ d \in Dirs(t) /\ b[i] \in Nat /\ b[i + 1] \in Nat
      /\ Rounds(q, b, n, t, max, FileTakes(t, S)) /\ stack[Len(stack)] \in Dirs(t) \X Nat
  <2>1. FilePass(f, t, p, n, q, b, first) /\ q[n] = <<>> /\ q[i] # <<>> /\ i \in 0 .. n
    BY <1>1, <1>3
  <2>2. IsOpen(f, t, p, n, q, b, i)
    BY <2>1, OpenIs
  <2> QED  BY <2>2 DEF IsOpen
<1>5. PICK k \in 0 .. Len(kids) :
        /\ c = <<d, level, k + 1>>
        /\ w = PushedUpTo(stack, t, max, k)
        /\ StreamAt(s, b[i] + Ahead(t, S, d, k))
        /\ StoredUpTo(f, t, p, data, d, k)
  BY <1>2 DEF InDir
<1>6. c[1] = d /\ c[3] = k + 1
  <2> HIDE DEF d, level
  <2> QED  BY <1>5
<1>7. Len(kids) \in Nat /\ IsTree(t)
  <2>1. IsTree(t)
    BY DEF Sound, NamedTree
  <2> HIDE DEF d
  <2> QED  BY <1>4, <2>1, KidsOf
<1>8. k = Len(kids)
  <2> HIDE DEF d, level
  <2>1. ~(k + 1 <= Len(kids))
    BY <1>6
  <2> HIDE DEF kids
  <2> QED  BY <1>7, <2>1
<1>9. w = q[i + 1]
  <2>1. PushedUpTo(stack, t, max, Len(kids)) = Pushes(stack, t, max)
    <3> HIDE DEF max
    <3> QED  BY <1>3, <1>4, <1>7, PushedSteps
  <2>2. q[i + 1] = Pushes(stack, t, max)
    BY <1>4 DEF Rounds
  <2> HIDE DEF max, stack, kids
  <2> QED  BY <1>5, <1>8, <2>1, <2>2
<1>10. b[i + 1] = b[i] + Ahead(t, S, d, k)
  <2>1. b[i + 1] = b[i] + FileTakes(t, S)[stack[Len(stack)]]
    BY <1>4 DEF Rounds
  <2>2. FileTakes(t, S)[stack[Len(stack)]] = Ahead(t, S, d, Len(kids))
    BY <1>4 DEF FileTakes, TopIn
  <2> HIDE DEF S, d, stack, kids
  <2> QED  BY <1>8, <2>1, <2>2
<1>11. StreamAt(s, b[i + 1])
  <2> HIDE DEF S, d
  <2> QED  BY <1>5, <1>10
<1>12. ASSUME NEW j \in 0 .. (i + 1) - 1
       PROVE  StoredUpTo(f, t, p, data, TopIn(q[j]), Len(t.kids[TopIn(q[j])]))
  <2>1. j \in 0 .. i - 1 \/ j = i
    BY <1>4
  <2>2. StoredUpTo(f, t, p, data, d, Len(t.kids[d]))
    BY <1>5, <1>8
  <2> QED  BY <1>2, <2>1, <2>2
<1> QED
  BY <1>1, <1>4, <1>9, <1>11, <1>12 DEF FilesAt

(* Behind the last directory everything is stored.                         *)
LEMMA FilesAtEnd ==
  ASSUME NEW f, NEW t, Sound(f, t), NEW p, NEW data, NEW first \in Nat, first >= 16, NEW last,
         NEW s, FilesAt(f, t, p, data, first, last, <<>>, <<>>, s)
  PROVE  AllStored(f, t, p, data, first, last) /\ StreamAt(s, last)
<1>1. PICK n, q, b :
        /\ FilePass(f, t, p, n, q, b, first) /\ q[n] = <<>> /\ b[n] = last
        /\ \E i \in 0 .. n :
             /\ \A j \in 0 .. i - 1 : StoredUpTo(f, t, p, data, TopIn(q[j]), Len(t.kids[TopIn(q[j])]))
             /\ \/ <<>> = <<>> /\ <<>> = q[i] /\ StreamAt(s, b[i])
                \/ InDir(f, t, p, data, q[i], b[i], <<>>, <<>>, s)
  BY DEF FilesAt
<1>2. PICK i \in 0 .. n :
        /\ \A j \in 0 .. i - 1 : StoredUpTo(f, t, p, data, TopIn(q[j]), Len(t.kids[TopIn(q[j])]))
        /\ \/ <<>> = <<>> /\ <<>> = q[i] /\ StreamAt(s, b[i])
           \/ InDir(f, t, p, data, q[i], b[i], <<>>, <<>>, s)
  BY <1>1
<1>3. <<>> = q[i] /\ StreamAt(s, b[i])
  <2>1. \A x, y, z : <<>> # <<x, y, z>>
    OBVIOUS
  <2> QED  BY <1>2, <2>1 DEF InDir
<1>4. n \in Nat /\ Trace(q, b, n, t, GetMaxDirLevel(f), first, FileTakes(t, Kept(f, t)))
  BY <1>1 DEF FilePass
<1>5. IsTree(t)
  BY DEF Sound, NamedTree
<1>6. Rounds(q, b, n, t, GetMaxDirLevel(f), FileTakes(t, Kept(f, t)))
  BY <1>4, <1>5, TraceIs
<1>7. i = n
  <2>1. i \in 0 .. n - 1 \/ i = n
    BY <1>4
  <2> QED  BY <1>3, <1>6, <2>1 DEF Rounds
<1> QED
  BY <1>1, <1>2, <1>3, <1>7 DEF AllStored

-----------------------------------------------------------------------------
(* Levels, and what a pass over the tree reaches.                          *)

(* Every node but the root is in one directory.                            *)
LEMMA ParentKnown ==
  ASSUME NEW t, IsTree(t), NEW n \in Nodes(t) \ {Root}
  PROVE  /\ Parent(t, n) \in Dirs(t) /\ n \in Range(t.kids[Parent(t, n)])
         /\ \A d \in Dirs(t) : n \in Range(t.kids[d]) => d = Parent(t, n)
<1>1. \E d \in Dirs(t) : n \in Range(t.kids[d])
  BY DEF IsTree
<1>2. Parent(t, n) \in Dirs(t) /\ n \in Range(t.kids[Parent(t, n)])
  BY <1>1 DEF Parent
<1>3. ASSUME NEW d \in Dirs(t), n \in Range(t.kids[d])
      PROVE  d = Parent(t, n)
  <2> DEFINE e == Parent(t, n)
  <2>1. e \in Dirs(t) /\ n \in Range(t.kids[e])
    BY <1>2
  <2> HIDE DEF e
  <2>2. PICK i \in DOMAIN t.kids[d], j \in DOMAIN t.kids[e] : n = t.kids[d][i] /\ n = t.kids[e][j]
    BY <1>3, <2>1 DEF Range
  <2>3. d = e
    BY <2>1, <2>2 DEF IsTree
  <2> QED  BY <2>3 DEF e
<1> QED
  BY <1>2, <1>3

(* Where directories are left out of something, one of them is in a        *)
(* directory that is not.                                                  *)
LEMMA OutsideIn ==
  ASSUME NEW t, IsTree(t), IsFiniteSet(Dirs(t)), NEW S \in SUBSET Dirs(t), S # {}, Root \notin S
  PROVE  \E d \in S : Parent(t, d) \in Dirs(t) \ S
<1> SUFFICES ASSUME \A d \in S : Parent(t, d) \notin Dirs(t) \ S PROVE FALSE
  OBVIOUS
<1> DEFINE Upward == {T \in SUBSET S : T # {} /\ \A d \in T : Parent(t, d) \in T}
           Sizes  == {Cardinality(T) : T \in Upward}
<1>1. \A d \in S : /\ d \in Nodes(t) \ {Root} /\ Parent(t, d) \in S
                   /\ d \in Range(t.kids[Parent(t, d)]) /\ Parent(t, d) \in Dirs(t)
  <2> TAKE d \in S
  <2>1. d \in Nodes(t) \ {Root}
    BY DEF Nodes
  <2>2. Parent(t, d) \in Dirs(t) /\ d \in Range(t.kids[Parent(t, d)])
    BY <2>1, ParentKnown
  <2> QED  BY <2>1, <2>2
<1>2. \A T \in Upward : IsFiniteSet(T) /\ Cardinality(T) \in Nat
  BY FS_Subset, FS_CardinalityType
<1>3. S \in Upward
  BY <1>1
<1>4. Sizes \in SUBSET Nat /\ Sizes # {}
  <2> HIDE DEF Upward
  <2> QED  BY <1>2, <1>3
<1>5. \E k \in Sizes : \A l \in Sizes : k <= l
  <2> HIDE DEF Sizes
  <2> QED  BY <1>4, MinIsIn
<1>6. PICK T \in Upward : \A U \in Upward : Cardinality(T) <= Cardinality(U)
  BY <1>5
<1>7. T \in SUBSET Dirs(t) /\ T # {} /\ T \subseteq S /\ \A d \in T : Parent(t, d) \in T
  OBVIOUS
<1>8. PICK d \in T : Range(t.kids[d]) \cap T = {}
  BY <1>7 DEF IsTree
<1> DEFINE U == T \ {d}
<1>9. U \in Upward
  <2>1. \A e \in T : Parent(t, e) # d
    BY <1>1, <1>7, <1>8
  <2>2. Parent(t, d) \in U
    BY <1>7, <2>1
  <2>3. \A e \in U : Parent(t, e) \in U
    BY <1>7, <2>1
  <2> QED  BY <1>7, <2>2, <2>3
<1>10. Cardinality(U) = Cardinality(T) - 1 /\ Cardinality(T) \in Nat
  <2> HIDE DEF Upward
  <2> QED  BY <1>2, <1>8, FS_RemoveElement
<1> HIDE DEF U, Upward
<1> QED
  BY <1>6, <1>9, <1>10

(* The levels of some directories that are all below one another.          *)
LevelsOf(t, S, lv) ==
  /\ Root \in S /\ lv \in [S -> Nat] /\ lv[Root] = 1
  /\ \A d \in S \ {Root} : Parent(t, d) \in S /\ lv[d] = lv[Parent(t, d)] + 1

(* One directory more.                                                     *)
LEMMA LevelsExtend ==
  ASSUME NEW t, NEW S, NEW lv, LevelsOf(t, S, lv), NEW d, d \notin S, Parent(t, d) \in S
  PROVE  \E h : LevelsOf(t, S \cup {d}, h)
<1> DEFINE h == [e \in S \cup {d} |-> IF e = d THEN lv[Parent(t, d)] + 1 ELSE lv[e]]
<1>1. Root \in S /\ lv \in [S -> Nat] /\ lv[Root] = 1
      /\ \A e \in S \ {Root} : Parent(t, e) \in S /\ lv[e] = lv[Parent(t, e)] + 1
  BY DEF LevelsOf
<1>2. h \in [S \cup {d} -> Nat] /\ h[d] = lv[Parent(t, d)] + 1 /\ \A e \in S : h[e] = lv[e]
  BY <1>1
<1> HIDE DEF h
<1>3. LevelsOf(t, S \cup {d}, h)
  BY <1>1, <1>2 DEF LevelsOf
<1> QED
  BY <1>3

(* Every directory has one.                                                *)
LEMMA LevelsExist ==
  ASSUME NEW t, IsTree(t), IsFiniteSet(Dirs(t))
  PROVE  \E lv : LevelsOf(t, Dirs(t), lv)
<1> DEFINE Good  == {S \in SUBSET Dirs(t) : \E lv : LevelsOf(t, S, lv)}
           Sizes == {Cardinality(S) : S \in Good}
           n     == Cardinality(Dirs(t))
<1>1. n \in Nat /\ \A S \in SUBSET Dirs(t) : IsFiniteSet(S) /\ Cardinality(S) \in 0 .. n
  BY FS_Subset, FS_CardinalityType
<1>2. {Root} \in Good
  <2> DEFINE lv == [e \in {Root} |-> 1]
  <2>1. lv \in [{Root} -> Nat] /\ lv[Root] = 1
    OBVIOUS
  <2> HIDE DEF lv
  <2>2. LevelsOf(t, {Root}, lv)
    BY <2>1 DEF LevelsOf
  <2> QED  BY <2>2 DEF IsTree
<1>3. Sizes \in SUBSET (0 .. n) /\ Sizes # {}
  <2> HIDE DEF n
  <2> QED  BY <1>1, <1>2
<1> HIDE DEF Good
<1>4. Max(Sizes) \in Sizes /\ \A k \in Sizes : k <= Max(Sizes)
  <2> HIDE DEF Sizes, n
  <2> QED  BY <1>1, <1>3, MaxIsIn
<1>5. PICK S \in Good : \A T \in Good : Cardinality(T) <= Cardinality(S)
  BY <1>4
<1>6. S \in SUBSET Dirs(t) /\ \E lv : LevelsOf(t, S, lv)
  BY DEF Good
<1>7. ASSUME S # Dirs(t) PROVE FALSE
  <2> DEFINE Out == Dirs(t) \ S
  <2>1. Out \in SUBSET Dirs(t) /\ Out # {} /\ Root \notin Out
    BY <1>6, <1>7 DEF LevelsOf
  <2>2. PICK d \in Out : Parent(t, d) \in Dirs(t) \ Out
    <3> HIDE DEF Out
    <3> QED  BY <2>1, OutsideIn
  <2>3. d \notin S /\ d \in Dirs(t) /\ Parent(t, d) \in S
    BY <2>2
  <2>4. \E lv : LevelsOf(t, S \cup {d}, lv)
    BY <1>6, <2>3, LevelsExtend
  <2>5. S \cup {d} \in Good
    BY <1>6, <2>3, <2>4 DEF Good
  <2>6. Cardinality(S \cup {d}) = Cardinality(S) + 1 /\ Cardinality(S) \in Nat
    BY <1>1, <1>6, <2>3, FS_AddElement
  <2>7. Cardinality(S \cup {d}) <= Cardinality(S)
    BY <1>5, <2>5
  <2> QED  BY <2>6, <2>7
<1> QED
  BY <1>6, <1>7

(* level() gives them: the root is 1, and every node one more than the     *)
(* directory it is in.                                                     *)
LEMMA LevelIs ==
  ASSUME NEW t, IsTree(t), IsFiniteSet(Dirs(t))
  PROVE  /\ \A d \in Dirs(t) : Level(t)[d] \in Nat
         /\ Level(t)[Root] = 1
         /\ \A d \in Dirs(t) : d # Root => Level(t)[d] = Level(t)[Parent(t, d)] + 1
<1> DEFINE IsLv(g) == g = [n \in Nodes(t) |-> IF n = Root THEN 1 ELSE g[Parent(t, n)] + 1]
           lv == CHOOSE g : IsLv(g)
<1>1. Level(t) = lv
  BY DEF Level
<1>2. PICK some : LevelsOf(t, Dirs(t), some)
  BY LevelsExist
<1>3. /\ Root \in Dirs(t) /\ some \in [Dirs(t) -> Nat] /\ some[Root] = 1
      /\ \A d \in Dirs(t) \ {Root} : Parent(t, d) \in Dirs(t) /\ some[d] = some[Parent(t, d)] + 1
  BY <1>2 DEF LevelsOf
<1> DEFINE g == [n \in Nodes(t) |-> IF n = Root THEN 1 ELSE some[Parent(t, n)] + 1]
<1>4. \A n \in Nodes(t) \ {Root} : Parent(t, n) \in Dirs(t)
  BY ParentKnown
<1>5. \A d \in Dirs(t) : d \in Nodes(t) /\ g[d] = some[d]
  <2> TAKE d \in Dirs(t)
  <2>1. d \in Nodes(t)
    BY DEF Nodes
  <2> QED  BY <1>3, <2>1
<1>6. IsLv(g)
  <2>1. \A n \in Nodes(t) : n # Root => g[Parent(t, n)] = some[Parent(t, n)]
    <3> HIDE DEF g
    <3> QED  BY <1>4, <1>5
  <2> DEFINE h == [n \in Nodes(t) |-> IF n = Root THEN 1 ELSE g[Parent(t, n)] + 1]
  <2>2. \A n \in Nodes(t) : g[n] = h[n]
    <3> TAKE n \in Nodes(t)
    <3>1. g[n] = IF n = Root THEN 1 ELSE some[Parent(t, n)] + 1
      OBVIOUS
    <3>2. h[n] = IF n = Root THEN 1 ELSE g[Parent(t, n)] + 1
      OBVIOUS
    <3> HIDE DEF g, h
    <3> QED  BY <2>1, <3>1, <3>2
  <2>3. DOMAIN g = Nodes(t) /\ DOMAIN h = Nodes(t) /\ g = [n \in Nodes(t) |-> g[n]] /\ h = [n \in Nodes(t) |-> h[n]]
    OBVIOUS
  <2>4. g = h
    <3> HIDE DEF g, h
    <3> QED  BY <2>2, <2>3
  <2> QED  BY <2>4
<1>7. IsLv(lv)
  <2> HIDE DEF IsLv, g
  <2> QED  BY <1>6
<1> HIDE DEF lv, g
<1>8. lv[Root] = 1 /\ \A d \in Dirs(t) : d # Root => lv[d] = lv[Parent(t, d)] + 1
  BY <1>3, <1>5, <1>7
<1>9. \A d \in Dirs(t) : lv[d] = some[d]
  <2> DEFINE Out == {d \in Dirs(t) : lv[d] # some[d]}
  <2> SUFFICES ASSUME Out # {} PROVE FALSE
    OBVIOUS
  <2>1. Out \in SUBSET Dirs(t) /\ Root \notin Out
    BY <1>3, <1>8
  <2>2. PICK d \in Out : Parent(t, d) \in Dirs(t) \ Out
    <3> HIDE DEF Out
    <3> QED  BY <2>1, OutsideIn
  <2>3. lv[Parent(t, d)] = some[Parent(t, d)] /\ d # Root /\ d \in Dirs(t) /\ lv[d] # some[d]
    BY <2>1, <2>2
  <2> QED  BY <1>3, <1>8, <2>3
<1> QED
  BY <1>1, <1>3, <1>8, <1>9

-----------------------------------------------------------------------------
(* What the passes take in all, and the pieces of a file.                  *)

(* The level on the stack is that of what is in the directory.             *)
Leveled(s, t) == \A p \in 1 .. Len(s) : s[p][2] = Level(t)[s[p][1]] + 1

OnStack(s, d) == \E p \in 1 .. Len(s) : s[p][1] = d

(* A round pushes all the directories in the one that is taken off, if     *)
(* they are not too deep.                                                  *)
LEMMA PushesAll ==
  ASSUME NEW t, IsTree(t), IsFiniteSet(Dirs(t)), NEW stack \in StackOf(t), stack # <<>>,
         Leveled(stack, t), NEW max \in Nat
  PROVE  /\ Leveled(Pushes(stack, t, max), t)
         /\ \A c \in Dirs(t) : c \in Range(t.kids[TopIn(stack)]) /\ Level(t)[c] <= max =>
              OnStack(Pushes(stack, t, max), c)
<1> DEFINE n == Len(stack)
           k == n - 1
           d == stack[n][1]
           level == stack[n][2]
           kids == t.kids[d]
           sub == SubDirs(t, d)
           m == Len(sub)
           pushed == [i \in 1 .. m |-> <<sub[i], level + 1>>]
           next == Pushes(stack, t, max)
           lv == Level(t)
<1>1. n \in Nat \ {0} /\ k \in Nat /\ d \in Dirs(t) /\ level \in Nat /\ level = lv[d] + 1
  <2>1. n \in Nat \ {0} /\ stack[n] \in Dirs(t) \X Nat
    BY DEF StackOf
  <2>2. d \in Dirs(t) /\ level \in Nat
    BY <2>1
  <2>3. level = lv[d] + 1
    BY <2>1 DEF Leveled
  <2> HIDE DEF n, d, level, lv
  <2> QED  BY <2>1, <2>2, <2>3
<1>2. next \in StackOf(t) /\ Len(next) \in Nat /\ k <= Len(next) /\ \A x \in 1 .. k : next[x] = stack[x]
  BY PushesIs DEF TopIn
<1>3. kids \in Seq(Nodes(t)) /\ Len(kids) \in Nat /\ DOMAIN kids = 1 .. Len(kids)
      /\ \A i \in 1 .. Len(kids) : kids[i] \in Nodes(t) \ {Root} /\ kids[i] \in Range(kids)
  BY <1>1, KidsOf
<1>4. sub \in Seq(Nodes(t)) /\ m \in Nat /\ Selected(sub, Len(kids), kids, Dirs(t))
  <2> HIDE DEF kids
  <2>1. sub = Among(kids, Dirs(t))
    BY DEF SubDirs, kids
  <2> HIDE DEF sub
  <2> QED  BY <1>3, <2>1, AmongIs
<1>5. \A i \in 1 .. m : sub[i] \in Range(kids) /\ sub[i] \in Dirs(t) /\ sub[i] # Root
  <2> HIDE DEF kids, sub
  <2> QED  BY <1>3, <1>4 DEF Selected
<1>6. \A c \in Dirs(t) : c \in Range(kids) => c # Root /\ lv[c] = level /\ \E i \in 1 .. m : sub[i] = c
  <2> TAKE c \in Dirs(t)
  <2> HAVE c \in Range(kids)
  <2>1. PICK j \in 1 .. Len(kids) : c = kids[j]
    BY <1>3 DEF Range
  <2>2. c # Root /\ c \in Nodes(t)
    BY <1>3, <2>1
  <2>3. d = Parent(t, c)
    BY <1>1, <2>2, ParentKnown
  <2>4. lv[c] = level
    BY <1>1, <2>2, <2>3, LevelIs
  <2>5. \E i \in 1 .. m : sub[i] = c
    <3> HIDE DEF kids, sub
    <3> QED  BY <1>4, <2>1 DEF Selected
  <2> QED  BY <2>2, <2>4, <2>5
<1>7. next = IF level > max THEN Front(stack) ELSE Front(stack) \o pushed
  BY DEF Pushes, PushDirs
<1>8. Front(stack) \in StackOf(t) /\ Len(Front(stack)) = k
  <2>1. Front(stack) = SubSeq(stack, 1, k)
    BY DEF Front
  <2>2. stack \in Seq(Dirs(t) \X Nat) /\ 1 .. k \subseteq 1 .. Len(stack)
    BY <1>1 DEF StackOf
  <2> HIDE DEF k
  <2>3. SubSeq(stack, 1, k) \in Seq(Dirs(t) \X Nat) /\ Len(SubSeq(stack, 1, k)) = k
    BY <1>1, <2>2
  <2> QED  BY <2>1, <2>3 DEF StackOf
<1> HIDE DEF next, sub, kids, m, lv
<1>9. CASE level > max
  <2>1. next = Front(stack)
    BY <1>7, <1>9
  <2>2. Len(next) = k
    BY <1>8, <2>1
  <2>3. Leveled(next, t)
    <3>1. \A x \in 1 .. k : next[x][2] = Level(t)[next[x][1]] + 1
      <4>1. \A x \in 1 .. k : x \in 1 .. Len(stack) /\ next[x] = stack[x]
        BY <1>1, <1>2
      <4> QED  BY <4>1 DEF Leveled
    <3> QED  BY <2>2, <3>1 DEF Leveled
  <2>4. \A c \in Dirs(t) : c \in Range(kids) => ~(lv[c] <= max)
    <3> HIDE DEF level
    <3> QED  BY <1>1, <1>6, <1>9
  <2> QED  BY <2>3, <2>4 DEF next, lv, kids, TopIn
<1>10. CASE ~(level > max)
  <2>1. next = Front(stack) \o pushed
    BY <1>7, <1>10
  <2>2. Len(pushed) = m /\ pushed \in Seq(Nodes(t) \X Nat)
    <3>1. \A i \in 1 .. m : <<sub[i], level + 1>> \in Nodes(t) \X Nat
      BY <1>1, <1>4 DEF m
    <3> HIDE DEF level
    <3> QED  BY <1>4, <3>1, SeqIs
  <2>3. \A i \in 1 .. m : pushed[i][1] = sub[i] /\ pushed[i][2] = level + 1
    OBVIOUS
  <2> HIDE DEF pushed, k, d, n, level
  <2>4. /\ Len(next) = k + m
        /\ \A x \in k + 1 .. k + m : next[x] = pushed[x - k]
    <3> DEFINE s == Front(stack)
    <3>1. Len(s) = k /\ s \in StackOf(t) /\ next = s \o pushed
      BY <1>8, <2>1
    <3> HIDE DEF s
    <3>2. s \in Seq(Dirs(t) \X Nat) /\ Len(s) = k /\ next = s \o pushed
      BY <3>1 DEF StackOf
    <3>3. \A A : \A x, y \in Seq(A) :
            /\ Len(x \o y) = Len(x) + Len(y)
            /\ \A j \in Len(x) + 1 .. Len(x) + Len(y) : (x \o y)[j] = y[j - Len(x)]
      OBVIOUS
    <3> DEFINE A == (Dirs(t) \cup Nodes(t)) \X Nat
    <3>6. s \in Seq(A) /\ pushed \in Seq(A)
      <4>1. Dirs(t) \X Nat \subseteq A /\ Nodes(t) \X Nat \subseteq A
        OBVIOUS
      <4> HIDE DEF A
      <4>2. \A X : X \subseteq A => Seq(X) \subseteq Seq(A)
        OBVIOUS
      <4>3. Seq(Dirs(t) \X Nat) \subseteq Seq(A) /\ Seq(Nodes(t) \X Nat) \subseteq Seq(A)
        BY <4>1, <4>2
      <4> QED  BY <2>2, <3>2, <4>3
    <3> HIDE DEF A
    <3>4. /\ Len(s \o pushed) = Len(s) + Len(pushed)
          /\ \A j \in Len(s) + 1 .. Len(s) + Len(pushed) : (s \o pushed)[j] = pushed[j - Len(s)]
      BY <3>6, <3>3
    <3>5. /\ Len(s \o pushed) = k + m
          /\ \A j \in k + 1 .. k + m : (s \o pushed)[j] = pushed[j - k]
      BY <2>2, <3>2, <3>4
    <3> QED  BY <3>1, <3>5
  <2>5. \A x \in k + 1 .. k + m : x - k \in 1 .. m
    BY <1>1, <1>4
  <2>6. \A x \in 1 .. Len(next) : next[x][2] = lv[next[x][1]] + 1
    <3> TAKE x \in 1 .. Len(next)
    <3>1. CASE x \in 1 .. k
      <4>1. x \in 1 .. Len(stack) /\ next[x] = stack[x]
        BY <1>1, <1>2, <3>1 DEF k, n
      <4> QED  BY <4>1 DEF Leveled, lv
    <3>2. CASE x \notin 1 .. k
      <4>1. x \in k + 1 .. k + m
        BY <1>1, <1>4, <2>4, <3>2
      <4>2. x - k \in 1 .. m /\ next[x] = pushed[x - k]
        BY <2>4, <2>5, <4>1
      <4>3. next[x][1] = sub[x - k] /\ next[x][2] = level + 1
        BY <2>3, <4>2
      <4>4. lv[sub[x - k]] = level
        BY <1>5, <1>6, <4>2
      <4> QED  BY <4>3, <4>4
    <3> QED  BY <3>1, <3>2
  <2>7. ASSUME NEW c \in Dirs(t), c \in Range(kids)
        PROVE  \E x \in 1 .. Len(next) : next[x][1] = c
    <3>1. PICK i \in 1 .. m : sub[i] = c
      BY <1>6, <2>7
    <3>2. k + i \in k + 1 .. k + m /\ k + i \in 1 .. Len(next) /\ (k + i) - k = i
      BY <1>1, <1>4, <2>4
    <3>3. next[k + i] = pushed[i]
      BY <2>4, <3>2
    <3> QED  BY <2>3, <3>1, <3>2, <3>3
  <2> QED  BY <2>6, <2>7 DEF next, lv, kids, d, n, TopIn, Leveled, OnStack
<1> QED
  BY <1>9, <1>10

(* Directory d is on top of the stack before take n of a pass.             *)
OnTop(q, n, d) == \E j \in 0 .. n - 1 : TopIn(q[j]) = d

(* What is on the stack comes to be on top before the stack is empty.      *)
LEMMA OnTopOnce ==
  ASSUME NEW t, IsTree(t), NEW max, NEW from, NEW takes,
         NEW n \in Nat, NEW q, NEW a, Trace(q, a, n, t, max, from, takes), q[n] = <<>>,
         NEW i \in 0 .. n, NEW p \in 1 .. Len(q[i])
  PROVE  OnTop(q, n, q[i][p][1])
<1> SUFFICES ASSUME \A j \in 0 .. n - 1 : TopIn(q[j]) # q[i][p][1] PROVE FALSE
  BY DEF OnTop
<1>1. Stacks(q, n, t) /\ Rounds(q, a, n, t, max, takes)
  BY TraceIs
<1>2. \A j \in 0 .. n : q[j] \in StackOf(t) /\ Len(q[j]) \in Nat
  <2>1. \A s \in StackOf(t) : Len(s) \in Nat
    BY DEF StackOf
  <2> QED  BY <1>1, <2>1 DEF Stacks
<1>3. p \in Nat \ {0}
  BY <1>2
<1> DEFINE S == {k \in 0 .. n : k >= i => p <= Len(q[k]) /\ q[k][p] = q[i][p]}
<1>4. 0 \in S
  <2>1. 0 \in 0 .. n /\ (0 >= i => i = 0)
    OBVIOUS
  <2> QED  BY <1>2, <2>1
<1>5. ASSUME NEW k \in 0 .. n - 1, k \in S PROVE k + 1 \in S
  <2>1. k \in 0 .. n /\ k + 1 \in 0 .. n
    OBVIOUS
  <2>2. CASE k + 1 < i
    BY <2>1, <2>2
  <2>3. CASE k + 1 = i
    BY <1>2, <2>1, <2>3
  <2>4. CASE k >= i
    <3>1. p <= Len(q[k]) /\ q[k][p] = q[i][p]
      BY <1>5, <2>4
    <3>2. q[k] # <<>> /\ q[k + 1] = Pushes(q[k], t, max) /\ q[k] \in StackOf(t)
      BY <1>1, <1>2, <2>1 DEF Rounds
    <3>3. p # Len(q[k])
      BY <3>1 DEF TopIn
    <3> DEFINE s == q[k]
               next == Pushes(s, t, max)
               l == Len(s) - 1
    <3>4. /\ Len(next) \in Nat /\ l \in Nat /\ l <= Len(next) /\ \A x \in 1 .. l : next[x] = s[x]
      BY <3>2, PushesIs
    <3>5. p \in 1 .. l
      BY <1>2, <1>3, <2>1, <3>1, <3>3
    <3> HIDE DEF next, l
    <3>6. p <= Len(next) /\ next[p] = s[p]
      BY <1>3, <3>4, <3>5
    <3> QED  BY <2>1, <3>1, <3>2, <3>6 DEF next
  <2> QED  BY <2>2, <2>3, <2>4
<1>6. n \in S
  <2> HIDE DEF S
  <2>1. 0 .. n \subseteq S
    BY <1>4, <1>5, UpTo
  <2> QED  BY <2>1
<1>7. n >= i /\ Len(q[n]) = 0
  OBVIOUS
<1> QED
  BY <1>3, <1>6, <1>7

(* The levels are right all along a pass.                                  *)
LEMMA TraceLeveled ==
  ASSUME NEW t, IsTree(t), IsFiniteSet(Dirs(t)), NEW max \in Nat, NEW from, NEW takes,
         NEW n \in Nat, NEW q, NEW a, Trace(q, a, n, t, max, from, takes)
  PROVE  \A i \in 0 .. n : Leveled(q[i], t)
<1>1. Stacks(q, n, t) /\ Rounds(q, a, n, t, max, takes)
  BY TraceIs
<1> DEFINE S == {k \in 0 .. n : Leveled(q[k], t)}
<1>2. 0 \in S
  <2>1. Level(t)[Root] = 1
    BY LevelIs
  <2> DEFINE s == RootStack
  <2>2. Len(s) = 1 /\ s[1][1] = Root /\ s[1][2] = 2
    BY DEF RootStack
  <2> HIDE DEF s
  <2>3. Leveled(s, t)
    BY <2>1, <2>2 DEF Leveled
  <2>4. q[0] = s
    BY DEF Trace, s
  <2> QED  BY <2>3, <2>4
<1>3. ASSUME NEW k \in 0 .. n - 1, k \in S PROVE k + 1 \in S
  <2>1. k \in 0 .. n /\ k + 1 \in 0 .. n /\ Leveled(q[k], t)
    BY <1>3
  <2>2. q[k] # <<>> /\ q[k + 1] = Pushes(q[k], t, max) /\ q[k] \in StackOf(t)
    BY <1>1, <2>1 DEF Rounds, Stacks
  <2>3. Leveled(Pushes(q[k], t, max), t)
    BY <2>1, <2>2, PushesAll
  <2> QED  BY <2>1, <2>2, <2>3
<1>4. 0 .. n \subseteq S
  <2> HIDE DEF S
  <2> QED  BY <1>2, <1>3, UpTo
<1> QED
  BY <1>4

(* A pass that has come to its end has been at every directory that is not *)
(* too deep.                                                               *)
LEMMA AllTaken ==
  ASSUME NEW t, IsTree(t), IsFiniteSet(Dirs(t)), NEW max \in Nat \ {0}, NEW from, NEW takes,
         NEW n \in Nat, NEW q, NEW a, Trace(q, a, n, t, max, from, takes), q[n] = <<>>
  PROVE  \A d \in ReachedDirs(t, max) : \E i \in 0 .. n - 1 : TopIn(q[i]) = d
<1> DEFINE lv == Level(t)
           Missed == {d \in ReachedDirs(t, max) : \A i \in 0 .. n - 1 : TopIn(q[i]) # d}
<1> SUFFICES ASSUME Missed # {} PROVE FALSE
  OBVIOUS
<1>1. Stacks(q, n, t) /\ Rounds(q, a, n, t, max, takes) /\ \A i \in 0 .. n : Leveled(q[i], t)
  BY TraceIs, TraceLeveled
<1>2. ReachedDirs(t, max) = {d \in Dirs(t) : lv[d] <= max}
  BY DEF ReachedDirs
<1>3. /\ \A d \in Dirs(t) : lv[d] \in Nat
      /\ \A d \in Dirs(t) : d # Root => lv[d] = lv[Parent(t, d)] + 1
  BY LevelIs
<1> HIDE DEF lv
<1>4. Root \notin Missed
  <2>1. q[0] = RootStack
    BY DEF Trace
  <2>2. RootStack # <<>> /\ TopIn(RootStack) = Root
    BY DEF RootStack, TopIn
  <2>3. 0 \in 0 .. n - 1
    BY <2>1, <2>2
  <2> QED  BY <2>1, <2>2, <2>3
<1>5. Missed \in SUBSET Dirs(t)
  BY <1>2
<1>6. PICK d \in Missed : Parent(t, d) \in Dirs(t) \ Missed
  <2> HIDE DEF Missed
  <2> QED  BY <1>4, <1>5, OutsideIn
<1> DEFINE e == Parent(t, d)
<1>7. d \in Dirs(t) /\ d # Root /\ lv[d] <= max /\ e \in Dirs(t) /\ lv[e] <= max
  <2>1. d \in Dirs(t) /\ d # Root /\ lv[d] <= max /\ e \in Dirs(t) /\ lv[d] = lv[e] + 1
    BY <1>2, <1>3, <1>4, <1>6
  <2>2. lv[d] \in Nat /\ lv[e] \in Nat
    BY <1>3, <2>1
  <2> QED  BY <2>1, <2>2
<1>8. PICK i \in 0 .. n - 1 : TopIn(q[i]) = e
  BY <1>2, <1>6, <1>7
<1>9. q[i] # <<>> /\ q[i + 1] = Pushes(q[i], t, max) /\ q[i] \in StackOf(t) /\ Leveled(q[i], t) /\ i + 1 \in 0 .. n
  <2>1. i \in 0 .. n /\ i + 1 \in 0 .. n
    OBVIOUS
  <2> QED  BY <1>1, <2>1 DEF Rounds, Stacks
<1>10. d \in Range(t.kids[e])
  <2>1. d \in Nodes(t) \ {Root}
    BY <1>7 DEF Nodes
  <2> QED  BY <2>1, ParentKnown
<1>11. OnStack(Pushes(q[i], t, max), d)
  BY <1>7, <1>8, <1>9, <1>10, PushesAll DEF lv
<1>12. PICK p \in 1 .. Len(q[i + 1]) : q[i + 1][p][1] = d
  BY <1>9, <1>11 DEF OnStack
<1>13. OnTop(q, n, d)
  <2> DEFINE l == i + 1
  <2>1. l \in 0 .. n /\ p \in 1 .. Len(q[l]) /\ q[l][p][1] = d
    BY <1>9, <1>12
  <2> HIDE DEF l
  <2>2. Trace(q, a, n, t, max, from, takes) /\ q[n] = <<>>
    OBVIOUS
  <2>3. OnTop(q, n, q[l][p][1])
    BY <2>1, <2>2, OnTopOnce
  <2> QED  BY <2>1, <2>3
<1> QED
  BY <1>6, <1>13 DEF OnTop

(* Some directories are not too deep, whatever the file system.            *)
LEMMA MaxLevelIs == \A f : GetMaxDirLevel(f) \in Nat \ {0}
  BY LimitsAssumption DEF GetMaxDirLevel

(* When all is stored, every file a pass reaches and does not leave out is *)
(* where it was placed.                                                    *)
LEMMA StoredFiles ==
  ASSUME NEW f, NEW t, Sound(f, t), NEW p, NEW data, NEW first, NEW last,
         AllStored(f, t, p, data, first, last)
  PROVE  \A x \in ReachedFiles(t, GetMaxDirLevel(f)) \cap Kept(f, t) : data[x] = p[x].normal
<1> DEFINE max == GetMaxDirLevel(f)
<1>1. IsTree(t) /\ IsFiniteSet(Dirs(t)) /\ max \in Nat \ {0}
  BY PassesNat, MaxLevelIs DEF Sound
<1>2. PICK n, q, b :
        /\ FilePass(f, t, p, n, q, b, first) /\ q[n] = <<>> /\ b[n] = last
        /\ \A j \in 0 .. n - 1 : StoredUpTo(f, t, p, data, TopIn(q[j]), Len(t.kids[TopIn(q[j])]))
  BY DEF AllStored
<1>3. n \in Nat /\ Trace(q, b, n, t, max, first, FileTakes(t, Kept(f, t))) /\ q[n] = <<>>
  BY <1>2 DEF FilePass
<1> HIDE DEF max
<1>4. \A d \in ReachedDirs(t, max) : \E i \in 0 .. n - 1 : TopIn(q[i]) = d
  BY <1>1, <1>3, AllTaken
<1>5. ASSUME NEW x \in ReachedFiles(t, max), x \in Kept(f, t)
      PROVE  data[x] = p[x].normal
  <2>1. PICK d \in ReachedDirs(t, max) : x \in Range(t.kids[d])
    BY DEF ReachedFiles
  <2>2. PICK i \in 0 .. n - 1 : TopIn(q[i]) = d
    BY <1>4
  <2>3. d \in Dirs(t)
    BY DEF ReachedDirs
  <2>4. DOMAIN t.kids[d] = 1 .. Len(t.kids[d])
    BY <1>1, <2>3 DEF IsTree
  <2>5. PICK j \in 1 .. Len(t.kids[d]) : x = t.kids[d][j]
    BY <2>1, <2>4 DEF Range
  <2>6. StoredUpTo(f, t, p, data, d, Len(t.kids[d]))
    BY <1>2, <2>2
  <2> QED  BY <1>5, <2>5, <2>6 DEF StoredUpTo
<1> QED
  BY <1>5 DEF max

(* Members that take as much each.                                         *)
Multiples(w, s, m, c) == \A k \in 0 .. m : SumOver(w, SubSeq(s, 1, k)) = k * c

LEMMA EqualSum ==
  ASSUME NEW E, NEW s \in Seq(E), NEW w, \A i \in 1 .. Len(s) : w[s[i]] \in Int,
         NEW c \in Nat, NEW m \in 0 .. Len(s), \A i \in 1 .. m : w[s[i]] = c
  PROVE  Multiples(w, s, m, c)
<1> DEFINE S == {k \in 0 .. m : SumOver(w, SubSeq(s, 1, k)) = k * c}
<1>1. /\ SumOver(w, SubSeq(s, 1, 0)) = 0
      /\ \A k \in 1 .. Len(s) :
           SumOver(w, SubSeq(s, 1, k)) = SumOver(w, SubSeq(s, 1, k - 1)) + w[s[k]]
  BY SumOverPrefixes
<1>2. Len(s) \in Nat /\ m \in Nat
  OBVIOUS
<1>3. 0 \in S
  BY <1>1, <1>2
<1>4. ASSUME NEW k \in 0 .. m - 1, k \in S PROVE k + 1 \in S
  <2>1. k + 1 \in 1 .. m /\ k + 1 \in 1 .. Len(s) /\ (k + 1) - 1 = k /\ k + 1 \in 0 .. m
    BY <1>2
  <2>2. SumOver(w, SubSeq(s, 1, k)) = k * c
    BY <1>4
  <2>3. SumOver(w, SubSeq(s, 1, k + 1)) = SumOver(w, SubSeq(s, 1, k)) + w[s[k + 1]]
    BY <1>1, <2>1
  <2>4. w[s[k + 1]] = c
    BY <2>1
  <2>5. (k + 1) * c = k * c + c
    OBVIOUS
  <2> QED  BY <2>1, <2>2, <2>3, <2>4, <2>5
<1>5. 0 .. m \subseteq S
  <2> HIDE DEF S
  <2> QED  BY <1>2, <1>3, <1>4, UpTo
<1> QED
  BY <1>5 DEF Multiples

(* Pieces of one length, and a rest, that follow each other.               *)
Follow(pieces, c, from, whole, rest) ==
  /\ \A i \in 1 .. c : pieces[i].loc = from + (i - 1) * BytesToSec(whole)
  /\ \A i \in 1 .. c : pieces[i].len = IF i < c THEN whole ELSE rest

LEMMA PiecesCover ==
  ASSUME NEW c \in Nat \ {0}, NEW E, NEW pieces \in Seq(E), Len(pieces) = c,
         NEW from \in Int, NEW whole \in Nat, NEW rest \in Nat, NEW size,
         size = (c - 1) * whole + rest, Follow(pieces, c, from, whole, rest)
  PROVE  Covers(pieces, from, size)
<1> DEFINE sectors == [e \in Range(pieces) |-> BytesToSec(e.len)]
           bytes   == [e \in Range(pieces) |-> e.len]
<1>1. DOMAIN pieces = 1 .. c
  OBVIOUS
<1>2. \A i \in 1 .. c : sectors[pieces[i]] = BytesToSec(pieces[i].len) /\ bytes[pieces[i]] = pieces[i].len
  BY <1>1 DEF Range
<1>3. BytesToSec(whole) \in Nat /\ BytesToSec(rest) \in Nat
  BY SectorsNat
<1>4. \A i \in 1 .. c : IF i < c THEN sectors[pieces[i]] = BytesToSec(whole) /\ bytes[pieces[i]] = whole
                        ELSE sectors[pieces[i]] = BytesToSec(rest) /\ bytes[pieces[i]] = rest
  BY <1>2 DEF Follow
<1> HIDE DEF sectors, bytes
<1> DEFINE m == c - 1
<1>5. /\ \A i \in 1 .. Len(pieces) : sectors[pieces[i]] \in Int
      /\ \A i \in 1 .. Len(pieces) : bytes[pieces[i]] \in Int
  BY <1>3, <1>4
<1>6. /\ m \in 0 .. Len(pieces)
      /\ \A i \in 1 .. m : sectors[pieces[i]] = BytesToSec(whole)
      /\ \A i \in 1 .. m : bytes[pieces[i]] = whole
  BY <1>4
<1> HIDE DEF m
<1>7. Multiples(sectors, pieces, m, BytesToSec(whole))
  <2>1. /\ pieces \in Seq(E) /\ \A i \in 1 .. Len(pieces) : sectors[pieces[i]] \in Int
        /\ BytesToSec(whole) \in Nat /\ m \in 0 .. Len(pieces)
        /\ \A i \in 1 .. m : sectors[pieces[i]] = BytesToSec(whole)
    BY <1>3, <1>5, <1>6
  <2> QED  BY <2>1, EqualSum
<1>8. Multiples(bytes, pieces, m, whole)
  <2>1. /\ pieces \in Seq(E) /\ \A i \in 1 .. Len(pieces) : bytes[pieces[i]] \in Int
        /\ whole \in Nat /\ m \in 0 .. Len(pieces)
        /\ \A i \in 1 .. m : bytes[pieces[i]] = whole
    BY <1>5, <1>6
  <2> QED  BY <2>1, EqualSum
<1>9. SumOver(bytes, pieces) = size
  <2>1. /\ \A k \in 1 .. Len(pieces) :
             SumOver(bytes, SubSeq(pieces, 1, k)) = SumOver(bytes, SubSeq(pieces, 1, k - 1)) + bytes[pieces[k]]
        /\ SumOver(bytes, SubSeq(pieces, 1, Len(pieces))) = SumOver(bytes, pieces)
    BY <1>5, SumOverPrefixes
  <2>2. c \in 1 .. Len(pieces) /\ c - 1 = m /\ m \in 0 .. m
    BY <1>6 DEF m
  <2>3. SumOver(bytes, pieces) = SumOver(bytes, SubSeq(pieces, 1, m)) + bytes[pieces[c]]
    BY <2>1, <2>2
  <2>4. bytes[pieces[c]] = rest
    BY <1>4, <2>2
  <2> QED  BY <1>8, <2>2, <2>3, <2>4 DEF Multiples
<1>10. \A i \in 1 .. c : pieces[i].loc = from + SumOver(sectors, SubSeq(pieces, 1, i - 1))
  <2> TAKE i \in 1 .. c
  <2>1. i - 1 \in 0 .. m
    BY DEF m
  <2>2. pieces[i].loc = from + (i - 1) * BytesToSec(whole)
    BY DEF Follow
  <2> QED  BY <2>2, <1>7, <2>1 DEF Multiples
<1> QED
  BY <1>1, <1>9, <1>10 DEF Covers, sectors, bytes

(* What is left for the last piece.                                        *)
LEMMA LastPiece ==
  ASSUME NEW whole \in Nat \ {0}, NEW size \in Nat \ {0}, NEW q, q = (size - 1) \div whole
  PROVE  q \in Nat /\ size - q * whole \in Nat /\ size = q * whole + (size - q * whole)
<1>1. size - 1 \in Nat
  OBVIOUS
<1> DEFINE r == (size - 1) % whole
<1>2. q \in Nat /\ r \in 0 .. whole - 1 /\ size - 1 = q * whole + r
  BY <1>1, DivModOf
<1> HIDE DEF r
<1>3. q * whole \in Nat
  BY <1>2
<1> QED
  BY <1>2, <1>3

(* The extents of a file are its sectors, one after the other.             *)
LEMMA ExtentsCover ==
  ASSUME NEW loc \in Int, NEW size \in Nat
  PROVE  Covers(FileExtents(loc, size), loc, size)
<1> DEFINE c == ExtentCount(size)
           rest == size - (c - 1) * MaxExtent
           Piece(i) == [loc |-> loc + (i - 1) * BytesToSec(MaxExtent),
                        len |-> IF i < c THEN MaxExtent ELSE rest]
           E == {Piece(i) : i \in 1 .. c}
           pieces == [i \in 1 .. c |-> Piece(i)]
<1>1. c \in Nat \ {0} /\ MaxExtent \in Nat \ {0}
  BY ExtentsCounted, MaxExtentAssumption
<1>2. rest \in Nat /\ size = (c - 1) * MaxExtent + rest
  <2>1. CASE size = 0
    <3>1. c = 1
      BY <2>1 DEF ExtentCount
    <3> HIDE DEF c
    <3> QED  BY <1>1, <2>1, <3>1
  <2>2. CASE size # 0
    <3> DEFINE q == (size - 1) \div MaxExtent
    <3>1. c - 1 = q
      <4>1. size - 1 \in Nat
        BY <2>2
      <4>2. q \in Nat
        BY <1>1, <4>1, DivModOf
      <4>3. c = q + 1
        BY <2>2 DEF ExtentCount
      <4> HIDE DEF c, q
      <4> QED  BY <4>2, <4>3
    <3>2. q \in Nat /\ size - q * MaxExtent \in Nat /\ size = q * MaxExtent + (size - q * MaxExtent)
      BY <1>1, <2>2, LastPiece
    <3> HIDE DEF c, q
    <3> QED  BY <3>1, <3>2
  <2> QED  BY <2>1, <2>2
<1>3. pieces \in Seq(E) /\ Len(pieces) = c
  <2>1. pieces \in [1 .. c -> E]
    OBVIOUS
  <2> HIDE DEF pieces, E
  <2> QED  BY <1>1, <2>1, SeqIs
<1>4. FileExtents(loc, size) = pieces
  <2> DEFINE Other(i) == [loc |-> loc + (i - 1) * BytesToSec(MaxExtent),
                          len |-> IF i < c THEN MaxExtent ELSE size - (i - 1) * MaxExtent]
  <2>1. FileExtents(loc, size) = [i \in 1 .. c |-> Other(i)]
    BY DEF FileExtents
  <2>2. \A i \in 1 .. c : Other(i) = Piece(i)
    <3> HIDE DEF c
    <3> TAKE i \in 1 .. c
    <3>1. i < c \/ i = c
      BY <1>1
    <3>2. ~(i < c) => size - (i - 1) * MaxExtent = rest
      BY <3>1
    <3> HIDE DEF rest
    <3> QED  BY <3>2
  <2> HIDE DEF c, Piece, Other
  <2> QED  BY <2>1, <2>2
<1>5. Follow(pieces, c, loc, MaxExtent, rest)
  BY DEF Follow
<1> HIDE DEF pieces, E, rest, c, Piece
<1>6. Covers(pieces, loc, size)
  BY <1>1, <1>2, <1>3, <1>5, PiecesCover
<1> QED
  BY <1>4, <1>6

(* So are the allocation descriptors of a file entry, and a reader takes   *)
(* them for recorded.                                                      *)
LEMMA DescriptorsCover ==
  ASSUME NEW f, NEW loc \in Int, NEW size \in Nat \ {0},
         IsDvd(f) \/ f.shortAd => size < ShortLimit
  PROVE  /\ Covers(AllocDescriptors(f, loc, size), loc, size)
         /\ \A i \in DOMAIN AllocDescriptors(f, loc, size) : AllocDescriptors(f, loc, size)[i].kind = 0
<1>1. LongExtent \in Nat \ {0} /\ ShortLimit \in Nat \ {0}
  BY DescriptorAssumption
<1>2. CASE IsDvd(f) \/ f.shortAd
  <2>1. size \in 0 .. ShortLimit - 1
    BY <1>1, <1>2
  <2>2. size % ShortLimit = size /\ size \div ShortLimit = 0
    <3>1. (0 * ShortLimit + size) \div ShortLimit = 0 /\ (0 * ShortLimit + size) % ShortLimit = size
      BY <1>1, <2>1, DivModIs
    <3>2. 0 * ShortLimit + size = size
      BY <1>1
    <3> QED  BY <3>1, <3>2
  <2> DEFINE piece == [loc |-> loc, len |-> size, kind |-> 0]
             pieces == <<piece>>
  <2>3. AllocDescriptors(f, loc, size) = pieces
    <3>1. (size \div ShortLimit) % 4 = 0
      BY <2>2
    <3> QED  BY <1>2, <2>2, <3>1 DEF AllocDescriptors
  <2>4. pieces \in Seq({piece}) /\ Len(pieces) = 1 /\ DOMAIN pieces = 1 .. 1 /\ pieces[1] = piece
    <3> HIDE DEF piece
    <3> QED  OBVIOUS
  <2>5. piece.loc = loc /\ piece.len = size /\ piece.kind = 0
    OBVIOUS
  <2> HIDE DEF pieces, piece
  <2>6. \A i \in 1 .. 1 : pieces[i] = piece /\ i = 1
    BY <2>4
  <2>7. BytesToSec(size) \in Nat
    BY SectorsNat
  <2>8. Follow(pieces, 1, loc, size, size)
    BY <2>5, <2>6, <2>7 DEF Follow
  <2>9. size = (1 - 1) * size + size /\ size \in Nat /\ 1 \in Nat \ {0}
    OBVIOUS
  <2>10. Covers(pieces, loc, size)
    BY <2>4, <2>8, <2>9, PiecesCover
  <2> QED  BY <2>3, <2>4, <2>5, <2>6, <2>10
<1>3. CASE ~(IsDvd(f) \/ f.shortAd)
  <2> DEFINE whole == (size - 1) \div LongExtent
             c == whole + 1
             rest == size - whole * LongExtent
             Piece(i) == [loc |-> loc + (i - 1) * BytesToSec(LongExtent),
                          len |-> IF i <= whole THEN LongExtent ELSE rest, kind |-> 0]
             E == {Piece(i) : i \in 1 .. c}
             pieces == [i \in 1 .. c |-> Piece(i)]
  <2>1. whole \in Nat /\ rest \in Nat /\ size = whole * LongExtent + rest
    BY <1>1, LastPiece
  <2>2. AllocDescriptors(f, loc, size) = pieces
    BY <1>3 DEF AllocDescriptors
  <2>3. /\ \A i \in 1 .. c : pieces[i].loc = loc + (i - 1) * BytesToSec(LongExtent)
        /\ \A i \in 1 .. c : pieces[i].len = IF i <= whole THEN LongExtent ELSE rest
        /\ \A i \in 1 .. c : pieces[i].kind = 0
        /\ DOMAIN pieces = 1 .. c
    OBVIOUS
  <2>4. c \in Nat \ {0} /\ c - 1 = whole /\ \A i \in 1 .. c : i <= whole <=> i < c
    <3> HIDE DEF whole
    <3> QED  BY <2>1
  <2>5. pieces \in Seq(E) /\ Len(pieces) = c
    <3>1. pieces \in [1 .. c -> E]
      OBVIOUS
    <3> HIDE DEF pieces, E, c
    <3> QED  BY <2>4, <3>1, SeqIs
  <2> HIDE DEF pieces, E, rest, c, Piece, whole
  <2>6. \A i \in 1 .. c : pieces[i].len = IF i < c THEN LongExtent ELSE rest
    BY <2>3, <2>4
  <2>7. size = (c - 1) * LongExtent + rest
    BY <2>1, <2>4
  <2>8. Covers(pieces, loc, size)
    <3>1. /\ c \in Nat \ {0} /\ pieces \in Seq(E) /\ Len(pieces) = c
          /\ LongExtent \in Nat /\ rest \in Nat
      BY <1>1, <2>1, <2>4, <2>5
    <3>2. Follow(pieces, c, loc, LongExtent, rest)
      BY <2>3, <2>6 DEF Follow
    <3> QED  BY <2>7, <3>1, <3>2, PiecesCover
  <2> QED  BY <2>2, <2>3, <2>8
<1> QED
  BY <1>2, <1>3
=============================================================================
