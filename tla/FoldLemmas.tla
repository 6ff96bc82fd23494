----------------------------- MODULE FoldLemmas -----------------------------
(***************************************************************************)
(* Lemmas about folds over sequences.  FoldLeft is unfolded to a function  *)
(* on the sets of positions: the value for a set is made from the one for  *)
(* the set without its greatest position.  That there is such a function   *)
(* is proved here; what a step is, is a function of the value and of the   *)
(* position, so that one lemma serves every fold.                          *)
(***************************************************************************)
EXTENDS Integers, Sequences, SequencesExt, TLAPS, SequenceTheorems, WellFoundedInduction

-----------------------------------------------------------------------------
(* Numbers.                                                                *)

(* A set of numbers has a least one, and Min is it.                        *)
LEMMA MinIsIn ==
  ASSUME NEW D \in SUBSET Nat, D # {}
  PROVE  Min(D) \in D /\ \A k \in D : Min(D) <= k
<1>1. IsWellFoundedOn(OpToRel(<, Nat), Nat)
  BY NatLessThanWellFounded
<1>2. PICK x \in D : \A y \in D : ~ (<<y, x>> \in OpToRel(<, Nat))
  BY <1>1, WFMin
<1>3. \A y \in D : ~(y < x)
  BY <1>2 DEF OpToRel
<1>4. \A y \in D : x <= y
  BY <1>3
<1> QED
  BY <1>4 DEF Min

(* A set of numbers up to some n has a greatest one, and Max is it.        *)
LEMMA MaxIsIn ==
  ASSUME NEW n \in Nat, NEW D \in SUBSET (0 .. n), D # {}
  PROVE  Max(D) \in D /\ \A k \in D : k <= Max(D)
<1> DEFINE Below == {n - i : i \in D}
<1>1. Below \in SUBSET Nat /\ Below # {}
  <2>1. \A i \in D : i \in 0 .. n
    OBVIOUS
  <2>2. \A i \in D : n - i \in Nat
    BY <2>1
  <2> QED  BY <2>2
<1> HIDE DEF Below
<1>2. IsWellFoundedOn(OpToRel(<, Nat), Nat)
  BY NatLessThanWellFounded
<1>3. PICK x \in Below : \A y \in Below : ~ (<<y, x>> \in OpToRel(<, Nat))
  BY <1>1, <1>2, WFMin
<1>4. \A y \in Below : x <= y
  <2>1. \A y \in Below : ~(y < x)
    BY <1>1, <1>3 DEF OpToRel
  <2> QED  BY <1>1, <2>1
<1>5. PICK m \in D : x = n - m
  BY DEF Below
<1>6. \A i \in D : m >= i
  <2> TAKE i \in D
  <2>1. n - i \in Below
    BY DEF Below
  <2> QED  BY <1>4, <1>5, <2>1
<1>7. \A i \in D : i \in Int
  OBVIOUS
<1> QED
  BY <1>6, <1>7 DEF Max

(* Induction up to n, over a set of numbers.                               *)
LEMMA UpTo ==
  ASSUME NEW n \in Nat, NEW S, 0 \in S, \A k \in 0 .. n - 1 : k \in S => k + 1 \in S
  PROVE  0 .. n \subseteq S
<1> DEFINE Out == (0 .. n) \ S
<1> SUFFICES ASSUME Out # {} PROVE FALSE
  OBVIOUS
<1>1. Out \in SUBSET Nat
  OBVIOUS
<1> HIDE DEF Out
<1>2. Min(Out) \in Out /\ \A k \in Out : Min(Out) <= k
  BY <1>1, MinIsIn
<1>3. Min(Out) \in 1 .. n
  BY <1>2 DEF Out
<1>4. Min(Out) - 1 \notin Out /\ Min(Out) - 1 \in 0 .. n - 1
  BY <1>2, <1>3
<1> QED
  BY <1>2, <1>3, <1>4 DEF Out

(* A function on the first n numbers is a sequence.                        *)
LEMMA SeqIs ==
  ASSUME NEW S, NEW n \in Nat, NEW f \in [1 .. n -> S]
  PROVE  f \in Seq(S) /\ Len(f) = n
OBVIOUS

(* Quotient and remainder are what they are said to be.                    *)
LEMMA DivModIs ==
  ASSUME NEW n \in Nat \ {0}, NEW a \in Nat, NEW b \in 0 .. n - 1
  PROVE  (a * n + b) \div n = a /\ (a * n + b) % n = b
<1> DEFINE q == (a * n + b) \div n
           r == (a * n + b) % n
<1>1. a * n \in Nat
  OBVIOUS
<1>2. q \in Int /\ r \in 0 .. n - 1 /\ a * n + b = n * q + r
  BY <1>1
<1>3. n * q = q * n
  BY <1>2
<1>4. (a - q) * n = a * n - q * n
  BY <1>2
<1>5. (a - q) * n = r - b
  BY <1>1, <1>2, <1>3, <1>4
<1>6. ~(a - q >= 1)
  <2> SUFFICES ASSUME a - q >= 1 PROVE FALSE
    OBVIOUS
  <2>1. (a - q) * n >= n
    BY <1>2
  <2> QED  BY <1>2, <1>5, <2>1
<1>7. ~(q - a >= 1)
  <2> SUFFICES ASSUME q - a >= 1 PROVE FALSE
    OBVIOUS
  <2>1. (q - a) * n >= n
    BY <1>2
  <2>2. (q - a) * n = b - r
    BY <1>2, <1>5
  <2> QED  BY <1>2, <2>1, <2>2
<1>8. q = a
  BY <1>2, <1>6, <1>7
<1> QED
  BY <1>2, <1>5, <1>8

(* A number is made of its quotient and its remainder.                     *)
LEMMA DivModOf ==
  ASSUME NEW n \in Nat \ {0}, NEW x \in Nat
  PROVE  /\ x \div n \in Nat /\ x % n \in 0 .. n - 1
         /\ x = (x \div n) * n + (x % n)
<1>1. x \div n \in Int /\ x % n \in 0 .. n - 1 /\ x = n * (x \div n) + (x % n)
  OBVIOUS
<1>2. x \div n >= 0
  OBVIOUS
<1> QED
  BY <1>1, <1>2

(* Adding no more than n steps over one multiple of n at most.             *)
LEMMA StepOver ==
  ASSUME NEW n \in Nat \ {0}, NEW x \in Nat, NEW c \in 0 .. n
  PROVE  IF (x % n) + c >= n
         THEN (x + c) \div n = (x \div n) + 1 /\ (x + c) % n = (x % n) + c - n
         ELSE (x + c) \div n = x \div n /\ (x + c) % n = (x % n) + c
<1> DEFINE q == x \div n
           r == x % n
<1>1. q \in Nat /\ r \in 0 .. n - 1 /\ x = q * n + r
  BY DivModOf
<1> HIDE DEF q, r
<1>2. CASE r + c >= n
  <2>1. x + c = (q + 1) * n + (r + c - n)
    BY <1>1
  <2>2. q + 1 \in Nat /\ r + c - n \in 0 .. n - 1
    BY <1>1, <1>2
  <2>3. (x + c) \div n = q + 1 /\ (x + c) % n = r + c - n
    BY <2>1, <2>2, DivModIs
  <2> QED  BY <1>2, <2>3 DEF q, r
<1>3. CASE ~(r + c >= n)
  <2>1. x + c = q * n + (r + c) /\ r + c \in 0 .. n - 1
    BY <1>1, <1>3
  <2>2. (x + c) \div n = q /\ (x + c) % n = r + c
    BY <1>1, <2>1, DivModIs
  <2> QED  BY <1>3, <2>2 DEF q, r
<1> QED
  BY <1>2, <1>3

-----------------------------------------------------------------------------
(* Folds.                                                                  *)

(* h is the value of the fold for each set of positions up to n.           *)
Folds(h, n, base, step) ==
  h = [t \in SUBSET (1 .. n) |->
         IF t = {} THEN base ELSE step[<<h[t \ {Max(t)}], Max(t)>>]]

(* Whatever a step does with the value and the position, there is a fold   *)
(* of it.                                                                  *)
LEMMA FoldExists ==
  ASSUME NEW n \in Nat, NEW X, NEW base \in X, NEW step \in [X \X (1 .. n) -> X]
  PROVE  \E h \in [SUBSET (1 .. n) -> X] : Folds(h, n, base, step)
<1> DEFINE Good == {k \in 0 .. n : \E h \in [SUBSET (1 .. k) -> X] : Folds(h, k, base, step)}
<1>1. 0 \in Good
  <2> DEFINE h == [t \in SUBSET (1 .. 0) |-> base]
  <2>1. \A t \in SUBSET (1 .. 0) : t = {}
    OBVIOUS
  <2>2. h \in [SUBSET (1 .. 0) -> X]
    OBVIOUS
  <2>3. Folds(h, 0, base, step)
    BY <2>1 DEF Folds
  <2> QED  BY <2>2, <2>3
<1>2. ASSUME NEW k \in 0 .. n - 1, k \in Good
      PROVE  k + 1 \in Good
  <2>1. PICK g \in [SUBSET (1 .. k) -> X] : Folds(g, k, base, step)
    BY <1>2
  <2> DEFINE h == [t \in SUBSET (1 .. k + 1) |->
                     IF k + 1 \in t THEN step[<<g[t \ {k + 1}], k + 1>>] ELSE g[t]]
  <2>2. \A t \in SUBSET (1 .. k + 1) : k + 1 \in t => t \ {k + 1} \in SUBSET (1 .. k) /\ Max(t) = k + 1
    <3> TAKE t \in SUBSET (1 .. k + 1)
    <3> HAVE k + 1 \in t
    <3>1. t \in SUBSET (0 .. k + 1) /\ k + 1 \in Nat
      OBVIOUS
    <3>2. Max(t) \in t /\ \A i \in t : i <= Max(t)
      BY <3>1, MaxIsIn
    <3>3. Max(t) \in 1 .. k + 1 /\ k + 1 <= Max(t)
      BY <3>2
    <3>4. Max(t) = k + 1
      BY <3>3
    <3> QED  BY <3>4
  <2>3. \A t \in SUBSET (1 .. k + 1) : k + 1 \notin t => t \in SUBSET (1 .. k)
    OBVIOUS
  <2>4. \A t \in SUBSET (1 .. k) : h[t] = g[t]
    OBVIOUS
  <2>5. h \in [SUBSET (1 .. k + 1) -> X]
    <3> SUFFICES ASSUME NEW t \in SUBSET (1 .. k + 1)
                 PROVE  (IF k + 1 \in t THEN step[<<g[t \ {k + 1}], k + 1>>] ELSE g[t]) \in X
      OBVIOUS
    <3>1. k + 1 \in 1 .. n
      OBVIOUS
    <3> QED  BY <2>2, <2>3, <3>1
  <2>6. \A t \in SUBSET (1 .. k + 1) :
          h[t] = IF t = {} THEN base ELSE step[<<h[t \ {Max(t)}], Max(t)>>]
    <3> TAKE t \in SUBSET (1 .. k + 1)
    <3>1. CASE k + 1 \in t
      BY <2>2, <2>4, <3>1
    <3>2. CASE k + 1 \notin t
      <4>1. t \in SUBSET (1 .. k) /\ h[t] = g[t]
        BY <2>3, <2>4, <3>2
      <4>2. g[t] = IF t = {} THEN base ELSE step[<<g[t \ {Max(t)}], Max(t)>>]
        BY <2>1, <4>1 DEF Folds
      <4>3. t \ {Max(t)} \in SUBSET (1 .. k)
        BY <4>1
      <4> QED  BY <2>4, <4>1, <4>2, <4>3
    <3> QED  BY <3>1, <3>2
  <2> HIDE DEF h
  <2>7. Folds(h, k + 1, base, step)
    <3>1. h = [t \in SUBSET (1 .. k + 1) |-> h[t]]
      BY <2>5
    <3> QED  BY <2>6, <3>1 DEF Folds
  <2> QED  BY <2>5, <2>7
<1>3. 0 .. n \subseteq Good
  <2> HIDE DEF Good
  <2> QED  BY <1>1, <1>2, UpTo
<1>4. n \in Good
  <2> HIDE DEF Good
  <2> QED  BY <1>3
<1> QED
  BY <1>4

(* The first k positions are the first k - 1 of them and k, the greatest.  *)
LEMMA FirstPositions ==
  ASSUME NEW n \in Nat
  PROVE  /\ 1 .. 0 = {}
         /\ \A k \in 1 .. n : /\ 1 .. k \in SUBSET (1 .. n) /\ 1 .. k # {}
                             /\ Max(1 .. k) = k /\ (1 .. k) \ {k} = 1 .. k - 1
<1> SUFFICES ASSUME NEW k \in 1 .. n
             PROVE  /\ 1 .. k \in SUBSET (1 .. n) /\ 1 .. k # {}
                    /\ Max(1 .. k) = k /\ (1 .. k) \ {k} = 1 .. k - 1
  OBVIOUS
<1>1. 1 .. k \in SUBSET (0 .. k) /\ k \in 1 .. k /\ k \in Nat
  OBVIOUS
<1>2. Max(1 .. k) \in 1 .. k /\ k <= Max(1 .. k)
  BY <1>1, MaxIsIn
<1>3. Max(1 .. k) = k
  BY <1>2
<1> QED
  BY <1>1, <1>3

(* p goes through the values of the fold.                                  *)
StepByStep(p, n, base, step) ==
  p[0] = base /\ \A k \in 1 .. n : p[k] = step[<<p[k - 1], k>>]

(* ... and ends with its last.                                             *)
Ends(p, n, last) == p[n] = last

(* The values of a fold for the first positions, when it is known what a   *)
(* step makes of a value.                                                  *)
LEMMA FoldSteps ==
  ASSUME NEW n \in Nat, NEW X, NEW base \in X, NEW step \in [X \X (1 .. n) -> X], NEW H,
         H[1 .. 0] = base,
         \A k \in 1 .. n : H[1 .. k - 1] \in X => H[1 .. k] = step[<<H[1 .. k - 1], k>>]
  PROVE  \E p \in [0 .. n -> X] : StepByStep(p, n, base, step) /\ Ends(p, n, H[1 .. n])
<1> DEFINE p == [k \in 0 .. n |-> H[1 .. k]]
           S == {k \in 0 .. n : H[1 .. k] \in X}
<1>1. 0 \in S
  OBVIOUS
<1>2. \A k \in 0 .. n - 1 : k \in S => k + 1 \in S
  <2> TAKE k \in 0 .. n - 1
  <2> HAVE k \in S
  <2>1. k + 1 \in 1 .. n /\ k + 1 \in 0 .. n /\ (k + 1) - 1 = k
    OBVIOUS
  <2>2. H[1 .. k + 1] = step[<<H[1 .. k], k + 1>>]
    BY <2>1
  <2> QED  BY <2>1, <2>2
<1>3. 0 .. n \subseteq S
  <2> HIDE DEF S
  <2> QED  BY <1>1, <1>2, UpTo
<1>4. p \in [0 .. n -> X]
  BY <1>3
<1>5. \A k \in 1 .. n : p[k] = step[<<p[k - 1], k>>]
  <2> TAKE k \in 1 .. n
  <2>1. k \in 0 .. n /\ k - 1 \in 0 .. n
    OBVIOUS
  <2> QED  BY <1>3, <2>1
<1>6. p[0] = base /\ p[n] = H[1 .. n]
  OBVIOUS
<1> HIDE DEF p
<1> QED
  BY <1>4, <1>5, <1>6 DEF StepByStep, Ends

-----------------------------------------------------------------------------
(* Sums over sequences.                                                    *)

(* p[k] is the sum of the first k values of v.                             *)
Sums(p, n, v) ==
  /\ p \in [0 .. n -> Int] /\ p[0] = 0
  /\ \A k \in 1 .. n : p[k] = p[k - 1] + v[k]

(* Sums of values that begin in the same way begin in the same way.        *)
LEMMA SumsAgree ==
  ASSUME NEW n \in Nat, NEW m \in Nat, NEW k \in Nat, k <= n, k <= m,
         NEW v, NEW w, NEW p, NEW q, Sums(p, n, v), Sums(q, m, w),
         \A i \in 1 .. k : v[i] = w[i]
  PROVE  p[k] = q[k]
<1> DEFINE S == {i \in 0 .. k : p[i] = q[i]}
<1>1. 0 \in S
  BY DEF Sums
<1>2. \A i \in 0 .. k - 1 : i \in S => i + 1 \in S
  <2> TAKE i \in 0 .. k - 1
  <2> HAVE i \in S
  <2>1. i + 1 \in 1 .. n /\ i + 1 \in 1 .. m /\ i + 1 \in 1 .. k /\ (i + 1) - 1 = i
    OBVIOUS
  <2>2. p[i + 1] = p[i] + v[i + 1] /\ q[i + 1] = q[i] + w[i + 1]
    BY <2>1 DEF Sums
  <2> QED  BY <2>1, <2>2
<1>3. 0 .. k \subseteq S
  <2> HIDE DEF S
  <2> QED  BY <1>1, <1>2, UpTo
<1> QED
  BY <1>3

(* Sums of numbers that are not negative are not negative.                 *)
LEMMA SumsInNat ==
  ASSUME NEW n \in Nat, NEW v, NEW p, Sums(p, n, v), \A i \in 1 .. n : v[i] \in Nat
  PROVE  p \in [0 .. n -> Nat]
<1> DEFINE S == {i \in 0 .. n : p[i] \in Nat}
<1>1. 0 \in S
  BY DEF Sums
<1>2. \A i \in 0 .. n - 1 : i \in S => i + 1 \in S
  <2> TAKE i \in 0 .. n - 1
  <2> HAVE i \in S
  <2>1. i + 1 \in 1 .. n /\ i + 1 \in 0 .. n /\ (i + 1) - 1 = i
    OBVIOUS
  <2>2. p[i + 1] = p[i] + v[i + 1]
    BY <2>1 DEF Sums
  <2> QED  BY <2>1, <2>2
<1>3. 0 .. n \subseteq S
  <2> HIDE DEF S
  <2> QED  BY <1>1, <1>2, UpTo
<1>4. \A i \in 0 .. n : p[i] \in Nat
  BY <1>3
<1> QED
  BY <1>4 DEF Sums

-----------------------------------------------------------------------------
(* Selections.                                                             *)

(* The members of S in s, in their order.                                  *)
Selection(s, S) ==
  FoldLeft(LAMBDA found, m : IF m \in S THEN Append(found, m) ELSE found, <<>>, s)

(* p[k] are the members of S among the first k of s, in their order.       *)
Selects(p, s, S) ==
  /\ p[0] = <<>>
  /\ \A k \in 1 .. Len(s) : p[k] = IF s[k] \in S THEN Append(p[k - 1], s[k]) ELSE p[k - 1]

(* The fold that selects goes through the selections.                      *)
LEMMA SelectSteps ==
  ASSUME NEW E, NEW s \in Seq(E), NEW S
  PROVE  \E p \in [0 .. Len(s) -> Seq(E)] : Selects(p, s, S) /\ p[Len(s)] = Selection(s, S)
<1> DEFINE n == Len(s)
           step == [at \in Seq(E) \X (1 .. n) |-> IF s[at[2]] \in S THEN Append(at[1], s[at[2]]) ELSE at[1]]
           IsFold(h) == h = [t \in SUBSET (1 .. n) |->
                               IF t = {} THEN <<>>
                               ELSE IF s[Max(t)] \in S THEN Append(h[t \ {Max(t)}], s[Max(t)])
                               ELSE h[t \ {Max(t)}]]
           H == CHOOSE h : IsFold(h)
           p == [k \in 0 .. n |-> H[1 .. k]]
<1>1. n \in Nat /\ DOMAIN s = 1 .. n /\ \A i \in 1 .. n : s[i] \in E
  BY LenProperties, ElementOfSeq
<1>2. Selection(s, S) = H[1 .. n]
  BY <1>1 DEF Selection, FoldLeft, MapThenFoldSet
<1>3. step \in [Seq(E) \X (1 .. n) -> Seq(E)]
  BY <1>1
<1>4. \E h : h \in [SUBSET (1 .. n) -> Seq(E)] /\ IsFold(h)
  <2>1. PICK h \in [SUBSET (1 .. n) -> Seq(E)] : Folds(h, n, <<>>, step)
    <3> HIDE DEF step
    <3>1. <<>> \in Seq(E)
      OBVIOUS
    <3> QED  BY <1>1, <1>3, <3>1, FoldExists
  <2>2. \A t \in SUBSET (1 .. n) : t # {} =>
          step[<<h[t \ {Max(t)}], Max(t)>>] = IF s[Max(t)] \in S THEN Append(h[t \ {Max(t)}], s[Max(t)])
                                             ELSE h[t \ {Max(t)}]
    <3> SUFFICES ASSUME NEW t \in SUBSET (1 .. n), t # {}
                 PROVE  step[<<h[t \ {Max(t)}], Max(t)>>]
                          = IF s[Max(t)] \in S THEN Append(h[t \ {Max(t)}], s[Max(t)]) ELSE h[t \ {Max(t)}]
      OBVIOUS
    <3>1. t \in SUBSET (0 .. n)
      OBVIOUS
    <3>2. Max(t) \in 1 .. n
      BY <1>1, <3>1, MaxIsIn
    <3>3. h[t \ {Max(t)}] \in Seq(E)
      OBVIOUS
    <3> QED  BY <3>2, <3>3
  <2>3. IsFold(h)
    <3> HIDE DEF step
    <3> QED  BY <2>1, <2>2 DEF Folds
  <2> QED  BY <2>1, <2>3
<1>5. IsFold(H)
  <2> HIDE DEF IsFold
  <2> QED  BY <1>4
<1> HIDE DEF H
<1>6. p[0] = <<>>
  BY <1>1, <1>5, FirstPositions
<1>7. \A k \in 1 .. n : p[k] = IF s[k] \in S THEN Append(p[k - 1], s[k]) ELSE p[k - 1]
  <2> TAKE k \in 1 .. n
  <2>1. 1 .. k \in SUBSET (1 .. n) /\ 1 .. k # {} /\ Max(1 .. k) = k /\ (1 .. k) \ {k} = 1 .. k - 1
    BY <1>1, FirstPositions
  <2>2. H[1 .. k] = IF s[k] \in S THEN Append(H[1 .. k - 1], s[k]) ELSE H[1 .. k - 1]
    BY <1>5, <2>1
  <2>3. k - 1 \in 0 .. n /\ k \in 0 .. n
    BY <1>1
  <2> QED  BY <2>2, <2>3
<1> HIDE DEF n, p
<1>8. \A k \in 0 .. n : p[k] \in Seq(E)
  <2> DEFINE T == {k \in 0 .. n : p[k] \in Seq(E)}
  <2>1. 0 \in T
    <3>1. <<>> \in Seq(E) /\ 0 \in 0 .. n
      BY <1>1
    <3> QED  BY <1>6, <3>1
  <2>2. \A k \in 0 .. n - 1 : k \in T => k + 1 \in T
    <3> TAKE k \in 0 .. n - 1
    <3> HAVE k \in T
    <3>1. k + 1 \in 1 .. n /\ k + 1 \in 0 .. n /\ (k + 1) - 1 = k
      BY <1>1
    <3>2. p[k] \in Seq(E) /\ s[k + 1] \in E
      BY <1>1, <3>1
    <3>3. p[k + 1] = IF s[k + 1] \in S THEN Append(p[k], s[k + 1]) ELSE p[k]
      BY <1>7, <3>1
    <3>4. Append(p[k], s[k + 1]) \in Seq(E)
      BY <3>2, AppendProperties
    <3>5. p[k + 1] \in Seq(E)
      BY <3>2, <3>3, <3>4
    <3> QED  BY <3>1, <3>5
  <2>3. 0 .. n \subseteq T
    <3> HIDE DEF T
    <3> QED  BY <1>1, <2>1, <2>2, UpTo
  <2> QED  BY <2>3
<1>9. p \in [0 .. n -> Seq(E)] /\ p[n] = H[1 .. n]
  <2>1. n \in 0 .. n
    BY <1>1
  <2> QED  BY <1>8, <2>1 DEF p
<1>10. Selects(p, s, S)
  BY <1>6, <1>7 DEF Selects, n
<1> QED
  BY <1>2, <1>9, <1>10 DEF n

(* What can be said of the selection q from the first k members.           *)
Selected(q, k, s, S) ==
  /\ \A i \in 1 .. Len(q) : q[i] \in S /\ \E j \in 1 .. k : q[i] = s[j]
  /\ \A j \in 1 .. k : s[j] \in S => \E i \in 1 .. Len(q) : q[i] = s[j]
  /\ (\A i, j \in 1 .. Len(s) : s[i] = s[j] => i = j) =>
       \A i, j \in 1 .. Len(q) : q[i] = q[j] => i = j

(* A selection has the chosen members and no others, each as often as it   *)
(* is there: once if nothing is there twice.                               *)
LEMMA SelectIs ==
  ASSUME NEW E, NEW s \in Seq(E), NEW S, NEW p \in [0 .. Len(s) -> Seq(E)], Selects(p, s, S)
  PROVE  Selected(p[Len(s)], Len(s), s, S)
<1> DEFINE n == Len(s)
<1>1. n \in Nat /\ DOMAIN s = 1 .. n /\ \A i \in 1 .. n : s[i] \in E
  BY LenProperties, ElementOfSeq
<1>2. p \in [0 .. n -> Seq(E)] /\ Selects(p, s, S)
  OBVIOUS
<1> DEFINE Good(k) == Selected(p[k], k, s, S)
           T == {k \in 0 .. n : Good(k)}
<1> HIDE DEF n
<1>3. 0 \in T
  <2>1. p[0] = <<>> /\ Len(p[0]) = 0
    BY <1>2 DEF Selects
  <2>2. Good(0)
    BY <2>1 DEF Selected
  <2> QED  BY <1>1, <2>2
<1>4. \A k \in 0 .. n - 1 : k \in T => k + 1 \in T
  <2> TAKE k \in 0 .. n - 1
  <2> HAVE k \in T
  <2>1. k + 1 \in 1 .. n /\ k + 1 \in 0 .. n /\ (k + 1) - 1 = k /\ k \in 0 .. n
    BY <1>1
  <2>2. p[k + 1] = IF s[k + 1] \in S THEN Append(p[k], s[k + 1]) ELSE p[k]
    BY <1>2, <2>1 DEF Selects, n
  <2> DEFINE a == p[k]
             m == s[k + 1]
  <2>3. a \in Seq(E) /\ m \in E /\ Len(a) \in Nat
    BY <1>1, <1>2, <2>1
  <2>4. Good(k)
    OBVIOUS
  <2>5. CASE m \notin S
    <3>1. p[k + 1] = a
      BY <2>2, <2>5
    <3>2. \A j \in 1 .. k + 1 : s[j] \in S => j \in 1 .. k
      BY <2>1, <2>5
    <3>3. \A j \in 1 .. k : j \in 1 .. k + 1
      BY <2>1
    <3>4. Good(k + 1)
      BY <2>4, <3>1, <3>2, <3>3 DEF Selected
    <3> QED  BY <2>1, <3>4
  <2>6. CASE m \in S
    <3> DEFINE b == Append(a, m)
    <3>1. p[k + 1] = b
      BY <2>2, <2>6
    <3>2. Len(b) = Len(a) + 1 /\ b[Len(a) + 1] = m /\ \A i \in 1 .. Len(a) : b[i] = a[i]
      BY <2>3, AppendProperties
    <3> HIDE DEF b
    <3>3. \A i \in 1 .. Len(b) : i \in 1 .. Len(a) \/ i = Len(a) + 1
      BY <2>3, <3>2
    <3>4. \A i \in 1 .. Len(a) : i \in 1 .. Len(b)
      BY <2>3, <3>2
    <3>5. Len(a) + 1 \in 1 .. Len(b)
      BY <2>3, <3>2
    <3>6. \A i \in 1 .. Len(b) : b[i] \in S /\ \E j \in 1 .. k + 1 : b[i] = s[j]
      <4> TAKE i \in 1 .. Len(b)
      <4>1. CASE i = Len(a) + 1
        <5>1. k + 1 \in 1 .. k + 1
          BY <2>1
        <5> QED  BY <2>6, <3>2, <4>1, <5>1
      <4>2. CASE i \in 1 .. Len(a)
        <5>1. a[i] \in S /\ \E j \in 1 .. k : a[i] = s[j]
          BY <2>4, <4>2 DEF Selected
        <5>2. PICK j \in 1 .. k : a[i] = s[j]
          BY <5>1
        <5>3. j \in 1 .. k + 1 /\ b[i] = a[i]
          BY <2>1, <3>2, <4>2
        <5> QED  BY <5>1, <5>2, <5>3
      <4> QED  BY <3>3, <4>1, <4>2
    <3>7. \A j \in 1 .. k + 1 : s[j] \in S => \E i \in 1 .. Len(b) : b[i] = s[j]
      <4> TAKE j \in 1 .. k + 1
      <4> HAVE s[j] \in S
      <4>1. CASE j = k + 1
        BY <3>2, <3>5, <4>1
      <4>2. CASE j \in 1 .. k
        BY <2>4, <3>2, <3>4, <4>2 DEF Selected
      <4>3. j = k + 1 \/ j \in 1 .. k
        BY <2>1
      <4> QED  BY <4>1, <4>2, <4>3
    <3>8. ASSUME \A i, j \in 1 .. n : s[i] = s[j] => i = j
          PROVE  \A i, j \in 1 .. Len(b) : b[i] = b[j] => i = j
      <4>1. \A i \in 1 .. Len(a) : a[i] # m
        <5> TAKE i \in 1 .. Len(a)
        <5>1. PICK j \in 1 .. k : a[i] = s[j]
          BY <2>4 DEF Selected
        <5>2. j \in 1 .. n /\ j # k + 1
          BY <2>1
        <5> QED  BY <2>1, <3>8, <5>1, <5>2
      <4>2. \A i, j \in 1 .. Len(a) : a[i] = a[j] => i = j
        BY <2>4, <3>8 DEF Selected, n
      <4> HIDE DEF a, m
      <4> QED  BY <3>2, <3>3, <4>1, <4>2
    <3>9. Good(k + 1)
      BY <3>1, <3>6, <3>7, <3>8 DEF Selected, n
    <3> QED  BY <2>1, <3>9
  <2> QED  BY <2>5, <2>6
<1>5. 0 .. n \subseteq T
  <2> HIDE DEF T
  <2> QED  BY <1>1, <1>3, <1>4, UpTo
<1>6. Good(n)
  <2>1. n \in 0 .. n
    BY <1>1
  <2> QED  BY <1>2, <1>5, <2>1
<1> QED
  BY <1>6 DEF n
=============================================================================
