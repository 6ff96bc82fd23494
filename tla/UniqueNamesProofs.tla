-------------------------- MODULE UniqueNamesProofs --------------------------
(***************************************************************************)
(* Proofs about UniqueNames for every folder, length of names and number   *)
(* of digits: a name keeps its shape, and two siblings have the same one   *)
(* only where the code has no way to tell them apart.                      *)
(***************************************************************************)
EXTENDS UniqueNames, SequenceTheorems, WellFoundedInduction, TLAPS

Children == [name : Seq(DOMAIN CharD) \ {<<>>}, dir : BOOLEAN]

-----------------------------------------------------------------------------
(* Dots and lengths.                                                       *)

(* A set of numbers has a least one.                                       *)
LEMMA Least ==
  ASSUME NEW D \in SUBSET Nat, D # {}
  PROVE  \E m \in D : \A k \in D : m <= k
<1>1. IsWellFoundedOn(OpToRel(<, Nat), Nat)
  BY NatLessThanWellFounded
<1>2. PICK x \in D : \A y \in D : ~ (<<y, x>> \in OpToRel(<, Nat))
  BY <1>1, WFMin
<1>3. \A y \in D : ~(y < x)
  BY <1>2 DEF OpToRel
<1> QED
  BY <1>3

(* LastDot is the place of a dot with none after it, or 0.                 *)
LEMMA LastDotIs ==
  ASSUME NEW S, NEW s \in Seq(S)
  PROVE  /\ LastDot(s) \in 0 .. Len(s)
         /\ LastDot(s) > 0 => s[LastDot(s)] = "."
         /\ \A k \in LastDot(s) + 1 .. Len(s) : s[k] # "."
<1>1. Len(s) \in Nat /\ DOMAIN s = 1 .. Len(s)
  BY LenProperties
<1>2. CASE \E i \in DOMAIN s : s[i] = "."
  <2> DEFINE Behind == {Len(s) - i : i \in {j \in DOMAIN s : s[j] = "."}}
  <2>1. Behind # {} /\ Behind \in SUBSET Nat
    BY <1>1, <1>2
  <2> HIDE DEF Behind
  <2>2. PICK b \in Behind : \A k \in Behind : b <= k
    BY <2>1, Least
  <2>3. PICK i \in DOMAIN s : s[i] = "." /\ b = Len(s) - i
    BY <2>2 DEF Behind
  <2>4. \A j \in i + 1 .. Len(s) : s[j] # "."
    <3> SUFFICES ASSUME NEW j \in i + 1 .. Len(s), s[j] = "."
                 PROVE  FALSE
      OBVIOUS
    <3>1. j \in DOMAIN s
      BY <1>1, <2>3
    <3>2. Len(s) - j \in Behind
      BY <3>1 DEF Behind
    <3> QED  BY <1>1, <2>2, <2>3, <3>1, <3>2
  <2>5. LastDot(s) = CHOOSE p \in DOMAIN s : s[p] = "." /\ \A j \in p + 1 .. Len(s) : s[j] # "."
    BY <1>2 DEF LastDot
  <2>6. LastDot(s) \in DOMAIN s /\ s[LastDot(s)] = "."
          /\ \A j \in LastDot(s) + 1 .. Len(s) : s[j] # "."
    BY <2>3, <2>4, <2>5
  <2> QED  BY <1>1, <2>6
<1>3. CASE ~ \E i \in DOMAIN s : s[i] = "."
  <2>1. LastDot(s) = 0
    BY <1>3 DEF LastDot
  <2> QED  BY <1>1, <1>3, <2>1
<1> QED
  BY <1>2, <1>3

(* There is only one such place.                                           *)
LEMMA LastDotUnique ==
  ASSUME NEW S, NEW s \in Seq(S), NEW p \in 0 .. Len(s), p > 0 => s[p] = ".",
         \A k \in p + 1 .. Len(s) : s[k] # "."
  PROVE  LastDot(s) = p
<1>1. Len(s) \in Nat
  BY LenProperties
<1> QED
  BY <1>1, LastDotIs

-----------------------------------------------------------------------------
(* What is written.                                                        *)

(* The end of a name is the version of the child it is for.                *)
EndsInVersion(name, child) ==
  /\ name \in Seq(Characters) /\ Len(name) >= Len(VersionOf(child))
  /\ \A k \in 1 .. Len(VersionOf(child)) :
       name[Len(name) - Len(VersionOf(child)) + k] = VersionOf(child)[k]

(* Sequences written out.                                                  *)
LEMMA ShortSeqs ==
  ASSUME NEW S, NEW a \in S, NEW b \in S, NEW c \in S
  PROVE  /\ <<a>> \in Seq(S) /\ Len(<<a>>) = 1
         /\ <<a, b>> \in Seq(S) /\ Len(<<a, b>>) = 2
         /\ <<a, b, c>> \in Seq(S) /\ Len(<<a, b, c>>) = 3
  OBVIOUS

(* ";1", or nothing.                                                       *)
LEMMA VersionIs ==
  ASSUME NEW child
  PROVE  /\ VersionOf(child) \in Seq(Characters)
         /\ Len(VersionOf(child)) \in {0, 2}
         /\ \A k \in 1 .. Len(VersionOf(child)) : VersionOf(child)[k] # "."
<1>1. ";" \in Characters /\ "1" \in Characters
  BY DEF Characters
<1>2. CASE VersionOf(child) = <<";", "1">>
  <2>1. <<";", "1">> \in Seq(Characters) /\ Len(<<";", "1">>) = 2
    BY <1>1, ShortSeqs
  <2>2. <<";", "1">>[1] # "." /\ <<";", "1">>[2] # "."
    OBVIOUS
  <2>3. \A k \in 1 .. 2 : k = 1 \/ k = 2
    OBVIOUS
  <2> QED  BY <1>2, <2>1, <2>2, <2>3
<1>3. CASE VersionOf(child) = <<>>
  BY <1>3
<1> QED
  BY <1>2, <1>3 DEF VersionOf

(* The first characters of a name.                                         *)
LEMMA TakeIs ==
  ASSUME NEW S, NEW s \in Seq(S), NEW n \in Nat
  PROVE  Take(s, n) \in Seq(S) /\ Len(Take(s, n)) = IF Len(s) < n THEN Len(s) ELSE n
<1>1. Len(s) \in Nat /\ \A i \in 1 .. Len(s) : s[i] \in S
  BY LenProperties, ElementOfSeq
<1> DEFINE m == IF Len(s) < n THEN Len(s) ELSE n
<1>2. m \in Int /\ \A i \in 1 .. m : s[i] \in S
  BY <1>1
<1> HIDE DEF m
<1>3. SubSeq(s, 1, m) \in Seq(S) /\ Len(SubSeq(s, 1, m)) = IF 1 <= m THEN m - 1 + 1 ELSE 0
  BY <1>2, SubSeqProperties
<1> QED
  BY <1>1, <1>3 DEF m, Take

(* A name is split at its last dot.                                        *)
LEMMA PartsAre ==
  ASSUME NEW S, NEW s \in Seq(S), LastDot(s) # 0
  PROVE  BeforeDot(s) \in Seq(S) /\ AfterDot(s) \in Seq(S)
<1>1. Len(s) \in Nat /\ \A i \in 1 .. Len(s) : s[i] \in S
  BY LenProperties, ElementOfSeq
<1>2. LastDot(s) \in 1 .. Len(s)
  BY <1>1, LastDotIs
<1>3. LastDot(s) - 1 \in Int /\ \A i \in 1 .. LastDot(s) - 1 : s[i] \in S
  BY <1>1, <1>2
<1>4. LastDot(s) + 1 \in Int /\ \A i \in LastDot(s) + 1 .. Len(s) : s[i] \in S
  BY <1>1, <1>2
<1>5. SubSeq(s, 1, LastDot(s) - 1) \in Seq(S)
  BY <1>3, SubSeqProperties
<1>6. SubSeq(s, LastDot(s) + 1, Len(s)) \in Seq(S)
  BY <1>1, <1>4, SubSeqProperties
<1> QED
  BY <1>5, <1>6 DEF BeforeDot, AfterDot

(* Each character becomes one that ISO9660 has.                            *)
LEMMA MappedIs ==
  ASSUME NEW s \in Seq(DOMAIN CharD)
  PROVE  Mapped(s) \in Seq(Characters) /\ Len(Mapped(s)) = Len(s)
<1>1. Len(s) \in Nat /\ DOMAIN s = 1 .. Len(s) /\ \A i \in 1 .. Len(s) : s[i] \in DOMAIN CharD
  BY LenProperties, ElementOfSeq
<1>2. \A i \in 1 .. Len(s) : CharD[s[i]] \in Characters
  BY <1>1 DEF Characters, Range
<1>3. Mapped(s) \in [1 .. Len(s) -> Characters]
  BY <1>1, <1>2 DEF Mapped
<1> QED
  BY <1>1, <1>3

(* Each character becomes one that Joliet has.                             *)
LEMMA CopiedIs ==
  ASSUME NEW s \in Seq(Characters)
  PROVE  Copied(s) \in Seq(Characters) /\ Len(Copied(s)) = Len(s)
<1>1. Len(s) \in Nat /\ DOMAIN s = 1 .. Len(s) /\ \A i \in 1 .. Len(s) : s[i] \in Characters
  BY LenProperties, ElementOfSeq
<1>2. \A i \in 1 .. Len(s) : MadeChar(s[i]) \in Characters
  <2>1. "_" \in Characters
    BY DEF Characters
  <2> QED  BY <1>1, <2>1 DEF MadeChar
<1>3. Copied(s) \in [1 .. Len(s) -> Characters]
  BY <1>1, <1>2 DEF Copied
<1> QED
  BY <1>1, <1>3

(* What comes before the version is a name of its own.                     *)
LEMMA WithVersion ==
  ASSUME NEW body \in Seq(Characters), body # <<>>, NEW child
  PROVE  EndsInVersion(body \o VersionOf(child), child) /\ body \o VersionOf(child) # <<>>
<1> DEFINE version == VersionOf(child)
           name    == body \o version
<1>1. version \in Seq(Characters) /\ Len(version) \in Nat
  BY VersionIs, LenProperties
<1>2. Len(body) \in Nat \ {0}
  BY EmptySeq
<1> HIDE DEF version
<1>3. /\ name \in Seq(Characters) /\ Len(name) = Len(body) + Len(version)
      /\ \A i \in 1 .. Len(body) + Len(version) :
           name[i] = IF i <= Len(body) THEN body[i] ELSE version[i - Len(body)]
  BY <1>1, ConcatProperties
<1> HIDE DEF name
<1>4. Len(name) >= Len(version) /\ name # <<>>
  BY <1>1, <1>2, <1>3, EmptySeq
<1>5. \A k \in 1 .. Len(version) : name[Len(name) - Len(version) + k] = version[k]
  BY <1>1, <1>2, <1>3
<1> QED
  BY <1>3, <1>4, <1>5 DEF name, version, EndsInVersion

(* Base, dot and extension.                                                *)
LEMMA WithDot ==
  ASSUME NEW base \in Seq(Characters), NEW ext \in Seq(Characters)
  PROVE  base \o <<".">> \o ext \in Seq(Characters) /\ base \o <<".">> \o ext # <<>>
<1>1. <<".">> \in Seq(Characters) /\ Len(<<".">>) = 1
  BY ShortSeqs DEF Characters
<1>2. base \o <<".">> \in Seq(Characters) /\ Len(base \o <<".">>) = Len(base) + 1
  BY <1>1, ConcatProperties
<1>3. /\ (base \o <<".">>) \o ext \in Seq(Characters)
      /\ Len((base \o <<".">>) \o ext) = Len(base) + 1 + Len(ext)
  BY <1>2, ConcatProperties
<1>4. Len(base) \in Nat /\ Len(ext) \in Nat
  BY LenProperties
<1> QED
  BY <1>3, <1>4, EmptySeq

(* Both names of a child have characters, and the version at their end.    *)
LEMMA WrittenIs ==
  ASSUME NEW child \in Children, NEW f \in Forms
  PROVE  EndsInVersion(Written(f, child), child) /\ Written(f, child) # <<>>
<1> DEFINE name == child.name
<1>1. /\ name \in Seq(DOMAIN CharD) /\ name \in Seq(Characters)
      /\ Len(name) \in Nat \ {0}
  BY EmptySeq, SeqMonotonic DEF Children, Characters
<1>2. LastDot(name) # 0 =>
        /\ BeforeDot(name) \in Seq(DOMAIN CharD) /\ BeforeDot(name) \in Seq(Characters)
        /\ AfterDot(name) \in Seq(DOMAIN CharD) /\ AfterDot(name) \in Seq(Characters)
  BY <1>1, PartsAre
<1> HIDE DEF name
<1>3. CASE f = "iso"
  <2>1. CASE child.dir \/ LastDot(name) = 0
    <3>1. Take(name, MaxBase) \in Seq(DOMAIN CharD) /\ Len(Take(name, MaxBase)) # 0
      BY <1>1, TakeIs, LengthAssumption
    <3>2. Mapped(Take(name, MaxBase)) \in Seq(Characters) /\ Mapped(Take(name, MaxBase)) # <<>>
      BY <3>1, MappedIs, EmptySeq
    <3> QED  BY <1>3, <2>1, <3>2, WithVersion DEF Written, WriteIso, name
  <2>2. CASE ~(child.dir \/ LastDot(name) = 0)
    <3> DEFINE base == Mapped(Take(BeforeDot(name), MaxBase))
               ext  == Mapped(Take(AfterDot(name), MaxExt))
    <3>1. base \in Seq(Characters) /\ ext \in Seq(Characters)
      BY <1>2, <2>2, TakeIs, MappedIs, LengthAssumption
    <3>2. Written(f, child) = (base \o <<".">> \o ext) \o VersionOf(child)
      BY <1>3, <2>2 DEF Written, WriteIso, name
    <3> HIDE DEF base, ext
    <3> QED  BY <3>1, <3>2, WithDot, WithVersion
  <2> QED  BY <2>1, <2>2
<1>4. CASE f = "joliet"
  <2>1. CASE Len(name) <= MaxName
    <3>1. Copied(name) \in Seq(Characters) /\ Copied(name) # <<>>
      BY <1>1, CopiedIs, EmptySeq
    <3> QED  BY <1>4, <2>1, <3>1, WithVersion DEF Written, WriteJoliet, name
  <2>2. CASE ~(Len(name) <= MaxName) /\ LastDot(name) = 0
    <3>1. Take(name, MaxName) \in Seq(Characters) /\ Len(Take(name, MaxName)) # 0
      BY <1>1, TakeIs, LengthAssumption
    <3>2. Copied(Take(name, MaxName)) \in Seq(Characters) /\ Copied(Take(name, MaxName)) # <<>>
      BY <3>1, CopiedIs, EmptySeq
    <3> QED  BY <1>4, <2>2, <3>2, WithVersion DEF Written, WriteJoliet, name
  <2>3. CASE ~(Len(name) <= MaxName) /\ LastDot(name) # 0
    <3> DEFINE ext  == Take(AfterDot(name), MaxName - 1)
               base == Take(BeforeDot(name), MaxName - 1 - Len(ext))
    <3>1. MaxName - 1 \in Nat
      BY LengthAssumption
    <3>2. /\ ext \in Seq(Characters)
          /\ Len(ext) = IF Len(AfterDot(name)) < MaxName - 1 THEN Len(AfterDot(name)) ELSE MaxName - 1
      BY <1>2, <2>3, <3>1, TakeIs
    <3>3. Len(AfterDot(name)) \in Nat
      BY <1>2, <2>3, LenProperties
    <3>4. MaxName - 1 - Len(ext) \in Nat
      BY <3>1, <3>2, <3>3
    <3>5. base \in Seq(Characters)
      BY <1>2, <2>3, <3>4, TakeIs
    <3>6. Written(f, child) = (Copied(base) \o <<".">> \o Copied(ext)) \o VersionOf(child)
      BY <1>4, <2>3 DEF Written, WriteJoliet, name
    <3> HIDE DEF base, ext
    <3>7. Copied(base) \in Seq(Characters) /\ Copied(ext) \in Seq(Characters)
      BY <3>2, <3>5, CopiedIs
    <3> QED  BY <3>6, <3>7, WithDot, WithVersion
  <2> QED  BY <2>1, <2>2, <2>3
<1> QED
  BY <1>3, <1>4 DEF Forms

(* The base ends before the extension, which ends before the version.      *)
LEMMA BaseEndIs ==
  ASSUME NEW child, NEW name, EndsInVersion(name, child)
  PROVE  /\ BaseEnd(name, child) \in 0 .. Len(name) - Len(VersionOf(child))
         /\ LastDot(name) \in 0 .. Len(name)
         /\ LastDot(name) > 0 => BaseEnd(name, child) = LastDot(name) - 1
         /\ LastDot(name) = 0 => BaseEnd(name, child) = Len(name) - Len(VersionOf(child))
<1>1. /\ Len(name) \in Nat /\ Len(VersionOf(child)) \in {0, 2}
      /\ Len(name) >= Len(VersionOf(child))
  BY VersionIs, LenProperties DEF EndsInVersion
<1>2. LastDot(name) \in 0 .. Len(name) /\ (LastDot(name) > 0 => name[LastDot(name)] = ".")
  BY LastDotIs DEF EndsInVersion
<1>3. LastDot(name) <= Len(name) - Len(VersionOf(child))
  <2> SUFFICES ASSUME LastDot(name) > Len(name) - Len(VersionOf(child))
               PROVE  FALSE
    BY <1>1, <1>2
  <2> DEFINE k == LastDot(name) - (Len(name) - Len(VersionOf(child)))
  <2>1. k \in 1 .. Len(VersionOf(child)) /\ Len(name) - Len(VersionOf(child)) + k = LastDot(name)
    BY <1>1, <1>2
  <2> HIDE DEF k
  <2>2. name[LastDot(name)] = VersionOf(child)[k]
    BY <2>1 DEF EndsInVersion
  <2>3. VersionOf(child)[k] # "."
    BY <2>1, VersionIs
  <2>4. LastDot(name) > 0
    BY <1>1, <1>2
  <2> QED  BY <1>2, <2>2, <2>3, <2>4
<1> QED
  BY <1>1, <1>2, <1>3 DEF BaseEnd

-----------------------------------------------------------------------------
(* Numbers.                                                                *)

(* A number has one to three digits, and a greater one has no fewer.       *)
LEMMA DigitsAre ==
  ASSUME NEW n \in 0 .. LastNumber
  PROVE  /\ DigitsOf(n) \in Seq(Range(Digits)) /\ Len(DigitsOf(n)) \in 1 .. 3
         /\ \A m \in 0 .. n : Len(DigitsOf(m)) <= Len(DigitsOf(n))
<1> DEFINE radix    == Len(Digits)
           Digit(k) == Digits[(k % radix) + 1]
           square   == radix * radix
<1>1. radix \in Nat \ {0}
  <2>1. radix \in Nat
    BY NumberAssumption, LenProperties
  <2>2. radix # 0
    BY NumberAssumption
  <2> QED  BY <2>1, <2>2
<1>2. \A k \in Int : Digit(k) \in Range(Digits)
  <2> SUFFICES ASSUME NEW k \in Int
               PROVE  Digit(k) \in Range(Digits)
    OBVIOUS
  <2>1. (k % radix) + 1 \in 1 .. radix
    BY <1>1
  <2> QED  BY <2>1, NumberAssumption, ElementOfSeq
<1>3. \A k \in 0 .. LastNumber :
        /\ k < radix => DigitsOf(k) = <<Digit(k)>>
        /\ ~(k < radix) /\ k < square => DigitsOf(k) = <<Digit(k \div radix), Digit(k)>>
        /\ ~(k < radix) /\ ~(k < square) =>
             DigitsOf(k) = <<Digit(k \div square), Digit(k \div radix), Digit(k)>>
  BY DEF DigitsOf
<1>4. square \in Nat \ {0}
  BY <1>1
<1>5. \A k \in 0 .. LastNumber :
        Digit(k) \in Range(Digits) /\ Digit(k \div radix) \in Range(Digits)
          /\ Digit(k \div square) \in Range(Digits)
  <2> SUFFICES ASSUME NEW k \in 0 .. LastNumber
               PROVE  Digit(k) \in Range(Digits) /\ Digit(k \div radix) \in Range(Digits)
                        /\ Digit(k \div square) \in Range(Digits)
    OBVIOUS
  <2> HIDE DEF Digit, square, radix
  <2>1. k \in Int /\ k \div radix \in Int /\ k \div square \in Int
    BY <1>1, <1>4, NumberAssumption
  <2> QED  BY <1>2, <2>1
<1> HIDE DEF Digit, square, radix
<1>6. \A k \in 0 .. LastNumber :
        /\ DigitsOf(k) \in Seq(Range(Digits))
        /\ Len(DigitsOf(k)) = IF k < radix THEN 1 ELSE IF k < square THEN 2 ELSE 3
  <2> SUFFICES ASSUME NEW k \in 0 .. LastNumber
               PROVE  /\ DigitsOf(k) \in Seq(Range(Digits))
                      /\ Len(DigitsOf(k)) = IF k < radix THEN 1 ELSE IF k < square THEN 2 ELSE 3
    OBVIOUS
  <2>1. /\ Digit(k) \in Range(Digits) /\ Digit(k \div radix) \in Range(Digits)
        /\ Digit(k \div square) \in Range(Digits)
    BY <1>5
  <2>2. CASE k < radix
    BY <1>3, <2>1, <2>2, ShortSeqs
  <2>3. CASE ~(k < radix) /\ k < square
    BY <1>3, <2>1, <2>3, ShortSeqs
  <2>4. CASE ~(k < radix) /\ ~(k < square)
    BY <1>3, <2>1, <2>4, ShortSeqs
  <2> QED  BY <2>2, <2>3, <2>4
<1>7. n \in 0 .. LastNumber /\ LastNumber \in Nat
  BY NumberAssumption
<1>8. DigitsOf(n) \in Seq(Range(Digits)) /\ Len(DigitsOf(n)) \in 1 .. 3
  BY <1>6, <1>7
<1>9. \A m \in 0 .. n : Len(DigitsOf(m)) <= Len(DigitsOf(n))
  <2> TAKE m \in 0 .. n
  <2>1. m \in 0 .. LastNumber /\ m <= n
    BY <1>7
  <2>2. radix \in Nat /\ square \in Nat
    BY <1>1, <1>4
  <2>3. (n < radix => m < radix) /\ (n < square => m < square)
    BY <1>7, <2>1, <2>2
  <2> QED  BY <1>6, <1>7, <2>1, <2>3
<1> QED
  BY <1>8, <1>9

(* The room for a number, and what a number leaves as it was.              *)
HasRoom(name, child) == EndsInVersion(name, child) /\ BaseEnd(name, child) > MinBase

(* What a number goes over.                                                *)
LEMMA NumberedAt ==
  ASSUME NEW child, NEW name, HasRoom(name, child), NEW n \in 2 .. LastNumber
  PROVE  LET end == BaseEnd(name, child)
             d   == DigitsOf(n)
         IN /\ Numbered(name, child, n) \in Seq(Characters)
            /\ Len(Numbered(name, child, n)) = Len(name)
            /\ \A k \in 1 .. Len(name) :
                 Numbered(name, child, n)[k] =
                   IF k \in end - Len(d) + 1 .. end THEN d[k - end + Len(d)] ELSE name[k]
            /\ \A k \in end - Len(d) + 1 .. end :
                 k \in 2 .. Len(name) /\ d[k - end + Len(d)] \in Range(Digits)
<1> DEFINE end == BaseEnd(name, child)
           d   == DigitsOf(n)
<1>1. /\ name \in Seq(Characters) /\ Len(name) \in Nat /\ DOMAIN name = 1 .. Len(name)
      /\ \A k \in 1 .. Len(name) : name[k] \in Characters
  BY LenProperties, ElementOfSeq DEF HasRoom, EndsInVersion
<1>2. end \in 4 .. Len(name)
  <2>1. end \in 0 .. Len(name) - Len(VersionOf(child)) /\ Len(VersionOf(child)) \in {0, 2}
    BY BaseEndIs, VersionIs DEF HasRoom
  <2> QED  BY <1>1, <2>1, NumberAssumption DEF HasRoom
<1>3. d \in Seq(Range(Digits)) /\ Len(d) \in 1 .. 3
  BY DigitsAre, NumberAssumption
<1>4. \A k \in 1 .. Len(d) : d[k] \in Range(Digits)
  BY <1>3, ElementOfSeq
<1>5. Numbered(name, child, n) =
        [k \in 1 .. Len(name) |->
           IF k \in end - Len(d) + 1 .. end THEN d[k - end + Len(d)] ELSE name[k]]
  BY <1>1 DEF Numbered
<1> HIDE DEF end, d
<1>6. \A k \in end - Len(d) + 1 .. end :
        k \in 2 .. Len(name) /\ d[k - end + Len(d)] \in Range(Digits)
  BY <1>1, <1>2, <1>3, <1>4
<1>7. Numbered(name, child, n) \in [1 .. Len(name) -> Characters]
  BY <1>1, <1>5, <1>6 DEF Characters
<1> QED
  BY <1>1, <1>5, <1>6, <1>7 DEF end, d

(* The first character and everything behind the base; and no dot that was *)
(* not there, so that the base is found again.                             *)
SameShape(name, written, child) ==
  /\ name \in Seq(Characters) /\ Len(name) = Len(written)
  /\ \A k \in 1 .. Len(written) :
       k = 1 \/ k > BaseEnd(written, child) => name[k] = written[k]
  /\ LastDot(name) = LastDot(written)

(* A numbered name has the shape of the one that was written.              *)
LEMMA NumberedIs ==
  ASSUME NEW child, NEW name, HasRoom(name, child), NEW n \in 2 .. LastNumber
  PROVE  SameShape(Numbered(name, child, n), name, child)
<1> DEFINE end == BaseEnd(name, child)
           m   == Numbered(name, child, n)
<1>1. /\ m \in Seq(Characters) /\ Len(m) = Len(name) /\ Len(name) \in Nat
      /\ \A k \in 1 .. Len(name) : m[k] = name[k] \/ (k \in 2 .. end /\ m[k] # ".")
  <2> DEFINE d == DigitsOf(n)
  <2>1. /\ m \in Seq(Characters) /\ Len(m) = Len(name)
        /\ \A k \in 1 .. Len(name) :
             m[k] = IF k \in end - Len(d) + 1 .. end THEN d[k - end + Len(d)] ELSE name[k]
        /\ \A k \in end - Len(d) + 1 .. end :
             k \in 2 .. Len(name) /\ d[k - end + Len(d)] \in Range(Digits)
    BY NumberedAt
  <2>2. Len(name) \in Nat /\ end \in Int /\ Len(d) \in Nat
    BY BaseEndIs, DigitsAre, LenProperties, VersionIs, NumberAssumption DEF HasRoom, EndsInVersion
  <2> HIDE DEF m, end, d
  <2>3. \A k \in end - Len(d) + 1 .. end : d[k - end + Len(d)] # "."
    BY <2>1, NumberAssumption
  <2>4. \A k \in end - Len(d) + 1 .. end : k \in 2 .. end
    <3> SUFFICES ASSUME NEW k \in end - Len(d) + 1 .. end
                 PROVE  k \in 2 .. end
      OBVIOUS
    <3>1. k \in 2 .. Len(name)
      BY <2>1
    <3> QED  BY <2>2, <3>1
  <2> QED  BY <2>1, <2>2, <2>3, <2>4
<1>2. /\ LastDot(name) \in 0 .. Len(name)
      /\ LastDot(name) > 0 => name[LastDot(name)] = "." /\ end = LastDot(name) - 1
      /\ \A k \in LastDot(name) + 1 .. Len(name) : name[k] # "."
      /\ end \in Int
  BY BaseEndIs, LastDotIs, VersionIs, LenProperties DEF HasRoom, EndsInVersion
<1> HIDE DEF m, end
<1>3. LastDot(m) = LastDot(name)
  <2>1. LastDot(name) > 0 => m[LastDot(name)] = "."
    <3> SUFFICES ASSUME LastDot(name) > 0
                 PROVE  m[LastDot(name)] = "."
      OBVIOUS
    <3>1. LastDot(name) \in 1 .. Len(name) /\ ~(LastDot(name) \in 2 .. end)
      BY <1>1, <1>2
    <3> QED  BY <1>1, <1>2, <3>1
  <2>2. \A k \in LastDot(name) + 1 .. Len(m) : m[k] # "."
    BY <1>1, <1>2
  <2> QED  BY <1>1, <1>2, <2>1, <2>2, LastDotUnique
<1>4. \A k \in 1 .. Len(name) : k = 1 \/ k > end => m[k] = name[k]
  BY <1>1, <1>2
<1> QED
  BY <1>1, <1>3, <1>4 DEF m, end, SameShape

(* A name of the same shape has the same version and the same base.        *)
LEMMA ShapeKept ==
  ASSUME NEW child, NEW written, EndsInVersion(written, child),
         NEW name, SameShape(name, written, child)
  PROVE  EndsInVersion(name, child) /\ BaseEnd(name, child) = BaseEnd(written, child)
<1> DEFINE version == VersionOf(child)
<1>1. /\ Len(written) \in Nat /\ Len(version) \in {0, 2} /\ Len(name) = Len(written)
      /\ Len(written) >= Len(version)
  BY VersionIs, LenProperties DEF EndsInVersion, SameShape
<1>2. BaseEnd(written, child) \in 0 .. Len(written) - Len(version)
  BY BaseEndIs
<1> HIDE DEF version
<1>3. \A k \in 1 .. Len(version) :
        name[Len(name) - Len(version) + k] = written[Len(written) - Len(version) + k]
  <2> TAKE k \in 1 .. Len(version)
  <2> DEFINE j == Len(written) - Len(version) + k
  <2>1. j \in 1 .. Len(written) /\ j > BaseEnd(written, child)
    BY <1>1, <1>2
  <2> HIDE DEF j
  <2>2. name[j] = written[j]
    BY <2>1 DEF SameShape
  <2> QED  BY <1>1, <2>2 DEF j
<1>4. EndsInVersion(name, child)
  BY <1>1, <1>3 DEF version, EndsInVersion, SameShape
<1>5. BaseEnd(name, child) = BaseEnd(written, child)
  BY <1>1 DEF BaseEnd, SameShape, version
<1> QED
  BY <1>4, <1>5

(* The next number goes over all digits of the one before.                 *)
LEMMA NumberedAgain ==
  ASSUME NEW child, NEW name, HasRoom(name, child), NEW n \in 3 .. LastNumber
  PROVE  Numbered(Numbered(name, child, n - 1), child, n) = Numbered(name, child, n)
<1> DEFINE end  == BaseEnd(name, child)
           last == Numbered(name, child, n - 1)
           d    == DigitsOf(n)
           e    == DigitsOf(n - 1)
<1>1. n - 1 \in 2 .. LastNumber /\ n \in 2 .. LastNumber
  BY NumberAssumption
<1>2. HasRoom(last, child) /\ BaseEnd(last, child) = end
  BY <1>1, NumberedIs, ShapeKept DEF HasRoom
<1>3. Len(e) <= Len(d) /\ Len(d) \in Nat /\ Len(e) \in Nat
  BY <1>1, DigitsAre, NumberAssumption
<1>4. Len(name) \in Nat /\ end \in Int
  BY BaseEndIs, VersionIs, LenProperties DEF HasRoom, EndsInVersion
<1>5. /\ last \in Seq(Characters) /\ Len(last) = Len(name)
      /\ \A k \in 1 .. Len(name) :
           last[k] = IF k \in end - Len(e) + 1 .. end THEN e[k - end + Len(e)] ELSE name[k]
  BY <1>1, NumberedAt
<1>6. /\ Numbered(name, child, n) \in Seq(Characters) /\ Len(Numbered(name, child, n)) = Len(name)
      /\ \A k \in 1 .. Len(name) :
           Numbered(name, child, n)[k] =
             IF k \in end - Len(d) + 1 .. end THEN d[k - end + Len(d)] ELSE name[k]
  BY <1>1, NumberedAt
<1>7. /\ Numbered(last, child, n) \in Seq(Characters) /\ Len(Numbered(last, child, n)) = Len(last)
      /\ \A k \in 1 .. Len(last) :
           Numbered(last, child, n)[k] =
             IF k \in end - Len(d) + 1 .. end THEN d[k - end + Len(d)] ELSE last[k]
  BY <1>1, <1>2, NumberedAt
<1> HIDE DEF end, last, d, e
<1>8. \A k \in 1 .. Len(name) : Numbered(last, child, n)[k] = Numbered(name, child, n)[k]
  BY <1>3, <1>4, <1>5, <1>6, <1>7
<1>9. Numbered(last, child, n) = Numbered(name, child, n)
  BY <1>5, <1>6, <1>7, <1>8, SeqEqual
<1> QED
  BY <1>9 DEF last

(* Names that are the same but for the version collide.                    *)
LEMMA SameStemCollides ==
  ASSUME NEW f \in Forms, NEW a, NEW b, NEW early, NEW late,
         EndsInVersion(a, early), EndsInVersion(b, late),
         Stem(a, early) = Stem(b, late), f = "joliet" => early.dir = late.dir
  PROVE  Collides(f, b, late, a)
<1> DEFINE enda == Len(a) - Len(VersionOf(early))
           endb == Len(b) - Len(VersionOf(late))
<1>1. /\ a \in Seq(Characters) /\ Len(a) \in Nat /\ enda \in 0 .. Len(a)
      /\ b \in Seq(Characters) /\ Len(b) \in Nat /\ endb \in 0 .. Len(b)
  BY VersionIs, LenProperties DEF EndsInVersion
<1>2. \A k \in 1 .. Len(a) : a[k] \in Characters
  BY <1>1, ElementOfSeq
<1>3. \A k \in 1 .. Len(b) : b[k] \in Characters
  BY <1>1, ElementOfSeq
<1>4. SubSeq(a, 1, enda) = SubSeq(b, 1, endb)
  BY DEF Stem
<1>5. CASE f = "iso"
  <2> HIDE DEF enda, endb
  <2>1. Len(SubSeq(a, 1, enda)) = enda
    BY <1>1, <1>2, SubSeqProperties
  <2>2. Len(SubSeq(b, 1, endb)) = endb
    BY <1>1, <1>3, SubSeqProperties
  <2>3. enda = endb
    BY <1>4, <2>1, <2>2
  <2> QED  BY <1>1, <1>4, <1>5, <2>3 DEF Collides, endb
<1>6. CASE f = "joliet"
  <2> DEFINE version == VersionOf(late)
  <2>1. VersionOf(early) = version
    BY <1>6 DEF VersionOf
  <2>2. Len(version) \in Nat
    BY VersionIs
  <2>3. /\ \A k \in 1 .. Len(version) : a[Len(a) - Len(version) + k] = version[k]
        /\ \A k \in 1 .. Len(version) : b[Len(b) - Len(version) + k] = version[k]
    BY <2>1 DEF EndsInVersion
  <2>4. enda = Len(a) - Len(version) /\ endb = Len(b) - Len(version)
    BY <2>1
  <2> HIDE DEF enda, endb, version
  <2>5. Len(SubSeq(a, 1, enda)) = enda /\ \A k \in 1 .. enda : SubSeq(a, 1, enda)[k] = a[k]
    BY <1>1, <1>2, SubSeqProperties
  <2>6. Len(SubSeq(b, 1, endb)) = endb /\ \A k \in 1 .. endb : SubSeq(b, 1, endb)[k] = b[k]
    BY <1>1, <1>3, SubSeqProperties
  <2>7. enda = endb
    BY <1>4, <2>5, <2>6
  <2>8. \A k \in 1 .. enda : a[k] = b[k]
    BY <1>4, <2>5, <2>6, <2>7
  <2>9. \A k \in 1 .. Len(a) : a[k] = b[k]
    <3> SUFFICES ASSUME NEW k \in 1 .. Len(a), k > enda
                 PROVE  a[k] = b[k]
      BY <1>1, <2>8
    <3>1. /\ k - enda \in 1 .. Len(version)
          /\ Len(a) - Len(version) + (k - enda) = k /\ Len(b) - Len(version) + (k - enda) = k
      BY <1>1, <2>2, <2>4, <2>7
    <3> QED  BY <2>3, <3>1
  <2>10. Len(a) = Len(b)
    BY <1>1, <2>2, <2>4, <2>7
  <2> QED  BY <1>1, <1>6, <2>9, <2>10, SeqEqual DEF Collides
<1> QED
  BY <1>5, <1>6 DEF Forms

-----------------------------------------------------------------------------
(***************************************************************************)
(* The invariant.  A name is the one that was written or a numbered form   *)
(* of that, never a number over a number; and of the numbered forms before *)
(* the candidate each has been met among the earlier siblings, which keep  *)
(* their names.                                                            *)
(***************************************************************************)
HasName(f, i) == i < at \/ (i = at /\ f = "iso" /\ form = "joliet")

TakenBefore(f, j, name) == \E i \in 1 .. j - 1 : Collides(f, name, folder[j], names[f][i])

NumberTaken(f, j, n) == TakenBefore(f, j, Numbered(Written(f, folder[j]), folder[j], n))

Counters ==
  /\ folder \in Folders
  /\ at \in 1 .. Len(folder) + 1
  /\ form \in Forms
  /\ number \in 2 .. LastNumber
  /\ candidate = <<>> => number = 2

NamesWritten ==
  /\ names \in [Forms -> [DOMAIN folder -> Seq(Characters)]]
  /\ \A f \in Forms : \A i \in DOMAIN folder :
       /\ names[f][i] # <<>> <=> HasName(f, i)
       /\ HasName(f, i) => SameShape(names[f][i], Written(f, folder[i]), folder[i])

CandidateTried ==
  candidate # <<>> =>
    /\ at <= Len(folder)
    /\ HasRoom(Written(form, Child), Child)
    /\ candidate = IF number = 2 THEN Written(form, Child)
                   ELSE Numbered(Written(form, Child), Child, number - 1)
    /\ \A n \in 2 .. number - 2 : NumberTaken(form, at, n)

ToldApart ==
  \A f \in Forms : \A i, j \in DOMAIN folder :
    /\ i < j /\ names[f][j] # <<>>
    /\ Stem(names[f][i], folder[i]) = Stem(names[f][j], folder[j])
    /\ f = "joliet" => folder[i].dir = folder[j].dir
    => BaseEnd(names[f][j], folder[j]) <= MinBase \/ <<f, j>> \in warned

WarnedLate ==
  /\ warned \subseteq Forms \X DOMAIN folder
  /\ \A w \in warned : w[2] <= at /\ \A n \in 2 .. LastNumber - 1 : NumberTaken(w[1], w[2], n)

NamesInv == Counters /\ NamesWritten /\ CandidateTried /\ ToldApart /\ WarnedLate

(* Before the first child nothing has a name.                              *)
LEMMA InitNames == Init => NamesInv
<1> SUFFICES ASSUME Init
             PROVE  NamesInv
  OBVIOUS
<1>1. folder \in Seq(Children) /\ Len(folder) \in Nat /\ DOMAIN folder = 1 .. Len(folder)
  BY FoldersAssumption, LenProperties DEF Init, Children
<1>2. /\ names \in [Forms -> [DOMAIN folder -> Seq(Characters)]]
      /\ \A f \in Forms : \A i \in DOMAIN folder : names[f][i] = <<>>
  BY EmptySeq DEF Init, Forms
<1>3. Counters
  BY <1>1, NumberAssumption DEF Init, Counters, Forms
<1>4. NamesWritten
  <2>1. \A f \in Forms : \A i \in DOMAIN folder : ~HasName(f, i)
    BY <1>1 DEF Init, HasName
  <2> QED  BY <1>2, <2>1 DEF NamesWritten
<1>5. CandidateTried
  BY DEF Init, CandidateTried
<1>6. ToldApart /\ WarnedLate
  BY <1>2 DEF Init, ToldApart, WarnedLate
<1> QED
  BY <1>3, <1>4, <1>5, <1>6 DEF NamesInv

(* What the invariant says of the folder, and of the child that is next.   *)
LEMMA FolderIs ==
  ASSUME NamesInv
  PROVE  /\ Len(folder) \in Nat /\ DOMAIN folder = 1 .. Len(folder) /\ at \in Nat \ {0}
         /\ \A i \in DOMAIN folder : folder[i] \in Children
         /\ at <= Len(folder) => at \in DOMAIN folder
<1>1. folder \in Seq(Children) /\ at \in 1 .. Len(folder) + 1
  BY FoldersAssumption DEF NamesInv, Counters, Children
<1>2. Len(folder) \in Nat /\ DOMAIN folder = 1 .. Len(folder)
  BY <1>1, LenProperties
<1> QED
  BY <1>1, <1>2, ElementOfSeq

(* A number goes on being taken when a later child gets its name.          *)
LEMMA StillTaken ==
  ASSUME NamesInv, NEW f \in Forms, NEW j \in DOMAIN folder, j <= at, NEW n,
         NumberTaken(f, j, n), folder' = folder,
         \A g \in Forms : \A i \in DOMAIN folder : i # at => names'[g][i] = names[g][i]
  PROVE  NumberTaken(f, j, n)'
<1>1. PICK i \in 1 .. j - 1 :
        Collides(f, Numbered(Written(f, folder[j]), folder[j], n), folder[j], names[f][i])
  BY DEF NumberTaken, TakenBefore
<1>2. i \in DOMAIN folder /\ i # at
  BY FolderIs
<1>3. names'[f][i] = names[f][i]
  BY <1>2
<1> QED
  BY <1>1, <1>3 DEF NumberTaken, TakenBefore

(* A child gets a name that is told apart, or cannot be.                   *)
LEMMA AssignNames ==
  ASSUME NamesInv, at <= Len(folder), NEW name, Assign(name), folder' = folder,
         SameShape(name, Written(form, Child), Child),
         \/ warned' = warned
         \/ /\ warned' = warned \cup {<<form, at>>}
            /\ \A n \in 2 .. LastNumber - 1 : NumberTaken(form, at, n),
         \/ BaseEnd(name, Child) <= MinBase
         \/ <<form, at>> \in warned'
         \/ \A i \in 1 .. at - 1 : ~Collides(form, name, Child, names[form][i])
  PROVE  NamesInv'
<1>1. /\ Len(folder) \in Nat /\ DOMAIN folder = 1 .. Len(folder) /\ at \in DOMAIN folder
      /\ \A i \in DOMAIN folder : folder[i] \in Children
      /\ at \in Nat \ {0} /\ form \in Forms /\ folder \in Folders
  BY FolderIs DEF NamesInv, Counters
<1>2. name \in Seq(Characters) /\ name # <<>>
  <2>1. EndsInVersion(Written(form, Child), Child) /\ Written(form, Child) # <<>>
    BY <1>1, WrittenIs DEF Child
  <2>2. Len(Written(form, Child)) # 0
    BY <2>1, EmptySeq DEF EndsInVersion
  <2> QED  BY <2>2, EmptySeq DEF SameShape
<1>3. /\ names' \in [Forms -> [DOMAIN folder -> Seq(Characters)]]
      /\ \A f \in Forms : \A i \in DOMAIN folder :
           names'[f][i] = IF f = form /\ i = at THEN name ELSE names[f][i]
  BY <1>1, <1>2 DEF Assign, NamesInv, NamesWritten
<1>4. /\ candidate' = <<>> /\ number' = 2
      /\ \/ form = "iso" /\ form' = "joliet" /\ at' = at
         \/ form = "joliet" /\ form' = "iso" /\ at' = at + 1
  BY <1>1 DEF Assign, Forms
<1>5. \A f \in Forms : \A i \in DOMAIN folder :
        HasName(f, i)' <=> HasName(f, i) \/ (f = form /\ i = at)
  BY <1>1, <1>4 DEF HasName, Forms
<1>6. Counters'
  BY <1>1, <1>4, NumberAssumption DEF Counters, Forms
<1>7. NamesWritten'
  <2> SUFFICES ASSUME NEW f \in Forms, NEW i \in DOMAIN folder
               PROVE  /\ names'[f][i] # <<>> <=> HasName(f, i)'
                      /\ HasName(f, i)' =>
                           SameShape(names'[f][i], Written(f, folder[i]), folder[i])
    BY <1>3 DEF NamesWritten
  <2>1. CASE f = form /\ i = at
    BY <1>1, <1>2, <1>3, <1>5, <2>1 DEF Child
  <2>2. CASE ~(f = form /\ i = at)
    BY <1>1, <1>3, <1>5, <2>2 DEF NamesInv, NamesWritten
  <2> QED  BY <2>1, <2>2
<1>8. CandidateTried'
  BY <1>4 DEF CandidateTried
<1>9. ToldApart'
  <2> SUFFICES ASSUME NEW f \in Forms, NEW i \in DOMAIN folder, NEW j \in DOMAIN folder,
                      i < j, names'[f][j] # <<>>,
                      Stem(names'[f][i], folder[i]) = Stem(names'[f][j], folder[j]),
                      f = "joliet" => folder[i].dir = folder[j].dir
               PROVE  BaseEnd(names'[f][j], folder[j]) <= MinBase \/ <<f, j>> \in warned'
    BY DEF ToldApart
  <2>1. CASE ~(f = form /\ j = at)
    <3>1. names'[f][j] = names[f][j] /\ HasName(f, j)
      BY <1>3, <2>1 DEF NamesInv, NamesWritten
    <3>2. ~(f = form /\ i = at)
      BY <1>1, <3>1 DEF HasName
    <3>3. names'[f][i] = names[f][i]
      BY <1>3, <3>2
    <3>4. BaseEnd(names[f][j], folder[j]) <= MinBase \/ <<f, j>> \in warned
      BY <3>1, <3>3 DEF NamesInv, ToldApart
    <3> QED  BY <3>1, <3>4
  <2>2. CASE f = form /\ j = at
    <3>0. i < at /\ i # at
      BY <1>1, <2>2
    <3>1. names'[f][j] = name /\ names'[f][i] = names[f][i] /\ HasName(f, i)
      BY <1>3, <2>2, <3>0 DEF HasName
    <3>2. EndsInVersion(name, folder[j])
      BY <1>1, <2>2, WrittenIs, ShapeKept DEF Child
    <3>3. SameShape(names[f][i], Written(f, folder[i]), folder[i])
      BY <3>1 DEF NamesInv, NamesWritten
    <3>4. EndsInVersion(names[f][i], folder[i])
      BY <1>1, <3>3, WrittenIs, ShapeKept
    <3>5. Collides(f, name, folder[j], names[f][i])
      BY <3>1, <3>2, <3>4, SameStemCollides
    <3>6. i \in 1 .. at - 1
      BY <1>1, <2>2
    <3> QED  BY <2>2, <3>1, <3>5, <3>6 DEF Child
  <2> QED  BY <2>1, <2>2
<1>10. WarnedLate'
  <2>1. <<form, at>> \in Forms \X DOMAIN folder
    BY <1>1
  <2>2. (warned \subseteq Forms \X DOMAIN folder)'
    BY <2>1 DEF NamesInv, WarnedLate
  <2>3. \A w \in warned' : w[1] \in Forms /\ w[2] \in DOMAIN folder /\ w[2] <= at
          /\ \A n \in 2 .. LastNumber - 1 : NumberTaken(w[1], w[2], n)
    <3>1. \A w \in warned : w[1] \in Forms /\ w[2] \in DOMAIN folder /\ w[2] <= at
            /\ \A n \in 2 .. LastNumber - 1 : NumberTaken(w[1], w[2], n)
      BY DEF NamesInv, WarnedLate
    <3>2. CASE warned' = warned
      BY <3>1, <3>2
    <3>3. CASE /\ warned' = warned \cup {<<form, at>>}
               /\ \A n \in 2 .. LastNumber - 1 : NumberTaken(form, at, n)
      <4> SUFFICES ASSUME NEW w \in warned'
                   PROVE  w[1] \in Forms /\ w[2] \in DOMAIN folder /\ w[2] <= at
                            /\ \A n \in 2 .. LastNumber - 1 : NumberTaken(w[1], w[2], n)
        OBVIOUS
      <4>1. CASE w = <<form, at>>
        <5>1. w[1] = form /\ w[2] = at
          BY <4>1
        <5> QED  BY <1>1, <3>3, <5>1
      <4>2. CASE w \in warned
        BY <3>1, <4>2
      <4> QED  BY <3>3, <4>1, <4>2
    <3> QED  BY <3>2, <3>3
  <2>4. \A g \in Forms : \A i \in DOMAIN folder : i # at => names'[g][i] = names[g][i]
    BY <1>3
  <2>5. \A w \in warned' : \A n \in 2 .. LastNumber - 1 : NumberTaken(w[1], w[2], n)'
    BY <2>3, <2>4, StillTaken
  <2>6. at <= at'
    BY <1>1, <1>4
  <2>7. \A w \in warned' : w[2] <= at'
    BY <1>1, <1>4, <2>3, <2>6
  <2> QED  BY <2>2, <2>5, <2>7 DEF WarnedLate
<1> QED
  BY <1>6, <1>7, <1>8, <1>9, <1>10 DEF NamesInv

(* The candidate has the shape of what was written.                        *)
LEMMA CandidateShape ==
  ASSUME NamesInv, candidate # <<>>
  PROVE  SameShape(candidate, Written(form, Child), Child)
<1>1. /\ HasRoom(Written(form, Child), Child)
      /\ candidate = IF number = 2 THEN Written(form, Child)
                     ELSE Numbered(Written(form, Child), Child, number - 1)
      /\ number \in 2 .. LastNumber
  BY DEF NamesInv, CandidateTried, Counters
<1>2. CASE number = 2
  BY <1>1, <1>2 DEF SameShape, HasRoom, EndsInVersion
<1>3. CASE number # 2
  <2>1. number - 1 \in 2 .. LastNumber
    BY <1>1, <1>3, NumberAssumption
  <2> QED  BY <1>1, <1>3, <2>1, NumberedIs
<1> QED
  BY <1>2, <1>3

(* Only an earlier sibling can have the candidate.                         *)
LEMMA TakenByEarlier ==
  ASSUME NamesInv, candidate # <<>>
  PROVE  Taken <=> TakenBefore(form, at, candidate)
<1>1. /\ Len(folder) \in Nat /\ DOMAIN folder = 1 .. Len(folder) /\ at \in DOMAIN folder
      /\ form \in Forms
  BY FolderIs DEF NamesInv, Counters, CandidateTried
<1>2. \A i \in 1 .. at - 1 : i \in DOMAIN folder /\ names.iso[i] # <<>>
  BY <1>1 DEF NamesInv, NamesWritten, HasName, Forms
<1>3. ASSUME NEW i \in DOMAIN folder, names.iso[i] # <<>>,
             Collides(form, candidate, Child, names[form][i])
      PROVE  i \in 1 .. at - 1
  <2>1. HasName("iso", i)
    BY <1>3 DEF NamesInv, NamesWritten, Forms
  <2>2. CASE i = at
    <3>1. form = "joliet" /\ ~HasName(form, i)
      BY <1>1, <2>1, <2>2 DEF HasName
    <3>2. names[form][i] = <<>>
      BY <1>1, <3>1 DEF NamesInv, NamesWritten
    <3> QED  BY <1>3, <3>1, <3>2 DEF Collides
  <2>3. CASE i # at
    BY <1>1, <2>1, <2>3 DEF HasName
  <2> QED  BY <2>2, <2>3
<1> QED
  BY <1>2, <1>3 DEF Taken, TakenBefore, Child

(* The name as it is written: kept as it is, or the first candidate.       *)
LEMMA WriteNameNames == NamesInv /\ WriteName => NamesInv'
<1> SUFFICES ASSUME NamesInv, WriteName
             PROVE  NamesInv'
  OBVIOUS
<1> DEFINE name == Written(form, Child)
<1>1. at <= Len(folder) /\ folder' = folder /\ warned' = warned
  BY DEF WriteName, Busy
<1>2. EndsInVersion(name, Child) /\ name # <<>>
  BY <1>1, FolderIs, WrittenIs DEF Child, NamesInv, Counters
<1>3. CASE BaseEnd(name, Child) <= MinBase
  <2>1. SameShape(name, name, Child)
    BY <1>2 DEF SameShape, EndsInVersion
  <2>2. Assign(name)
    BY <1>3 DEF WriteName
  <2> QED  BY <1>1, <1>3, <2>1, <2>2, AssignNames
<1>4. CASE ~(BaseEnd(name, Child) <= MinBase)
  <2>1. candidate' = name /\ UNCHANGED <<at, form, number, names>> /\ number = 2
    BY <1>4 DEF WriteName, NamesInv, Counters
  <2>2. HasRoom(name, Child)
    <3>1. BaseEnd(name, Child) \in Int /\ MinBase \in Int
      BY <1>2, BaseEndIs, NumberAssumption
    <3> QED  BY <1>2, <1>4, <3>1 DEF HasRoom
  <2>3. CandidateTried'
    BY <1>1, <1>2, <2>1, <2>2 DEF CandidateTried, Child
  <2>4. Counters' /\ NamesWritten' /\ ToldApart' /\ WarnedLate'
    BY <1>1, <1>2, <2>1
       DEF NamesInv, Counters, NamesWritten, ToldApart, WarnedLate, HasName, NumberTaken, TakenBefore
  <2> QED  BY <2>3, <2>4 DEF NamesInv
<1> QED
  BY <1>3, <1>4

(* The candidate is taken: the next number, or the last one as it is.      *)
LEMMA TryNumberNames == NamesInv /\ TryNumber => NamesInv'
<1> SUFFICES ASSUME NamesInv, TryNumber
             PROVE  NamesInv'
  OBVIOUS
<1> DEFINE written == Written(form, Child)
           name    == Numbered(written, Child, number)
<1>1. at <= Len(folder) /\ folder' = folder /\ candidate # <<>> /\ Taken
  BY DEF TryNumber, TryUpTo, Busy
<1>2. /\ number \in 2 .. LastNumber /\ LastNumber \in Nat
      /\ HasRoom(written, Child)
      /\ candidate = IF number = 2 THEN written ELSE Numbered(written, Child, number - 1)
      /\ \A n \in 2 .. number - 2 : NumberTaken(form, at, n)
  BY <1>1, NumberAssumption DEF NamesInv, Counters, CandidateTried
<1>3. Numbered(candidate, Child, number) = name
  <2>1. CASE number = 2
    BY <1>2, <2>1
  <2>2. CASE number # 2
    <3>1. number \in 3 .. LastNumber
      BY <1>2, <2>2
    <3> QED  BY <1>2, <2>2, <3>1, NumberedAgain
  <2> QED  BY <2>1, <2>2
<1>4. SameShape(name, written, Child)
  BY <1>2, NumberedIs
<1>5. \A n \in 2 .. number - 1 : NumberTaken(form, at, n)
  <2> SUFFICES ASSUME NEW n \in 2 .. number - 1, ~(n \in 2 .. number - 2)
               PROVE  NumberTaken(form, at, n)
    BY <1>2
  <2>1. n = number - 1 /\ number # 2
    BY <1>2
  <2>2. TakenBefore(form, at, candidate)
    BY <1>1, TakenByEarlier
  <2> QED  BY <1>2, <2>1, <2>2 DEF NumberTaken, Child
<1> HIDE DEF name
<1>6. CASE number = LastNumber
  <2>1. Assign(name) /\ warned' = warned \cup {<<form, at>>}
    BY <1>3, <1>6 DEF TryNumber, TryUpTo
  <2>2. \A n \in 2 .. LastNumber - 1 : NumberTaken(form, at, n)
    BY <1>5, <1>6
  <2> QED  BY <1>1, <1>4, <2>1, <2>2, AssignNames
<1>7. CASE number # LastNumber
  <2>1. candidate' = name /\ number' = number + 1 /\ UNCHANGED <<at, form, names, warned>>
    BY <1>3, <1>7 DEF TryNumber, TryUpTo
  <2>2. name # <<>>
    BY <1>2, <1>4, BaseEndIs, EmptySeq, VersionIs, LenProperties, NumberAssumption
       DEF SameShape, HasRoom, EndsInVersion
  <2>3. Counters'
    BY <1>1, <1>2, <1>7, <2>1, <2>2 DEF NamesInv, Counters
  <2>4. CandidateTried'
    <3>1. number + 1 - 1 = number /\ number + 1 - 2 = number - 1 /\ number + 1 # 2
      BY <1>2
    <3> QED  BY <1>1, <1>2, <1>5, <2>1, <3>1
             DEF CandidateTried, Child, name, NumberTaken, TakenBefore
  <2>5. NamesWritten' /\ ToldApart' /\ WarnedLate'
    BY <1>1, <2>1
       DEF NamesInv, NamesWritten, ToldApart, WarnedLate, HasName, NumberTaken, TakenBefore
  <2> QED  BY <2>3, <2>4, <2>5 DEF NamesInv
<1> QED
  BY <1>6, <1>7

(* Nobody has the candidate.                                               *)
LEMMA KeepNameNames == NamesInv /\ KeepName => NamesInv'
<1> SUFFICES ASSUME NamesInv, KeepName
             PROVE  NamesInv'
  OBVIOUS
<1>1. /\ at <= Len(folder) /\ folder' = folder /\ warned' = warned
      /\ candidate # <<>> /\ ~Taken /\ Assign(candidate)
  BY DEF KeepName, Busy
<1>2. \A i \in 1 .. at - 1 : ~Collides(form, candidate, Child, names[form][i])
  BY <1>1, TakenByEarlier DEF TakenBefore, Child
<1> QED
  BY <1>1, <1>2, CandidateShape, AssignNames

(* Every step of calc_local_names.                                         *)
LEMMA NextNames == NamesInv /\ [Next]_vars => NamesInv'
<1> SUFFICES ASSUME NamesInv, UNCHANGED vars
             PROVE  NamesInv'
  BY WriteNameNames, TryNumberNames, KeepNameNames DEF Next, Done
<1> QED
  BY DEF vars, NamesInv, Counters, NamesWritten, CandidateTried, ToldApart, WarnedLate,
         HasName, NumberTaken, TakenBefore, Child

-----------------------------------------------------------------------------
(* Every variable stays in its range: a number of more digits than a base  *)
(* has room for is never tried.                                            *)
THEOREM NumbersStayInRange == Spec => []TypeOK
<1>1. NamesInv => TypeOK
  BY DEF NamesInv, Counters, WarnedLate, TypeOK
<1> QED
  BY <1>1, InitNames, NextNames, PTL DEF Spec

(* Two siblings of one name have no room for a number, or the second has   *)
(* its warning; and that was given only after every number was found taken. *)
THEOREM SiblingsToldApart == Spec => []Distinct
<1>1. NamesInv => Distinct
  <2> SUFFICES ASSUME NamesInv
               PROVE  Distinct
    OBVIOUS
  <2>1. ToldApart /\ WarnedLate
    BY DEF NamesInv
  <2>2. \A w \in warned : \A n \in 2 .. LastNumber - 1 : NumberTaken(w[1], w[2], n)
    BY <2>1 DEF WarnedLate
  <2> QED  BY <2>1, <2>2 DEF Distinct, ToldApart, NumberTaken, TakenBefore
<1> QED
  BY <1>1, InitNames, NextNames, PTL DEF Spec

(* The length that calc_names counted is the length that is written, and   *)
(* the extension and the version are found where they were.                *)
THEOREM NamesKeepShape == Spec => []KeepsShape
<1>1. NamesInv => KeepsShape
  <2> SUFFICES ASSUME NamesInv, NEW f \in Forms, NEW i \in DOMAIN folder, names[f][i] # <<>>
               PROVE  LET written == Written(f, folder[i])
                          end     == BaseEnd(written, folder[i])
                      IN /\ Len(names[f][i]) = Len(written)
                         /\ SubSeq(names[f][i], end + 1, Len(written)) =
                              SubSeq(written, end + 1, Len(written))
                         /\ end > 0 => names[f][i][1] = written[1]
    BY DEF KeepsShape, BaseEnd
  <2> DEFINE written == Written(f, folder[i])
             name    == names[f][i]
             end     == BaseEnd(written, folder[i])
  <2>1. SameShape(name, written, folder[i])
    BY DEF NamesInv, NamesWritten
  <2>2. EndsInVersion(written, folder[i])
    BY FolderIs, WrittenIs
  <2>3. end \in 0 .. Len(written) /\ Len(written) \in Nat
    <3>1. end \in 0 .. Len(written) - Len(VersionOf(folder[i]))
      BY <2>2, BaseEndIs
    <3>2. Len(written) \in Nat /\ Len(VersionOf(folder[i])) \in {0, 2}
      BY <2>2, VersionIs, LenProperties DEF EndsInVersion
    <3> HIDE DEF end, written
    <3> QED  BY <3>1, <3>2
  <2>4. /\ Len(name) = Len(written) /\ name \in Seq(Characters) /\ written \in Seq(Characters)
        /\ \A k \in 1 .. Len(written) : k = 1 \/ k > end => name[k] = written[k]
    BY <2>1, <2>2 DEF SameShape, EndsInVersion
  <2> HIDE DEF written, name, end
  <2>5. SubSeq(name, end + 1, Len(written)) = SubSeq(written, end + 1, Len(written))
    <3>1. \A k \in end + 1 .. Len(written) : name[k] \in Characters /\ written[k] \in Characters
      BY <2>3, <2>4, ElementOfSeq
    <3> DEFINE a == SubSeq(name, end + 1, Len(written))
               b == SubSeq(written, end + 1, Len(written))
    <3>2. /\ a \in Seq(Characters)
          /\ Len(a) = IF end + 1 <= Len(written) THEN Len(written) - (end + 1) + 1 ELSE 0
          /\ \A k \in 1 .. Len(written) - (end + 1) + 1 : a[k] = name[end + 1 + k - 1]
      BY <2>3, <3>1, SubSeqProperties
    <3>3. /\ b \in Seq(Characters)
          /\ Len(b) = IF end + 1 <= Len(written) THEN Len(written) - (end + 1) + 1 ELSE 0
          /\ \A k \in 1 .. Len(written) - (end + 1) + 1 : b[k] = written[end + 1 + k - 1]
      BY <2>3, <3>1, SubSeqProperties
    <3> HIDE DEF a, b
    <3>4. \A k \in 1 .. Len(a) : a[k] = b[k]
      BY <2>3, <2>4, <3>2, <3>3
    <3>5. a = b
      BY <3>2, <3>3, <3>4, SeqEqual
    <3> QED  BY <3>5 DEF a, b
  <2>6. end > 0 => name[1] = written[1]
    BY <2>3, <2>4
  <2> QED  BY <2>4, <2>5, <2>6 DEF name, written, end
<1> QED
  BY <1>1, InitNames, NextNames, PTL DEF Spec
=============================================================================
