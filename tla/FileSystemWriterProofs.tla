----------------------- MODULE FileSystemWriterProofs ------------------------
(***************************************************************************)
(* Proofs about FileSystemWriter: its types, and the unique identifiers of *)
(* the file entries, for every file system and every tree; the places of   *)
(* the entries in the partition, and of everything in the image, for those *)
(* on which the passes agree (Regular) and that the counters hold (Fits).  *)
(*                                                                         *)
(* The integrity descriptor states the next identifier before the first    *)
(* one is given, from the numbers of files and directories in the tree.    *)
(* That it is right, and that the identifiers are distinct, rests on the   *)
(* pass over the tree seeing every node at most once.                      *)
(*                                                                         *)
(* The place of an entry is stated in the directory above, before the      *)
(* entry is written, from what every node before it takes with all that is *)
(* below it; its tag is made from a third count.  That all three agree     *)
(* rests on the stream being where the count says, from the file set on,   *)
(* and on the nodes on dir_node_stack following each other.                *)
(*                                                                         *)
(* The places of directories and files are reserved in one pass each and   *)
(* taken in another, much later and from another stack.  The invariant     *)
(* says of a reserving pass that place is what the rounds so far have      *)
(* left (DirsUpTo, FilesUpTo), and of a writing pass that it is at a round *)
(* of the very pass that reserved, with the stream where that one had its  *)
(* counter (DirsAt, FilesAt).                                              *)
(*                                                                         *)
(* What is stated of the image, and what the abstract writer promises,     *)
(* needs in addition that a pass reaches all that is not too deep: of a    *)
(* directory that was taken, those in it wait on the stack.                *)
(***************************************************************************)
EXTENDS FileSystemWriterLemmas

(* The nodes that have their entry.                                        *)
Visited == {n \in Nodes(tree) : udf[n].ident # NotYet}

(* What was pushed: the children of the directories that have their entry. *)
Below == {n \in Nodes(tree) : \E d \in Visited \cap Dirs(tree) : n \in Range(tree.kids[d])}

BeforeEntries ==
  pc \in {"tree", "header", "tables", "dirs", "files", "write header", "write udf"}

Fields ==
  /\ IsTree(tree) /\ IsFiniteSet(Nodes(tree))
  /\ DOMAIN udf = Nodes(tree) /\ \A n \in Nodes(tree) : {"loc", "ident"} \subseteq DOMAIN udf[n]
  /\ {"iso", "udf"} \subseteq DOMAIN desc
  /\ {"sec", "ident"} \subseteq DOMAIN part

(***************************************************************************)
(* dir_node_stack of write_partition_entries: what is on it is new, once   *)
(* there, and a child of a directory that has its entry.  A node that has  *)
(* one is such a child, too: so what is pushed is new.                     *)
(***************************************************************************)
Walk ==
  /\ work \in Seq(Nodes(tree))
  /\ Visited = {} => work = <<Root>> /\ part.ident = 0
  /\ \A i \in DOMAIN work : work[i] \notin Visited /\ (work[i] = Root \/ work[i] \in Below)
  /\ \A i, j \in DOMAIN work : work[i] = work[j] => i = j
  /\ \A n \in Visited : n = Root \/ n \in Below
  /\ desc.udf.integrity.unique = Cardinality(Nodes(tree)) + UniqueMin

Numbered ==
  /\ Root \in Visited
  /\ part.ident = UniqueMin + Cardinality(Visited) - 1
  /\ \A n \in Visited : IF n = Root THEN udf[n].ident = 0
                        ELSE udf[n].ident \in UniqueMin .. part.ident - 1
  /\ \A m, n \in Visited : udf[m].ident = udf[n].ident => m = n
  /\ desc.udf.integrity.unique = Cardinality(Nodes(tree)) + UniqueMin

UniqueInv ==
  /\ Fields
  /\ BeforeEntries => Visited = {}
  /\ pc = "write entries" => Walk
  /\ Visited # {} => Numbered

-----------------------------------------------------------------------------
(* The count the descriptor is made from is the number of nodes.           *)
LEMMA NodesCounted ==
  ASSUME NEW t, NEW m, IsTree(t), IsFiniteSet(Nodes(t))
  PROVE  UdfDescriptors(m, t).integrity.unique = Cardinality(Nodes(t)) + UniqueMin
<1>1. Root \in Dirs(t) /\ Dirs(t) \cap Files(t) = {}
  BY DEF IsTree
<1>2. IsFiniteSet(Dirs(t)) /\ IsFiniteSet(Files(t))
  BY FS_Subset DEF Nodes
<1>3. /\ Cardinality(Dirs(t)) \in Nat /\ Cardinality(Files(t)) \in Nat
      /\ Cardinality(Dirs(t) \ {Root}) = Cardinality(Dirs(t)) - 1
  BY <1>1, <1>2, FS_CardinalityType, FS_RemoveElement
<1>4. Cardinality(Nodes(t)) = Cardinality(Dirs(t)) + Cardinality(Files(t))
  <2>1. Cardinality(Nodes(t)) = Cardinality(Dirs(t)) + Cardinality(Files(t))
                                - Cardinality(Dirs(t) \cap Files(t))
    BY <1>2, FS_Union DEF Nodes
  <2>2. Cardinality(Dirs(t) \cap Files(t)) = 0
    BY <1>1, FS_EmptySet
  <2> QED  BY <1>3, <2>1, <2>2
<1>5. UdfDescriptors(m, t).integrity.unique
        = Cardinality(Dirs(t) \ {Root}) + Cardinality(Files(t)) + 1 + UniqueMin
  BY DEF UdfDescriptors, IntegrityDescriptor
<1> QED
  BY <1>3, <1>4, <1>5 DEF UniqueMin

(* Before the first step no node has an entry.                             *)
LEMMA InitUnique == Init => UniqueInv
<1> SUFFICES ASSUME Init PROVE UniqueInv
  OBVIOUS
<1>1. IsTree(tree) /\ IsFiniteSet(Nodes(tree))
  BY InputsAssumption DEF Init
<1>2. Fields /\ Visited = {} /\ pc = "tree"
  BY <1>1 DEF Init, Fields, Visited
<1> QED
  BY <1>2 DEF UniqueInv

(* A step that gives no node an identifier, and does not begin to.         *)
LEMMA UniqueKept ==
  ASSUME UniqueInv, UNCHANGED <<tree, udf, part>>,
         UNCHANGED desc \/ (BeforeEntries /\ \E d : desc' = [desc EXCEPT !.iso = d]),
         BeforeEntries' => BeforeEntries,
         pc' = "write entries" => pc = "write entries" /\ UNCHANGED work
  PROVE  UniqueInv'
<1>1. Visited' = Visited /\ UNCHANGED Below
  BY DEF Visited, Below
<1>2. Fields'
  BY DEF UniqueInv, Fields
<1>3. Visited # {} => ~BeforeEntries
  BY DEF UniqueInv
<1>4. pc' = "write entries" => Walk'
  BY <1>1 DEF UniqueInv, Walk, BeforeEntries
<1>5. Visited # {} => Numbered'
  BY <1>1, <1>3 DEF UniqueInv, Numbered
<1> QED
  BY <1>1, <1>2, <1>4, <1>5 DEF UniqueInv

(* The descriptors are written, and the root is all there is to do.        *)
LEMMA WriteUdfUnique ==
  ASSUME UniqueInv, WriteUdf
  PROVE  UniqueInv'
<1>1. BeforeEntries /\ Visited = {} /\ UNCHANGED tree
  BY DEF UniqueInv, BeforeEntries, WriteUdf, Goto
<1>2. CASE ~IsUdf(fs)
  BY <1>1, <1>2, UniqueKept DEF WriteUdf, Goto, BeforeEntries
<1>3. CASE IsUdf(fs)
  <2>1. /\ udf' = [udf EXCEPT ![Root].loc = 1] /\ part' = [sec |-> 1, ident |-> 0]
        /\ work' = <<Root>> /\ pc' = "write entries"
        /\ desc' = [desc EXCEPT !.udf = UdfDescriptors(mgr, tree)]
    BY <1>3 DEF WriteUdf, Goto
  <2>2. Fields
    BY DEF UniqueInv
  <2>3. /\ DOMAIN udf' = Nodes(tree)
        /\ \A n \in Nodes(tree) : udf'[n].ident = udf[n].ident /\ DOMAIN udf'[n] = DOMAIN udf[n]
    BY <2>1, <2>2 DEF Fields
  <2>4. Visited' = {}
    BY <1>1, <2>3 DEF Visited
  <2>5. Fields'
    <3>1. tree' = tree /\ DOMAIN part' = {"sec", "ident"} /\ DOMAIN desc' = DOMAIN desc
      BY <1>1, <2>1
    <3> QED  BY <2>2, <2>3, <3>1 DEF Fields
  <2>6. desc'.udf.integrity.unique = Cardinality(Nodes(tree)) + UniqueMin
    BY <2>1, <2>2, NodesCounted DEF Fields
  <2>7. Root \in Nodes(tree)
    BY <2>2 DEF Fields, IsTree, Nodes
  <2>8. Walk'
    <3>1. work' = <<Root>> /\ part'.ident = 0
      BY <2>1
    <3>2. <<Root>> \in Seq(Nodes(tree)) /\ \A i \in DOMAIN <<Root>> : i = 1 /\ <<Root>>[i] = Root
      BY <2>7
    <3>3. Nodes(tree') = Nodes(tree)
      BY <1>1
    <3> QED  BY <2>4, <2>6, <3>1, <3>2, <3>3 DEF Walk
  <2> QED  BY <2>1, <2>4, <2>5, <2>8 DEF UniqueInv, BeforeEntries
<1> QED
  BY <1>2, <1>3

-----------------------------------------------------------------------------
(* One more node has its entry; it gets the next identifier.               *)
LEMMA EntryNumbered ==
  ASSUME UniqueInv, Walk, NEW n \in Nodes(tree), n \notin Visited,
         Visited = {} => n = Root, UNCHANGED <<tree, desc>>,
         \A k \in Nodes(tree) : udf'[k].ident = IF k = n THEN part.ident ELSE udf[k].ident,
         part'.ident = NextUnique(part.ident)
  PROVE  Visited' = Visited \cup {n} /\ Numbered'
<1>1. IsFiniteSet(Visited) /\ Cardinality(Visited) \in Nat
  BY FS_Subset, FS_CardinalityType DEF UniqueInv, Fields, Visited
<1>2. part.ident = IF Visited = {} THEN 0 ELSE UniqueMin + Cardinality(Visited) - 1
  BY DEF Walk, UniqueInv, Numbered
<1>3. Cardinality(Visited) = 0 <=> Visited = {}
  BY <1>1, FS_EmptySet
<1>4. part.ident \in Nat
  BY <1>1, <1>2, <1>3 DEF UniqueMin
<1>5. Visited' = Visited \cup {n}
  BY <1>4 DEF Visited, NotYet
<1>6. Cardinality(Visited') = Cardinality(Visited) + 1
  BY <1>1, <1>5, FS_AddElement
<1>7. part'.ident = UniqueMin + Cardinality(Visited') - 1
  BY <1>1, <1>2, <1>3, <1>6 DEF NextUnique, UniqueMin
<1>8. Root \in Visited' /\ (Visited # {} => n # Root)
  BY <1>5 DEF UniqueInv, Numbered
<1>9. \A k \in Visited' : IF k = Root THEN udf'[k].ident = 0
                          ELSE udf'[k].ident \in UniqueMin .. part'.ident - 1
  <2> SUFFICES ASSUME NEW k \in Visited'
               PROVE  IF k = Root THEN udf'[k].ident = 0
                      ELSE udf'[k].ident \in UniqueMin .. part'.ident - 1
    OBVIOUS
  <2>1. CASE k = n
    BY <1>1, <1>2, <1>3, <1>4, <1>6, <1>7, <1>8, <2>1 DEF UniqueMin
  <2>2. CASE k # n
    <3>1. k \in Visited /\ k \in Nodes(tree) /\ udf'[k].ident = udf[k].ident
      BY <1>5, <2>2 DEF Visited
    <3>2. IF k = Root THEN udf[k].ident = 0 ELSE udf[k].ident \in UniqueMin .. part.ident - 1
      BY <3>1 DEF UniqueInv, Numbered
    <3>3. part.ident <= part'.ident /\ part'.ident \in Nat
      BY <1>4 DEF NextUnique, UniqueMin
    <3> QED  BY <1>4, <3>1, <3>2, <3>3 DEF UniqueMin
  <2> QED  BY <2>1, <2>2
<1>10. \A k \in Visited : udf'[k].ident = udf[k].ident /\ udf[k].ident # part.ident
  <2> SUFFICES ASSUME NEW k \in Visited
               PROVE  udf'[k].ident = udf[k].ident /\ udf[k].ident # part.ident
    OBVIOUS
  <2>1. udf'[k].ident = udf[k].ident
    BY DEF Visited
  <2>2. IF k = Root THEN udf[k].ident = 0 ELSE udf[k].ident \in UniqueMin .. part.ident - 1
    BY DEF UniqueInv, Numbered
  <2>3. part.ident >= UniqueMin
    BY <1>1, <1>2, <1>3 DEF UniqueMin
  <2> QED  BY <1>4, <2>1, <2>2, <2>3 DEF UniqueMin
<1>11. \A j, k \in Visited' : udf'[j].ident = udf'[k].ident => j = k
  BY <1>5, <1>10 DEF UniqueInv, Numbered
<1> QED
  BY <1>5, <1>7, <1>8, <1>9, <1>11 DEF Numbered, Walk

(* The children of the directory that is next are new, there once, and not *)
(* on the stack.                                                           *)
LEMMA KidsAreNew ==
  ASSUME UniqueInv, Walk, work # <<>>, Head(work) \in Dirs(tree)
  PROVE  LET n    == Head(work)
             kids == tree.kids[n]
             rest == Tail(work)
         IN /\ kids \in Seq(Nodes(tree) \ {Root}) /\ Len(kids) \in Nat /\ DOMAIN kids = 1 .. Len(kids)
            /\ \A i \in 1 .. Len(kids) :
                 /\ kids[i] \notin Visited /\ kids[i] # n
                 /\ kids[i] \notin {rest[j] : j \in 1 .. Len(rest)}
            /\ \A i, j \in 1 .. Len(kids) : kids[i] = kids[j] => i = j
<1> DEFINE n    == Head(work)
           kids == tree.kids[n]
           rest == Tail(work)
<1>1. IsTree(tree)
  BY DEF UniqueInv, Fields
<1>2. work \in Seq(Nodes(tree)) /\ n = work[1] /\ 1 \in DOMAIN work /\ n \notin Visited
  BY DEF Walk
<1>3. \A i \in 1 .. Len(rest) : rest[i] = work[i + 1] /\ i + 1 \in DOMAIN work
  BY <1>2
<1>4. kids \in Seq(Nodes(tree) \ {Root}) /\ Len(kids) \in Nat /\ DOMAIN kids = 1 .. Len(kids)
  BY <1>1 DEF IsTree
<1>5. \A i \in 1 .. Len(kids) : kids[i] \notin Below /\ kids[i] # Root
  <2> SUFFICES ASSUME NEW i \in 1 .. Len(kids), NEW d \in Visited \cap Dirs(tree),
                      kids[i] \in Range(tree.kids[d])
               PROVE  FALSE
    BY <1>4 DEF Below
  <2>1. PICK j \in DOMAIN tree.kids[d] : kids[i] = tree.kids[d][j]
    BY DEF Range
  <2> QED  BY <1>1, <1>2, <1>4, <2>1 DEF IsTree
<1>6. \A i \in 1 .. Len(rest) : rest[i] = Root \/ rest[i] \in Below
  BY <1>3 DEF Walk
<1>7. \A i \in 1 .. Len(kids) : kids[i] \notin Visited /\ kids[i] # n
                                /\ kids[i] \notin {rest[j] : j \in 1 .. Len(rest)}
  BY <1>2, <1>5, <1>6 DEF Walk
<1>8. \A i, j \in 1 .. Len(kids) : kids[i] = kids[j] => i = j
  BY <1>1, <1>4, KidsDiffer
<1> QED
  BY <1>4, <1>7, <1>8

(* What is left to do after a node: its children, and what was left.       *)
LEMMA EntryWalked ==
  ASSUME UniqueInv, Walk, work # <<>>, UNCHANGED <<tree, desc>>,
         Visited' = Visited \cup {Head(work)},
         \/ Head(work) \in Dirs(tree) /\ work' = tree.kids[Head(work)] \o Tail(work)
         \/ Head(work) \notin Dirs(tree) /\ work' = Tail(work)
  PROVE  Walk'
<1> DEFINE n    == Head(work)
           kids == tree.kids[n]
           rest == Tail(work)
<1>1. IsTree(tree)
  BY DEF UniqueInv, Fields
<1>2. work \in Seq(Nodes(tree)) /\ n = work[1] /\ 1 \in DOMAIN work /\ n \notin Visited
  BY DEF Walk
<1>3. /\ rest \in Seq(Nodes(tree)) /\ Len(rest) = Len(work) - 1 /\ Len(work) \in Nat
      /\ \A i \in 1 .. Len(rest) : rest[i] = work[i + 1] /\ i + 1 \in DOMAIN work
  BY <1>2
<1>4. Below \subseteq Below'
  BY DEF Below
<1>5. \A i \in 1 .. Len(rest) : rest[i] \notin Visited' /\ (rest[i] = Root \/ rest[i] \in Below)
  BY <1>2, <1>3 DEF Walk
<1>6. \A i, j \in 1 .. Len(rest) : rest[i] = rest[j] => i = j
  BY <1>3 DEF Walk
<1>7. \A k \in Visited' : k = Root \/ k \in Below'
  BY <1>2, <1>4 DEF Walk
<1>8. /\ work' \in Seq(Nodes(tree))
      /\ \A i \in DOMAIN work' : work'[i] \notin Visited' /\ (work'[i] = Root \/ work'[i] \in Below')
      /\ \A i, j \in DOMAIN work' : work'[i] = work'[j] => i = j
  <2>1. CASE n \notin Dirs(tree)
    <3>1. work' = rest /\ DOMAIN rest = 1 .. Len(rest)
      BY <1>3, <2>1
    <3> HIDE DEF n, kids, rest
    <3> QED  BY <1>3, <1>4, <1>5, <1>6, <3>1
  <2>2. CASE n \in Dirs(tree)
    <3>1. kids \in Seq(Nodes(tree) \ {Root}) /\ Len(kids) \in Nat /\ DOMAIN kids = 1 .. Len(kids)
      BY <1>1, <2>2 DEF IsTree
    <3>2. \A i \in 1 .. Len(kids) : /\ kids[i] \notin Visited /\ kids[i] # n
                                    /\ kids[i] \notin {rest[j] : j \in 1 .. Len(rest)}
      BY <2>2, KidsAreNew
    <3>5. \A i \in 1 .. Len(kids) : kids[i] \notin Visited' /\ kids[i] \in Below'
      <4> TAKE i \in 1 .. Len(kids)
      <4>1. kids[i] \in Range(tree.kids[n]) /\ kids[i] \in Nodes(tree)
        BY <3>1 DEF Range
      <4>2. n \in Visited' \cap Dirs(tree)
        BY <2>2
      <4> QED  BY <3>2, <4>1, <4>2 DEF Below
    <3>6. \A i, j \in 1 .. Len(kids) : kids[i] = kids[j] => i = j
      BY <1>1, <2>2, <3>1, KidsDiffer
    <3>7. /\ work' = kids \o rest /\ work' \in Seq(Nodes(tree))
          /\ DOMAIN work' = 1 .. Len(kids) + Len(rest)
          /\ \A i \in DOMAIN work' : IF i <= Len(kids) THEN work'[i] = kids[i]
                                     ELSE work'[i] = rest[i - Len(kids)]
      <4>1. work' = kids \o rest
        BY <2>2
      <4>2. kids \in Seq(Nodes(tree))
        <5>1. Nodes(tree) \ {Root} \subseteq Nodes(tree)
          OBVIOUS
        <5> QED  BY <3>1, <5>1
      <4> HIDE DEF n, kids, rest
      <4>3. /\ kids \o rest \in Seq(Nodes(tree)) /\ Len(kids \o rest) = Len(kids) + Len(rest)
            /\ \A i \in 1 .. Len(kids) + Len(rest) :
                 (kids \o rest)[i] = IF i <= Len(kids) THEN kids[i] ELSE rest[i - Len(kids)]
        BY <1>3, <4>2, ConcatProperties
      <4>4. DOMAIN (kids \o rest) = 1 .. Len(kids) + Len(rest)
        BY <4>3
      <4> QED  BY <4>1, <4>3, <4>4
    <3>8. \A i \in DOMAIN work' : \/ i \in 1 .. Len(kids)
                                  \/ i > Len(kids) /\ i - Len(kids) \in 1 .. Len(rest)
      <4> HIDE DEF n, kids, rest
      <4>1. Len(kids) \in Nat /\ Len(rest) \in Nat
        BY <1>3, <3>1
      <4> QED  BY <3>7, <4>1
    <3> HIDE DEF n, kids, rest
    <3>9. \A i \in DOMAIN work' : work'[i] \notin Visited' /\ (work'[i] = Root \/ work'[i] \in Below')
      BY <1>4, <1>5, <3>1, <3>5, <3>7, <3>8
    <3>10. \A i, j \in DOMAIN work' : work'[i] = work'[j] => i = j
      <4> SUFFICES ASSUME NEW i \in DOMAIN work', NEW j \in DOMAIN work', work'[i] = work'[j]
                   PROVE  i = j
        OBVIOUS
      <4>1. i \in Nat /\ j \in Nat /\ Len(kids) \in Nat
        BY <1>3, <3>1, <3>7
      <4>2. CASE i <= Len(kids) /\ j <= Len(kids)
        BY <3>6, <3>7, <3>8, <4>1, <4>2
      <4>3. CASE i > Len(kids) /\ j > Len(kids)
        <5>1. i - Len(kids) \in 1 .. Len(rest) /\ j - Len(kids) \in 1 .. Len(rest)
          BY <3>8, <4>1, <4>3
        <5>2. rest[i - Len(kids)] = rest[j - Len(kids)]
          BY <3>7, <4>1, <4>3
        <5>3. i - Len(kids) = j - Len(kids)
          BY <1>6, <5>1, <5>2
        <5> QED  BY <4>1, <5>3
      <4>4. CASE i <= Len(kids) /\ j > Len(kids)
        BY <3>2, <3>7, <3>8, <4>1, <4>4
      <4>5. CASE i > Len(kids) /\ j <= Len(kids)
        BY <3>2, <3>7, <3>8, <4>1, <4>5
      <4> QED  BY <4>1, <4>2, <4>3, <4>4, <4>5
    <3> QED  BY <3>7, <3>9, <3>10
  <2> QED  BY <2>1, <2>2
<1> QED
  BY <1>7, <1>8 DEF Walk

(* One round of write_partition_entries.                                   *)
LEMMA WriteEntryUnique ==
  ASSUME UniqueInv, WriteEntry
  PROVE  /\ UniqueInv'
         /\ ~EntryRefused(Head(work)) => Visited' = Visited \cup {Head(work)}
<1> DEFINE n == Head(work)
<1>1. pc = "write entries" /\ work # <<>> /\ Walk
  BY DEF WriteEntry, UniqueInv
<1>2. CASE EntryRefused(n)
  BY <1>1, <1>2, UniqueKept DEF WriteEntry, Fail, Return, writing, BeforeEntries
<1>3. CASE ~EntryRefused(n)
  <2>1. n \in Nodes(tree) /\ n \notin Visited /\ (Visited = {} => n = Root)
    <3>1. work \in Seq(Nodes(tree)) /\ (Visited = {} => work = <<Root>>)
      BY <1>1 DEF Walk
    <3>2. n = work[1] /\ 1 \in DOMAIN work /\ n \in Nodes(tree)
      <4>1. ASSUME NEW S, NEW s \in Seq(S), s # <<>>
            PROVE  Head(s) = s[1] /\ 1 \in DOMAIN s /\ Head(s) \in S
        BY <4>1
      <4>2. work # <<>>
        BY <1>1
      <4> HIDE DEF n
      <4> QED  BY <3>1, <4>1, <4>2 DEF n
    <3>3. work[1] \notin Visited
      BY <1>1, <3>2 DEF Walk
    <3>4. <<Root>>[1] = Root
      OBVIOUS
    <3> QED  BY <3>1, <3>2, <3>3, <3>4
  <2>2. UNCHANGED <<tree, desc>> /\ pc' = "write entries"
    BY <1>3 DEF WriteEntry, Goto
  <2>3. /\ \A k \in Nodes(tree) : udf'[k].ident = IF k = n THEN part.ident ELSE udf[k].ident
        /\ DOMAIN udf' = Nodes(tree) /\ \A k \in Nodes(tree) : {"loc", "ident"} \subseteq DOMAIN udf'[k]
        /\ part'.ident = NextUnique(part.ident) /\ {"sec", "ident"} \subseteq DOMAIN part'
    <3>1. Fields
      BY DEF UniqueInv
    <3>2. CASE n \in Dirs(tree)
      <4>1. /\ \E loc : udf' = [k \in Nodes(tree) |->
                                  IF k = n THEN [udf[n] EXCEPT !.ident = part.ident]
                                  ELSE IF k \in Range(tree.kids[n])
                                  THEN [udf[k] EXCEPT !.loc = loc[k]]
                                  ELSE udf[k]]
            /\ \E sector : part' = [sec |-> sector, ident |-> NextUnique(part.ident)]
        <5> DEFINE locs == ChildEntries(fs, tree, n, part.sec)
                   kids == tree.kids[n]
                   loc  == [k \in Nodes(tree) |-> locs[CHOOSE i \in DOMAIN kids : kids[i] = k]]
        <5>1. udf' = [k \in Nodes(tree) |->
                        IF k = n THEN [udf[n] EXCEPT !.ident = part.ident]
                        ELSE IF k \in Range(kids)
                        THEN [udf[k] EXCEPT !.loc = locs[CHOOSE i \in DOMAIN kids : kids[i] = k]]
                        ELSE udf[k]]
          BY <1>3, <3>2 DEF WriteEntry
        <5>2. part' = [sec |-> NextPartSec(fs, tree, n, part.sec), ident |-> NextUnique(part.ident)]
          BY <1>3, <3>2 DEF WriteEntry
        <5>3. \A k \in Nodes(tree) : loc[k] = locs[CHOOSE i \in DOMAIN kids : kids[i] = k]
          OBVIOUS
        <5> HIDE DEF locs, loc
        <5>4. udf' = [k \in Nodes(tree) |->
                        IF k = n THEN [udf[n] EXCEPT !.ident = part.ident]
                        ELSE IF k \in Range(kids) THEN [udf[k] EXCEPT !.loc = loc[k]] ELSE udf[k]]
          <6> HIDE DEF kids
          <6> QED  BY <5>1, <5>3
        <5> QED  BY <5>2, <5>4
      <4> QED  BY <2>1, <3>1, <4>1 DEF Fields
    <3>3. CASE n \notin Dirs(tree)
      <4>1. /\ udf' = [udf EXCEPT ![n].ident = part.ident]
            /\ part' = [sec |-> part.sec + 1, ident |-> NextUnique(part.ident)]
        BY <1>3, <3>3 DEF WriteEntry
      <4> QED  BY <2>1, <3>1, <4>1 DEF Fields
    <3> QED  BY <3>2, <3>3
  <2>4. Visited' = Visited \cup {n} /\ Numbered'
    BY <1>1, <2>1, <2>2, <2>3, EntryNumbered
  <2>5. Walk'
    <3>1. \/ n \in Dirs(tree) /\ work' = tree.kids[n] \o Tail(work)
          \/ n \notin Dirs(tree) /\ work' = Tail(work)
      BY <1>3 DEF WriteEntry
    <3> QED  BY <1>1, <2>2, <2>4, <3>1, EntryWalked
  <2>6. Fields'
    BY <2>2, <2>3 DEF UniqueInv, Fields
  <2> QED  BY <2>2, <2>4, <2>5, <2>6 DEF UniqueInv, BeforeEntries
<1> QED
  BY <1>2, <1>3

(* The other passes, the user and the files on the hard drive.             *)
LEMMA OtherUnique ==
  ASSUME UniqueInv,
         \/ Reserve \/ WriteHeader \/ WriteEntriesEnd \/ WriteTables \/ WriteDirEntry \/ WriteDirsEnd
         \/ OpenDir \/ SeeCancel \/ SkipChild \/ WriteFile \/ CloseDir \/ WriteDataEnd \/ WriteTail
         \/ BootImageLost \/ RequestCancel \/ ChangeFile \/ Returned \/ UNCHANGED vars
  PROVE  UniqueInv'
<1> USE DEF Goto, Fail, Return, planning, writing
<1>1. UNCHANGED <<tree, udf, part>>
  <2>1. CASE Reserve
    BY <2>1 DEF Reserve, CreateTree, AllocHeader, AllocTables, AllocDir, AllocDirsEnd, PlaceFiles,
                PlaceFilesEnd
  <2>2. CASE WriteHeader
    BY <2>2 DEF WriteHeader
  <2>3. CASE WriteEntriesEnd \/ WriteTables \/ WriteDirEntry \/ WriteDirsEnd
    BY <2>3 DEF WriteEntriesEnd, WriteTables, WriteDirEntry, WriteDirsEnd
  <2>4. CASE OpenDir \/ SeeCancel \/ SkipChild \/ WriteFile \/ CloseDir \/ WriteDataEnd \/ WriteTail
    BY <2>4 DEF OpenDir, SeeCancel, SkipChild, WriteFile, CloseDir, WriteDataEnd, WriteTail, NextChild
  <2>5. CASE BootImageLost \/ RequestCancel \/ ChangeFile \/ Returned \/ UNCHANGED vars
    BY <2>5 DEF BootImageLost, RequestCancel, ChangeFile, Returned, vars
  <2> QED  BY <2>1, <2>2, <2>3, <2>4, <2>5
<1>2. UNCHANGED desc \/ (BeforeEntries /\ \E d : desc' = [desc EXCEPT !.iso = d])
  <2>1. CASE Reserve
    BY <2>1 DEF Reserve, CreateTree, AllocHeader, AllocTables, AllocDir, AllocDirsEnd, PlaceFiles,
                PlaceFilesEnd
  <2>2. CASE WriteHeader
    <3>1. UNCHANGED desc \/ \E d : desc' = [desc EXCEPT !.iso = d]
      BY <2>2 DEF WriteHeader
    <3>2. BeforeEntries
      BY <2>2 DEF WriteHeader, BeforeEntries
    <3> QED  BY <3>1, <3>2
  <2>3. CASE WriteEntriesEnd \/ WriteTables \/ WriteDirEntry \/ WriteDirsEnd
    BY <2>3 DEF WriteEntriesEnd, WriteTables, WriteDirEntry, WriteDirsEnd
  <2>4. CASE OpenDir \/ SeeCancel \/ SkipChild \/ WriteFile \/ CloseDir \/ WriteDataEnd \/ WriteTail
    BY <2>4 DEF OpenDir, SeeCancel, SkipChild, WriteFile, CloseDir, WriteDataEnd, WriteTail, NextChild
  <2>5. CASE BootImageLost \/ RequestCancel \/ ChangeFile \/ Returned \/ UNCHANGED vars
    BY <2>5 DEF BootImageLost, RequestCancel, ChangeFile, Returned, vars
  <2> QED  BY <2>1, <2>2, <2>3, <2>4, <2>5
<1>3. /\ BeforeEntries' => BeforeEntries
      /\ pc' = "write entries" => pc = "write entries" /\ UNCHANGED work
  <2>1. CASE Reserve
    BY <2>1 DEF Reserve, CreateTree, AllocHeader, AllocTables, AllocDir, AllocDirsEnd, PlaceFiles,
                PlaceFilesEnd, BeforeEntries
  <2>2. CASE WriteHeader
    BY <2>2 DEF WriteHeader, BeforeEntries
  <2>3. CASE WriteEntriesEnd \/ WriteTables \/ WriteDirEntry \/ WriteDirsEnd
    BY <2>3 DEF WriteEntriesEnd, WriteTables, WriteDirEntry, WriteDirsEnd, BeforeEntries
  <2>4. CASE OpenDir \/ SeeCancel \/ SkipChild \/ WriteFile \/ CloseDir \/ WriteDataEnd \/ WriteTail
    BY <2>4 DEF OpenDir, SeeCancel, SkipChild, WriteFile, CloseDir, WriteDataEnd, WriteTail, NextChild,
                AtChild, BeforeEntries
  <2>5. CASE BootImageLost \/ RequestCancel \/ ChangeFile \/ Returned \/ UNCHANGED vars
    BY <2>5 DEF BootImageLost, RequestCancel, ChangeFile, Returned, vars, BeforeEntries
  <2> QED  BY <2>1, <2>2, <2>3, <2>4, <2>5
<1> QED
  BY <1>1, <1>2, <1>3, UniqueKept

(* The unique identifiers of file entries are distinct, leave out those    *)
(* reserved for Macintosh, and are below the next one, which the integrity *)
(* descriptor states before the first entry is written                     *)
(* (udfwriter.cc, write_partition_entries).                                *)
THEOREM IdentsAreUnique == Spec => []UniqueIdents
<1>1. Init => UniqueInv
  BY InitUnique
<1>2. UniqueInv /\ [Next]_vars => UniqueInv'
  BY OtherUnique, WriteUdfUnique, WriteEntryUnique DEF Next, Write
<1>3. UniqueInv => UniqueIdents
  <2> SUFFICES ASSUME UniqueInv, NEW n \in Nodes(tree), udf[n].ident # NotYet
               PROVE  /\ udf[n].ident < desc.udf.integrity.unique
                      /\ n = Root <=> udf[n].ident < UniqueMin
                      /\ \A m \in Nodes(tree) \ {n} : udf[m].ident # udf[n].ident
    BY DEF UniqueIdents
  <2>1. n \in Visited /\ Numbered
    BY DEF Visited, UniqueInv
  <2>2. IsFiniteSet(Nodes(tree)) /\ Visited \in SUBSET Nodes(tree)
    BY DEF UniqueInv, Fields, Visited
  <2>3. /\ Cardinality(Visited) <= Cardinality(Nodes(tree))
        /\ Cardinality(Visited) \in Nat /\ Cardinality(Nodes(tree)) \in Nat
    BY <2>2, FS_Subset, FS_CardinalityType
  <2>4. IF n = Root THEN udf[n].ident = 0 ELSE udf[n].ident \in UniqueMin .. part.ident - 1
    BY <2>1 DEF Numbered
  <2>5. udf[n].ident < desc.udf.integrity.unique /\ (n = Root <=> udf[n].ident < UniqueMin)
    BY <2>1, <2>3, <2>4 DEF Numbered, UniqueMin
  <2>6. \A m \in Nodes(tree) \ {n} : udf[m].ident # udf[n].ident
    BY <2>1 DEF Numbered, Visited
  <2> QED  BY <2>5, <2>6
<1> QED
  BY <1>1, <1>2, <1>3, PTL DEF Spec

-----------------------------------------------------------------------------
(* Places in the partition.                                                *)

(* The passes up to the header leave what the entries are counted from:    *)
(* where the main descriptors were reserved, and a stream with nothing but *)
(* the header in it.                                                       *)
Prepared ==
  /\ pc \in {"tree", "header"} => mgr = NewManager(16)
  /\ IsUdf(fs) /\ pc \in {"tables", "dirs", "files", "write header", "write udf"} =>
       Places(mgr) /\ mgr.start["main"] = 19 + HeaderSectors(fs)
  /\ pc \in {"tree", "header", "tables", "dirs", "files", "write header"} => out = NewStream
  /\ IsUdf(fs) /\ pc = "write udf" => out = At(HeaderSectors(fs))

(* The count of sectors goes along with the stream; what is on the stack   *)
(* is to follow, each node where the one before ends with all below it.    *)
Following ==
  /\ IsUdf(fs) /\ part.sec \in Nat /\ out = At(part.sec + 241)
  /\ work # <<>> => udf[work[1]].loc = part.sec
  /\ \A i \in 1 .. Len(work) - 1 :
       udf[work[i + 1]].loc = udf[work[i]].loc + UdfSizeTotal(fs, tree)[work[i]]

Recorded ==
  /\ \E input \in Inputs : fs = input.fs /\ tree = input.tree
  /\ {"entry", "tag"} \subseteq DOMAIN disc
  /\ DOMAIN disc.entry = Nodes(tree) /\ DOMAIN disc.tag = Nodes(tree)
  /\ \A n \in Nodes(tree) : disc.entry[n] # NotYet => n \in Visited

EntriesInv ==
  /\ UniqueInv
  /\ Recorded
  /\ Prepared
  /\ pc = "write entries" => Following
  /\ EntriesAsRemembered

(* The inputs for which the theorem holds.                                 *)
AllRegular == \A input \in Inputs : Regular(input.fs, input.tree)

(* Every input is regular, so this one is.                                 *)
LEMMA InputIs ==
  ASSUME AllRegular, Recorded
  PROVE  /\ Regular(fs, tree) /\ AreImages(fs.images)
         /\ IsUdf(fs) => UdfRegular(fs, tree)
<1>1. PICK input \in Inputs : fs = input.fs /\ tree = input.tree
  BY DEF Recorded
<1>2. Regular(fs, tree)
  BY <1>1 DEF AllRegular
<1>3. /\ IsTree(tree) /\ IsFiniteSet(Nodes(tree)) /\ AreImages(fs.images)
      /\ AreSizes(tree) /\ \A n \in Nodes(tree) : IsName(tree.name[n])
  BY <1>1, InputsAssumption
<1> QED
  BY <1>2, <1>3 DEF Regular, UdfRegular, NamedTree

(* Before the first step nothing is written.                               *)
LEMMA InitEntries == Init => EntriesInv
<1> SUFFICES ASSUME Init PROVE EntriesInv
  OBVIOUS
<1>1. UniqueInv
  BY InitUnique
<1>2. /\ {"entry", "tag"} \subseteq DOMAIN disc
      /\ disc.entry = [n \in Nodes(tree) |-> NotYet] /\ disc.tag = [n \in Nodes(tree) |-> NotYet]
      /\ mgr = NewManager(16) /\ out = NewStream /\ pc = "tree"
      /\ \E input \in Inputs : fs = input.fs /\ tree = input.tree
  BY DEF Init
<1>3. Recorded
  BY <1>2 DEF Recorded
<1>4. Prepared
  BY <1>2 DEF Prepared
<1> QED
  BY <1>1, <1>2, <1>3, <1>4 DEF EntriesInv, EntriesAsRemembered

(* A step that writes no entry.                                            *)
LEMMA EntriesKept ==
  ASSUME EntriesInv, UniqueInv', UNCHANGED <<fs, tree, udf, part>>,
         {"entry", "tag"} \subseteq DOMAIN disc', disc'.entry = disc.entry, disc'.tag = disc.tag,
         Prepared', pc' = "write entries" => pc = "write entries" /\ UNCHANGED <<work, out>>
  PROVE  EntriesInv'
<1>1. Visited' = Visited
  BY DEF Visited
<1>2. Recorded'
  BY <1>1 DEF EntriesInv, Recorded
<1>3. EntriesAsRemembered'
  BY DEF EntriesInv, EntriesAsRemembered
<1>4. pc' = "write entries" => Following'
  BY DEF EntriesInv, Following
<1> QED
  BY <1>2, <1>3, <1>4 DEF EntriesInv

(* The reserving passes that come after the header.                        *)
LEMMA MainKept ==
  ASSUME NEW m, Places(m)
  PROVE  /\ \A f, t, dirs : /\ Places(AllocPathTables(m, f, t, dirs))
                            /\ AllocPathTables(m, f, t, dirs).start["main"] = m.start["main"]
         /\ \A k : /\ Places(AllocSectors(m, "direntries", k))
                   /\ AllocSectors(m, "direntries", k).start["main"] = m.start["main"]
                   /\ Places(AllocDataSectors(m, k))
                   /\ AllocDataSectors(m, k).start["main"] = m.start["main"]
<1>1. {"main", "path L", "path M", "joliet path L", "joliet path M", "direntries"} \subseteq Regions
  BY RegionsAssumption DEF IsoRegions, UdfRegions
<1>2. \A q, k, r : Places(q) /\ r \in Regions \ {"main"} =>
        Places(AllocSectors(q, r, k)) /\ AllocSectors(q, r, k).start["main"] = q.start["main"]
  <2> SUFFICES ASSUME NEW q, NEW k, NEW r, Places(q), r \in Regions \ {"main"}
               PROVE  Places(AllocSectors(q, r, k)) /\ AllocSectors(q, r, k).start["main"] = q.start["main"]
    OBVIOUS
  <2>1. r \in Regions /\ "main" \in Regions /\ "main" # r
    BY <1>1
  <2> QED  BY <2>1, PlacedInOrder
<1>3. ASSUME NEW f, NEW t, NEW dirs
      PROVE  /\ Places(AllocPathTables(m, f, t, dirs))
             /\ AllocPathTables(m, f, t, dirs).start["main"] = m.start["main"]
  <2> DEFINE normal == BytesToSec(PathTableBytes(f, t, dirs, FALSE))
             joliet == BytesToSec(IF IsJoliet(f) THEN PathTableBytes(f, t, dirs, TRUE) ELSE 0)
             a == AllocSectors(m, "path L", normal)
             b == AllocSectors(a, "path M", normal)
             c == AllocSectors(b, "joliet path L", joliet)
             d == AllocSectors(c, "joliet path M", joliet)
  <2>1. AllocPathTables(m, f, t, dirs) = d
    BY DEF AllocPathTables, AllocBytes
  <2>2. {"path L", "path M", "joliet path L", "joliet path M"} \subseteq Regions \ {"main"}
    BY <1>1
  <2>3. Places(a) /\ a.start["main"] = m.start["main"]
    BY <1>2, <2>2
  <2> HIDE DEF normal, joliet, a
  <2>4. Places(b) /\ b.start["main"] = m.start["main"]
    BY <1>2, <2>2, <2>3
  <2> HIDE DEF b
  <2>5. Places(c) /\ c.start["main"] = m.start["main"]
    BY <1>2, <2>2, <2>4
  <2> HIDE DEF c
  <2>6. Places(d) /\ d.start["main"] = m.start["main"]
    BY <1>2, <2>2, <2>5
  <2> QED  BY <2>1, <2>6
<1>4. "direntries" \in Regions \ {"main"}
  BY <1>1
<1>5. \A k : /\ Places(AllocDataSectors(m, k))
             /\ AllocDataSectors(m, k).start["main"] = m.start["main"]
  BY DEF AllocDataSectors, Places
<1> QED
  BY <1>2, <1>3, <1>4, <1>5

(* The passes that reserve.                                                *)
LEMMA ReserveEntries ==
  ASSUME AllRegular, EntriesInv, UniqueInv', Reserve
  PROVE  EntriesInv'
<1> USE DEF Goto, Fail, Return, planning, writing
<1>1. /\ UNCHANGED <<fs, tree, udf, part, disc, out>> /\ pc' # "write entries" /\ pc' # "write udf"
      /\ pc \in {"tree", "header", "tables", "dirs", "files"}
  BY DEF Reserve, CreateTree, AllocHeader, AllocTables, AllocDir, AllocDirsEnd, PlaceFiles,
         PlaceFilesEnd
<1>2. Recorded /\ Prepared
  BY DEF EntriesInv
<1>3. out' = NewStream
  BY <1>1, <1>2 DEF Prepared
<1>4. CASE CreateTree
  <2>1. mgr' = mgr /\ pc = "tree" /\ pc' \in {"header", "end"}
    BY <1>4 DEF CreateTree
  <2>2. Prepared'
    BY <1>2, <1>3, <2>1 DEF Prepared
  <2> QED  BY <1>1, <1>2, <2>2, EntriesKept DEF Recorded
<1>5. CASE AllocHeader
  <2>1. pc = "header" /\ pc' = "tables" /\ mgr = NewManager(16)
    BY <1>2, <1>5 DEF AllocHeader, Prepared
  <2>2. IsUdf(fs) => Places(mgr') /\ mgr'.start["main"] = 19 + HeaderSectors(fs)
    <3> SUFFICES ASSUME IsUdf(fs) PROVE Places(mgr') /\ mgr'.start["main"] = 19 + HeaderSectors(fs)
      OBVIOUS
    <3>1. mgr' = AllocUdf(IF IsIso(fs) THEN AllocIsoHeader(mgr, fs) ELSE mgr, fs, tree)
      BY <1>5 DEF AllocHeader
    <3>2. Regular(fs, tree) /\ AreImages(fs.images)
      BY <1>2, InputIs
    <3> QED  BY <2>1, <3>1, <3>2, MainReserved
  <2>3. Prepared'
    BY <1>1, <1>3, <2>1, <2>2 DEF Prepared
  <2> QED  BY <1>1, <1>2, <2>3, EntriesKept DEF Recorded
<1>6. CASE AllocTables \/ AllocDir \/ AllocDirsEnd \/ PlaceFiles \/ PlaceFilesEnd
  <2>1. pc \in {"tables", "dirs", "files"} /\ pc' \in {"dirs", "files", "write header"}
    BY <1>6 DEF AllocTables, AllocDir, AllocDirsEnd, PlaceFiles, PlaceFilesEnd
  <2>2. IsUdf(fs) => Places(mgr) /\ mgr.start["main"] = 19 + HeaderSectors(fs)
    BY <1>2, <2>1 DEF Prepared
  <2>3. \/ mgr' = mgr \/ mgr' = AllocPathTables(mgr, fs, tree, TableDirs)
        \/ mgr' = AllocSectors(mgr, "direntries", sec - mgr.next)
        \/ mgr' = AllocDataSectors(mgr, sec - mgr.next)
    BY <1>6 DEF AllocTables, AllocDir, AllocDirsEnd, PlaceFiles, PlaceFilesEnd
  <2>4. IsUdf(fs) => Places(mgr') /\ mgr'.start["main"] = 19 + HeaderSectors(fs)
    BY <2>2, <2>3, MainKept
  <2>5. Prepared'
    BY <1>1, <1>3, <2>1, <2>4 DEF Prepared
  <2> QED  BY <1>1, <1>2, <2>5, EntriesKept DEF Recorded
<1> QED
  BY <1>4, <1>5, <1>6 DEF Reserve

(* The header takes what was reserved for it.                              *)
LEMMA WriteHeaderEntries ==
  ASSUME AllRegular, EntriesInv, UniqueInv', WriteHeader
  PROVE  EntriesInv'
<1> USE DEF Goto, Fail, Return, planning, writing
<1>1. Recorded /\ Prepared /\ pc = "write header" /\ out = NewStream
  BY DEF EntriesInv, Prepared, WriteHeader
<1>2. Regular(fs, tree) /\ AreImages(fs.images)
  BY <1>1, InputIs
<1>3. UNCHANGED <<fs, tree, udf, part, mgr>> /\ pc' \in {"write udf", "end"}
  BY DEF WriteHeader
<1>4. {"entry", "tag"} \subseteq DOMAIN disc' /\ disc'.entry = disc.entry /\ disc'.tag = disc.tag
  BY <1>1 DEF WriteHeader, Recorded
<1>5. IsUdf(fs) /\ pc' = "write udf" => out' = At(HeaderSectors(fs))
  <2> SUFFICES ASSUME IsUdf(fs), pc' = "write udf" PROVE out' = At(HeaderSectors(fs))
    OBVIOUS
  <2>1. CASE ~IsIso(fs)
    BY <1>1, <2>1 DEF WriteHeader, HeaderSectors, At, NewStream
  <2>2. CASE IsIso(fs)
    <3>1. ~(fs.extended /\ InTree(fs.catalog) /\ fs.images = <<>>)
      BY <2>2 DEF WriteHeader
    <3> DEFINE record == IF fs.images = <<>> THEN <<>>
                         ELSE IF ~fs.extended THEN <<GetStart(mgr, "bootcatalog")>>
                         ELSE IF InTree(fs.catalog) THEN <<place[fs.catalog].normal>> ELSE <<>>
               volumes == VolumeDescriptors(mgr, fs, tree, TableDirs, place[Root], record)
    <3>2. IF fs.images = <<>> THEN record = <<>> ELSE \E place_ : record = <<place_>>
      <4>1. fs.images # <<>> /\ fs.extended => fs.catalog \in Files(tree)
        BY <1>2 DEF Regular, ReachedFiles
      <4> DEFINE a == <<GetStart(mgr, "bootcatalog")>>
                 b == <<place[fs.catalog].normal>>
      <4>2. (\E place_ : a = <<place_>>) /\ (\E place_ : b = <<place_>>)
        OBVIOUS
      <4>3. CASE fs.images = <<>>
        BY <4>3
      <4>4. CASE fs.images # <<>> /\ ~fs.extended
        <5>1. record = a
          BY <4>4
        <5> QED  BY <4>2, <4>4, <5>1
      <4>5. CASE fs.images # <<>> /\ fs.extended
        <5>1. record = b
          BY <4>1, <4>5 DEF InTree
        <5> QED  BY <4>2, <4>5, <5>1
      <4> QED  BY <4>3, <4>4, <4>5
    <3>3. Len(volumes) = Descriptors(fs)
      <4> HIDE DEF record
      <4> QED  BY <3>2, VolumesCounted
    <3>4. out' = IF fs.extended \/ fs.images = <<>> THEN WriteSectors(out, Len(volumes))
                 ELSE WriteBootImages(
                        WriteBootCatalog(WriteSectors(out, Len(volumes)), fs.images), fs.images).out
      BY <2>2, <3>1 DEF WriteHeader
    <3> HIDE DEF volumes
    <3>5. out' = IF fs.extended \/ fs.images = <<>> THEN WriteSectors(NewStream, Descriptors(fs))
                 ELSE WriteBootImages(
                        WriteBootCatalog(WriteSectors(NewStream, Descriptors(fs)), fs.images),
                        fs.images).out
      BY <1>1, <3>3, <3>4
    <3> QED  BY <1>2, <2>2, <3>5, HeaderWritten DEF HeaderSectors
  <2> QED  BY <2>1, <2>2
<1>6. Prepared'
  BY <1>1, <1>3, <1>5 DEF Prepared
<1> QED
  BY <1>3, <1>4, <1>6, EntriesKept

(* From the header to the file set descriptor, which is at 257: the empty  *)
(* sectors fill what the header leaves of the first 256.                   *)
LEMMA WriteUdfEntries ==
  ASSUME AllRegular, EntriesInv, UniqueInv', WriteUdf
  PROVE  EntriesInv'
<1> USE DEF Goto, planning
<1>1. Recorded /\ Prepared /\ pc = "write udf" /\ UNCHANGED <<fs, tree, mgr>>
  BY DEF EntriesInv, WriteUdf
<1>2. {"entry", "tag"} \subseteq DOMAIN disc' /\ disc'.entry = disc.entry /\ disc'.tag = disc.tag
  BY <1>1 DEF WriteUdf, Recorded
<1>3. CASE ~IsUdf(fs)
  <2>1. pc' = "write tables" /\ UNCHANGED <<udf, part, out>>
    BY <1>3 DEF WriteUdf
  <2>2. Prepared'
    BY <2>1 DEF Prepared
  <2> QED  BY <1>1, <1>2, <2>1, <2>2, EntriesKept
<1>4. CASE IsUdf(fs)
  <2> DEFINE hs == HeaderSectors(fs)
             main == WriteSectors(out, 3)
             anchor == WriteSectors(main, MainSectors(GetStart(mgr, "main")))
  <2>1. hs \in Nat /\ hs + 19 <= 222
    BY <1>1, <1>4, InputIs, HeaderFits
  <2>2. out = At(hs) /\ GetStart(mgr, "main") = 19 + hs
    BY <1>1, <1>4 DEF Prepared, GetStart
  <2>3. /\ out' = WriteSectors(anchor, 2) /\ part' = [sec |-> 1, ident |-> 0]
        /\ udf' = [udf EXCEPT ![Root].loc = 1] /\ work' = <<Root>> /\ pc' = "write entries"
    BY <1>4 DEF WriteUdf
  <2> HIDE DEF hs
  <2>4. MainSectors(19 + hs) = 237 - hs /\ 237 - hs \in Nat
    BY <2>1 DEF MainSectors, MainSequence, AnchorSector
  <2>5. main = At(hs + 3)
    BY <2>1, <2>2, WholeSectors
  <2>6. anchor = At(hs + 3 + (237 - hs))
    <3>1. hs + 3 \in Nat
      BY <2>1
    <3> HIDE DEF main
    <3> QED  BY <2>2, <2>4, <2>5, <3>1, WholeSectors
  <2>7. hs + 3 + (237 - hs) = 240
    BY <2>1
  <2>8. out' = At(242)
    <3>1. WriteSectors(At(240), 2) = At(240 + 2) /\ 240 + 2 = 242
      BY WholeSectors
    <3> HIDE DEF anchor
    <3>2. anchor = At(240)
      BY <2>6, <2>7
    <3> QED  BY <2>3, <3>1, <3>2
  <2> HIDE DEF main, anchor
  <2>9. /\ DOMAIN udf = Nodes(tree) /\ Root \in Nodes(tree) /\ "loc" \in DOMAIN udf[Root]
        /\ Visited = {}
    BY <1>1 DEF EntriesInv, UniqueInv, Fields, IsTree, Nodes, BeforeEntries
  <2>10. udf'[Root].loc = 1 /\ <<Root>>[1] = Root /\ Len(<<Root>>) = 1
    BY <2>3, <2>9
  <2>11. Following'
    <3>1. part'.sec = 1 /\ out' = At(part'.sec + 241)
      <4>1. part' = [sec |-> 1, ident |-> 0]
        BY <2>3
      <4>2. part'.sec = 1
        BY <4>1
      <4>3. part'.sec + 241 = 242
        BY <4>2
      <4> QED  BY <2>8, <4>2, <4>3
    <3>2. work' = <<Root>>
      BY <2>3
    <3>3. udf'[work'[1]].loc = part'.sec /\ Len(work') - 1 = 0
      BY <2>10, <3>1, <3>2
    <3>4. fs' = fs
      BY <1>1
    <3>5. IsUdf(fs')
      BY <1>4, <3>4
    <3>6. part'.sec \in Nat
      BY <3>1
    <3>7. \A i \in 1 .. Len(work') - 1 : FALSE
      <4>1. 1 .. 0 = {}
        OBVIOUS
      <4> QED  BY <3>3, <4>1
    <3> QED  BY <3>1, <3>3, <3>5, <3>6, <3>7 DEF Following
  <2>12. \A n \in Nodes(tree) : disc'.entry[n] = NotYet
    BY <1>1, <1>2, <2>9 DEF Recorded
  <2>13. Recorded'
    BY <1>1, <1>2, <2>12 DEF Recorded
  <2>14. Prepared'
    BY <2>3 DEF Prepared
  <2>15. EntriesAsRemembered'
    BY <1>1, <2>12 DEF EntriesAsRemembered
  <2> QED  BY <2>11, <2>13, <2>14, <2>15 DEF EntriesInv
<1> QED
  BY <1>3, <1>4

-----------------------------------------------------------------------------
(* One entry is written.  loc is where the nodes are said to be afterwards. *)

(* The entry goes where it was said to be, and stays where it is.          *)
LEMMA EntryRecorded ==
  ASSUME EntriesInv, UniqueInv', Following, NEW n \in Nodes(tree), work # <<>>, n = work[1],
         UNCHANGED <<fs, tree>>, disc' = [disc EXCEPT !.entry[n] = Now(out), !.tag[n] = part.sec],
         Visited' = Visited \cup {n}, udf'[n].loc = udf[n].loc,
         \A k \in Visited : udf'[k].loc = udf[k].loc
  PROVE  Recorded' /\ EntriesAsRemembered'
<1>1. Recorded /\ EntriesAsRemembered
  BY DEF EntriesInv
<1>2. /\ DOMAIN disc' = DOMAIN disc
      /\ disc'.entry = [disc.entry EXCEPT ![n] = Now(out)]
      /\ disc'.tag = [disc.tag EXCEPT ![n] = part.sec]
  BY <1>1 DEF Recorded
<1>3. Now(out) = PartStart + udf[n].loc /\ part.sec = udf[n].loc
  BY DEF Following, At, Now, PartStart
<1>4. Recorded'
  BY <1>1, <1>2 DEF Recorded
<1>5. \A k \in Nodes(tree) : disc'.entry[k] # NotYet =>
        disc'.entry[k] = PartStart + udf'[k].loc /\ disc'.tag[k] = udf'[k].loc
  <2> SUFFICES ASSUME NEW k \in Nodes(tree), disc'.entry[k] # NotYet
               PROVE  disc'.entry[k] = PartStart + udf'[k].loc /\ disc'.tag[k] = udf'[k].loc
    OBVIOUS
  <2>1. CASE k = n
    BY <1>1, <1>2, <1>3, <2>1 DEF Recorded
  <2>2. CASE k # n
    <3>1. disc'.entry[k] = disc.entry[k] /\ disc'.tag[k] = disc.tag[k]
      BY <1>1, <1>2, <2>2 DEF Recorded
    <3>2. k \in Visited
      BY <1>1, <3>1 DEF Recorded
    <3> QED  BY <1>1, <3>1, <3>2 DEF EntriesAsRemembered
  <2> QED  BY <2>1, <2>2
<1> QED
  BY <1>4, <1>5 DEF EntriesAsRemembered

(* What is left keeps its places; the first of it is where the node ends   *)
(* with all that is below it.                                              *)
LEMMA RestFollows ==
  ASSUME Following, NEW S, work \in Seq(S), work # <<>>, NEW loc,
         \A i \in 1 .. Len(Tail(work)) : loc[Tail(work)[i]] = udf[Tail(work)[i]].loc
  PROVE  LET rest == Tail(work)
             tot  == UdfSizeTotal(fs, tree)
         IN /\ rest # <<>> => loc[rest[1]] = part.sec + tot[work[1]]
            /\ \A i \in 1 .. Len(rest) - 1 : loc[rest[i + 1]] = loc[rest[i]] + tot[rest[i]]
<1> DEFINE rest == Tail(work)
           tot  == UdfSizeTotal(fs, tree)
<1>1. /\ rest \in Seq(S) /\ Len(rest) = Len(work) - 1 /\ Len(work) \in Nat /\ Len(rest) \in Nat
      /\ \A i \in 1 .. Len(rest) : rest[i] = work[i + 1]
  OBVIOUS
<1>2. udf[work[1]].loc = part.sec
  BY DEF Following
<1>3. \A i \in 1 .. Len(work) - 1 : udf[work[i + 1]].loc = udf[work[i]].loc + tot[work[i]]
  BY DEF Following
<1>4. rest # <<>> => 1 \in 1 .. Len(rest)
  <2> HIDE DEF rest
  <2> QED  BY <1>1
<1> HIDE DEF tot
<1>5. rest # <<>> => loc[rest[1]] = part.sec + tot[work[1]]
  <2> SUFFICES ASSUME rest # <<>> PROVE loc[rest[1]] = part.sec + tot[work[1]]
    OBVIOUS
  <2>1. rest[1] = work[2] /\ 1 \in 1 .. Len(work) - 1 /\ 1 \in 1 .. Len(rest)
    BY <1>1, <1>4
  <2> QED  BY <1>2, <1>3, <2>1
<1>6. \A i \in 1 .. Len(rest) - 1 : loc[rest[i + 1]] = loc[rest[i]] + tot[rest[i]]
  <2> TAKE i \in 1 .. Len(rest) - 1
  <2>1. i \in 1 .. Len(rest) /\ i + 1 \in 1 .. Len(rest) /\ i + 1 \in 1 .. Len(work) - 1
    BY <1>1
  <2>2. rest[i] = work[i + 1] /\ rest[i + 1] = work[(i + 1) + 1]
    BY <1>1, <2>1
  <2>3. loc[rest[i]] = udf[work[i + 1]].loc /\ loc[rest[i + 1]] = udf[work[(i + 1) + 1]].loc
    BY <2>1, <2>2
  <2> QED  BY <1>3, <2>1, <2>2, <2>3
<1> QED
  BY <1>5, <1>6 DEF tot

(* The entry of a file takes one sector.                                   *)
LEMMA FileEntry ==
  ASSUME AllRegular, EntriesInv, UniqueInv', WriteEntry, ~EntryRefused(Head(work)),
         Head(work) \notin Dirs(tree), Visited' = Visited \cup {Head(work)}
  PROVE  EntriesInv'
<1> DEFINE n    == Head(work)
           rest == Tail(work)
           tot  == UdfSizeTotal(fs, tree)
<1> USE DEF Goto, planning
<1>1. /\ pc = "write entries" /\ work # <<>> /\ pc' = "write entries" /\ UNCHANGED <<fs, tree, mgr>>
      /\ disc' = [disc EXCEPT !.entry[n] = Now(out), !.tag[n] = part.sec]
      /\ udf' = [udf EXCEPT ![n].ident = part.ident]
      /\ out' = WriteSectors(out, 1)
      /\ part' = [sec |-> part.sec + 1, ident |-> NextUnique(part.ident)]
      /\ work' = rest
  BY DEF WriteEntry
<1>2. UniqueInv /\ Recorded /\ Following /\ Walk /\ Fields
  BY <1>1 DEF EntriesInv, UniqueInv
<1>3. IsUdf(fs) /\ UdfRegular(fs, tree)
  BY <1>2, InputIs DEF Following
<1>4. work \in Seq(Nodes(tree)) /\ n \in Nodes(tree) /\ n = work[1]
  <2>1. ASSUME NEW S, NEW s \in Seq(S), s # <<>>
        PROVE  Head(s) = s[1] /\ Head(s) \in S
    BY <2>1
  <2>2. work \in Seq(Nodes(tree)) /\ work # <<>>
    BY <1>1, <1>2 DEF Walk
  <2> HIDE DEF n
  <2> QED  BY <2>1, <2>2 DEF n
<1>5. \A k \in Nodes(tree) : udf'[k].loc = udf[k].loc
  BY <1>1, <1>2 DEF Fields
<1>6. Recorded' /\ EntriesAsRemembered'
  <2>1. \A k \in Visited : k \in Nodes(tree)
    BY DEF Visited
  <2> QED  BY <1>1, <1>2, <1>4, <1>5, <2>1, EntryRecorded
<1>7. tot[n] = 1
  <2>1. n \in Files(tree) /\ UdfSize(fs, tree, n) = 1
    BY <1>3, <1>4, UdfSizeIs DEF Nodes, UdfRegular
  <2> QED  BY <1>3, <2>1, TotalsAre DEF UdfRegular, Totals
<1>8. part.sec \in Nat /\ out = At(part.sec + 241)
  BY <1>2 DEF Following
<1>9. part'.sec = part.sec + 1
  BY <1>1
<1>10. out' = At(part'.sec + 241)
  <2>1. part.sec + 241 \in Nat /\ part'.sec + 241 = part.sec + 241 + 1
    BY <1>8, <1>9
  <2>2. WriteSectors(At(part.sec + 241), 1) = At(part.sec + 241 + 1)
    BY <2>1, WholeSectors
  <2>3. out' = WriteSectors(out, 1)
    BY <1>1
  <2> QED  BY <1>8, <2>1, <2>2, <2>3
<1>11. Following'
  <2> DEFINE loc == [k \in Nodes(tree) |-> udf'[k].loc]
  <2>1. \A i \in 1 .. Len(rest) : rest[i] \in Nodes(tree)
    <3>1. \A S : \A s \in Seq(S) : s # <<>> => \A i \in 1 .. Len(Tail(s)) : Tail(s)[i] \in S
      OBVIOUS
    <3> QED  BY <1>1, <1>4, <3>1
  <2>2. \A i \in 1 .. Len(rest) : loc[rest[i]] = udf[rest[i]].loc /\ loc[rest[i]] = udf'[rest[i]].loc
    BY <1>5, <2>1
  <2> HIDE DEF loc, tot
  <2>3. /\ rest # <<>> => loc[rest[1]] = part.sec + tot[work[1]]
        /\ \A i \in 1 .. Len(rest) - 1 : loc[rest[i + 1]] = loc[rest[i]] + tot[rest[i]]
    BY <1>1, <1>2, <1>4, <2>2, RestFollows DEF tot
  <2>4. Len(rest) \in Nat /\ (rest # <<>> => 1 \in 1 .. Len(rest))
    <3>1. \A S : \A s \in Seq(S) : s # <<>> => Tail(s) \in Seq(S)
      OBVIOUS
    <3>2. \A S : \A s \in Seq(S) : Len(s) \in Nat /\ (s # <<>> => 1 \in 1 .. Len(s))
      OBVIOUS
    <3>3. rest \in Seq(Nodes(tree))
      BY <1>1, <1>4, <3>1
    <3> QED  BY <3>2, <3>3
  <2>5. rest # <<>> => udf'[rest[1]].loc = part'.sec
    BY <1>4, <1>7, <1>9, <2>2, <2>3, <2>4
  <2>6. \A i \in 1 .. Len(rest) - 1 : udf'[rest[i + 1]].loc = udf'[rest[i]].loc + tot[rest[i]]
    <3> TAKE i \in 1 .. Len(rest) - 1
    <3>1. i \in 1 .. Len(rest) /\ i + 1 \in 1 .. Len(rest)
      BY <2>4
    <3> QED  BY <2>2, <2>3, <3>1
  <2>7. part'.sec \in Nat
    BY <1>8, <1>9
  <2> HIDE DEF rest
  <2> QED  BY <1>1, <1>3, <1>10, <2>5, <2>6, <2>7 DEF Following, tot
<1>12. Prepared'
  BY <1>1 DEF Prepared
<1> QED
  BY <1>6, <1>11, <1>12 DEF EntriesInv

(* A directory's entry and identifiers take what was foreseen, and its     *)
(* children, with all that is below them, fill the rest of what is         *)
(* reserved for it.                                                        *)
LEMMA DirEntry ==
  ASSUME AllRegular, EntriesInv, UniqueInv', WriteEntry, ~EntryRefused(Head(work)),
         Head(work) \in Dirs(tree), Visited' = Visited \cup {Head(work)}
  PROVE  EntriesInv'
<1> DEFINE n    == Head(work)
           rest == Tail(work)
           kids == tree.kids[n]
           tot  == UdfSizeTotal(fs, tree)
           locs == ChildEntries(fs, tree, n, part.sec)
<1> USE DEF Goto, planning
<1>1. /\ pc = "write entries" /\ work # <<>> /\ pc' = "write entries" /\ UNCHANGED <<fs, tree, mgr>>
      /\ disc' = [disc EXCEPT !.entry[n] = Now(out), !.tag[n] = part.sec]
      /\ udf' = [k \in Nodes(tree) |->
                   IF k = n THEN [udf[n] EXCEPT !.ident = part.ident]
                   ELSE IF k \in Range(kids)
                   THEN [udf[k] EXCEPT !.loc = locs[CHOOSE i \in DOMAIN kids : kids[i] = k]]
                   ELSE udf[k]]
      /\ out' = WriteUdfDir(out, fs, tree, n)
      /\ part' = [sec |-> NextPartSec(fs, tree, n, part.sec), ident |-> NextUnique(part.ident)]
      /\ work' = kids \o rest
  BY DEF WriteEntry
<1>2. UniqueInv /\ Recorded /\ Following /\ Walk /\ Fields
  BY <1>1 DEF EntriesInv, UniqueInv
<1>3. IsUdf(fs) /\ UdfRegular(fs, tree) /\ part.sec \in Nat /\ out = At(part.sec + 241)
  BY <1>2, InputIs DEF Following
<1>4. /\ work \in Seq(Nodes(tree)) /\ n \in Nodes(tree) /\ n = work[1]
      /\ rest \in Seq(Nodes(tree)) /\ Len(rest) \in Nat /\ (rest # <<>> => 1 \in 1 .. Len(rest))
      /\ \A i \in 1 .. Len(rest) : rest[i] \in Nodes(tree) /\ rest[i] = work[i + 1]
  <2>1. ASSUME NEW S, NEW s \in Seq(S), s # <<>>
        PROVE  Head(s) = s[1] /\ Head(s) \in S /\ Tail(s) \in Seq(S)
               /\ \A i \in 1 .. Len(Tail(s)) : Tail(s)[i] \in S /\ Tail(s)[i] = s[i + 1]
    BY <2>1
  <2>2. \A S : \A s \in Seq(S) : Len(s) \in Nat /\ (s # <<>> => 1 \in 1 .. Len(s))
    OBVIOUS
  <2>3. work \in Seq(Nodes(tree)) /\ work # <<>>
    BY <1>1, <1>2 DEF Walk
  <2> HIDE DEF n, rest
  <2>4. /\ n = work[1] /\ n \in Nodes(tree) /\ rest \in Seq(Nodes(tree))
        /\ \A i \in 1 .. Len(rest) : rest[i] \in Nodes(tree) /\ rest[i] = work[i + 1]
    BY <2>1, <2>3 DEF n, rest
  <2> QED  BY <2>2, <2>3, <2>4
<1>5. /\ kids \in Seq(Nodes(tree)) /\ Len(kids) \in Nat /\ DOMAIN kids = 1 .. Len(kids)
      /\ \A i \in 1 .. Len(kids) : kids[i] \in Nodes(tree) /\ kids[i] \in Range(kids)
  BY <1>3, KidsOf DEF UdfRegular, NamedTree
<1>6. /\ \A i \in 1 .. Len(kids) : /\ kids[i] \notin Visited /\ kids[i] # n
                                   /\ kids[i] \notin {rest[j] : j \in 1 .. Len(rest)}
      /\ \A i, j \in 1 .. Len(kids) : kids[i] = kids[j] => i = j
  BY <1>1, <1>2, KidsAreNew
<1>7. /\ \A k \in Nodes(tree) \ Range(kids) : udf'[k].loc = udf[k].loc
      /\ \A i \in 1 .. Len(kids) : udf'[kids[i]].loc = locs[i]
  <2>1. \A k \in Nodes(tree) : "loc" \in DOMAIN udf[k]
    BY <1>2 DEF Fields
  <2>2. \A i \in 1 .. Len(kids) : (CHOOSE j \in DOMAIN kids : kids[j] = kids[i]) = i
    BY <1>5, <1>6
  <2>3. \A k \in Nodes(tree) :
          udf'[k] = IF k = n THEN [udf[n] EXCEPT !.ident = part.ident]
                    ELSE IF k \in Range(kids)
                    THEN [udf[k] EXCEPT !.loc = locs[CHOOSE i \in DOMAIN kids : kids[i] = k]]
                    ELSE udf[k]
    BY <1>1
  <2> HIDE DEF locs, kids, n
  <2>4. \A k \in Nodes(tree) \ Range(kids) : udf'[k].loc = udf[k].loc
    BY <2>1, <2>3
  <2>5. ASSUME NEW i \in 1 .. Len(kids) PROVE udf'[kids[i]].loc = locs[i]
    <3>1. kids[i] \in Nodes(tree) /\ kids[i] # n /\ kids[i] \in Range(kids)
      BY <1>5, <1>6
    <3>2. udf'[kids[i]] = [udf[kids[i]] EXCEPT !.loc = locs[CHOOSE j \in DOMAIN kids : kids[j] = kids[i]]]
      BY <2>3, <3>1
    <3>3. udf'[kids[i]] = [udf[kids[i]] EXCEPT !.loc = locs[i]]
      BY <2>2, <3>2
    <3> QED  BY <2>1, <3>1, <3>3
  <2> QED  BY <2>4, <2>5
<1>8. \A k \in Range(kids) : \E i \in 1 .. Len(kids) : k = kids[i]
  BY <1>5 DEF Range
<1>9. Recorded' /\ EntriesAsRemembered'
  <2>1. \A k \in Visited \cup {n} : k \in Nodes(tree) \ Range(kids)
    BY <1>4, <1>6, <1>8 DEF Visited
  <2>2. udf'[n].loc = udf[n].loc /\ \A k \in Visited : udf'[k].loc = udf[k].loc
    BY <1>7, <2>1
  <2> HIDE DEF n
  <2> QED  BY <1>1, <1>2, <1>4, <2>2, EntryRecorded DEF n
<1> DEFINE size == BytesToSec(IdentBytes(fs, tree, n))
<1>10. size \in Nat /\ UdfSize(fs, tree, n) = 1 + size
  <2>1. IdentBytes(fs, tree, n) \in Nat
    BY <1>3, IdentsSum DEF UdfRegular
  <2> QED  BY <2>1, SectorsNat DEF UdfSize
<1>11. part'.sec = part.sec + 1 + size
  <2>1. part'.sec = NextPartSec(fs, tree, n, part.sec)
    BY <1>1
  <2> QED  BY <1>3, <2>1, NextPartSecIs
<1>12. out' = At(part'.sec + 241)
  <2>1. part.sec + 241 \in Nat
    BY <1>3
  <2>2. out' = At(part.sec + 241 + 1 + size)
    <3>1. out' = WriteUdfDir(At(part.sec + 241), fs, tree, n)
      BY <1>1, <1>3
    <3> QED  BY <1>3, <2>1, <3>1, UdfDirWritten
  <2> HIDE DEF size
  <2>3. part.sec + 241 + 1 + size = part'.sec + 241
    BY <1>3, <1>10, <1>11
  <2> QED  BY <2>2, <2>3
<1>13. part'.sec \in Nat
  <2> HIDE DEF size
  <2> QED  BY <1>3, <1>10, <1>11
<1>14. /\ kids = <<>> => part.sec + tot[n] = part'.sec
       /\ kids # <<>> => /\ locs[1] = part'.sec
                         /\ locs[Len(kids)] + tot[kids[Len(kids)]] = part.sec + tot[n]
       /\ \A i \in 1 .. Len(kids) - 1 : locs[i + 1] = locs[i] + tot[kids[i]]
  <2>1. /\ kids = <<>> => tot[n] = UdfSize(fs, tree, n)
        /\ kids # <<>> => /\ locs[1] = part.sec + UdfSize(fs, tree, n)
                          /\ locs[Len(kids)] + tot[kids[Len(kids)]] = part.sec + tot[n]
        /\ \A i \in 1 .. Len(kids) - 1 : locs[i + 1] = locs[i] + tot[kids[i]]
    <3>1. UdfRegular(fs, tree) /\ n \in Dirs(tree) /\ part.sec \in Nat
      BY <1>3
    <3> HIDE DEF n
    <3> QED  BY <3>1, ChildrenFollow
  <2>2. part.sec + UdfSize(fs, tree, n) = part'.sec
    <3> HIDE DEF size
    <3> QED  BY <1>3, <1>10, <1>11
  <2> HIDE DEF size, locs, tot, kids, n
  <2> QED  BY <2>1, <2>2
<1> DEFINE loc == [k \in Nodes(tree) |-> udf'[k].loc]
<1>15. /\ rest # <<>> => loc[rest[1]] = part.sec + tot[n]
       /\ \A i \in 1 .. Len(rest) - 1 : loc[rest[i + 1]] = loc[rest[i]] + tot[rest[i]]
  <2>1. \A i \in 1 .. Len(rest) : rest[i] \in Nodes(tree) \ Range(kids)
    BY <1>4, <1>6, <1>8
  <2>2. \A i \in 1 .. Len(rest) : loc[rest[i]] = udf[rest[i]].loc
    BY <1>7, <2>1
  <2> HIDE DEF loc, tot
  <2> QED  BY <1>1, <1>2, <1>4, <2>2, RestFollows DEF tot
<1>16. \A i \in 1 .. Len(kids) : loc[kids[i]] = locs[i]
  BY <1>5, <1>7
<1>17. /\ DOMAIN work' = 1 .. Len(kids) + Len(rest) /\ Len(work') = Len(kids) + Len(rest)
       /\ \A i \in 1 .. Len(kids) : work'[i] = kids[i]
       /\ \A i \in 1 .. Len(rest) : work'[Len(kids) + i] = rest[i]
       /\ \A i \in 1 .. Len(work') : work'[i] \in Nodes(tree)
  <2>1. \A S : \A a, b \in Seq(S) :
          /\ DOMAIN (a \o b) = 1 .. Len(a) + Len(b) /\ Len(a \o b) = Len(a) + Len(b)
          /\ \A i \in 1 .. Len(a) : (a \o b)[i] = a[i]
          /\ \A i \in 1 .. Len(b) : (a \o b)[Len(a) + i] = b[i]
          /\ \A i \in 1 .. Len(a \o b) : (a \o b)[i] \in S
    OBVIOUS
  <2>2. work' = kids \o rest
    BY <1>1
  <2> HIDE DEF kids, rest
  <2> QED  BY <1>4, <1>5, <2>1, <2>2
<1> HIDE DEF kids, rest, tot, locs, loc, n, size
<1>18. work' # <<>> => loc[work'[1]] = part'.sec
  <2> SUFFICES ASSUME work' # <<>> PROVE loc[work'[1]] = part'.sec
    OBVIOUS
  <2>1. CASE kids = <<>>
    <3>1. Len(kids) = 0 /\ work' = rest
      <4>1. \A S : \A s \in Seq(S) : <<>> \o s = s
        OBVIOUS
      <4> QED  BY <1>1, <1>4, <2>1, <4>1
    <3> QED  BY <1>14, <1>15, <2>1, <3>1
  <2>2. CASE kids # <<>>
    <3>1. 1 \in 1 .. Len(kids)
      BY <1>5, <2>2
    <3> QED  BY <1>14, <1>16, <1>17, <2>2, <3>1
  <2> QED  BY <2>1, <2>2
<1>19. \A i \in 1 .. Len(work') - 1 : loc[work'[i + 1]] = loc[work'[i]] + tot[work'[i]]
  <2> TAKE i \in 1 .. Len(work') - 1
  <2> DEFINE j == i - Len(kids)
  <2>1. CASE i < Len(kids)
    <3>1. i \in 1 .. Len(kids) - 1 /\ i \in 1 .. Len(kids) /\ i + 1 \in 1 .. Len(kids)
      BY <1>4, <1>5, <1>17, <2>1
    <3> QED  BY <1>14, <1>16, <1>17, <3>1
  <2>2. CASE i = Len(kids)
    <3>1. kids # <<>> /\ i \in 1 .. Len(kids) /\ rest # <<>> /\ 1 \in 1 .. Len(rest)
      BY <1>4, <1>5, <1>17, <2>2
    <3>2. work'[i + 1] = rest[1] /\ work'[i] = kids[Len(kids)]
      BY <1>17, <2>2, <3>1
    <3> QED  BY <1>14, <1>15, <1>16, <2>2, <3>1, <3>2
  <2>3. CASE i > Len(kids)
    <3>1. /\ j \in 1 .. Len(rest) - 1 /\ j \in 1 .. Len(rest) /\ j + 1 \in 1 .. Len(rest)
          /\ i = Len(kids) + j /\ i + 1 = Len(kids) + (j + 1)
      BY <1>4, <1>5, <1>17, <2>3
    <3> HIDE DEF j
    <3>2. work'[Len(kids) + j] = rest[j] /\ work'[Len(kids) + (j + 1)] = rest[j + 1]
      BY <1>17, <3>1
    <3>3. work'[i] = rest[j] /\ work'[i + 1] = rest[j + 1]
      BY <3>1, <3>2
    <3> QED  BY <1>15, <3>1, <3>3
  <2>4. i \in Nat /\ Len(kids) \in Nat
    BY <1>5
  <2> QED  BY <2>1, <2>2, <2>3, <2>4
<1>20. Following'
  <2>1. fs' = fs /\ tree' = tree
    BY <1>1
  <2>2. \A i \in 1 .. Len(work') : loc[work'[i]] = udf'[work'[i]].loc
    BY <1>17 DEF loc
  <2>3. Len(work') \in Nat /\ (work' # <<>> => 1 \in 1 .. Len(work'))
    <3>1. \A S : \A a, b \in Seq(S) : Len(a \o b) \in Nat /\ (a \o b # <<>> => 1 \in 1 .. Len(a \o b))
      OBVIOUS
    <3> QED  BY <1>1, <1>4, <1>5, <3>1 DEF kids, rest
  <2>4. work' # <<>> => udf'[work'[1]].loc = part'.sec
    BY <1>18, <2>2, <2>3
  <2>5. \A i \in 1 .. Len(work') - 1 :
          udf'[work'[i + 1]].loc = udf'[work'[i]].loc + UdfSizeTotal(fs, tree)[work'[i]]
    <3> TAKE i \in 1 .. Len(work') - 1
    <3>1. i \in 1 .. Len(work') /\ i + 1 \in 1 .. Len(work')
      BY <2>3
    <3> QED  BY <1>19, <2>2, <3>1 DEF tot
  <2> QED  BY <1>3, <1>12, <1>13, <2>1, <2>4, <2>5 DEF Following
<1>21. Prepared'
  BY <1>1 DEF Prepared
<1> QED
  BY <1>1, <1>9, <1>20, <1>21 DEF EntriesInv

(* One round of write_partition_entries.                                   *)
LEMMA WriteEntryEntries ==
  ASSUME AllRegular, EntriesInv, WriteEntry
  PROVE  EntriesInv'
<1>1. UniqueInv' /\ (~EntryRefused(Head(work)) => Visited' = Visited \cup {Head(work)})
  BY WriteEntryUnique DEF EntriesInv
<1>2. CASE EntryRefused(Head(work))
  <2>1. pc' = "end" /\ UNCHANGED <<fs, tree, udf, part, disc>>
    BY <1>2 DEF WriteEntry, Fail, Return, writing
  <2>2. Prepared'
    BY <2>1 DEF Prepared
  <2> QED  BY <1>1, <2>1, <2>2, EntriesKept DEF EntriesInv, Recorded
<1> QED
  BY <1>1, <1>2, FileEntry, DirEntry

(* The later passes, the user and the files on the hard drive.             *)
LEMMA OtherEntries ==
  ASSUME EntriesInv, UniqueInv',
         \/ BootImageLost \/ WriteEntriesEnd \/ WriteTables \/ WriteDirEntry \/ WriteDirsEnd
         \/ OpenDir \/ SeeCancel \/ SkipChild \/ WriteFile \/ CloseDir \/ WriteDataEnd \/ WriteTail
         \/ RequestCancel \/ ChangeFile \/ Returned \/ UNCHANGED vars
  PROVE  EntriesInv'
<1> USE DEF Goto, Fail, Return, planning, writing
<1>1. Recorded /\ Prepared
  BY DEF EntriesInv
<1>2. CASE RequestCancel \/ ChangeFile \/ Returned \/ UNCHANGED vars
  <2>1. UNCHANGED <<fs, tree, pc, work, udf, part, disc, out, mgr>>
    BY <1>2 DEF RequestCancel, ChangeFile, Returned, vars
  <2>2. Prepared'
    BY <1>1, <2>1 DEF Prepared
  <2> QED  BY <1>1, <2>1, <2>2, EntriesKept DEF Recorded
<1>3. CASE \/ BootImageLost \/ WriteEntriesEnd \/ WriteTables \/ WriteDirEntry \/ WriteDirsEnd
           \/ OpenDir \/ SeeCancel \/ SkipChild \/ WriteFile \/ CloseDir \/ WriteDataEnd \/ WriteTail
  <2>1. /\ UNCHANGED <<fs, tree, udf, part>>
        /\ pc' \in {"write tables", "write dirs", "write data", "tail", "end"}
    <3>1. CASE BootImageLost \/ WriteEntriesEnd \/ WriteTables \/ WriteDirEntry \/ WriteDirsEnd
      BY <3>1 DEF BootImageLost, WriteEntriesEnd, WriteTables, WriteDirEntry, WriteDirsEnd
    <3>2. CASE OpenDir \/ SeeCancel \/ SkipChild \/ WriteFile \/ CloseDir \/ WriteDataEnd \/ WriteTail
      BY <3>2 DEF OpenDir, SeeCancel, SkipChild, WriteFile, CloseDir, WriteDataEnd, WriteTail, NextChild
    <3> QED  BY <1>3, <3>1, <3>2
  <2>2. {"entry", "tag"} \subseteq DOMAIN disc' /\ disc'.entry = disc.entry /\ disc'.tag = disc.tag
    <3>1. CASE BootImageLost \/ WriteEntriesEnd \/ WriteTables \/ WriteDirsEnd
      BY <1>1, <3>1 DEF BootImageLost, WriteEntriesEnd, WriteTables, WriteDirsEnd, Recorded
    <3>2. CASE WriteDirEntry
      BY <1>1, <3>2 DEF WriteDirEntry, Recorded
    <3>3. CASE OpenDir \/ SeeCancel \/ SkipChild \/ WriteFile \/ CloseDir \/ WriteDataEnd \/ WriteTail
      BY <1>1, <3>3 DEF OpenDir, SeeCancel, SkipChild, WriteFile, CloseDir, WriteDataEnd, WriteTail,
                        NextChild, Recorded
    <3> QED  BY <1>3, <3>1, <3>2, <3>3
  <2>3. Prepared'
    BY <2>1 DEF Prepared
  <2> QED  BY <2>1, <2>2, <2>3, EntriesKept
<1> QED
  BY <1>2, <1>3

(* Every step keeps what is remembered.                                    *)
LEMMA EntriesStep ==
  ASSUME AllRegular, EntriesInv, [Next]_vars
  PROVE  EntriesInv'
<1>1. UniqueInv
  BY DEF EntriesInv
<1>2. UniqueInv'
  BY <1>1, OtherUnique, WriteUdfUnique, WriteEntryUnique DEF Next, Write
<1>3. CASE Reserve
  BY <1>2, <1>3, ReserveEntries
<1>4. CASE WriteHeader
  BY <1>2, <1>4, WriteHeaderEntries
<1>5. CASE WriteUdf
  BY <1>2, <1>5, WriteUdfEntries
<1>6. CASE WriteEntry
  BY <1>6, WriteEntryEntries
<1> QED
  BY <1>2, <1>3, <1>4, <1>5, <1>6, OtherEntries DEF Next, Write

(* A file entry is written where the identifier in its directory points    *)
(* (udf_part_loc_), and its tag states that place: the check of the debug  *)
(* build in udfwriter.cc, write_partition_entries, for all inputs on which *)
(* the passes agree.                                                       *)
THEOREM EntriesAreRemembered ==
  ASSUME \A input \in Inputs : Regular(input.fs, input.tree)
  PROVE  Spec => []EntriesAsRemembered
<1>1. Init => EntriesInv
  BY InitEntries
<1>2. EntriesInv /\ [Next]_vars => EntriesInv'
  BY EntriesStep DEF AllRegular
<1>3. EntriesInv => EntriesAsRemembered
  BY DEF EntriesInv
<1> QED
  BY <1>1, <1>2, <1>3, PTL DEF Spec

(* cur is a triple.                                                        *)
LEMMA TripleIs ==
  ASSUME NEW D, NEW x \in D \X Nat \X Nat
  PROVE  /\ x[1] \in D /\ x[2] \in Nat /\ x[3] \in Nat /\ x = <<x[1], x[2], x[3]>>
         /\ [x EXCEPT ![3] = @ + 1] = <<x[1], x[2], x[3] + 1>>
         /\ [x EXCEPT ![3] = @ + 1] \in D \X Nat \X Nat
OBVIOUS

(* Whole sectors leave a stream.                                           *)
LEMMA SectorsTyped ==
  ASSUME NEW s \in StreamType, NEW n \in Nat
  PROVE  WriteSectors(s, n) \in StreamType
<1>1. n * SectorSize \in Nat
  BY SectorSizeAssumption
<1> QED
  BY <1>1, StreamTyped DEF WriteSectors

(* The identifiers leave a stream.                                         *)
LEMMA UdfDirTyped ==
  ASSUME NEW s \in StreamType, NEW f, NEW t, NamedTree(t), NEW d \in Dirs(t)
  PROVE  WriteUdfDir(s, f, t, d) \in StreamType
<1> DEFINE w == [n \in Range(t.kids[d]) |-> WriteIdentSize(f, t.name[n])]
           idents == SumOver(w, t.kids[d])
<1>1. /\ t.kids[d] \in Seq(Nodes(t)) /\ Len(t.kids[d]) \in Nat
      /\ \A i \in 1 .. Len(t.kids[d]) : t.kids[d][i] \in Nodes(t) /\ t.kids[d][i] \in Range(t.kids[d])
  BY KidsOf DEF NamedTree
<1>2. \A i \in 1 .. Len(t.kids[d]) : w[t.kids[d][i]] \in Nat
  <2> TAKE i \in 1 .. Len(t.kids[d])
  <2>1. WriteIdentSize(f, t.name[t.kids[d][i]]) \in Nat
    BY <1>1, IdentsNat
  <2> QED  BY <1>1, <2>1
<1>3. idents \in Nat
  <2> HIDE DEF w
  <2> QED  BY <1>1, <1>2, SumOverNat
<1> HIDE DEF w
<1>4. WriteUdfDir(s, f, t, d) = PadSector(WriteBytes(WriteSectors(s, 1), ParentIdentSize + idents))
  BY DEF WriteUdfDir, w
<1> HIDE DEF idents
<1>5. ParentIdentSize + idents \in Nat
  BY <1>3 DEF ParentIdentSize
<1>6. WriteSectors(s, 1) \in StreamType
  BY SectorsTyped
<1>7. WriteBytes(WriteSectors(s, 1), ParentIdentSize + idents) \in StreamType
  BY <1>5, <1>6, StreamTyped
<1> QED
  BY <1>4, <1>7, PadTyped

(* A path table leaves a stream.                                           *)
LEMMA TableTyped ==
  ASSUME NEW s \in StreamType, NEW f, NEW t, NamedTree(t), NEW dirs \in SUBSET Dirs(t),
         NEW joliet \in BOOLEAN
  PROVE  WritePathTable(s, f, t, dirs, joliet) \in StreamType
<1>1. PathTableLength(f, t, dirs, joliet) \in Nat
  BY TablesAgree
<1> QED
  BY <1>1, StreamTyped DEF WritePathTable

-----------------------------------------------------------------------------
(* Types.                                                                  *)

StackType == Seq(Dirs(tree) \X Nat)

(* The stacks of the passes hold directories of the tree, the walk of      *)
(* write_partition_entries nodes; the passes that reserve go forwards.     *)
TypeInv ==
  /\ TypeOK
  /\ place \in [Nodes(tree) -> PlaceType]
  /\ pc \in {"dirs", "files", "write dirs", "write data"} => work \in StackType
  /\ pc = "write entries" => work \in Seq(Nodes(tree))
  /\ pc \in {"dirs", "files"} => sec >= mgr.next
  /\ cur = <<>> \/ cur \in Dirs(tree) \X Nat \X Nat

(* What the inputs are, and the types say, of the file system and the      *)
(* tree.                                                                   *)
LEMMA InputTyped ==
  ASSUME TypeInv
  PROVE  NamedTree(tree) /\ AreImages(fs.images)
<1>1. PICK input \in Inputs : fs = input.fs /\ tree = input.tree
  BY DEF TypeInv, TypeOK
<1> QED
  BY <1>1, InputsAssumption DEF NamedTree

(* The types are right at the start.                                       *)
LEMMA InitTyped == Init => TypeInv
<1> SUFFICES ASSUME Init PROVE TypeInv
  OBVIOUS
<1>1. \E input \in Inputs : fs = input.fs /\ tree = input.tree
  BY DEF Init
<1>2. /\ pc = "tree" /\ mgr = NewManager(16) /\ sec = 0 /\ out = NewStream
      /\ place = [n \in Nodes(tree) |-> [normal |-> 0, joliet |-> 0, sizeN |-> 0, sizeJ |-> 0]]
      /\ udf = [n \in Nodes(tree) |-> [loc |-> 0, ident |-> NotYet]]
      /\ changed = {} /\ cancelled = FALSE /\ result = "none" /\ cur = <<>>
  BY DEF Init
<1>3. mgr \in ManagerType
  BY <1>2 DEF ManagerType, NewManager
<1>4. out \in StreamType
  BY <1>2, SectorSizeAssumption DEF StreamType, NewStream
<1>5. place \in [Nodes(tree) -> PlaceType]
  BY <1>2 DEF PlaceType
<1> QED
  BY <1>1, <1>2, <1>3, <1>4, <1>5 DEF TypeInv, TypeOK

(* The passes that reserve.                                                *)
LEMMA ReserveTyped ==
  ASSUME TypeInv, Reserve
  PROVE  TypeInv'
<1> USE DEF Goto, Fail, Return, planning, writing
<1>1. /\ NamedTree(tree) /\ AreImages(fs.images) /\ IsTree(tree) /\ mgr \in ManagerType /\ sec \in Nat
      /\ place \in [Nodes(tree) -> PlaceType] /\ mgr.next \in Nat /\ Root \in Dirs(tree)
      /\ out \in StreamType
  BY InputTyped DEF TypeInv, TypeOK, NamedTree, IsTree, ManagerType
<1>2. TableDirs \in SUBSET Dirs(tree)
  BY DEF TableDirs, ReachedDirs
<1>3. RootStack \in StackType /\ RootStack # <<>>
  BY <1>1 DEF RootStack, StackType
<1>4. ASSUME work \in StackType, work # <<>>
      PROVE  Top \in Dirs(tree) /\ Top \in Nodes(tree) /\ Level_ \in Nat /\ Pushed \in StackType
  <2>1. work[Len(work)] \in Dirs(tree) \X Nat
    BY <1>4 DEF StackType
  <2>2. Top \in Dirs(tree) /\ Level_ \in Nat
    BY <2>1 DEF Top, Level_
  <2> QED  BY <1>1, <1>4, <2>2, PushTyped DEF Pushed, StackType, Nodes
<1>5. CASE CreateTree
  BY <1>5 DEF CreateTree, TypeInv, TypeOK
<1>6. CASE AllocHeader
  <2> DEFINE iso == IF IsIso(fs) THEN AllocIsoHeader(mgr, fs) ELSE mgr
  <2>1. iso \in ManagerType
    BY <1>1, HeaderTyped
  <2>2. mgr' = IF IsUdf(fs) THEN AllocUdf(iso, fs, tree) ELSE iso
    BY <1>6 DEF AllocHeader
  <2> HIDE DEF iso
  <2>3. mgr' \in ManagerType
    BY <1>1, <2>1, <2>2, HeaderTyped
  <2> QED  BY <1>6, <2>3 DEF AllocHeader, TypeInv, TypeOK
<1>7. CASE AllocTables
  <2>1. mgr' \in ManagerType
    BY <1>1, <1>2, <1>7, TablesTyped DEF AllocTables
  <2>2. sec' = mgr'.next /\ sec' \in Nat
    BY <1>7, <2>1 DEF AllocTables, ManagerType
  <2> QED  BY <1>3, <1>7, <2>1, <2>2 DEF AllocTables, TypeInv, TypeOK, StackType
<1>8. CASE AllocDir
  <2> DEFINE normal == CalcDirSectors(fs, tree, Top, Level_, FALSE)
             joliet == IF IsJoliet(fs) THEN CalcDirSectors(fs, tree, Top, Level_, TRUE) ELSE 0
             it == [normal |-> sec, sizeN |-> normal * SectorSize,
                    joliet |-> sec + normal, sizeJ |-> joliet * SectorSize]
  <2>1. Top \in Dirs(tree) /\ Top \in Nodes(tree) /\ Level_ \in Nat /\ Pushed \in StackType
    BY <1>4, <1>8 DEF AllocDir, TypeInv
  <2>2. normal \in Nat /\ CalcDirSectors(fs, tree, Top, Level_, TRUE) \in Nat
    BY <1>1, <2>1, WriteDirTyped
  <2>3. joliet \in Nat
    BY <2>2
  <2>4. place' = [place EXCEPT ![Top] = it] /\ sec' = sec + normal + joliet
    BY <1>8 DEF AllocDir
  <2> HIDE DEF normal, joliet
  <2>5. it \in PlaceType
    BY <1>1, <2>2, <2>3, SectorSizeAssumption DEF PlaceType
  <2> HIDE DEF it
  <2>6. place' \in [Nodes(tree) -> PlaceType]
    BY <1>1, <2>4, <2>5
  <2>7. sec' \in Nat /\ sec' >= sec
    BY <1>1, <2>2, <2>3, <2>4
  <2>8. sec' >= mgr.next
    <3>1. sec >= mgr.next
      BY <1>8 DEF AllocDir, TypeInv
    <3> QED  BY <1>1, <2>7, <3>1
  <2> QED  BY <1>1, <1>8, <2>1, <2>6, <2>7, <2>8 DEF AllocDir, TypeInv, TypeOK, StackType
<1>9. CASE AllocDirsEnd
  <2>1. sec - mgr.next \in Int
    BY <1>1
  <2>2. mgr' \in ManagerType
    <3>1. "direntries" \in Regions
      BY RegionsHave
    <3> QED  BY <1>1, <1>9, <2>1, <3>1, AllocTyped DEF AllocDirsEnd
  <2>3. sec' = mgr'.next /\ sec' \in Nat
    BY <1>9, <2>2 DEF AllocDirsEnd, ManagerType
  <2> QED  BY <1>3, <1>9, <2>2, <2>3 DEF AllocDirsEnd, TypeInv, TypeOK, StackType
<1>10. CASE PlaceFiles
  <2> DEFINE chosen == {f \in Files(tree) : ~TooLarge(f)}
             files == Among(tree.kids[Top], chosen)
             start == [sec |-> sec, place |-> place]
             run   == PlaceAll(tree, start, files)
  <2>1. Top \in Dirs(tree) /\ Top \in Nodes(tree) /\ Level_ \in Nat /\ Pushed \in StackType
    BY <1>4, <1>10 DEF PlaceFiles, TypeInv
  <2>2. files \in Seq(Files(tree))
    <3> HIDE DEF chosen
    <3>1. tree.kids[Top] \in Seq(Nodes(tree))
      BY <1>1, <2>1, KidsOf
    <3>2. files \in Seq(Nodes(tree)) /\ Len(files) \in Nat
          /\ Selected(files, Len(tree.kids[Top]), tree.kids[Top], chosen)
      BY <3>1, AmongIs
    <3>3. \A i \in 1 .. Len(files) : files[i] \in Files(tree)
      BY <3>2 DEF Selected, chosen
    <3> HIDE DEF files
    <3>4. files \in [1 .. Len(files) -> Files(tree)]
      BY <3>2, <3>3
    <3> QED  BY <3>2, <3>4, SeqIs
  <2>3. start \in RunOf(tree)
    BY <1>1 DEF RunOf
  <2>4. sec' = run.sec /\ place' = run.place
    BY <1>10 DEF PlaceFiles
  <2> HIDE DEF files
  <2>5. run \in RunOf(tree) /\ run.sec >= start.sec
    <3> HIDE DEF start
    <3> QED  BY <1>1, <2>2, <2>3, PlaceAllTyped
  <2> HIDE DEF run
  <2>6. place' \in [Nodes(tree) -> PlaceType] /\ sec' \in Nat /\ sec' >= sec
    BY <2>4, <2>5 DEF RunOf
  <2> QED  BY <1>1, <1>10, <2>1, <2>6 DEF PlaceFiles, TypeInv, TypeOK, StackType
<1>11. CASE PlaceFilesEnd
  <2>1. sec >= mgr.next
    BY <1>11 DEF PlaceFilesEnd, TypeInv
  <2>3. sec - mgr.next \in Nat
    BY <1>1, <2>1
  <2>2. mgr' \in ManagerType
    BY <1>1, <1>11, <2>3, AllocDataTyped DEF PlaceFilesEnd
  <2> QED  BY <1>11, <2>2 DEF PlaceFilesEnd, TypeInv, TypeOK
<1> QED
  BY <1>5, <1>6, <1>7, <1>8, <1>9, <1>10, <1>11 DEF Reserve

(* The header, and the catalog in its file.                                *)
LEMMA WriteHeaderTyped ==
  ASSUME TypeInv, WriteHeader
  PROVE  TypeInv'
<1> USE DEF Goto, Fail, Return, planning, writing
<1>1. NamedTree(tree) /\ AreImages(fs.images) /\ out \in StreamType /\ changed \subseteq Files(tree)
  BY InputTyped DEF TypeInv, TypeOK
<1>2. CASE ~IsIso(fs)
  BY <1>2 DEF WriteHeader, TypeInv, TypeOK
<1>3. CASE fs.extended /\ InTree(fs.catalog) /\ fs.images = <<>>
  BY <1>2, <1>3 DEF WriteHeader, TypeInv, TypeOK
<1>4. CASE IsIso(fs) /\ ~(fs.extended /\ InTree(fs.catalog) /\ fs.images = <<>>)
  <2> DEFINE record == IF fs.images = <<>> THEN <<>>
                       ELSE IF ~fs.extended THEN <<GetStart(mgr, "bootcatalog")>>
                       ELSE IF InTree(fs.catalog) THEN <<place[fs.catalog].normal>> ELSE <<>>
             volumes == VolumeDescriptors(mgr, fs, tree, TableDirs, place[Root], record)
             count == Len(volumes)
             inside == WriteBootImages(WriteBootCatalog(WriteSectors(out, count), fs.images), fs.images)
  <2>1. count \in Nat
    <3>1. record = <<>> \/ \E x : record = <<x>>
      OBVIOUS
    <3> HIDE DEF record
    <3>2. count = 2 + One(record # <<>>) + One(HasSuppl(fs)) + One(IsJoliet(fs))
      BY <3>1, VolumesNumber
    <3> HIDE DEF volumes
    <3> QED  BY <3>2 DEF One
  <2>2. record # <<>> => fs.images # <<>> /\ (fs.extended => fs.catalog \in Files(tree))
    BY DEF InTree
  <2>3. CASE fs.extended \/ fs.images = <<>>
    <3>1. /\ out' = WriteSectors(out, count)
          /\ \E written \in BOOLEAN :
               changed' = IF record = <<>> \/ ~written THEN changed
                          ELSE IF WriteBootCatalog(NewStream, fs.images)
                                    = WriteBytes(NewStream, tree.size[fs.catalog])
                          THEN changed \ {fs.catalog} ELSE changed \cup {fs.catalog}
          /\ pc' = "write udf" /\ pc = "write header"
          /\ UNCHANGED <<fs, tree, cancelled, result, cur, mgr, sec, place, udf>>
      BY <1>4, <2>3 DEF WriteHeader
    <3> HIDE DEF record, count
    <3>2. out' \in StreamType
      BY <1>1, <2>1, <3>1, SectorsTyped
    <3>3. changed' \subseteq Files(tree)
      BY <1>1, <2>2, <2>3, <3>1
    <3> QED  BY <3>1, <3>2, <3>3 DEF TypeInv, TypeOK
  <2>4. CASE ~(fs.extended \/ fs.images = <<>>)
    <3>1. /\ out' = inside.out
          /\ pc' = "write udf" /\ pc = "write header"
          /\ UNCHANGED <<fs, tree, changed, cancelled, result, cur, mgr, sec, place, udf>>
      BY <1>4, <2>4 DEF WriteHeader
    <3> HIDE DEF count
    <3>2. WriteSectors(out, count) \in StreamType
      BY <1>1, <2>1, SectorsTyped
    <3>3. WriteBootCatalog(WriteSectors(out, count), fs.images) \in StreamType
      <4>1. BootCatSize(fs.images) \in Nat
        BY <1>1, ImagesSize
      <4> QED  BY <3>2, <4>1, StreamTyped DEF WriteBootCatalog
    <3>4. inside.out \in StreamType
      BY <1>1, <3>3, BootImagesTyped
    <3> HIDE DEF inside
    <3> QED  BY <3>1, <3>4 DEF TypeInv, TypeOK
  <2> QED  BY <2>3, <2>4
<1> QED
  BY <1>2, <1>3, <1>4

(* UDF.                                                                    *)
LEMMA WriteUdfTyped ==
  ASSUME TypeInv, WriteUdf
  PROVE  TypeInv'
<1> USE DEF Goto, planning
<1>1. /\ NamedTree(tree) /\ out \in StreamType /\ mgr \in ManagerType /\ DOMAIN udf = Nodes(tree)
      /\ Root \in Nodes(tree)
  BY InputTyped DEF TypeInv, TypeOK, NamedTree, IsTree, Nodes
<1>2. CASE ~IsUdf(fs)
  BY <1>2 DEF WriteUdf, TypeInv, TypeOK
<1>3. CASE IsUdf(fs)
  <2> DEFINE first == GetStart(mgr, "main")
             main == WriteSectors(out, 3)
             anchor == WriteSectors(main, MainSectors(first))
  <2>1. first \in Nat
    <3>1. "main" \in Regions
      BY RegionsHave
    <3> QED  BY <1>1, <3>1 DEF GetStart, ManagerType
  <2>2. out' = WriteSectors(anchor, 2) /\ work' = <<Root>> /\ pc' = "write entries"
        /\ udf' = [udf EXCEPT ![Root].loc = 1]
        /\ UNCHANGED <<fs, tree, changed, cancelled, result, cur, mgr, sec, place>>
    BY <1>3 DEF WriteUdf
  <2> HIDE DEF first
  <2>3. MainSectors(first) \in Nat
    BY <2>1 DEF MainSectors, MainSequence, AnchorSector
  <2>4. main \in StreamType
    BY <1>1, SectorsTyped
  <2> HIDE DEF main
  <2>5. anchor \in StreamType
    BY <2>3, <2>4, SectorsTyped
  <2> HIDE DEF anchor
  <2>6. out' \in StreamType
    BY <2>2, <2>5, SectorsTyped
  <2>7. work' \in Seq(Nodes(tree))
    <3>1. <<Root>> \in Seq(Nodes(tree))
      BY <1>1
    <3> QED  BY <2>2, <3>1
  <2>8. DOMAIN udf' = Nodes(tree)
    BY <1>1, <2>2
  <2> QED  BY <1>3, <2>2, <2>6, <2>7, <2>8 DEF WriteUdf, TypeInv, TypeOK
<1> QED
  BY <1>2, <1>3

(* An entry of the partition.                                              *)
LEMMA WriteEntryTyped ==
  ASSUME TypeInv, WriteEntry
  PROVE  TypeInv'
<1> USE DEF Goto, planning
<1> DEFINE n == Head(work)
<1>1. /\ NamedTree(tree) /\ out \in StreamType /\ DOMAIN udf = Nodes(tree)
      /\ work \in Seq(Nodes(tree)) /\ work # <<>> /\ pc = "write entries"
  BY InputTyped DEF TypeInv, TypeOK, WriteEntry
<1>2. n \in Nodes(tree) /\ Tail(work) \in Seq(Nodes(tree))
  <2>1. work \in Seq(Nodes(tree)) /\ work # <<>>
    BY <1>1
  <2> QED  BY <2>1, HeadTailProperties
<1>3. CASE EntryRefused(n)
  <2>1. Fail
    BY <1>3 DEF WriteEntry
  <2> QED  BY <1>1, <2>1 DEF Fail, Return, TypeInv, TypeOK, writing
<1>4. CASE ~EntryRefused(n)
  <2>0. pc' = "write entries" /\ UNCHANGED <<fs, tree, changed, cancelled, result, cur, mgr, sec, place>>
    BY <1>4 DEF WriteEntry
  <2>1. CASE n \in Dirs(tree)
    <3> DEFINE locs == ChildEntries(fs, tree, n, part.sec)
               kids == tree.kids[n]
    <3>1. /\ udf' = [k \in Nodes(tree) |->
                       IF k = n THEN [udf[n] EXCEPT !.ident = part.ident]
                       ELSE IF k \in Range(kids)
                       THEN [udf[k] EXCEPT !.loc = locs[CHOOSE i \in DOMAIN kids : kids[i] = k]]
                       ELSE udf[k]]
          /\ out' = WriteUdfDir(out, fs, tree, n) /\ work' = kids \o Tail(work)
      BY <1>4, <2>1 DEF WriteEntry
    <3>2. DOMAIN udf' = Nodes(tree)
      BY <3>1
    <3>3. out' \in StreamType
      BY <1>1, <2>1, <3>1, UdfDirTyped
    <3>4. kids \in Seq(Nodes(tree))
      BY <1>1, <2>1, KidsOf DEF NamedTree
    <3>5. work' \in Seq(Nodes(tree))
      <4> HIDE DEF kids, n
      <4> QED  BY <1>2, <3>1, <3>4
    <3> QED  BY <1>1, <2>0, <3>2, <3>3, <3>5 DEF TypeInv, TypeOK
  <2>2. CASE n \notin Dirs(tree)
    <3>1. udf' = [udf EXCEPT ![n].ident = part.ident] /\ out' = WriteSectors(out, 1) /\ work' = Tail(work)
      BY <1>4, <2>2 DEF WriteEntry
    <3>2. out' \in StreamType
      BY <1>1, <3>1, SectorsTyped
    <3>3. DOMAIN udf' = Nodes(tree)
      BY <1>1, <3>1
    <3> QED  BY <1>1, <1>2, <2>0, <3>1, <3>2, <3>3 DEF TypeInv, TypeOK
  <2> QED  BY <2>1, <2>2
<1> QED
  BY <1>3, <1>4

(* The path tables.                                                        *)
LEMMA WriteTablesTyped ==
  ASSUME TypeInv, WriteTables
  PROVE  TypeInv'
<1> USE DEF Goto, planning
<1> DEFINE l  == WritePathTable(out, fs, tree, TableDirs, FALSE)
           m  == WritePathTable(l, fs, tree, TableDirs, FALSE)
           jl == WritePathTable(m, fs, tree, TableDirs, TRUE)
           jm == WritePathTable(jl, fs, tree, TableDirs, TRUE)
<1>1. NamedTree(tree) /\ out \in StreamType /\ Root \in Dirs(tree)
  BY InputTyped DEF TypeInv, TypeOK, NamedTree, IsTree
<1>2. TableDirs \in SUBSET Dirs(tree)
  BY DEF TableDirs, ReachedDirs
<1>3. /\ out' \in {out, m, jm} /\ pc' \in {"write dirs", "write data"} /\ work' = RootStack
      /\ UNCHANGED <<fs, tree, changed, cancelled, result, cur, mgr, sec, place, udf>>
      /\ pc = "write tables"
  BY DEF WriteTables
<1>4. l \in StreamType
  BY <1>1, <1>2, TableTyped
<1> HIDE DEF l
<1>5. m \in StreamType
  BY <1>1, <1>2, <1>4, TableTyped
<1> HIDE DEF m
<1>6. jl \in StreamType
  BY <1>1, <1>2, <1>5, TableTyped
<1> HIDE DEF jl
<1>7. jm \in StreamType
  BY <1>1, <1>2, <1>6, TableTyped
<1> HIDE DEF jm
<1>8. work' \in StackType
  <2>1. RootStack \in StackType
    BY <1>1 DEF RootStack, StackType
  <2> QED  BY <1>3, <2>1
<1>9. out' \in StreamType
  BY <1>1, <1>3, <1>5, <1>7
<1> QED
  BY <1>3, <1>8, <1>9 DEF TypeInv, TypeOK, StackType

(* Directories, files and the tail.                                        *)
LEMMA WriteDirTypedStep ==
  ASSUME TypeInv, WriteDirEntry
  PROVE  TypeInv'
<1> USE DEF Goto, planning
<1> DEFINE normal == WriteDir(out, fs, tree, Top, Level_, FALSE)
           joliet == WriteDir(normal, fs, tree, Top, Level_, TRUE)
<1>1. /\ NamedTree(tree) /\ IsTree(tree) /\ out \in StreamType
      /\ work \in StackType /\ work # <<>> /\ work' = Pushed /\ pc = "write dirs"
  BY InputTyped DEF TypeInv, TypeOK, NamedTree, WriteDirEntry
<1>2. Top \in Dirs(tree) /\ Level_ \in Nat /\ Pushed \in StackType
  <2>1. work[Len(work)] \in Dirs(tree) \X Nat
    <3>1. work \in Seq(Dirs(tree) \X Nat) /\ work # <<>>
      BY <1>1 DEF StackType
    <3> QED  BY <3>1
  <2>2. Top \in Dirs(tree) /\ Level_ \in Nat
    BY <2>1 DEF Top, Level_
  <2> QED  BY <1>1, <2>2, PushTyped DEF Pushed, StackType
<1>3. normal \in StreamType
  BY <1>1, <1>2, WriteDirTyped
<1>4. joliet \in StreamType
  <2> HIDE DEF normal
  <2> QED  BY <1>1, <1>2, <1>3, WriteDirTyped
<1>5. out' \in {normal, joliet, WriteBytes(out, 2 * DirRecord), WriteBytes(normal, 2 * DirRecord)}
  BY DEF WriteDirEntry
<1>6. /\ UNCHANGED <<fs, tree, changed, cancelled, cur, mgr, sec, place, udf>>
      /\ \/ pc' = "write dirs" /\ result' = result
         \/ pc' = "end" /\ result' = "CANCEL"
  BY DEF WriteDirEntry
<1> HIDE DEF normal, joliet
<1>7. out' \in StreamType
  <2>1. 2 * DirRecord \in Nat
    BY DEF DirRecord
  <2> QED  BY <1>1, <1>3, <1>4, <1>5, <2>1, StreamTyped
<1> QED
  BY <1>1, <1>2, <1>6, <1>7 DEF TypeInv, TypeOK, StackType

(* The files, and what is left of one.                                     *)
LEMMA WriteDataTyped ==
  ASSUME TypeInv,
         \/ WriteEntriesEnd \/ WriteDirsEnd \/ OpenDir \/ SeeCancel \/ SkipChild \/ WriteFile
         \/ CloseDir \/ WriteDataEnd \/ WriteTail
         \/ BootImageLost \/ RequestCancel \/ ChangeFile \/ Returned \/ UNCHANGED vars
  PROVE  TypeInv'
<1> USE DEF Goto, Fail, Return, planning, writing
<1>1. /\ NamedTree(tree) /\ AreSizes(tree) /\ IsTree(tree) /\ out \in StreamType /\ Root \in Dirs(tree)
  BY InputTyped DEF TypeInv, TypeOK, NamedTree, IsTree
<1>2. CASE WriteEntriesEnd \/ CloseDir \/ WriteDataEnd \/ SeeCancel \/ BootImageLost
  BY <1>2 DEF WriteEntriesEnd, CloseDir, WriteDataEnd, SeeCancel, BootImageLost, AtChild, TypeInv,
              TypeOK, StackType
<1>3. CASE WriteDirsEnd
  <2>1. RootStack \in StackType
    BY <1>1 DEF RootStack, StackType
  <2> QED  BY <1>3, <2>1 DEF WriteDirsEnd, TypeInv, TypeOK, StackType
<1>4. CASE OpenDir
  <2>1. work \in StackType /\ work # <<>>
    BY <1>4 DEF OpenDir, TypeInv
  <2>2. work[Len(work)] \in Dirs(tree) \X Nat
    BY <2>1 DEF StackType
  <2>3. Top \in Dirs(tree) /\ Level_ \in Nat
    BY <2>2 DEF Top, Level_
  <2>4. Front(work) \in StackType
    BY <2>1 DEF StackType, Front
  <2>5. cur' \in Dirs(tree) \X Nat \X Nat
    BY <1>4, <2>3 DEF OpenDir
  <2> QED  BY <1>4, <2>4, <2>5 DEF OpenDir, TypeInv, TypeOK, StackType
<1>5. ASSUME AtChild
      PROVE  cur \in Dirs(tree) \X Nat \X Nat /\ [cur EXCEPT ![3] = @ + 1] \in Dirs(tree) \X Nat \X Nat
             /\ work \in StackType /\ pc = "write data" /\ cur[2] + 1 \in Nat
  <2>1. cur \in Dirs(tree) \X Nat \X Nat /\ work \in StackType /\ pc = "write data"
    BY <1>5 DEF AtChild, TypeInv
  <2>2. cur[2] \in Nat /\ [cur EXCEPT ![3] = @ + 1] \in Dirs(tree) \X Nat \X Nat
    BY <2>1, TripleIs
  <2> DEFINE b == cur[2]
  <2>3. b + 1 \in Nat
    <3>1. b \in Nat
      BY <2>2
    <3> HIDE DEF b
    <3> QED  BY <3>1
  <2> QED  BY <2>1, <2>2, <2>3
<1>6. CASE SkipChild
  <2>1. AtChild /\ cur' = [cur EXCEPT ![3] = @ + 1]
    BY <1>6 DEF SkipChild, NextChild
  <2>2. work' \in StackType
    <3>1. work' = work \/ (Child \in Dirs(tree) /\ work' = Append(work, <<Child, cur[2] + 1>>))
      BY <1>6 DEF SkipChild
    <3>2. Child \in Dirs(tree) => Append(work, <<Child, cur[2] + 1>>) \in StackType
      <4> SUFFICES ASSUME Child \in Dirs(tree) PROVE Append(work, <<Child, cur[2] + 1>>) \in StackType
        OBVIOUS
      <4>1. work \in Seq(Dirs(tree) \X Nat) /\ <<Child, cur[2] + 1>> \in Dirs(tree) \X Nat
        BY <1>5, <2>1 DEF StackType
      <4> QED  BY <4>1 DEF StackType
    <3> QED  BY <1>5, <2>1, <3>1, <3>2
  <2> QED  BY <1>5, <1>6, <2>1, <2>2 DEF SkipChild, TypeInv, TypeOK, StackType
<1>7. CASE WriteFile
  <2>1. AtChild /\ Child \in Files(tree)
    BY <1>7 DEF WriteFile
  <2>2. CASE Child \in changed
    BY <1>5, <1>7, <2>1, <2>2 DEF WriteFile, TypeInv, TypeOK, StackType
  <2>3. CASE Child \notin changed
    <3>1. /\ out' = WriteSectors(PadIfOpen(WriteBytes(out, tree.size[Child])), tree.pad[Child])
          /\ cur' = [cur EXCEPT ![3] = @ + 1] /\ pc' = "write data"
          /\ UNCHANGED <<fs, tree, changed, cancelled, result, work, mgr, sec, place, udf>>
      BY <1>7, <2>3 DEF WriteFile, NextChild
    <3>2. tree.size[Child] \in Nat /\ tree.pad[Child] \in Nat
      BY <1>1, <2>1 DEF AreSizes
    <3>3. out' \in StreamType
      BY <1>1, <3>1, <3>2, StreamTyped, SectorsTyped
    <3> QED  BY <1>5, <2>1, <3>1, <3>3 DEF TypeInv, TypeOK, StackType
  <2> QED  BY <2>2, <2>3
<1>8. CASE WriteTail
  <2>1. out' \in StreamType
    BY <1>1, <1>8, SectorsTyped DEF WriteTail
  <2> QED  BY <1>8, <2>1 DEF WriteTail, TypeInv, TypeOK
<1>9. CASE RequestCancel \/ ChangeFile
  BY <1>9 DEF RequestCancel, ChangeFile, TypeInv, TypeOK, StackType
<1>10. CASE Returned \/ UNCHANGED vars
  BY <1>10 DEF Returned, vars, TypeInv, TypeOK, StackType
<1> QED
  BY <1>2, <1>3, <1>4, <1>6, <1>7, <1>8, <1>9, <1>10

(* Every step keeps them.                                                  *)
LEMMA TypesKept ==
  ASSUME TypeInv, [Next]_vars
  PROVE  TypeInv'
BY ReserveTyped, WriteHeaderTyped, WriteUdfTyped, WriteEntryTyped, WriteTablesTyped,
   WriteDirTypedStep, WriteDataTyped DEF Next, Write

(* The manager, the stream, the places and the entries have their types in *)
(* every step of the image writer, for every file system and every tree,   *)
(* regular or not, and it has a result exactly when it has ended.          *)
THEOREM TypeCorrect == Spec => []TypeOK
<1>1. Init => TypeInv
  BY InitTyped
<1>2. TypeInv /\ [Next]_vars => TypeInv'
  BY TypesKept
<1>3. TypeInv => TypeOK
  BY DEF TypeInv
<1> QED
  BY <1>1, <1>2, <1>3, PTL DEF Spec

-----------------------------------------------------------------------------
(* Places in the image.                                                    *)

AllFit == \A input \in Inputs : Fits(input.fs, input.tree)

(* A request to cancel was not made, or comes too late to be seen.         *)
Sure == ~cancelled \/ pc = "tail" \/ result = "OK"

DiscOf(t, d) ==
  /\ {"dir", "jdir", "data", "region"} \subseteq DOMAIN d
  /\ DOMAIN d.dir = Dirs(t) /\ DOMAIN d.jdir = Dirs(t)
  /\ DOMAIN d.data = Files(t) /\ DOMAIN d.region = Regions

Untouched(t, d) ==
  /\ \A r \in Regions : d.region[r] = NotYet
  /\ \A x \in Dirs(t) : d.dir[x] = NotYet /\ d.jdir[x] = NotYet
  /\ \A n \in Files(t) : d.data[n] = NotYet

(* PlacedAsRecorded, of a sector manager, nodes and a disc.                *)
AsPlanned(t, m, p, d) ==
  /\ \A r \in Regions : Placed(d.region[r], m.start[r])
  /\ \A x \in Dirs(t) : Placed(d.dir[x], p[x].normal) /\ Placed(d.jdir[x], p[x].joliet)
  /\ \A n \in Files(t) : Placed(d.data[n], p[n].normal)

(* What the pass over the directories left, with the files from first on.  *)
DirsPlanned(f, t, m, p, first) ==
  IF IsIso(f)
  THEN m.start["direntries"] = PassesStart(f, t) /\ DirsUpTo(f, t, p, <<>>, first)
  ELSE first = PassesStart(f, t)

(* What all the passes that reserve left.                                  *)
Planned(f, t, m, p) ==
  /\ HeaderLaid(m, f) /\ TablesLaid(m, f, t)
  /\ m.dataStart \in Nat /\ m.dataStart >= 16
  /\ DirsPlanned(f, t, m, p, m.dataStart)
  /\ FilesUpTo(f, t, p, m.dataStart, <<>>, m.dataStart + m.dataLen)

Early == {"tree", "header", "tables", "dirs", "files", "write header"}
Late  == {"write header", "write udf", "write entries", "write tables", "write dirs", "write data",
          "tail"}

(* The passes that reserve.                                                *)
Reserving ==
  /\ pc = "tables" => HeaderLaid(mgr, fs) /\ mgr.next = TablesStart(fs, tree)
  /\ pc = "dirs" =>
       /\ IsIso(fs) /\ HeaderLaid(mgr, fs) /\ TablesLaid(mgr, fs, tree)
       /\ mgr.next = PassesStart(fs, tree) /\ DirsUpTo(fs, tree, place, work, sec)
  /\ pc = "files" =>
       /\ HeaderLaid(mgr, fs) /\ TablesLaid(mgr, fs, tree) /\ mgr.next >= 16
       /\ DirsPlanned(fs, tree, mgr, place, mgr.next)
       /\ FilesUpTo(fs, tree, place, mgr.next, work, sec)
  /\ pc \in Late \/ result = "OK" => Planned(fs, tree, mgr, place)

(* The walk of write_partition_entries ends where the path tables begin.   *)
Ending ==
  LET tot == UdfSizeTotal(fs, tree)
  IN IF work = <<>> THEN part.sec = 1 + tot[Root]
     ELSE udf[work[Len(work)]].loc + tot[work[Len(work)]] = 1 + tot[Root]

(* Where the stream is in the passes that write.                           *)
Storing ==
  /\ pc \notin {"write data", "tail", "end"} => cur = <<>>
  /\ pc = "write udf" => out = At(HeaderSectors(fs))
  /\ pc = "write entries" => Ending
  /\ pc = "write tables" => StreamAt(out, TablesStart(fs, tree))
  /\ pc = "write dirs" /\ Sure => IsIso(fs) /\ DirsAt(fs, tree, place, mgr.dataStart, work, out)
  /\ pc = "write data" /\ Sure =>
       FilesAt(fs, tree, place, disc.data, mgr.dataStart, mgr.dataStart + mgr.dataLen, work, cur, out)
  /\ pc = "tail" => StreamAt(out, mgr.dataStart + mgr.dataLen)
  /\ pc = "tail" \/ result = "OK" =>
       AllStored(fs, tree, place, disc.data, mgr.dataStart, mgr.dataStart + mgr.dataLen)

PlacesInv ==
  /\ DiscOf(tree, disc)
  /\ pc \in Early => Untouched(tree, disc)
  /\ Reserving
  /\ Storing
  /\ Sure => AsPlanned(tree, mgr, place, disc)

(* Nothing is anywhere else than planned before anything is written.       *)
LEMMA UntouchedPlanned ==
  ASSUME NEW t, NEW d, Untouched(t, d)
  PROVE  \A m, p : AsPlanned(t, m, p, d)
BY DEF Untouched, AsPlanned, Placed

(* What is known of the input.                                             *)
LEMMA InputSound ==
  ASSUME AllRegular, AllFit, TypeInv
  PROVE  Sound(fs, tree) /\ IsFiniteSet(Nodes(tree))
<1>1. PICK input \in Inputs : fs = input.fs /\ tree = input.tree
  BY DEF TypeInv, TypeOK
<1>2. Regular(fs, tree) /\ Fits(fs, tree)
  BY <1>1 DEF AllRegular, AllFit
<1>3. IsFiniteSet(Nodes(tree)) /\ NamedTree(tree) /\ AreImages(fs.images)
  BY <1>1, InputTyped, InputsAssumption
<1>4. IsFiniteSet(Dirs(tree))
  BY <1>3, FS_Subset DEF Nodes
<1>5. \E most : Bounds(fs, tree, most)
  BY <1>2, <1>3, <1>4, FitsIs
<1> QED
  BY <1>2, <1>3, <1>4, <1>5 DEF Sound

(* Before the first step.                                                  *)
LEMMA InitPlaces == Init => PlacesInv
<1> SUFFICES ASSUME Init PROVE PlacesInv
  OBVIOUS
<1>1. /\ {"dir", "jdir", "data", "region"} \subseteq DOMAIN disc
      /\ disc.dir = [d \in Dirs(tree) |-> NotYet] /\ disc.jdir = [d \in Dirs(tree) |-> NotYet]
      /\ disc.data = [f \in Files(tree) |-> NotYet] /\ disc.region = [r \in Regions |-> NotYet]
      /\ pc = "tree" /\ result = "none" /\ cur = <<>>
  BY DEF Init
<1>2. DiscOf(tree, disc) /\ Untouched(tree, disc)
  BY <1>1 DEF DiscOf, Untouched
<1>3. Reserving
  BY <1>1 DEF Reserving, Late
<1>4. Storing
  BY <1>1 DEF Storing
<1>5. AsPlanned(tree, mgr, place, disc)
  BY <1>2, UntouchedPlanned
<1> QED
  BY <1>2, <1>3, <1>4, <1>5 DEF PlacesInv

-----------------------------------------------------------------------------
(* The passes that reserve.                                                *)

(* While nothing is written, only what is reserved changes.                *)
LEMMA ReserveKept ==
  ASSUME PlacesInv, UNCHANGED <<fs, tree, disc, cur>>,
         pc \in {"tree", "header", "tables", "dirs", "files"},
         pc' \in {"header", "tables", "dirs", "files", "write header", "end"}, result' # "OK",
         Reserving'
  PROVE  PlacesInv'
<1>1. DiscOf(tree, disc)' /\ Untouched(tree, disc)'
  BY DEF PlacesInv, Early
<1>2. cur = <<>>
  BY DEF PlacesInv, Storing
<1>3. Storing'
  BY <1>2 DEF Storing
<1>4. AsPlanned(tree, mgr, place, disc)'
  <2>1. \A m, p : AsPlanned(tree', m, p, disc')
    BY <1>1, UntouchedPlanned
  <2> QED  BY <2>1
<1> QED
  BY <1>1, <1>3, <1>4 DEF PlacesInv

(* The files are in the tree, or not.                                      *)
LEMMA CreateTreePlaces ==
  ASSUME PlacesInv, result # "OK", CreateTree
  PROVE  PlacesInv'
<1> USE DEF Goto, Fail, Return, planning, writing
<1>1. /\ pc = "tree" /\ pc' \in {"header", "end"} /\ UNCHANGED <<fs, tree, disc, cur>> /\ result' # "OK"
  BY DEF CreateTree
<1>2. Reserving'
  BY <1>1 DEF Reserving, Late
<1> QED
  BY <1>1, <1>2, ReserveKept

(* The header, and the file entries.                                       *)
LEMMA AllocHeaderPlaces ==
  ASSUME Sound(fs, tree), PlacesInv, result # "OK", mgr = NewManager(16), AllocHeader
  PROVE  PlacesInv'
<1> USE DEF Goto, planning, writing
<1> DEFINE iso == IF IsIso(fs) THEN AllocIsoHeader(NewManager(16), fs) ELSE NewManager(16)
<1>1. /\ pc = "header" /\ pc' = "tables" /\ UNCHANGED <<fs, tree, disc, cur, result>>
      /\ mgr' = IF IsUdf(fs) THEN AllocUdf(iso, fs, tree) ELSE iso
  BY DEF AllocHeader
<1>2. PICK most : Bounds(fs, tree, most)
  BY DEF Sound
<1>3. NamedTree(tree) /\ IsFiniteSet(Dirs(tree)) /\ AreImages(fs.images) /\ Regular(fs, tree)
  BY DEF Sound
<1>4. iso = IF IsIso(fs) THEN AllocIsoHeader(NewManager(16), fs) ELSE NewManager(16)
  OBVIOUS
<1> HIDE DEF iso
<1>5. HeaderLaid(mgr', fs) /\ mgr'.next = TablesStart(fs, tree)
  BY <1>1, <1>2, <1>3, <1>4, HeaderReserved
<1>6. Reserving'
  BY <1>1, <1>5 DEF Reserving, Late
<1> QED
  BY <1>1, <1>6, ReserveKept

(* The path tables.                                                        *)
LEMMA AllocTablesPlaces ==
  ASSUME Sound(fs, tree), PlacesInv, result # "OK", AllocTables
  PROVE  PlacesInv'
<1> USE DEF Goto, planning, writing
<1>1. /\ pc = "tables" /\ pc' = IF IsIso(fs) THEN "dirs" ELSE "files"
      /\ UNCHANGED <<fs, tree, disc, cur, result, place>>
      /\ mgr' = IF IsIso(fs) THEN AllocPathTables(mgr, fs, tree, TableDirs) ELSE mgr
      /\ sec' = mgr'.next /\ work' = RootStack
  BY DEF AllocTables
<1>2. HeaderLaid(mgr, fs) /\ mgr.next = TablesStart(fs, tree)
  BY <1>1 DEF PlacesInv, Reserving
<1>3. PICK most : Bounds(fs, tree, most)
  BY DEF Sound
<1>4. NamedTree(tree) /\ IsTree(tree) /\ AreImages(fs.images)
  BY DEF Sound, NamedTree
<1>5. PassesStart(fs, tree) \in Nat /\ PassesStart(fs, tree) >= 16
  BY PassesNat
<1>6. CASE IsIso(fs)
  <2>1. mgr' = AllocPathTables(mgr, fs, tree, ReachedDirs(tree, GetMaxDirLevel(fs)) \ {Root})
    BY <1>1, <1>6 DEF TableDirs
  <2>2. HeaderLaid(mgr', fs) /\ TablesLaid(mgr', fs, tree) /\ mgr'.next = PassesStart(fs, tree)
    BY <1>2, <1>3, <1>4, <1>6, <2>1, TablesReserved
  <2>3. DirsUpTo(fs, tree, place, RootStack, PassesStart(fs, tree))
    BY <1>4, <1>5, DirsBegin
  <2>4. Reserving'
    BY <1>1, <1>6, <2>2, <2>3 DEF Reserving, Late
  <2> QED  BY <1>1, <1>6, <2>4, ReserveKept
<1>7. CASE ~IsIso(fs)
  <2> DEFINE start == PassesStart(fs, tree)
  <2>1. start = TablesStart(fs, tree)
    <3>1. TablesStart(fs, tree) \in Nat
      BY <1>4, StartsNat
    <3> QED  BY <1>7, <3>1 DEF PassesStart
  <2>2. mgr' = mgr /\ mgr'.next = start
    BY <1>1, <1>2, <1>7, <2>1
  <2>3. TablesLaid(mgr', fs, tree)
    BY <1>7 DEF TablesLaid
  <2>4. DirsPlanned(fs, tree, mgr', place, start)
    BY <1>7 DEF DirsPlanned
  <2>5. FilesUpTo(fs, tree, place, start, RootStack, start)
    <3> HIDE DEF start
    <3>1. start \in Nat
      BY <1>5 DEF start
    <3> QED  BY <1>4, <3>1, FilesBegin
  <2>6. start >= 16
    BY <1>5
  <2> HIDE DEF start
  <2>7. Reserving'
    BY <1>1, <1>2, <1>7, <2>2, <2>3, <2>4, <2>5, <2>6 DEF Reserving, Late
  <2> QED  BY <1>1, <1>7, <2>7, ReserveKept
<1> QED
  BY <1>6, <1>7

(* The directory on top of the stack, as the actions see it.               *)
LEMMA TopIs ==
  ASSUME IsTree(tree), work \in StackType, work # <<>>
  PROVE  /\ work \in StackOf(tree) /\ Top = TopIn(work) /\ Level_ = work[Len(work)][2]
         /\ Top \in Dirs(tree) /\ Level_ \in Nat /\ work[Len(work)] \in Dirs(tree) \X Nat
         /\ work[Len(work)] = <<Top, Level_>>
         /\ Pushed = Pushes(work, tree, GetMaxDirLevel(fs))
<1>1. work \in Seq(Dirs(tree) \X Nat)
  BY DEF StackType
<1>2. work[Len(work)] \in Dirs(tree) \X Nat
  BY <1>1
<1>3. \A D : \A x \in D \X Nat : x[1] \in D /\ x[2] \in Nat /\ x = <<x[1], x[2]>>
  OBVIOUS
<1>4. Pushed = Pushes(work, tree, GetMaxDirLevel(fs)) /\ Top = TopIn(work) /\ Level_ = work[Len(work)][2]
  BY DEF Pushed, Pushes, Top, Level_, TopIn
<1>5. Top \in Dirs(tree) /\ Level_ \in Nat /\ work[Len(work)] = <<Top, Level_>>
  BY <1>2, <1>3 DEF Top, Level_
<1> QED
  BY <1>1, <1>2, <1>4, <1>5 DEF StackOf

(* One directory.                                                          *)
LEMMA AllocDirPlaces ==
  ASSUME Sound(fs, tree), TypeInv, PlacesInv, result # "OK", AllocDir
  PROVE  PlacesInv'
<1> USE DEF Goto, planning, writing
<1> DEFINE normal == CalcDirSectors(fs, tree, Top, Level_, FALSE)
           joliet == IF IsJoliet(fs) THEN CalcDirSectors(fs, tree, Top, Level_, TRUE) ELSE 0
           it == [normal |-> sec, sizeN |-> normal * SectorSize,
                  joliet |-> sec + normal, sizeJ |-> joliet * SectorSize]
<1>1. /\ pc = "dirs" /\ pc' = "dirs" /\ work # <<>> /\ UNCHANGED <<fs, tree, disc, cur, result, mgr>>
      /\ place' = [place EXCEPT ![Top] = it] /\ sec' = sec + normal + joliet /\ work' = Pushed
  BY DEF AllocDir
<1>2. /\ IsIso(fs) /\ HeaderLaid(mgr, fs) /\ TablesLaid(mgr, fs, tree)
      /\ mgr.next = PassesStart(fs, tree) /\ DirsUpTo(fs, tree, place, work, sec)
  BY <1>1 DEF PlacesInv, Reserving
<1>3. NamedTree(tree) /\ IsTree(tree) /\ DirTakes(fs, tree) \in [Dirs(tree) \X Nat -> Nat]
  BY <1>2, PassesNat DEF Sound
<1>4. /\ place \in [Nodes(tree) -> PlaceType] /\ sec \in Nat /\ work \in StackType
  BY <1>1 DEF TypeInv, TypeOK
<1>5. /\ work \in StackOf(tree) /\ Top = TopIn(work) /\ Level_ = work[Len(work)][2]
      /\ Top \in Dirs(tree) /\ Level_ \in Nat /\ work[Len(work)] \in Dirs(tree) \X Nat
      /\ work[Len(work)] = <<Top, Level_>>
      /\ Pushed = Pushes(work, tree, GetMaxDirLevel(fs))
  BY <1>1, <1>3, <1>4, TopIs
<1>6. normal \in Nat /\ joliet \in Nat
  <2>1. normal \in Nat /\ CalcDirSectors(fs, tree, Top, Level_, TRUE) \in Nat
    <3>1. NewStream \in StreamType
      BY SectorSizeAssumption DEF NewStream, StreamType
    <3> QED  BY <1>3, <1>5, <3>1, WriteDirTyped
  <2> QED  BY <2>1
<1>7. DirTakes(fs, tree)[work[Len(work)]] = normal + joliet
  <2>1. work[Len(work)][1] = Top /\ work[Len(work)][2] = Level_
    BY <1>5
  <2> QED  BY <1>5, <2>1 DEF DirTakes
<1>8. \A x \in Dirs(tree) : x # TopIn(work) => place'[x] = place[x]
  <2>1. \A x \in Dirs(tree) : x \in Nodes(tree)
    BY DEF Nodes
  <2> HIDE DEF it
  <2> QED  BY <1>1, <1>4, <1>5, <2>1
<1>9. Reserves(fs, tree, place', TopIn(work), work[Len(work)][2], sec)
  <2>1. place'[Top] = it
    <3>1. Top \in Nodes(tree)
      BY <1>5 DEF Nodes
    <3> HIDE DEF it
    <3> QED  BY <1>1, <1>4, <3>1
  <2>2. it.normal = sec /\ it.joliet = sec + normal /\ it.sizeN = normal * SectorSize
    OBVIOUS
  <2> HIDE DEF it
  <2> QED  BY <1>5, <2>1, <2>2 DEF Reserves
<1> HIDE DEF it
<1>10. DirsUpTo(fs, tree, place', Pushes(work, tree, GetMaxDirLevel(fs)),
                sec + DirTakes(fs, tree)[work[Len(work)]])
  BY <1>1, <1>2, <1>3, <1>8, <1>9, DirsStep
<1>11. sec' = sec + DirTakes(fs, tree)[work[Len(work)]] /\ work' = Pushes(work, tree, GetMaxDirLevel(fs))
  <2> HIDE DEF normal, joliet
  <2> QED  BY <1>1, <1>4, <1>5, <1>6, <1>7
<1>12. DirsUpTo(fs, tree, place', work', sec')
  BY <1>10, <1>11
<1>13. Reserving'
  BY <1>1, <1>2, <1>12 DEF Reserving, Late
<1> QED
  BY <1>1, <1>13, ReserveKept

(* The directories have what was counted for them.                         *)
LEMMA AllocDirsEndPlaces ==
  ASSUME Sound(fs, tree), TypeInv, PlacesInv, result # "OK", AllocDirsEnd
  PROVE  PlacesInv'
<1> USE DEF Goto, planning, writing
<1> DEFINE start == PassesStart(fs, tree)
           k == sec - mgr.next
<1>1. /\ pc = "dirs" /\ pc' = "files" /\ work = <<>> /\ UNCHANGED <<fs, tree, disc, cur, result, place>>
      /\ mgr' = AllocSectors(mgr, "direntries", k) /\ sec' = mgr'.next /\ work' = RootStack
  BY DEF AllocDirsEnd
<1>2. /\ IsIso(fs) /\ HeaderLaid(mgr, fs) /\ TablesLaid(mgr, fs, tree)
      /\ mgr.next = start /\ DirsUpTo(fs, tree, place, <<>>, sec)
  BY <1>1 DEF PlacesInv, Reserving
<1>3. /\ NamedTree(tree) /\ IsFiniteSet(Dirs(tree)) /\ AreImages(fs.images) /\ Regular(fs, tree)
      /\ IsTree(tree)
  BY DEF Sound, NamedTree
<1>4. PICK most : Bounds(fs, tree, most)
  BY DEF Sound
<1>5. start \in Nat /\ start >= 16
  BY PassesNat
<1>6. sec \in Nat /\ sec >= start /\ sec <= start + most * Cardinality(Dirs(tree))
  BY <1>2, <1>3, <1>4, DirsBounded
<1>7. sec < Word
  <2>1. start + 2 * (most * Cardinality(Dirs(tree))) < Word
    BY <1>4 DEF Bounds
  <2>2. most * Cardinality(Dirs(tree)) \in Nat /\ Word \in Nat
    BY <1>3, <1>4, RoomLeft
  <2> DEFINE mc == most * Cardinality(Dirs(tree))
  <2> HIDE DEF mc, start
  <2>3. start + 2 * mc < Word /\ mc \in Nat /\ sec <= start + mc
    BY <1>6, <2>1, <2>2 DEF mc
  <2> QED  BY <1>5, <1>6, <2>2, <2>3
<1> HIDE DEF start
<1>8. k \in Nat /\ start + k < Word /\ start + k = sec
  BY <1>2, <1>5, <1>6, <1>7
<1> HIDE DEF k
<1>9. "direntries" \in Regions /\ Places(mgr)
  BY <1>2, RegionsHave DEF HeaderLaid
<1>10. Reserved(mgr, mgr', "direntries", start, k)
  BY <1>1, <1>2, <1>5, <1>8, <1>9, ReservedAt
<1>11. /\ Places(mgr') /\ mgr'.start["direntries"] = start /\ mgr'.next = sec
       /\ \A q \in Regions : q # "direntries" => mgr'.start[q] = mgr.start[q]
  BY <1>8, <1>10 DEF Reserved
<1>12. /\ mgr'.start["descriptors"] = mgr.start["descriptors"]
       /\ mgr'.start["bootcatalog"] = mgr.start["bootcatalog"]
       /\ mgr'.start["bootdata"] = mgr.start["bootdata"]
       /\ mgr'.start["initial"] = mgr.start["initial"] /\ mgr'.start["main"] = mgr.start["main"]
       /\ mgr'.start["fileset"] = mgr.start["fileset"]
       /\ mgr'.start["path L"] = mgr.start["path L"] /\ mgr'.start["path M"] = mgr.start["path M"]
       /\ mgr'.start["joliet path L"] = mgr.start["joliet path L"]
       /\ mgr'.start["joliet path M"] = mgr.start["joliet path M"]
  BY <1>11, RegionsHave
<1>13. HeaderLaid(mgr', fs)
  BY <1>2, <1>11, <1>12 DEF HeaderLaid
<1>14. TablesLaid(mgr', fs, tree)
  BY <1>2, <1>12 DEF TablesLaid
<1>15. DirsPlanned(fs, tree, mgr', place, sec)
  BY <1>2, <1>11 DEF DirsPlanned, start
<1>16. FilesUpTo(fs, tree, place, sec, RootStack, sec)
  BY <1>3, <1>6, FilesBegin
<1>17. sec' = sec /\ sec >= 16
  BY <1>1, <1>5, <1>6, <1>11
<1>18. Reserving'
  BY <1>1, <1>2, <1>11, <1>13, <1>14, <1>15, <1>16, <1>17 DEF Reserving, Late
<1> QED
  BY <1>1, <1>18, ReserveKept

(* The files of one directory.                                             *)
LEMMA PlaceFilesPlaces ==
  ASSUME Sound(fs, tree), TypeInv, PlacesInv, result # "OK", PlaceFiles
  PROVE  PlacesInv'
<1> USE DEF Goto, planning, writing
<1> DEFINE S     == Kept(fs, tree)
           start == [sec |-> sec, place |-> place]
           run   == PlaceAll(tree, start, Among(tree.kids[Top], S))
           kids  == tree.kids[Top]
<1>1. /\ pc = "files" /\ pc' = "files" /\ work # <<>> /\ UNCHANGED <<fs, tree, disc, cur, result, mgr>>
      /\ sec' = run.sec /\ place' = run.place /\ work' = Pushed
  <2>1. S = {f \in Files(tree) : ~TooLarge(f)}
    BY DEF Kept, TooLarge
  <2> HIDE DEF S
  <2> QED  BY <2>1 DEF PlaceFiles
<1>2. /\ HeaderLaid(mgr, fs) /\ TablesLaid(mgr, fs, tree) /\ mgr.next >= 16
      /\ DirsPlanned(fs, tree, mgr, place, mgr.next)
      /\ FilesUpTo(fs, tree, place, mgr.next, work, sec)
  BY <1>1 DEF PlacesInv, Reserving
<1>3. NamedTree(tree) /\ IsTree(tree) /\ FileTakes(tree, S) \in [Dirs(tree) \X Nat -> Nat]
  BY PassesNat DEF Sound
<1>4. place \in [Nodes(tree) -> PlaceType] /\ sec \in Nat /\ work \in StackType
  BY <1>1 DEF TypeInv, TypeOK
<1>5. /\ work \in StackOf(tree) /\ Top = TopIn(work) /\ Level_ = work[Len(work)][2]
      /\ Top \in Dirs(tree) /\ Level_ \in Nat /\ work[Len(work)] \in Dirs(tree) \X Nat
      /\ work[Len(work)] = <<Top, Level_>>
      /\ Pushed = Pushes(work, tree, GetMaxDirLevel(fs))
  BY <1>1, <1>3, <1>4, TopIs
<1>6. start \in RunOf(tree) /\ start.sec = sec /\ start.place = place
  BY <1>4 DEF RunOf
<1>7. S \in SUBSET Files(tree)
  BY DEF Kept
<1> HIDE DEF S
<1>8. PlacedUpTo(run, start, tree, S, Top, Len(kids))
  <2> HIDE DEF start
  <2> QED  BY <1>3, <1>5, <1>6, <1>7, DirPlaced
<1> HIDE DEF run, start
<1>9. /\ run.sec = sec + Ahead(tree, S, Top, Len(kids))
      /\ \A j \in 1 .. Len(kids) : kids[j] \in S =>
           run.place[kids[j]].normal = sec + Ahead(tree, S, Top, j - 1)
      /\ \A n \in Nodes(tree) : n \notin S \/ n \notin Range(kids) => run.place[n] = place[n]
  BY <1>6, <1>8 DEF PlacedUpTo
<1>10. FileTakes(tree, S)[work[Len(work)]] = Ahead(tree, S, Top, Len(kids))
  <2>1. work[Len(work)][1] = Top
    BY <1>5
  <2> QED  BY <1>5, <2>1 DEF FileTakes
<1>11. HasPlaces(fs, tree, place', TopIn(work), sec)
  BY <1>1, <1>5, <1>9 DEF HasPlaces, S
<1>12. \A x \in Nodes(tree) : x \notin Range(tree.kids[TopIn(work)]) => place'[x] = place[x]
  BY <1>1, <1>5, <1>9
<1>13. FilesUpTo(fs, tree, place', mgr.next, Pushes(work, tree, GetMaxDirLevel(fs)),
                 sec + FileTakes(tree, S)[work[Len(work)]])
  <2>1. FileTakes(tree, Kept(fs, tree)) \in [Dirs(tree) \X Nat -> Nat]
    BY <1>3 DEF S
  <2>2. FilesUpTo(fs, tree, place, mgr.next, work, sec) /\ work # <<>>
    BY <1>1, <1>2
  <2>3. FilesUpTo(fs, tree, place', mgr.next, Pushes(work, tree, GetMaxDirLevel(fs)),
                  sec + FileTakes(tree, Kept(fs, tree))[work[Len(work)]])
    BY <1>3, <1>11, <1>12, <2>1, <2>2, FilesStep
  <2> QED  BY <2>3 DEF S
<1>14. FilesUpTo(fs, tree, place', mgr.next, work', sec')
  <2>1. work' = Pushes(work, tree, GetMaxDirLevel(fs)) /\ sec' = sec + FileTakes(tree, S)[work[Len(work)]]
    BY <1>1, <1>5, <1>9, <1>10
  <2> QED  BY <1>13, <2>1
<1>15. DirsPlanned(fs, tree, mgr, place', mgr.next)
  <2>1. CASE IsIso(fs)
    <3>1. mgr.start["direntries"] = PassesStart(fs, tree) /\ DirsUpTo(fs, tree, place, <<>>, mgr.next)
      BY <1>2, <2>1 DEF DirsPlanned
    <3>2. \A x \in Dirs(tree) : place'[x] = place[x]
      <4>1. Dirs(tree) \cap Files(tree) = {}
        BY <1>3 DEF IsTree
      <4>2. \A x \in Dirs(tree) : x \in Nodes(tree) /\ x \notin S
        BY <1>7, <4>1 DEF Nodes
      <4> QED  BY <1>1, <1>9, <4>2
    <3>3. DirsUpTo(fs, tree, place', <<>>, mgr.next)
      BY <1>3, <3>1, <3>2, DirsStay
    <3> QED  BY <2>1, <3>1, <3>3 DEF DirsPlanned
  <2>2. CASE ~IsIso(fs)
    BY <1>2, <2>2 DEF DirsPlanned
  <2> QED  BY <2>1, <2>2
<1>16. Reserving'
  BY <1>1, <1>2, <1>14, <1>15 DEF Reserving, Late
<1> QED
  BY <1>1, <1>16, ReserveKept

(* Everything has its place.                                               *)
LEMMA PlaceFilesEndPlaces ==
  ASSUME Sound(fs, tree), TypeInv, PlacesInv, result # "OK", PlaceFilesEnd
  PROVE  PlacesInv'
<1> USE DEF Goto, planning, writing
<1>1. /\ pc = "files" /\ pc' = "write header" /\ work = <<>> /\ UNCHANGED <<fs, tree, disc, cur, result, place>>
      /\ mgr' = AllocDataSectors(mgr, sec - mgr.next)
  BY DEF PlaceFilesEnd
<1>2. /\ HeaderLaid(mgr, fs) /\ TablesLaid(mgr, fs, tree) /\ mgr.next >= 16
      /\ DirsPlanned(fs, tree, mgr, place, mgr.next)
      /\ FilesUpTo(fs, tree, place, mgr.next, <<>>, sec)
  BY <1>1 DEF PlacesInv, Reserving
<1>3. mgr \in ManagerType /\ mgr.next \in Nat
  BY DEF TypeInv, TypeOK, ManagerType
<1>4. PICK most : Bounds(fs, tree, most)
  BY DEF Sound
<1>5. NamedTree(tree) /\ IsFiniteSet(Dirs(tree)) /\ Regular(fs, tree)
  BY DEF Sound
<1>6. sec \in Nat /\ sec >= mgr.next
  BY <1>2, <1>3, <1>4, <1>5, FilesFit
<1>7. /\ mgr'.start = mgr.start /\ mgr'.dataStart = mgr.next /\ mgr'.dataLen = sec - mgr.next
      /\ DOMAIN mgr' = DOMAIN mgr
  <2>1. DOMAIN mgr = {"next", "start", "dataStart", "dataLen"}
    BY <1>3 DEF ManagerType
  <2> QED  BY <1>1, <2>1 DEF AllocDataSectors
<1>8. mgr'.dataStart + mgr'.dataLen = sec
  BY <1>3, <1>6, <1>7
<1>9. HeaderLaid(mgr', fs) /\ TablesLaid(mgr', fs, tree)
  <2>1. Places(mgr')
    BY <1>2, <1>7 DEF HeaderLaid, Places
  <2> QED  BY <1>2, <1>7, <2>1 DEF HeaderLaid, TablesLaid
<1>10. DirsPlanned(fs, tree, mgr', place, mgr'.dataStart)
  BY <1>2, <1>7 DEF DirsPlanned
<1>11. FilesUpTo(fs, tree, place, mgr'.dataStart, <<>>, mgr'.dataStart + mgr'.dataLen)
  BY <1>2, <1>7, <1>8
<1>12. Planned(fs, tree, mgr', place)
  BY <1>2, <1>3, <1>7, <1>9, <1>10, <1>11 DEF Planned
<1>13. Reserving'
  BY <1>1, <1>12 DEF Reserving
<1> QED
  BY <1>1, <1>13, ReserveKept

(* Everything that is reserved.                                            *)
LEMMA ReservePlaces ==
  ASSUME Sound(fs, tree), TypeInv, EntriesInv, PlacesInv, Reserve
  PROVE  PlacesInv'
<1>1. result # "OK"
  <2>1. pc \in {"tree", "header", "tables", "dirs", "files"}
    BY DEF Reserve, CreateTree, AllocHeader, AllocTables, AllocDir, AllocDirsEnd, PlaceFiles,
           PlaceFilesEnd
  <2> QED  BY <2>1 DEF TypeInv, TypeOK
<1>2. AllocHeader => mgr = NewManager(16)
  BY DEF EntriesInv, Prepared, AllocHeader
<1> QED
  BY <1>1, <1>2, CreateTreePlaces, AllocHeaderPlaces, AllocTablesPlaces, AllocDirPlaces,
     AllocDirsEndPlaces, PlaceFilesPlaces, PlaceFilesEndPlaces DEF Reserve

-----------------------------------------------------------------------------
(* The passes that write, before the directories.                          *)

(* What was reserved stays, whatever is written.                           *)
LEMMA WriteKept ==
  ASSUME PlacesInv, UNCHANGED <<fs, tree, mgr, place>>, pc \in Late, result # "OK",
         pc' \in {"write udf", "write entries", "write tables", "write dirs", "write data", "tail", "end"},
         DiscOf(tree, disc)', Storing', Sure' => AsPlanned(tree, mgr, place, disc)'
  PROVE  PlacesInv'
<1>1. Planned(fs, tree, mgr, place)
  BY DEF PlacesInv, Reserving
<1>2. Planned(fs, tree, mgr, place)'
  BY <1>1
<1>3. Reserving'
  BY <1>2 DEF Reserving
<1>4. pc' \notin Early
  BY DEF Early
<1> QED
  BY <1>3, <1>4 DEF PlacesInv

(* Nothing but some regions is placed: DiscOf and the rest stay.           *)
RegionsOnly(d, e) ==
  /\ DOMAIN e = DOMAIN d /\ e.dir = d.dir /\ e.jdir = d.jdir /\ e.data = d.data
  /\ DOMAIN e.region = DOMAIN d.region

(* The directories and the files stay as planned.                          *)
LEMMA RegionsWritten ==
  ASSUME NEW t, NEW d, NEW e, DiscOf(t, d), RegionsOnly(d, e)
  PROVE  /\ DiscOf(t, e)
         /\ \A m, p : /\ AsPlanned(t, m, p, d)
                      /\ \A r \in Regions : Placed(d.region[r], m.start[r]) => Placed(e.region[r], m.start[r])
                      => AsPlanned(t, m, p, e)
BY DEF DiscOf, RegionsOnly, AsPlanned

(* Regions are written where the sector manager says.                      *)
LEMMA RegionsStep ==
  ASSUME PlacesInv, UNCHANGED <<fs, tree, mgr, place, cancelled>>, pc \in Late, pc # "tail",
         result # "OK", result' # "OK",
         pc' \in {"write udf", "write entries", "write tables", "write dirs", "write data", "end"},
         RegionsOnly(disc, disc'),
         \A r \in Regions : disc'.region[r] = disc.region[r] \/ disc'.region[r] = mgr.start[r],
         Storing'
  PROVE  PlacesInv'
<1>1. DiscOf(tree, disc)
  BY DEF PlacesInv
<1>2. DiscOf(tree, disc')
  BY <1>1, RegionsWritten
<1>3. Sure' => AsPlanned(tree, mgr, place, disc')
  <2> SUFFICES ASSUME Sure' PROVE AsPlanned(tree, mgr, place, disc')
    OBVIOUS
  <2>1. AsPlanned(tree, mgr, place, disc)
    BY DEF Sure, PlacesInv
  <2>2. \A r \in Regions : Placed(disc.region[r], mgr.start[r]) => Placed(disc'.region[r], mgr.start[r])
    BY DEF Placed
  <2> QED  BY <1>1, <2>1, <2>2, RegionsWritten
<1>4. DiscOf(tree, disc)' /\ (Sure' => AsPlanned(tree, mgr, place, disc)')
  BY <1>2, <1>3
<1> QED
  BY <1>4, WriteKept

(* The volume descriptors that are written are as many as were counted.    *)
LEMMA HeaderCount ==
  ASSUME Sound(fs, tree), IsIso(fs),
         NEW record, record = IF fs.images = <<>> THEN <<>>
                              ELSE IF ~fs.extended THEN <<GetStart(mgr, "bootcatalog")>>
                              ELSE IF InTree(fs.catalog) THEN <<place[fs.catalog].normal>> ELSE <<>>
  PROVE  Len(VolumeDescriptors(mgr, fs, tree, TableDirs, place[Root], record)) = Descriptors(fs)
<1>1. IF fs.images = <<>> THEN record = <<>> ELSE \E place_ : record = <<place_>>
  <2>1. fs.images # <<>> /\ fs.extended => fs.catalog \in Files(tree)
    BY DEF Sound, Regular, ReachedFiles
  <2> DEFINE a == <<GetStart(mgr, "bootcatalog")>>
             b == <<place[fs.catalog].normal>>
  <2>2. (\E place_ : a = <<place_>>) /\ (\E place_ : b = <<place_>>)
    OBVIOUS
  <2>3. CASE fs.images = <<>>
    BY <2>3
  <2>4. CASE fs.images # <<>> /\ ~fs.extended
    <3>1. record = a
      BY <2>4
    <3> QED  BY <2>2, <2>4, <3>1
  <2>5. CASE fs.images # <<>> /\ fs.extended
    <3>1. record = b
      BY <2>1, <2>5 DEF InTree
    <3> QED  BY <2>2, <2>5, <3>1
  <2> QED  BY <2>3, <2>4, <2>5
<1> QED
  BY <1>1, VolumesCounted

(* The volume descriptors, and the boot catalog and images behind them.    *)
LEMMA WriteHeaderPlaces ==
  ASSUME Sound(fs, tree), TypeInv, EntriesInv, PlacesInv, WriteHeader
  PROVE  PlacesInv'
<1> USE DEF Goto, Fail, Return, planning, writing
<1>1. pc = "write header" /\ out = NewStream /\ result # "OK"
  BY DEF EntriesInv, Prepared, WriteHeader, TypeInv, TypeOK
<1>2. /\ UNCHANGED <<fs, tree, mgr, place, cancelled, cur>> /\ pc' \in {"write udf", "end"} /\ result' # "OK"
  BY <1>1 DEF WriteHeader
<1>3. DiscOf(tree, disc) /\ HeaderLaid(mgr, fs) /\ cur = <<>>
  BY <1>1 DEF PlacesInv, Reserving, Storing, Planned, Late
<1>4. pc \in Late
  BY <1>1 DEF Late
<1>5. NamedTree(tree) /\ AreImages(fs.images) /\ Regular(fs, tree)
  BY DEF Sound
<1>6. ASSUME pc' = "end" \/ out' = At(HeaderSectors(fs))
      PROVE  Storing'
  BY <1>2, <1>3, <1>6 DEF Storing
<1>7. CASE ~IsIso(fs)
  <2>1. disc' = disc /\ out' = out
    BY <1>7 DEF WriteHeader
  <2>2. out' = At(HeaderSectors(fs))
    BY <1>1, <1>7, <2>1 DEF HeaderSectors, At, NewStream
  <2>3. RegionsOnly(disc, disc') /\ \A r \in Regions : disc'.region[r] = disc.region[r]
    BY <2>1 DEF RegionsOnly
  <2> QED  BY <1>1, <1>2, <1>4, <1>6, <2>2, <2>3, RegionsStep
<1>8. CASE fs.extended /\ InTree(fs.catalog) /\ fs.images = <<>> /\ IsIso(fs)
  <2>1. disc' = disc /\ pc' = "end"
    BY <1>8 DEF WriteHeader
  <2>2. RegionsOnly(disc, disc') /\ \A r \in Regions : disc'.region[r] = disc.region[r]
    BY <2>1 DEF RegionsOnly
  <2> QED  BY <1>1, <1>2, <1>4, <1>6, <2>1, <2>2, RegionsStep
<1>9. CASE IsIso(fs) /\ ~(fs.extended /\ InTree(fs.catalog) /\ fs.images = <<>>)
  <2> DEFINE record == IF fs.images = <<>> THEN <<>>
                       ELSE IF ~fs.extended THEN <<GetStart(mgr, "bootcatalog")>>
                       ELSE IF InTree(fs.catalog) THEN <<place[fs.catalog].normal>> ELSE <<>>
             volumes == VolumeDescriptors(mgr, fs, tree, TableDirs, place[Root], record)
             count == Len(volumes)
             behind == WriteBootCatalog(WriteSectors(out, count), fs.images)
             inside == WriteBootImages(behind, fs.images)
             many == Descriptors(fs)
             catalog == BytesToSec(BootCatSize(fs.images))
  <2>1. count = many
    <3>1. record = IF fs.images = <<>> THEN <<>>
                   ELSE IF ~fs.extended THEN <<GetStart(mgr, "bootcatalog")>>
                   ELSE IF InTree(fs.catalog) THEN <<place[fs.catalog].normal>> ELSE <<>>
      OBVIOUS
    <3> HIDE DEF record
    <3> QED  BY <1>9, <3>1, HeaderCount
  <2>2. many \in Nat /\ catalog \in Nat
    <3>1. Descriptors(fs) \in 2 .. 5 /\ BytesToSec(BootCatSize(fs.images)) \in Nat
      BY <1>5, StartsNat
    <3> HIDE DEF record, volumes, count, behind, inside
    <3>2. many \in 2 .. 5
      BY <3>1
    <3> HIDE DEF many
    <3> QED  BY <3>1, <3>2
  <2>3. {"descriptors", "bootcatalog", "bootdata"} \subseteq Regions
    BY RegionsHave
  <2>4. Now(out) = 16
    <3>1. out.sector = 0
      BY <1>1 DEF NewStream
    <3> QED  BY <3>1 DEF Now
  <2>5. DOMAIN disc.region = Regions /\ {"dir", "jdir", "data", "region"} \subseteq DOMAIN disc
    BY <1>3 DEF DiscOf
  <2>6. CASE fs.extended \/ fs.images = <<>>
    <3>1. out' = WriteSectors(out, count) /\ disc' = [disc EXCEPT !.region["descriptors"] = Now(out)]
      BY <1>9, <2>6 DEF WriteHeader
    <3> HIDE DEF count
    <3>2. out' = At(HeaderSectors(fs))
      BY <1>1, <1>5, <1>9, <2>1, <2>6, <3>1, HeaderWritten DEF HeaderSectors
    <3>3. mgr.start["descriptors"] = 16
      BY <1>3, <1>9 DEF HeaderLaid
    <3>4. RegionsOnly(disc, disc')
      BY <2>5, <3>1 DEF RegionsOnly
    <3>5. \A r \in Regions : disc'.region[r] = disc.region[r] \/ disc'.region[r] = mgr.start[r]
      BY <2>4, <2>5, <3>1, <3>3
    <3> QED  BY <1>1, <1>2, <1>4, <1>6, <3>2, <3>4, <3>5, RegionsStep
  <2>7. CASE ~(fs.extended \/ fs.images = <<>>)
    <3>1. /\ out' = inside.out
          /\ disc' = [disc EXCEPT !.region["descriptors"] = Now(out),
                                  !.region["bootcatalog"] = Now(out) + count,
                                  !.region["bootdata"]    = 16 + inside.at[1],
                                  !.image = [i \in DOMAIN inside.at |-> 16 + inside.at[i]]]
      BY <1>9, <2>7 DEF WriteHeader
    <3> HIDE DEF count
    <3>2. out' = At(HeaderSectors(fs))
      BY <1>1, <1>5, <1>9, <2>1, <2>7, <3>1, HeaderWritten
    <3>3. behind = At(many + catalog)
      <4>1. WriteSectors(out, count) = At(many)
        BY <1>1, <1>5, <1>9, <2>1, HeaderWritten
      <4>2. BootCatSize(fs.images) \in Nat
        BY <1>5, ImagesSize
      <4> HIDE DEF many
      <4> QED  BY <2>2, <4>1, <4>2, PaddedBytes DEF WriteBootCatalog
    <3>4. inside.at[1] = many + catalog
      <4> DEFINE c == many + catalog
      <4>1. c \in Nat
        BY <2>2
      <4>2. inside = WriteBootImages(At(c), fs.images)
        BY <3>3
      <4> HIDE DEF c, inside
      <4>3. inside.at = BootImagePos(fs.images, c) /\ BootImagePos(fs.images, c)[1] = c
        BY <1>5, <2>7, <4>1, <4>2, ImagesPlaced
      <4> QED  BY <4>3 DEF c
    <3>5. /\ mgr.start["descriptors"] = 16 /\ mgr.start["bootcatalog"] = 16 + many
          /\ mgr.start["bootdata"] = 16 + many + catalog
      BY <1>3, <1>9, <2>7 DEF HeaderLaid
    <3> DEFINE images == [i \in DOMAIN inside.at |-> 16 + inside.at[i]]
               first == inside.at[1]
    <3>6. disc' = [disc EXCEPT !.region["descriptors"] = Now(out),
                               !.region["bootcatalog"] = Now(out) + count,
                               !.region["bootdata"]    = 16 + first, !.image = images]
      BY <3>1
    <3> HIDE DEF images, first, inside
    <3>7. /\ disc'.region = [disc.region EXCEPT !["descriptors"] = Now(out),
                                                !["bootcatalog"] = Now(out) + count,
                                                !["bootdata"]    = 16 + first]
          /\ RegionsOnly(disc, disc')
      BY <2>5, <3>6 DEF RegionsOnly
    <3>8. Now(out) + count = 16 + many /\ 16 + first = 16 + many + catalog
      <4> HIDE DEF many, catalog
      <4> QED  BY <2>1, <2>2, <2>4, <3>4 DEF first
    <3>9. \A r \in Regions : disc'.region[r] = disc.region[r] \/ disc'.region[r] = mgr.start[r]
      <4> HIDE DEF many, catalog
      <4> QED  BY <2>4, <2>5, <3>5, <3>7, <3>8
    <3> QED  BY <1>1, <1>2, <1>4, <1>6, <3>2, <3>7, <3>9, RegionsStep
  <2> QED  BY <2>6, <2>7
<1> QED
  BY <1>7, <1>8, <1>9

(* The descriptors of UDF, up to the file set.                             *)
LEMMA WriteUdfPlaces ==
  ASSUME Sound(fs, tree), TypeInv, EntriesInv, PlacesInv, WriteUdf
  PROVE  PlacesInv'
<1> USE DEF Goto, planning
<1>1. /\ pc = "write udf" /\ pc' \in {"write entries", "write tables"} /\ result' = result
      /\ UNCHANGED <<fs, tree, mgr, place, cancelled, cur>>
  BY DEF WriteUdf
<1>2. result # "OK" /\ pc \in Late
  BY <1>1 DEF TypeInv, TypeOK, Late
<1>3. DiscOf(tree, disc) /\ HeaderLaid(mgr, fs) /\ cur = <<>> /\ out = At(HeaderSectors(fs))
  BY <1>1 DEF PlacesInv, Reserving, Storing, Planned, Late
<1>4. NamedTree(tree) /\ AreImages(fs.images) /\ Regular(fs, tree)
  BY DEF Sound
<1> DEFINE hs == HeaderSectors(fs)
<1>5. hs \in Nat
  BY <1>4, StartsNat
<1>6. DOMAIN disc.region = Regions /\ {"dir", "jdir", "data", "region"} \subseteq DOMAIN disc
  BY <1>3 DEF DiscOf
<1>7. CASE ~IsUdf(fs)
  <2>1. disc' = disc /\ out' = out /\ pc' = "write tables"
    BY <1>7 DEF WriteUdf
  <2>2. RegionsOnly(disc, disc') /\ \A r \in Regions : disc'.region[r] = disc.region[r]
    BY <2>1 DEF RegionsOnly
  <2>3. StreamAt(out, TablesStart(fs, tree))
    <3>1. TablesStart(fs, tree) = 16 + hs
      BY <1>7 DEF TablesStart
    <3> HIDE DEF hs
    <3>2. 16 + hs \in Nat /\ 16 + hs >= 16 /\ (16 + hs) - 16 = hs
      BY <1>5
    <3> QED  BY <1>3, <3>1, <3>2 DEF StreamAt, hs
  <2>4. Storing'
    BY <1>1, <1>2, <1>3, <2>1, <2>3 DEF Storing
  <2> QED  BY <1>1, <1>2, <2>1, <2>2, <2>4, RegionsStep
<1>8. CASE IsUdf(fs)
  <2> DEFINE main == WriteSectors(out, 3)
             anchor == WriteSectors(main, MainSectors(GetStart(mgr, "main")))
             seqs == <<Now(WriteSectors(main, 2)), Now(WriteSectors(main, 2 + MainSequence))>>
  <2>1. /\ disc' = [disc EXCEPT !.region["initial"] = Now(out), !.region["main"] = Now(main),
                                !.volumes = seqs, !.anchor = Now(anchor),
                                !.region["fileset"] = Now(anchor) + 2]
        /\ part' = [sec |-> 1, ident |-> 0] /\ udf' = [udf EXCEPT ![Root].loc = 1]
        /\ work' = <<Root>> /\ pc' = "write entries"
    BY <1>8 DEF WriteUdf
  <2>2. hs + 19 <= 222
    BY <1>4, <1>8, HeaderFits
  <2>3. mgr.start["initial"] = 16 + hs /\ mgr.start["main"] = 19 + hs /\ mgr.start["fileset"] = 258
    BY <1>3, <1>8 DEF HeaderLaid
  <2>4. GetStart(mgr, "main") = 19 + hs
    BY <2>3 DEF GetStart
  <2>5. out = At(hs)
    BY <1>3
  <2> HIDE DEF hs, seqs
  <2>6. MainSectors(19 + hs) = 237 - hs /\ 237 - hs \in Nat
    BY <1>5, <2>2 DEF MainSectors, MainSequence, AnchorSector
  <2>7. main = At(hs + 3)
    BY <1>5, <2>5, WholeSectors
  <2>8. anchor = At(hs + 3 + (237 - hs))
    <3>1. hs + 3 \in Nat
      BY <1>5
    <3> HIDE DEF main
    <3> QED  BY <2>4, <2>6, <2>7, <3>1, WholeSectors
  <2>9. hs + 3 + (237 - hs) = 240
    BY <1>5
  <2>10. Now(out) = 16 + hs /\ Now(main) = 19 + hs /\ Now(anchor) + 2 = 258
    <3> HIDE DEF main, anchor
    <3> QED  BY <1>5, <2>5, <2>7, <2>8, <2>9 DEF Now, At
  <2> HIDE DEF main, anchor
  <2>11. /\ disc'.region = [disc.region EXCEPT !["initial"] = Now(out), !["main"] = Now(main),
                                               !["fileset"] = Now(anchor) + 2]
         /\ RegionsOnly(disc, disc')
    BY <1>6, <2>1 DEF RegionsOnly
  <2>12. \A r \in Regions : disc'.region[r] = disc.region[r] \/ disc'.region[r] = mgr.start[r]
    BY <1>6, <2>3, <2>10, <2>11
  <2>13. DOMAIN udf = Nodes(tree) /\ Root \in Nodes(tree) /\ "loc" \in DOMAIN udf[Root]
    BY DEF EntriesInv, UniqueInv, Fields, IsTree, Nodes
  <2>14. udf'[Root].loc = 1
    BY <2>1, <2>13
  <2>15. Ending'
    <3>1. work' # <<>> /\ work'[Len(work')] = Root
      BY <2>1
    <3> QED  BY <1>1, <2>14, <3>1 DEF Ending
  <2>16. Storing'
    BY <1>1, <1>2, <1>3, <2>1, <2>15 DEF Storing
  <2> QED  BY <1>1, <1>2, <2>11, <2>12, <2>16, RegionsStep
<1> QED
  BY <1>7, <1>8

(* The last member stays the last when the first is taken off.             *)
LEMMA TailEnd ==
  ASSUME NEW S, NEW s \in Seq(S), s # <<>>
  PROVE  /\ Head(s) = s[1] /\ Head(s) \in S /\ Tail(s) \in Seq(S) /\ s[Len(s)] \in S
         /\ Tail(s) = <<>> => s[Len(s)] = Head(s)
         /\ Tail(s) # <<>> => /\ Tail(s)[Len(Tail(s))] = s[Len(s)]
                              /\ Len(Tail(s)) \in 1 .. Len(Tail(s))
         /\ Len(Tail(s)) = Len(s) - 1 /\ Len(Tail(s)) \in Nat
<1>1. /\ Len(s) \in Nat \ {0} /\ Len(Tail(s)) = Len(s) - 1 /\ Tail(s) \in Seq(S)
      /\ \A i \in 1 .. Len(s) - 1 : Tail(s)[i] = s[i + 1]
      /\ Head(s) = s[1] /\ \A i \in 1 .. Len(s) : s[i] \in S
  OBVIOUS
<1>2. Tail(s) = <<>> <=> Len(Tail(s)) = 0
  <2>1. \A T : \A v \in Seq(T) : v = <<>> <=> Len(v) = 0
    OBVIOUS
  <2> QED  BY <1>1, <2>1
<1> DEFINE n == Len(s)
           v == Tail(s)
<1>3. n \in Nat \ {0} /\ Len(v) = n - 1 /\ \A i \in 1 .. n - 1 : v[i] = s[i + 1]
  BY <1>1
<1>4. v = <<>> <=> Len(v) = 0
  BY <1>2
<1>5. 1 \in 1 .. n /\ n \in 1 .. n
  BY <1>3
<1> HIDE DEF v
<1>6. v # <<>> => v[Len(v)] = s[n] /\ Len(v) \in 1 .. Len(v)
  <2> HIDE DEF n
  <2> SUFFICES ASSUME v # <<>> PROVE v[Len(v)] = s[n] /\ Len(v) \in 1 .. Len(v)
    OBVIOUS
  <2>1. n - 1 \in 1 .. n - 1 /\ n - 1 + 1 = n
    BY <1>3, <1>4
  <2>2. v[n - 1] = s[n - 1 + 1]
    BY <1>3, <2>1
  <2> QED  BY <1>3, <2>1, <2>2
<1>7. v = <<>> => s[n] = s[1]
  <2> HIDE DEF n
  <2> QED  BY <1>3, <1>4
<1>8. Len(v) \in Nat
  <2> HIDE DEF n
  <2> QED  BY <1>3
<1> QED
  BY <1>1, <1>5, <1>6, <1>7, <1>8 DEF v

(* What is known before an entry is written.                               *)
LEMMA EntryKnown ==
  ASSUME Sound(fs, tree), EntriesInv, PlacesInv, WriteEntry, ~EntryRefused(Head(work))
  PROVE  /\ work \in Seq(Nodes(tree)) /\ work # <<>> /\ pc = "write entries"
         /\ Walk /\ Fields /\ Following /\ IsUdf(fs) /\ UdfRegular(fs, tree) /\ part.sec \in Nat
         /\ NamedTree(tree) /\ IsTree(tree)
         /\ udf[Head(work)].loc = part.sec /\ Head(work) = work[1] /\ Head(work) \in Nodes(tree)
         /\ Tail(work) \in Seq(Nodes(tree)) /\ Len(Tail(work)) \in Nat
         /\ udf[work[Len(work)]].loc + UdfSizeTotal(fs, tree)[work[Len(work)]]
              = 1 + UdfSizeTotal(fs, tree)[Root]
         /\ work[Len(work)] \in Nodes(tree)
<1>1. pc = "write entries" /\ work # <<>>
  BY DEF WriteEntry
<1>2. Walk /\ Fields /\ Following /\ IsUdf(fs) /\ part.sec \in Nat /\ udf[work[1]].loc = part.sec
  BY <1>1 DEF EntriesInv, UniqueInv, Following
<1>3. work \in Seq(Nodes(tree))
  BY <1>2 DEF Walk
<1>4. Head(work) = work[1] /\ Head(work) \in Nodes(tree) /\ work[Len(work)] \in Nodes(tree)
      /\ Tail(work) \in Seq(Nodes(tree)) /\ Len(Tail(work)) \in Nat
  BY <1>1, <1>3, TailEnd
<1>5. NamedTree(tree) /\ IsTree(tree) /\ UdfRegular(fs, tree)
  BY <1>2 DEF Sound, Regular, UdfRegular, NamedTree
<1>6. udf[work[Len(work)]].loc + UdfSizeTotal(fs, tree)[work[Len(work)]]
        = 1 + UdfSizeTotal(fs, tree)[Root]
  BY <1>1 DEF PlacesInv, Storing, Ending
<1> QED
  BY <1>1, <1>2, <1>3, <1>4, <1>5, <1>6

(* A file's entry: what follows is where it was.                           *)
LEMMA EndingFile ==
  ASSUME Sound(fs, tree), EntriesInv, PlacesInv, WriteEntry, ~EntryRefused(Head(work)),
         Head(work) \notin Dirs(tree)
  PROVE  Ending'
<1> DEFINE n   == Head(work)
           tot == UdfSizeTotal(fs, tree)
           end == work[Len(work)]
<1> USE DEF Goto, planning
<1>1. /\ UNCHANGED <<fs, tree>> /\ udf' = [udf EXCEPT ![n].ident = part.ident]
      /\ part' = [sec |-> part.sec + 1, ident |-> NextUnique(part.ident)]
      /\ work' = Tail(work)
  BY DEF WriteEntry
<1>2. /\ work \in Seq(Nodes(tree)) /\ work # <<>> /\ part.sec \in Nat
      /\ NamedTree(tree) /\ udf[n].loc = part.sec /\ n \in Nodes(tree)
      /\ udf[end].loc + tot[end] = 1 + tot[Root] /\ end \in Nodes(tree)
      /\ Fields
  BY EntryKnown
<1>3. \A k \in Nodes(tree) : udf'[k].loc = udf[k].loc
  BY <1>1, <1>2 DEF Fields
<1>4. tot[n] = 1
  <2>1. n \in Files(tree) /\ UdfSize(fs, tree, n) = 1
    BY <1>2, UdfSizeIs DEF Nodes
  <2> QED  BY <1>2, <2>1, TotalsAre DEF Totals
<1>5. part'.sec = part.sec + 1
  BY <1>1
<1>6. /\ Tail(work) = <<>> => end = n
      /\ Tail(work) # <<>> => Tail(work)[Len(Tail(work))] = end
  BY <1>2, TailEnd
<1> HIDE DEF tot, n, end
<1>7. work' = <<>> => part'.sec = 1 + tot[Root]
  BY <1>1, <1>2, <1>4, <1>5, <1>6
<1>8. work' # <<>> => udf'[work'[Len(work')]].loc + tot[work'[Len(work')]] = 1 + tot[Root]
  <2> SUFFICES ASSUME work' # <<>>
               PROVE  udf'[work'[Len(work')]].loc + tot[work'[Len(work')]] = 1 + tot[Root]
    OBVIOUS
  <2>1. work'[Len(work')] = end
    BY <1>1, <1>6
  <2> QED  BY <1>2, <1>3, <2>1
<1>9. UdfSizeTotal(fs, tree)' = tot
  BY <1>1 DEF tot
<1> QED
  BY <1>1, <1>7, <1>8, <1>9 DEF Ending, tot

(* What a directory's entry makes of the places of the nodes.              *)
UdfOf(n, kids, locs) ==
  [k \in Nodes(tree) |->
     IF k = n THEN [udf[n] EXCEPT !.ident = part.ident]
     ELSE IF k \in Range(kids)
     THEN [udf[k] EXCEPT !.loc = locs[CHOOSE i \in DOMAIN kids : kids[i] = k]]
     ELSE udf[k]]

(* Nothing else is made of them.                                           *)
LEMMA DirUdf ==
  ASSUME WriteEntry, ~EntryRefused(Head(work)), Head(work) \in Dirs(tree),
         NEW kids, kids = tree.kids[Head(work)], NEW locs, locs = ChildEntries(fs, tree, Head(work), part.sec)
  PROVE  udf' = UdfOf(Head(work), kids, locs)
<1>1. udf' = UdfOf(Head(work), tree.kids[Head(work)], ChildEntries(fs, tree, Head(work), part.sec))
  BY DEF WriteEntry, UdfOf
<1> QED
  BY <1>1

(* Where the nodes are said to be after a directory is written.            *)
LEMMA DirLocs ==
  ASSUME Sound(fs, tree), EntriesInv, PlacesInv, WriteEntry, ~EntryRefused(Head(work)),
         Head(work) \in Dirs(tree),
         NEW kids, kids = tree.kids[Head(work)], NEW locs, locs = ChildEntries(fs, tree, Head(work), part.sec)
  PROVE  /\ kids \in Seq(Nodes(tree)) /\ Len(kids) \in Nat
         /\ \A i \in 1 .. Len(kids) : kids[i] \in Nodes(tree) /\ udf'[kids[i]].loc = locs[i]
         /\ \A i \in 1 .. Len(Tail(work)) : Tail(work)[i] \in Nodes(tree)
                                            /\ udf'[Tail(work)[i]].loc = udf[Tail(work)[i]].loc
<1> DEFINE n    == Head(work)
           rest == Tail(work)
<1>1. udf' = UdfOf(n, kids, locs)
  BY DirUdf
<1>2. /\ work \in Seq(Nodes(tree)) /\ work # <<>> /\ Walk /\ Fields /\ IsTree(tree) /\ n \in Nodes(tree)
      /\ n = work[1] /\ Tail(work) \in Seq(Nodes(tree)) /\ Len(Tail(work)) \in Nat
  BY EntryKnown
<1>3. UniqueInv
  BY DEF EntriesInv
<1>4. /\ kids \in Seq(Nodes(tree)) /\ Len(kids) \in Nat /\ DOMAIN kids = 1 .. Len(kids)
      /\ \A i \in 1 .. Len(kids) : kids[i] \in Nodes(tree) /\ kids[i] \in Range(kids)
  BY <1>2, KidsOf
<1>5. /\ \A i \in 1 .. Len(kids) : kids[i] # n /\ kids[i] \notin {rest[j] : j \in 1 .. Len(rest)}
      /\ \A i, j \in 1 .. Len(kids) : kids[i] = kids[j] => i = j
  BY <1>2, <1>3, KidsAreNew
<1>6. \A k \in Nodes(tree) : "loc" \in DOMAIN udf[k]
  BY <1>2 DEF Fields
<1>7. \A k \in Nodes(tree) :
        udf'[k] = IF k = n THEN [udf[n] EXCEPT !.ident = part.ident]
                  ELSE IF k \in Range(kids)
                  THEN [udf[k] EXCEPT !.loc = locs[CHOOSE i \in DOMAIN kids : kids[i] = k]]
                  ELSE udf[k]
  BY <1>1 DEF UdfOf
<1>8. \A i \in 1 .. Len(kids) : (CHOOSE j \in DOMAIN kids : kids[j] = kids[i]) = i
  BY <1>4, <1>5
<1> HIDE DEF n, rest
<1>9. \A k \in Nodes(tree) \ Range(kids) : udf'[k].loc = udf[k].loc
  BY <1>6, <1>7
<1>10. ASSUME NEW i \in 1 .. Len(kids) PROVE kids[i] \in Nodes(tree) /\ udf'[kids[i]].loc = locs[i]
  <2>1. kids[i] \in Nodes(tree) /\ kids[i] # n /\ kids[i] \in Range(kids)
    BY <1>4, <1>5
  <2>2. udf'[kids[i]] = [udf[kids[i]] EXCEPT !.loc = locs[CHOOSE j \in DOMAIN kids : kids[j] = kids[i]]]
    BY <1>7, <2>1
  <2>3. udf'[kids[i]] = [udf[kids[i]] EXCEPT !.loc = locs[i]]
    BY <1>8, <2>2
  <2> QED  BY <1>6, <2>1, <2>3
<1>11. \A k \in Range(kids) : \E i \in 1 .. Len(kids) : k = kids[i]
  BY <1>4 DEF Range
<1>12. \A i \in 1 .. Len(rest) : rest[i] \in Nodes(tree)
  BY <1>2 DEF rest
<1>13. \A i \in 1 .. Len(rest) : rest[i] \notin Range(kids)
  BY <1>5, <1>11
<1>14. \A i \in 1 .. Len(rest) : rest[i] \in Nodes(tree) /\ udf'[rest[i]].loc = udf[rest[i]].loc
  BY <1>9, <1>12, <1>13
<1> QED
  BY <1>4, <1>10, <1>14 DEF rest

(* A directory's entry and identifiers: its children fill the rest of what *)
(* is reserved for it.                                                     *)
LEMMA EndingDir ==
  ASSUME Sound(fs, tree), EntriesInv, PlacesInv, WriteEntry, ~EntryRefused(Head(work)),
         Head(work) \in Dirs(tree)
  PROVE  Ending'
<1> DEFINE n    == Head(work)
           rest == Tail(work)
           kids == tree.kids[n]
           tot  == UdfSizeTotal(fs, tree)
           locs == ChildEntries(fs, tree, n, part.sec)
           end  == work[Len(work)]
<1> USE DEF Goto, planning
<1>1. /\ UNCHANGED <<fs, tree>> /\ work' = kids \o rest
      /\ part' = [sec |-> NextPartSec(fs, tree, n, part.sec), ident |-> NextUnique(part.ident)]
  BY DEF WriteEntry
<1>2. /\ work \in Seq(Nodes(tree)) /\ work # <<>> /\ part.sec \in Nat /\ UdfRegular(fs, tree)
      /\ NamedTree(tree) /\ udf[n].loc = part.sec /\ n \in Nodes(tree)
      /\ udf[end].loc + tot[end] = 1 + tot[Root] /\ end \in Nodes(tree)
      /\ rest \in Seq(Nodes(tree)) /\ Len(rest) \in Nat
  BY EntryKnown
<1>3. /\ kids \in Seq(Nodes(tree)) /\ Len(kids) \in Nat
      /\ \A i \in 1 .. Len(kids) : kids[i] \in Nodes(tree) /\ udf'[kids[i]].loc = locs[i]
      /\ \A i \in 1 .. Len(rest) : rest[i] \in Nodes(tree) /\ udf'[rest[i]].loc = udf[rest[i]].loc
  BY DirLocs
<1>4. /\ kids = <<>> => tot[n] = UdfSize(fs, tree, n)
      /\ kids # <<>> => locs[Len(kids)] + tot[kids[Len(kids)]] = part.sec + tot[n]
  <2>1. UdfRegular(fs, tree) /\ n \in Dirs(tree) /\ part.sec \in Nat
    BY <1>2
  <2> HIDE DEF n
  <2> QED  BY <2>1, ChildrenFollow
<1>5. part'.sec = part.sec + UdfSize(fs, tree, n)
  <2> DEFINE size == BytesToSec(IdentBytes(fs, tree, n))
  <2>1. size \in Nat /\ UdfSize(fs, tree, n) = 1 + size
    <3>1. IdentBytes(fs, tree, n) \in Nat
      BY <1>2, IdentsSum
    <3> QED  BY <3>1, SectorsNat DEF UdfSize
  <2>2. part'.sec = part.sec + 1 + size
    <3>1. part'.sec = NextPartSec(fs, tree, n, part.sec)
      BY <1>1
    <3> QED  BY <1>2, <3>1, NextPartSecIs
  <2>3. part.sec \in Nat
    BY <1>2
  <2> DEFINE a == part.sec
             b == part'.sec
             u == UdfSize(fs, tree, n)
  <2>4. a \in Nat /\ size \in Nat /\ u = 1 + size /\ b = a + 1 + size
    BY <2>1, <2>2, <2>3
  <2> HIDE DEF size, a, b, u
  <2>5. b = a + u
    BY <2>4
  <2> QED  BY <2>5 DEF a, b, u
<1>6. /\ rest = <<>> => end = n
      /\ rest # <<>> => rest[Len(rest)] = end /\ Len(rest) \in 1 .. Len(rest)
  BY <1>2, TailEnd
<1>7. /\ rest # <<>> => work' # <<>> /\ work'[Len(work')] = rest[Len(rest)]
      /\ rest = <<>> => work' = kids
      /\ kids # <<>> => work' # <<>> /\ Len(kids) \in 1 .. Len(kids)
  <2>1. \A S : \A a, b \in Seq(S) :
          /\ b # <<>> => a \o b # <<>> /\ (a \o b)[Len(a \o b)] = b[Len(b)]
          /\ a \o <<>> = a
          /\ a # <<>> => a \o b # <<>> /\ Len(a) \in 1 .. Len(a)
    OBVIOUS
  <2> HIDE DEF kids, rest
  <2>2. /\ rest # <<>> => kids \o rest # <<>> /\ (kids \o rest)[Len(kids \o rest)] = rest[Len(rest)]
        /\ kids \o <<>> = kids
        /\ kids # <<>> => kids \o rest # <<>> /\ Len(kids) \in 1 .. Len(kids)
    BY <1>2, <1>3, <2>1
  <2> QED  BY <1>1, <2>2
<1>8. UdfSizeTotal(fs, tree)' = tot
  BY <1>1
<1> HIDE DEF n, rest, kids, tot, locs, end
<1>9. CASE rest # <<>>
  <2>1. work' # <<>> /\ work'[Len(work')] = end /\ udf'[end].loc = udf[end].loc
    BY <1>3, <1>6, <1>7, <1>9
  <2> QED  BY <1>2, <1>8, <2>1 DEF Ending
<1>10. CASE rest = <<>> /\ kids # <<>>
  <2>1. work' # <<>> /\ work' = kids /\ udf'[kids[Len(kids)]].loc = locs[Len(kids)]
    BY <1>3, <1>7, <1>10
  <2>2. udf'[kids[Len(kids)]].loc + tot[kids[Len(kids)]] = 1 + tot[Root]
    BY <1>2, <1>4, <1>6, <1>10, <2>1
  <2> QED  BY <1>8, <2>1, <2>2 DEF Ending
<1>11. CASE rest = <<>> /\ kids = <<>>
  <2>1. work' = <<>>
    BY <1>7, <1>11
  <2>2. part'.sec = 1 + tot[Root]
    BY <1>2, <1>4, <1>5, <1>6, <1>11
  <2> QED  BY <1>8, <2>1, <2>2 DEF Ending
<1> QED
  BY <1>9, <1>10, <1>11

(* One round of write_partition_entries.                                   *)
LEMMA WriteEntryPlaces ==
  ASSUME Sound(fs, tree), TypeInv, EntriesInv, PlacesInv, WriteEntry
  PROVE  PlacesInv'
<1> USE DEF Goto, Fail, Return, planning, writing
<1>1. /\ pc = "write entries" /\ UNCHANGED <<fs, tree, mgr, place, cancelled, cur>>
      /\ pc' \in {"write entries", "end"} /\ result' \in {result, "FAIL"}
  BY DEF WriteEntry
<1>2. result # "OK" /\ pc \in Late /\ result' # "OK"
  BY <1>1 DEF TypeInv, TypeOK, Late
<1>3. DiscOf(tree, disc) /\ cur = <<>>
  BY <1>1 DEF PlacesInv, Storing
<1>4. RegionsOnly(disc, disc') /\ \A r \in Regions : disc'.region[r] = disc.region[r]
  <2> DEFINE n == Head(work)
             now == Now(out)
             at == part.sec
  <2>1. disc' = disc \/ disc' = [disc EXCEPT !.entry[n] = now, !.tag[n] = at]
    BY DEF WriteEntry
  <2>2. {"dir", "jdir", "data", "region"} \subseteq DOMAIN disc
    BY <1>3 DEF DiscOf
  <2> HIDE DEF n, now, at
  <2> QED  BY <2>1, <2>2 DEF RegionsOnly
<1>5. Storing'
  <2>1. CASE EntryRefused(Head(work))
    <3>1. pc' = "end"
      BY <2>1 DEF WriteEntry
    <3> QED  BY <1>1, <1>2, <1>3, <3>1 DEF Storing
  <2>2. CASE ~EntryRefused(Head(work))
    <3>1. pc' = "write entries"
      BY <2>2 DEF WriteEntry
    <3>2. Ending'
      BY <2>2, EndingFile, EndingDir
    <3> QED  BY <1>1, <1>2, <1>3, <3>1, <3>2 DEF Storing
  <2> QED  BY <2>1, <2>2
<1> QED
  BY <1>1, <1>2, <1>4, <1>5, RegionsStep

(* The walk is over where the path tables begin.                           *)
LEMMA WriteEntriesEndPlaces ==
  ASSUME Sound(fs, tree), TypeInv, EntriesInv, PlacesInv, WriteEntriesEnd
  PROVE  PlacesInv'
<1> USE DEF Goto, planning, writing
<1>1. /\ pc = "write entries" /\ pc' = "write tables" /\ work = <<>>
      /\ UNCHANGED <<fs, tree, mgr, place, cancelled, cur, disc, out, result>>
  BY DEF WriteEntriesEnd
<1>2. result # "OK" /\ pc \in Late
  BY <1>1 DEF TypeInv, TypeOK, Late
<1>3. cur = <<>> /\ part.sec = 1 + UdfSizeTotal(fs, tree)[Root]
  BY <1>1 DEF PlacesInv, Storing, Ending
<1>4. Following
  BY <1>1 DEF EntriesInv
<1>5. UdfSizeTotal(fs, tree)[Root] \in Nat
  <2>1. NamedTree(tree) /\ Root \in Nodes(tree)
    BY DEF Sound, NamedTree, IsTree, Nodes
  <2> QED  BY <2>1, TotalNat
<1>6. StreamAt(out, TablesStart(fs, tree))
  <2> DEFINE r == UdfSizeTotal(fs, tree)[Root]
  <2>1. TablesStart(fs, tree) = 258 + r /\ out = At(part.sec + 241)
    BY <1>4 DEF TablesStart, UdfSectors, Following
  <2> HIDE DEF r
  <2>2. r \in Nat /\ part.sec = 1 + r
    BY <1>3, <1>5 DEF r
  <2>3. (258 + r) - 16 = part.sec + 241 /\ 258 + r \in Nat /\ 258 + r >= 16
    BY <2>2
  <2> QED  BY <2>1, <2>3 DEF StreamAt
<1>7. Storing'
  BY <1>1, <1>2, <1>3, <1>6 DEF Storing
<1>8. RegionsOnly(disc, disc') /\ \A r \in Regions : disc'.region[r] = disc.region[r]
  BY <1>1 DEF RegionsOnly
<1> QED
  BY <1>1, <1>2, <1>7, <1>8, RegionsStep

-----------------------------------------------------------------------------
(* The path tables and the directories.                                    *)

(* Four tables, one behind the other.                                      *)
TablesAt(l, m, jl, jm, at, f, t) ==
  LET n == TableSectors(f, t, FALSE)
      j == TableSectors(f, t, TRUE)
  IN /\ StreamAt(l, at + n) /\ StreamAt(m, at + 2 * n)
     /\ StreamAt(jl, at + 2 * n + j) /\ StreamAt(jm, at + 2 * n + 2 * j)

(* One path table.                                                         *)
LEMMA TableBehind ==
  ASSUME NEW f, NEW t, NamedTree(t), NEW joliet \in BOOLEAN,
         NEW dirs, dirs = ReachedDirs(t, GetMaxDirLevel(f)) \ {Root},
         NEW s, NEW at, StreamAt(s, at)
  PROVE  StreamAt(WritePathTable(s, f, t, dirs, joliet), at + TableSectors(f, t, joliet))
<1> DEFINE n == TableSectors(f, t, joliet)
           c == at - 16
<1>1. n \in Nat
  BY TableNat
<1>2. at \in Nat /\ at >= 16 /\ s = At(c)
  BY DEF StreamAt
<1>3. c \in Nat
  BY <1>2
<1> HIDE DEF c
<1>4. WritePathTable(s, f, t, dirs, joliet) = At(c + n)
  BY <1>2, <1>3, TableWritten
<1> HIDE DEF n
<1>5. c + n = (at + n) - 16 /\ at + n \in Nat /\ at + n >= 16
  BY <1>1, <1>2 DEF c
<1> QED
  BY <1>4, <1>5 DEF StreamAt, n

(* All of them.                                                            *)
LEMMA TablesBehind ==
  ASSUME NEW f, NEW t, NamedTree(t),
         NEW dirs, dirs = ReachedDirs(t, GetMaxDirLevel(f)) \ {Root},
         NEW s, NEW at, StreamAt(s, at),
         NEW l, l = WritePathTable(s, f, t, dirs, FALSE), NEW m, m = WritePathTable(l, f, t, dirs, FALSE),
         NEW jl, jl = WritePathTable(m, f, t, dirs, TRUE), NEW jm, jm = WritePathTable(jl, f, t, dirs, TRUE)
  PROVE  TablesAt(l, m, jl, jm, at, f, t)
<1> DEFINE n == TableSectors(f, t, FALSE)
           j == TableSectors(f, t, TRUE)
<1>1. n \in Nat /\ j \in Nat
  BY TableNat
<1>2. at \in Nat
  BY DEF StreamAt
<1>3. StreamAt(l, at + n)
  BY TableBehind
<1>4. StreamAt(m, (at + n) + n)
  BY <1>3, TableBehind
<1>5. StreamAt(jl, ((at + n) + n) + j)
  BY <1>4, TableBehind
<1>6. StreamAt(jm, (((at + n) + n) + j) + j)
  BY <1>5, TableBehind
<1> HIDE DEF n, j
<1>7. /\ (at + n) + n = at + 2 * n /\ ((at + n) + n) + j = at + 2 * n + j
      /\ (((at + n) + n) + j) + j = at + 2 * n + 2 * j
  BY <1>1, <1>2
<1>8. StreamAt(m, at + 2 * n) /\ StreamAt(jl, at + 2 * n + j) /\ StreamAt(jm, at + 2 * n + 2 * j)
  BY <1>4, <1>5, <1>6, <1>7
<1> QED
  BY <1>3, <1>8 DEF TablesAt, n, j

(* The stream is there.                                                    *)
LEMMA NowAt ==
  ASSUME NEW s, NEW at, StreamAt(s, at)
  PROVE  Now(s) = at /\ at \in Nat /\ at >= 16
<1>1. s.sector = at - 16 /\ at \in Nat /\ at >= 16
  BY DEF StreamAt, At
<1> QED
  BY <1>1 DEF Now

(* The path tables are written where they were reserved.                   *)
LEMMA WriteTablesPlaces ==
  ASSUME Sound(fs, tree), TypeInv, PlacesInv, WriteTables
  PROVE  PlacesInv'
<1> USE DEF Goto, planning
<1> DEFINE l  == WritePathTable(out, fs, tree, TableDirs, FALSE)
           m  == WritePathTable(l, fs, tree, TableDirs, FALSE)
           jl == WritePathTable(m, fs, tree, TableDirs, TRUE)
           jm == WritePathTable(jl, fs, tree, TableDirs, TRUE)
           n  == TableSectors(fs, tree, FALSE)
           j  == TableSectors(fs, tree, TRUE)
           at == TablesStart(fs, tree)
           start == PassesStart(fs, tree)
<1>1. /\ pc = "write tables" /\ pc' = (IF IsIso(fs) THEN "write dirs" ELSE "write data")
      /\ work' = RootStack /\ UNCHANGED <<fs, tree, mgr, place, cancelled, cur, result>>
  BY DEF WriteTables
<1>2. result # "OK" /\ pc \in Late
  BY <1>1 DEF TypeInv, TypeOK, Late
<1>3. DiscOf(tree, disc) /\ Planned(fs, tree, mgr, place) /\ cur = <<>> /\ StreamAt(out, at)
  BY <1>1, <1>2 DEF PlacesInv, Reserving, Storing
<1>4. DOMAIN disc.region = Regions /\ {"dir", "jdir", "data", "region"} \subseteq DOMAIN disc
  BY <1>3 DEF DiscOf
<1>5. NamedTree(tree) /\ AreImages(fs.images)
  BY DEF Sound
<1>6. at \in Nat /\ n \in Nat /\ j \in Nat
  BY <1>5, StartsNat
<1>7. /\ FilesUpTo(fs, tree, place, mgr.dataStart, <<>>, mgr.dataStart + mgr.dataLen)
      /\ DirsPlanned(fs, tree, mgr, place, mgr.dataStart) /\ TablesLaid(mgr, fs, tree)
  BY <1>3 DEF Planned
<1>8. CASE ~IsIso(fs)
  <2>1. disc' = disc /\ out' = out /\ pc' = "write data"
    BY <1>1, <1>8 DEF WriteTables
  <2>2. StreamAt(out, mgr.dataStart)
    <3>1. mgr.dataStart = start
      BY <1>7, <1>8 DEF DirsPlanned
    <3>2. start = at + 0
      BY <1>8 DEF PassesStart
    <3> HIDE DEF start, at
    <3>3. start = at
      BY <1>6, <3>2
    <3> QED  BY <1>3, <3>1, <3>3
  <2>3. FilesAt(fs, tree, place, disc.data, mgr.dataStart, mgr.dataStart + mgr.dataLen, RootStack, <<>>, out)
    BY <1>7, <2>2, FilesAtBegin
  <2>4. FilesAt(fs, tree, place, disc.data, mgr.dataStart, mgr.dataStart + mgr.dataLen, work, cur, out)'
    BY <1>1, <1>3, <2>1, <2>3
  <2>5. Storing'
    BY <1>1, <1>2, <2>1, <2>4 DEF Storing
  <2>6. RegionsOnly(disc, disc') /\ \A r \in Regions : disc'.region[r] = disc.region[r]
    BY <2>1 DEF RegionsOnly
  <2> QED  BY <1>1, <1>2, <2>1, <2>5, <2>6, RegionsStep
<1>9. CASE IsIso(fs)
  <2>1. TablesAt(l, m, jl, jm, at, fs, tree)
    <3>1. TableDirs = ReachedDirs(tree, GetMaxDirLevel(fs)) \ {Root}
      BY DEF TableDirs
    <3>2. /\ l  = WritePathTable(out, fs, tree, TableDirs, FALSE)
          /\ m  = WritePathTable(l, fs, tree, TableDirs, FALSE)
          /\ jl = WritePathTable(m, fs, tree, TableDirs, TRUE)
          /\ jm = WritePathTable(jl, fs, tree, TableDirs, TRUE)
      OBVIOUS
    <3> HIDE DEF l, m, jl, jm, at
    <3> QED  BY <1>3, <1>5, <3>1, <3>2, TablesBehind
  <2>2. /\ StreamAt(l, at + n) /\ StreamAt(m, at + 2 * n)
        /\ StreamAt(jl, at + 2 * n + j) /\ StreamAt(jm, at + 2 * n + 2 * j)
    <3> HIDE DEF l, m, jl, jm, at
    <3> QED  BY <2>1 DEF TablesAt
  <2>3. /\ out' = IF IsJoliet(fs) THEN jm ELSE m
        /\ disc' = [disc EXCEPT !.region =
             IF IsJoliet(fs)
             THEN [[disc.region EXCEPT !["path L"] = Now(out), !["path M"] = Now(l)]
                     EXCEPT !["joliet path L"] = Now(m), !["joliet path M"] = Now(jl)]
             ELSE [disc.region EXCEPT !["path L"] = Now(out), !["path M"] = Now(l)]]
    BY <1>9 DEF WriteTables
  <2> HIDE DEF l, m, jl, jm
  <2>4. /\ mgr.start["path L"] = at /\ mgr.start["path M"] = at + n
        /\ mgr.start["joliet path L"] = at + 2 * n
        /\ IsJoliet(fs) => mgr.start["joliet path M"] = at + 2 * n + j
    <3>1. IsJoliet(fs) => JolietSectors(fs, tree) = j
      BY DEF JolietSectors
    <3> QED  BY <1>7, <1>9, <3>1 DEF TablesLaid
  <2>5. start = at + (2 * n + 2 * (IF IsJoliet(fs) THEN j ELSE 0))
    BY <1>9 DEF PassesStart, JolietSectors
  <2> HIDE DEF at, n, j, start
  <2>6. Now(out) = at /\ Now(l) = at + n /\ Now(m) = at + 2 * n /\ Now(jl) = at + 2 * n + j
    BY <1>3, <2>2, NowAt
  <2>7. start = IF IsJoliet(fs) THEN at + 2 * n + 2 * j ELSE at + 2 * n
    BY <1>6, <2>5
  <2>8. StreamAt(out', start)
    BY <2>2, <2>3, <2>7
  <2>9. /\ RegionsOnly(disc, disc')
        /\ disc'.region = IF IsJoliet(fs)
             THEN [[disc.region EXCEPT !["path L"] = Now(out), !["path M"] = Now(l)]
                     EXCEPT !["joliet path L"] = Now(m), !["joliet path M"] = Now(jl)]
             ELSE [disc.region EXCEPT !["path L"] = Now(out), !["path M"] = Now(l)]
    BY <1>4, <2>3 DEF RegionsOnly
  <2>10. \A r \in Regions : disc'.region[r] = disc.region[r] \/ disc'.region[r] = mgr.start[r]
    BY <1>4, <2>4, <2>6, <2>9
  <2>11. DirsAt(fs, tree, place, mgr.dataStart, RootStack, out')
    <3>1. DirsUpTo(fs, tree, place, <<>>, mgr.dataStart)
      BY <1>7, <1>9 DEF DirsPlanned
    <3> QED  BY <1>9, <2>8, <3>1, DirsAtBegin DEF start
  <2>12. DirsAt(fs, tree, place, mgr.dataStart, work, out)' /\ IsIso(fs)'
    BY <1>1, <1>9, <2>11
  <2>13. pc' = "write dirs"
    BY <1>1, <1>9
  <2>14. Storing'
    BY <1>1, <1>2, <1>3, <2>12, <2>13 DEF Storing
  <2> QED  BY <1>1, <1>2, <2>9, <2>10, <2>13, <2>14, RegionsStep
<1> QED
  BY <1>8, <1>9

(* The last directory is written.                                          *)
LEMMA WriteDirsEndPlaces ==
  ASSUME Sound(fs, tree), TypeInv, PlacesInv, WriteDirsEnd
  PROVE  PlacesInv'
<1> USE DEF Goto, planning, writing
<1>1. /\ pc = "write dirs" /\ pc' = "write data" /\ work = <<>> /\ work' = RootStack
      /\ UNCHANGED <<fs, tree, mgr, place, cancelled, cur, disc, out, result>>
  BY DEF WriteDirsEnd
<1>2. result # "OK" /\ pc \in Late
  BY <1>1 DEF TypeInv, TypeOK, Late
<1>3. Planned(fs, tree, mgr, place) /\ cur = <<>>
  BY <1>1, <1>2 DEF PlacesInv, Reserving, Storing
<1>4. FilesUpTo(fs, tree, place, mgr.dataStart, <<>>, mgr.dataStart + mgr.dataLen)
  BY <1>3 DEF Planned
<1>5. Sure' => FilesAt(fs, tree, place, disc.data, mgr.dataStart, mgr.dataStart + mgr.dataLen, work, cur, out)'
  <2> SUFFICES ASSUME Sure'
               PROVE  FilesAt(fs, tree, place, disc.data, mgr.dataStart,
                              mgr.dataStart + mgr.dataLen, work, cur, out)'
    OBVIOUS
  <2>1. Sure
    BY <1>1, <1>2 DEF Sure
  <2>2. IsIso(fs) /\ DirsAt(fs, tree, place, mgr.dataStart, <<>>, out)
    BY <1>1, <2>1 DEF PlacesInv, Storing
  <2>3. StreamAt(out, mgr.dataStart)
    BY <2>2, DirsAtEnd
  <2>4. FilesAt(fs, tree, place, disc.data, mgr.dataStart, mgr.dataStart + mgr.dataLen, RootStack, <<>>, out)
    BY <1>4, <2>3, FilesAtBegin
  <2> QED  BY <1>1, <1>3, <2>4
<1>6. Storing'
  BY <1>1, <1>2, <1>5 DEF Storing
<1>7. RegionsOnly(disc, disc') /\ \A r \in Regions : disc'.region[r] = disc.region[r]
  BY <1>1 DEF RegionsOnly
<1> QED
  BY <1>1, <1>2, <1>6, <1>7, RegionsStep

(* Nothing but directories and regions is placed.                          *)
DirsOnly(d, e) ==
  /\ DOMAIN e = DOMAIN d /\ e.data = d.data /\ DOMAIN e.region = DOMAIN d.region
  /\ DOMAIN e.dir = DOMAIN d.dir /\ DOMAIN e.jdir = DOMAIN d.jdir

(* They are placed as planned.                                             *)
LEMMA DirsOnlyPlanned ==
  ASSUME NEW t, NEW d, NEW e, DiscOf(t, d), DirsOnly(d, e), NEW m, NEW p
  PROVE  /\ DiscOf(t, e)
         /\ /\ AsPlanned(t, m, p, d)
            /\ \A r \in Regions : e.region[r] = d.region[r] \/ e.region[r] = m.start[r]
            /\ \A x \in Dirs(t) : /\ e.dir[x] = d.dir[x] \/ e.dir[x] = p[x].normal
                                  /\ e.jdir[x] = d.jdir[x] \/ e.jdir[x] = p[x].joliet
            => AsPlanned(t, m, p, e)
BY DEF DiscOf, DirsOnly, AsPlanned, Placed

(* What is written of the disc with a directory.                           *)
DirDisc(d, e, top, here, behind, joliet) ==
  /\ DirsOnly(d, e)
  /\ e.dir = [d.dir EXCEPT ![top] = here]
  /\ e.jdir = IF joliet THEN [d.jdir EXCEPT ![top] = behind] ELSE d.jdir
  /\ e.region = IF top = Root THEN [d.region EXCEPT !["direntries"] = here] ELSE d.region

OneForm(d, top, here) ==
  IF top = Root THEN [[d EXCEPT !.dir[top] = here] EXCEPT !.region["direntries"] = here]
  ELSE [d EXCEPT !.dir[top] = here]

BothForms(d, top, here, behind, joliet) ==
  IF joliet THEN [OneForm(d, top, here) EXCEPT !.jdir[top] = behind] ELSE OneForm(d, top, here)

(* What the step makes of the disc.                                        *)
LEMMA DirDiscIs ==
  ASSUME NEW t, NEW d, DiscOf(t, d), NEW top, NEW here, NEW behind, NEW joliet \in BOOLEAN
  PROVE  /\ DirsOnly(d, OneForm(d, top, here))
         /\ DirDisc(d, BothForms(d, top, here, behind, joliet), top, here, behind, joliet)
<1> DEFINE first == OneForm(d, top, here)
           e == BothForms(d, top, here, behind, joliet)
<1>1. "dir" \in DOMAIN d /\ "jdir" \in DOMAIN d /\ "data" \in DOMAIN d /\ "region" \in DOMAIN d
  BY DEF DiscOf
<1> DEFINE one == [d EXCEPT !.dir[top] = here]
<1>2. /\ DOMAIN one = DOMAIN d /\ one.dir = [d.dir EXCEPT ![top] = here] /\ one.jdir = d.jdir
      /\ one.data = d.data /\ one.region = d.region
  BY <1>1
<1>3. /\ first = IF top = Root THEN [one EXCEPT !.region["direntries"] = here] ELSE one
      /\ e = IF joliet THEN [first EXCEPT !.jdir[top] = behind] ELSE first
  BY DEF OneForm, BothForms
<1> HIDE DEF one, first, e
<1>4. /\ DOMAIN first = DOMAIN d /\ first.dir = [d.dir EXCEPT ![top] = here] /\ first.jdir = d.jdir
      /\ first.data = d.data
      /\ first.region = IF top = Root THEN [d.region EXCEPT !["direntries"] = here] ELSE d.region
  <2>1. CASE top = Root
    <3>1. first = [one EXCEPT !.region["direntries"] = here]
      BY <1>3, <2>1
    <3> QED  BY <1>1, <1>2, <2>1, <3>1
  <2>2. CASE top # Root
    <3>1. first = one
      BY <1>3, <2>2
    <3> QED  BY <1>2, <2>2, <3>1
  <2> QED  BY <2>1, <2>2
<1>5. /\ DOMAIN e = DOMAIN d /\ e.dir = [d.dir EXCEPT ![top] = here]
      /\ e.data = d.data
      /\ e.jdir = IF joliet THEN [d.jdir EXCEPT ![top] = behind] ELSE d.jdir
      /\ e.region = IF top = Root THEN [d.region EXCEPT !["direntries"] = here] ELSE d.region
  <2>1. CASE joliet
    <3>1. e = [first EXCEPT !.jdir[top] = behind]
      BY <1>3, <2>1
    <3> QED  BY <1>1, <1>4, <2>1, <3>1
  <2>2. CASE ~joliet
    <3>1. e = first
      BY <1>3, <2>2
    <3> QED  BY <1>4, <2>2, <3>1
  <2> QED  BY <2>1, <2>2
<1>6. /\ DOMAIN [d.dir EXCEPT ![top] = here] = DOMAIN d.dir
      /\ DOMAIN [d.jdir EXCEPT ![top] = behind] = DOMAIN d.jdir
      /\ DOMAIN [d.region EXCEPT !["direntries"] = here] = DOMAIN d.region
  OBVIOUS
<1>7. DirsOnly(d, first)
  BY <1>4, <1>6 DEF DirsOnly
<1>8. DirsOnly(d, e)
  BY <1>5, <1>6 DEF DirsOnly
<1> QED
  BY <1>5, <1>7, <1>8 DEF DirDisc, first, e

(* The streams while a directory is written, and what follows it.          *)
LEMMA DirBehind ==
  ASSUME Sound(fs, tree), IsIso(fs), work \in StackType, work # <<>>,
         NEW first, DirsAt(fs, tree, place, first, work, out),
         NEW normal, normal = WriteDir(out, fs, tree, Top, Level_, FALSE),
         NEW joliet, joliet = WriteDir(normal, fs, tree, Top, Level_, TRUE)
  PROVE  /\ Now(out) = place[Top].normal
         /\ IsJoliet(fs) => Now(normal) = place[Top].joliet
         /\ Top = Root => Now(out) = PassesStart(fs, tree)
         /\ DirsAt(fs, tree, place, first, Pushed, IF IsJoliet(fs) THEN joliet ELSE normal)
<1>1. IsTree(tree) /\ NamedTree(tree) /\ Regular(fs, tree) /\ DirTakes(fs, tree) \in [Dirs(tree) \X Nat -> Nat]
  BY PassesNat DEF Sound
<1>2. /\ Top = TopIn(work) /\ Level_ = work[Len(work)][2]
      /\ Top \in Dirs(tree) /\ Level_ \in Nat
      /\ Pushed = Pushes(work, tree, GetMaxDirLevel(fs))
  BY <1>1, TopIs
<1>3. PICK at : DirIsHere(fs, tree, place, first, work, out, at)
  BY DirsAtRound
<1> DEFINE here == Pushes(work, tree, GetMaxDirLevel(fs))
           cn == CalcDirSectors(fs, tree, Top, Level_, FALSE)
           cj == CalcDirSectors(fs, tree, Top, Level_, TRUE)
           takes == DirTakes(fs, tree)[<<Top, Level_>>]
<1>4. /\ StreamAt(out, at) /\ place[Top].normal = at /\ place[Top].joliet = at + cn
      /\ Top = Root => at = PassesStart(fs, tree)
      /\ \A v : StreamAt(v, at + takes) => DirsAt(fs, tree, place, first, here, v)
  BY <1>2, <1>3 DEF DirIsHere, Reserves
<1>5. takes = cn + (IF IsJoliet(fs) THEN cj ELSE 0)
  <2>1. <<Top, Level_>> \in Dirs(tree) \X Nat /\ <<Top, Level_>>[1] = Top /\ <<Top, Level_>>[2] = Level_
    BY <1>2
  <2> QED  BY <2>1 DEF DirTakes
<1>6. DirRegular(fs, tree, Top, FALSE) /\ (IsJoliet(fs) => DirRegular(fs, tree, Top, TRUE))
  <2>1. DirRegular(fs, tree, Top, FALSE)
    BY <1>1, <1>2, SomeRegular
  <2>2. IsJoliet(fs) => DirRegular(fs, tree, Top, IsJoliet(fs))
    BY <1>1, <1>2, SomeRegular
  <2>3. IsJoliet(fs) \in BOOLEAN
    BY DEF IsJoliet
  <2> QED  BY <2>1, <2>2, <2>3
<1> DEFINE c == at - 16
<1>7. at \in Nat /\ at >= 16 /\ out = At(c) /\ c \in Nat
  BY <1>4 DEF StreamAt
<1>8. normal = At(c + cn) /\ cn \in Nat
  <2> HIDE DEF c
  <2>1. c \in Nat /\ NamedTree(tree) /\ Top \in Dirs(tree) /\ FALSE \in BOOLEAN
        /\ DirRegular(fs, tree, Top, FALSE)
    BY <1>1, <1>2, <1>6, <1>7
  <2>2. WriteDir(At(c), fs, tree, Top, Level_, FALSE) = At(c + cn) /\ cn \in Nat \ {0}
    BY <2>1, DirWritten
  <2> QED  BY <1>7, <2>2
<1>9. StreamAt(normal, at + cn)
  <2> HIDE DEF cn
  <2>1. c + cn = (at + cn) - 16 /\ at + cn \in Nat /\ at + cn >= 16
    BY <1>7, <1>8
  <2> QED  BY <1>8, <2>1 DEF StreamAt
<1>10. ASSUME IsJoliet(fs) PROVE StreamAt(joliet, (at + cn) + cj) /\ cj \in Nat
  <2> DEFINE k == c + cn
  <2>1. k \in Nat /\ normal = At(k) /\ k + 16 = at + cn
    <3>1. c = at - 16 /\ c \in Nat /\ at \in Nat /\ cn \in Nat
      BY <1>7, <1>8
    <3>2. normal = At(k)
      BY <1>8
    <3>3. k = c + cn
      OBVIOUS
    <3> HIDE DEF cn, c, k
    <3>4. k \in Nat /\ k + 16 = at + cn
      BY <3>1, <3>3
    <3> QED  BY <3>2, <3>4
  <2> HIDE DEF k
  <2>2. joliet = At(k + cj) /\ cj \in Nat
    <3>1. k \in Nat /\ NamedTree(tree) /\ Top \in Dirs(tree) /\ TRUE \in BOOLEAN
          /\ DirRegular(fs, tree, Top, TRUE)
      BY <1>1, <1>2, <1>6, <1>10, <2>1
    <3>2. WriteDir(At(k), fs, tree, Top, Level_, TRUE) = At(k + cj) /\ cj \in Nat \ {0}
      BY <3>1, DirWritten
    <3> QED  BY <2>1, <3>2
  <2> HIDE DEF cn, cj
  <2>3. k + cj = ((at + cn) + cj) - 16 /\ (at + cn) + cj \in Nat /\ (at + cn) + cj >= 16
    BY <1>7, <1>8, <2>1, <2>2
  <2> QED  BY <2>2, <2>3 DEF StreamAt
<1> HIDE DEF cn, cj, takes, here, c
<1>11. StreamAt(IF IsJoliet(fs) THEN joliet ELSE normal, at + takes)
  <2>1. CASE IsJoliet(fs)
    <3>1. at + takes = (at + cn) + cj
      BY <1>5, <1>7, <1>8, <1>10, <2>1
    <3> QED  BY <1>10, <2>1, <3>1
  <2>2. CASE ~IsJoliet(fs)
    <3>1. at + takes = at + cn
      BY <1>5, <1>7, <1>8, <2>2
    <3> QED  BY <1>9, <2>2, <3>1
  <2> QED  BY <2>1, <2>2
<1>12. Now(out) = at /\ Now(normal) = at + cn
  BY <1>4, <1>9, NowAt
<1>13. DirsAt(fs, tree, place, first, here, IF IsJoliet(fs) THEN joliet ELSE normal)
  BY <1>4, <1>11
<1>14. DirsAt(fs, tree, place, first, Pushed, IF IsJoliet(fs) THEN joliet ELSE normal)
  BY <1>2, <1>13 DEF here
<1> QED
  BY <1>4, <1>12, <1>14

(* A directory is written where it was reserved, or not as a whole after a *)
(* request to cancel.                                                      *)
LEMMA WriteDirEntryPlaces ==
  ASSUME Sound(fs, tree), TypeInv, PlacesInv, WriteDirEntry
  PROVE  PlacesInv'
<1> USE DEF Goto, planning
<1> DEFINE normal == WriteDir(out, fs, tree, Top, Level_, FALSE)
           joliet == WriteDir(normal, fs, tree, Top, Level_, TRUE)
           one   == [disc EXCEPT !.dir[Top] = Now(out)]
           first == IF Top = Root THEN [one EXCEPT !.region["direntries"] = Now(out)] ELSE one
           both  == IF IsJoliet(fs) THEN [first EXCEPT !.jdir[Top] = Now(normal)] ELSE first
           ends  == IF IsJoliet(fs) THEN joliet ELSE normal
<1>1. /\ pc = "write dirs" /\ work # <<>> /\ work' = Pushed
      /\ UNCHANGED <<fs, tree, mgr, place, cancelled, cur>>
  BY DEF WriteDirEntry
<1>2. /\ \/ pc' = "write dirs" /\ result' = result
         \/ cancelled /\ pc' = "end" /\ result' = "CANCEL"
      /\ ~cancelled => out' = ends /\ disc' = both
      /\ disc' \in {both, disc, first}
  BY DEF WriteDirEntry
<1>3. result # "OK" /\ pc \in Late /\ work \in StackType
  BY <1>1 DEF TypeInv, TypeOK, Late
<1>4. DiscOf(tree, disc) /\ Planned(fs, tree, mgr, place) /\ cur = <<>>
  BY <1>1, <1>3 DEF PlacesInv, Reserving, Storing
<1>5. IsJoliet(fs) \in BOOLEAN
  BY DEF IsJoliet
<1>6. DirsOnly(disc, first) /\ DirDisc(disc, both, Top, Now(out), Now(normal), IsJoliet(fs))
  <2>1. first = OneForm(disc, Top, Now(out)) /\ both = BothForms(disc, Top, Now(out), Now(normal), IsJoliet(fs))
    BY DEF OneForm, BothForms
  <2> HIDE DEF normal, first, both, one
  <2> QED  BY <1>4, <1>5, <2>1, DirDiscIs
<1>7. ends = IF IsJoliet(fs) THEN joliet ELSE normal
  OBVIOUS
<1>8. normal = WriteDir(out, fs, tree, Top, Level_, FALSE)
      /\ joliet = WriteDir(normal, fs, tree, Top, Level_, TRUE)
  OBVIOUS
<1> HIDE DEF normal, joliet, one, first, both, ends
<1>9. DirsOnly(disc, disc')
  <2>1. DirsOnly(disc, disc)
    BY DEF DirsOnly
  <2>2. DirsOnly(disc, both)
    BY <1>6 DEF DirDisc
  <2>3. disc' = both \/ disc' = disc \/ disc' = first
    BY <1>2
  <2> QED  BY <1>6, <2>1, <2>2, <2>3
<1>10. DiscOf(tree, disc')
  BY <1>4, <1>9, DirsOnlyPlanned
<1>11. pc' = "end" => cancelled
  BY <1>2
<1>12. ASSUME ~cancelled
       PROVE  /\ IsIso(fs) /\ DirsAt(fs, tree, place, mgr.dataStart, work', out')
              /\ AsPlanned(tree, mgr, place, disc')
  <2>1. Sure
    BY <1>12 DEF Sure
  <2>2. IsIso(fs) /\ DirsAt(fs, tree, place, mgr.dataStart, work, out)
    BY <1>1, <2>1 DEF PlacesInv, Storing
  <2>3. /\ Now(out) = place[Top].normal
        /\ IsJoliet(fs) => Now(normal) = place[Top].joliet
        /\ Top = Root => Now(out) = PassesStart(fs, tree)
        /\ DirsAt(fs, tree, place, mgr.dataStart, Pushed, IF IsJoliet(fs) THEN joliet ELSE normal)
    BY <1>1, <1>3, <1>8, <2>2, DirBehind
  <2>4. mgr.start["direntries"] = PassesStart(fs, tree)
    BY <1>4, <2>2 DEF Planned, DirsPlanned
  <2>5. DirDisc(disc, disc', Top, Now(out), Now(normal), IsJoliet(fs)) /\ out' = ends
    BY <1>2, <1>6, <1>12
  <2>6. /\ disc'.dir = [disc.dir EXCEPT ![Top] = Now(out)]
        /\ disc'.jdir = IF IsJoliet(fs) THEN [disc.jdir EXCEPT ![Top] = Now(normal)] ELSE disc.jdir
        /\ disc'.region = IF Top = Root THEN [disc.region EXCEPT !["direntries"] = Now(out)]
                          ELSE disc.region
    BY <2>5 DEF DirDisc
  <2>7. DOMAIN disc.dir = Dirs(tree) /\ DOMAIN disc.jdir = Dirs(tree) /\ DOMAIN disc.region = Regions
    BY <1>4 DEF DiscOf
  <2>8. \A r \in Regions : disc'.region[r] = disc.region[r] \/ disc'.region[r] = mgr.start[r]
    BY <2>3, <2>4, <2>6, <2>7
  <2>9. \A x \in Dirs(tree) : /\ disc'.dir[x] = disc.dir[x] \/ disc'.dir[x] = place[x].normal
                              /\ disc'.jdir[x] = disc.jdir[x] \/ disc'.jdir[x] = place[x].joliet
    BY <2>3, <2>6, <2>7
  <2>10. AsPlanned(tree, mgr, place, disc)
    BY <2>1 DEF PlacesInv
  <2>11. AsPlanned(tree, mgr, place, disc')
    BY <1>4, <1>9, <2>8, <2>9, <2>10, DirsOnlyPlanned
  <2>12. DirsAt(fs, tree, place, mgr.dataStart, work', out')
    BY <1>1, <1>7, <2>3, <2>5
  <2> QED  BY <2>2, <2>11, <2>12
<1>13. Sure' => ~cancelled
  <2>1. pc' # "tail" /\ result' # "OK"
    BY <1>2, <1>3
  <2> QED  BY <1>1, <2>1 DEF Sure
<1>14. Storing'
  <2>1. pc' \in {"write dirs", "end"} /\ result' # "OK"
    BY <1>2, <1>3
  <2>2. pc' = "write dirs" /\ Sure' => (IsIso(fs) /\ DirsAt(fs, tree, place, mgr.dataStart, work, out))'
    BY <1>1, <1>12, <1>13
  <2> QED  BY <1>1, <1>4, <2>1, <2>2 DEF Storing
<1>15. DiscOf(tree, disc)' /\ (Sure' => AsPlanned(tree, mgr, place, disc)')
  BY <1>1, <1>10, <1>12, <1>13
<1>16. pc' \in {"write udf", "write entries", "write tables", "write dirs", "write data", "tail", "end"}
  BY <1>2
<1> QED
  BY <1>1, <1>3, <1>14, <1>15, <1>16, WriteKept

-----------------------------------------------------------------------------
(* The files, and the tail.                                                *)

(* Where the pass over the files is.                                       *)
AtFiles(w, c, s) ==
  FilesAt(fs, tree, place, disc.data, mgr.dataStart, mgr.dataStart + mgr.dataLen, w, c, s)

(* What is known while files are written.                                  *)
LEMMA DataKnown ==
  ASSUME Sound(fs, tree), TypeInv, PlacesInv, pc = "write data"
  PROVE  /\ result # "OK" /\ pc \in Late /\ work \in StackType
         /\ DiscOf(tree, disc) /\ mgr.dataStart \in Nat /\ mgr.dataStart >= 16
         /\ cur = <<>> \/ cur \in Dirs(tree) \X Nat \X Nat
         /\ IsTree(tree) /\ NamedTree(tree)
         /\ ~cancelled => AtFiles(work, cur, out) /\ AsPlanned(tree, mgr, place, disc)
<1>1. result # "OK" /\ pc \in Late /\ work \in StackType /\ (cur = <<>> \/ cur \in Dirs(tree) \X Nat \X Nat)
  BY DEF TypeInv, TypeOK, Late
<1>2. DiscOf(tree, disc) /\ Planned(fs, tree, mgr, place)
  BY <1>1 DEF PlacesInv, Reserving
<1>3. mgr.dataStart \in Nat /\ mgr.dataStart >= 16
  BY <1>2 DEF Planned
<1>4. ~cancelled => AtFiles(work, cur, out) /\ AsPlanned(tree, mgr, place, disc)
  BY DEF PlacesInv, Storing, Sure, AtFiles
<1>5. IsTree(tree) /\ NamedTree(tree)
  BY DEF Sound, NamedTree
<1> QED
  BY <1>1, <1>2, <1>3, <1>4, <1>5

(* The pass over the files goes on, with nothing new on the disc.          *)
LEMMA DataGoesOn ==
  ASSUME Sound(fs, tree), TypeInv, PlacesInv, pc = "write data", pc' = "write data",
         UNCHANGED <<fs, tree, mgr, place, cancelled, disc, result>>,
         ~cancelled => AtFiles(work', cur', out')
  PROVE  PlacesInv'
<1>1. /\ result # "OK" /\ pc \in Late /\ DiscOf(tree, disc)
      /\ ~cancelled => AsPlanned(tree, mgr, place, disc)
  BY DataKnown
<1>2. Sure' => ~cancelled
  BY <1>1 DEF Sure
<1>3. Sure' => FilesAt(fs, tree, place, disc.data, mgr.dataStart, mgr.dataStart + mgr.dataLen, work, cur, out)'
  BY <1>2 DEF AtFiles
<1>4. Storing'
  BY <1>1, <1>3 DEF Storing
<1>5. DiscOf(tree, disc)' /\ (Sure' => AsPlanned(tree, mgr, place, disc)')
  BY <1>1, <1>2
<1> QED
  BY <1>1, <1>4, <1>5, WriteKept

(* The build ends without a result that is good.                           *)
LEMMA DataEnds ==
  ASSUME PlacesInv, pc \in Late, result # "OK", pc' = "end", result' # "OK",
         UNCHANGED <<fs, tree, mgr, place, cancelled, disc>>, Sure' => Sure
  PROVE  PlacesInv'
<1>1. DiscOf(tree, disc)' /\ (Sure' => AsPlanned(tree, mgr, place, disc)')
  BY DEF PlacesInv
<1>2. Storing'
  BY DEF Storing
<1> QED
  BY <1>1, <1>2, WriteKept

(* A directory is opened.                                                  *)
LEMMA OpenDirPlaces ==
  ASSUME Sound(fs, tree), TypeInv, PlacesInv, OpenDir
  PROVE  PlacesInv'
<1> USE DEF Goto, planning, writing
<1>1. /\ pc = "write data" /\ pc' = "write data" /\ cur = <<>> /\ work # <<>>
      /\ cur' = <<Top, Level_, 1>> /\ work' = Front(work)
      /\ UNCHANGED <<fs, tree, mgr, place, cancelled, disc, result, out>>
  BY DEF OpenDir
<1>2. ASSUME ~cancelled PROVE AtFiles(work', cur', out')
  <2>1. AtFiles(work, <<>>, out)
    BY <1>1, <1>2, DataKnown
  <2>2. FilesAt(fs, tree, place, disc.data, mgr.dataStart, mgr.dataStart + mgr.dataLen, Front(work),
                <<work[Len(work)][1], work[Len(work)][2], 1>>, out)
    BY <1>1, <2>1, FilesAtOpen DEF AtFiles
  <2>3. cur' = <<work[Len(work)][1], work[Len(work)][2], 1>>
    BY <1>1 DEF Top, Level_
  <2> QED  BY <1>1, <2>2, <2>3 DEF AtFiles
<1> QED
  BY <1>1, <1>2, DataGoesOn

(* A directory is left.                                                    *)
LEMMA CloseDirPlaces ==
  ASSUME Sound(fs, tree), TypeInv, PlacesInv, CloseDir
  PROVE  PlacesInv'
<1> USE DEF Goto, planning, writing
<1>1. /\ pc = "write data" /\ pc' = "write data" /\ cur # <<>> /\ ~cancelled /\ cur' = <<>>
      /\ ~(cur[3] <= Len(tree.kids[cur[1]]))
      /\ UNCHANGED <<fs, tree, mgr, place, cancelled, disc, result, out, work>>
  BY DEF CloseDir, AtChild, More
<1>2. AtFiles(work', cur', out')
  <2>1. AtFiles(work, cur, out) /\ mgr.dataStart \in Nat /\ mgr.dataStart >= 16
    BY <1>1, DataKnown
  <2>2. FilesAt(fs, tree, place, disc.data, mgr.dataStart, mgr.dataStart + mgr.dataLen, work, <<>>, out)
    BY <1>1, <2>1, FilesAtClose DEF AtFiles
  <2> QED  BY <1>1, <2>2 DEF AtFiles
<1> QED
  BY <1>1, <1>2, DataGoesOn

(* What is in the image, as the writer asks for it.                        *)
LEMMA KeptFile ==
  /\ Kept(fs, tree) \in SUBSET Files(tree)
  /\ \A n \in Files(tree) : n \in Kept(fs, tree) <=> ~TooLarge(n)
BY DEF Kept, TooLarge

(* A child is not written: a directory, or a file that is too large.       *)
LEMMA SkipChildPlaces ==
  ASSUME Sound(fs, tree), TypeInv, PlacesInv, SkipChild
  PROVE  PlacesInv'
<1> USE DEF Goto, planning, writing
<1>1. /\ pc = "write data" /\ pc' = "write data" /\ cur # <<>> /\ ~cancelled
      /\ cur[3] <= Len(tree.kids[cur[1]]) /\ cur' = [cur EXCEPT ![3] = @ + 1]
      /\ UNCHANGED <<fs, tree, mgr, place, cancelled, disc, result, out>>
      /\ \/ /\ Child \in Dirs(tree)
            /\ work' = IF cur[2] > GetMaxDirLevel(fs) THEN work ELSE Append(work, <<Child, cur[2] + 1>>)
         \/ /\ Child \in Files(tree) /\ TooLarge(Child) /\ work' = work
  BY DEF SkipChild, AtChild, More, NextChild
<1>2. AtFiles(work, cur, out) /\ mgr.dataStart \in Nat /\ mgr.dataStart >= 16
      /\ IsTree(tree) /\ NamedTree(tree) /\ cur \in Dirs(tree) \X Nat \X Nat
  BY <1>1, DataKnown
<1>3. cur' = <<cur[1], cur[2], cur[3] + 1>>
  BY <1>1, <1>2, TripleIs
<1>4. Dirs(tree) \cap Files(tree) = {} /\ Child \in Nodes(tree)
  BY <1>1, <1>2 DEF IsTree, Nodes
<1>5. Child \notin Kept(fs, tree) /\ (Child \in Files(tree) => Child \notin Dirs(tree))
  BY <1>1, <1>4, KeptFile
<1>6. work' = IF cur[2] > GetMaxDirLevel(fs) \/ Child \notin Dirs(tree) THEN work
              ELSE Append(work, <<Child, cur[2] + 1>>)
  <2> DEFINE w == Append(work, <<Child, cur[2] + 1>>)
  <2> HIDE DEF w
  <2> QED  BY <1>1, <1>5 DEF w
<1>7. Weights(tree, Kept(fs, tree))[Child] = 0
  BY <1>2, <1>4, <1>5, KeptFile, WeightsNat
<1> DEFINE child == Child
           last == mgr.dataStart + mgr.dataLen
           w2 == work'
<1>8. child = tree.kids[cur[1]][cur[3]]
  BY DEF Child
<1>9. AtFiles(work', cur', out')
  <2>1. FilesAt(fs, tree, place, disc.data, mgr.dataStart, last, work, cur, out)
    BY <1>2 DEF AtFiles
  <2> HIDE DEF last
  <2>2. PICK here : StreamAt(out, here)
    BY <1>1, <1>2, <1>8, <2>1, FilesAtPlace
  <2>3. StreamAt(out, here + Weights(tree, Kept(fs, tree))[child])
    <3>1. here \in Nat
      BY <2>2 DEF StreamAt
    <3>2. here + 0 = here
      BY <3>1
    <3> QED  BY <1>7, <2>2, <3>2
  <2>4. OthersStay(fs, tree, disc.data, disc.data, child)
    BY DEF OthersStay
  <2>5. child \notin Kept(fs, tree)
    BY <1>5
  <2>6. w2 = IF cur[2] > GetMaxDirLevel(fs) \/ child \notin Dirs(tree) THEN work
             ELSE Append(work, <<child, cur[2] + 1>>)
    BY <1>6
  <2> HIDE DEF child, w2
  <2>7. FilesAt(fs, tree, place, disc.data, mgr.dataStart, last, w2, <<cur[1], cur[2], cur[3] + 1>>, out)
    BY <1>1, <1>2, <1>8, <2>1, <2>2, <2>3, <2>4, <2>5, <2>6, FilesAtNext
  <2> QED  BY <1>1, <1>3, <2>7 DEF AtFiles, w2, last
<1> QED
  BY <1>1, <1>9, DataGoesOn

(* A file is written where it was reserved, and what follows behind it.    *)
LEMMA WriteFilePlaces ==
  ASSUME Sound(fs, tree), TypeInv, PlacesInv, WriteFile
  PROVE  PlacesInv'
<1> USE DEF Goto, planning, writing
<1>1. /\ pc = "write data" /\ cur # <<>> /\ ~cancelled
      /\ cur[3] <= Len(tree.kids[cur[1]]) /\ Child \in Files(tree) /\ ~TooLarge(Child)
  BY DEF WriteFile, AtChild, More
<1>2. /\ result # "OK" /\ pc \in Late /\ DiscOf(tree, disc) /\ AsPlanned(tree, mgr, place, disc)
      /\ AtFiles(work, cur, out) /\ mgr.dataStart \in Nat /\ mgr.dataStart >= 16
      /\ IsTree(tree) /\ NamedTree(tree) /\ cur \in Dirs(tree) \X Nat \X Nat
  BY <1>1, DataKnown
<1>3. CASE Child \in changed
  <2>1. pc' = "end" /\ result' = "FAIL" /\ UNCHANGED <<fs, tree, mgr, place, cancelled, disc>>
    BY <1>3 DEF WriteFile, Fail, Return
  <2>2. Sure' => Sure
    BY <1>1, <2>1 DEF Sure
  <2> QED  BY <1>2, <2>1, <2>2, DataEnds
<1>4. CASE Child \notin changed
  <2>1. /\ pc' = "write data" /\ cur' = [cur EXCEPT ![3] = @ + 1] /\ work' = work
        /\ UNCHANGED <<fs, tree, mgr, place, cancelled, result>>
        /\ disc' = [disc EXCEPT !.data[Child] = Now(out)]
        /\ out' = WriteSectors(PadIfOpen(WriteBytes(out, tree.size[Child])), tree.pad[Child])
    BY <1>4 DEF WriteFile, NextChild
  <2>2. cur' = <<cur[1], cur[2], cur[3] + 1>>
    BY <1>2, <2>1, TripleIs
  <2> DEFINE child == Child
             last == mgr.dataStart + mgr.dataLen
             data2 == disc'.data
             v == out'
  <2>3. /\ child = tree.kids[cur[1]][cur[3]] /\ child \in Files(tree) /\ child \in Nodes(tree)
        /\ child \in Kept(fs, tree) /\ child \notin Dirs(tree)
    BY <1>1, <1>2, KeptFile DEF Child, IsTree, Nodes
  <2>4. /\ "data" \in DOMAIN disc /\ DOMAIN disc.data = Files(tree)
        /\ DOMAIN disc' = DOMAIN disc /\ disc'.dir = disc.dir /\ disc'.jdir = disc.jdir
        /\ disc'.region = disc.region /\ data2 = [disc.data EXCEPT ![child] = Now(out)]
    BY <1>2, <2>1 DEF DiscOf
  <2>5. FilesAt(fs, tree, place, disc.data, mgr.dataStart, last, work, cur, out)
    BY <1>2 DEF AtFiles
  <2>6. v = WriteSectors(PadIfOpen(WriteBytes(out, tree.size[child])), tree.pad[child])
    BY <2>1
  <2>7. Weights(tree, Kept(fs, tree))[child] = TakenBy(tree, child)
    <3> HIDE DEF child
    <3> QED  BY <1>2, <2>3, KeptFile, WeightsNat
  <2> HIDE DEF child, last, data2, v
  <2> DEFINE here == place[child].normal
  <2>8. StreamAt(out, here)
    BY <1>1, <1>2, <2>3, <2>5, FilesAtPlace
  <2> HIDE DEF here
  <2>9. Now(out) = here /\ here \in Nat /\ here >= 16
    BY <2>8, NowAt
  <2>10. StreamAt(v, here + Weights(tree, Kept(fs, tree))[child])
    <3> DEFINE c == here - 16
               e == TakenBy(tree, child)
    <3>1. out = At(c) /\ c \in Nat
      BY <2>8, <2>9 DEF StreamAt
    <3>2. c = here - 16
      OBVIOUS
    <3> HIDE DEF c
    <3>3. v = At(c + e) /\ e \in Nat
      <4>1. c \in Nat /\ NamedTree(tree) /\ child \in Files(tree)
        BY <1>2, <2>3, <3>1
      <4> HIDE DEF c
      <4>2. /\ WriteSectors(PadIfOpen(WriteBytes(At(c), tree.size[child])), tree.pad[child])
                 = At(c + TakenBy(tree, child))
            /\ TakenBy(tree, child) \in Nat
        BY <4>1, FileWritten
      <4> QED  BY <2>6, <3>1, <4>2
    <3>4. here + Weights(tree, Kept(fs, tree))[child] = here + e
      BY <2>7
    <3> HIDE DEF e
    <3>5. c + e = (here + e) - 16 /\ here + e \in Nat /\ here + e >= 16
      BY <2>9, <3>2, <3>3
    <3>6. StreamAt(v, here + e)
      BY <3>3, <3>5 DEF StreamAt
    <3> QED  BY <3>4, <3>6
  <2>11. data2[child] = here /\ \A x \in Files(tree) : x # child => data2[x] = disc.data[x]
    BY <2>3, <2>4, <2>9
  <2>12. OthersStay(fs, tree, data2, disc.data, child)
    BY <2>11, KeptFile DEF OthersStay
  <2>13. data2[child] = place[child].normal
    BY <2>11 DEF here
  <2>14. work = IF cur[2] > GetMaxDirLevel(fs) \/ child \notin Dirs(tree) THEN work
                ELSE Append(work, <<child, cur[2] + 1>>)
    BY <2>3
  <2>15. FilesAt(fs, tree, place, data2, mgr.dataStart, last, work, <<cur[1], cur[2], cur[3] + 1>>, v)
    BY <1>1, <1>2, <2>3, <2>5, <2>8, <2>10, <2>12, <2>13, <2>14, FilesAtNext
  <2>16. FilesAt(fs, tree, place, disc.data, mgr.dataStart, mgr.dataStart + mgr.dataLen, work, cur, out)'
    BY <2>1, <2>2, <2>15 DEF data2, last, v
  <2>17. Storing'
    BY <1>2, <2>1, <2>16 DEF Storing
  <2>18. DOMAIN data2 = Files(tree)
    BY <2>4
  <2>19. DiscOf(tree, disc')
    BY <1>2, <2>4, <2>18 DEF DiscOf, data2
  <2>20. AsPlanned(tree, mgr, place, disc')
    <3>1. \A n \in Files(tree) : Placed(data2[n], place[n].normal)
      BY <1>2, <2>11, <2>13 DEF AsPlanned, Placed
    <3> QED  BY <1>2, <2>4, <3>1 DEF AsPlanned, data2
  <2>21. DiscOf(tree, disc)' /\ (Sure' => AsPlanned(tree, mgr, place, disc)')
    BY <2>1, <2>19, <2>20
  <2> QED  BY <1>2, <2>1, <2>17, <2>21, WriteKept
<1> QED
  BY <1>3, <1>4

(* The last file is written, and nobody asked to stop.                     *)
LEMMA WriteDataEndPlaces ==
  ASSUME Sound(fs, tree), TypeInv, PlacesInv, WriteDataEnd
  PROVE  PlacesInv'
<1> USE DEF Goto, planning, writing
<1>1. /\ pc = "write data" /\ pc' = "tail" /\ cur = <<>> /\ work = <<>> /\ ~cancelled
      /\ UNCHANGED <<fs, tree, mgr, place, cancelled, disc, result, out>>
  BY DEF WriteDataEnd
<1>2. /\ result # "OK" /\ pc \in Late /\ DiscOf(tree, disc) /\ AsPlanned(tree, mgr, place, disc)
      /\ AtFiles(<<>>, <<>>, out) /\ mgr.dataStart \in Nat /\ mgr.dataStart >= 16
  BY <1>1, DataKnown
<1> DEFINE last == mgr.dataStart + mgr.dataLen
<1>3. FilesAt(fs, tree, place, disc.data, mgr.dataStart, last, <<>>, <<>>, out)
  BY <1>2 DEF AtFiles
<1> HIDE DEF last
<1>4. AllStored(fs, tree, place, disc.data, mgr.dataStart, last) /\ StreamAt(out, last)
  BY <1>2, <1>3, FilesAtEnd
<1>5. /\ AllStored(fs, tree, place, disc.data, mgr.dataStart, mgr.dataStart + mgr.dataLen)'
      /\ StreamAt(out, mgr.dataStart + mgr.dataLen)'
  BY <1>1, <1>4 DEF last
<1>6. Storing'
  BY <1>1, <1>2, <1>5 DEF Storing
<1>7. DiscOf(tree, disc)' /\ (Sure' => AsPlanned(tree, mgr, place, disc)')
  BY <1>1, <1>2
<1> QED
  BY <1>1, <1>2, <1>6, <1>7, WriteKept

(* The image is done.                                                      *)
LEMMA WriteTailPlaces ==
  ASSUME TypeInv, PlacesInv, WriteTail
  PROVE  PlacesInv'
<1> USE DEF Return, planning
<1>1. /\ pc = "tail" /\ pc' = "end" /\ result' = "OK"
      /\ UNCHANGED <<fs, tree, mgr, place, cancelled>>
      /\ disc' = disc \/ disc' = [disc EXCEPT !.tail = Now(out)]
  BY DEF WriteTail
<1>2. result # "OK" /\ pc \in Late
  BY <1>1 DEF TypeInv, TypeOK, Late
<1>3. /\ DiscOf(tree, disc) /\ AsPlanned(tree, mgr, place, disc)
      /\ AllStored(fs, tree, place, disc.data, mgr.dataStart, mgr.dataStart + mgr.dataLen)
  BY <1>1 DEF PlacesInv, Storing, Sure
<1>4. RegionsOnly(disc, disc') /\ disc'.region = disc.region /\ disc'.data = disc.data
  <2>1. DOMAIN disc' = DOMAIN disc /\ {"dir", "jdir", "data", "region"} \subseteq DOMAIN disc
    BY <1>1, <1>3 DEF DiscOf
  <2> QED  BY <1>1, <2>1 DEF RegionsOnly
<1>5. DiscOf(tree, disc') /\ AsPlanned(tree, mgr, place, disc')
  BY <1>3, <1>4, RegionsWritten
<1>6. AllStored(fs, tree, place, disc.data, mgr.dataStart, mgr.dataStart + mgr.dataLen)'
  BY <1>1, <1>3, <1>4
<1>7. Storing'
  BY <1>1, <1>6 DEF Storing
<1>8. DiscOf(tree, disc)' /\ (Sure' => AsPlanned(tree, mgr, place, disc)')
  BY <1>1, <1>5
<1> QED
  BY <1>1, <1>2, <1>7, <1>8, WriteKept

(* The other steps: somebody asks to stop, or changes a file, or takes a   *)
(* boot image away.                                                        *)
LEMMA OtherPlaces ==
  ASSUME Sound(fs, tree), TypeInv, PlacesInv,
         SeeCancel \/ BootImageLost \/ RequestCancel \/ ChangeFile \/ Returned \/ UNCHANGED vars
  PROVE  PlacesInv'
<1> USE DEF Return, planning, writing
<1>1. CASE SeeCancel
  <2>1. /\ pc = "write data" /\ pc' = "end" /\ result' = "CANCEL"
        /\ UNCHANGED <<fs, tree, mgr, place, cancelled, disc>>
    BY <1>1 DEF SeeCancel
  <2>2. result # "OK" /\ pc \in Late
    BY <2>1, DataKnown
  <2>3. Sure' => Sure
    BY <2>1 DEF Sure
  <2> QED  BY <2>1, <2>2, <2>3, DataEnds
<1>2. CASE RequestCancel \/ ChangeFile \/ Returned \/ UNCHANGED vars
  <2>1. /\ UNCHANGED <<fs, tree, pc, work, cur, mgr, sec, place, udf, part, out, disc, result>>
        /\ cancelled' = cancelled \/ cancelled' = TRUE
    BY <1>2 DEF RequestCancel, ChangeFile, Returned, vars
  <2>2. Sure' => Sure
    BY <2>1 DEF Sure
  <2>3. Planned(fs, tree, mgr, place)' = Planned(fs, tree, mgr, place)
    BY <2>1
  <2>4. DiscOf(tree, disc)' /\ (pc' \in Early => Untouched(tree, disc)')
    BY <2>1 DEF PlacesInv
  <2>5. Reserving'
    BY <2>1 DEF PlacesInv, Reserving
  <2>6. Ending' = Ending
    BY <2>1 DEF Ending
  <2>7. Storing
    BY DEF PlacesInv
  <2>8. Storing'
    BY <2>1, <2>2, <2>6, <2>7 DEF Storing
  <2>9. (Sure => AsPlanned(tree, mgr, place, disc))'
    BY <2>1, <2>2 DEF PlacesInv
  <2> QED  BY <2>4, <2>5, <2>8, <2>9 DEF PlacesInv
<1>3. CASE BootImageLost
  <2>1. /\ pc = "write header" /\ pc' = "end" /\ result' = "FAIL"
        /\ UNCHANGED <<fs, tree, mgr, place, cancelled, disc>>
    BY <1>3 DEF BootImageLost, Fail
  <2>2. result # "OK" /\ pc \in Late
    BY <2>1 DEF TypeInv, TypeOK, Late
  <2>3. Sure' => Sure
    BY <2>1, <2>2 DEF Sure
  <2> QED  BY <2>1, <2>2, <2>3, DataEnds
<1> QED
  BY <1>1, <1>2, <1>3

(* Every step keeps the plan and what was written by it.                   *)
LEMMA PlacesStep ==
  ASSUME Sound(fs, tree), TypeInv, EntriesInv, PlacesInv, [Next]_vars
  PROVE  PlacesInv'
<1>1. CASE Reserve
  BY <1>1, ReservePlaces
<1>2. CASE Write
  BY <1>2, WriteHeaderPlaces, WriteUdfPlaces, WriteEntryPlaces, WriteEntriesEndPlaces,
     WriteTablesPlaces, WriteDirEntryPlaces, WriteDirsEndPlaces, OpenDirPlaces, OtherPlaces,
     SkipChildPlaces, WriteFilePlaces, CloseDirPlaces, WriteDataEndPlaces, WriteTailPlaces DEF Write
<1> QED
  BY <1>1, <1>2, OtherPlaces DEF Next

(* What path tables, directory records, descriptors and file entries say   *)
(* of a place is where the writing pass puts it, if no request to cancel   *)
(* comes between: for every tree on which the passes agree and that fits   *)
(* the counters of sectors.                                                *)
THEOREM PlacesAreRecorded ==
  ASSUME \A input \in Inputs : Regular(input.fs, input.tree) /\ Fits(input.fs, input.tree)
  PROVE  Spec => []PlacedAsRecorded
<1> DEFINE IInv == TypeInv /\ EntriesInv /\ PlacesInv
<1>1. AllRegular /\ AllFit
  BY DEF AllRegular, AllFit
<1>2. Init => IInv
  BY InitTyped, InitEntries, InitPlaces
<1>3. IInv /\ [Next]_vars => IInv'
  <2> SUFFICES ASSUME IInv, [Next]_vars PROVE IInv'
    OBVIOUS
  <2>1. Sound(fs, tree)
    BY <1>1, InputSound
  <2>2. TypeInv'
    BY TypesKept
  <2>3. EntriesInv'
    BY <1>1, EntriesStep
  <2>4. PlacesInv'
    BY <2>1, PlacesStep
  <2> QED  BY <2>2, <2>3, <2>4
<1>4. IInv => PlacedAsRecorded
  <2> SUFFICES ASSUME PlacesInv, Trusted PROVE PlacedAsRecorded
    BY DEF PlacedAsRecorded
  <2>1. AsPlanned(tree, mgr, place, disc)
    BY DEF PlacesInv, Sure, Trusted
  <2> QED  BY <2>1 DEF AsPlanned, PlacedAsRecorded, GetStart
<1> QED
  BY <1>2, <1>3, <1>4, PTL DEF Spec

-----------------------------------------------------------------------------
(* Booting: what the boot record and the catalog state.                    *)

AfterHeader ==
  \/ pc \in {"write udf", "write entries", "write tables", "write dirs", "write data", "tail"}
  \/ result = "OK"

BootStated ==
  IF fs.extended
  THEN /\ boot.record = place[fs.catalog].normal
       /\ \A i \in DOMAIN fs.images : boot.images[i] = place[fs.images[i].node].normal
  ELSE boot.record = disc.region["bootcatalog"] /\ boot.images = disc.image

BootInv ==
  /\ {"region", "image"} \subseteq DOMAIN disc
  /\ fs.images # <<>> /\ IsIso(fs) /\ AfterHeader => BootStated

(* Nothing is stated yet.                                                  *)
LEMMA InitBoot == Init => BootInv
<1> SUFFICES ASSUME Init PROVE BootInv
  OBVIOUS
<1>1. pc = "tree" /\ result = "none" /\ {"region", "image"} \subseteq DOMAIN disc
  BY DEF Init
<1> QED
  BY <1>1 DEF BootInv, AfterHeader

(* Nothing but the header says where to boot from.                         *)
LEMMA BootKept ==
  ASSUME BootInv, UNCHANGED <<fs, place, boot>>, AfterHeader' => AfterHeader,
         {"region", "image"} \subseteq DOMAIN disc',
         disc'.image = disc.image, disc'.region["bootcatalog"] = disc.region["bootcatalog"]
  PROVE  BootInv'
  BY DEF BootInv, BootStated

(* With the images in the header, the entries of the catalog are where     *)
(* they go, and so is the catalog.                                         *)
LEMMA HeaderInside ==
  ASSUME Sound(fs, tree), TypeInv, EntriesInv, PlacesInv, WriteHeader,
         IsIso(fs), ~fs.extended, fs.images # <<>>, {"region", "image"} \subseteq DOMAIN disc
  PROVE  /\ boot'.record = disc'.region["bootcatalog"] /\ boot'.images = disc'.image
         /\ {"region", "image"} \subseteq DOMAIN disc'
<1> USE DEF Goto, planning
<1> DEFINE record == <<GetStart(mgr, "bootcatalog")>>
           volumes == VolumeDescriptors(mgr, fs, tree, TableDirs, place[Root], record)
           count == Len(volumes)
           behind == WriteBootCatalog(WriteSectors(out, count), fs.images)
           inside == WriteBootImages(behind, fs.images)
           many == Descriptors(fs)
           catalog == BytesToSec(BootCatSize(fs.images))
           images == [i \in DOMAIN inside.at |-> 16 + inside.at[i]]
<1>1. /\ disc' = [disc EXCEPT !.region["descriptors"] = Now(out),
                              !.region["bootcatalog"] = Now(out) + count,
                              !.region["bootdata"]    = 16 + inside.at[1],
                              !.image = images]
      /\ boot' = [record  |-> record[1],
                  images  |-> BootImagePos(fs.images, GetStart(mgr, "bootdata")),
                  catalog |-> "written"]
  BY DEF WriteHeader
<1>2. pc = "write header" /\ out = NewStream /\ HeaderLaid(mgr, fs) /\ DiscOf(tree, disc)
  BY DEF WriteHeader, EntriesInv, Prepared, PlacesInv, Reserving, Planned, Late
<1>3. NamedTree(tree) /\ AreImages(fs.images) /\ Regular(fs, tree)
  BY DEF Sound
<1>4. /\ mgr.start["bootcatalog"] = 16 + many
      /\ mgr.start["bootdata"] = 16 + many + catalog
  BY <1>2 DEF HeaderLaid
<1>5. count = many
  <2>1. record = IF fs.images = <<>> THEN <<>>
                 ELSE IF ~fs.extended THEN <<GetStart(mgr, "bootcatalog")>>
                 ELSE IF InTree(fs.catalog) THEN <<place[fs.catalog].normal>> ELSE <<>>
    OBVIOUS
  <2> HIDE DEF record
  <2> QED  BY <2>1, HeaderCount
<1>6. many \in Nat /\ catalog \in Nat
  <2>1. many \in 2 .. 5 /\ catalog \in Nat
    BY <1>3, StartsNat
  <2> HIDE DEF many
  <2> QED  BY <2>1
<1>7. Now(out) = 16
  <2>1. out.sector = 0
    BY <1>2 DEF NewStream
  <2> QED  BY <2>1 DEF Now
<1> HIDE DEF volumes, count, record, many, catalog
<1>8. behind = At(many + catalog)
  <2>1. WriteSectors(out, count) = At(many)
    <3>1. WriteSectors(out, many) = At(many)
      BY <1>2, <1>3, HeaderWritten DEF many
    <3> QED  BY <1>5, <3>1
  <2>2. BootCatSize(fs.images) \in Nat
    BY <1>3, ImagesSize
  <2> QED  BY <1>6, <2>1, <2>2, PaddedBytes DEF WriteBootCatalog, catalog
<1> DEFINE c == many + catalog
<1>9. c \in Nat /\ inside = WriteBootImages(At(c), fs.images)
  BY <1>6, <1>8
<1> HIDE DEF c, inside, images
<1>10. /\ inside.at = BootImagePos(fs.images, c)
       /\ DOMAIN BootImagePos(fs.images, c) = 1 .. Len(fs.images)
       /\ \A i \in 1 .. Len(fs.images) : BootImagePos(fs.images, 16 + c)[i] = 16 + BootImagePos(fs.images, c)[i]
  BY <1>3, <1>9, ImagesPlaced
<1>11. images = BootImagePos(fs.images, 16 + c)
  <2>1. images = [i \in 1 .. Len(fs.images) |-> 16 + BootImagePos(fs.images, c)[i]]
    BY <1>10 DEF images
  <2>2. images = [i \in 1 .. Len(fs.images) |-> BootImagePos(fs.images, 16 + c)[i]]
    BY <1>10, <2>1
  <2>3. BootImagePos(fs.images, 16 + c) = [i \in 1 .. Len(fs.images) |-> BootImagePos(fs.images, 16 + c)[i]]
    BY DEF BootImagePos
  <2> QED  BY <2>2, <2>3
<1>12. GetStart(mgr, "bootdata") = 16 + c /\ record[1] = 16 + many
  <2>1. 16 + many + catalog = 16 + c
    BY <1>6 DEF c
  <2> QED  BY <1>4, <2>1 DEF GetStart, record
<1>13. DOMAIN disc.region = Regions /\ "bootcatalog" \in Regions
  BY <1>2, RegionsHave DEF DiscOf
<1> DEFINE first == inside.at[1]
           start == BootImagePos(fs.images, GetStart(mgr, "bootdata"))
<1>14. /\ disc' = [disc EXCEPT !.region["descriptors"] = Now(out),
                               !.region["bootcatalog"] = Now(out) + count,
                               !.region["bootdata"]    = 16 + first,
                               !.image = images]
       /\ boot' = [record |-> record[1], images |-> start, catalog |-> "written"]
  BY <1>1
<1>15. start = images
  BY <1>11, <1>12
<1> HIDE DEF first, start
<1>16. /\ disc'.image = images /\ disc'.region["bootcatalog"] = Now(out) + count
       /\ {"region", "image"} \subseteq DOMAIN disc'
  BY <1>13, <1>14
<1>17. boot'.record = 16 + many /\ boot'.images = images
  BY <1>12, <1>14, <1>15
<1>18. Now(out) + count = 16 + many
  BY <1>5, <1>7
<1> QED
  BY <1>16, <1>17, <1>18

(* In extended mode they are the places of files of the tree.              *)
LEMMA HeaderOfTree ==
  ASSUME Sound(fs, tree), WriteHeader,
         IsIso(fs), fs.extended, fs.images # <<>>, {"region", "image"} \subseteq DOMAIN disc
  PROVE  /\ boot'.record = place[fs.catalog].normal
         /\ \A i \in DOMAIN fs.images : boot'.images[i] = place[fs.images[i].node].normal
         /\ {"region", "image"} \subseteq DOMAIN disc'
<1> USE DEF Goto, planning
<1>1. InTree(fs.catalog) /\ \A i \in DOMAIN fs.images : InTree(fs.images[i].node)
  <2>1. \A n \in {fs.catalog} \cup {fs.images[i].node : i \in DOMAIN fs.images} :
          n \in ReachedFiles(tree, GetMaxDirLevel(fs))
    BY DEF Sound, Regular
  <2> QED  BY <2>1 DEF ReachedFiles, InTree
<1> DEFINE record == <<place[fs.catalog].normal>>
           volumes == VolumeDescriptors(mgr, fs, tree, TableDirs, place[Root], record)
           images == [i \in DOMAIN fs.images |-> IF InTree(fs.images[i].node)
                                                 THEN place[fs.images[i].node].normal ELSE 0]
<1>2. /\ disc' = [disc EXCEPT !.region["descriptors"] = Now(out)]
      /\ \E written \in BOOLEAN :
           boot' = [record  |-> IF record # <<>> THEN record[1] ELSE NotYet,
                    images  |-> images,
                    catalog |-> IF record # <<>> /\ written THEN "written" ELSE "none"]
  BY <1>1 DEF WriteHeader
<1>3. record # <<>> /\ record[1] = place[fs.catalog].normal
  OBVIOUS
<1>4. \A i \in DOMAIN fs.images : images[i] = place[fs.images[i].node].normal
  BY <1>1
<1> HIDE DEF record, images
<1>5. boot'.record = record[1] /\ boot'.images = images
  BY <1>2, <1>3
<1> QED
  BY <1>2, <1>3, <1>4, <1>5

(* The header states the places.                                           *)
LEMMA WriteHeaderBoot ==
  ASSUME Sound(fs, tree), TypeInv, EntriesInv, PlacesInv, BootInv, WriteHeader
  PROVE  BootInv'
<1> USE DEF Goto, planning
<1>1. UNCHANGED <<fs, place>> /\ {"region", "image"} \subseteq DOMAIN disc
  BY DEF WriteHeader, BootInv, Fail, Return
<1>2. CASE fs.images # <<>> /\ IsIso(fs) /\ fs.extended
  <2>1. /\ boot'.record = place[fs.catalog].normal
        /\ \A i \in DOMAIN fs.images : boot'.images[i] = place[fs.images[i].node].normal
        /\ {"region", "image"} \subseteq DOMAIN disc'
    BY <1>1, <1>2, HeaderOfTree
  <2> QED  BY <1>1, <1>2, <2>1 DEF BootInv, BootStated
<1>3. CASE fs.images # <<>> /\ IsIso(fs) /\ ~fs.extended
  <2>1. /\ boot'.record = disc'.region["bootcatalog"] /\ boot'.images = disc'.image
        /\ {"region", "image"} \subseteq DOMAIN disc'
    BY <1>1, <1>3, HeaderInside
  <2> QED  BY <1>1, <1>3, <2>1 DEF BootInv, BootStated
<1>4. CASE ~(fs.images # <<>> /\ IsIso(fs))
  <2>1. disc' = disc \/ disc' = [disc EXCEPT !.region["descriptors"] = Now(out)]
    BY <1>4 DEF WriteHeader, Fail, Return, writing
  <2>2. {"region", "image"} \subseteq DOMAIN disc'
    BY <1>1, <2>1
  <2> QED  BY <1>1, <1>4, <2>2 DEF BootInv
<1> QED
  BY <1>2, <1>3, <1>4

(* The steps that write, but for the header.                               *)
LEMMA WritesKeepBoot ==
  ASSUME PlacesInv, BootInv, WriteUdf \/ WriteEntry \/ WriteTables \/ WriteDirEntry \/ WriteFile \/ WriteTail
  PROVE  BootInv'
<1> USE DEF Goto, planning
<1>1. {"region", "image"} \subseteq DOMAIN disc /\ "bootcatalog" \in DOMAIN disc.region
  BY RegionsHave DEF BootInv, PlacesInv, DiscOf
<1>2. CASE WriteUdf
  <2>1. UNCHANGED <<fs, place, boot, result>> /\ pc = "write udf"
    BY <1>2 DEF WriteUdf
  <2>2. /\ {"region", "image"} \subseteq DOMAIN disc' /\ disc'.image = disc.image
        /\ disc'.region["bootcatalog"] = disc.region["bootcatalog"]
    <3>1. CASE ~IsUdf(fs)
      <4>1. disc' = disc
        BY <1>2, <3>1 DEF WriteUdf
      <4> QED  BY <1>1, <4>1
    <3>2. CASE IsUdf(fs)
      <4> DEFINE main == WriteSectors(out, 3)
                 anchor == WriteSectors(main, MainSectors(GetStart(mgr, "main")))
                 a == Now(out)
                 b == Now(main)
                 c == <<Now(WriteSectors(main, 2)), Now(WriteSectors(main, 2 + MainSequence))>>
                 d == Now(anchor)
                 e == Now(anchor) + 2
      <4>a. disc' = [disc EXCEPT !.region["initial"] = a, !.region["main"] = b,
                                 !.volumes = c, !.anchor = d, !.region["fileset"] = e]
        BY <1>2, <3>2 DEF WriteUdf
      <4> HIDE DEF main, anchor, a, b, c, d, e
      <4>1. DOMAIN disc' = DOMAIN disc
        BY <4>a
      <4>2. disc'.image = disc.image
        BY <1>1, <4>a
      <4>3. disc'.region["bootcatalog"] = disc.region["bootcatalog"]
        <5> DEFINE k == [disc EXCEPT !.region["initial"] = a]
                   l == [k EXCEPT !.region["main"] = b]
                   m == [l EXCEPT !.volumes = c]
                   n == [m EXCEPT !.anchor = d]
        <5>1. DOMAIN k = DOMAIN disc /\ k.region["bootcatalog"] = disc.region["bootcatalog"]
              /\ DOMAIN k.region = DOMAIN disc.region
          BY <1>1
        <5>2. disc' = [n EXCEPT !.region["fileset"] = e]
          BY <4>a
        <5> HIDE DEF k
        <5>3. DOMAIN l = DOMAIN k /\ l.region["bootcatalog"] = k.region["bootcatalog"]
              /\ DOMAIN l.region = DOMAIN k.region
          BY <1>1, <5>1
        <5> HIDE DEF l
        <5>4. DOMAIN m = DOMAIN l /\ m.region = l.region
          BY <1>1, <5>1, <5>3
        <5> HIDE DEF m
        <5>5. DOMAIN n = DOMAIN m /\ n.region = m.region
          BY <1>1, <5>1, <5>3, <5>4
        <5> HIDE DEF n
        <5>6. disc'.region["bootcatalog"] = n.region["bootcatalog"]
          BY <1>1, <5>1, <5>2, <5>3, <5>4, <5>5
        <5> QED  BY <5>1, <5>3, <5>4, <5>5, <5>6
      <4> QED  BY <1>1, <4>1, <4>2, <4>3
    <3> QED  BY <3>1, <3>2
  <2> QED  BY <2>1, <2>2, BootKept DEF AfterHeader
<1>3. CASE WriteEntry
  <2>1. UNCHANGED <<fs, place, boot>> /\ pc = "write entries"
    BY <1>3 DEF WriteEntry, Fail, Return, writing
  <2>2. disc' = disc \/ disc' = [disc EXCEPT !.entry[Head(work)] = Now(out), !.tag[Head(work)] = part.sec]
    <3>1. CASE EntryRefused(Head(work))
      BY <1>3, <3>1 DEF WriteEntry, Fail, Return, writing
    <3>2. CASE ~EntryRefused(Head(work))
      BY <1>3, <3>2 DEF WriteEntry
    <3> QED  BY <3>1, <3>2
  <2>3. /\ {"region", "image"} \subseteq DOMAIN disc' /\ disc'.image = disc.image
        /\ disc'.region["bootcatalog"] = disc.region["bootcatalog"]
    BY <1>1, <2>2
  <2> QED  BY <2>1, <2>3, BootKept DEF AfterHeader
<1>4. CASE WriteTables
  <2>1. UNCHANGED <<fs, place, boot>> /\ pc = "write tables"
    BY <1>4 DEF WriteTables
  <2>2. \/ disc' = disc
        \/ \E r : disc' = [disc EXCEPT !.region = r] /\ r["bootcatalog"] = disc.region["bootcatalog"]
    <3> DEFINE l  == WritePathTable(out, fs, tree, TableDirs, FALSE)
               m  == WritePathTable(l, fs, tree, TableDirs, FALSE)
               jl == WritePathTable(m, fs, tree, TableDirs, TRUE)
               normal == [disc.region EXCEPT !["path L"] = Now(out), !["path M"] = Now(l)]
               both == [normal EXCEPT !["joliet path L"] = Now(m), !["joliet path M"] = Now(jl)]
    <3>1. disc' = disc \/ disc' = [disc EXCEPT !.region = both] \/ disc' = [disc EXCEPT !.region = normal]
      BY <1>4 DEF WriteTables
    <3> HIDE DEF l, m, jl
    <3>2. normal["bootcatalog"] = disc.region["bootcatalog"] /\ both["bootcatalog"] = disc.region["bootcatalog"]
      BY <1>1
    <3> HIDE DEF normal, both
    <3> QED  BY <3>1, <3>2
  <2>3. /\ {"region", "image"} \subseteq DOMAIN disc' /\ disc'.image = disc.image
        /\ disc'.region["bootcatalog"] = disc.region["bootcatalog"]
    BY <1>1, <2>2
  <2> QED  BY <2>1, <2>3, BootKept DEF AfterHeader
<1>5. CASE WriteDirEntry
  <2>1. UNCHANGED <<fs, place, boot>> /\ pc = "write dirs"
    BY <1>5 DEF WriteDirEntry
  <2> DEFINE normal == WriteDir(out, fs, tree, Top, Level_, FALSE)
             first  == OneForm(disc, Top, Now(out))
  <2>2. disc' = disc \/ disc' = first \/ disc' = [first EXCEPT !.jdir[Top] = Now(normal)]
    BY <1>5 DEF WriteDirEntry, OneForm
  <2>3. /\ {"region", "image"} \subseteq DOMAIN first /\ first.image = disc.image
        /\ first.region["bootcatalog"] = disc.region["bootcatalog"]
    BY <1>1 DEF OneForm
  <2> HIDE DEF first, normal
  <2>4. /\ {"region", "image"} \subseteq DOMAIN disc' /\ disc'.image = disc.image
        /\ disc'.region["bootcatalog"] = disc.region["bootcatalog"]
    BY <1>1, <2>2, <2>3
  <2> QED  BY <2>1, <2>4, BootKept DEF AfterHeader
<1>6. CASE WriteFile
  <2>1. UNCHANGED <<fs, place, boot>> /\ pc = "write data"
    BY <1>6 DEF WriteFile, AtChild, Fail, Return, writing
  <2>2. disc' = disc \/ disc' = [disc EXCEPT !.data[Child] = Now(out)]
    BY <1>6 DEF WriteFile, Fail, Return, writing
  <2>3. /\ {"region", "image"} \subseteq DOMAIN disc' /\ disc'.image = disc.image
        /\ disc'.region["bootcatalog"] = disc.region["bootcatalog"]
    BY <1>1, <2>2
  <2> QED  BY <2>1, <2>3, BootKept DEF AfterHeader
<1>7. CASE WriteTail
  <2>1. UNCHANGED <<fs, place, boot>> /\ pc = "tail"
    BY <1>7 DEF WriteTail, Return
  <2>2. disc' = disc \/ disc' = [disc EXCEPT !.tail = Now(out)]
    BY <1>7 DEF WriteTail, Return
  <2>3. /\ {"region", "image"} \subseteq DOMAIN disc' /\ disc'.image = disc.image
        /\ disc'.region["bootcatalog"] = disc.region["bootcatalog"]
    BY <1>1, <2>2
  <2> QED  BY <2>1, <2>3, BootKept DEF AfterHeader
<1> QED
  BY <1>2, <1>3, <1>4, <1>5, <1>6, <1>7

(* The other steps.                                                        *)
LEMMA OthersKeepBoot ==
  ASSUME BootInv,
         \/ Reserve \/ WriteEntriesEnd \/ WriteDirsEnd \/ OpenDir \/ SeeCancel \/ SkipChild
         \/ CloseDir \/ WriteDataEnd \/ BootImageLost \/ RequestCancel \/ ChangeFile \/ Returned \/ UNCHANGED vars,
         TypeInv
  PROVE  BootInv'
<1> USE DEF Goto, planning, writing
<1>1. {"region", "image"} \subseteq DOMAIN disc
  BY DEF BootInv
<1>2. CASE Reserve
  <2>1. UNCHANGED <<fs, disc>>
    BY <1>2 DEF Reserve, CreateTree, Fail, Return, AllocHeader, AllocTables, AllocDir, AllocDirsEnd,
              PlaceFiles, PlaceFilesEnd
  <2>2. result # "OK"
    <3>1. pc # "end"
      BY <1>2 DEF Reserve, CreateTree, AllocHeader, AllocTables, AllocDir, AllocDirsEnd,
                PlaceFiles, PlaceFilesEnd
    <3> QED  BY <3>1 DEF TypeInv, TypeOK
  <2>3. ~AfterHeader'
    <3>1. CASE CreateTree
      BY <2>2, <3>1 DEF CreateTree, Fail, Return, AfterHeader
    <3>2. CASE ~CreateTree
      <4>1. result' = result /\ pc' \in {"tables", "dirs", "files", "write header"}
        BY <1>2, <3>2 DEF Reserve, AllocHeader, AllocTables, AllocDir, AllocDirsEnd,
                        PlaceFiles, PlaceFilesEnd
      <4> QED  BY <2>2, <4>1 DEF AfterHeader
    <3> QED  BY <3>1, <3>2
  <2> QED  BY <1>1, <2>1, <2>3 DEF BootInv
<1>3. CASE WriteEntriesEnd \/ WriteDirsEnd \/ OpenDir \/ SeeCancel \/ SkipChild \/ CloseDir \/ WriteDataEnd
  <2>1. /\ UNCHANGED <<fs, place, boot, disc>>
        /\ pc \in {"write entries", "write dirs", "write data"}
    BY <1>3 DEF WriteEntriesEnd, WriteDirsEnd, OpenDir, SeeCancel, SkipChild, CloseDir, WriteDataEnd,
              AtChild, Return
  <2>2. AfterHeader' => AfterHeader
    BY <2>1 DEF AfterHeader
  <2> QED  BY <1>1, <2>1, <2>2, BootKept
<1>4. CASE RequestCancel \/ ChangeFile \/ Returned \/ UNCHANGED vars
  <2>1. UNCHANGED <<fs, place, boot, disc, pc, result>>
    BY <1>4 DEF RequestCancel, ChangeFile, Returned, vars
  <2>2. AfterHeader' => AfterHeader
    BY <2>1 DEF AfterHeader
  <2> QED  BY <1>1, <2>1, <2>2, BootKept
<1>5. CASE BootImageLost
  <2>1. /\ UNCHANGED <<fs, disc>> /\ pc' = "end" /\ result' = "FAIL"
    BY <1>5 DEF BootImageLost, Fail, Return
  <2> QED  BY <1>1, <2>1 DEF BootInv, AfterHeader
<1> QED
  BY <1>2, <1>3, <1>4, <1>5

(* Every step keeps what is stated of booting.                             *)
LEMMA BootStep ==
  ASSUME Sound(fs, tree), TypeInv, EntriesInv, PlacesInv, BootInv, [Next]_vars
  PROVE  BootInv'
<1>1. CASE WriteHeader
  BY <1>1, WriteHeaderBoot
<1>2. CASE WriteUdf \/ WriteEntry \/ WriteTables \/ WriteDirEntry \/ WriteFile \/ WriteTail
  BY <1>2, WritesKeepBoot
<1>3. CASE \/ Reserve \/ WriteEntriesEnd \/ WriteDirsEnd \/ OpenDir \/ SeeCancel \/ SkipChild
           \/ CloseDir \/ WriteDataEnd \/ BootImageLost \/ RequestCancel \/ ChangeFile \/ Returned \/ UNCHANGED vars
  BY <1>3, OthersKeepBoot
<1> QED
  BY <1>1, <1>2, <1>3 DEF Next, Write

(* What is stated is where it went, once everything is stored.             *)
LEMMA BootsFromStored ==
  ASSUME Sound(fs, tree), PlacesInv, BootInv
  PROVE  BootsFromImage
<1> SUFFICES ASSUME result = "OK", fs.images # <<>>, IsIso(fs)
             PROVE  IF fs.extended
                    THEN /\ boot.record = disc.data[fs.catalog]
                         /\ \A i \in DOMAIN fs.images : boot.images[i] = disc.data[fs.images[i].node]
                    ELSE boot.record = disc.region["bootcatalog"] /\ boot.images = disc.image
  BY DEF BootsFromImage
<1>1. BootStated
  BY DEF BootInv, AfterHeader
<1>2. AllStored(fs, tree, place, disc.data, mgr.dataStart, mgr.dataStart + mgr.dataLen)
  BY DEF PlacesInv, Storing
<1>3. \A x \in ReachedFiles(tree, GetMaxDirLevel(fs)) \cap Kept(fs, tree) : disc.data[x] = place[x].normal
  BY <1>2, StoredFiles
<1>4. CASE fs.extended
  <2>1. \A n \in {fs.catalog} \cup {fs.images[i].node : i \in DOMAIN fs.images} :
          n \in ReachedFiles(tree, GetMaxDirLevel(fs)) \cap Kept(fs, tree)
    <3>1. \A n \in {fs.catalog} \cup {fs.images[i].node : i \in DOMAIN fs.images} :
            /\ n \in ReachedFiles(tree, GetMaxDirLevel(fs))
            /\ tree.size[n] <= MaxExtent \/ AllowsFragmentation(fs) \/ IsUdf(fs)
      BY <1>4 DEF Sound, Regular
    <3>2. \A n \in ReachedFiles(tree, GetMaxDirLevel(fs)) : n \in Files(tree) /\ tree.size[n] \in Nat
      BY DEF ReachedFiles, Sound, NamedTree, AreSizes
    <3>3. MaxExtent \in Nat
      BY MaxExtentAssumption
    <3> QED  BY <3>1, <3>2, <3>3 DEF Kept
  <2> QED  BY <1>1, <1>3, <1>4, <2>1 DEF BootStated
<1>5. CASE ~fs.extended
  BY <1>1, <1>5 DEF BootStated
<1> QED
  BY <1>4, <1>5

(* The boot record and the catalog say where the catalog and the images    *)
(* are, in both modes: for every tree on which the passes agree.           *)
THEOREM BootPlacesHold ==
  ASSUME \A input \in Inputs : Regular(input.fs, input.tree) /\ Fits(input.fs, input.tree)
  PROVE  Spec => []BootsFromImage
<1> DEFINE IInv == TypeInv /\ EntriesInv /\ PlacesInv /\ BootInv
<1>1. AllRegular /\ AllFit
  BY DEF AllRegular, AllFit
<1>2. Init => IInv
  BY InitTyped, InitEntries, InitPlaces, InitBoot
<1>3. IInv /\ [Next]_vars => IInv'
  <2> SUFFICES ASSUME IInv, [Next]_vars PROVE IInv'
    OBVIOUS
  <2>1. Sound(fs, tree)
    BY <1>1, InputSound
  <2>2. TypeInv'
    BY TypesKept
  <2>3. EntriesInv'
    BY <1>1, EntriesStep
  <2>4. PlacesInv'
    BY <2>1, PlacesStep
  <2>5. BootInv'
    BY <2>1, BootStep
  <2> QED  BY <2>2, <2>3, <2>4, <2>5
<1>4. IInv => BootsFromImage
  <2> SUFFICES ASSUME TypeInv, PlacesInv, BootInv PROVE BootsFromImage
    OBVIOUS
  <2>1. Sound(fs, tree)
    BY <1>1, InputSound
  <2> QED  BY <2>1, BootsFromStored
<1> QED
  BY <1>2, <1>3, <1>4, PTL DEF Spec

-----------------------------------------------------------------------------
(* Every node gets an entry, and every file is stored.                     *)

AfterEntries ==
  pc \in {"write tables", "write dirs", "write data", "tail"} \/ result = "OK"

(* What has its entry or waits for it: the root, and what is in a          *)
(* directory that has its own.                                             *)
Reaching ==
  /\ Root \in Visited \cup Range(work)
  /\ \A d \in Visited \cap Dirs(tree) : Range(tree.kids[d]) \subseteq Visited \cup Range(work)

WalkInv ==
  /\ \A n \in Visited : disc.entry[n] # NotYet
  /\ pc = "write entries" => Reaching
  /\ IsUdf(fs) /\ AfterEntries => Visited = Nodes(tree)

(* When nothing waits, every node has its entry.                           *)
LEMMA AllVisited ==
  ASSUME IsTree(tree), IsFiniteSet(Dirs(tree)), Reaching, work = <<>>
  PROVE  Visited = Nodes(tree)
<1>1. Range(work) = {}
  BY DEF Range
<1>2. Root \in Visited /\ \A d \in Visited \cap Dirs(tree) : Range(tree.kids[d]) \subseteq Visited
  BY <1>1 DEF Reaching
<1> DEFINE S == Dirs(tree) \ Visited
<1>3. S = {}
  <2> SUFFICES ASSUME S # {} PROVE FALSE
    OBVIOUS
  <2>1. S \in SUBSET Dirs(tree) /\ Root \notin S
    BY <1>2
  <2>2. \A d \in S : d \in Nodes(tree) \ {Root}
    BY <1>2 DEF Nodes
  <2> HIDE DEF S
  <2>3. PICK d \in S : Parent(tree, d) \in Dirs(tree) \ S
    BY <2>1, OutsideIn
  <2>4. Parent(tree, d) \in Dirs(tree) /\ d \in Range(tree.kids[Parent(tree, d)])
    BY <2>2, ParentKnown
  <2>5. Parent(tree, d) \in Visited
    BY <2>3 DEF S
  <2>6. d \in Visited
    BY <1>2, <2>4, <2>5
  <2> QED  BY <2>6 DEF S
<1>4. \A n \in Nodes(tree) : n \in Visited
  <2> TAKE n \in Nodes(tree)
  <2>1. CASE n = Root
    BY <1>2, <2>1
  <2>2. CASE n # Root
    <3>1. n \in Nodes(tree) \ {Root}
      BY <2>2
    <3>2. Parent(tree, n) \in Dirs(tree) /\ n \in Range(tree.kids[Parent(tree, n)])
      BY <3>1, ParentKnown
    <3>3. Parent(tree, n) \in Visited
      BY <1>3, <3>2
    <3> QED  BY <1>2, <3>2, <3>3
  <2> QED  BY <2>1, <2>2
<1> QED
  BY <1>4 DEF Visited

(* No node has an entry yet, and none waits for one.                       *)
LEMMA InitWalk == Init => WalkInv
<1> SUFFICES ASSUME Init PROVE WalkInv
  OBVIOUS
<1>1. pc = "tree" /\ result = "none" /\ \A n \in Nodes(tree) : udf[n].ident = NotYet
  BY DEF Init
<1>2. Visited = {}
  BY <1>1 DEF Visited
<1> QED
  BY <1>1, <1>2 DEF WalkInv, AfterEntries

(* A step that writes no entry.                                            *)
LEMMA WalkKept ==
  ASSUME WalkInv, UNCHANGED <<fs, tree>>, Visited' = Visited, disc'.entry = disc.entry,
         pc' = "write entries" => Reaching',
         IsUdf(fs) /\ AfterEntries' => AfterEntries \/ Visited = Nodes(tree)
  PROVE  WalkInv'
  BY DEF WalkInv

(* One more entry: what is in the node waits.                              *)
LEMMA WriteEntryWalk ==
  ASSUME TypeInv, EntriesInv, WalkInv, WriteEntry
  PROVE  WalkInv'
<1> USE DEF Goto, planning, writing
<1> DEFINE n == Head(work)
<1>1. pc = "write entries" /\ work # <<>> /\ UNCHANGED <<fs, tree>> /\ UniqueInv /\ Recorded
  BY DEF WriteEntry, Fail, Return, EntriesInv
<1>2. CASE EntryRefused(n)
  <2>1. UNCHANGED <<udf, disc>> /\ pc' = "end" /\ result' = "FAIL"
    BY <1>2 DEF WriteEntry, Fail, Return
  <2>2. Visited' = Visited
    BY <1>1, <2>1 DEF Visited
  <2> QED  BY <1>1, <2>1, <2>2, WalkKept DEF AfterEntries
<1>3. CASE ~EntryRefused(n)
  <2>1. Visited' = Visited \cup {n}
    BY <1>1, <1>3, WriteEntryUnique
  <2>2. /\ pc' = "write entries" /\ result' = result
        /\ disc' = [disc EXCEPT !.entry[n] = Now(out), !.tag[n] = part.sec]
        /\ IF n \in Dirs(tree) THEN work' = tree.kids[n] \o Tail(work) ELSE work' = Tail(work)
    BY <1>3 DEF WriteEntry
  <2>3. work \in Seq(Nodes(tree)) /\ IsTree(tree)
    BY <1>1 DEF TypeInv, UniqueInv, Fields
  <2>4. \A S : \A s \in Seq(S) : s # <<>> =>
          /\ Head(s) \in S /\ Tail(s) \in Seq(S) /\ Len(Tail(s)) = Len(s) - 1 /\ Len(s) \in Nat \ {0}
          /\ \A i \in 1 .. Len(s) : s[i] = Head(s) \/ (i - 1 \in 1 .. Len(s) - 1 /\ s[i] = Tail(s)[i - 1])
    <3> TAKE S
    <3> TAKE s \in Seq(S)
    <3> HAVE s # <<>>
    <3>1. Head(s) = s[1] /\ Len(s) \in Nat \ {0} /\ Tail(s) \in Seq(S) /\ Len(Tail(s)) = Len(s) - 1
          /\ s[1] \in S
      OBVIOUS
    <3>2. \A j \in 1 .. Len(s) - 1 : Tail(s)[j] = s[j + 1]
      OBVIOUS
    <3>3. ASSUME NEW i \in 1 .. Len(s), i # 1
          PROVE  i - 1 \in 1 .. Len(s) - 1 /\ s[i] = Tail(s)[i - 1]
      <4>1. i - 1 \in 1 .. Len(s) - 1 /\ (i - 1) + 1 = i
        BY <3>1, <3>3
      <4> QED  BY <3>2, <4>1
    <3> QED  BY <3>1, <3>3
  <2>5. /\ n \in Nodes(tree) /\ Tail(work) \in Seq(Nodes(tree)) /\ Len(Tail(work)) = Len(work) - 1
        /\ Len(work) \in Nat \ {0}
        /\ \A i \in 1 .. Len(work) : work[i] = n \/ (i - 1 \in 1 .. Len(work) - 1 /\ work[i] = Tail(work)[i - 1])
    BY <1>1, <2>3, <2>4
  <2> DEFINE rest == Tail(work)
  <2>6. Range(work) \subseteq Range(rest) \cup {n}
    <3>1. DOMAIN work = 1 .. Len(work) /\ DOMAIN rest = 1 .. Len(rest)
      BY <2>3, <2>5
    <3> QED  BY <2>5, <3>1 DEF Range
  <2>7. /\ Range(work) \subseteq Range(work') \cup {n}
        /\ n \in Dirs(tree) => Range(tree.kids[n]) \subseteq Range(work')
    <3>1. CASE n \notin Dirs(tree)
      BY <2>2, <2>6, <3>1
    <3>2. CASE n \in Dirs(tree)
      <4> DEFINE kids == tree.kids[n]
      <4>1. kids \in Seq(Nodes(tree)) /\ work' = kids \o rest
        <5>1. kids \in Seq(Nodes(tree) \ {Root})
          BY <2>3, <3>2 DEF IsTree
        <5>2. \A S, R : Seq(S \ R) \subseteq Seq(S)
          OBVIOUS
        <5> QED  BY <2>2, <3>2, <5>1, <5>2
      <4>2. rest \in Seq(Nodes(tree))
        BY <2>5
      <4> HIDE DEF kids, rest, n
      <4>3. \A S : \A a, b \in Seq(S) :
              /\ DOMAIN a = 1 .. Len(a) /\ DOMAIN b = 1 .. Len(b) /\ Len(a) \in Nat /\ Len(b) \in Nat
              /\ DOMAIN (a \o b) = 1 .. Len(a) + Len(b)
              /\ \A i \in 1 .. Len(a) : (a \o b)[i] = a[i] /\ i \in 1 .. Len(a) + Len(b)
              /\ \A i \in 1 .. Len(b) : (a \o b)[Len(a) + i] = b[i] /\ Len(a) + i \in 1 .. Len(a) + Len(b)
        OBVIOUS
      <4>4. /\ DOMAIN kids = 1 .. Len(kids) /\ DOMAIN rest = 1 .. Len(rest)
            /\ DOMAIN work' = 1 .. Len(kids) + Len(rest)
            /\ \A i \in 1 .. Len(kids) : work'[i] = kids[i] /\ i \in 1 .. Len(kids) + Len(rest)
            /\ \A i \in 1 .. Len(rest) : work'[Len(kids) + i] = rest[i]
                                         /\ Len(kids) + i \in 1 .. Len(kids) + Len(rest)
        BY <4>1, <4>2, <4>3
      <4>5. Range(kids) \subseteq Range(work') /\ Range(rest) \subseteq Range(work')
        BY <4>4 DEF Range
      <4> QED  BY <2>6, <4>5 DEF kids
    <3> QED  BY <3>1, <3>2
  <2>8. Reaching
    BY <1>1 DEF WalkInv
  <2> HIDE DEF n, rest
  <2>9. Reaching'
    BY <1>1, <2>1, <2>7, <2>8 DEF Reaching
  <2>10. \A k \in Visited' : disc'.entry[k] # NotYet
    <3>1. {"entry", "tag"} \subseteq DOMAIN disc /\ DOMAIN disc.entry = Nodes(tree)
      BY <1>1 DEF Recorded
    <3>2. Now(out) # NotYet
      <4>1. out.sector \in Nat
        BY DEF TypeInv, TypeOK, StreamType
      <4> QED  BY <4>1 DEF Now, NotYet
    <3>3. disc'.entry = [disc.entry EXCEPT ![n] = Now(out)]
      BY <2>2, <3>1
    <3>4. \A k \in Visited : k \in Nodes(tree) /\ disc.entry[k] # NotYet
      BY DEF WalkInv, Visited
    <3> QED  BY <2>1, <2>5, <3>1, <3>2, <3>3, <3>4
  <2>11. ~AfterEntries'
    BY <1>1, <2>2 DEF AfterEntries, TypeInv, TypeOK
  <2> QED  BY <2>2, <2>9, <2>10, <2>11 DEF WalkInv
<1> QED
  BY <1>2, <1>3

(* The root waits first.                                                   *)
LEMMA WriteUdfWalk ==
  ASSUME TypeInv, EntriesInv, WalkInv, WriteUdf
  PROVE  WalkInv'
<1> USE DEF Goto, planning
<1>1. pc = "write udf" /\ UNCHANGED <<fs, tree, result>> /\ UniqueInv /\ Recorded /\ result = "none"
  BY DEF WriteUdf, EntriesInv, TypeInv, TypeOK
<1>2. Visited = {}
  BY <1>1 DEF UniqueInv, BeforeEntries
<1>3. CASE ~IsUdf(fs)
  <2>1. UNCHANGED <<udf, disc>> /\ pc' = "write tables"
    BY <1>3 DEF WriteUdf
  <2>2. Visited' = Visited
    BY <1>1, <2>1 DEF Visited
  <2> QED  BY <1>1, <1>3, <2>1, <2>2, WalkKept
<1>4. CASE IsUdf(fs)
  <2>1. udf' = [udf EXCEPT ![Root].loc = 1] /\ work' = <<Root>> /\ pc' = "write entries"
    BY <1>4 DEF WriteUdf
  <2>2. Visited' = {}
    <3>1. DOMAIN udf = Nodes(tree) /\ \A k \in Nodes(tree) : {"loc", "ident"} \subseteq DOMAIN udf[k]
      BY <1>1 DEF UniqueInv, Fields
    <3>2. \A k \in Nodes(tree) : udf[k].ident = NotYet
      BY <1>2 DEF Visited
    <3>3. \A k \in Nodes(tree) : udf'[k].ident = NotYet
      BY <2>1, <3>1, <3>2
    <3> QED  BY <1>1, <3>3 DEF Visited
  <2>3. Root \in Range(work')
    <3>1. 1 \in DOMAIN <<Root>> /\ <<Root>>[1] = Root
      OBVIOUS
    <3> QED  BY <2>1, <3>1 DEF Range
  <2>4. Reaching'
    BY <2>2, <2>3 DEF Reaching
  <2>5. ~AfterEntries'
    BY <1>1, <2>1 DEF AfterEntries
  <2> QED  BY <2>1, <2>2, <2>4, <2>5 DEF WalkInv
<1> QED
  BY <1>3, <1>4

(* The other steps.                                                        *)
LEMMA OtherWalk ==
  ASSUME TypeInv, EntriesInv, WalkInv,
         \/ Reserve \/ WriteHeader \/ WriteEntriesEnd \/ WriteTables \/ WriteDirEntry \/ WriteDirsEnd
         \/ OpenDir \/ SeeCancel \/ SkipChild \/ WriteFile \/ CloseDir \/ WriteDataEnd \/ WriteTail
         \/ BootImageLost \/ RequestCancel \/ ChangeFile \/ Returned \/ UNCHANGED vars
  PROVE  WalkInv'
<1> USE DEF Goto, Fail, Return, planning, writing
<1>1. UniqueInv /\ Recorded /\ IsTree(tree) /\ IsFiniteSet(Dirs(tree))
  <2>1. IsTree(tree) /\ IsFiniteSet(Nodes(tree))
    BY DEF EntriesInv, UniqueInv, Fields
  <2>2. IsFiniteSet(Dirs(tree))
    BY <2>1, FS_Subset DEF Nodes
  <2> QED  BY <2>1, <2>2 DEF EntriesInv
<1>2. pc # "end" => result = "none"
  BY DEF TypeInv, TypeOK
<1>3. CASE Reserve
  <2>1. UNCHANGED <<fs, tree, udf, disc>>
    BY <1>3 DEF Reserve, CreateTree, AllocHeader, AllocTables, AllocDir, AllocDirsEnd, PlaceFiles,
                PlaceFilesEnd
  <2>2. pc # "end" /\ pc' \in {"header", "tables", "dirs", "files", "write header", "end"} /\ result' # "OK"
    BY <1>2, <1>3 DEF Reserve, CreateTree, AllocHeader, AllocTables, AllocDir, AllocDirsEnd, PlaceFiles,
                PlaceFilesEnd
  <2>3. Visited' = Visited
    BY <2>1 DEF Visited
  <2> QED  BY <2>1, <2>2, <2>3, WalkKept DEF AfterEntries
<1>4. CASE WriteHeader \/ BootImageLost
  <2>1. UNCHANGED <<fs, tree, udf>> /\ pc' \in {"write udf", "end"} /\ pc = "write header" /\ result' # "OK"
    BY <1>2, <1>4 DEF WriteHeader, BootImageLost
  <2>2. disc'.entry = disc.entry
    BY <1>1, <1>4 DEF WriteHeader, BootImageLost, Recorded
  <2>3. Visited' = Visited
    BY <2>1 DEF Visited
  <2> QED  BY <2>1, <2>2, <2>3, WalkKept DEF AfterEntries
<1>5. CASE WriteEntriesEnd
  <2>1. UNCHANGED <<fs, tree, udf, disc>> /\ pc' = "write tables" /\ pc = "write entries" /\ work = <<>>
    BY <1>5 DEF WriteEntriesEnd
  <2>2. Visited = Nodes(tree)
    BY <1>1, <2>1, AllVisited DEF WalkInv
  <2>3. Visited' = Visited
    BY <2>1 DEF Visited
  <2> QED  BY <2>1, <2>2, <2>3, WalkKept
<1>6. CASE \/ WriteTables \/ WriteDirEntry \/ WriteDirsEnd
           \/ OpenDir \/ SeeCancel \/ SkipChild \/ WriteFile \/ CloseDir \/ WriteDataEnd \/ WriteTail
  <2>1. /\ UNCHANGED <<fs, tree, udf>>
        /\ pc' \in {"write dirs", "write data", "tail", "end"}
        /\ pc \in {"write tables", "write dirs", "write data", "tail"}
    <3>1. CASE WriteTables \/ WriteDirEntry \/ WriteDirsEnd
      BY <3>1 DEF WriteTables, WriteDirEntry, WriteDirsEnd
    <3>2. CASE OpenDir \/ SeeCancel \/ SkipChild \/ WriteFile \/ CloseDir \/ WriteDataEnd \/ WriteTail
      BY <3>2 DEF OpenDir, SeeCancel, SkipChild, WriteFile, CloseDir, WriteDataEnd, WriteTail, NextChild,
                  AtChild
    <3> QED  BY <1>6, <3>1, <3>2
  <2>2. disc'.entry = disc.entry
    <3>1. CASE WriteTables \/ WriteDirsEnd
      BY <1>1, <3>1 DEF WriteTables, WriteDirsEnd, Recorded
    <3>2. CASE WriteDirEntry
      BY <1>1, <3>2 DEF WriteDirEntry, Recorded
    <3>3. CASE OpenDir \/ SeeCancel \/ SkipChild \/ WriteFile \/ CloseDir \/ WriteDataEnd \/ WriteTail
      BY <1>1, <3>3 DEF OpenDir, SeeCancel, SkipChild, WriteFile, CloseDir, WriteDataEnd, WriteTail,
                        NextChild, Recorded
    <3> QED  BY <1>6, <3>1, <3>2, <3>3
  <2>3. Visited' = Visited
    BY <2>1 DEF Visited
  <2> QED  BY <2>1, <2>2, <2>3, WalkKept DEF AfterEntries
<1>7. CASE RequestCancel \/ ChangeFile \/ Returned \/ UNCHANGED vars
  <2>1. UNCHANGED <<fs, tree, pc, work, udf, disc, result>>
    BY <1>7 DEF RequestCancel, ChangeFile, Returned, vars
  <2>2. Visited' = Visited
    BY <2>1 DEF Visited
  <2>3. AfterEntries' = AfterEntries
    BY <2>1 DEF AfterEntries
  <2>4. Reaching => Reaching'
    BY <2>1, <2>2 DEF Reaching
  <2> QED  BY <2>1, <2>2, <2>3, <2>4, WalkKept DEF WalkInv
<1> QED
  BY <1>3, <1>4, <1>5, <1>6, <1>7

(* Every step goes on with the walk.                                       *)
LEMMA WalkStep ==
  ASSUME TypeInv, EntriesInv, WalkInv, [Next]_vars
  PROVE  WalkInv'
  BY WriteEntryWalk, WriteUdfWalk, OtherWalk DEF Next, Write

(* With everything stored, and an entry of every node, files are whole.    *)
LEMMA WholeFromStored ==
  ASSUME Sound(fs, tree), TypeInv, PlacesInv, WalkInv
  PROVE  FilesAreWhole
<1> SUFFICES ASSUME result = "OK", NEW f \in Files(tree), tree.size[f] > 0
             PROVE  /\ IsoListed(f) =>
                         /\ disc.data[f] # NotYet
                         /\ Covers(FileExtents(place[f].normal, tree.size[f]), disc.data[f], tree.size[f])
                    /\ IsUdf(fs) =>
                         LET ads == AllocDescriptors(fs, place[f].normal - PartStart, tree.size[f])
                         IN /\ disc.data[f] # NotYet /\ disc.entry[f] # NotYet
                            /\ \A i \in DOMAIN ads : ads[i].kind = 0
                            /\ Covers(ads, disc.data[f] - PartStart, tree.size[f])
  BY DEF FilesAreWhole
<1>1. AllStored(fs, tree, place, disc.data, mgr.dataStart, mgr.dataStart + mgr.dataLen)
  BY DEF PlacesInv, Storing
<1>2. \A x \in ReachedFiles(tree, GetMaxDirLevel(fs)) \cap Kept(fs, tree) : disc.data[x] = place[x].normal
  BY <1>1, StoredFiles
<1>3. /\ NamedTree(tree) /\ IsTree(tree) /\ Regular(fs, tree)
      /\ tree.size[f] \in Nat /\ place[f].normal \in Nat /\ MaxExtent \in Nat
  BY MaxExtentAssumption DEF Sound, NamedTree, AreSizes, TypeInv, PlaceType, Nodes
<1> DEFINE here == place[f].normal
           size == tree.size[f]
<1>4. size \in Nat \ {0} /\ here \in Int /\ here # NotYet /\ here - PartStart \in Int
  BY <1>3 DEF NotYet, PartStart
<1>5. ASSUME IsoListed(f)
      PROVE  disc.data[f] # NotYet /\ Covers(FileExtents(here, size), disc.data[f], size)
  <2>1. f \in ReachedFiles(tree, GetMaxDirLevel(fs)) /\ (size <= MaxExtent \/ AllowsFragmentation(fs))
    BY <1>5 DEF IsoListed
  <2>2. f \in Kept(fs, tree)
    BY <1>3, <2>1 DEF Kept
  <2>3. disc.data[f] = here
    BY <1>2, <2>1, <2>2
  <2> HIDE DEF here, size
  <2>4. Covers(FileExtents(here, size), here, size)
    BY <1>4, ExtentsCover
  <2> QED  BY <1>4, <2>3, <2>4
<1>6. ASSUME IsUdf(fs)
      PROVE  LET ads == AllocDescriptors(fs, here - PartStart, size)
             IN /\ disc.data[f] # NotYet /\ disc.entry[f] # NotYet
                /\ \A i \in DOMAIN ads : ads[i].kind = 0
                /\ Covers(ads, disc.data[f] - PartStart, size)
  <2>1. f \in ReachedFiles(tree, GetMaxDirLevel(fs))
    <3>1. f \in Nodes(tree) \ {Root}
      BY <1>3 DEF IsTree, Nodes
    <3>2. PICK d \in Dirs(tree) : f \in Range(tree.kids[d])
      BY <1>3, <3>1 DEF IsTree
    <3>3. Level(tree)[d] <= GetMaxDirLevel(fs)
      BY <1>3, <1>6 DEF Regular
    <3>4. d \in ReachedDirs(tree, GetMaxDirLevel(fs))
      BY <3>3 DEF ReachedDirs
    <3> QED  BY <3>2, <3>4 DEF ReachedFiles
  <2>2. f \in Kept(fs, tree)
    BY <1>6 DEF Kept
  <2>3. disc.data[f] = here
    BY <1>2, <2>1, <2>2
  <2>4. disc.entry[f] # NotYet
    BY <1>6 DEF WalkInv, AfterEntries, Nodes
  <2>5. IsDvd(fs) \/ fs.shortAd => size < ShortLimit
    BY <1>3, <1>6 DEF Regular
  <2> DEFINE loc == here - PartStart
             ads == AllocDescriptors(fs, loc, size)
  <2>6. loc \in Int
    BY <1>4
  <2> HIDE DEF here, size, loc
  <2>7. Covers(ads, loc, size) /\ \A i \in DOMAIN ads : ads[i].kind = 0
    BY <1>4, <2>5, <2>6, DescriptorsCover
  <2>8. disc.data[f] - PartStart = loc
    BY <2>3 DEF loc
  <2> QED  BY <1>4, <2>3, <2>4, <2>7, <2>8 DEF loc
<1> QED
  BY <1>5, <1>6

(* After RESULT_OK every file that a directory of either file system lists *)
(* is there as a whole: its extents or allocation descriptors cover the    *)
(* sectors that hold its data, no more and no fewer.                       *)
THEOREM WholeFiles ==
  ASSUME \A input \in Inputs : Regular(input.fs, input.tree) /\ Fits(input.fs, input.tree)
  PROVE  Spec => []FilesAreWhole
<1> DEFINE IInv == TypeInv /\ EntriesInv /\ PlacesInv /\ WalkInv
<1>1. AllRegular /\ AllFit
  BY DEF AllRegular, AllFit
<1>2. Init => IInv
  BY InitTyped, InitEntries, InitPlaces, InitWalk
<1>3. IInv /\ [Next]_vars => IInv'
  <2> SUFFICES ASSUME IInv, [Next]_vars PROVE IInv'
    OBVIOUS
  <2>1. Sound(fs, tree)
    BY <1>1, InputSound
  <2>2. TypeInv'
    BY TypesKept
  <2>3. EntriesInv'
    BY <1>1, EntriesStep
  <2>4. PlacesInv'
    BY <2>1, PlacesStep
  <2>5. WalkInv'
    BY WalkStep
  <2> QED  BY <2>2, <2>3, <2>4, <2>5
<1>4. IInv => FilesAreWhole
  <2> SUFFICES ASSUME TypeInv, PlacesInv, WalkInv PROVE FilesAreWhole
    OBVIOUS
  <2>1. Sound(fs, tree)
    BY <1>1, InputSound
  <2> QED  BY <2>1, WholeFromStored
<1> QED
  BY <1>2, <1>3, <1>4, PTL DEF Spec

-----------------------------------------------------------------------------
(* The directories and files that are written: those that are not too      *)
(* deep, and of the directories all.                                       *)

Reached == ReachedDirs(tree, GetMaxDirLevel(fs))

(* The levels on the stack are right, and not too deep.                    *)
Found(s, t, max) ==
  Leveled(s, t) /\ \A p \in 1 .. Len(s) : s[p][1] \in ReachedDirs(t, max)

WrittenDir(d) == disc.dir[d] # NotYet /\ (IsJoliet(fs) => disc.jdir[d] # NotYet)

(* Below a directory that is written, what is not waits on the stack.      *)
Waiting ==
  \A d \in Reached : d = Root \/ WrittenDir(Parent(tree, d)) => WrittenDir(d) \/ OnStack(work, d)

BeforeDirs == BeforeEntries \/ pc \in {"write entries", "write tables"}

DirsDone == (pc = "write data" /\ ~cancelled) \/ pc = "tail" \/ result = "OK"

OnlyReached ==
  /\ \A d \in Dirs(tree) : disc.dir[d] # NotYet \/ disc.jdir[d] # NotYet => IsIso(fs) /\ d \in Reached
  /\ \A d \in Dirs(tree) : disc.jdir[d] # NotYet => IsJoliet(fs)
  /\ \A f \in Files(tree) : disc.data[f] # NotYet =>
       f \in ReachedFiles(tree, GetMaxDirLevel(fs)) /\ ~TooLarge(f)

ReachInv ==
  /\ pc \in {"write dirs", "write data"} => Found(work, tree, GetMaxDirLevel(fs))
  /\ pc = "write dirs" => IsIso(fs)
  /\ pc = "write data" /\ cur # <<>> =>
       cur[1] \in Reached /\ cur[2] = Level(tree)[cur[1]] + 1 /\ cur[3] > 0
  /\ BeforeDirs => \A d \in Dirs(tree) : disc.dir[d] = NotYet /\ disc.jdir[d] = NotYet
  /\ pc = "write dirs" /\ ~cancelled => Waiting
  /\ IsIso(fs) /\ DirsDone => \A d \in Reached : WrittenDir(d)
  /\ OnlyReached

(* The root is on the stack.                                               *)
LEMMA RootFound ==
  ASSUME NEW t, IsTree(t), IsFiniteSet(Dirs(t)), NEW max \in Nat \ {0}
  PROVE  Found(RootStack, t, max) /\ OnStack(RootStack, Root)
<1>1. Level(t)[Root] = 1 /\ Root \in Dirs(t)
  BY LevelIs DEF IsTree
<1> DEFINE s == RootStack
<1>2. Len(s) = 1 /\ s[1][1] = Root /\ s[1][2] = 2
  BY DEF RootStack
<1> HIDE DEF s
<1>3. \A p \in 1 .. Len(s) : p = 1
  BY <1>2
<1>4. Leveled(s, t)
  BY <1>1, <1>2, <1>3 DEF Leveled
<1>5. Root \in ReachedDirs(t, max)
  BY <1>1 DEF ReachedDirs
<1>6. Found(s, t, max)
  BY <1>2, <1>3, <1>4, <1>5 DEF Found
<1>7. OnStack(s, Root)
  BY <1>2 DEF OnStack
<1> QED
  BY <1>6, <1>7 DEF s

(* A directory in one that is found is found, if it is not too deep for    *)
(* being pushed.                                                           *)
LEMMA KidReached ==
  ASSUME NEW t, IsTree(t), IsFiniteSet(Dirs(t)), NEW d \in Dirs(t),
         NEW c \in Dirs(t), c \in Range(t.kids[d])
  PROVE  /\ Level(t)[c] = Level(t)[d] + 1 /\ Parent(t, c) = d /\ c # Root
         /\ \A max \in Nat : Level(t)[d] + 1 <= max => c \in ReachedDirs(t, max)
<1>1. c # Root
  <2>1. t.kids[d] \in Seq(Nodes(t) \ {Root})
    BY DEF IsTree
  <2>2. \A S : \A s \in Seq(S) : Range(s) \subseteq S
    BY DEF Range
  <2> QED  BY <2>1, <2>2
<1>2. c \in Nodes(t) \ {Root}
  BY <1>1 DEF Nodes
<1>3. Parent(t, c) = d
  BY <1>2, ParentKnown
<1>4. Level(t)[c] = Level(t)[d] + 1
  BY <1>1, <1>3, LevelIs
<1> QED
  BY <1>1, <1>3, <1>4 DEF ReachedDirs

(* A round finds what it pushes.                                           *)
LEMMA PushesFound ==
  ASSUME NEW t, IsTree(t), IsFiniteSet(Dirs(t)), NEW stack \in StackOf(t), stack # <<>>,
         NEW max \in Nat, Found(stack, t, max)
  PROVE  /\ Found(Pushes(stack, t, max), t, max)
         /\ TopIn(stack) \in ReachedDirs(t, max)
         /\ \A d : OnStack(stack, d) /\ d # TopIn(stack) => OnStack(Pushes(stack, t, max), d)
         /\ \A c \in ReachedDirs(t, max) : c \in Range(t.kids[TopIn(stack)]) =>
              OnStack(Pushes(stack, t, max), c)
<1> DEFINE next == Pushes(stack, t, max)
           k    == Len(stack) - 1
           d    == TopIn(stack)
           n    == Len(stack)
<1>1. Leveled(stack, t) /\ \A p \in 1 .. n : stack[p][1] \in ReachedDirs(t, max)
  BY DEF Found
<1>2. /\ next \in StackOf(t) /\ Len(next) \in Nat /\ k \in Nat /\ k <= Len(next)
      /\ d \in Dirs(t) /\ stack[n][2] \in Nat
      /\ \A x \in 1 .. k : next[x] = stack[x]
      /\ \A x \in k + 1 .. Len(next) : next[x][1] \in Range(t.kids[d]) \cap Dirs(t)
  BY PushesIs
<1>3. /\ Leveled(next, t)
      /\ \A c \in Dirs(t) : c \in Range(t.kids[d]) /\ Level(t)[c] <= max => OnStack(next, c)
  BY <1>1, PushesAll
<1>4. n \in Nat \ {0} /\ k = n - 1 /\ n \in 1 .. n /\ d = stack[n][1]
  <2>1. n \in Nat \ {0}
    BY DEF StackOf
  <2>2. d = stack[n][1]
    BY DEF TopIn
  <2> HIDE DEF n, d
  <2> QED  BY <2>1, <2>2 DEF n
<1>5. d \in ReachedDirs(t, max) /\ stack[n][2] = Level(t)[d] + 1
  <2> HIDE DEF n, d
  <2> QED  BY <1>1, <1>4 DEF Leveled, n
<1>6. Level(t)[d] + 1 > max => Len(next) = k
  <2> SUFFICES ASSUME Level(t)[d] + 1 > max PROVE Len(next) = k
    OBVIOUS
  <2>1. next = Front(stack)
    BY <1>5 DEF Pushes, PushDirs
  <2>2. Front(stack) = SubSeq(stack, 1, k)
    BY DEF Front
  <2>3. stack \in Seq(Dirs(t) \X Nat) /\ k \in Nat /\ 1 .. k \subseteq 1 .. Len(stack)
    BY <1>4 DEF StackOf
  <2> HIDE DEF next, k
  <2>4. Len(SubSeq(stack, 1, k)) = k
    BY <2>3
  <2> QED  BY <2>1, <2>2, <2>4
<1>7. Level(t)[d] \in Nat
  BY <1>2, LevelIs
<1> HIDE DEF next, d, n
<1>8. \A x \in 1 .. Len(next) : next[x][1] \in ReachedDirs(t, max)
  <2> TAKE x \in 1 .. Len(next)
  <2>1. CASE x \in 1 .. k
    <3>1. x \in 1 .. n
      BY <1>4, <2>1
    <3> QED  BY <1>1, <1>2, <2>1, <3>1
  <2>2. CASE x \notin 1 .. k
    <3>1. x \in k + 1 .. Len(next) /\ Len(next) # k
      BY <1>2, <1>4, <2>2
    <3>2. next[x][1] \in Dirs(t) /\ next[x][1] \in Range(t.kids[d])
      BY <1>2, <3>1
    <3>3. Level(t)[d] + 1 <= max
      BY <1>6, <1>7, <3>1
    <3> QED  BY <1>2, <3>2, <3>3, KidReached
  <2> QED  BY <2>1, <2>2
<1>9. Found(next, t, max)
  BY <1>3, <1>8 DEF Found
<1>10. ASSUME NEW e, OnStack(stack, e), e # d
       PROVE  OnStack(next, e)
  <2>1. PICK p \in 1 .. n : stack[p][1] = e
    BY <1>10 DEF OnStack, n
  <2>2. p \in 1 .. k /\ p \in 1 .. Len(next)
    <3>1. p # n
      BY <1>4, <1>10, <2>1
    <3> QED  BY <1>2, <1>4, <3>1
  <2> QED  BY <1>2, <2>1, <2>2 DEF OnStack
<1>11. \A c \in ReachedDirs(t, max) : c \in Range(t.kids[d]) => OnStack(next, c)
  BY <1>3 DEF ReachedDirs
<1> QED
  BY <1>5, <1>9, <1>10, <1>11 DEF next, d

(* Nothing is written at the start.                                        *)
LEMMA InitReach == Init => ReachInv
<1> SUFFICES ASSUME Init PROVE ReachInv
  OBVIOUS
<1>1. /\ pc = "tree" /\ result = "none"
      /\ \A d \in Dirs(tree) : disc.dir[d] = NotYet /\ disc.jdir[d] = NotYet
      /\ \A f \in Files(tree) : disc.data[f] = NotYet
  BY DEF Init
<1>2. OnlyReached
  BY <1>1 DEF OnlyReached
<1> QED
  BY <1>1, <1>2 DEF ReachInv, DirsDone

(* What is known of the tree.                                              *)
LEMMA TreeKnown ==
  ASSUME Sound(fs, tree)
  PROVE  IsTree(tree) /\ IsFiniteSet(Dirs(tree)) /\ GetMaxDirLevel(fs) \in Nat \ {0}
  BY MaxLevelIs DEF Sound, NamedTree

(* A step that writes no directory and no file, and does not begin to.     *)
LEMMA ReachSame ==
  ASSUME ReachInv, UNCHANGED <<fs, tree>>,
         disc'.dir = disc.dir, disc'.jdir = disc.jdir, disc'.data = disc.data
  PROVE  /\ OnlyReached'
         /\ Reached' = Reached /\ \A d : WrittenDir(d)' <=> WrittenDir(d)
<1>1. Reached' = Reached /\ OnlyReached /\ \A d : WrittenDir(d)' <=> WrittenDir(d)
  BY DEF Reached, ReachInv, WrittenDir
<1>2. \A f \in Files(tree) : TooLarge(f)' <=> TooLarge(f)
  BY DEF TooLarge
<1> QED
  BY <1>1, <1>2 DEF OnlyReached

(* Before the directories.                                                 *)
LEMMA EarlyReach ==
  ASSUME TypeInv, EntriesInv, PlacesInv, ReachInv,
         Reserve \/ WriteHeader \/ BootImageLost \/ WriteUdf \/ WriteEntry \/ WriteEntriesEnd
  PROVE  ReachInv'
<1> USE DEF Goto, Fail, Return, planning, writing
<1>1. {"dir", "jdir", "data", "region"} \subseteq DOMAIN disc
  BY DEF PlacesInv, DiscOf
<1>2. pc # "end" => result = "none"
  BY DEF TypeInv, TypeOK
<1>3. /\ UNCHANGED <<fs, tree>> /\ BeforeDirs /\ pc # "end"
      /\ pc' \in {"header", "tables", "dirs", "files", "write header", "write udf", "write entries",
                  "write tables", "end"}
      /\ result' # "OK"
  <2>1. CASE Reserve
    BY <1>2, <2>1 DEF Reserve, CreateTree, AllocHeader, AllocTables, AllocDir, AllocDirsEnd, PlaceFiles,
                PlaceFilesEnd, BeforeDirs, BeforeEntries
  <2>2. CASE WriteHeader \/ BootImageLost
    BY <1>2, <2>2 DEF WriteHeader, BootImageLost, BeforeDirs, BeforeEntries
  <2>3. CASE WriteUdf \/ WriteEntry \/ WriteEntriesEnd
    BY <1>2, <2>3 DEF WriteUdf, WriteEntry, WriteEntriesEnd, BeforeDirs, BeforeEntries
  <2> QED  BY <2>1, <2>2, <2>3
<1>4. disc'.dir = disc.dir /\ disc'.jdir = disc.jdir /\ disc'.data = disc.data
  <2>1. CASE Reserve
    BY <2>1 DEF Reserve, CreateTree, AllocHeader, AllocTables, AllocDir, AllocDirsEnd, PlaceFiles,
                PlaceFilesEnd
  <2>2. CASE WriteHeader \/ BootImageLost
    BY <1>1, <2>2 DEF WriteHeader, BootImageLost
  <2>3. CASE WriteUdf
    BY <1>1, <2>3 DEF WriteUdf
  <2>4. CASE WriteEntry \/ WriteEntriesEnd
    BY <1>1, <2>4 DEF WriteEntry, WriteEntriesEnd
  <2> QED  BY <2>1, <2>2, <2>3, <2>4
<1>5. OnlyReached'
  BY <1>3, <1>4, ReachSame
<1>6. \A d \in Dirs(tree) : disc'.dir[d] = NotYet /\ disc'.jdir[d] = NotYet
  BY <1>3, <1>4 DEF ReachInv
<1>7. ~DirsDone' /\ pc' \notin {"write dirs", "write data"}
  BY <1>3 DEF DirsDone
<1> QED
  BY <1>3, <1>5, <1>6, <1>7 DEF ReachInv

(* The path tables; then the root waits.                                   *)
LEMMA WriteTablesReach ==
  ASSUME Sound(fs, tree), TypeInv, PlacesInv, ReachInv, WriteTables
  PROVE  ReachInv'
<1> USE DEF Goto, planning
<1>1. {"dir", "jdir", "data", "region"} \subseteq DOMAIN disc
  BY DEF PlacesInv, DiscOf
<1>2. /\ pc = "write tables" /\ pc' = IF IsIso(fs) THEN "write dirs" ELSE "write data"
      /\ UNCHANGED <<fs, tree, cur, cancelled, result>> /\ work' = RootStack
  BY DEF WriteTables
<1>3. disc'.dir = disc.dir /\ disc'.jdir = disc.jdir /\ disc'.data = disc.data
  BY <1>1 DEF WriteTables
<1>4. cur = <<>> /\ result = "none"
  BY <1>2 DEF PlacesInv, Storing, TypeInv, TypeOK
<1>5. OnlyReached' /\ Reached' = Reached /\ \A d : WrittenDir(d)' <=> WrittenDir(d)
  BY <1>2, <1>3, ReachSame
<1>6. IsTree(tree) /\ IsFiniteSet(Dirs(tree)) /\ GetMaxDirLevel(fs) \in Nat \ {0}
  BY TreeKnown
<1>7. Found(RootStack, tree, GetMaxDirLevel(fs)) /\ OnStack(RootStack, Root)
  BY <1>6, RootFound
<1>8. \A d \in Dirs(tree) : ~WrittenDir(d)
  BY <1>2 DEF ReachInv, BeforeDirs, WrittenDir
<1>9. Waiting'
  <2> SUFFICES ASSUME NEW d \in Reached, d = Root \/ WrittenDir(Parent(tree, d))
               PROVE  OnStack(RootStack, d)
    BY <1>2, <1>5 DEF Waiting
  <2>1. d = Root
    <3>1. d # Root => Parent(tree, d) \in Dirs(tree)
      <4> SUFFICES ASSUME d # Root PROVE Parent(tree, d) \in Dirs(tree)
        OBVIOUS
      <4>1. d \in Nodes(tree) \ {Root}
        BY DEF Reached, ReachedDirs, Nodes
      <4> QED  BY <1>6, <4>1, ParentKnown
    <3> QED  BY <1>8, <3>1
  <2> QED  BY <1>7, <2>1
<1>10. ~BeforeDirs' /\ (IsIso(fs) => ~DirsDone')
  BY <1>2, <1>4 DEF BeforeDirs, BeforeEntries, DirsDone
<1>11. Found(work, tree, GetMaxDirLevel(fs))'
  BY <1>2, <1>7
<1> QED
  BY <1>2, <1>4, <1>5, <1>9, <1>10, <1>11 DEF ReachInv

(* A directory, and those in it wait.                                      *)
LEMMA WriteDirEntryReach ==
  ASSUME Sound(fs, tree), TypeInv, PlacesInv, ReachInv, WriteDirEntry
  PROVE  ReachInv'
<1> USE DEF Goto, planning
<1> DEFINE normal == WriteDir(out, fs, tree, Top, Level_, FALSE)
           max   == GetMaxDirLevel(fs)
           one   == [disc EXCEPT !.dir[Top] = Now(out)]
           first == IF Top = Root THEN [one EXCEPT !.region["direntries"] = Now(out)] ELSE one
           both  == IF IsJoliet(fs) THEN [first EXCEPT !.jdir[Top] = Now(normal)] ELSE first
<1>1. /\ pc = "write dirs" /\ work # <<>> /\ work' = Pushed
      /\ UNCHANGED <<fs, tree, cancelled, cur>>
  BY DEF WriteDirEntry
<1>2. /\ \/ pc' = "write dirs" /\ result' = result
         \/ cancelled /\ pc' = "end" /\ result' = "CANCEL"
      /\ ~cancelled => disc' = both
      /\ disc' \in {both, disc, first}
  BY DEF WriteDirEntry
<1>3. result # "OK" /\ work \in StackOf(tree) /\ DiscOf(tree, disc)
  BY <1>1 DEF TypeInv, TypeOK, PlacesInv, StackType, StackOf
<1>4. IsJoliet(fs) \in BOOLEAN
  BY DEF IsJoliet
<1>5. /\ DirsOnly(disc, first) /\ first.dir = [disc.dir EXCEPT ![Top] = Now(out)] /\ first.jdir = disc.jdir
      /\ DirDisc(disc, both, Top, Now(out), Now(normal), IsJoliet(fs))
  <2>1. first = OneForm(disc, Top, Now(out)) /\ both = BothForms(disc, Top, Now(out), Now(normal), IsJoliet(fs))
    BY DEF OneForm, BothForms
  <2>2. DirDisc(disc, OneForm(disc, Top, Now(out)), Top, Now(out), Now(normal), FALSE)
    <3>1. DirDisc(disc, BothForms(disc, Top, Now(out), Now(normal), FALSE), Top, Now(out), Now(normal), FALSE)
      BY <1>3, DirDiscIs
    <3>2. BothForms(disc, Top, Now(out), Now(normal), FALSE) = OneForm(disc, Top, Now(out))
      BY DEF BothForms
    <3> QED  BY <3>1, <3>2
  <2> HIDE DEF normal, first, both, one
  <2>3. DirDisc(disc, both, Top, Now(out), Now(normal), IsJoliet(fs))
    BY <1>3, <1>4, <2>1, DirDiscIs
  <2> QED  BY <2>1, <2>2, <2>3 DEF DirDisc
<1> HIDE DEF normal, one, first, both, max
<1>6. IsTree(tree) /\ IsFiniteSet(Dirs(tree)) /\ max \in Nat \ {0}
  BY TreeKnown DEF max
<1>7. Found(work, tree, max) /\ IsIso(fs) /\ Pushed = Pushes(work, tree, max) /\ Top = TopIn(work)
  BY <1>1 DEF ReachInv, max, Pushed, Pushes, Top, Level_, TopIn
<1>8. /\ Found(work', tree, max)
      /\ Top \in Reached
      /\ \A d : OnStack(work, d) /\ d # Top => OnStack(work', d)
      /\ \A c \in Reached : c \in Range(tree.kids[Top]) => OnStack(work', c)
  <2>1. /\ Found(Pushes(work, tree, max), tree, max)
        /\ TopIn(work) \in ReachedDirs(tree, max)
        /\ \A d : OnStack(work, d) /\ d # TopIn(work) => OnStack(Pushes(work, tree, max), d)
        /\ \A c \in ReachedDirs(tree, max) : c \in Range(tree.kids[TopIn(work)]) =>
             OnStack(Pushes(work, tree, max), c)
    BY <1>1, <1>3, <1>6, <1>7, PushesFound
  <2> QED  BY <1>1, <1>7, <2>1 DEF Reached, max
<1>9. Top \in Dirs(tree)
  BY <1>8 DEF Reached, ReachedDirs
<1>10. /\ disc'.data = disc.data
       /\ \A d \in Dirs(tree) \ {Top} : disc'.dir[d] = disc.dir[d] /\ disc'.jdir[d] = disc.jdir[d]
       /\ disc'.jdir[Top] # disc.jdir[Top] => IsJoliet(fs)
  <2>1. disc' = both \/ disc' = disc \/ disc' = first
    BY <1>2
  <2> QED  BY <1>3, <1>5, <1>9, <2>1 DEF DirDisc, DirsOnly, DiscOf
<1>11. Reached' = Reached
  BY <1>1 DEF Reached
<1>12. OnlyReached'
  <2>1. OnlyReached
    BY DEF ReachInv
  <2>2. \A f \in Files(tree) : TooLarge(f)' <=> TooLarge(f)
    BY <1>1 DEF TooLarge
  <2>3. \A d \in Dirs(tree) : disc'.dir[d] # NotYet \/ disc'.jdir[d] # NotYet => IsIso(fs) /\ d \in Reached
    BY <1>7, <1>8, <1>10, <2>1 DEF OnlyReached
  <2>4. \A d \in Dirs(tree) : disc'.jdir[d] # NotYet => IsJoliet(fs)
    BY <1>10, <2>1 DEF OnlyReached
  <2>5. \A f \in Files(tree) : disc'.data[f] # NotYet =>
          f \in ReachedFiles(tree, GetMaxDirLevel(fs)) /\ ~TooLarge(f)
    BY <1>10, <2>1 DEF OnlyReached
  <2> QED  BY <1>1, <1>11, <2>2, <2>3, <2>4, <2>5 DEF OnlyReached
<1>13. ASSUME ~cancelled PROVE Waiting'
  <2>1. disc'.dir[Top] # NotYet /\ (IsJoliet(fs) => disc'.jdir[Top] # NotYet)
    <3>1. Now(out) # NotYet /\ (IsJoliet(fs) => Now(normal) # NotYet)
      <4>1. out.sector \in Nat
        BY DEF TypeInv, TypeOK, StreamType
      <4>2. IsJoliet(fs) => normal.sector \in Nat
        <5>1. normal \in StreamType
          <6>1. out \in StreamType /\ Top \in Dirs(tree) /\ Level_ \in Nat /\ NamedTree(tree)
            <7>1. Len(work) \in Nat \ {0} /\ work[Len(work)] \in Dirs(tree) \X Nat
              <8>1. \A S : \A s \in Seq(S) : s # <<>> => Len(s) \in Nat \ {0} /\ s[Len(s)] \in S
                OBVIOUS
              <8> QED  BY <1>1, <1>3, <8>1 DEF StackOf
            <7>2. Level_ \in Nat
              BY <7>1 DEF Level_
            <7> QED  BY <1>9, <7>2 DEF TypeInv, TypeOK, Sound
          <6> QED  BY <6>1, WriteDirTyped DEF normal
        <5> QED  BY <5>1 DEF StreamType
      <4> QED  BY <4>1, <4>2 DEF Now, NotYet
    <3>2. disc' = both
      BY <1>2, <1>13
    <3>3. DOMAIN disc.dir = Dirs(tree) /\ DOMAIN disc.jdir = Dirs(tree)
      BY <1>3 DEF DiscOf
    <3>4. /\ disc'.dir = [disc.dir EXCEPT ![Top] = Now(out)]
          /\ IsJoliet(fs) => disc'.jdir = [disc.jdir EXCEPT ![Top] = Now(normal)]
      BY <1>5, <3>2 DEF DirDisc
    <3>5. disc'.dir[Top] = Now(out) /\ (IsJoliet(fs) => disc'.jdir[Top] = Now(normal))
      BY <1>9, <3>3, <3>4
    <3> QED  BY <3>1, <3>5
  <2>2. \A d \in Dirs(tree) \ {Top} : WrittenDir(d)' <=> WrittenDir(d)
    BY <1>1, <1>10 DEF WrittenDir
  <2>3. Waiting
    BY <1>1, <1>13 DEF ReachInv
  <2> SUFFICES ASSUME NEW d \in Reached, d = Root \/ WrittenDir(Parent(tree, d))'
               PROVE  WrittenDir(d)' \/ OnStack(work', d)
    BY <1>1, <1>11 DEF Waiting
  <2>4. d \in Dirs(tree)
    BY DEF Reached, ReachedDirs
  <2>5. d # Root => Parent(tree, d) \in Dirs(tree) /\ d \in Range(tree.kids[Parent(tree, d)])
    <3> SUFFICES ASSUME d # Root PROVE Parent(tree, d) \in Dirs(tree) /\ d \in Range(tree.kids[Parent(tree, d)])
      OBVIOUS
    <3>1. d \in Nodes(tree) \ {Root}
      BY <2>4 DEF Nodes
    <3> QED  BY <1>6, <3>1, ParentKnown
  <2>6. CASE d = Top
    BY <1>1, <2>1, <2>6 DEF WrittenDir
  <2>7. CASE d # Top /\ d # Root /\ Parent(tree, d) = Top
    BY <1>8, <2>5, <2>7
  <2>8. CASE d # Top /\ (d = Root \/ Parent(tree, d) # Top)
    <3>1. d = Root \/ WrittenDir(Parent(tree, d))
      <4> SUFFICES ASSUME d # Root PROVE WrittenDir(Parent(tree, d))
        OBVIOUS
      <4>1. PICK e \in Dirs(tree) \ {Top} : e = Parent(tree, d)
        BY <2>5, <2>8
      <4>2. WrittenDir(e)'
        BY <1>1, <4>1 DEF WrittenDir
      <4> QED  BY <2>2, <4>1, <4>2
    <3>2. WrittenDir(d) \/ OnStack(work, d)
      BY <2>3, <3>1 DEF Waiting
    <3> QED  BY <1>8, <2>2, <2>4, <2>8, <3>2
  <2> QED  BY <2>6, <2>7, <2>8
<1>14. ~BeforeDirs' /\ ~DirsDone' /\ pc' # "write data"
  BY <1>2, <1>3 DEF BeforeDirs, BeforeEntries, DirsDone
<1>15. Found(work, tree, GetMaxDirLevel(fs))'
  BY <1>1, <1>8 DEF max
<1> QED
  BY <1>1, <1>7, <1>12, <1>13, <1>14, <1>15 DEF ReachInv

(* A step that writes no directory and no file, behind the directories.    *)
LEMMA ReachKept ==
  ASSUME ReachInv, UNCHANGED <<fs, tree>>, pc' \in {"write data", "tail", "end"},
         disc'.dir = disc.dir, disc'.jdir = disc.jdir, disc'.data = disc.data,
         pc' = "write data" => Found(work', tree, GetMaxDirLevel(fs)),
         pc' = "write data" /\ cur' # <<>> =>
           cur'[1] \in Reached /\ cur'[2] = Level(tree)[cur'[1]] + 1 /\ cur'[3] > 0,
         IsIso(fs) /\ DirsDone' => \A d \in Reached : WrittenDir(d)
  PROVE  ReachInv'
<1>1. OnlyReached' /\ Reached' = Reached /\ \A d : WrittenDir(d)' <=> WrittenDir(d)
  BY ReachSame
<1>2. ~BeforeDirs' /\ pc' # "write dirs"
  BY DEF BeforeDirs, BeforeEntries
<1>3. Found(work, tree, GetMaxDirLevel(fs))' <=> Found(work', tree, GetMaxDirLevel(fs))
  OBVIOUS
<1> QED
  BY <1>1, <1>2, <1>3 DEF ReachInv

(* Every directory that is not too deep is written: the root does not wait *)
(* any more, nor does what is in a directory that is written.              *)
LEMMA AllWritten ==
  ASSUME Sound(fs, tree), Waiting, work = <<>>
  PROVE  \A d \in Reached : WrittenDir(d)
<1> DEFINE S == {d \in Reached : ~WrittenDir(d)}
<1>1. IsTree(tree) /\ IsFiniteSet(Dirs(tree)) /\ GetMaxDirLevel(fs) \in Nat \ {0}
  BY TreeKnown
<1>2. \A d : ~OnStack(work, d)
  BY DEF OnStack
<1>3. S \in SUBSET Dirs(tree) /\ Root \notin S
  BY <1>2 DEF Reached, ReachedDirs, Waiting
<1> SUFFICES ASSUME S # {} PROVE FALSE
  OBVIOUS
<1>4. PICK d \in S : Parent(tree, d) \in Dirs(tree) \ S
  <2> HIDE DEF S
  <2> QED  BY <1>1, <1>3, OutsideIn
<1>5. Parent(tree, d) \in Reached
  <2>1. d \in Dirs(tree) /\ d # Root /\ Level(tree)[d] <= GetMaxDirLevel(fs)
    BY <1>3 DEF Reached, ReachedDirs
  <2>2. Level(tree)[d] = Level(tree)[Parent(tree, d)] + 1 /\ Level(tree)[Parent(tree, d)] \in Nat
    BY <1>1, <1>4, <2>1, LevelIs
  <2> QED  BY <1>1, <1>4, <2>1, <2>2 DEF Reached, ReachedDirs
<1>6. WrittenDir(Parent(tree, d))
  BY <1>4, <1>5
<1> QED
  BY <1>2, <1>6 DEF Waiting

(* The directories are written.                                            *)
LEMMA WriteDirsEndReach ==
  ASSUME Sound(fs, tree), TypeInv, PlacesInv, ReachInv, WriteDirsEnd
  PROVE  ReachInv'
<1>1. /\ pc = "write dirs" /\ work = <<>> /\ pc' = "write data" /\ work' = RootStack
      /\ UNCHANGED <<fs, tree, disc, cur, cancelled, result>>
  BY DEF WriteDirsEnd, Goto, writing
<1>2. cur' = <<>> /\ result' # "OK"
  BY <1>1 DEF PlacesInv, Storing, TypeInv, TypeOK
<1>3. Found(work', tree, GetMaxDirLevel(fs))
  BY <1>1, TreeKnown, RootFound
<1>4. IsIso(fs) /\ DirsDone' => \A d \in Reached : WrittenDir(d)
  BY <1>1, <1>2, AllWritten DEF DirsDone, ReachInv
<1> QED
  BY <1>1, <1>2, <1>3, <1>4, ReachKept

(* What is taken off the stack, and what is left, is found.                *)
LEMMA FoundFront ==
  ASSUME NEW t, NEW s \in StackOf(t), s # <<>>, NEW max, Found(s, t, max)
  PROVE  /\ Found(Front(s), t, max)
         /\ s[Len(s)][1] \in ReachedDirs(t, max) /\ s[Len(s)][2] = Level(t)[s[Len(s)][1]] + 1
<1>1. Len(s) \in 1 .. Len(s) /\ Len(s) \in Nat
  BY DEF StackOf
<1>2. \A S : \A x \in Seq(S) : x # <<>> =>
        /\ Len(Front(x)) = Len(x) - 1
        /\ \A p \in 1 .. Len(x) - 1 : Front(x)[p] = x[p]
  <2> TAKE S
  <2> TAKE x \in Seq(S)
  <2> HAVE x # <<>>
  <2>1. Len(x) - 1 \in Nat /\ 1 .. Len(x) - 1 \subseteq 1 .. Len(x)
    OBVIOUS
  <2>2. Front(x) = SubSeq(x, 1, Len(x) - 1)
    BY DEF Front
  <2>3. \A n \in Nat : 1 .. n \subseteq 1 .. Len(x) =>
          Len(SubSeq(x, 1, n)) = n /\ \A p \in 1 .. n : SubSeq(x, 1, n)[p] = x[p]
    OBVIOUS
  <2> QED  BY <2>1, <2>2, <2>3
<1>3. Len(Front(s)) = Len(s) - 1 /\ \A p \in 1 .. Len(s) - 1 : Front(s)[p] = s[p]
  BY <1>2 DEF StackOf
<1>4. \A p \in 1 .. Len(Front(s)) : p \in 1 .. Len(s) /\ Front(s)[p] = s[p]
  BY <1>1, <1>3
<1> QED
  BY <1>1, <1>4 DEF Found, Leveled

(* A directory that is put on the stack is found.                          *)
LEMMA FoundAppend ==
  ASSUME NEW t, NEW s \in StackOf(t), NEW max, Found(s, t, max),
         NEW d \in ReachedDirs(t, max), NEW level, level = Level(t)[d] + 1
  PROVE  Found(Append(s, <<d, level>>), t, max)
<1> DEFINE e == <<d, level>>
           w == Append(s, e)
<1>1. \A S : \A x \in Seq(S) : \A y :
        Len(Append(x, y)) = Len(x) + 1 /\ \A p \in 1 .. Len(x) + 1 :
          Append(x, y)[p] = IF p = Len(x) + 1 THEN y ELSE x[p]
  OBVIOUS
<1>2. e[1] = d /\ e[2] = Level(t)[d] + 1
  OBVIOUS
<1> HIDE DEF e
<1>3. \A p \in 1 .. Len(w) : w[p] = e \/ (p \in 1 .. Len(s) /\ w[p] = s[p])
  <2>1. Len(w) = Len(s) + 1 /\ Len(s) \in Nat
        /\ \A p \in 1 .. Len(s) + 1 : w[p] = IF p = Len(s) + 1 THEN e ELSE s[p]
    BY <1>1 DEF StackOf
  <2> HIDE DEF w
  <2> QED  BY <2>1
<1> HIDE DEF w
<1>4. Found(w, t, max)
  BY <1>2, <1>3 DEF Found, Leveled
<1> QED
  BY <1>4 DEF w, e

(* A directory is opened.                                                  *)
LEMMA OpenDirReach ==
  ASSUME Sound(fs, tree), TypeInv, PlacesInv, ReachInv, OpenDir
  PROVE  ReachInv'
<1>1. /\ pc = "write data" /\ work # <<>> /\ pc' = "write data" /\ work' = Front(work)
      /\ cur' = <<Top, Level_, 1>>
      /\ UNCHANGED <<fs, tree, disc, cancelled, result>>
  BY DEF OpenDir, Goto, writing
<1>2. work \in StackOf(tree) /\ Found(work, tree, GetMaxDirLevel(fs))
  BY <1>1 DEF TypeInv, StackType, StackOf, ReachInv
<1>3. /\ Found(work', tree, GetMaxDirLevel(fs))
      /\ cur'[1] \in Reached /\ cur'[2] = Level(tree)[cur'[1]] + 1 /\ cur'[3] > 0
  <2>1. /\ Found(Front(work), tree, GetMaxDirLevel(fs))
        /\ Top \in ReachedDirs(tree, GetMaxDirLevel(fs)) /\ Level_ = Level(tree)[Top] + 1
    BY <1>1, <1>2, FoundFront DEF Top, Level_
  <2>2. cur'[1] = Top /\ cur'[2] = Level_ /\ cur'[3] = 1
    BY <1>1
  <2>3. Found(work', tree, GetMaxDirLevel(fs))
    BY <1>1, <2>1
  <2>4. Top \in Reached /\ Level_ = Level(tree)[Top] + 1
    BY <2>1 DEF Reached
  <2> HIDE DEF Top, Level_
  <2> QED  BY <2>2, <2>3, <2>4
<1>4. IsIso(fs) /\ DirsDone' => \A d \in Reached : WrittenDir(d)
  BY <1>1 DEF DirsDone, ReachInv
<1> QED
  BY <1>1, <1>3, <1>4, ReachKept

(* A child, as write_local_file_data sees it.                              *)
LEMMA ChildKnown ==
  ASSUME Sound(fs, tree), TypeInv, ReachInv, AtChild, More
  PROVE  /\ cur[1] \in Reached /\ cur[2] = Level(tree)[cur[1]] + 1 /\ cur[1] \in Dirs(tree)
         /\ Child \in Range(tree.kids[cur[1]])
         /\ work \in StackOf(tree) /\ Found(work, tree, GetMaxDirLevel(fs))
<1>1. /\ pc = "write data" /\ cur # <<>> /\ cur \in Dirs(tree) \X Nat \X Nat
      /\ work \in StackOf(tree)
  BY DEF TypeInv, StackType, StackOf, AtChild
<1>2. /\ cur[1] \in Reached /\ cur[2] = Level(tree)[cur[1]] + 1 /\ cur[3] > 0
      /\ Found(work, tree, GetMaxDirLevel(fs))
  BY <1>1 DEF ReachInv
<1>3. cur[1] \in Dirs(tree) /\ cur[3] \in Nat
  BY <1>1, TripleIs
<1>4. Child \in Range(tree.kids[cur[1]])
  <2>1. IsTree(tree)
    BY TreeKnown
  <2>2. Len(tree.kids[cur[1]]) \in Nat
        /\ \A i \in 1 .. Len(tree.kids[cur[1]]) : tree.kids[cur[1]][i] \in Range(tree.kids[cur[1]])
    BY <1>3, <2>1, KidsOf
  <2>3. cur[3] \in 1 .. Len(tree.kids[cur[1]])
    BY <1>2, <1>3, <2>2 DEF More
  <2> QED  BY <2>2, <2>3 DEF Child
<1> QED
  BY <1>1, <1>2, <1>3, <1>4

(* The next child.                                                         *)
LEMMA NextKnown ==
  ASSUME TypeInv, cur # <<>>, NextChild
  PROVE  cur'[1] = cur[1] /\ cur'[2] = cur[2] /\ (cur[3] > 0 => cur'[3] > 0)
<1>1. cur \in Dirs(tree) \X Nat \X Nat
  BY DEF TypeInv
<1>2. cur[3] \in Nat /\ cur' = <<cur[1], cur[2], cur[3] + 1>>
  BY <1>1, TripleIs DEF NextChild
<1> QED
  BY <1>2

(* A child is not written; a directory waits, if it is not too deep.       *)
LEMMA SkipChildReach ==
  ASSUME Sound(fs, tree), TypeInv, ReachInv, SkipChild
  PROVE  ReachInv'
<1>1. /\ AtChild /\ More /\ pc = "write data" /\ pc' = "write data" /\ cur # <<>> /\ NextChild
      /\ UNCHANGED <<fs, tree, disc, cancelled, result>>
      /\ \/ /\ Child \in Dirs(tree)
            /\ work' = IF cur[2] > GetMaxDirLevel(fs) THEN work ELSE Append(work, <<Child, cur[2] + 1>>)
         \/ work' = work
  BY DEF SkipChild, Goto, writing, AtChild
<1>2. /\ cur[1] \in Reached /\ cur[2] = Level(tree)[cur[1]] + 1 /\ cur[1] \in Dirs(tree)
      /\ Child \in Range(tree.kids[cur[1]])
      /\ work \in StackOf(tree) /\ Found(work, tree, GetMaxDirLevel(fs))
  BY <1>1, ChildKnown
<1>3. cur'[1] \in Reached /\ cur'[2] = Level(tree)[cur'[1]] + 1 /\ cur'[3] > 0
  BY <1>1, <1>2, NextKnown DEF ReachInv
<1>4. Found(work', tree, GetMaxDirLevel(fs))
  <2> SUFFICES ASSUME Child \in Dirs(tree), ~(cur[2] > GetMaxDirLevel(fs))
               PROVE  Found(Append(work, <<Child, cur[2] + 1>>), tree, GetMaxDirLevel(fs))
    BY <1>1, <1>2
  <2>1. IsTree(tree) /\ IsFiniteSet(Dirs(tree)) /\ GetMaxDirLevel(fs) \in Nat
    BY TreeKnown
  <2>2. Level(tree)[Child] = Level(tree)[cur[1]] + 1 /\ Level(tree)[cur[1]] \in Nat
    BY <1>2, <2>1, KidReached, LevelIs
  <2>3. Level(tree)[cur[1]] + 1 <= GetMaxDirLevel(fs)
    BY <1>2, <2>1, <2>2
  <2>4. Child \in ReachedDirs(tree, GetMaxDirLevel(fs))
    BY <1>2, <2>1, <2>3, KidReached
  <2>5. cur[2] + 1 = Level(tree)[Child] + 1
    BY <1>2, <2>2
  <2> QED  BY <1>2, <2>4, <2>5, FoundAppend
<1>5. IsIso(fs) /\ DirsDone' => \A d \in Reached : WrittenDir(d)
  BY <1>1 DEF DirsDone, ReachInv
<1> QED
  BY <1>1, <1>3, <1>4, <1>5, ReachKept

(* A file is written: one in a directory that is not too deep.             *)
LEMMA WriteFileReach ==
  ASSUME Sound(fs, tree), TypeInv, PlacesInv, ReachInv, WriteFile
  PROVE  ReachInv'
<1>1. CASE Child \in changed
  <2>1. pc' = "end" /\ result' = "FAIL" /\ UNCHANGED <<fs, tree, disc>>
    BY <1>1 DEF WriteFile, Fail, Return, writing
  <2>2. ~DirsDone'
    BY <2>1 DEF DirsDone
  <2> QED  BY <2>1, <2>2, ReachKept
<1>2. CASE Child \notin changed
  <2>1. /\ AtChild /\ More /\ pc = "write data" /\ pc' = "write data" /\ cur # <<>> /\ NextChild
        /\ UNCHANGED <<fs, tree, cancelled, result, work>>
        /\ disc' = [disc EXCEPT !.data[Child] = Now(out)]
        /\ Child \in Files(tree) /\ ~TooLarge(Child)
    BY <1>2 DEF WriteFile, Goto, AtChild
  <2>2. /\ cur[1] \in Reached /\ cur[2] = Level(tree)[cur[1]] + 1 /\ cur[1] \in Dirs(tree)
        /\ Child \in Range(tree.kids[cur[1]]) /\ Found(work, tree, GetMaxDirLevel(fs))
    BY <2>1, ChildKnown
  <2>3. cur'[1] \in Reached /\ cur'[2] = Level(tree)[cur'[1]] + 1 /\ cur'[3] > 0
    BY <2>1, <2>2, NextKnown DEF ReachInv
  <2>4. {"dir", "jdir", "data"} \subseteq DOMAIN disc /\ DOMAIN disc.data = Files(tree)
    BY DEF PlacesInv, DiscOf
  <2>5. /\ disc'.dir = disc.dir /\ disc'.jdir = disc.jdir
        /\ disc'.data = [disc.data EXCEPT ![Child] = Now(out)]
    BY <2>1, <2>4
  <2>6. Child \in ReachedFiles(tree, GetMaxDirLevel(fs))
    BY <2>1, <2>2 DEF ReachedFiles, Reached
  <2>7. Reached' = Reached /\ \A d : WrittenDir(d)' <=> WrittenDir(d)
    BY <2>1, <2>5 DEF Reached, WrittenDir
  <2>8. OnlyReached'
    <3>1. OnlyReached /\ \A f \in Files(tree) : TooLarge(f)' <=> TooLarge(f)
      BY <2>1 DEF ReachInv, TooLarge
    <3>2. \A f \in Files(tree) : disc'.data[f] # NotYet =>
            f \in ReachedFiles(tree, GetMaxDirLevel(fs)) /\ ~TooLarge(f)
      <4> TAKE f \in Files(tree)
      <4>1. CASE f = Child
        BY <2>1, <2>6, <4>1
      <4>2. CASE f # Child
        BY <2>4, <2>5, <3>1, <4>2 DEF OnlyReached
      <4> QED  BY <4>1, <4>2
    <3> QED  BY <2>1, <2>5, <2>7, <3>1, <3>2 DEF OnlyReached
  <2>9. IsIso(fs) /\ DirsDone' => \A d \in Reached : WrittenDir(d)
    BY <2>1 DEF DirsDone, ReachInv
  <2>10. Found(work, tree, GetMaxDirLevel(fs))' /\ ~BeforeDirs'
    BY <2>1, <2>2 DEF BeforeDirs, BeforeEntries
  <2> QED  BY <2>1, <2>3, <2>7, <2>8, <2>9, <2>10 DEF ReachInv
<1> QED
  BY <1>1, <1>2

(* The other steps behind the directories.                                 *)
LEMMA LateReach ==
  ASSUME TypeInv, PlacesInv, ReachInv, CloseDir \/ WriteDataEnd \/ SeeCancel \/ WriteTail
  PROVE  ReachInv'
<1> USE DEF Goto, Return, planning, writing
<1>1. {"dir", "jdir", "data"} \subseteq DOMAIN disc
  BY DEF PlacesInv, DiscOf
<1>2. /\ UNCHANGED <<fs, tree>> /\ pc' \in {"write data", "tail", "end"}
      /\ disc'.dir = disc.dir /\ disc'.jdir = disc.jdir /\ disc'.data = disc.data
      /\ pc' = "write data" => pc = "write data" /\ work' = work /\ cur' = <<>>
  <2>1. CASE CloseDir \/ WriteDataEnd \/ SeeCancel
    BY <2>1 DEF CloseDir, WriteDataEnd, SeeCancel, AtChild
  <2>2. CASE WriteTail
    BY <1>1, <2>2 DEF WriteTail
  <2> QED  BY <2>1, <2>2
<1>3. DirsDone' => DirsDone
  BY DEF CloseDir, WriteDataEnd, SeeCancel, AtChild, WriteTail, DirsDone
<1>4. Found(work, tree, GetMaxDirLevel(fs)) \/ pc' # "write data"
  BY <1>2 DEF ReachInv
<1>5. IsIso(fs) /\ DirsDone' => \A d \in Reached : WrittenDir(d)
  BY <1>3 DEF ReachInv
<1> QED
  BY <1>2, <1>4, <1>5, ReachKept

(* Somebody asks to stop, or changes a file.                               *)
LEMMA OtherReach ==
  ASSUME ReachInv, RequestCancel \/ ChangeFile \/ Returned \/ UNCHANGED vars
  PROVE  ReachInv'
<1>1. /\ UNCHANGED <<fs, tree, pc, work, cur, disc, result>> /\ (~cancelled' => ~cancelled)
  BY DEF RequestCancel, ChangeFile, Returned, vars, writing
<1>2. OnlyReached' /\ Reached' = Reached /\ \A d : WrittenDir(d)' <=> WrittenDir(d)
  BY <1>1, ReachSame
<1>3. (BeforeDirs' <=> BeforeDirs) /\ (DirsDone' => DirsDone)
  BY <1>1 DEF BeforeDirs, BeforeEntries, DirsDone
<1>4. Found(work, tree, GetMaxDirLevel(fs))' <=> Found(work, tree, GetMaxDirLevel(fs))
  BY <1>1
<1>5. Waiting => Waiting'
  <2> SUFFICES ASSUME Waiting, NEW d \in Reached,
                      \/ d = Root
                      \/ /\ disc'.dir[Parent(tree, d)] # NotYet
                         /\ IsJoliet(fs) => disc'.jdir[Parent(tree, d)] # NotYet
               PROVE  WrittenDir(d) \/ OnStack(work, d)
    BY <1>1, <1>2 DEF Waiting, WrittenDir
  <2>1. d = Root \/ WrittenDir(Parent(tree, d))
    BY <1>1 DEF WrittenDir
  <2> QED  BY <2>1 DEF Waiting
<1> QED
  BY <1>1, <1>2, <1>3, <1>4, <1>5 DEF ReachInv

(* Every step reaches what is not too deep, and nothing else.              *)
LEMMA ReachStep ==
  ASSUME Sound(fs, tree), TypeInv, EntriesInv, PlacesInv, ReachInv, [Next]_vars
  PROVE  ReachInv'
<1>1. CASE Reserve \/ WriteHeader \/ BootImageLost \/ WriteUdf \/ WriteEntry \/ WriteEntriesEnd
  BY <1>1, EarlyReach
<1>2. CASE WriteTables
  BY <1>2, WriteTablesReach
<1>3. CASE WriteDirEntry
  BY <1>3, WriteDirEntryReach
<1>4. CASE WriteDirsEnd
  BY <1>4, WriteDirsEndReach
<1>5. CASE OpenDir
  BY <1>5, OpenDirReach
<1>6. CASE SkipChild
  BY <1>6, SkipChildReach
<1>7. CASE WriteFile
  BY <1>7, WriteFileReach
<1>8. CASE CloseDir \/ WriteDataEnd \/ SeeCancel \/ WriteTail
  BY <1>8, LateReach
<1>9. CASE RequestCancel \/ ChangeFile \/ Returned \/ UNCHANGED vars
  BY <1>9, OtherReach
<1> QED
  BY <1>1, <1>2, <1>3, <1>4, <1>5, <1>6, <1>7, <1>8, <1>9 DEF Next, Write

-----------------------------------------------------------------------------
(* What the descriptors state, and where what they speak of is.            *)

Stated(d) ==
  /\ d.type = "primary" =>
       d = PrimaryVolume(mgr, PathTableBytes(fs, tree, TableDirs, FALSE), place[Root])
  /\ d.type = "joliet" =>
       IsJoliet(fs) /\ d = JolietVolume(mgr, PathTableBytes(fs, tree, TableDirs, TRUE), place[Root])

(* The ISO9660 part: it is stated from the header on.                      *)
IsoSaid ==
  /\ place[Root].joliet = place[Root].normal + BytesToSec(place[Root].sizeN)
  /\ pc \in Early => desc.iso = <<>>
  /\ desc.iso # <<>> => IsIso(fs)
  /\ \A i \in DOMAIN desc.iso : Stated(desc.iso[i])

(* UDF: the volume descriptors are where sectors were reserved for them.   *)
UdfStated ==
  /\ desc.udf = UdfDescriptors(mgr, tree)
  /\ disc.region["main"] = mgr.start["main"] /\ disc.anchor = AnchorSector
  /\ disc.volumes = <<mgr.start["main"] + 2, mgr.start["main"] + 2 + MainSequence>>
  /\ mgr.start["main"] + MainSectors(mgr.start["main"]) = AnchorSector
  /\ mgr.start["fileset"] = 258
  /\ udf[Root].loc = 1

UdfSaid == IsUdf(fs) /\ (pc = "write entries" \/ AfterEntries) => UdfStated

(* The root directory begins the directories; the path tables are written  *)
(* before them, and the second anchor after all.                           *)
TablesWritten ==
  /\ disc.region["path L"] # NotYet /\ disc.region["path M"] # NotYet
  /\ IsJoliet(fs) => disc.region["joliet path L"] # NotYet /\ disc.region["joliet path M"] # NotYet

EndReached ==
  LET last == mgr.dataStart + mgr.dataLen
  IN IF IsUdf(fs) THEN disc.tail = last /\ Now(out) = last + 1 ELSE Now(out) = last

AfterTables == pc \in {"write dirs", "write data", "tail"} \/ result = "OK"

PlaceSaid ==
  /\ disc.dir[Root] # NotYet => disc.region["direntries"] = disc.dir[Root]
  /\ IsIso(fs) /\ AfterTables => TablesWritten
  /\ result = "OK" => EndReached

Keys == {"dir", "jdir", "data", "region", "entry", "tag", "volumes", "anchor", "tail", "image"}

DescInv == {"iso", "udf"} \subseteq DOMAIN desc /\ Keys \subseteq DOMAIN disc /\ IsoSaid /\ UdfSaid /\ PlaceSaid

(* Nothing is stated at the start.                                         *)
LEMMA InitDesc == Init => DescInv
<1> SUFFICES ASSUME Init PROVE DescInv
  OBVIOUS
<1>1. /\ pc = "tree" /\ result = "none" /\ desc = [iso |-> <<>>, udf |-> <<>>]
      /\ Root \in Dirs(tree) /\ Root \in Nodes(tree)
      /\ place[Root] = [normal |-> 0, joliet |-> 0, sizeN |-> 0, sizeJ |-> 0]
      /\ disc.dir[Root] = NotYet /\ Keys \subseteq DOMAIN disc
  <2>1. IsTree(tree)
    BY InputsAssumption DEF Init
  <2>2. Root \in Dirs(tree) /\ Root \in Nodes(tree)
    BY <2>1 DEF IsTree, Nodes
  <2> QED  BY <2>2 DEF Init, Keys
<1>2. BytesToSec(0) = 0
  <2>1. BytesToSec(0 * SectorSize + 0) = 0 + (IF 0 = 0 THEN 0 ELSE 1)
    <3>1. 0 \in Nat /\ 0 \in 0 .. SectorSize - 1
      BY SectorSizeAssumption
    <3> QED  BY <3>1, BytesToSecIs
  <2>2. 0 * SectorSize + 0 = 0
    BY SectorSizeAssumption
  <2> QED  BY <2>1, <2>2
<1>3. IsoSaid
  <2>1. place[Root].joliet = 0 /\ place[Root].normal = 0 /\ place[Root].sizeN = 0
    BY <1>1
  <2>2. desc.iso = <<>> /\ \A i \in DOMAIN desc.iso : FALSE
    BY <1>1
  <2> QED  BY <1>2, <2>1, <2>2 DEF IsoSaid
<1>4. UdfSaid /\ PlaceSaid
  BY <1>1 DEF UdfSaid, PlaceSaid, AfterEntries, AfterTables
<1> QED
  BY <1>1, <1>3, <1>4 DEF DescInv

(* What is stated stays so while nothing that is reserved changes.         *)
LEMMA IsoSaidKept ==
  ASSUME IsoSaid, UNCHANGED <<fs, tree, mgr>>, place'[Root] = place[Root], desc'.iso = desc.iso,
         pc' \in Early => pc \in Early
  PROVE  IsoSaid'
<1>1. \A d : Stated(d)' <=> Stated(d)
  BY DEF Stated, TableDirs
<1> QED
  BY <1>1 DEF IsoSaid

(* Nothing is stated while sectors are reserved.                           *)
LEMMA IsoSaidEarly ==
  ASSUME IsoSaid, UNCHANGED <<fs, tree>>, place'[Root] = place[Root], desc' = desc, pc \in Early
  PROVE  IsoSaid'
<1>1. desc.iso = <<>> /\ desc'.iso = <<>>
  BY DEF IsoSaid
<1>2. \A i \in DOMAIN desc'.iso : FALSE
  BY <1>1
<1> QED
  BY <1>1, <1>2 DEF IsoSaid

(* The Joliet form of the root directory goes behind the other one.        *)
LEMMA AllocDirSaid ==
  ASSUME Sound(fs, tree), TypeInv, IsoSaid, AllocDir
  PROVE  IsoSaid'
<1> USE DEF Goto, writing
<1> DEFINE normal == CalcDirSectors(fs, tree, Top, Level_, FALSE)
           joliet == IF IsJoliet(fs) THEN CalcDirSectors(fs, tree, Top, Level_, TRUE) ELSE 0
           it == [normal |-> sec, sizeN |-> normal * SectorSize,
                  joliet |-> sec + normal, sizeJ |-> joliet * SectorSize]
<1>1. /\ pc = "dirs" /\ work # <<>> /\ UNCHANGED <<fs, tree, desc>> /\ place' = [place EXCEPT ![Top] = it]
  BY DEF AllocDir
<1>2. IsTree(tree) /\ NamedTree(tree) /\ work \in StackType /\ place \in [Nodes(tree) -> PlaceType]
  BY <1>1, TreeKnown DEF TypeInv, Sound
<1>3. Top \in Dirs(tree) /\ Level_ \in Nat
  BY <1>1, <1>2, TopIs
<1>4. Root \in Nodes(tree)
  BY <1>2 DEF IsTree, Nodes
<1>5. CASE Top = Root
  <2>1. normal \in Nat
    <3>1. NewStream \in StreamType
      BY SectorSizeAssumption DEF NewStream, StreamType
    <3> QED  BY <1>2, <1>3, <3>1, WriteDirTyped
  <2>2. it.normal = sec /\ it.sizeN = normal * SectorSize /\ it.joliet = sec + normal
    OBVIOUS
  <2> HIDE DEF normal, it
  <2>3. BytesToSec(normal * SectorSize) = normal
    <3>1. BytesToSec(normal * SectorSize + 0) = normal + 0
      BY <2>1, BytesToSecIs, SectorSizeAssumption
    <3>2. normal * SectorSize + 0 = normal * SectorSize /\ normal + 0 = normal
      BY <2>1, SectorSizeAssumption
    <3> QED  BY <3>1, <3>2
  <2>4. place'[Root] = it
    BY <1>1, <1>2, <1>4, <1>5
  <2>5. place'[Root].joliet = place'[Root].normal + BytesToSec(place'[Root].sizeN)
    BY <2>2, <2>3, <2>4
  <2>6. desc.iso = <<>> /\ desc'.iso = <<>>
    BY <1>1 DEF IsoSaid, Early
  <2>7. \A i \in DOMAIN desc'.iso : FALSE
    BY <2>6
  <2> QED  BY <2>5, <2>6, <2>7 DEF IsoSaid
<1>6. CASE Top # Root
  <2> HIDE DEF it
  <2>1. place'[Root] = place[Root]
    BY <1>1, <1>2, <1>4, <1>6
  <2> QED  BY <1>1, <2>1, IsoSaidEarly DEF Early
<1> QED
  BY <1>5, <1>6

(* Directories stay where they are when files get their places.            *)
LEMMA PlaceFilesSaid ==
  ASSUME Sound(fs, tree), TypeInv, IsoSaid, PlaceFiles
  PROVE  IsoSaid'
<1> USE DEF Goto, writing
<1> DEFINE S     == Kept(fs, tree)
           start == [sec |-> sec, place |-> place]
           run   == PlaceAll(tree, start, Among(tree.kids[Top], S))
           kids  == tree.kids[Top]
<1>1. /\ pc = "files" /\ work # <<>> /\ UNCHANGED <<fs, tree, desc>> /\ place' = run.place
  <2>1. S = {f \in Files(tree) : ~TooLarge(f)}
    BY DEF Kept, TooLarge
  <2> HIDE DEF S
  <2> QED  BY <2>1 DEF PlaceFiles
<1>2. NamedTree(tree) /\ IsTree(tree)
  BY TreeKnown DEF Sound
<1>3. place \in [Nodes(tree) -> PlaceType] /\ sec \in Nat /\ work \in StackType
  BY <1>1 DEF TypeInv, TypeOK
<1>4. Top \in Dirs(tree)
  BY <1>1, <1>2, <1>3, TopIs
<1>5. start \in RunOf(tree) /\ start.sec = sec /\ start.place = place
  BY <1>3 DEF RunOf
<1>6. S \in SUBSET Files(tree)
  BY DEF Kept
<1> HIDE DEF S
<1>7. PlacedUpTo(run, start, tree, S, Top, Len(kids))
  <2> HIDE DEF start
  <2> QED  BY <1>2, <1>4, <1>5, <1>6, DirPlaced
<1> HIDE DEF run, start
<1>8. \A n \in Nodes(tree) : n \notin S \/ n \notin Range(kids) => run.place[n] = place[n]
  BY <1>5, <1>7 DEF PlacedUpTo
<1>9. Root \in Nodes(tree) /\ Root \notin S
  BY <1>2, <1>6 DEF IsTree, Nodes
<1>10. place'[Root] = place[Root]
  BY <1>1, <1>8, <1>9
<1> QED
  BY <1>1, <1>10, IsoSaidEarly DEF Early

(* The passes that reserve.                                                *)
LEMMA ReserveSaid ==
  ASSUME Sound(fs, tree), TypeInv, DescInv, Reserve
  PROVE  DescInv'
<1> USE DEF Goto, Fail, Return, planning, writing
<1>1. /\ UNCHANGED <<fs, tree, desc, disc>> /\ pc \in Early
      /\ pc' \in {"header", "tables", "dirs", "files", "write header", "end"}
      /\ result' # "OK"
  BY DEF Reserve, CreateTree, AllocHeader, AllocTables, AllocDir, AllocDirsEnd, PlaceFiles,
         PlaceFilesEnd, Early, TypeInv, TypeOK
<1>2. IsoSaid'
  <2>1. CASE AllocDir
    BY <2>1, AllocDirSaid DEF DescInv
  <2>2. CASE PlaceFiles
    BY <2>2, PlaceFilesSaid DEF DescInv
  <2>3. CASE CreateTree \/ AllocHeader \/ AllocTables \/ AllocDirsEnd \/ PlaceFilesEnd
    <3>1. place' = place
      BY <2>3 DEF CreateTree, AllocHeader, AllocTables, AllocDirsEnd, PlaceFilesEnd
    <3> QED  BY <1>1, <3>1, IsoSaidEarly DEF DescInv
  <2> QED  BY <2>1, <2>2, <2>3 DEF Reserve
<1>3. UdfSaid' /\ PlaceSaid'
  BY <1>1 DEF UdfSaid, PlaceSaid, AfterEntries, AfterTables, DescInv
<1> QED
  BY <1>1, <1>2, <1>3 DEF DescInv

(* What is among the volume descriptors.                                   *)
VolumeSet(m, f, t, dirs, root, catalog) ==
  {PrimaryVolume(m, PathTableBytes(f, t, dirs, FALSE), root)}
  \cup {BootRecord(catalog[i]) : i \in DOMAIN catalog}
  \cup (IF IsJoliet(f) THEN {JolietVolume(m, PathTableBytes(f, t, dirs, TRUE), root)} ELSE {})
  \cup {[type |-> "terminator"]}

(* Nothing else is.                                                        *)
LEMMA VolumesAre ==
  ASSUME NEW m, NEW f, NEW t, NEW dirs, NEW root, NEW E, NEW catalog \in Seq(E)
  PROVE  LET volumes == VolumeDescriptors(m, f, t, dirs, root, catalog)
         IN \A i \in DOMAIN volumes : volumes[i] \in VolumeSet(m, f, t, dirs, root, catalog)
<1> DEFINE S    == VolumeSet(m, f, t, dirs, root, catalog)
           prim == PrimaryVolume(m, PathTableBytes(f, t, dirs, FALSE), root)
           jol  == JolietVolume(m, PathTableBytes(f, t, dirs, TRUE), root)
           term == [type |-> "terminator"]
           b    == [i \in DOMAIN catalog |-> BootRecord(catalog[i])]
           s    == IF HasSuppl(f) THEN <<prim>> ELSE <<>>
           j    == IF IsJoliet(f) THEN <<jol>> ELSE <<>>
           all  == <<prim>> \o b \o s \o j \o <<term>>
<1>1. VolumeDescriptors(m, f, t, dirs, root, catalog) = all
  BY DEF VolumeDescriptors, SupplementaryVolume
<1>2. prim \in S /\ term \in S /\ (IsJoliet(f) => jol \in S)
  <2> HIDE DEF prim, jol, term
  <2> QED  BY DEF VolumeSet, prim, jol, term
<1>3. \A T : <<>> \in Seq(T) /\ (\A x \in T : <<x>> \in Seq(T)) /\ \A x, y \in Seq(T) : x \o y \in Seq(T)
  OBVIOUS
<1>4. b \in Seq(S)
  <2>1. DOMAIN catalog = 1 .. Len(catalog) /\ Len(catalog) \in Nat
    OBVIOUS
  <2>2. \A i \in 1 .. Len(catalog) : BootRecord(catalog[i]) \in S
    BY <2>1 DEF VolumeSet
  <2>3. b \in [1 .. Len(catalog) -> S]
    <3> HIDE DEF S
    <3> QED  BY <2>1, <2>2
  <2>4. \A T : \A n \in Nat : \A x \in [1 .. n -> T] : x \in Seq(T)
    OBVIOUS
  <2> HIDE DEF b, S
  <2> QED  BY <2>1, <2>3, <2>4
<1> HIDE DEF S, prim, jol, term, b
<1>5. s \in Seq(S) /\ j \in Seq(S) /\ <<prim>> \in Seq(S) /\ <<term>> \in Seq(S)
  BY <1>2, <1>3
<1> HIDE DEF s, j
<1>6. all \in Seq(S)
  <2>1. <<prim>> \o b \in Seq(S)
    BY <1>3, <1>4, <1>5
  <2>2. (<<prim>> \o b) \o s \in Seq(S)
    BY <1>3, <1>5, <2>1
  <2>3. ((<<prim>> \o b) \o s) \o j \in Seq(S)
    BY <1>3, <1>5, <2>2
  <2> QED  BY <1>3, <1>5, <2>3
<1>7. \A T : \A x \in Seq(T) : \A i \in DOMAIN x : x[i] \in T
  OBVIOUS
<1> HIDE DEF all
<1>8. \A i \in DOMAIN all : all[i] \in S
  BY <1>6, <1>7
<1> QED
  BY <1>1, <1>8 DEF S

(* The primary and the Joliet descriptors state what is reserved.          *)
LEMMA VolumesStated ==
  ASSUME NEW E, NEW record \in Seq(E),
         NEW d \in VolumeSet(mgr, fs, tree, TableDirs, place[Root], record)
  PROVE  Stated(d)
<1> DEFINE prim == PrimaryVolume(mgr, PathTableBytes(fs, tree, TableDirs, FALSE), place[Root])
           jol  == JolietVolume(mgr, PathTableBytes(fs, tree, TableDirs, TRUE), place[Root])
<1>1. prim.type = "primary" /\ jol.type = "joliet"
  BY DEF PrimaryVolume, JolietVolume, Volume
<1>2. \A x : BootRecord(x).type \notin {"primary", "joliet"}
  BY DEF BootRecord
<1>3. \/ d = prim
      \/ \E i \in DOMAIN record : d = BootRecord(record[i])
      \/ IsJoliet(fs) /\ d = jol
      \/ d = [type |-> "terminator"]
  <2> HIDE DEF prim, jol
  <2> QED  BY DEF VolumeSet, prim, jol
<1>4. [type |-> "terminator"].type = "terminator"
  OBVIOUS
<1> HIDE DEF prim, jol
<1> QED
  BY <1>1, <1>2, <1>3, <1>4 DEF Stated, prim, jol

(* The header says where the path tables and the root directories are.     *)
LEMMA WriteHeaderSaid ==
  ASSUME Sound(fs, tree), TypeInv, PlacesInv, DescInv, WriteHeader
  PROVE  DescInv'
<1> USE DEF Goto, Fail, Return, planning, writing
<1>1. /\ UNCHANGED <<fs, tree, mgr, place>> /\ pc = "write header" /\ pc' \in {"write udf", "end"}
      /\ result' # "OK"
  BY DEF WriteHeader, TypeInv, TypeOK
<1>2. UdfSaid' /\ ~AfterTables'
  BY <1>1 DEF UdfSaid, AfterEntries, AfterTables
<1>3. PlaceSaid' /\ Keys \subseteq DOMAIN disc'
  <2>1. disc'.dir[Root] = disc.dir[Root] /\ Keys \subseteq DOMAIN disc'
    BY DEF WriteHeader, DescInv, Keys
  <2>2. disc.dir[Root] = NotYet
    <3>1. Root \in Dirs(tree)
      BY TreeKnown DEF IsTree
    <3> QED  BY <1>1, <3>1 DEF PlacesInv, Untouched, Early
  <2> QED  BY <1>1, <1>2, <2>1, <2>2 DEF PlaceSaid
<1>4. CASE UNCHANGED desc
  <2>1. IsoSaid'
    BY <1>1, <1>4, IsoSaidKept DEF DescInv, Early
  <2> QED  BY <1>2, <1>3, <1>4, <2>1 DEF DescInv
<1>5. CASE IsIso(fs) /\ ~(fs.extended /\ InTree(fs.catalog) /\ fs.images = <<>>)
  <2> DEFINE record == IF fs.images = <<>> THEN <<>>
                       ELSE IF ~fs.extended THEN <<GetStart(mgr, "bootcatalog")>>
                       ELSE IF InTree(fs.catalog) THEN <<place[fs.catalog].normal>> ELSE <<>>
             volumes == VolumeDescriptors(mgr, fs, tree, TableDirs, place[Root], record)
  <2>1. desc' = [desc EXCEPT !.iso = volumes]
    BY <1>5 DEF WriteHeader
  <2>2. \E E : record \in Seq(E)
    <3> DEFINE x == GetStart(mgr, "bootcatalog")
               y == place[fs.catalog].normal
    <3>1. record \in Seq({x, y})
      <4>1. record \in {<<>>, <<x>>, <<y>>}
        OBVIOUS
      <4> HIDE DEF x, y, record
      <4>2. <<>> \in Seq({x, y}) /\ <<x>> \in Seq({x, y}) /\ <<y>> \in Seq({x, y})
        OBVIOUS
      <4> QED  BY <4>1, <4>2
    <3> QED  BY <3>1
  <2> HIDE DEF record
  <2>3. \A i \in DOMAIN volumes : volumes[i] \in VolumeSet(mgr, fs, tree, TableDirs, place[Root], record)
    BY <2>2, VolumesAre
  <2>4. \A i \in DOMAIN volumes : Stated(volumes[i])
    BY <2>2, <2>3, VolumesStated
  <2> HIDE DEF volumes
  <2>5. desc'.iso = volumes /\ {"iso", "udf"} \subseteq DOMAIN desc'
    BY <2>1 DEF DescInv
  <2>6. \A d : Stated(d)' <=> Stated(d)
    BY <1>1 DEF Stated, TableDirs
  <2>7. IsoSaid'
    BY <1>1, <1>5, <2>4, <2>5, <2>6 DEF IsoSaid, DescInv, Early
  <2> QED  BY <1>2, <1>3, <2>5, <2>7 DEF DescInv
<1> QED
  <2>1. CASE ~IsIso(fs) \/ (fs.extended /\ InTree(fs.catalog) /\ fs.images = <<>>)
    <3>1. UNCHANGED desc
      BY <2>1 DEF WriteHeader
    <3> QED  BY <1>4, <3>1
  <2> QED  BY <1>5, <2>1

(* UDF is stated when its descriptors are written, at the places that were *)
(* reserved: the header of ISO9660 before them fits.                       *)
LEMMA WriteUdfSaid ==
  ASSUME Sound(fs, tree), TypeInv, EntriesInv, PlacesInv, DescInv, WriteUdf
  PROVE  DescInv'
<1> USE DEF Goto, planning
<1>1. /\ pc = "write udf" /\ pc' \in {"write entries", "write tables"} /\ result' = result
      /\ UNCHANGED <<fs, tree, mgr, place>> /\ result # "OK"
  BY DEF WriteUdf, TypeInv, TypeOK
<1>2. DiscOf(tree, disc) /\ HeaderLaid(mgr, fs) /\ out = At(HeaderSectors(fs))
  BY <1>1 DEF PlacesInv, Reserving, Storing, Planned, Late
<1>3. NamedTree(tree) /\ AreImages(fs.images) /\ Regular(fs, tree) /\ Root \in Nodes(tree)
  BY DEF Sound, NamedTree, IsTree, Nodes
<1>4. IsoSaid'
  <2>1. desc'.iso = desc.iso
    BY DEF WriteUdf, DescInv
  <2> QED  BY <1>1, <2>1, IsoSaidKept DEF DescInv, Early
<1>5. ~AfterTables' /\ result' # "OK"
  BY <1>1 DEF AfterTables
<1>6. ASSUME disc'.dir = disc.dir, disc'.region["direntries"] = disc.region["direntries"]
      PROVE  PlaceSaid'
  BY <1>5, <1>6 DEF PlaceSaid, DescInv
<1>7. CASE ~IsUdf(fs)
  <2>1. UdfSaid'
    BY <1>1, <1>7 DEF UdfSaid
  <2>2. UNCHANGED <<disc, desc>>
    BY <1>7 DEF WriteUdf
  <2> QED  BY <1>4, <1>6, <2>1, <2>2 DEF DescInv
<1>8. CASE IsUdf(fs)
  <2> DEFINE hs == HeaderSectors(fs)
             main == WriteSectors(out, 3)
             anchor == WriteSectors(main, MainSectors(GetStart(mgr, "main")))
             seqs == <<Now(WriteSectors(main, 2)), Now(WriteSectors(main, 2 + MainSequence))>>
  <2>1. /\ disc' = [disc EXCEPT !.region["initial"] = Now(out), !.region["main"] = Now(main),
                                !.volumes = seqs, !.anchor = Now(anchor),
                                !.region["fileset"] = Now(anchor) + 2]
        /\ udf' = [udf EXCEPT ![Root].loc = 1] /\ desc' = [desc EXCEPT !.udf = UdfDescriptors(mgr, tree)]
    BY <1>8 DEF WriteUdf
  <2>2. hs \in Nat /\ hs + 19 <= 222
    BY <1>3, <1>8, HeaderFits, StartsNat
  <2>3. mgr.start["main"] = 19 + hs /\ mgr.start["fileset"] = 258 /\ GetStart(mgr, "main") = 19 + hs
    BY <1>2, <1>8 DEF HeaderLaid, GetStart
  <2>4. out = At(hs)
    BY <1>2
  <2>5. DOMAIN disc.region = Regions /\ {"main", "initial", "fileset", "direntries"} \subseteq Regions /\ Keys \subseteq DOMAIN disc
    BY <1>2, RegionsHave DEF DiscOf, DescInv
  <2> HIDE DEF hs, seqs
  <2>6. MainSectors(19 + hs) = 237 - hs /\ 237 - hs \in Nat
    BY <2>2 DEF MainSectors, MainSequence, AnchorSector
  <2>7. main = At(hs + 3) /\ hs + 3 \in Nat
    BY <2>2, <2>4, WholeSectors
  <2> HIDE DEF main
  <2>8. anchor = At(hs + 3 + (237 - hs))
    BY <2>3, <2>6, <2>7, WholeSectors
  <2>9. hs + 3 + (237 - hs) = 240
    BY <2>2
  <2>10. seqs = <<19 + hs + 2, 19 + hs + 2 + MainSequence>>
    <3>1. WriteSectors(main, 2) = At(hs + 3 + 2)
      BY <2>7, WholeSectors
    <3>2. 2 + MainSequence \in Nat
      BY DEF MainSequence
    <3>3. WriteSectors(main, 2 + MainSequence) = At(hs + 3 + (2 + MainSequence))
      BY <2>7, <3>2, WholeSectors
    <3>4. /\ 16 + (hs + 3 + 2) = 19 + hs + 2
          /\ 16 + (hs + 3 + (2 + MainSequence)) = 19 + hs + 2 + MainSequence
      BY <2>2 DEF MainSequence
    <3> QED  BY <3>1, <3>3, <3>4 DEF seqs, Now, At
  <2>11. Now(main) = 19 + hs /\ Now(anchor) = AnchorSector
    <3> HIDE DEF anchor
    <3>1. 16 + (hs + 3) = 19 + hs
      BY <2>2
    <3> QED  BY <2>7, <2>8, <2>9, <3>1 DEF Now, At, AnchorSector
  <2> HIDE DEF anchor
  <2>12. /\ disc'.region = [disc.region EXCEPT !["initial"] = Now(out), !["main"] = Now(main),
                                               !["fileset"] = Now(anchor) + 2]
         /\ disc'.volumes = seqs /\ disc'.anchor = Now(anchor)
    BY <2>1, <2>5 DEF Keys
  <2>13. disc'.region["main"] = Now(main)
    BY <2>5, <2>12
  <2>14. udf'[Root].loc = 1
    <3>1. DOMAIN udf = Nodes(tree) /\ "loc" \in DOMAIN udf[Root]
      BY <1>3 DEF EntriesInv, UniqueInv, Fields
    <3> QED  BY <1>3, <2>1, <3>1
  <2>15. desc'.udf = UdfDescriptors(mgr, tree)
    BY <2>1 DEF DescInv
  <2>16. 19 + hs + MainSectors(19 + hs) = AnchorSector
    BY <2>2, <2>6 DEF AnchorSector
  <2>17. /\ disc'.dir = disc.dir /\ disc'.region["direntries"] = disc.region["direntries"]
         /\ {"iso", "udf"} \subseteq DOMAIN desc' /\ Keys \subseteq DOMAIN disc'
    <3>1. disc'.dir = disc.dir /\ Keys \subseteq DOMAIN disc' /\ {"iso", "udf"} \subseteq DOMAIN desc'
      BY <2>1, <2>5 DEF Keys, DescInv
    <3> QED  BY <2>5, <2>12, <3>1
  <2>18. UdfStated'
    <3> DEFINE first == mgr.start["main"]
    <3>1. disc'.region["main"] = first /\ disc'.anchor = AnchorSector
      BY <2>3, <2>11, <2>12, <2>13
    <3>2. disc'.volumes = <<first + 2, first + 2 + MainSequence>>
      BY <2>3, <2>10, <2>12
    <3>3. first + MainSectors(first) = AnchorSector
      BY <2>3, <2>16
    <3> QED  BY <1>1, <2>3, <2>14, <2>15, <3>1, <3>2, <3>3 DEF UdfStated
  <2> QED  BY <1>4, <1>6, <2>17, <2>18 DEF DescInv, UdfSaid
<1> QED
  BY <1>7, <1>8

(* What a step that writes leaves as the descriptors say.                  *)
LEMMA DescKept ==
  ASSUME DescInv, UNCHANGED <<fs, tree, mgr, place, desc>>, pc \notin Early, pc' \notin Early,
         Keys \subseteq DOMAIN disc', disc'.region["main"] = disc.region["main"],
         disc'.anchor = disc.anchor, disc'.volumes = disc.volumes, udf'[Root].loc = udf[Root].loc,
         pc' = "write entries" \/ AfterEntries' => pc = "write entries" \/ AfterEntries,
         PlaceSaid'
  PROVE  DescInv'
<1>1. IsoSaid'
  BY IsoSaidKept DEF DescInv
<1>2. UdfSaid'
  BY DEF UdfSaid, UdfStated, DescInv
<1> QED
  BY <1>1, <1>2 DEF DescInv

(* The regions and the root directory stay where they are.                 *)
LEMMA PlaceKept ==
  ASSUME PlaceSaid, UNCHANGED fs, disc'.dir = disc.dir, disc'.region = disc.region,
         result' # "OK", AfterTables' => AfterTables
  PROVE  PlaceSaid'
  BY DEF PlaceSaid, TablesWritten

(* The entry of a node: the root's stays where it is.                      *)
LEMMA WriteEntrySaid ==
  ASSUME TypeInv, EntriesInv, DescInv, WriteEntry
  PROVE  DescInv'
<1> USE DEF Goto, Fail, Return, planning, writing
<1>1. /\ UNCHANGED <<fs, tree, mgr, place, desc>> /\ pc = "write entries"
      /\ pc' \in {"write entries", "end"} /\ result' # "OK"
  BY DEF WriteEntry, TypeInv, TypeOK
<1>2. Fields /\ Walk
  BY <1>1 DEF EntriesInv, UniqueInv
<1>3. /\ Keys \subseteq DOMAIN disc'
      /\ disc'.dir = disc.dir /\ disc'.region = disc.region
      /\ disc'.anchor = disc.anchor /\ disc'.volumes = disc.volumes
  <2>1. disc' = disc \/ disc' = [disc EXCEPT !.entry[Head(work)] = Now(out), !.tag[Head(work)] = part.sec]
    BY DEF WriteEntry
  <2> QED  BY <2>1 DEF DescInv, Keys
<1>4. udf'[Root].loc = udf[Root].loc
  <2>1. (Root \in Nodes(tree) /\ Head(work) \in Nodes(tree)) \/ udf' = udf
    <3>1. work # <<>> => Head(work) \in Nodes(tree)
      <4>1. \A S : \A s \in Seq(S) : s # <<>> => Head(s) \in S
        OBVIOUS
      <4> QED  BY <1>2, <4>1 DEF Walk
    <3> QED  BY <1>2, <3>1 DEF WriteEntry, Fields, IsTree, Nodes
  <2>2. CASE udf' = udf
    BY <2>2
  <2>3. CASE Head(work) \notin Dirs(tree) /\ udf' # udf
    <3>1. udf' = [udf EXCEPT ![Head(work)].ident = part.ident]
      BY <2>3 DEF WriteEntry
    <3> QED  BY <1>2, <2>1, <2>3, <3>1 DEF Fields
  <2>4. CASE Head(work) \in Dirs(tree) /\ udf' # udf
    <3>1. ~EntryRefused(Head(work))
      BY <2>4 DEF WriteEntry
    <3> DEFINE kids == tree.kids[Head(work)]
               locs == ChildEntries(fs, tree, Head(work), part.sec)
    <3>2. udf' = UdfOf(Head(work), kids, locs)
      BY <2>4, <3>1, DirUdf
    <3>3. Root \notin Range(kids)
      <4>1. kids \in Seq(Nodes(tree) \ {Root})
        BY <1>2, <2>4 DEF Fields, IsTree
      <4>2. \A S : \A s \in Seq(S) : Range(s) \subseteq S
        BY DEF Range
      <4> HIDE DEF kids
      <4> QED  BY <4>1, <4>2
    <3> HIDE DEF kids, locs
    <3>4. udf'[Root] = IF Root = Head(work) THEN [udf[Head(work)] EXCEPT !.ident = part.ident] ELSE udf[Root]
      BY <2>1, <2>4, <3>2, <3>3 DEF UdfOf
    <3> QED  BY <1>2, <2>1, <2>4, <3>4 DEF Fields
  <2> QED  BY <2>2, <2>3, <2>4
<1>5. PlaceSaid'
  BY <1>1, <1>3, PlaceKept DEF DescInv, AfterTables
<1> QED
  BY <1>1, <1>3, <1>4, <1>5, DescKept DEF Early

(* The path tables are written.                                            *)
LEMMA WriteTablesSaid ==
  ASSUME Sound(fs, tree), TypeInv, PlacesInv, ReachInv, DescInv, WriteTables
  PROVE  DescInv'
<1> USE DEF Goto, planning
<1> DEFINE l  == WritePathTable(out, fs, tree, TableDirs, FALSE)
           m  == WritePathTable(l, fs, tree, TableDirs, FALSE)
           jl == WritePathTable(m, fs, tree, TableDirs, TRUE)
           jm == WritePathTable(jl, fs, tree, TableDirs, TRUE)
           at == TablesStart(fs, tree)
           normal == [disc.region EXCEPT !["path L"] = Now(out), !["path M"] = Now(l)]
           both   == [normal EXCEPT !["joliet path L"] = Now(m), !["joliet path M"] = Now(jl)]
<1>1. /\ pc = "write tables" /\ pc' \in {"write dirs", "write data"} /\ result' # "OK"
      /\ UNCHANGED <<fs, tree, mgr, place, desc, udf>>
      /\ IF ~IsIso(fs) THEN UNCHANGED disc
         ELSE IF IsJoliet(fs) THEN disc' = [disc EXCEPT !.region = both]
         ELSE disc' = [disc EXCEPT !.region = normal]
  BY DEF WriteTables, TypeInv, TypeOK
<1>2. DiscOf(tree, disc) /\ StreamAt(out, at) /\ NamedTree(tree)
  BY <1>1 DEF PlacesInv, Storing, Sound
<1>3. TablesAt(l, m, jl, jm, at, fs, tree)
  <2>1. TableDirs = ReachedDirs(tree, GetMaxDirLevel(fs)) \ {Root}
    BY DEF TableDirs
  <2>2. /\ l  = WritePathTable(out, fs, tree, TableDirs, FALSE)
        /\ m  = WritePathTable(l, fs, tree, TableDirs, FALSE)
        /\ jl = WritePathTable(m, fs, tree, TableDirs, TRUE)
        /\ jm = WritePathTable(jl, fs, tree, TableDirs, TRUE)
    OBVIOUS
  <2> HIDE DEF l, m, jl, jm, at
  <2> QED  BY <1>2, <2>1, <2>2, TablesBehind
<1> HIDE DEF l, m, jl, jm, at
<1>4. Now(out) # NotYet /\ Now(l) # NotYet /\ Now(m) # NotYet /\ Now(jl) # NotYet
  <2>1. \A s, x : StreamAt(s, x) => Now(s) # NotYet
    BY NowAt DEF NotYet
  <2> QED  BY <1>2, <1>3, <2>1 DEF TablesAt
<1>5. /\ DOMAIN disc.region = Regions
      /\ \A r \in {"path L", "path M", "joliet path L", "joliet path M", "main", "direntries"} : r \in Regions
  BY <1>2, RegionsHave DEF DiscOf
<1>6. /\ DOMAIN normal = Regions /\ DOMAIN both = Regions
      /\ \A s \in {normal, both} : /\ s["main"] = disc.region["main"] /\ s["direntries"] = disc.region["direntries"]
                                   /\ s["path L"] # NotYet /\ s["path M"] # NotYet
      /\ both["joliet path L"] # NotYet /\ both["joliet path M"] # NotYet
  BY <1>4, <1>5
<1> HIDE DEF normal, both
<1>7. /\ Keys \subseteq DOMAIN disc' /\ disc'.dir = disc.dir
      /\ disc'.anchor = disc.anchor /\ disc'.volumes = disc.volumes
      /\ IsIso(fs) => disc'.region = IF IsJoliet(fs) THEN both ELSE normal
      /\ ~IsIso(fs) => disc'.region = disc.region
  BY <1>1 DEF DescInv, Keys
<1>8. /\ disc'.region["main"] = disc.region["main"] /\ disc'.region["direntries"] = disc.region["direntries"]
      /\ IsIso(fs) => TablesWritten'
  BY <1>1, <1>6, <1>7 DEF TablesWritten
<1>9. PlaceSaid'
  BY <1>1, <1>7, <1>8 DEF PlaceSaid, DescInv
<1> QED
  BY <1>1, <1>7, <1>8, <1>9, DescKept DEF Early, AfterEntries

(* The directories begin with the root.                                    *)
Begins(d) == d.dir[Root] # NotYet => d.region["direntries"] = d.dir[Root]

Keeps(d, e) ==
  /\ Keys \subseteq DOMAIN e /\ e.anchor = d.anchor /\ e.volumes = d.volumes
  /\ \A r \in Regions \ {"direntries"} : e.region[r] = d.region[r]

Form(d, top, here, e) ==
  e = OneForm(d, top, here) \/ \E behind : e = BothForms(d, top, here, behind, TRUE)

(* They do so whatever form of a directory is written.                     *)
LEMMA FormsKeep ==
  ASSUME NEW d, Keys \subseteq DOMAIN d, DOMAIN d.region = Regions, NEW S, DOMAIN d.dir = S, Root \in S,
         NEW top \in S, NEW here, NEW e, Form(d, top, here, e), Begins(d)
  PROVE  Keeps(d, e) /\ Begins(e)
<1> DEFINE one == OneForm(d, top, here)
<1>1. "direntries" \in Regions
  BY RegionsHave
<1>2. /\ DOMAIN one = DOMAIN d /\ one.anchor = d.anchor /\ one.volumes = d.volumes
      /\ one.dir = [d.dir EXCEPT ![top] = here]
      /\ one.region = IF top = Root THEN [d.region EXCEPT !["direntries"] = here] ELSE d.region
  BY DEF OneForm, Keys
<1> HIDE DEF one
<1>3. /\ DOMAIN e = DOMAIN d /\ e.anchor = d.anchor /\ e.volumes = d.volumes
      /\ e.dir = one.dir /\ e.region = one.region
  <2>1. CASE e = OneForm(d, top, here)
    BY <1>2, <2>1 DEF one
  <2>2. CASE \E behind : e = BothForms(d, top, here, behind, TRUE)
    <3>1. PICK behind : e = BothForms(d, top, here, behind, TRUE)
      BY <2>2
    <3>2. e = [one EXCEPT !.jdir[top] = behind]
      BY <3>1 DEF BothForms, one
    <3> QED  BY <1>2, <3>2 DEF Keys
  <2> QED  BY <2>1, <2>2 DEF Form
<1>4. CASE top = Root
  BY <1>1, <1>2, <1>3, <1>4 DEF Keeps, Begins
<1>5. CASE top # Root
  BY <1>2, <1>3, <1>5 DEF Keeps, Begins
<1> QED
  BY <1>4, <1>5

(* A directory is written.                                                 *)
LEMMA WriteDirEntrySaid ==
  ASSUME Sound(fs, tree), TypeInv, PlacesInv, DescInv, WriteDirEntry
  PROVE  DescInv'
<1> USE DEF Goto, planning
<1> DEFINE normal == WriteDir(out, fs, tree, Top, Level_, FALSE)
           isoDir == [disc EXCEPT !.dir[Top] = Now(out)]
           first  == IF Top = Root THEN [isoDir EXCEPT !.region["direntries"] = Now(out)] ELSE isoDir
           both   == [first EXCEPT !.jdir[Top] = Now(normal)]
<1>1. /\ UNCHANGED <<fs, tree, mgr, place, desc, udf>> /\ pc = "write dirs" /\ work # <<>>
      /\ pc' \in {"write dirs", "end"} /\ result' # "OK"
      /\ disc' \in {disc, first, both}
  BY DEF WriteDirEntry, TypeInv, TypeOK
<1>2. first = OneForm(disc, Top, Now(out)) /\ both = BothForms(disc, Top, Now(out), Now(normal), TRUE)
  BY DEF OneForm, BothForms
<1>3. DOMAIN disc.region = Regions /\ DOMAIN disc.dir = Dirs(tree) /\ Root \in Dirs(tree) /\ Top \in Dirs(tree)
  <2>1. IsTree(tree) /\ work \in StackType
    BY <1>1, TreeKnown DEF TypeInv
  <2> QED  BY <1>1, <2>1, TopIs DEF PlacesInv, DiscOf, IsTree
<1> HIDE DEF first, both, normal
<1>4. /\ Keys \subseteq DOMAIN disc' /\ disc'.anchor = disc.anchor /\ disc'.volumes = disc.volumes
      /\ \A r \in Regions \ {"direntries"} : disc'.region[r] = disc.region[r]
      /\ disc'.dir[Root] # NotYet => disc'.region["direntries"] = disc'.dir[Root]
  <2>1. Keys \subseteq DOMAIN disc /\ (disc.dir[Root] # NotYet => disc.region["direntries"] = disc.dir[Root])
    BY DEF DescInv, PlaceSaid
  <2>2. CASE disc' = disc
    BY <2>1, <2>2
  <2>3. CASE disc' # disc
    <3>1. Form(disc, Top, Now(out), disc') /\ Begins(disc)
      BY <1>1, <1>2, <2>1, <2>3 DEF Form, Begins
    <3>2. Keeps(disc, disc') /\ Begins(disc')
      BY <1>3, <2>1, <3>1, FormsKeep
    <3> QED  BY <3>2 DEF Keeps, Begins
  <2> QED  BY <2>2, <2>3
<1>5. disc'.region["main"] = disc.region["main"] /\ (TablesWritten => TablesWritten')
  <2>1. \A r \in {"path L", "path M", "joliet path L", "joliet path M", "main"} : r \in Regions \ {"direntries"}
    BY RegionsHave
  <2> QED  BY <1>1, <1>4, <2>1 DEF TablesWritten
<1>6. PlaceSaid'
  BY <1>1, <1>4, <1>5 DEF PlaceSaid, DescInv, AfterTables
<1> QED
  BY <1>1, <1>4, <1>5, <1>6, DescKept DEF Early, AfterEntries

(* The steps between.                                                      *)
LEMMA BetweenSaid ==
  ASSUME TypeInv, PlacesInv, DescInv,
         \/ WriteEntriesEnd \/ WriteDirsEnd \/ OpenDir \/ SeeCancel \/ SkipChild \/ WriteFile
         \/ CloseDir \/ WriteDataEnd \/ BootImageLost
  PROVE  DescInv'
<1> USE DEF Goto, Fail, Return, planning, writing
<1>1. CASE WriteEntriesEnd \/ WriteDirsEnd \/ OpenDir \/ SeeCancel \/ SkipChild \/ CloseDir \/ WriteDataEnd
  <2>1. /\ UNCHANGED <<fs, tree, mgr, place, desc, disc, udf>>
        /\ pc \in {"write entries", "write dirs", "write data"}
        /\ pc' \in {"write tables", "write data", "tail", "end"}
        /\ AfterTables' => AfterTables
        /\ AfterEntries' => pc = "write entries" \/ AfterEntries
        /\ result' # "OK"
    BY <1>1 DEF WriteEntriesEnd, WriteDirsEnd, OpenDir, SeeCancel, SkipChild, CloseDir, WriteDataEnd,
                AtChild, AfterTables, AfterEntries, TypeInv, TypeOK
  <2>2. PlaceSaid' /\ Keys \subseteq DOMAIN disc'
    BY <2>1, PlaceKept DEF DescInv
  <2> QED  BY <2>1, <2>2, DescKept DEF Early
<1>2. CASE WriteFile
  <2>1. /\ UNCHANGED <<fs, tree, mgr, place, desc, udf>> /\ pc = "write data"
        /\ pc' \in {"write data", "end"} /\ result' # "OK"
        /\ disc' = disc \/ disc' = [disc EXCEPT !.data[Child] = Now(out)]
    BY <1>2 DEF WriteFile, AtChild, TypeInv, TypeOK
  <2>2. /\ Keys \subseteq DOMAIN disc' /\ disc'.dir = disc.dir /\ disc'.region = disc.region
        /\ disc'.anchor = disc.anchor /\ disc'.volumes = disc.volumes
    BY <2>1 DEF DescInv, Keys
  <2>3. PlaceSaid'
    BY <2>1, <2>2, PlaceKept DEF DescInv, AfterTables
  <2> QED  BY <2>1, <2>2, <2>3, DescKept DEF Early, AfterEntries
<1>3. CASE BootImageLost
  <2>1. UNCHANGED <<fs, tree, mgr, place, desc, disc>> /\ pc = "write header" /\ pc' = "end" /\ result' # "OK"
    BY <1>3 DEF BootImageLost
  <2>2. IsoSaid'
    BY <2>1, IsoSaidKept DEF DescInv, Early
  <2>3. UdfSaid' /\ ~AfterTables'
    BY <2>1 DEF UdfSaid, AfterEntries, AfterTables
  <2>4. PlaceSaid'
    BY <2>1, <2>3, PlaceKept DEF DescInv
  <2> QED  BY <2>1, <2>2, <2>3, <2>4 DEF DescInv
<1> QED
  BY <1>1, <1>2, <1>3

(* The last anchor is where the data ends.                                 *)
LEMMA WriteTailSaid ==
  ASSUME TypeInv, PlacesInv, DescInv, WriteTail
  PROVE  DescInv'
<1> USE DEF Return, planning
<1> DEFINE last == mgr.dataStart + mgr.dataLen
<1>1. /\ UNCHANGED <<fs, tree, mgr, place, desc, udf>> /\ pc = "tail" /\ pc' = "end" /\ result' = "OK"
      /\ IF IsUdf(fs) THEN out' = WriteSectors(out, 1) /\ disc' = [disc EXCEPT !.tail = Now(out)]
         ELSE out' = out /\ disc' = disc
  BY DEF WriteTail
<1>2. StreamAt(out, last)
  BY <1>1 DEF PlacesInv, Storing
<1>3. last \in Nat /\ last >= 16 /\ Now(out) = last /\ out = At(last - 16)
  BY <1>2, NowAt DEF StreamAt
<1> HIDE DEF last
<1>4. /\ Keys \subseteq DOMAIN disc' /\ disc'.dir = disc.dir /\ disc'.region = disc.region
      /\ disc'.anchor = disc.anchor /\ disc'.volumes = disc.volumes
      /\ IsUdf(fs) => disc'.tail = last
  BY <1>1, <1>3 DEF DescInv, Keys
<1>5. IsUdf(fs) => Now(out') = last + 1
  <2>1. last - 16 \in Nat
    BY <1>3
  <2>2. WriteSectors(At(last - 16), 1) = At(last - 16 + 1)
    BY <2>1, WholeSectors
  <2>3. 16 + (last - 16 + 1) = last + 1
    BY <1>3
  <2> QED  BY <1>1, <1>3, <2>2, <2>3 DEF Now, At
<1>6. EndReached'
  BY <1>1, <1>3, <1>4, <1>5 DEF EndReached, last
<1>7. TablesWritten => TablesWritten'
  BY <1>1, <1>4 DEF TablesWritten
<1>8. PlaceSaid'
  BY <1>1, <1>4, <1>6, <1>7 DEF PlaceSaid, DescInv, AfterTables
<1> QED
  BY <1>1, <1>4, <1>8, DescKept DEF Early, AfterEntries

(* Every step keeps what is stated true.                                   *)
LEMMA DescStep ==
  ASSUME Sound(fs, tree), TypeInv, EntriesInv, PlacesInv, ReachInv, DescInv, [Next]_vars
  PROVE  DescInv'
<1>1. CASE Reserve
  BY <1>1, ReserveSaid
<1>2. CASE WriteHeader
  BY <1>2, WriteHeaderSaid
<1>3. CASE WriteUdf
  BY <1>3, WriteUdfSaid
<1>4. CASE WriteEntry
  BY <1>4, WriteEntrySaid
<1>5. CASE WriteTables
  BY <1>5, WriteTablesSaid
<1>6. CASE WriteDirEntry
  BY <1>6, WriteDirEntrySaid
<1>7. CASE \/ WriteEntriesEnd \/ WriteDirsEnd \/ OpenDir \/ SeeCancel \/ SkipChild \/ WriteFile
           \/ CloseDir \/ WriteDataEnd \/ BootImageLost
  BY <1>7, BetweenSaid
<1>8. CASE WriteTail
  BY <1>8, WriteTailSaid
<1>9. CASE RequestCancel \/ ChangeFile \/ Returned \/ UNCHANGED vars
  <2>1. UNCHANGED <<fs, tree, pc, mgr, place, desc, disc, udf, out, result>>
    BY <1>9 DEF RequestCancel, ChangeFile, Returned, vars, planning, writing
  <2>2. IsoSaid'
    BY <2>1, IsoSaidKept DEF DescInv
  <2>3. UdfSaid' /\ PlaceSaid'
    BY <2>1 DEF DescInv, UdfSaid, UdfStated, PlaceSaid, TablesWritten, EndReached, AfterTables, AfterEntries
  <2> QED  BY <2>1, <2>2, <2>3 DEF DescInv
<1> QED
  BY <1>1, <1>2, <1>3, <1>4, <1>5, <1>6, <1>7, <1>8, <1>9 DEF Next, Write

(* What is stated of a region is where it is, once the region is written.  *)
LEMMA RegionStated ==
  ASSUME PlacesInv, result = "OK", NEW r \in Regions, disc.region[r] # NotYet
  PROVE  GetStart(mgr, r) = disc.region[r]
BY DEF PlacesInv, Sure, AsPlanned, Placed, GetStart

(* A descriptor of ISO9660 or Joliet states how the image turned out.      *)
LEMMA IsoDescribedFrom ==
  ASSUME Sound(fs, tree), TypeInv, PlacesInv, ReachInv, DescInv, result = "OK",
         NEW d, Stated(d), d.type \in {"primary", "joliet"}, IsIso(fs)
  PROVE  IsoDescribed(d)
<1> DEFINE joliet == d.type = "joliet"
           last == mgr.dataStart + mgr.dataLen
<1>1. /\ NamedTree(tree) /\ Root \in Dirs(tree) /\ TableDirs \in SUBSET Dirs(tree)
  BY DEF Sound, NamedTree, IsTree, TableDirs, ReachedDirs
<1>2. /\ EndReached /\ TablesWritten
      /\ disc.dir[Root] # NotYet => disc.region["direntries"] = disc.dir[Root]
      /\ place[Root].joliet = place[Root].normal + BytesToSec(place[Root].sizeN)
  BY DEF DescInv, PlaceSaid, AfterTables, IsoSaid
<1>3. WrittenDir(Root)
  <2>1. Root \in Reached
    <3>1. IsTree(tree) /\ IsFiniteSet(Dirs(tree)) /\ GetMaxDirLevel(fs) \in Nat \ {0}
      BY TreeKnown
    <3>2. Level(tree)[Root] = 1
      BY <3>1, LevelIs
    <3> QED  BY <1>1, <3>1, <3>2 DEF Reached, ReachedDirs
  <2> QED  BY <2>1 DEF ReachInv, DirsDone
<1>4. \A r \in {"path L", "path M", "joliet path L", "joliet path M", "direntries"} :
        r \in Regions /\ (disc.region[r] # NotYet => GetStart(mgr, r) = disc.region[r])
  BY RegionsHave, RegionStated
<1>5. /\ GetStart(mgr, "direntries") = disc.dir[Root] /\ disc.dir[Root] = place[Root].normal
      /\ IsJoliet(fs) => disc.jdir[Root] = place[Root].joliet
  <2>1. disc.region["direntries"] = disc.dir[Root] /\ disc.dir[Root] # NotYet
    BY <1>2, <1>3 DEF WrittenDir
  <2>2. Placed(disc.dir[Root], place[Root].normal) /\ Placed(disc.jdir[Root], place[Root].joliet)
    BY <1>1 DEF PlacesInv, Sure, AsPlanned
  <2> QED  BY <1>3, <1>4, <2>1, <2>2 DEF WrittenDir, Placed
<1>6. IsJoliet(fs) => GetStart(mgr, "direntries") + BytesToSec(place[Root].sizeN) = disc.jdir[Root]
  BY <1>2, <1>5
<1>7. last = IF IsUdf(fs) THEN disc.tail ELSE Now(out)
  BY <1>2 DEF EndReached
<1> HIDE DEF last
<1>8. CASE d.type = "primary"
  <2> DEFINE size == PathTableBytes(fs, tree, TableDirs, FALSE)
  <2>1. d = PrimaryVolume(mgr, size, place[Root])
    BY <1>8 DEF Stated
  <2>2. size = PathTableLength(fs, tree, TableDirs, FALSE)
    BY <1>1, TablesAgree
  <2> HIDE DEF size
  <2>3. /\ d.space = last /\ d.tableSize = size /\ d.tableL = GetStart(mgr, "path L")
        /\ d.tableM = GetStart(mgr, "path M") /\ d.root = GetStart(mgr, "direntries")
        /\ d.rootLen = place[Root].sizeN
    BY <2>1 DEF PrimaryVolume, Volume, last
  <2>4. d.tableL = disc.region["path L"] /\ d.tableM = disc.region["path M"]
    BY <1>2, <1>4, <2>3 DEF TablesWritten
  <2>5. IsJoliet(fs) => d.root + BytesToSec(d.rootLen) = disc.jdir[Root]
    BY <1>6, <2>3
  <2> QED  BY <1>5, <1>7, <1>8, <2>2, <2>3, <2>4, <2>5 DEF IsoDescribed
<1>9. CASE d.type = "joliet"
  <2> DEFINE size == PathTableBytes(fs, tree, TableDirs, TRUE)
  <2>1. IsJoliet(fs) /\ d = JolietVolume(mgr, size, place[Root])
    BY <1>9 DEF Stated
  <2>2. size = PathTableLength(fs, tree, TableDirs, TRUE)
    BY <1>1, TablesAgree
  <2> HIDE DEF size
  <2>3. /\ d.space = last /\ d.tableSize = size /\ d.tableL = GetStart(mgr, "joliet path L")
        /\ d.tableM = GetStart(mgr, "joliet path M")
        /\ d.root = GetStart(mgr, "direntries") + BytesToSec(place[Root].sizeN)
    BY <2>1 DEF JolietVolume, Volume, last
  <2>4. d.tableL = disc.region["joliet path L"] /\ d.tableM = disc.region["joliet path M"]
    BY <1>2, <1>4, <2>1, <2>3 DEF TablesWritten
  <2>5. d.root = disc.jdir[Root]
    BY <1>6, <2>1, <2>3
  <2> QED  BY <1>7, <1>9, <2>2, <2>3, <2>4, <2>5 DEF IsoDescribed
<1> QED
  BY <1>8, <1>9

(* So do those of UDF.                                                     *)
LEMMA UdfDescribedFrom ==
  ASSUME IsFiniteSet(Nodes(tree)), TypeInv, EntriesInv, PlacesInv, WalkInv, DescInv, result = "OK", IsUdf(fs)
  PROVE  UdfDescribed(desc.udf)
<1> DEFINE first == mgr.start["main"]
           last  == mgr.dataStart + mgr.dataLen
           at    == MainLayout(first)
           d     == desc.udf
           len   == PartitionLength(mgr)
<1>1. UdfStated /\ EndReached
  BY DEF DescInv, UdfSaid, PlaceSaid, AfterEntries
<1>2. /\ first \in Nat /\ last \in Nat /\ mgr.start["fileset"] = 258 /\ first + MainSectors(first) = AnchorSector
      /\ mgr.dataStart \in Nat /\ mgr.dataLen \in Nat
  <2>1. mgr \in ManagerType /\ "main" \in Regions
    BY RegionsHave DEF TypeInv, TypeOK
  <2> QED  BY <1>1, <2>1 DEF UdfStated, ManagerType
<1>3. /\ disc.anchor = AnchorSector /\ disc.region["main"] = first
      /\ disc.volumes[1] = first + 2 /\ disc.volumes[2] = first + 2 + MainSequence
      /\ disc.tail = last /\ Now(out) = last + 1
  BY <1>1 DEF UdfStated, EndReached
<1>4. /\ at.integrity = first /\ at.main = first + 2 /\ at.reserve = first + 2 + MainSequence
      /\ at.anchor = AnchorSector
  BY <1>2 DEF MainLayout
<1>5. /\ d.integrity = IntegrityDescriptor(first, mgr, tree)
      /\ d.main = VolumeSequence(first + 2, mgr, first)
      /\ d.reserve = VolumeSequence(first + 2 + MainSequence, mgr, first)
      /\ d.anchor = AnchorDescriptor(AnchorSector, at)
      /\ d.fileset = FileSetDescriptor
      /\ d.tail = AnchorDescriptor(last, at)
  <2>1. d = UdfDescriptors(mgr, tree)
    BY <1>1 DEF UdfStated
  <2>2. GetStart(mgr, "main") = first
    BY DEF GetStart
  <2> HIDE DEF first, at, d, last
  <2>3. UdfDescriptors(mgr, tree) =
          [integrity |-> IntegrityDescriptor(at.integrity, mgr, tree),
           main      |-> VolumeSequence(at.main, mgr, at.integrity),
           reserve   |-> VolumeSequence(at.reserve, mgr, at.integrity),
           anchor    |-> AnchorDescriptor(at.anchor, at),
           fileset   |-> FileSetDescriptor,
           tail      |-> AnchorDescriptor(last, at)]
    BY <2>2 DEF UdfDescriptors, at, last
  <2> QED  BY <1>4, <2>1, <2>3
<1>6. len = 1 + mgr.dataLen + mgr.dataStart - 258 /\ 257 + len = last /\ len \in Int
  BY <1>2 DEF PartitionLength, GetStart
<1>7. Root \in Nodes(tree) /\ disc.entry[Root] = 258
  <2>1. Visited = Nodes(tree) /\ Root \in Nodes(tree)
    BY DEF WalkInv, AfterEntries, EntriesInv, UniqueInv, Fields, IsTree, Nodes
  <2>2. disc.entry[Root] # NotYet
    BY <2>1 DEF WalkInv
  <2>3. disc.entry[Root] = PartStart + udf[Root].loc
    BY <2>1, <2>2 DEF EntriesInv, EntriesAsRemembered
  <2>4. udf[Root].loc = 1
    BY <1>1 DEF UdfStated
  <2> QED  BY <2>1, <2>3, <2>4 DEF PartStart
<1> HIDE DEF first, last, at, d, len
<1>8. ASSUME NEW n \in Nat, NEW v, v = VolumeSequence(n, mgr, first)
      PROVE  /\ \A i \in DOMAIN v : v[i].tag = n + i - 1
             /\ v[3].start = disc.anchor + 1 /\ v[3].start + v[3].len = disc.tail
             /\ v[4].integrity = disc.region["main"] /\ v[3].len = len
             /\ v[3].start + d.fileset.root = disc.entry[Root]
  <2>1. DOMAIN v = 1 .. 6
    <3>1. \A a, b, c, x, y, z : DOMAIN <<a, b, c, x, y, z>> = 1 .. 6
      OBVIOUS
    <3>2. PICK a, b, c, x, y, z : VolumeSequence(n, mgr, first) = <<a, b, c, x, y, z>>
      BY ZenonT(30) DEF VolumeSequence
    <3> QED  BY <1>8, <3>1, <3>2
  <2>2. /\ v[1].tag = n /\ v[2].tag = n + 1 /\ v[3].tag = n + 2 /\ v[4].tag = n + 3
        /\ v[5].tag = n + 4 /\ v[6].tag = n + 5
    BY <1>8 DEF VolumeSequence
  <2>3. v[3].start = 257 /\ v[3].len = len /\ v[4].integrity = first
    BY <1>8 DEF VolumeSequence, PartStart, len
  <2>4. \A i \in DOMAIN v : v[i].tag = n + i - 1
    <3>1. \A i \in DOMAIN v : i = 1 \/ i = 2 \/ i = 3 \/ i = 4 \/ i = 5 \/ i = 6
      BY <2>1
    <3>2. /\ n + 1 - 1 = n /\ n + 2 - 1 = n + 1 /\ n + 3 - 1 = n + 2 /\ n + 4 - 1 = n + 3
          /\ n + 5 - 1 = n + 4 /\ n + 6 - 1 = n + 5
      OBVIOUS
    <3> HIDE <1>8
    <3> QED  BY <2>2, <3>1, <3>2
  <2>5. d.fileset.root = 1
    BY <1>5 DEF FileSetDescriptor
  <2> QED  BY <1>3, <1>6, <1>7, <2>3, <2>4, <2>5 DEF AnchorSector
<1>9. /\ d.anchor = [tag |-> disc.anchor, main |-> disc.volumes[1], reserve |-> disc.volumes[2]]
      /\ d.tail = [tag |-> disc.tail, main |-> disc.volumes[1], reserve |-> disc.volumes[2]]
  BY <1>3, <1>4, <1>5 DEF AnchorDescriptor
<1>10. /\ d.integrity.tag = disc.region["main"] /\ d.integrity.partLen = len
       /\ d.integrity.dirs = Cardinality(Dirs(tree) \ {Root}) + 1
       /\ d.integrity.files = Cardinality(Files(tree))
  BY <1>3, <1>5 DEF IntegrityDescriptor, len
<1>11. /\ {n \in Dirs(tree) : disc.entry[n] # NotYet} = Dirs(tree)
       /\ {n \in Files(tree) : disc.entry[n] # NotYet} = Files(tree)
  <2>1. Visited = Nodes(tree) /\ \A n \in Visited : disc.entry[n] # NotYet
    BY DEF WalkInv, AfterEntries
  <2> QED  BY <2>1 DEF Nodes
<1>12. Cardinality(Dirs(tree) \ {Root}) + 1 = Cardinality(Dirs(tree))
  <2>1. Root \in Dirs(tree)
    BY DEF EntriesInv, UniqueInv, Fields, IsTree
  <2>2. IsFiniteSet(Dirs(tree))
    BY FS_Subset DEF Nodes
  <2>3. Cardinality(Dirs(tree)) \in Nat /\ Cardinality(Dirs(tree) \ {Root}) = Cardinality(Dirs(tree)) - 1
    BY <2>1, <2>2, FS_CardinalityType, FS_RemoveElement
  <2> QED  BY <2>3
<1>13. first + 2 \in Nat /\ first + 2 + MainSequence \in Nat
  BY <1>2 DEF MainSequence
<1>14. /\ \A i \in DOMAIN d.main : d.main[i].tag = disc.volumes[1] + i - 1
       /\ d.main[3].start = disc.anchor + 1 /\ d.main[3].start + d.main[3].len = disc.tail
       /\ d.main[4].integrity = disc.region["main"]
       /\ d.main[3].start + d.fileset.root = disc.entry[Root]
       /\ d.main[3].len = len
  BY <1>3, <1>5, <1>8, <1>13
<1>15. /\ \A i \in DOMAIN d.reserve : d.reserve[i].tag = disc.volumes[2] + i - 1
       /\ d.reserve[3].start = disc.anchor + 1 /\ d.reserve[3].start + d.reserve[3].len = disc.tail
       /\ d.reserve[4].integrity = disc.region["main"]
       /\ d.reserve[3].start + d.fileset.root = disc.entry[Root]
  BY <1>3, <1>5, <1>8, <1>13
<1>16. UdfDescribed(d)
  BY <1>3, <1>9, <1>10, <1>11, <1>12, <1>14, <1>15 DEF UdfDescribed
<1> QED
  BY <1>16 DEF d

(* What the volume descriptors state before anything they speak of is      *)
(* written is how the image turns out: for every tree on which the passes  *)
(* agree and that fits the counters of sectors.                            *)
THEOREM DescriptorsHold ==
  ASSUME \A input \in Inputs : Regular(input.fs, input.tree) /\ Fits(input.fs, input.tree)
  PROVE  Spec => []DescribedAsPlaced
<1> DEFINE IInv == TypeInv /\ EntriesInv /\ PlacesInv /\ WalkInv /\ ReachInv /\ DescInv
<1>1. AllRegular /\ AllFit
  BY DEF AllRegular, AllFit
<1>2. Init => IInv
  BY InitTyped, InitEntries, InitPlaces, InitWalk, InitReach, InitDesc
<1>3. IInv /\ [Next]_vars => IInv'
  <2> SUFFICES ASSUME IInv, [Next]_vars PROVE IInv'
    OBVIOUS
  <2>1. Sound(fs, tree)
    BY <1>1, InputSound
  <2>2. TypeInv'
    BY TypesKept
  <2>3. EntriesInv'
    BY <1>1, EntriesStep
  <2>4. PlacesInv'
    BY <2>1, PlacesStep
  <2>5. WalkInv'
    BY WalkStep
  <2>6. ReachInv'
    BY <2>1, ReachStep
  <2>7. DescInv'
    BY <2>1, DescStep
  <2> QED  BY <2>2, <2>3, <2>4, <2>5, <2>6, <2>7
<1>4. IInv => DescribedAsPlaced
  <2> SUFFICES ASSUME IInv, result = "OK"
               PROVE  /\ \A i \in DOMAIN desc.iso :
                           desc.iso[i].type \in {"primary", "joliet"} => IsoDescribed(desc.iso[i])
                      /\ IsUdf(fs) => UdfDescribed(desc.udf)
    BY DEF DescribedAsPlaced
  <2>1. Sound(fs, tree) /\ IsFiniteSet(Nodes(tree))
    BY <1>1, InputSound
  <2>2. \A i \in DOMAIN desc.iso : Stated(desc.iso[i]) /\ IsIso(fs)
    <3>1. desc.iso = <<>> \/ IsIso(fs)
      BY DEF DescInv, IsoSaid
    <3> QED  BY <3>1 DEF DescInv, IsoSaid
  <2>3. \A i \in DOMAIN desc.iso : desc.iso[i].type \in {"primary", "joliet"} => IsoDescribed(desc.iso[i])
    BY <2>1, <2>2, IsoDescribedFrom
  <2>4. IsUdf(fs) => UdfDescribed(desc.udf)
    BY <2>1, UdfDescribedFrom
  <2> QED  BY <2>3, <2>4
<1> QED
  BY <1>2, <1>3, <1>4, PTL DEF Spec

-----------------------------------------------------------------------------
(***************************************************************************)
(* The writer takes the steps of DiscImage, where the plan is what the     *)
(* reserving passes left, and what is stored what the writing passes put   *)
(* somewhere.                                                              *)
(***************************************************************************)
PlanShown == Status \in {"storing", "OK"}

(* What is somewhere stays there.                                          *)
StaysStored ==
  /\ \A d \in Dirs(tree) : /\ disc.dir[d] # NotYet => disc'.dir[d] # NotYet
                           /\ disc.jdir[d] # NotYet => disc'.jdir[d] # NotYet
  /\ \A f \in Files(tree) : disc.data[f] # NotYet => disc'.data[f] # NotYet

Piece(kind, n, at) == << <<kind, n>>, at>>

(* A piece of the plan.                                                    *)
IsPiece(pair) ==
  \/ \E f \in PlannedFiles : pair = Piece("file", f, place[f].normal)
  \/ \E d \in PlannedDirs : pair = Piece("dir", d, place[d].normal)
  \/ IsJoliet(fs) /\ \E d \in PlannedDirs : pair = Piece("joliet dir", d, place[d].joliet)

(* The pieces and the nodes of the plan.                                   *)
LEMMA PlanIs ==
  ASSUME TypeInv
  PROVE  \A pair : pair \in Plan <=> IsPiece(pair)
<1>1. PlannedFiles \subseteq Nodes(tree) /\ PlannedDirs \subseteq Nodes(tree)
  BY DEF PlannedFiles, PlannedDirs, ReachedFiles, ReachedDirs, Nodes
<1>2. \A n \in Nodes(tree) : place[n].normal # NotYet /\ place[n].joliet # NotYet
  <2> TAKE n \in Nodes(tree)
  <2>1. place[n].normal \in Nat /\ place[n].joliet \in Nat
    BY DEF TypeInv, PlaceType
  <2> QED  BY <2>1 DEF NotYet
<1> DEFINE normal == [n \in Nodes(tree) |-> place[n].normal]
           joliet == [n \in Nodes(tree) |-> place[n].joliet]
<1>3. \A n \in Nodes(tree) : normal[n] = place[n].normal /\ joliet[n] = place[n].joliet
  OBVIOUS
<1>4. Plan = Pieces("file", normal, PlannedFiles) \cup Pieces("dir", normal, PlannedDirs)
             \cup (IF IsJoliet(fs) THEN Pieces("joliet dir", joliet, PlannedDirs) ELSE {})
  BY DEF Plan
<1> HIDE DEF normal, joliet
<1>5. \A pair : pair \in Pieces("file", normal, PlannedFiles) <=>
        \E f \in PlannedFiles : pair = Piece("file", f, place[f].normal)
  BY <1>1, <1>2, <1>3 DEF Pieces, Piece
<1>6. \A pair : pair \in Pieces("dir", normal, PlannedDirs) <=>
        \E d \in PlannedDirs : pair = Piece("dir", d, place[d].normal)
  BY <1>1, <1>2, <1>3 DEF Pieces, Piece
<1>7. \A pair : pair \in Pieces("joliet dir", joliet, PlannedDirs) <=>
        \E d \in PlannedDirs : pair = Piece("joliet dir", d, place[d].joliet)
  BY <1>1, <1>2, <1>3 DEF Pieces, Piece
<1>8. TAKE pair
<1>9. pair \in Plan <=> \/ pair \in Pieces("file", normal, PlannedFiles)
                        \/ pair \in Pieces("dir", normal, PlannedDirs)
                        \/ IsJoliet(fs) /\ pair \in Pieces("joliet dir", joliet, PlannedDirs)
  BY <1>4
<1> QED
  BY <1>5, <1>6, <1>7, <1>9 DEF IsPiece

(* A piece has one place.                                                  *)
Functional == \A pair, other \in Plan : pair[1] = other[1] => pair = other

(* The plan names one place for a piece.                                   *)
LEMMA OnePlace == TypeInv => Functional
<1> SUFFICES ASSUME TypeInv, NEW pair \in Plan, NEW other \in Plan, pair[1] = other[1]
             PROVE  pair = other
  BY DEF Functional
<1>1. IsPiece(pair) /\ IsPiece(other)
  BY PlanIs
<1>2. "file" # "dir" /\ "file" # "joliet dir" /\ "dir" # "joliet dir"
  OBVIOUS
<1>3. PICK kind, n :
        pair = Piece(kind, n, IF kind = "joliet dir" THEN place[n].joliet ELSE place[n].normal)
  BY <1>1, <1>2 DEF IsPiece
<1>4. PICK kind2, n2 :
        other = Piece(kind2, n2, IF kind2 = "joliet dir" THEN place[n2].joliet ELSE place[n2].normal)
  BY <1>1, <1>2 DEF IsPiece
<1>5. kind = kind2 /\ n = n2
  <2>1. PICK at : pair = Piece(kind, n, at)
    BY <1>3
  <2>2. PICK at2 : other = Piece(kind2, n2, at2)
    BY <1>4
  <2>3. Piece(kind, n, at)[1] = Piece(kind2, n2, at2)[1]
    BY <2>1, <2>2
  <2>4. <<kind, n>> = <<kind2, n2>>
    BY <2>3 DEF Piece
  <2> QED  BY <2>4
<1> QED
  BY <1>3, <1>4, <1>5

(* What is stored, piece by piece.                                         *)
LEMMA StoredIs ==
  \A pair : pair \in Stored <=>
    \/ \E f \in Files(tree) : disc.data[f] # NotYet /\ pair = Piece("file", f, disc.data[f])
    \/ \E d \in Dirs(tree) : disc.dir[d] # NotYet /\ pair = Piece("dir", d, disc.dir[d])
    \/ \E d \in Dirs(tree) : disc.jdir[d] # NotYet /\ pair = Piece("joliet dir", d, disc.jdir[d])
BY DEF Stored, Pieces, Piece

(* A piece is stored at its place and nowhere else.                        *)
LEMMA StoredAsPlanned == TypeInv /\ PlacesInv /\ ReachInv /\ PlanShown => Stored \subseteq Plan
<1> SUFFICES ASSUME TypeInv, PlacesInv, ReachInv, PlanShown PROVE Stored \subseteq Plan
  OBVIOUS
<1>1. AsPlanned(tree, mgr, place, disc) /\ OnlyReached
  <2>1. result \in {"none", "OK", "FAIL", "CANCEL"}
    BY DEF TypeInv, TypeOK
  <2>2. Sure
    BY <2>1 DEF PlanShown, Status, Sure
  <2> QED  BY <2>2 DEF PlacesInv, ReachInv
<1> SUFFICES ASSUME NEW pair \in Stored PROVE IsPiece(pair)
  BY PlanIs
<1>2. ASSUME NEW f \in Files(tree), disc.data[f] # NotYet, pair = Piece("file", f, disc.data[f])
      PROVE  IsPiece(pair)
  <2>1. f \in PlannedFiles /\ disc.data[f] = place[f].normal
    BY <1>1, <1>2 DEF OnlyReached, PlannedFiles, AsPlanned, Placed
  <2> QED  BY <1>2, <2>1 DEF IsPiece
<1>3. ASSUME NEW d \in Dirs(tree), disc.dir[d] # NotYet, pair = Piece("dir", d, disc.dir[d])
      PROVE  IsPiece(pair)
  <2>1. d \in PlannedDirs /\ disc.dir[d] = place[d].normal
    BY <1>1, <1>3 DEF OnlyReached, PlannedDirs, Reached, AsPlanned, Placed
  <2> QED  BY <1>3, <2>1 DEF IsPiece
<1>4. ASSUME NEW d \in Dirs(tree), disc.jdir[d] # NotYet, pair = Piece("joliet dir", d, disc.jdir[d])
      PROVE  IsPiece(pair)
  <2>1. d \in PlannedDirs /\ disc.jdir[d] = place[d].joliet /\ IsJoliet(fs)
    BY <1>1, <1>4 DEF OnlyReached, PlannedDirs, Reached, AsPlanned, Placed
  <2> QED  BY <1>4, <2>1 DEF IsPiece
<1> QED
  BY <1>2, <1>3, <1>4, StoredIs

(* Before the last anchor, all of them are stored.                         *)
LEMMA PlanIsStored ==
  ASSUME Sound(fs, tree), TypeInv, PlacesInv, ReachInv, pc = "tail"
  PROVE  Stored = Plan
<1>1. PlanShown
  <2>1. result = "none"
    BY DEF TypeInv, TypeOK
  <2> QED  BY <2>1 DEF PlanShown, Status
<1>2. Stored \subseteq Plan
  BY <1>1, StoredAsPlanned
<1>3. AsPlanned(tree, mgr, place, disc)
  BY DEF PlacesInv, Sure
<1>4. \A n \in Nodes(tree) : place[n].normal # NotYet /\ place[n].joliet # NotYet
  <2> TAKE n \in Nodes(tree)
  <2>1. place[n].normal \in Nat /\ place[n].joliet \in Nat
    BY DEF TypeInv, PlaceType
  <2> QED  BY <2>1 DEF NotYet
<1>5. ASSUME NEW f \in PlannedFiles PROVE Piece("file", f, place[f].normal) \in Stored
  <2>1. AllStored(fs, tree, place, disc.data, mgr.dataStart, mgr.dataStart + mgr.dataLen)
    BY DEF PlacesInv, Storing
  <2>2. f \in Files(tree) /\ f \in ReachedFiles(tree, GetMaxDirLevel(fs)) \cap Kept(fs, tree)
    BY DEF PlannedFiles, ReachedFiles, Kept, TooLarge
  <2>3. disc.data[f] = place[f].normal
    BY <2>1, <2>2, StoredFiles
  <2> QED  BY <1>4, <2>2, <2>3, StoredIs DEF Nodes
<1>6. ASSUME NEW d \in PlannedDirs
      PROVE  /\ Piece("dir", d, place[d].normal) \in Stored
             /\ IsJoliet(fs) => Piece("joliet dir", d, place[d].joliet) \in Stored
  <2>1. IsIso(fs) /\ d \in Reached /\ d \in Dirs(tree)
    BY DEF PlannedDirs, Reached, ReachedDirs
  <2>2. WrittenDir(d)
    BY <2>1 DEF ReachInv, DirsDone
  <2>3. disc.dir[d] # NotYet /\ disc.dir[d] = place[d].normal
    BY <1>3, <2>1, <2>2 DEF WrittenDir, AsPlanned, Placed
  <2>4. IsJoliet(fs) => disc.jdir[d] # NotYet /\ disc.jdir[d] = place[d].joliet
    BY <1>3, <2>1, <2>2 DEF WrittenDir, AsPlanned, Placed
  <2> QED  BY <2>1, <2>3, <2>4, StoredIs
<1>7. \A pair \in Plan : pair \in Stored
  BY <1>5, <1>6, PlanIs DEF IsPiece
<1> QED
  BY <1>2, <1>7

(* The passes that write, as far as the plan and the status see them.      *)
WriteSeen ==
  /\ pc \notin {"tree", "header", "tables", "dirs", "files"} /\ result = "none"
  /\ UNCHANGED <<fs, tree, place, cancelled>>
  /\ \/ /\ result' = "none" /\ pc # "tail"
        /\ pc' \notin {"tree", "header", "tables", "dirs", "files"}
        /\ pc' = "tail" => ~cancelled
        /\ StaysStored
     \/ result' \in {"FAIL", "CANCEL"}
     \/ /\ pc = "tail" /\ result' = "OK"
        /\ disc'.dir = disc.dir /\ disc'.jdir = disc.jdir /\ disc'.data = disc.data

(* A step that puts no directory and no file anywhere.                     *)
LEMMA StaysSame ==
  ASSUME disc'.dir = disc.dir, disc'.jdir = disc.jdir, disc'.data = disc.data
  PROVE  StaysStored
BY DEF StaysStored

(* The steps that put no directory and no file anywhere.                   *)
LEMMA QuietSeen ==
  ASSUME TypeInv, PlacesInv,
         \/ WriteHeader \/ WriteUdf \/ WriteEntry \/ WriteEntriesEnd \/ WriteTables \/ WriteDirsEnd
         \/ BootImageLost \/ OpenDir \/ SeeCancel \/ SkipChild \/ CloseDir \/ WriteDataEnd \/ WriteTail
  PROVE  WriteSeen
<1> USE DEF Goto, Fail, Return, planning, writing
<1>1. {"dir", "jdir", "data", "region"} \subseteq DOMAIN disc
  BY DEF PlacesInv, DiscOf
<1>2. pc # "end" => result = "none"
  BY DEF TypeInv, TypeOK
<1>3. CASE WriteHeader
  <2>1. disc'.dir = disc.dir /\ disc'.jdir = disc.jdir /\ disc'.data = disc.data
    BY <1>1, <1>3 DEF WriteHeader
  <2> QED  BY <1>2, <1>3, <2>1, StaysSame DEF WriteHeader, WriteSeen
<1>4. CASE WriteUdf
  <2>1. disc'.dir = disc.dir /\ disc'.jdir = disc.jdir /\ disc'.data = disc.data
    BY <1>1, <1>4 DEF WriteUdf
  <2> QED  BY <1>2, <1>4, <2>1, StaysSame DEF WriteUdf, WriteSeen
<1>5. CASE WriteEntry \/ WriteEntriesEnd
  <2>1. disc'.dir = disc.dir /\ disc'.jdir = disc.jdir /\ disc'.data = disc.data
    BY <1>1, <1>5 DEF WriteEntry, WriteEntriesEnd
  <2> QED  BY <1>2, <1>5, <2>1, StaysSame DEF WriteEntry, WriteEntriesEnd, WriteSeen
<1>6. CASE WriteTables
  <2>1. disc'.dir = disc.dir /\ disc'.jdir = disc.jdir /\ disc'.data = disc.data
    BY <1>1, <1>6 DEF WriteTables
  <2> QED  BY <1>2, <1>6, <2>1, StaysSame DEF WriteTables, WriteSeen
<1>7. CASE BootImageLost \/ WriteDirsEnd \/ OpenDir \/ SeeCancel \/ SkipChild \/ CloseDir \/ WriteDataEnd
  <2>1. disc'.dir = disc.dir /\ disc'.jdir = disc.jdir /\ disc'.data = disc.data
    BY <1>7 DEF BootImageLost, WriteDirsEnd, OpenDir, SeeCancel, SkipChild, CloseDir, WriteDataEnd
  <2> QED  BY <1>2, <1>7, <2>1, StaysSame DEF BootImageLost, WriteDirsEnd, OpenDir, SeeCancel, SkipChild, CloseDir,
              WriteDataEnd, AtChild, WriteSeen
<1>8. CASE WriteTail
  <2>1. disc'.dir = disc.dir /\ disc'.jdir = disc.jdir /\ disc'.data = disc.data
    BY <1>1, <1>8 DEF WriteTail
  <2> QED  BY <1>2, <1>8, <2>1 DEF WriteTail, WriteSeen
<1> QED
  BY <1>3, <1>4, <1>5, <1>6, <1>7, <1>8

(* The directories.                                                        *)
LEMMA DirsSeen ==
  ASSUME Sound(fs, tree), TypeInv, PlacesInv, WriteDirEntry
  PROVE  WriteSeen
<1> USE DEF Goto, planning
<1> DEFINE normal == WriteDir(out, fs, tree, Top, Level_, FALSE)
           one   == [disc EXCEPT !.dir[Top] = Now(out)]
           first == IF Top = Root THEN [one EXCEPT !.region["direntries"] = Now(out)] ELSE one
           both  == IF IsJoliet(fs) THEN [first EXCEPT !.jdir[Top] = Now(normal)] ELSE first
<1>1. /\ pc = "write dirs" /\ work # <<>> /\ UNCHANGED <<fs, tree, cancelled, place>>
      /\ \/ pc' = "write dirs" /\ result' = result
         \/ pc' = "end" /\ result' = "CANCEL"
      /\ disc' \in {both, disc, first}
  BY DEF WriteDirEntry
<1>2. result = "none" /\ work \in StackOf(tree) /\ DiscOf(tree, disc) /\ IsJoliet(fs) \in BOOLEAN
  <2>1. IsJoliet(fs) \in BOOLEAN
    BY DEF IsJoliet
  <2>2. result = "none"
    BY <1>1 DEF TypeInv, TypeOK
  <2> QED  BY <1>1, <2>1, <2>2 DEF TypeInv, PlacesInv, StackType, StackOf
<1>3. /\ first.data = disc.data /\ first.jdir = disc.jdir
      /\ first.dir = [disc.dir EXCEPT ![Top] = Now(out)]
      /\ DirDisc(disc, both, Top, Now(out), Now(normal), IsJoliet(fs))
  <2>1. first = OneForm(disc, Top, Now(out)) /\ both = BothForms(disc, Top, Now(out), Now(normal), IsJoliet(fs))
    BY DEF OneForm, BothForms
  <2>2. DirDisc(disc, OneForm(disc, Top, Now(out)), Top, Now(out), Now(normal), FALSE)
    <3>1. DirDisc(disc, BothForms(disc, Top, Now(out), Now(normal), FALSE), Top, Now(out), Now(normal), FALSE)
      BY <1>2, DirDiscIs
    <3>2. BothForms(disc, Top, Now(out), Now(normal), FALSE) = OneForm(disc, Top, Now(out))
      BY DEF BothForms
    <3> QED  BY <3>1, <3>2
  <2> HIDE DEF normal, first, both, one
  <2>3. DirDisc(disc, both, Top, Now(out), Now(normal), IsJoliet(fs))
    BY <1>2, <2>1, DirDiscIs
  <2> QED  BY <2>1, <2>2, <2>3 DEF DirDisc, DirsOnly
<1>4. Top \in Dirs(tree) /\ Level_ \in Nat
  <2>1. Len(work) \in Nat \ {0} /\ work[Len(work)] \in Dirs(tree) \X Nat
    <3>1. \A S : \A s \in Seq(S) : s # <<>> => Len(s) \in Nat \ {0} /\ s[Len(s)] \in S
      OBVIOUS
    <3> QED  BY <1>1, <1>2, <3>1 DEF StackOf
  <2> QED  BY <2>1 DEF Top, Level_
<1>5. Now(out) # NotYet /\ Now(normal) # NotYet
  <2>1. normal \in StreamType /\ out \in StreamType
    <3>1. out \in StreamType /\ NamedTree(tree)
      BY DEF TypeInv, TypeOK, Sound
    <3> QED  BY <1>4, <3>1, WriteDirTyped
  <2> HIDE DEF normal
  <2>2. out.sector \in Nat /\ normal.sector \in Nat
    BY <2>1 DEF StreamType
  <2> QED  BY <2>2 DEF Now, NotYet
<1> HIDE DEF normal, one, first, both
<1>6. /\ disc'.data = disc.data
      /\ disc'.dir = disc.dir \/ disc'.dir = [disc.dir EXCEPT ![Top] = Now(out)]
      /\ disc'.jdir = disc.jdir \/ disc'.jdir = [disc.jdir EXCEPT ![Top] = Now(normal)]
  <2>1. disc' = both \/ disc' = disc \/ disc' = first
    BY <1>1
  <2> QED  BY <1>3, <2>1 DEF DirDisc, DirsOnly
<1>7. StaysStored
  <2>1. DOMAIN disc.dir = Dirs(tree) /\ DOMAIN disc.jdir = Dirs(tree)
    BY <1>2 DEF DiscOf
  <2>2. \A d \in Dirs(tree) : disc.dir[d] # NotYet => disc'.dir[d] # NotYet
    BY <1>5, <1>6, <2>1
  <2>3. \A d \in Dirs(tree) : disc.jdir[d] # NotYet => disc'.jdir[d] # NotYet
    BY <1>5, <1>6, <2>1
  <2> QED  BY <1>6, <2>2, <2>3 DEF StaysStored
<1> QED
  BY <1>1, <1>2, <1>7 DEF WriteSeen

(* The files.                                                              *)
LEMMA FilesSeen ==
  ASSUME TypeInv, PlacesInv, WriteFile
  PROVE  WriteSeen
<1> USE DEF Goto, Fail, Return, planning, writing
<1>1. pc = "write data" /\ result = "none" /\ UNCHANGED <<fs, tree, cancelled, place>>
  BY DEF WriteFile, AtChild, TypeInv, TypeOK
<1>2. CASE Child \in changed
  <2>1. result' = "FAIL"
    BY <1>2 DEF WriteFile
  <2> QED  BY <1>1, <2>1 DEF WriteSeen
<1>3. CASE Child \notin changed
  <2>1. /\ disc' = [disc EXCEPT !.data[Child] = Now(out)]
        /\ pc' = "write data" /\ result' = result /\ Child \in Files(tree)
    BY <1>3 DEF WriteFile
  <2>2. {"dir", "jdir", "data"} \subseteq DOMAIN disc /\ DOMAIN disc.data = Files(tree)
    BY DEF PlacesInv, DiscOf
  <2>3. /\ disc'.dir = disc.dir /\ disc'.jdir = disc.jdir
        /\ disc'.data = [disc.data EXCEPT ![Child] = Now(out)]
    BY <2>1, <2>2
  <2>4. Now(out) # NotYet
    <3>1. out.sector \in Nat
      BY DEF TypeInv, TypeOK, StreamType
    <3> QED  BY <3>1 DEF Now, NotYet
  <2>5. StaysStored
    BY <2>2, <2>3, <2>4 DEF StaysStored
  <2> QED  BY <1>1, <2>1, <2>5 DEF WriteSeen
<1> QED
  BY <1>2, <1>3

(* What the passes that write show.                                        *)
LEMMA WritesSeen ==
  ASSUME Sound(fs, tree), TypeInv, PlacesInv, Write
  PROVE  WriteSeen
BY QuietSeen, DirsSeen, FilesSeen DEF Write

(* The plan stays while the places do.                                     *)
LEMMA PlanKept ==
  ASSUME UNCHANGED <<fs, tree, place>>
  PROVE  Plan' = Plan
<1>1. \A f \in Files(tree) : TooLarge(f)' <=> TooLarge(f)
  BY DEF TooLarge
<1>2. PlannedFiles' = PlannedFiles
  BY <1>1 DEF PlannedFiles, ReachedFiles
<1>3. PlannedDirs' = PlannedDirs
  BY DEF PlannedDirs
<1> QED
  BY <1>2, <1>3 DEF Plan, Pieces

(* A step that stores what it stores, and takes nothing away.              *)
LEMMA StoresMore ==
  ASSUME PlacesInv, PlacesInv', PlanShown, PlanShown', UNCHANGED <<fs, tree, place>>, StaysStored, TypeInv, TypeInv'
  PROVE  Stored \subseteq Stored'
<1>1. AsPlanned(tree, mgr, place, disc)
  <2>1. Sure
    BY DEF PlanShown, Status, Sure, TypeInv, TypeOK
  <2> QED  BY <2>1 DEF PlacesInv
<1>2. AsPlanned(tree, mgr', place, disc')
  <2>1. Sure'
    BY DEF PlanShown, Status, Sure, TypeInv, TypeOK
  <2> QED  BY <2>1 DEF PlacesInv
<1>3. /\ \A d \in Dirs(tree) : /\ disc.dir[d] # NotYet => disc'.dir[d] = disc.dir[d]
                               /\ disc.jdir[d] # NotYet => disc'.jdir[d] = disc.jdir[d]
      /\ \A f \in Files(tree) : disc.data[f] # NotYet => disc'.data[f] = disc.data[f]
  BY <1>1, <1>2 DEF AsPlanned, Placed, StaysStored
<1> QED
  BY <1>3 DEF Stored, Pieces

(* What the passes that reserve show.                                      *)
ReserveSeen ==
  /\ pc \in {"tree", "header", "tables", "dirs", "files"} /\ result = "none" /\ cancelled' = cancelled
  /\ \/ pc' \in {"tree", "header", "tables", "dirs", "files"} /\ result' = "none"
     \/ pc' = "write header" /\ result' = "none"
     \/ result' = "FAIL"

(* They reserve, and fail at most.                                         *)
LEMMA ReservesSeen ==
  ASSUME TypeInv, Reserve
  PROVE  ReserveSeen
<1>1. pc # "end" => result = "none"
  BY DEF TypeInv, TypeOK
<1> QED
  BY <1>1 DEF Reserve, CreateTree, AllocHeader, AllocTables, AllocDir, AllocDirsEnd, PlaceFiles,
     PlaceFilesEnd, Goto, Fail, Return, planning, writing, ReserveSeen

(* The writer as the abstract one sees it.                                 *)
ShownPlan   == IF PlanShown THEN Plan ELSE {}
ShownStored == IF PlanShown THEN Stored ELSE {}

(* Nothing is shown when nothing is open.                                  *)
LEMMA NothingShown == ~PlanShown => ShownPlan = {} /\ ShownStored = {}
BY DEF ShownPlan, ShownStored

(* A step of the abstract writer, by the status before and after.          *)
PromiseStep ==
  \/ /\ Status = "planning" /\ Status' = "storing" /\ ShownStored' = {}
     /\ \A pair, other \in ShownPlan' : pair[1] = other[1] => pair = other
  \/ /\ Status = "storing" /\ Status' = Status /\ ShownPlan' = ShownPlan
     /\ ShownStored \subseteq ShownStored' /\ ShownStored' \subseteq ShownPlan
  \/ /\ Status = "storing" /\ ShownStored = ShownPlan /\ Status' = "OK"
     /\ ShownPlan' = ShownPlan /\ ShownStored' = ShownStored
  \/ /\ \/ Status \in {"planning", "storing"} /\ Status' \in {"abandoned", "FAIL", "CANCEL"}
        \/ Status = "abandoned" /\ Status' \in {"FAIL", "CANCEL"}
     /\ ShownPlan' = {} /\ ShownStored' = {}

Unseen == Status' = Status /\ ShownPlan' = ShownPlan /\ ShownStored' = ShownStored

(* Reserving ends in the plan, with nothing stored.                        *)
LEMMA ReserveStep ==
  ASSUME TypeInv, Reserve, TypeInv', PlacesInv'
  PROVE  PromiseStep \/ Unseen
<1>1. ReserveSeen
  BY ReservesSeen
<1>2. Status = IF cancelled THEN "abandoned" ELSE "planning"
  BY <1>1 DEF ReserveSeen, Status
<1>3. ~PlanShown /\ ShownPlan = {} /\ ShownStored = {}
  BY <1>2, NothingShown DEF PlanShown
<1>4. CASE pc' \in {"tree", "header", "tables", "dirs", "files"} /\ result' = "none"
  <2>1. Status' = Status
    BY <1>1, <1>2, <1>4 DEF ReserveSeen, Status
  <2>2. ~PlanShown'
    BY <1>2, <2>1 DEF PlanShown
  <2> QED  BY <1>3, <2>1, <2>2 DEF Unseen, ShownPlan, ShownStored
<1>5. CASE result' = "FAIL"
  <2>1. Status' = "FAIL" /\ ~PlanShown'
    BY <1>5 DEF Status, PlanShown
  <2> QED  BY <1>2, <2>1 DEF PromiseStep, ShownPlan, ShownStored
<1>6. CASE pc' = "write header" /\ result' = "none" /\ cancelled
  <2>1. Status' = "abandoned" /\ ~PlanShown'
    BY <1>1, <1>6 DEF ReserveSeen, Status, PlanShown
  <2> QED  BY <1>2, <1>3, <1>6, <2>1 DEF Unseen, ShownPlan, ShownStored
<1>7. CASE pc' = "write header" /\ result' = "none" /\ ~cancelled
  <2>1. Status' = "storing" /\ PlanShown'
    BY <1>1, <1>7 DEF ReserveSeen, Status, PlanShown
  <2>2. Untouched(tree', disc')
    BY <1>7 DEF PlacesInv, Early
  <2>3. Stored' = {}
    BY <2>2 DEF Untouched, Stored, Pieces
  <2>4. Functional'
    BY OnePlace, PTL
  <2>5. ShownPlan' = Plan' /\ ShownStored' = {}
    BY <2>1, <2>3 DEF ShownPlan, ShownStored
  <2> QED  BY <1>2, <1>7, <2>1, <2>4, <2>5 DEF PromiseStep, Functional
<1> QED
  BY <1>1, <1>4, <1>5, <1>6, <1>7 DEF ReserveSeen

(* Writing stores at the planned places, ends with all stored, or gives up. *)
LEMMA WriteStep ==
  ASSUME Sound(fs, tree), TypeInv, PlacesInv, ReachInv, Write, TypeInv', PlacesInv', ReachInv'
  PROVE  PromiseStep \/ Unseen
<1>1. WriteSeen
  BY WritesSeen
<1>2. /\ Status = IF cancelled /\ pc # "tail" THEN "abandoned" ELSE "storing"
      /\ UNCHANGED <<fs, tree, place, cancelled>>
  BY <1>1 DEF WriteSeen, Status
<1>3. Plan' = Plan
  BY <1>2, PlanKept
<1>4. CASE result' \in {"FAIL", "CANCEL"}
  <2>1. Status' \in {"FAIL", "CANCEL"} /\ ~PlanShown'
    BY <1>4 DEF Status, PlanShown
  <2> QED  BY <1>2, <2>1 DEF PromiseStep, ShownPlan, ShownStored
<1>5. CASE /\ result' = "none" /\ pc # "tail" /\ pc' \notin {"tree", "header", "tables", "dirs", "files"}
           /\ (pc' = "tail" => ~cancelled) /\ StaysStored
  <2>1. CASE cancelled
    <3>1. Status = "abandoned" /\ Status' = "abandoned" /\ ~PlanShown /\ ~PlanShown'
      BY <1>2, <1>5, <2>1 DEF Status, PlanShown
    <3> QED  BY <3>1 DEF Unseen, ShownPlan, ShownStored
  <2>2. CASE ~cancelled
    <3>1. Status = "storing" /\ Status' = "storing" /\ PlanShown /\ PlanShown'
      BY <1>2, <1>5, <2>2 DEF Status, PlanShown
    <3>2. Stored \subseteq Stored'
      BY <1>2, <1>5, <3>1, StoresMore
    <3>3. Stored' \subseteq Plan'
      <4>1. (Stored \subseteq Plan)'
        BY <3>1, StoredAsPlanned, PTL
      <4> QED  BY <4>1
    <3> QED  BY <1>3, <3>1, <3>2, <3>3 DEF PromiseStep, ShownPlan, ShownStored
  <2> QED  BY <2>1, <2>2
<1>6. CASE /\ pc = "tail" /\ result' = "OK"
           /\ disc'.dir = disc.dir /\ disc'.jdir = disc.jdir /\ disc'.data = disc.data
  <2>1. Status = "storing" /\ Status' = "OK" /\ PlanShown /\ PlanShown'
    BY <1>2, <1>6 DEF Status, PlanShown
  <2>2. Stored = Plan
    BY <1>6, PlanIsStored
  <2>3. Stored' = Stored
    BY <1>2, <1>6 DEF Stored, Pieces
  <2> QED  BY <1>3, <2>1, <2>2, <2>3 DEF PromiseStep, ShownPlan, ShownStored
<1> QED
  BY <1>1, <1>4, <1>5, <1>6 DEF WriteSeen

(* A request to cancel, while somebody looks, is giving up; nothing else   *)
(* that others do is seen.                                                 *)
LEMMA OtherStep ==
  ASSUME TypeInv, RequestCancel \/ ChangeFile \/ Returned \/ UNCHANGED vars
  PROVE  PromiseStep \/ Unseen
<1>1. /\ UNCHANGED <<fs, tree, pc, place, disc, result>>
      /\ cancelled' = cancelled \/ (result = "none" /\ ~cancelled /\ cancelled' = TRUE)
  BY DEF RequestCancel, ChangeFile, Returned, vars, planning, writing
<1>2. Plan' = Plan
  BY <1>1, PlanKept
<1>3. Stored' = Stored
  BY <1>1 DEF Stored, Pieces
<1>4. CASE cancelled' = cancelled \/ pc = "tail"
  <2>1. Status' = Status
    BY <1>1, <1>4 DEF Status
  <2> QED  BY <1>2, <1>3, <2>1 DEF Unseen, ShownPlan, ShownStored, PlanShown
<1>5. CASE result = "none" /\ ~cancelled /\ cancelled' = TRUE /\ pc # "tail"
  <2>1. Status \in {"planning", "storing"} /\ Status' = "abandoned" /\ ~PlanShown'
    BY <1>1, <1>5 DEF Status, PlanShown
  <2> QED  BY <2>1 DEF PromiseStep, ShownPlan, ShownStored
<1> QED
  BY <1>1, <1>4, <1>5

(* The three passes together do what a writer with one plan would do: a    *)
(* piece goes to its place and nowhere else, RESULT_OK means that all of   *)
(* them are there, and a request made while there is something to write is *)
(* never answered with it.                                                 *)
THEOREM WritesByOnePlan ==
  ASSUME \A input \in Inputs : Regular(input.fs, input.tree) /\ Fits(input.fs, input.tree)
  PROVE  Spec => Promise!Init /\ [][Promise!Next]_(Promise!vars)
<1> DEFINE IInv == TypeInv /\ EntriesInv /\ PlacesInv /\ ReachInv
<1>1. AllRegular /\ AllFit
  BY DEF AllRegular, AllFit
<1>2. Init => IInv
  BY InitTyped, InitEntries, InitPlaces, InitReach
<1>3. IInv /\ [Next]_vars => IInv'
  <2> SUFFICES ASSUME IInv, [Next]_vars PROVE IInv'
    OBVIOUS
  <2>1. Sound(fs, tree)
    BY <1>1, InputSound
  <2>2. TypeInv'
    BY TypesKept
  <2>3. EntriesInv'
    BY <1>1, EntriesStep
  <2>4. PlacesInv'
    BY <2>1, PlacesStep
  <2>5. ReachInv'
    BY <2>1, ReachStep
  <2> QED  BY <2>2, <2>3, <2>4, <2>5
<1>4. Init => Promise!Init
  <2> SUFFICES ASSUME Init PROVE Promise!Init
    OBVIOUS
  <2>1. Status = "planning"
    BY DEF Init, Status
  <2> QED  BY <2>1 DEF Promise!Init
<1>5. PromiseStep \/ Unseen => [Promise!Next]_(Promise!vars)
  <2>1. PromiseStep => Promise!Next
    BY DEF PromiseStep, Promise!Next, Promise!MakePlan, Promise!Store, Promise!Finish, Promise!GiveUp,
       ShownPlan, ShownStored, PlanShown
  <2>2. Unseen => UNCHANGED Promise!vars
    BY DEF Unseen, Promise!vars, ShownPlan, ShownStored, PlanShown
  <2> QED  BY <2>1, <2>2
<1>6. IInv /\ IInv' /\ [Next]_vars => [Promise!Next]_(Promise!vars)
  <2> SUFFICES ASSUME IInv, IInv', [Next]_vars PROVE PromiseStep \/ Unseen
    BY <1>5
  <2>1. Sound(fs, tree)
    BY <1>1, InputSound
  <2>2. CASE Reserve
    BY <2>2, ReserveStep
  <2>3. CASE Write
    BY <2>1, <2>3, WriteStep
  <2>4. CASE RequestCancel \/ ChangeFile \/ Returned \/ UNCHANGED vars
    BY <2>4, OtherStep
  <2> QED  BY <2>2, <2>3, <2>4 DEF Next
<1> QED
  BY <1>2, <1>3, <1>4, <1>6, PTL DEF Spec
=============================================================================
