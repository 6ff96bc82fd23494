------------------------------ MODULE FileTree ------------------------------
(***************************************************************************)
(* The tree of filetree.hh as the writers walk it.                         *)
(*   t.kids  children_ of every directory, in the order of insertion       *)
(*   t.size  file_size_ of every file when its node was made               *)
(*   t.pad   data_pad_len_, which DvdVideo sets and which is 0 otherwise   *)
(*   t.name  file_name_, as FileSystem looks at it                         *)
(***************************************************************************)
EXTENDS Integers, Sequences, SequencesExt

CONSTANT Root           (* root_node_                                      *)

Dirs(t)  == DOMAIN t.kids
Files(t) == DOMAIN t.size
Nodes(t) == Dirs(t) \cup Files(t)

(* The root is nobody's child, and every other node is the child of one    *)
(* directory, once: new nodes go to the end of children_ of the one they   *)
(* are made in.  So no directory is below itself: somewhere the            *)
(* directories end.                                                        *)
IsTree(t) ==
  /\ Root \in Dirs(t) /\ Dirs(t) \cap Files(t) = {}
  /\ t.kids \in [Dirs(t) -> Seq(Nodes(t) \ {Root})]
  /\ \A d, e \in Dirs(t) : \A i \in DOMAIN t.kids[d], j \in DOMAIN t.kids[e] :
       t.kids[d][i] = t.kids[e][j] => d = e /\ i = j
  /\ \A n \in Nodes(t) \ {Root} : \E d \in Dirs(t) : n \in Range(t.kids[d])
  /\ \A S \in SUBSET Dirs(t) : S # {} => \E d \in S : Range(t.kids[d]) \cap S = {}

AreSizes(t) == t.size \in [Files(t) -> Nat] /\ t.pad \in [Files(t) -> Nat]

(* The members of s that are chosen, in their order.                       *)
Among(s, chosen) ==
  FoldLeft(LAMBDA found, m : IF m \in chosen THEN Append(found, m) ELSE found, <<>>, s)

Parent(t, n) == CHOOSE d \in Dirs(t) : n \in Range(t.kids[d])

SubDirs(t, d) == Among(t.kids[d], Dirs(t))

(* level() of isopathtable.cc: the root is 1.                              *)
Level(t) ==
  LET lv[n \in Nodes(t)] == IF n = Root THEN 1 ELSE lv[Parent(t, n)] + 1 IN lv

(***************************************************************************)
(* Every pass of the writers keeps a stack of (directory, level of its     *)
(* children), starts it with the root and 2, and takes from the end.  A    *)
(* directory whose level is beyond the limit is not pushed: the pass never *)
(* sees it or anything below it.                                           *)
(***************************************************************************)
RootStack == << <<Root, 2>> >>

(* Mutant of PushDirs: the limit is one level early.                       *)
PushDirsEarly(stack, t, d, level, max) ==
  IF level >= max THEN Front(stack)
  ELSE Front(stack) \o [i \in 1 .. Len(SubDirs(t, d)) |-> <<SubDirs(t, d)[i], level + 1>>]

PushDirs(stack, t, d, level, max) ==
  IF level > max THEN Front(stack)
  ELSE Front(stack) \o [i \in 1 .. Len(SubDirs(t, d)) |-> <<SubDirs(t, d)[i], level + 1>>]

(* What a pass with this limit reaches: directories, and files in them.    *)
ReachedDirs(t, max)  == LET level == Level(t) IN {d \in Dirs(t) : level[d] <= max}
ReachedFiles(t, max) == Files(t) \cap UNION {Range(t.kids[d]) : d \in ReachedDirs(t, max)}
=============================================================================
