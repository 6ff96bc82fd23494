---------------------------- MODULE IsoPathTable ----------------------------
(***************************************************************************)
(* isopathtable.cc on the tree that was built: the directories go into the *)
(* path table, are sorted level by level, and each gets the number of its  *)
(* parent, its place in the table with the root as 1.  The directory       *)
(* records are sized and written by walks of their own (isowriter.cc), and *)
(* file_path_map of filesystemwriter.cc tells the caller under which names *)
(* the files are found.  The names on the disc are numbers, in the order   *)
(* strcmp and wcscmp give them; two names may be the same.                 *)
(***************************************************************************)
EXTENDS FileTreeBuild

CONSTANTS
  IsoName, JolietName,  (* of each name                                    *)
  MaxDirLevel,          (* get_max_dir_level: 8, or 255                    *)
  MaxId,                (* 0xffff, the largest directory number            *)
  VideoTs               (* "VIDEO_TS"                                      *)

ASSUME LimitsAssumption == MaxId \in Nat \ {0} /\ MaxDirLevel \in Nat

VARIABLES
  joliet, dvd, (* which table, and whether for DVD-Video                   *)
  stack,       (* node_stack of iso_path_table_populate                    *)
  table,       (* IsoPathTable: [node, parent]                             *)
  level,       (* the level that is sorted next                            *)
  walk,        (* dir_node_stack of calc_dir_entries_len                   *)
  entered      (* the directories whose records were sized                 *)

vars == <<treeVars, joliet, dvd, stack, table, level, walk, entered>>

-----------------------------------------------------------------------------
NameOnDisc(name) == IF joliet THEN JolietName[name] ELSE IsoName[name]
DiscName(node)   == NameOnDisc(Last(node))

(***************************************************************************)
(* entry_weight: the path it compares with "/VIDEO_TS" is put together     *)
(* from the node up, and ends with the name of the root, which is empty.   *)
(***************************************************************************)
EntryWeight(node) ==
  IF Reverse(node) \o <<"">> = <<VideoTs>> THEN 0 ELSE 1

MainPredicate(e1, e2) ==
  LET w1 == IF dvd THEN EntryWeight(e1.node) ELSE 1
      w2 == IF dvd THEN EntryWeight(e2.node) ELSE 1
  IN \/ w1 < w2
     \/ w1 = w2 /\ e1.parent < e2.parent
     \/ w1 = w2 /\ e1.parent = e2.parent /\ DiscName(e1.node) < DiscName(e2.node)

Position(node) == CHOOSE i \in DOMAIN table : table[i].node = node

(* Mutant of TooMany: one directory too many.                              *)
TooManyLate == Len(table) > MaxId + 1

TooMany == Len(table) > MaxId

(* find_parent answers 16 bits; the root is not in the table.              *)
ParentNumber(node) == (Position(node) + 1) % (MaxId + 1)

(* What std::sort may make of entries of which some compare as equal.      *)
SortedOrders(entries) ==
  {s \in [1 .. Cardinality(entries) -> entries] :
     \A i, j \in DOMAIN s : i < j => s[i] # s[j] /\ ~MainPredicate(s[j], s[i])}

-----------------------------------------------------------------------------
Init ==
  /\ TreeInit
  /\ joliet \in BOOLEAN /\ dvd \in BOOLEAN
  /\ stack = <<>> /\ table = <<>> /\ level = 2 /\ walk = <<>> /\ entered = {}

tableVars == <<joliet, dvd, stack, table, level, walk, entered>>

BuildTree == TreeNext /\ UNCHANGED tableVars

StartTable ==
  /\ phase = "build" /\ todo = <<>>
  /\ stack' = SubDirs(tree, Root)
  /\ phase' = "populate"
  /\ UNCHANGED <<disk, fileSet, todo, tree, count, joliet, dvd, table, level, walk, entered>>

(* Mutant of Populate: pop_back is forgotten.                              *)
PopulateKeeps ==
  /\ phase = "populate" /\ stack # <<>>
  /\ Len(table) < 9
  /\ stack' = stack \o SubDirs(tree, Last(stack))
  /\ table' = Append(table, [node |-> Last(stack), parent |-> 0])
  /\ UNCHANGED <<treeVars, joliet, dvd, level, walk, entered>>

(* A directory that is too deep is left out with all that is in it.        *)
Populate ==
  /\ phase = "populate" /\ stack # <<>>
  /\ LET node == Last(stack)
     IN IF Level(tree)[node] > MaxDirLevel
        THEN stack' = Front(stack) /\ UNCHANGED table
        ELSE /\ stack' = Front(stack) \o SubDirs(tree, node)
             /\ table' = Append(table, [node |-> node, parent |-> 0])
  /\ UNCHANGED <<treeVars, joliet, dvd, level, walk, entered>>

(* The order of the entries of a level is not known before its own sort.   *)
SortByLevel ==
  /\ phase = "populate" /\ stack = <<>>
  /\ \E order \in [DOMAIN table -> DOMAIN table] :
       /\ IsInjective(order)
       /\ table' = [i \in DOMAIN table |-> table[order[i]]]
  /\ \A i, j \in DOMAIN table : i < j => Level(tree)[table'[i].node] <= Level(tree)[table'[j].node]
  /\ phase' = "sort"
  /\ UNCHANGED <<disk, fileSet, todo, tree, count, joliet, dvd, stack, level, walk, entered>>

OfLevel == {i \in DOMAIN table : Level(tree)[table[i].node] = level}

(* Parents get their places before their children get numbers.             *)
SortLevel ==
  /\ phase = "sort" /\ OfLevel # {}
  /\ level = 2 \/ ~TooMany
  /\ LET first   == Cardinality({i \in DOMAIN table : Level(tree)[table[i].node] < level})
         entries == {[node |-> table[i].node,
                      parent |-> IF level = 2 THEN 1 ELSE ParentNumber(Parent(tree, table[i].node))]
                       : i \in OfLevel}
     IN \E order \in SortedOrders(entries) :
          table' = [i \in DOMAIN table |-> IF i \in OfLevel THEN order[i - first] ELSE table[i]]
  /\ level' = level + 1
  /\ UNCHANGED <<treeVars, joliet, dvd, stack, walk, entered>>

(* find_parent throws, and write() fails.                                  *)
FindParentThrows ==
  /\ phase = "sort" /\ OfLevel # {}
  /\ level > 2 /\ TooMany
  /\ phase' = "too many"
  /\ UNCHANGED <<disk, fileSet, todo, tree, count, tableVars>>

StartEntries ==
  /\ phase = "sort" /\ OfLevel = {}
  /\ walk' = RootStack
  /\ phase' = "entries"
  /\ UNCHANGED <<disk, fileSet, todo, tree, count, joliet, dvd, stack, table, level, entered>>

SizeEntries ==
  /\ phase = "entries" /\ walk # <<>>
  /\ entered' = entered \cup {Last(walk)[1]}
  /\ walk' = PushDirs(walk, tree, Last(walk)[1], Last(walk)[2], MaxDirLevel)
  /\ UNCHANGED <<treeVars, joliet, dvd, stack, table, level>>

Written == phase = "entries" /\ walk = <<>>

Stop == (Written \/ phase \in {"no parent", "not opened", "too many"}) /\ UNCHANGED vars

Next ==
  \/ BuildTree \/ StartTable \/ Populate \/ SortByLevel \/ SortLevel
  \/ FindParentThrows \/ StartEntries \/ SizeEntries \/ Stop

Spec == Init /\ [][Next]_vars

(* Mutant of InternalPath: the loop goes on to the root.                   *)
InternalPathOfRoot(node) == <<0>> \o [i \in DOMAIN node |-> NameOnDisc(node[i])]

(* get_internal_path with the names of the disc, without their versions.   *)
InternalPath(node) == [i \in DOMAIN node |-> NameOnDisc(node[i])]

FilePathMap == [file \in Files(tree) |-> InternalPath(file)]

-----------------------------------------------------------------------------
TypeOK ==
  /\ \A i \in DOMAIN table : table[i].node \in Dirs(tree) /\ table[i].parent \in 0 .. MaxId
  /\ IsInjective([i \in DOMAIN table |-> table[i].node])
  /\ Range(stack) \subseteq Dirs(tree) \ {Root}
  /\ entered \subseteq Dirs(tree)

(***************************************************************************)
(* The numbers of the levels that are sorted stand for the parents, which  *)
(* come earlier, and fit into 16 bits; find_parent ("Directory indentifier *)
(* exceeded 0xffff.") refuses the tables that are too long in time.        *)
(***************************************************************************)
NumbersHold ==
  phase \in {"sort", "entries"} =>
    \A i \in DOMAIN table :
      LET node   == table[i].node
          number == table[i].parent
      IN Level(tree)[node] < level =>
           IF Parent(tree, node) = Root THEN number = 1
           ELSE number - 1 \in 1 .. i - 1 /\ table[number - 1].node = Parent(tree, node)

(***************************************************************************)
(* The limit of levels is looked at by the path table and by the walks     *)
(* that write the directories in different ways; the table has the         *)
(* directories that are written and no others.                             *)
(***************************************************************************)
TableIsWritten ==
  Written => {table[i].node : i \in DOMAIN table} \cup {Root} = entered

(* A reader of the path table goes from directories to those in them that  *)
(* have a name, and so from the root, which is 1, along the names of a path. *)
Follow(numbers, name) ==
  {i + 1 : i \in {j \in DOMAIN table : /\ table[j].parent \in numbers
                                       /\ DiscName(table[j].node) = name}}

Found(names) ==
  FoldLeft(LAMBDA numbers, name : Follow(numbers, name), {1}, names)

(***************************************************************************)
(* A reader that follows the path of file_path_map through the path table  *)
(* comes to the directory of the file, and only there if its names and     *)
(* those of the directories above are nobody else's.                       *)
(***************************************************************************)
ReadersFindFiles ==
  Written =>
    \A file \in Files(tree) : Front(file) \in entered \ {Root} =>
      LET found == Found(Front(FilePathMap[file]))
      IN /\ Position(Front(file)) + 1 \in found
         /\ found # {Position(Front(file)) + 1} =>
              \E a, b \in entered \ {Root} :
                a # b /\ Parent(tree, a) = Parent(tree, b) /\ DiscName(a) = DiscName(b)

(* entry_weight: "The VIDEO_TS folder should be first."                    *)
VideoFirst ==
  Written /\ dvd /\ <<VideoTs>> \in entered => table[1].node = <<VideoTs>>
=============================================================================
