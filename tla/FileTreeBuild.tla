--------------------------- MODULE FileTreeBuild ----------------------------
(***************************************************************************)
(* From a folder on the disk to the FileTree of the image: DirTraverse of  *)
(* MakeISO.h puts every entry into the ordered FileSet of fileset.hh, and  *)
(* FileTree::create_from_file_set adds one after another below a parent    *)
(* that it must find by name.  A path is a sequence of names, and a node   *)
(* is named by the path it was added under; Root is the empty path.        *)
(***************************************************************************)
EXTENDS FileTree, FiniteSets

CONSTANTS
  NameOrder,   (* the names, in the order of their characters              *)
  LowEnd,      (* <<a, b>>: b is a and more, going on with one below "/"   *)
  Disks        (* folders: functions from paths to "is a directory"        *)

(* A folder on the disk has a path for everything below it.                *)
ASSUME DisksAssumption ==
  /\ Root = <<>>
  /\ \A d \in Disks :
       /\ d \in [DOMAIN d -> BOOLEAN] /\ DOMAIN d \subseteq Seq(Range(NameOrder)) \ {Root}
       /\ \A path \in DOMAIN d : Front(path) # Root => Front(path) \in DOMAIN d /\ d[Front(path)]

VARIABLES
  disk,        (* the folder that becomes the image                        *)
  fileSet,     (* file_set of MakeISO: internal paths                      *)
  todo,        (* what create_from_file_set has not added                  *)
  tree,        (* root_node_ and below                                     *)
  count,       (* dir_count_ and file_count_                               *)
  phase        (* where write() is, and how it ended                       *)

treeVars == <<disk, fileSet, todo, tree, count, phase>>

-----------------------------------------------------------------------------
(* std::string::compare of two paths with "/" before every name.           *)
Rank == [name \in Range(NameOrder) |-> CHOOSE i \in DOMAIN NameOrder : NameOrder[i] = name]

(* The characters of a, and of b, where either is the last name of its     *)
(* path or has a "/" behind it.                                            *)
Lower(a, a_ends, b, b_ends) ==
  IF <<a, b>> \in LowEnd THEN a_ends
  ELSE IF <<b, a>> \in LowEnd THEN ~b_ends
  ELSE Rank[a] < Rank[b]

ASSUME NamesAssumption ==
  /\ NameOrder \in Seq(Range(NameOrder)) /\ IsInjective(NameOrder) /\ "" \notin Range(NameOrder)
  /\ \A pair \in LowEnd : <<pair[2], pair[1]>> \notin LowEnd
  /\ \A a, b, c \in Range(NameOrder) : Cardinality({a, b, c}) = 3 =>
       \A x, y, z \in BOOLEAN : Lower(a, x, b, y) /\ Lower(b, y, c, z) => Lower(a, x, c, z)

(* Where two paths go apart.                                               *)
Apart(p, q, i) ==
  /\ i \in DOMAIN p \cap DOMAIN q /\ p[i] # q[i]
  /\ \A j \in 1 .. i - 1 : p[j] = q[j]

(* Mutant of Before: a directory comes after what is in it.                *)
BeforeUpwards(p, q) ==
  \/ IsStrictPrefix(q, p)
  \/ \E i \in DOMAIN p : Apart(p, q, i) /\ Lower(p[i], i = Len(p), q[i], i = Len(q))

Before(p, q) ==
  \/ IsStrictPrefix(p, q)
  \/ \E i \in DOMAIN p : Apart(p, q, i) /\ Lower(p[i], i = Len(p), q[i], i = Len(q))

(* The order of the set: i - 1 paths come before the i-th.                 *)
InOrder(paths) ==
  [i \in 1 .. Cardinality(paths) |->
     CHOOSE p \in paths : Cardinality({q \in paths : Before(q, p)}) = i - 1]

-----------------------------------------------------------------------------
NoNode == <<"">>        (* NULL                                            *)

GetChild(t, node, name) ==
  IF node \notin Dirs(t) \/ \A k \in Range(t.kids[node]) : Last(k) # name THEN NoNode
  ELSE CHOOSE k \in Range(t.kids[node]) : Last(k) = name

WalkTo(t, names) ==
  FoldLeft(LAMBDA node, name : GetChild(t, node, name), Root, names)

GetNodeFromPath(t, path) == GetChild(t, WalkTo(t, Front(path)), Last(path))

AddNode(t, parent, name, isDir) ==
  LET node == Append(parent, name)
      kids == [t.kids EXCEPT ![parent] = Append(@, node)]
  IN IF isDir
     THEN [t EXCEPT !.kids = [d \in Dirs(t) \cup {node} |-> IF d = node THEN <<>> ELSE kids[d]]]
     ELSE [kids |-> kids,
           size |-> [f \in Files(t) \cup {node} |-> IF f = node THEN 0 ELSE t.size[f]]]

-----------------------------------------------------------------------------
TreeInit ==
  /\ disk \in Disks /\ fileSet = {} /\ todo = <<>>
  /\ tree = [kids |-> [d \in {Root} |-> <<>>], size |-> <<>>]
  /\ count = [dirs |-> 0, files |-> 0] /\ phase = "traverse"

(* OnDir comes before what is in the directory.                            *)
OnDir(path)  == disk[path] /\ fileSet' = fileSet \cup {path}
OnFile(path) == ~disk[path] /\ fileSet' = fileSet \cup {path}

Traverse ==
  /\ phase = "traverse"
  /\ \E path \in DOMAIN disk \ fileSet :
       /\ Front(path) = Root \/ Front(path) \in fileSet
       /\ OnDir(path) \/ OnFile(path)
  /\ UNCHANGED <<disk, todo, tree, count, phase>>

(* Entries that go meanwhile, or cannot be opened, are not seen.           *)
CreateFromFileSet ==
  /\ phase = "traverse"
  /\ todo' = InOrder(fileSet)
  /\ phase' = "build"
  /\ UNCHANGED <<disk, fileSet, tree, count>>

AddFileFromPath ==
  /\ phase = "build" /\ todo # <<>>
  /\ LET path   == Head(todo)
         parent == WalkTo(tree, Front(path))
     IN \/ /\ parent = NoNode /\ phase' = "no parent"
           /\ UNCHANGED <<tree, count>>
        \/ /\ parent # NoNode /\ parent \in Dirs(tree)
           /\ tree' = AddNode(tree, parent, Last(path), disk[path])
           /\ count' = IF disk[path] THEN [count EXCEPT !.dirs = @ + 1]
                       ELSE [count EXCEPT !.files = @ + 1]
           /\ UNCHANGED phase
        \/ /\ parent # NoNode /\ ~disk[path] /\ phase' = "not opened"
           /\ UNCHANGED <<tree, count>>
  /\ todo' = Tail(todo)
  /\ UNCHANGED <<disk, fileSet>>

TreeNext == Traverse \/ CreateFromFileSet \/ AddFileFromPath

-----------------------------------------------------------------------------
Building == phase \in {"traverse", "build", "no parent", "not opened"}

(***************************************************************************)
(* FileComparator puts a directory before all that is in it, so that       *)
(* create_from_file_set finds every parent; the tree then has the entries  *)
(* of the file set and no others, they are counted, and get_node_from_path *)
(* finds each under its own path.                                          *)
(***************************************************************************)
TreeIsFileSet ==
  /\ phase # "no parent"
  /\ ~Building =>
       /\ Nodes(tree) = fileSet \cup {Root}
       /\ \A path \in fileSet : /\ GetNodeFromPath(tree, path) = path
                                /\ path \in Dirs(tree) <=> disk[path]
       /\ count = [dirs  |-> Cardinality({p \in fileSet : disk[p]}),
                   files |-> Cardinality({p \in fileSet : ~disk[p]})]
=============================================================================
