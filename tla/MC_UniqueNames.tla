--------------------------- MODULE MC_UniqueNames ---------------------------
(***************************************************************************)
(* UniqueNames for model checking: 4.1 names instead of 8.3, three digits  *)
(* instead of ten and 9 instead of 255, so that numbers of one, two and    *)
(* three digits are reached and run out in a folder of ten.                *)
(***************************************************************************)
EXTENDS UniqueNames, TLC

File(name) == [name |-> name, dir |-> FALSE]
Dir(name)  == [name |-> name, dir |-> TRUE]

(* Files whose names are all cut to the same one.                          *)
Alike(n) == [i \in 1 .. n |-> File(<<"a", "b", "c", "d">> \o [j \in 1 .. i |-> "a"] \o <<".", "a">>)]

(* Names that look like a numbered one, that are too short for a number,   *)
(* that are alike once copied, and folders called like files.              *)
Others ==
  <<File(<<"a", "b", "1", "2", ".", "a">>), File(<<"a", "b", "1", "2", "b", ".", "a">>),
    File(<<"a", "b", "c", "2", ".", "a">>), File(<<"a", "b", "c", ".", "a">>),
    File(<<"a", "b", "c", ".", "a", "b">>), File(<<"a", "b", "c", "d">>),
    File(<<"a", "b", "c", "_">>), File(<<"a", "b", "c", ";">>),
    Dir(<<"a", "b", "c", "d", "c">>), Dir(<<"a", "b", "c", "d", ".", "a">>)>>

(* Eight or ten alike and two others, in any place among them.             *)
MCFolders ==
  UNION {{SubSeq(Alike(n), 1, first) \o <<Others[i], Others[j]>> \o SubSeq(Alike(n), first + 1, n) :
            first \in {0, 2, n}} :
         n \in {8, 10}, i \in DOMAIN Others, j \in DOMAIN Others}

MCCharD == "a" :> "A" @@ "b" :> "B" @@ "c" :> "C" @@ "d" :> "D" @@ "." :> "_" @@ "1" :> "1" @@ "2" :> "2"
           @@ "_" :> "_" @@ ";" :> "_"
MCDigits == <<"0", "1", "2">>
=============================================================================
