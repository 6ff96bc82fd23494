--------------------------- MODULE MC_IsoPathTable --------------------------
(***************************************************************************)
(* IsoPathTable for model checking: folders of up to seven entries, four   *)
(* levels of which one is too deep, and 4 for the number 0xffff.           *)
(***************************************************************************)
EXTENDS IsoPathTable, TLC

MCRoot == <<>>

(* In the order of their characters; "a-" is one that goes between "a" and *)
(* what is in "a".                                                         *)
MCNameOrder == <<"VIDEO_TS", "a", "a-", "b", "f">>
MCLowEnd == {<<"a", "a-">>}

Folder(dirs, files) == [path \in dirs \cup files |-> path \in dirs]

MCDisks ==
  {Folder({<<"a">>, <<"a-">>, <<"a", "b">>, <<"a-", "a">>}, {<<"a", "f">>, <<"a", "b", "f">>, <<"a-", "a", "f">>}),
   Folder({<<"VIDEO_TS">>, <<"a">>, <<"b">>, <<"b", "a">>}, {<<"VIDEO_TS", "f">>, <<"b", "a", "f">>, <<"f">>}),
   Folder({<<"a">>, <<"a", "a">>, <<"a", "a", "b">>}, {<<"a", "a", "f">>, <<"a", "a", "b", "f">>}),
   Folder({<<"a">>, <<"a-">>, <<"b">>, <<"f">>, <<"f", "a">>}, {<<"f", "a", "f">>}),
   Folder({<<"a">>, <<"a-">>, <<"b">>, <<"b", "a">>}, {<<"b", "a", "f">>})}

(* "a" and "a-" have one name in ISO9660, and Joliet sorts "b" first.      *)
MCIsoName == "VIDEO_TS" :> 4 @@ "a" :> 1 @@ "a-" :> 1 @@ "b" :> 2 @@ "f" :> 3
MCJolietName == "VIDEO_TS" :> 5 @@ "a" :> 2 @@ "a-" :> 3 @@ "b" :> 1 @@ "f" :> 4
=============================================================================
