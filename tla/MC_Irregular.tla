---------------------------- MODULE MC_Irregular ----------------------------
(***************************************************************************)
(* Inputs of FileSystemWriter that are not Regular, with which the image   *)
(* is wrong and nobody is told.                                            *)
(***************************************************************************)
EXTENDS MC_FileSystemWriter

(* Identifiers of 40 + 3 * 72 bytes: the pad after them finds no open      *)
(* sector and writes a whole one.                                          *)
FullIdents == {Input(Data("UDF"), FullIdentsTree)}

(* The image of PEMaker with a boot.wim beyond 1 GiB.                      *)
LargeWim == {Input(PEImage, [Boot EXCEPT !.size["boot.wim"] = ShortLimit + 10])}

(* The image of PEMaker.                                                   *)
PEInput == {Input(PEImage, Boot)}
=============================================================================
