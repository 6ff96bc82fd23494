------------------------ MODULE MC_FileSystemWriter ------------------------
(***************************************************************************)
(* FileSystemWriter for model checking.  Sectors have 256 bytes and the    *)
(* limits shrink with them, so that five records or identifiers already    *)
(* fill a directory's sector, a file of 900 bytes has two extents and a    *)
(* directory of level 4 is too deep.                                       *)
(***************************************************************************)
EXTENDS FileSystemWriter

MCRegions == IsoRegions \cup UdfRegions

Data(t) == [type |-> t, level |-> "LEVEL_1", relaxDir |-> FALSE, relaxName |-> FALSE,
            version |-> FALSE, images |-> <<>>, extended |-> FALSE, catalog |-> "none",
            shortAd |-> FALSE]

InHeader(size) == [size |-> size, node |-> "none"]

(* As MakeISO sets it up: boot.catalog and the image are files of the tree.*)
PEImage == [Data("ISO_UDF_JOLIET") EXCEPT !.level = "LEVEL_3", !.relaxName = TRUE,
              !.version = TRUE, !.shortAd = TRUE, !.extended = TRUE, !.catalog = "boot.catalog",
              !.images = << [size |-> 300, node |-> "efisys.bin"] >>]

Systems ==
  {PEImage,
   Data("ISO"),
   [Data("ISO_JOLIET") EXCEPT !.level = "LEVEL_2", !.version = TRUE, !.images = <<InHeader(300)>>],
   [Data("ISO") EXCEPT !.level = "ISO9660_1999"],
   [Data("ISO_UDF") EXCEPT !.level = "LEVEL_3", !.images = <<InHeader(512), InHeader(300)>>],
   [Data("ISO_UDF_JOLIET") EXCEPT !.relaxDir = TRUE],
   Data("UDF"),
   Data("DVDVIDEO")}

Name(base, ext) == [base |-> base, ext |-> ext]

(* A tree from the children of its directories, the sizes of its files and *)
(* the names that are not 4.3 or 4 characters long.                        *)
Tree(kids, size, names) ==
  [kids |-> kids, size |-> size, pad |-> [f \in DOMAIN size |-> 0],
   name |-> [n \in DOMAIN kids \cup DOMAIN size |->
               IF n \in DOMAIN names THEN names[n]
               ELSE IF n \in DOMAIN kids THEN Name(4, NoDot) ELSE Name(4, 3)]]

Padded(t, f, n) == [t EXCEPT !.pad[f] = n]

(* The two files that the boot record needs, and a folder.                 *)
Boot == Tree("root" :> <<"boot.catalog", "efisys.bin", "sources">> @@ "sources" :> <<"boot.wim">>,
             "boot.catalog" :> 256 @@ "efisys.bin" :> 300 @@ "boot.wim" :> 700,
             "boot.catalog" :> Name(4, 7))

(* The first four records of the root fill a sector of ISO9660 exactly; as *)
(* Joliet records they leave gaps, so that the root has one sector more    *)
(* than its bytes would need.                                              *)
Full == Tree("root" :> <<"b", "c", "d", "a", "e", "boot.catalog", "efisys.bin">>,
             "a" :> 1 @@ "b" :> 256 @@ "c" :> 0 @@ "d" :> 257 @@ "e" :> 2 @@
             "boot.catalog" :> 256 @@ "efisys.bin" :> 300,
             "b" :> Name(14, 3) @@ "c" :> Name(14, 3) @@ "d" :> Name(15, 4) @@ "e" :> Name(14, 3))

(* Nested folders with an empty one, and a file that ends a sector.        *)
Deep == Tree("root" :> <<"x", "empty", "boot.catalog", "efisys.bin">> @@ "x" :> <<"y", "f">> @@
             "y" :> <<"z", "g">> @@ "z" :> <<"h">> @@ "empty" :> <<>>,
             "f" :> 512 @@ "g" :> 10 @@ "h" :> 300 @@ "boot.catalog" :> 256 @@ "efisys.bin" :> 300,
             "x" :> Name(12, NoDot) @@ "g" :> Name(0, 5) @@ "z" :> Name(3, 0))

(* Files of two and of three extents.                                      *)
Large == Tree("root" :> <<"big", "small">>, "big" :> 900 @@ "small" :> 5, <<>>)
Huge  == Tree("root" :> <<"d", "small">> @@ "d" :> <<"big">>, "big" :> 2000 @@ "small" :> 5, <<>>)

(* A DVD-Video folder, with the padding that DvdVideo adds to a file.      *)
Video == Padded(Tree("root" :> <<"VIDEO_TS">> @@ "VIDEO_TS" :> <<"VIDEO_TS.IFO", "VIDEO_TS.BUP">>,
                     "VIDEO_TS.IFO" :> 512 @@ "VIDEO_TS.BUP" :> 512,
                     "VIDEO_TS" :> Name(8, NoDot) @@ "VIDEO_TS.IFO" :> Name(8, 3) @@
                     "VIDEO_TS.BUP" :> Name(8, 3)), "VIDEO_TS.IFO", 3)

Usual(input) == (\E f \in Files(input.tree) : input.tree.pad[f] > 0) => IsDvd(input.fs)

MCInputs ==
  {input \in [fs : Systems, tree : {Boot, Full, Deep, Large, Huge, Video}] :
     Usual(input) /\ Regular(input.fs, input.tree)}

(* None of them comes near the width of the counters.                      *)
ASSUME \A input \in MCInputs : Fits(input.fs, input.tree)

(* The image of PEMaker is among them, and no file system is left out.     *)
ASSUME \A s \in Systems : \E t \in {Boot, Full, Deep, Large, Huge, Video} :
         [fs |-> s, tree |-> t] \in MCInputs
ASSUME \A t \in {Boot, Full, Deep, Large, Huge, Video} : \E s \in Systems :
         [fs |-> s, tree |-> t] \in MCInputs

-----------------------------------------------------------------------------
(***************************************************************************)
(* No conjunct of Regular can be left out: for each there is a tree or a   *)
(* file system with which two passes that must agree do not.               *)
(***************************************************************************)
Input(f, t) == [fs |-> f, tree |-> t]
Sectors(s)  == s.sector

(* udfwriter.cc:233: full sectors of identifiers are followed by an empty  *)
(* one.                                                                    *)
FullIdentsTree ==
  Tree("root" :> <<"d", "a", "b">> @@ "d" :> <<"c">>, "a" :> 1 @@ "b" :> 1 @@ "c" :> 1,
       "d" :> Name(16, NoDot) @@ "a" :> Name(12, 3) @@ "b" :> Name(11, 3))
ASSUME Sectors(WriteUdfDir(NewStream, Data("UDF"), FullIdentsTree, Root))
         # UdfSize(Data("UDF"), FullIdentsTree, Root)

(* udf.cc:335 and 1102: a name of 240 characters is foreseen as it is, and *)
(* written with 127 of them.                                               *)
LongNamesTree ==
  Tree("root" :> <<"d", "a">> @@ "d" :> <<>>, "a" :> 1, "d" :> Name(240, NoDot))
ASSUME Sectors(WriteUdfDir(NewStream, Data("UDF"), LongNamesTree, Root))
         # UdfSize(Data("UDF"), LongNamesTree, Root)

(* udfwriter.cc:220: an identifier takes one sector at most off the count. *)
(* One of 280 bytes is more than the sectors here; with 2048 bytes none is. *)
LongIdentTree ==
  Tree("root" :> <<"d", "e", "a">> @@ "d" :> <<>> @@ "e" :> <<>>, "a" :> 1,
       "e" :> Name(56, NoDot) @@ "a" :> Name(116, 3))
ASSUME NextPartSec(Data("UDF"), LongIdentTree, Root, 0)
         # UdfSize(Data("UDF"), LongIdentTree, Root)

(* isowriter.cc:495 and 1188: both records of a file of two extents move   *)
(* to the next sector, or one of them does.                                *)
TwoExtentsTree ==
  Tree("root" :> <<"a", "b", "c", "big", "e", "f", "g", "h", "i">>,
       [f \in {"a", "b", "c", "e", "f", "g", "h", "i"} |-> 1] @@ "big" :> 900,
       [f \in {"a", "b", "c"} |-> Name(8, 3)])
ASSUME LET f == [Data("ISO") EXCEPT !.level = "LEVEL_3"]
       IN Sectors(WriteDir(NewStream, f, TwoExtentsTree, Root, 2, FALSE))
            # CalcDirSectors(f, TwoExtentsTree, Root, 2, FALSE)

(* isowriter.cc:903: a boot image in a folder that is too deep is in the   *)
(* tree, and nobody gives it a place or writes it.                         *)
DeepImageTree ==
  Tree("root" :> <<"x", "boot.catalog">> @@ "x" :> <<"y">> @@ "y" :> <<"z">> @@ "z" :> <<"efisys.bin">>,
       "boot.catalog" :> 256 @@ "efisys.bin" :> 300, <<>>)
ASSUME "efisys.bin" \in Files(DeepImageTree) \ ReachedFiles(DeepImageTree, GetMaxDirLevel(PEImage))

(* eltorito.cc:366: two images of one and a half sectors are taken for 3.  *)
ASSUME LET images == <<InHeader(384), InHeader(384)>>
       IN Sectors(WriteBootImages(NewStream, images).out) # BytesToSec(BootDataSize(images))

(* udfwriter.cc:300: the header must leave room for the descriptors before *)
(* the anchor.  A catalog of 17 images has 5 sectors here.                 *)
ASSUME LET f == [Data("ISO_UDF") EXCEPT
                   !.images = [i \in 1 .. 17 |-> InHeader(IF i = 17 THEN 180 * 256 ELSE 256)]]
           m == AllocUdf(AllocIsoHeader(NewManager(16), f), f, Boot)
       IN /\ 8 + BytesToSec(BootDataSize(f.images)) <= 222 - 16
          /\ UdfDescriptors(m, Boot).anchor.tag # AnchorSector

(* udfwriter.cc:300: a header of more than 222 sectors leaves no room for  *)
(* the descriptors before the anchor; after one that ends beyond 258 the   *)
(* difference wraps, and the file set is put where the header already is.  *)
ASSUME 223 + MainSectors(223) # AnchorSector
ASSUME LET f == [Data("ISO_UDF") EXCEPT !.images = <<InHeader(250 * 256)>>]
           m == AllocUdf(AllocIsoHeader(NewManager(16), f), f, Boot)
       IN GetStart(m, "fileset") < GetStart(m, "main")

(* udf.cc:921: a file of exactly 1 GiB is let through on DVD-Video.        *)
ASSUME AllocDescriptors(Data("DVDVIDEO"), 0, ShortLimit)[1].kind # 0
=============================================================================
