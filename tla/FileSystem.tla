---------------------------- MODULE FileSystem ----------------------------
(***************************************************************************)
(* filesystem.cc and the parts of iso.cc and joliet.cc that decide how     *)
(* long a name, how deep a directory and how large a file may be.  A name  *)
(* is what these decisions look at: the characters before the last dot and *)
(* after it (ext = NoDot when there is none).                              *)
(*                                                                         *)
(*   fs.type      Type of the FileSystem                                   *)
(*   fs.level     interchange level of the ISO9660 part                    *)
(*   fs.relaxDir, fs.relaxName, fs.version                                 *)
(*                deep directories, long Joliet names, ";1" after a name   *)
(*   fs.images    the boot images: [size, node], node in extended mode     *)
(*   fs.extended, fs.catalog                                               *)
(*                catalog and images are files of the tree; the catalog's  *)
(***************************************************************************)
EXTENDS Integers, Sequences

CONSTANTS
  MaxDirLevel,      (* ISO_MAX_DIRLEVEL_NORMAL, 8                          *)
  MaxDirLevel1999,  (* ISO_MAX_DIRLEVEL_1999, 255                          *)
  MaxJoliet,        (* JOLIET_MAX_NAMELEN_NORMAL, 64                       *)
  MaxJolietRelaxed  (* JOLIET_MAX_NAMELEN_RELAXED, 101                     *)

ASSUME LimitsAssumption ==
  /\ MaxDirLevel \in Nat \ {0} /\ MaxDirLevel1999 \in Nat \ {0}
  /\ MaxJoliet \in Nat \ {0} /\ MaxJolietRelaxed \in Nat \ {0}

IsIso(fs)    == fs.type # "UDF"
IsJoliet(fs) == fs.type \in {"ISO_JOLIET", "ISO_UDF_JOLIET"}
IsUdf(fs)    == fs.type \in {"ISO_UDF", "ISO_UDF_JOLIET", "UDF", "DVDVIDEO"}
IsDvd(fs)    == fs.type = "DVDVIDEO"

AllowsFragmentation(fs) == fs.level = "LEVEL_3"
HasSuppl(fs)            == fs.level = "ISO9660_1999"

GetMaxDirLevel(fs) ==
  IF fs.relaxDir \/ fs.level = "ISO9660_1999" THEN MaxDirLevel1999 ELSE MaxDirLevel

-----------------------------------------------------------------------------
(* Lengths of names, in characters.                                        *)
NoDot == -1
Least(a, b)  == IF a < b THEN a ELSE b
IsName(nm)   == nm \in [base : Nat, ext : Nat \cup {NoDot}]
FullLen(nm)  == IF nm.ext = NoDot THEN nm.base ELSE nm.base + 1 + nm.ext

(* iso_write_file_name_l1: 8.3, the dot is kept when the extension is empty.*)
WriteNameL1(nm) ==
  IF nm.ext = NoDot THEN Least(nm.base, 8) ELSE Least(nm.base, 8) + 1 + Least(nm.ext, 3)

(* iso_write_file_name_generic and Joliet::write_file_name shorten the base *)
(* first; only an extension that leaves no room is cut as well.             *)
WriteNameCut(nm, max) ==
  IF nm.ext = NoDot THEN Least(nm.base, max)
  ELSE LET ext  == Least(nm.ext, max - 1)
           base == IF nm.base < max - ext THEN nm.base ELSE max - 1 - ext
       IN base + 1 + ext

(* LEVEL_3 has no case of its own: it falls into the default, level 1.     *)
IsoNameMax(fs) == CASE fs.level = "LEVEL_2" -> 31 [] fs.level = "ISO9660_1999" -> 207 [] OTHER -> 8

(* Iso::write_file_name.  ISO9660:1999 never adds the version.             *)
IsoWriteLen(fs, nm, is_dir) ==
  IF is_dir THEN Least(FullLen(nm), IsoNameMax(fs))
  ELSE (IF IsoNameMax(fs) = 8 THEN WriteNameL1(nm) ELSE WriteNameCut(nm, IsoNameMax(fs)))
       + (IF fs.version /\ fs.level # "ISO9660_1999" THEN 2 ELSE 0)

(* Iso::calc_file_name_len: the length is foreseen without the cutting.    *)
IsoCalcLen(fs, nm, is_dir) ==
  IF is_dir THEN Least(FullLen(nm), IsoNameMax(fs))
  ELSE (IF IsoNameMax(fs) = 8 THEN WriteNameL1(nm) ELSE Least(FullLen(nm), IsoNameMax(fs)))
       + (IF fs.version /\ fs.level # "ISO9660_1999" THEN 2 ELSE 0)

JolietMax(fs) == IF fs.relaxName THEN MaxJolietRelaxed ELSE MaxJoliet

(* Joliet::write_file_name: a name that fits is copied as it is.           *)
JolietWriteLen(fs, nm, is_dir) ==
  (IF FullLen(nm) > JolietMax(fs) THEN WriteNameCut(nm, JolietMax(fs)) ELSE FullLen(nm))
  + (IF ~is_dir /\ fs.version THEN 2 ELSE 0)

JolietCalcLen(fs, nm, is_dir) ==
  Least(FullLen(nm), JolietMax(fs)) + (IF ~is_dir /\ fs.version THEN 2 ELSE 0)

(* Bytes of the name in a record: Joliet's characters have two.            *)
WriteBytesOf(fs, nm, is_dir, joliet) ==
  IF joliet THEN 2 * JolietWriteLen(fs, nm, is_dir) ELSE IsoWriteLen(fs, nm, is_dir)
CalcBytesOf(fs, nm, is_dir, joliet) ==
  IF joliet THEN 2 * JolietCalcLen(fs, nm, is_dir) ELSE IsoCalcLen(fs, nm, is_dir)

Even(n) == n + (n % 2)
=============================================================================
