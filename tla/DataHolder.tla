----------------------------- MODULE DataHolder -----------------------------
(***************************************************************************)
(* The choices the user makes in the wizard (DataHolder.h).  One           *)
(* DataHolder belongs to the main frame; the pages write it and both       *)
(* worker threads read it through a plain pointer, without a lock.         *)
(***************************************************************************)

CONSTANTS
  Paths,    (* the files a user can pick in a file dialog                  *)
  NoPath    (* FILE_PATH's initial value, the empty string                 *)

ASSUME NoPathAssumption == NoPath \notin Paths

VARIABLE holder

(* EXTRACT_BOOT_WIM_METHOD.                                                *)
Method == {"FROM_ISO", "FROM_RE", "USE_EXISTING_FILE"}

Unset == "UNSET"

DataHolderType ==
  [method : Method \cup {Unset}, path : Paths \cup {NoPath},
   Arch32bit : BOOLEAN, Mbr : BOOLEAN]

(***************************************************************************)
(* ExtractMethod has no initialiser: until a handler of the main page      *)
(* writes it, it is whatever memory holds, here a value of its own.        *)
(***************************************************************************)
InitialChoices ==
  [method |-> Unset, path |-> NoPath, Arch32bit |-> FALSE, Mbr |-> FALSE]

(***************************************************************************)
(* Where a boot.wim comes from: the recovery partition, or a chosen file.  *)
(* The path of an earlier choice stays in the holder when the recovery     *)
(* environment is chosen later, so it is not part of that source.          *)
(***************************************************************************)
SourceType ==
  [method : Method \cup {"none"}, path : Paths \cup {NoPath}]

NoSource == [method |-> "none", path |-> NoPath]

SelectedSource ==
  [method |-> holder.method,
   path   |-> IF holder.method = "FROM_RE" THEN NoPath ELSE holder.path]

(* The sections of pe_settings.ini and the boot file the choices stand for. *)
SelectedArch == IF holder.Arch32bit THEN "x86" ELSE "x64"
SelectedBoot == IF holder.Mbr THEN "etfsboot.com" ELSE "efisys.bin"
=============================================================================
