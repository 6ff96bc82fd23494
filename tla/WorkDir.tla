------------------------------ MODULE WorkDir -------------------------------
(***************************************************************************)
(* The work folder beside the executable, which both workers read and      *)
(* write, and the two things outside the process that can hold files in    *)
(* it: a registry hive left loaded and a DISM mount left behind.  All of   *)
(* it survives the process.  Only the files whose presence or content a    *)
(* later step depends on are kept:                                         *)
(*                                                                         *)
(*   tmp/boot.wim             the wim found, copied or extracted           *)
(*   tmp/SOFTWARE             registry hive taken from the PE image        *)
(*   media/sources/boot.wim   the PE image exported from tmp/boot.wim      *)
(*   media/boot/*             etfsboot.com, efisys.bin                     *)
(*   WinPE.iso                the result                                   *)
(***************************************************************************)
EXTENDS DataHolder

VARIABLES
  dir,       (* the work folder exists                                     *)
  tmpWim,    (* tmp/boot.wim                                               *)
  software,  (* tmp/SOFTWARE exists                                        *)
  peWim,     (* media/sources/boot.wim, with the section of files added    *)
  bootFiles, (* the boot files under media/boot                            *)
  isoFile,   (* WinPE.iso                                                  *)
  hive,      (* tmp/SOFTWARE is loaded in the registry as "pemaker_hive"   *)
  mounted    (* media/sources/boot.wim is mounted on tmp/mount             *)

workVars ==
  <<dir, tmpWim, software, peWim, bootFiles, isoFile, hive, mounted>>

FileState == {"none", "partial", "whole"}
Arch      == {"x86", "x64"}
BootFile  == {"etfsboot.com", "efisys.bin"}

WimType == [state : FileState, src : SourceType]
PeType  == [state : {"none", "whole"}, src : SourceType, arch : Arch \cup {"none"}]
IsoType == [state : FileState, src : SourceType, arch : Arch \cup {"none"},
            boot : BootFile \cup {"none"}]

(* A partial file is never taken for a whole one by what reads it, so its  *)
(* content is not kept.  wimlib opens no partial image, and nothing else   *)
(* looks at the image, so there a partial file is as good as none.         *)
NoWim == [state |-> "none", src |-> NoSource]
NoPe  == [state |-> "none", src |-> NoSource, arch |-> "none"]
NoIso == [state |-> "none", src |-> NoSource, arch |-> "none", boot |-> "none"]

WorkDirType ==
  /\ dir \in BOOLEAN
  /\ tmpWim \in WimType
  /\ software \in BOOLEAN
  /\ peWim \in PeType
  /\ bootFiles \in SUBSET BootFile
  /\ isoFile \in IsoType
  /\ hive \in BOOLEAN
  /\ mounted \in BOOLEAN

(* Nothing is there before the program's first run. *)
WorkDirInit ==
  /\ dir = FALSE
  /\ tmpWim = NoWim
  /\ software = FALSE
  /\ peWim = NoPe
  /\ bootFiles = {}
  /\ isoFile = NoIso
  /\ hive = FALSE
  /\ mounted = FALSE

PartialWim == [state |-> "partial", src |-> NoSource]
PartialIso ==
  [state |-> "partial", src |-> NoSource, arch |-> "none", boot |-> "none"]

Held == hive \/ mounted

(***************************************************************************)
(* Rmdir(wxPATH_RMDIR_RECURSIVE) fails when something holds a file below   *)
(* the folder, and may have removed any of the others by then.             *)
(***************************************************************************)
TmpPartlyRemoved ==
  /\ tmpWim' \in {tmpWim, NoWim}
  /\ software' \in {software, software /\ hive}

(* WorkDir::RemoveWorkDir returns true: nothing of the folder is left.     *)
RemoveWorkDir ==
  /\ dir => ~Held
  /\ tmpWim' = NoWim
  /\ software' = FALSE
  /\ peWim' = NoPe
  /\ bootFiles' = {}
  /\ isoFile' = NoIso
  /\ UNCHANGED <<hive, mounted>>

(* WorkDir::PrepareWorkDir after it: all four folders are made, or some.   *)
PrepareWorkDir == dir' = TRUE
PrepareWorkDirFails == dir' \in BOOLEAN

(* WorkDir::RemoveWorkDir returns false. *)
RemoveWorkDirFails ==
  /\ dir
  /\ TmpPartlyRemoved
  /\ peWim' \in {peWim, NoPe}
  /\ bootFiles' \in SUBSET bootFiles
  /\ isoFile' \in {isoFile, NoIso}
  /\ UNCHANGED <<dir, hive, mounted>>

(* The recursive removal of tmp, whose result the caller ignores. *)
RemoveTmp ==
  /\ \/ ~Held /\ tmpWim' = NoWim /\ software' = FALSE
     \/ TmpPartlyRemoved
  /\ UNCHANGED <<dir, peWim, bootFiles, isoFile, hive, mounted>>
=============================================================================
