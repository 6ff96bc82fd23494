------------------------------ MODULE WimImage ------------------------------
(***************************************************************************)
(* WIM (Worker/WIM.cpp): what the workers ask of wimlib.  Each call opens  *)
(* the file anew, does its steps in order, leaves for END at the first one *)
(* that fails and frees there what it opened.                              *)
(***************************************************************************)
EXTENDS IsoExtract

CONSTANTS
  PENames,    (* the names of images that contain "windows pe"             *)
  ImageFiles, (* paths in every image                                      *)
  Chunks      (* parts wimlib writes an image in                           *)

ASSUME ChunksAssumption == Chunks \in Nat \ {0}

VARIABLES
  pe,         (* media/sources/boot.wim                                    *)
  wcall,      (* the call in progress or the last one, with its result     *)
  names,      (* wim_image_names                                           *)
  number      (* image_number                                              *)

wimVars == <<pe, wcall, names, number>>

(***************************************************************************)
(* A wim: the names of its images, the number its first image has in the   *)
(* wim it was exported from, and whose the files of that image are.        *)
(***************************************************************************)
NoFile  == [state |-> "none", images |-> <<>>, from |-> 0, files |-> <<>>]
Damaged == [NoFile EXCEPT !.state = "partial"]
Installer(images) ==
  [state |-> "whole", images |-> images, from |-> 1,
   files |-> [path \in ImageFiles |-> "image"]]

(* tmp/boot.wim is what was copied there, a wim once nothing is missing of *)
(* one.                                                                    *)
TmpWim == <<"TMP", "BOOT.WIM">>
TmpFile ==
  IF TmpWim \notin DOMAIN local THEN NoFile
  ELSE IF local[TmpWim].missing > 0 \/ local[TmpWim].of \notin DOMAIN disc.images THEN Damaged
  ELSE Installer(disc.images[local[TmpWim].of])

NoCall == [op |-> "none", file |-> "tmp", image |-> 0, arg |-> <<>>, left |-> 0,
           at |-> "done", src |-> FALSE, dst |-> FALSE, result |-> "SUCCESS"]

WimInit == pe = NoFile /\ wcall = NoCall /\ names = <<>> /\ number = 0

WimIdle == wcall.at = "done"
Doing(op, at) == wcall.op = op /\ wcall.at = at
Goto(label) == wcall' = [wcall EXCEPT !.at = label]
Leave(result) == wcall' = [wcall EXCEPT !.at = "END", !.result = result]

(* Extract's folder: write_file_path, or what is before its last name; and *)
(* the file wimlib makes there.                                            *)
FolderOf(cmd) == IF cmd.cmd = "NORMAL" THEN cmd.to ELSE Front(cmd.to)
FileOf(cmd)   == Append(FolderOf(cmd), Letters[Last(cmd.from)])

ExtractTo == FolderOf(wcall.arg)
Extracted == FileOf(wcall.arg)

(* A call that makes a folder first does so before anything is opened.     *)
BeginWim(op, file, image, arg) ==
  /\ WimIdle
  /\ wcall' = [NoCall EXCEPT !.op = op, !.file = file, !.image = image, !.arg = arg,
                 !.at = IF op \in {"Export", "Extract"} THEN "mkdir" ELSE "open"]
  /\ UNCHANGED <<pe, names, number>>

Opened == IF wcall.file = "pe" THEN pe ELSE TmpFile

MakeFolder ==
  /\ wcall.at = "mkdir"
  /\ \/ /\ Goto("open")
        /\ folders' = IF wcall.op = "Extract" THEN folders \cup {ExtractTo} ELSE folders
     \/ /\ wcall' = [wcall EXCEPT !.at = "done", !.result = "WRITEFILE_OPEN_ERROR"]
        /\ UNCHANGED folders
  /\ UNCHANGED <<pe, names, number, local, late, seen>>

(* A wim that is cut short is not one.                                     *)
Open ==
  /\ wcall.at = "open"
  /\ \/ /\ Opened.state = "whole"
        /\ wcall' = [wcall EXCEPT !.src = TRUE,
                       !.at = CASE wcall.op = "Export"  -> "create"
                                [] wcall.op = "Extract" -> "resolve"
                                [] wcall.op = "Update"  -> "update"
                                [] OTHER                -> "info"]
     \/ Leave("WIMFILE_OPEN_ERROR")
  /\ UNCHANGED <<pe, names, number, diskVars, late, seen>>

GetNameInformations ==
  /\ Doing("GetNameInformations", "info")
  /\ \/ Leave("WIMFILE_GETINFO_ERROR") /\ UNCHANGED names
     \/ Leave("SUCCESS") /\ names' = Opened.images
  /\ UNCHANGED <<pe, number, diskVars, late, seen>>

(* Mutant of PEImageNumber: the search does not stop at the first.         *)
PEImageNumberLast(images) ==
  LET found == {i \in DOMAIN images : images[i] \in PENames}
  IN IF Len(images) = 1 THEN 1
     ELSE IF found = {} THEN 0 ELSE Max(found)

(* Mutant of PEImageNumber: one too many.                                  *)
PEImageNumberPast(images) ==
  LET found == {i \in DOMAIN images : images[i] \in PENames}
  IN IF Len(images) = 1 THEN 1
     ELSE IF found = {} THEN 0 ELSE Min(found) + 1

(* The only image there is, or the first one with the name; 0 if none has. *)
PEImageNumber(images) ==
  LET found == {i \in DOMAIN images : images[i] \in PENames}
  IN IF Len(images) = 1 THEN 1
     ELSE IF found = {} THEN 0 ELSE Min(found)

GetPEImageNumber ==
  /\ Doing("GetPEImageNumber", "info")
  /\ \/ Leave("WIMFILE_GETINFO_ERROR") /\ number' = 0
     \/ /\ number' = PEImageNumber(Opened.images)
        /\ Leave(IF number' = 0 THEN "IMAGE_NUMBER_ERROR" ELSE "SUCCESS")
  /\ UNCHANGED <<pe, names, diskVars, late, seen>>

(* wimlib_resolve_image gives WIMLIB_NO_IMAGE for a number out of range.   *)
Resolve(label) ==
  IF wcall.image \in DOMAIN Opened.images THEN Goto(label)
  ELSE Leave("WIMFILE_OPEN_ERROR")

(* Up to wimlib_write: nothing of the new wim is on the disk before.       *)
Export ==
  /\ \/ /\ Doing("Export", "create")
        /\ \/ wcall' = [wcall EXCEPT !.dst = TRUE, !.at = "resolve"]
           \/ Leave("WIMFILE_EXPORT_ERROR")
     \/ Doing("Export", "resolve") /\ Resolve("export")
     \/ /\ Doing("Export", "export")
        /\ \/ wcall' = [wcall EXCEPT !.at = "progress", !.left = Chunks]
           \/ Leave("WIMFILE_EXPORT_ERROR")
  /\ UNCHANGED <<pe, names, number, diskVars, late, seen>>

(* Mutant of Applied: what is added comes before what is deleted.          *)
AppliedAddFirst(files, cmds) ==
  LET added == files @@ [path \in {c.path : c \in {d \in Range(cmds) : d.op = "add"}} |-> "ours"]
  IN [path \in DOMAIN added \ {c.path : c \in {d \in Range(cmds) : d.op = "delete"}} |-> added[path]]

(***************************************************************************)
(* Update, up to wimlib_overwrite: the commands change the image in memory *)
(* in their order; a file to add that is not there fails.                  *)
(***************************************************************************)
Applied(files, cmds) ==
  FoldLeft(LAMBDA now, cmd :
             IF cmd.op = "delete" THEN [path \in DOMAIN now \ {cmd.path} |-> now[path]]
             ELSE [path \in DOMAIN now \cup {cmd.path} |->
                     IF path = cmd.path THEN "ours" ELSE now[path]],
           files, cmds)

Update ==
  /\ Doing("Update", "update")
  /\ \/ wcall' = [wcall EXCEPT !.at = "progress", !.left = Chunks]
     \/ Leave("WIMFILE_UPDATE_ERROR")
  /\ UNCHANGED <<pe, names, number, diskVars, late, seen>>

(* A write that does not end leaves the old file, or nothing of use.       *)
WriteFails ==
  /\ Leave("WIMFILE_WRITE_ERROR")
  /\ pe' \in {pe, Damaged}

(* write_progress: the request is looked at before each part is written.   *)
WriteProgress ==
  /\ wcall.at = "progress"
  /\ Look
  /\ IF cancel THEN WriteFails ELSE Goto("write") /\ UNCHANGED pe
  /\ UNCHANGED <<names, number, diskVars, late>>

(* What the file is once the last part is written.                         *)
NewFile ==
  IF wcall.op = "Export"
  THEN [Opened EXCEPT !.images = <<@[wcall.image]>>, !.from = wcall.image]
  ELSE [Opened EXCEPT !.files = Applied(@, wcall.arg)]

(* wimlib_write and wimlib_overwrite, a part at a time.                    *)
WritePart ==
  /\ wcall.at = "write"
  /\ Writes("looked")
  /\ \/ /\ wcall.left > 1
        /\ wcall' = [wcall EXCEPT !.left = @ - 1, !.at = "progress"] /\ UNCHANGED pe
     \/ wcall.left = 1 /\ Leave("SUCCESS") /\ pe' = NewFile
     \/ WriteFails
  /\ UNCHANGED <<names, number, diskVars, seen>>

(***************************************************************************)
(* Extract, after the file is open.  The path is a pattern: that nothing   *)
(* in the image matches may pass for success.  With RENAME the file gets   *)
(* the name that was asked for when that works.  No progress function is   *)
(* registered: what wimlib extracts it writes without a look.              *)
(***************************************************************************)
Extract ==
  /\ \/ Doing("Extract", "resolve") /\ Resolve("extract") /\ UNCHANGED <<local, late>>
     \/ /\ Doing("Extract", "extract")
        /\ Writes("extracted")
        /\ \/ Leave("WIMFILE_EXTRACT_ERROR") /\ UNCHANGED local
           \/ /\ Goto("rename")
              /\ local' = IF wcall.arg.from \in DOMAIN Opened.files
                          THEN With(Extracted, [of |-> wcall.arg.from, missing |-> 0])
                          ELSE local
     \/ /\ Doing("Extract", "rename")
        /\ Leave("SUCCESS") /\ UNCHANGED late
        /\ \/ UNCHANGED local
           \/ /\ wcall.arg.cmd = "RENAME" /\ Extracted \in DOMAIN local
              /\ local' = [f \in (DOMAIN local \ {Extracted}) \cup {wcall.arg.to} |->
                             IF f = wcall.arg.to THEN local[Extracted] ELSE local[f]]
  /\ UNCHANGED <<pe, names, number, folders, seen>>

(* END: what was opened is freed.  Extract's result is only printed.       *)
Free ==
  /\ wcall.at = "END"
  /\ wcall' = IF wcall.op = "Extract" THEN NoCall
              ELSE [wcall EXCEPT !.at = "done", !.src = FALSE, !.dst = FALSE]
  /\ UNCHANGED <<pe, names, number, diskVars, late, seen>>

WimStep ==
  \/ MakeFolder \/ Open \/ GetNameInformations \/ GetPEImageNumber
  \/ Export \/ Update \/ WriteProgress \/ WritePart \/ Extract \/ Free
=============================================================================
