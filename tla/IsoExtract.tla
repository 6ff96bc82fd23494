----------------------------- MODULE IsoExtract -----------------------------
(***************************************************************************)
(* ISOExtractor (Worker/ISO.cpp): files and folders of the installer image *)
(* are copied to the local disk by one of two extractors, over UDF and     *)
(* over ISO9660.  libcdio and the local disk are what the environment      *)
(* makes of them: anything may fail to open, to be read or to be written.  *)
(***************************************************************************)
EXTENDS Integers, Sequences, SequencesExt, FiniteSetsExt

CONSTANTS
  Letters,    (* [name -> its letters in upper case], wxString::Upper      *)
  Discs,      (* what can be in the image file: [udf, iso9660, entries,    *)
              (* images], the images by the path of their boot.wim         *)
  MaxLost     (* bound: folders that cannot be opened for the list         *)

ASSUME MaxLostAssumption == MaxLost \in Nat
ASSUME DiscsAssumption ==
  \A d \in Discs : /\ d.entries \in Seq([path : Seq(STRING), dir : BOOLEAN, blocks : Nat])
                  /\ \A path \in DOMAIN d.images : d.images[path] \in Seq(STRING)

VARIABLES
  disc,       (* the image                                                 *)
  extractor,  (* "none", "UDF" or "ISO9660"                                *)
  list,       (* file_list: path in upper case -> the entry it stands for  *)
  call,       (* the call in progress or the last one, and its result      *)
  todo,       (* which entries extract_folder has still to look at         *)
  copy,       (* ExtractFile's locals                                      *)
  local,      (* files on the local disk                                   *)
  folders,    (* folders on the local disk                                 *)
  cancel,     (* CustomThread's state is TERMINATING                       *)
  seen,       (* the last answer of TerminateRequired                      *)
  late        (* what was written since the cancel request: blocks and     *)
              (* parts of a wim, which a look precedes, and what wimlib    *)
              (* extracts, which none does                                 *)

isoVars == <<disc, extractor, list, call, todo, copy>>
diskVars == <<local, folders>>

(***************************************************************************)
(* A path is a sequence of names.  The entries of an image are in the      *)
(* order a recursive walk meets them: a folder before what is in it.       *)
(***************************************************************************)
Upper(path) == [i \in DOMAIN path |-> Letters[path[i]]]

Under(path, dir) == IsStrictPrefix(dir, path)

RootEntry == [path |-> <<>>, dir |-> TRUE, blocks |-> 0]
Entries == <<RootEntry>> \o disc.entries
Folders == {e \in Range(disc.entries) : e.dir}

(* The files on the local disk, and one of that path.                      *)
With(path, file) ==
  [f \in DOMAIN local \cup {path} |-> IF f = path THEN file ELSE local[f]]

NoCopy == [from |-> <<>>, to |-> <<>>, left |-> 0, at |-> "none"]

NoIsoCall == [kind |-> "none", to |-> <<>>, result |-> "SUCCESS"]
Running(kind, to) == [kind |-> kind, to |-> to, result |-> "INITIAL"]
Idle == call.result # "INITIAL"

IsoInit ==
  /\ disc \in Discs
  /\ extractor = "none" /\ list = <<>>
  /\ call = NoIsoCall
  /\ todo = {} /\ copy = NoCopy

(* TerminateRequired(): its answer is remembered.                          *)
Look == seen' = cancel

(* One more of a kind is written; it counts when the request was made.     *)
NothingLate == [looked |-> 0, extracted |-> 0]
Writes(kind) == late' = IF cancel THEN [late EXCEPT ![kind] = @ + 1] ELSE late

-----------------------------------------------------------------------------
(* Opening.                                                                *)

(***************************************************************************)
(* create_file_list: a folder that cannot be opened is not in the list,    *)
(* nor is what is below it.  The later of two paths with the same letters  *)
(* takes the place of the earlier one.                                     *)
(***************************************************************************)
FileList(lost) ==
  LET met == {i \in DOMAIN Entries : ~ \E d \in lost : IsPrefix(d.path, Entries[i].path)}
  IN [key \in {Upper(Entries[i].path) : i \in met} |->
        Entries[Max({i \in met : Upper(Entries[i].path) = key})]]

(* The list is empty when the root cannot be read; the extractor is valid. *)
Lists ==
  {<<>>} \cup {FileList(lost) : lost \in {few \in SUBSET Folders : Cardinality(few) <= MaxLost}}

CreateUdf ==
  /\ disc.udf
  /\ extractor' = "UDF" /\ list' \in Lists

CreateIso9660 ==
  /\ ~disc.udf /\ disc.iso9660
  /\ extractor' = "ISO9660" /\ list' \in Lists

(* ISO::CreateExtractor returns nullptr.                                   *)
CreateFails ==
  /\ ~disc.udf /\ ~disc.iso9660
  /\ UNCHANGED <<extractor, list>>

CreateExtractor == CreateUdf \/ CreateIso9660 \/ CreateFails

DeleteExtractor == extractor' = "none" /\ list' = <<>>

FileExists(path) == Upper(path) \in DOMAIN list

(* Mutant of CorrectName: the path as it was asked for.                    *)
CorrectNameAsked(path) == path

(* get_correct_filename: the path as the image has it, if it is listed.    *)
CorrectName(path) == IF FileExists(path) THEN list[Upper(path)].path ELSE path

-----------------------------------------------------------------------------
(* ExtractFile.                                                            *)

(* What a call may open: none, or one entry.                               *)
UdfTarget(from) == {e \in Range(Entries) : e.path = CorrectName(from)}
Iso9660Target(from) == {e \in Range(list) : FileExists(from) /\ e = list[Upper(from)] /\ ~e.dir}
Target(from) == IF extractor = "UDF" THEN UdfTarget(from) ELSE Iso9660Target(from)

(* The caller of ExtractFile gets its result; extract_folder drops it.     *)
EndFile(result) ==
  /\ copy' = NoCopy
  /\ call' = IF call.kind = "folder" THEN call ELSE [call EXCEPT !.result = result]

ExtractFile(from, to) ==
  /\ Idle
  /\ call' = Running("file", to)
  /\ copy' = [from |-> from, to |-> to, left |-> 0, at |-> "open"]
  /\ UNCHANGED <<disc, extractor, list, todo>>

(* The file is made empty before the first block is read.                  *)
CopyOpen ==
  /\ copy.at = "open"
  /\ \/ /\ extractor = "UDF" \/ Target(copy.from) = {}
        /\ EndFile("TARGETFILE_OPEN_ERROR") /\ UNCHANGED local
     \/ Target(copy.from) # {} /\ EndFile("WRITEFILE_OPEN_ERROR") /\ UNCHANGED local
     \/ /\ Front(copy.to) \in folders
        /\ \E e \in Target(copy.from) :
             /\ copy' = [copy EXCEPT !.left = e.blocks, !.at = "look"]
             /\ local' = With(copy.to, [of |-> e.path, missing |-> e.blocks])
        /\ UNCHANGED call
  /\ UNCHANGED <<disc, extractor, list, todo, folders, seen, late>>

(* Mutant of CopyLook: the request is looked at where progress is reported, *)
(* which it is not while a folder is extracted.                            *)
CopyLookReporting ==
  /\ copy.at = "look" /\ copy.left > 0
  /\ Look
  /\ IF cancel /\ call.kind = "file" THEN EndFile("TERMINATED")
     ELSE copy' = [copy EXCEPT !.at = "block"] /\ UNCHANGED call
  /\ UNCHANGED <<disc, extractor, list, todo, local, folders, late>>

(* The request is looked at before each block.                             *)
CopyLook ==
  /\ copy.at = "look" /\ copy.left > 0
  /\ Look
  /\ IF cancel THEN EndFile("TERMINATED")
     ELSE copy' = [copy EXCEPT !.at = "block"] /\ UNCHANGED call
  /\ UNCHANGED <<disc, extractor, list, todo, local, folders, late>>

Written ==
  /\ local' = [local EXCEPT ![copy.to].missing = @ - 1]
  /\ Writes("looked")

(***************************************************************************)
(* A block is read and written, or one of the two fails.  libcdio reads a  *)
(* whole block or what is left of the file.                                *)
(***************************************************************************)
CopyBlock ==
  /\ copy.at = "block"
  /\ \/ /\ Written
        /\ copy' = [copy EXCEPT !.left = @ - 1, !.at = "look"]
        /\ UNCHANGED call
     \/ /\ \E error \in {"TARGETFILE_READ_ERROR", "WRITEFILE_WRITE_ERROR"} : EndFile(error)
        /\ UNCHANGED <<local, late>>
  /\ UNCHANGED <<disc, extractor, list, todo, folders, seen>>

CopyDone ==
  /\ copy.at = "look" /\ copy.left = 0
  /\ EndFile("SUCCESS")
  /\ UNCHANGED <<disc, extractor, list, todo, diskVars, seen, late>>

-----------------------------------------------------------------------------
(* ExtractFolder.                                                          *)

End(result) == call' = [call EXCEPT !.result = result] /\ todo' = {}

LocalPath(to, path) == to \o Upper(path)

(***************************************************************************)
(* The folder itself is made, except for the root, for which nothing is.   *)
(***************************************************************************)
BeginFolder(from, to) ==
  LET path  == CorrectName(from)
      found == \E e \in Range(Entries) : e.path = path /\ e.dir
      Started(result) == call' = [kind |-> "folder", to |-> to, result |-> result]
  IN /\ Idle
     /\ \/ Started("TARGETFILE_OPEN_ERROR") /\ todo' = {} /\ UNCHANGED folders
        \/ /\ found /\ path # <<>>
           /\ Started("WRITEFILE_MKDIR_ERROR") /\ todo' = {} /\ UNCHANGED folders
        \/ /\ found
           /\ Started("INITIAL")
           /\ todo' = {i \in DOMAIN Entries : Under(Entries[i].path, path)}
           /\ folders' = IF path = <<>> THEN folders ELSE folders \cup {LocalPath(to, path)}
     /\ UNCHANGED <<disc, extractor, list, copy, local, seen, late>>

InFolder == call.kind = "folder" /\ ~Idle /\ copy.at = "none"
First == Entries[Min(todo)]

(* A folder that cannot be opened is passed over without a word.           *)
Subfolder(failures) ==
  /\ InFolder /\ todo # {} /\ First.dir
  /\ \/ /\ todo' = {i \in todo : ~IsPrefix(First.path, Entries[i].path)}
        /\ UNCHANGED <<call, folders>>
     \/ /\ todo' = todo \ {Min(todo)}
        /\ folders' = folders \cup {LocalPath(call.to, First.path)}
        /\ UNCHANGED call
     \/ /\ \E result \in failures : End(result)
        /\ UNCHANGED folders
  /\ UNCHANGED <<disc, extractor, list, copy, local, seen, late>>

(***************************************************************************)
(* When a folder cannot be made, each folder around it frees its own       *)
(* dirent and ExtractFolder frees the outermost again, which the process   *)
(* may not survive.                                                        *)
(***************************************************************************)
UdfSubfolder ==
  extractor = "UDF" /\ Subfolder({"WRITEFILE_MKDIR_ERROR", "CRASH"})

Iso9660Subfolder ==
  extractor = "ISO9660" /\ Subfolder({"WRITEFILE_MKDIR_ERROR"})

(* The file is asked for by its path, which the list may correct.          *)
Subfile ==
  /\ InFolder /\ todo # {} /\ ~First.dir
  /\ copy' = [from |-> First.path, to |-> LocalPath(call.to, First.path),
              left |-> 0, at |-> "open"]
  /\ todo' = todo \ {Min(todo)}
  /\ UNCHANGED <<disc, extractor, list, call, diskVars, seen, late>>

FolderDone ==
  /\ InFolder /\ todo = {}
  /\ End("SUCCESS")
  /\ UNCHANGED <<disc, extractor, list, copy, diskVars, seen, late>>

IsoStep ==
  \/ CopyOpen \/ CopyLook \/ CopyBlock \/ CopyDone
  \/ UdfSubfolder \/ Iso9660Subfolder \/ Subfile \/ FolderDone
=============================================================================
