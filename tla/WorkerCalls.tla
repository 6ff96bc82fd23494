---------------------------- MODULE WorkerCalls -----------------------------
(***************************************************************************)
(* The two workers call by call: what CheckISOImage and MakePEImage do     *)
(* with the installer image, the wim files and the registry hive, one      *)
(* look, block or part at a time, while the user may ask to cancel.  Each  *)
(* labelled step of CheckISOImage.tla and MakePEImage.tla is one action    *)
(* there; here it is the calls it is made of, and StepsAsAssumed says that *)
(* together they do what the one action does.                              *)
(***************************************************************************)
EXTENDS WimImage, RegistryHive

CONSTANTS
  Candidates,   (* the [ExtractBootWIM] section                            *)
  CheckExtracts, MakeExtracts,  (* [ExtractFileFromBootWIM], .._BIOS/_UEFI *)
  FolderCopies, FileCopies,     (* [ExtractFolderFromISO], ..FileFromISO   *)
  UpdateCmds    (* [Delete] and [Add_..], as WIMCommands has them          *)

Software == <<"TMP", "SOFTWARE">>

(* The settings leave tmp/boot.wim alone, and what CheckISOImage takes to  *)
(* look at leaves tmp/SOFTWARE alone.  FIFTH_STEP appends what is to be    *)
(* deleted before what is to be added.                                     *)
Extracts == [from : Seq(STRING) \ {<<>>}, to : Seq(STRING) \ {<<>>},
             cmd : {"NORMAL", "DROPFILENAME", "RENAME"}]
Copied   == [from : Seq(STRING), to : Seq(STRING) \ {<<>>}]
Updates  == [op : {"delete", "add"}, path : Seq(STRING)]
ASSUME SettingsAssumption ==
  /\ {CheckExtracts, MakeExtracts} \subseteq Seq(Extracts)
  /\ {FolderCopies, FileCopies} \subseteq Seq(Copied)
  /\ \A cmd \in Range(CheckExtracts) \cup Range(MakeExtracts) : TmpWim \notin {cmd.to, FileOf(cmd)}
  /\ \A cmd \in Range(CheckExtracts) : Software \notin {cmd.to, FileOf(cmd)}
  /\ \A cmd \in Range(FolderCopies) \cup Range(FileCopies) : Head(cmd.to) # "TMP"
  /\ UpdateCmds \in Seq(Updates)
  /\ \A i, j \in DOMAIN UpdateCmds :
       UpdateCmds[i].op = "delete" /\ UpdateCmds[j].op = "add" => i < j

VARIABLES
  pc,           (* the label in Entry(); "over" when the process is        *)
  next          (* which call of the step is next                          *)

vars == <<isoVars, diskVars, cancel, seen, late, wimVars, regVars, pc, next>>

others == <<isoVars, diskVars, wimVars, regVars>>

(* The work folder as PREP_STEP leaves it.                                 *)
Init ==
  /\ IsoInit /\ WimInit /\ RegInit
  /\ local = <<>>
  /\ folders = {<<"TMP">>, <<"MEDIA">>, <<"TMP", "MOUNT">>}
  /\ cancel = FALSE /\ seen = FALSE /\ late = NothingLate
  /\ pc = "check.first" /\ next = 1

(* The page calls Terminate; afterwards nothing takes the request back.    *)
Cancel ==
  /\ pc # "exit" /\ ~cancel
  /\ cancel' = TRUE
  /\ UNCHANGED <<others, seen, late, pc, next>>

AtRest == Idle /\ WimIdle /\ RegIdle
At(label) == pc = label /\ AtRest /\ call.result # "CRASH"
NextStep(label) == pc' = label /\ next' = 1

-----------------------------------------------------------------------------
(* CheckISOImage::Entry, from FIRST_STEP.                                  *)

CheckFirst ==
  /\ At("check.first")
  /\ CreateExtractor
  /\ NextStep(IF extractor' = "none" THEN "check.end" ELSE "check.second")
  /\ UNCHANGED <<disc, call, todo, copy, diskVars, cancel, seen, late, wimVars, regVars>>

(* The first candidate in the image, or else the last of the section.      *)
BootWim ==
  LET found == {i \in DOMAIN Candidates : FileExists(Candidates[i])}
  IN IF Candidates = <<>> THEN <<"sources", "boot.wim">>
     ELSE Candidates[IF found = {} THEN Len(Candidates) ELSE Min(found)]

(* Mutant of CheckSecond: a file that was extracted in part goes on.       *)
CheckSecondGoesOn ==
  /\ At("check.second")
  /\ \/ /\ next = 1
        /\ ExtractFile(BootWim, TmpWim)
        /\ next' = 2 /\ UNCHANGED pc
     \/ /\ next = 2
        /\ NextStep(IF TmpWim \in DOMAIN local THEN "check.third" ELSE "check.sixth")
        /\ call' = NoIsoCall /\ UNCHANGED <<disc, extractor, list, todo, copy>>
  /\ UNCHANGED <<diskVars, cancel, seen, late, wimVars, regVars>>

(* The file is extracted; without it there is nothing to look at.          *)
CheckSecond ==
  /\ At("check.second")
  /\ \/ /\ next = 1
        /\ ExtractFile(BootWim, TmpWim)
        /\ next' = 2 /\ UNCHANGED pc
     \/ /\ next = 2
        /\ NextStep(IF call.result = "SUCCESS" THEN "check.third" ELSE "check.sixth")
        /\ call' = NoIsoCall /\ UNCHANGED <<disc, extractor, list, todo, copy>>
  /\ UNCHANGED <<diskVars, cancel, seen, late, wimVars, regVars>>

(* The first of the three calls that fails ends the step.                  *)
CheckThird ==
  /\ At("check.third")
  /\ \/ /\ next = 1
        /\ BeginWim("GetNameInformations", "tmp", 0, <<>>)
        /\ next' = 2 /\ UNCHANGED pc
     \/ /\ next = 2 /\ wcall.result = "SUCCESS"
        /\ BeginWim("GetPEImageNumber", "tmp", 0, <<>>)
        /\ next' = 3 /\ UNCHANGED pc
     \/ /\ next = 3 /\ wcall.result = "SUCCESS"
        /\ BeginWim("Export", "tmp", number, <<>>)
        /\ next' = 4 /\ UNCHANGED pc
     \/ /\ next = 4 \/ (next > 1 /\ wcall.result # "SUCCESS")
        /\ NextStep("check.fourth")
        /\ wcall' = NoCall /\ UNCHANGED <<pe, names, number>>
  /\ UNCHANGED <<isoVars, diskVars, cancel, seen, late, regVars>>

(* FILENOTEXIST: nothing is extracted when there is a file of that name.   *)
Kept(cmd) == cmd.cmd = "DROPFILENAME" /\ cmd.to \in DOMAIN local

(* Mutant of ExtractAll: continue, without the step to the next command.   *)
ExtractAllAgain(cmds, Leaving) ==
  \/ /\ next <= Len(cmds)
     /\ IF Kept(cmds[next]) THEN UNCHANGED <<wimVars, next>>
        ELSE BeginWim("Extract", "pe", 1, cmds[next]) /\ next' = next + 1
     /\ UNCHANGED pc
  \/ /\ next > Len(cmds)
     /\ Leaving /\ UNCHANGED wimVars

(* A loop over a section of commands; a failure of one is a message.       *)
ExtractAll(cmds, Leaving) ==
  \/ /\ next <= Len(cmds)
     /\ IF Kept(cmds[next]) THEN UNCHANGED wimVars
        ELSE BeginWim("Extract", "pe", 1, cmds[next])
     /\ next' = next + 1 /\ UNCHANGED pc
  \/ /\ next > Len(cmds)
     /\ Leaving /\ UNCHANGED wimVars

CheckFourth ==
  /\ At("check.fourth")
  /\ ExtractAll(CheckExtracts, NextStep("check.sixth"))
  /\ UNCHANGED <<isoVars, diskVars, cancel, seen, late, regVars>>

CheckSixth ==
  /\ At("check.sixth")
  /\ NextStep("check.end")
  /\ UNCHANGED <<others, cancel, seen, late>>

CheckEnd ==
  /\ At("check.end")
  /\ DeleteExtractor
  /\ names' = <<>> /\ number' = 0
  /\ NextStep("exit")
  /\ UNCHANGED <<disc, call, todo, copy, diskVars, cancel, seen, late, pe, wcall, regVars>>

-----------------------------------------------------------------------------
(* MakePEImage::Entry, from FIRST_STEP to FIFTH_STEP.                      *)

(* A new thread, which PREP_STEP lets on when tmp/boot.wim is there.       *)
MakeEntry ==
  /\ pc = "exit" /\ TmpWim \in DOMAIN local
  /\ pc' = "make.first" /\ next' = 0
  /\ cancel' = FALSE /\ seen' = FALSE /\ late' = NothingLate
  /\ UNCHANGED others

(* if(TerminateRequired()) goto END; at the head of a step.                *)
Steps == {"make.first", "make.second", "make.third", "make.fourth", "make.fifth"}

Enter(label) == At(label) /\ next = 0 /\ ~cancel /\ Look

Cancelled ==
  /\ \E label \in Steps : At(label)
  /\ next = 0 /\ cancel
  /\ IF ~seen THEN Look /\ UNCHANGED pc
     ELSE pc' = "make.end" /\ UNCHANGED seen
  /\ UNCHANGED <<others, cancel, late, next>>

MakeStep(label) == pc' = label /\ next' = 0

MakeFirst ==
  /\ Enter("make.first")
  /\ CreateExtractor
  /\ \/ extractor' # "none" /\ MakeStep("make.second")
     \/ MakeStep("make.end")
  /\ UNCHANGED <<disc, call, todo, copy, diskVars, cancel, late, wimVars, regVars>>

MakeSecond ==
  /\ \/ Enter("make.second") /\ next' = 1 /\ UNCHANGED <<pc, wimVars>>
     \/ /\ At("make.second") /\ next > 0
        /\ ExtractAll(MakeExtracts, MakeStep("make.third"))
        /\ UNCHANGED seen
  /\ UNCHANGED <<isoVars, diskVars, cancel, late, regVars>>

(* Without tmp/SOFTWARE, or when it cannot be loaded, there is nothing to  *)
(* change.                                                                 *)
SoftwareCmds == << [op |-> "add", path |-> <<"SOFTWARE">>] >>

MakeThird ==
  /\ \/ /\ Enter("make.third")
        /\ IF Software \in DOMAIN local
           THEN BeginLoad /\ next' = 1 /\ UNCHANGED pc
           ELSE MakeStep("make.fourth") /\ UNCHANGED regVars
        /\ UNCHANGED wimVars
     \/ /\ pc = "make.third" /\ reg = "update" /\ WimIdle
        /\ BeginWim("Update", "pe", 1, SoftwareCmds)
        /\ reg' = "done" /\ next' = 2
        /\ UNCHANGED <<privileged, keys, loaded, data, pc, seen>>
     \/ /\ At("make.third") /\ next > 0
        /\ MakeStep("make.fourth")
        /\ wcall' = NoCall
        /\ UNCHANGED <<pe, names, number, regVars, seen>>
  /\ UNCHANGED <<isoVars, diskVars, cancel, late>>

(* The results of the calls, and what they saw of the request, are dropped. *)
Copies == FolderCopies \o FileCopies

MakeFourth ==
  /\ \/ /\ Enter("make.fourth") /\ next' = 1
        /\ UNCHANGED <<isoVars, folders, pc>>
     \/ /\ At("make.fourth") /\ next \in DOMAIN Copies
        /\ IF next <= Len(FolderCopies)
           THEN BeginFolder(Copies[next].from, Copies[next].to)
           ELSE ExtractFile(Copies[next].from, Copies[next].to) /\ UNCHANGED folders
        /\ next' = next + 1 /\ UNCHANGED <<pc, seen>>
     \/ /\ At("make.fourth") /\ next > Len(Copies)
        /\ MakeStep("make.fifth") /\ seen' = FALSE
        /\ call' = NoIsoCall /\ UNCHANGED <<disc, extractor, list, todo, copy, folders>>
  /\ UNCHANGED <<local, cancel, late, wimVars, regVars>>

(* A failure is an error here.                                             *)
MakeFifth ==
  /\ \/ /\ Enter("make.fifth")
        /\ BeginWim("Update", "pe", 1, UpdateCmds)
        /\ next' = 1 /\ UNCHANGED pc
     \/ /\ At("make.fifth") /\ next = 1
        /\ MakeStep(IF wcall.result = "SUCCESS" THEN "make.sixth" ELSE "make.end")
        /\ wcall' = NoCall
        /\ UNCHANGED <<pe, names, number, seen>>
  /\ UNCHANGED <<isoVars, diskVars, cancel, late, regVars>>

MakeEnd ==
  /\ \E label \in {"make.sixth", "make.end"} : At(label)
  /\ DeleteExtractor
  /\ pc' = "over" /\ UNCHANGED next
  /\ UNCHANGED <<disc, call, todo, copy, diskVars, cancel, seen, late, wimVars, regVars>>

(* The process may not survive a dirent that is freed twice.               *)
Dies ==
  /\ call.result = "CRASH" /\ pc # "over"
  /\ pc' = "over"
  /\ UNCHANGED <<others, cancel, seen, late, next>>

Calls ==
  \/ IsoStep /\ UNCHANGED <<cancel, wimVars, regVars, pc, next>>
  \/ WimStep /\ UNCHANGED <<isoVars, cancel, regVars, pc, next>>
  \/ RegStep /\ UNCHANGED <<isoVars, diskVars, cancel, seen, late, wimVars, pc, next>>

Worker ==
  \/ CheckFirst \/ CheckSecond \/ CheckThird \/ CheckFourth \/ CheckSixth \/ CheckEnd
  \/ Cancelled \/ MakeFirst \/ MakeSecond \/ MakeThird \/ MakeFourth \/ MakeFifth
  \/ MakeEnd \/ Dies \/ Calls

Over == pc \in {"exit", "over"} /\ UNCHANGED vars

Next == Worker \/ MakeEntry \/ Cancel \/ Over

(* libcdio, wimlib and the registry return from every call.                *)
Spec == Init /\ [][Next]_vars /\ WF_vars(Worker)

-----------------------------------------------------------------------------
(* Properties.                                                             *)

(* Every variable stays in its range.                                      *)
TypeOK ==
  /\ extractor \in {"none", "UDF", "ISO9660"}
  /\ Range(list) \subseteq Range(Entries)
  /\ call.kind \in {"none", "file", "folder"}
  /\ todo \subseteq DOMAIN Entries
  /\ copy.at \in {"none", "open", "look", "block"} /\ copy.left \in Nat
  /\ \A f \in DOMAIN local : Front(f) \in folders /\ local[f].missing \in Nat
  /\ {cancel, seen, privileged, loaded, data} \subseteq BOOLEAN
  /\ pe.state \in {"none", "partial", "whole"}
  /\ number \in 0 .. Len(names)
  /\ keys \subseteq {"parent", "hive"}

(* What is still written after a cancel request.  Of the blocks of a copy  *)
(* and the parts of a wim at most one, as a look precedes each (ISO.cpp:   *)
(* 174, 428; WIM.cpp:198).  Nothing stops wimlib's extractions: those of   *)
(* the section in progress all go on, and in CheckISOImage, which has no   *)
(* look between its steps, those of a section that is still to come, but   *)
(* not when the export has seen the request, as it leaves no wim to        *)
(* extract from.  MakePEImage looks before the section and after it.       *)
(* Values of the registry are not counted.                                 *)
LateWrites ==
  /\ late.looked <= 1
  /\ late.extracted <=
       CASE pc \in {"check.fourth", "check.sixth", "check.end", "exit"} /\ ~seen ->
              Len(CheckExtracts)
         [] pc \in {"make.second", "make.third", "make.end", "over"} -> Len(MakeExtracts)
         [] OTHER -> 0

(* A file FileExists answers for can be opened by that name, whatever case *)
(* the settings use and whichever of the two extractors is at work.        *)
ListedCanBeOpened ==
  copy.at = "open" /\ FileExists(copy.from) => Target(copy.from) # {} \/ list[Upper(copy.from)].dir

(* media's boot.wim, when it can be opened, has one image: the PE image of *)
(* the installer's boot.wim.  All later calls ask for image 1 of it.       *)
ExportedIsPE ==
  pe.state = "whole" =>
    LET all == disc.images[local[TmpWim].of]
    IN /\ pe.images = <<all[pe.from]>>
       /\ \/ Len(all) = 1
          \/ all[pe.from] \in PENames /\ \A i \in 1 .. pe.from - 1 : all[i] \notin PENames

(* A build that gets beyond FIFTH_STEP has every file of the [Add] section *)
(* in the image, the ones [Delete] names too, and of [Delete] no other.    *)
OursIsIn ==
  pc = "make.sixth" =>
    LET Of(op) == {cmd.path : cmd \in {c \in Range(UpdateCmds) : c.op = op}}
    IN /\ \A path \in Of("add") : path \in DOMAIN pe.files /\ pe.files[path] = "ours"
       /\ (Of("delete") \ Of("add")) \cap DOMAIN pe.files = {}

(* Whichever call of THIRD_STEP fails, no key stays open and no privilege  *)
(* enabled, and the hive is not in use when wimlib reads it, unless the    *)
(* registry refused to unload it.                                          *)
HiveGivenBack ==
  reg \in {"done", "update"} => keys = {} /\ ~privileged /\ ~data

(* Each worker ends, cancelled or not, whatever fails on the way.          *)
JobEnds ==
  /\ pc = "check.first" ~> pc \in {"exit", "over"}
  /\ pc = "make.first" ~> pc = "over"

-----------------------------------------------------------------------------
(***************************************************************************)
(* The steps of CheckISOImage.tla and MakePEImage.tla, which are one       *)
(* action each.  A file is what it was until the step that writes it is    *)
(* over; FOURTH_STEP drops what its calls saw of a request.                *)
(***************************************************************************)
StepPc ==
  CASE pc \in {"check.fourth", "check.sixth"} -> "check.report"
    [] pc = "make.third" /\ next > 0 ->
         (CASE reg \in {"parent", "load", "open"} -> "make.third"
            [] reg \in {"loaded", "set", "changed", "unload", "update"} \/ ~WimIdle
                 \/ wcall.op = "Update" -> "make.hive"
            [] OTHER -> "make.fourth")
    [] OTHER -> pc

StepHive == CASE StepPc = "make.hive" -> TRUE
              [] pc = "make.third" /\ reg = "open" -> FALSE
              [] OTHER -> loaded

NoSource == [method |-> "none", path |-> "no path"]
Source   == [method |-> "FROM_ISO", path |-> "iso"]
IsoChosen  == [method |-> "FROM_ISO", path |-> "iso", Arch32bit |-> FALSE, Mbr |-> FALSE]

StepThread == IF seen /\ (pc = "make.fourth" => next = 0) THEN "TERMINATING" ELSE "STARTED"

StepTmp ==
  IF pc \in {"check.first", "check.second"} \/ TmpWim \notin DOMAIN local
  THEN [state |-> "none", src |-> NoSource]
  ELSE IF local[TmpWim].missing > 0 THEN [state |-> "partial", src |-> NoSource]
  ELSE [state |-> "whole", src |-> Source]

StepSoftware == pc # "make.second" /\ Software \in DOMAIN local

(* An update that failed in the step that is still going on.               *)
FailedJustNow ==
  /\ (pc = "make.third" /\ next = 2) \/ (pc = "make.fifth" /\ next = 1)
  /\ wcall.result = "WIMFILE_WRITE_ERROR"

StepPe ==
  IF pc # "check.third" /\ (pe.state = "whole" \/ FailedJustNow)
  THEN [state |-> "whole", src |-> Source,
        arch |-> IF pc = "make.sixth" THEN "x64" ELSE "none"]
  ELSE [state |-> "none", src |-> NoSource, arch |-> "none"]

NoIso == [state |-> "none", src |-> NoSource, arch |-> "none", boot |-> "none"]

CheckSteps == INSTANCE CheckISOImage WITH
  Paths <- {"iso"}, NoPath <- "no path", holder <- IsoChosen,
  tstate <- StepThread, events <- <<>>, listening <- FALSE, pc <- StepPc,
  isoOpen <- extractor # "none", dir <- TRUE, tmpWim <- StepTmp, software <- StepSoftware,
  peWim <- StepPe, bootFiles <- {}, isoFile <- NoIso, hive <- StepHive, mounted <- FALSE

MakeSteps == INSTANCE MakePEImage WITH
  Paths <- {"iso"}, NoPath <- "no path", holder <- IsoChosen,
  DismCmds <- <<>>, dismNext <- 1,
  tstate <- StepThread, events <- <<>>, listening <- FALSE, pc <- StepPc,
  isoOpen <- extractor # "none", dir <- TRUE, tmpWim <- StepTmp, software <- StepSoftware,
  peWim <- StepPe, bootFiles <- {}, isoFile <- NoIso, hive <- StepHive, mounted <- FALSE

stepVars == <<StepThread, StepPc, extractor # "none", StepTmp, StepSoftware, StepPe, StepHive>>

(* The page's request, once a look of the step has found it.               *)
Requested ==
  /\ StepThread = "STARTED" /\ StepThread' = "TERMINATING"
  /\ UNCHANGED <<StepPc, extractor # "none", StepTmp, StepSoftware, StepPe, StepHive>>

(* What a worker does call by call is, step by step, what CheckISOImage    *)
(* and MakePEImage take it to do: no step sees a file half done, none      *)
(* succeeds with a request it has seen, and a failure is where they say.   *)
StepsAsAssumed ==
  [][{pc, pc'} \cap {"exit", "over"} = {} =>
       CheckSteps!CheckStep \/ MakeSteps!MakeStep \/ Requested]_stepVars
=============================================================================
