---------------------------- MODULE MakePEImage -----------------------------
(***************************************************************************)
(* MakePEImage::Entry (Worker/MakePEImage.cpp), the second worker: it      *)
(* turns the PE image of the work folder into WinPE.iso.  One action per   *)
(* labelled step; a step that calls out several times is one action when   *)
(* nothing else can tell the calls apart.                                  *)
(***************************************************************************)
EXTENDS CustomThread, WorkDir

CONSTANT DismCmds  (* the [DISMCmds] section: what each command does       *)

ASSUME DismAssumption == DismCmds \in Seq({"mount", "service", "unmount"})

VARIABLE dismNext  (* index of the next DISM command                       *)

makePc ==
  {"make.entry", "make.prep", "make.first", "make.second", "make.third",
   "make.hive", "make.fourth", "make.fifth", "make.sixth", "make.seventh",
   "make.dism", "make.eighth", "make.final", "make.end"}

MakeFail ==
  /\ Post("ERROR")
  /\ pc' = "make.end"

(* if(TerminateRequired()) goto END; at the head of a step. *)
Cancelled(step) ==
  /\ pc = step
  /\ TerminateRequired
  /\ pc' = "make.end"
  /\ UNCHANGED <<tstate, events, listening, isoOpen, holder, workVars, dismNext>>

Enter(step) ==
  /\ pc = step
  /\ ~TerminateRequired

(* A failed wimlib overwrite leaves the image as it was, or damaged. *)
OverwriteFailed == peWim' \in {peWim, NoPe}

(* Entered on the new thread. *)
MakeEntry ==
  /\ pc = "make.entry"
  /\ SetStateStart
  /\ pc' = "make.prep"
  /\ UNCHANGED <<listening, isoOpen, holder, workVars, dismNext>>

(* PREP_STEP: only the presence of tmp/boot.wim is looked at. *)
MakePrep ==
  /\ pc = "make.prep"
  /\ \/ tmpWim.state = "none" /\ MakeFail
     \/ tmpWim.state # "none" /\ pc' = "make.first" /\ UNCHANGED events
  /\ UNCHANGED <<tstate, listening, isoOpen, holder, workVars, dismNext>>

(* Mutant of MakeFirst: no goto END after the error of opening the image.  *)
MakeFirstGoesOn ==
  /\ Enter("make.first")
  /\ isoOpen' \in (IF holder.method = "FROM_ISO" THEN BOOLEAN ELSE {FALSE})
  /\ \/ MakeFail
     \/ pc' = "make.second" /\ UNCHANGED events
     \/ Post("ERROR") /\ pc' = "make.second"
  /\ UNCHANGED <<tstate, listening, holder, workVars, dismNext>>

(***************************************************************************)
(* FIRST_STEP: the installer image is opened when the source is one, and   *)
(* the boot catalog file is created; either may fail.                      *)
(***************************************************************************)
MakeFirst ==
  /\ Enter("make.first")
  /\ isoOpen' \in (IF holder.method = "FROM_ISO" THEN BOOLEAN ELSE {FALSE})
  /\ \/ MakeFail
     \/ /\ isoOpen' = (holder.method = "FROM_ISO")
        /\ pc' = "make.second"
        /\ UNCHANGED events
  /\ UNCHANGED <<tstate, listening, holder, workVars, dismNext>>

(***************************************************************************)
(* SECOND_STEP: the boot files of the chosen firmware and the SOFTWARE     *)
(* hive are extracted from the PE image; each may be missing there, which  *)
(* is only a message.                                                      *)
(***************************************************************************)
MakeSecond ==
  /\ Enter("make.second")
  /\ IF peWim.state = "whole"
     THEN /\ bootFiles' \in {bootFiles, bootFiles \cup {SelectedBoot}}
          /\ software' \in {software, TRUE}
     ELSE UNCHANGED <<bootFiles, software>>
  /\ pc' = "make.third"
  /\ UNCHANGED <<tstate, events, listening, isoOpen, holder, dir, tmpWim, peWim,
                 isoFile, hive, mounted, dismNext>>

(***************************************************************************)
(* THIRD_STEP, to RegistryHive::Load.  The hive cannot be loaded under a   *)
(* name that is in use.  When the load succeeds and opening the loaded key *)
(* does not, Load returns NULL and leaves the hive loaded.                 *)
(***************************************************************************)
MakeThird ==
  /\ Enter("make.third")
  /\ \/ /\ software /\ ~hive
        /\ hive' = TRUE
        /\ pc' = "make.hive"
     \/ /\ hive' \in {hive, hive \/ software}
        /\ pc' = "make.fourth"
  /\ UNCHANGED <<tstate, events, listening, isoOpen, holder, dir, tmpWim,
                 software, peWim, bootFiles, isoFile, mounted, dismNext>>

(***************************************************************************)
(* THIRD_STEP, from the loaded hive to THIRD_END: on every path the hive   *)
(* is unloaded, without a look at whether that worked, and on one the      *)
(* image is updated with it, which may fail with no more than a message.   *)
(***************************************************************************)
MakeHive ==
  /\ pc = "make.hive"
  /\ hive' \in BOOLEAN
  /\ OverwriteFailed
  /\ pc' = "make.fourth"
  /\ UNCHANGED <<tstate, events, listening, isoOpen, holder, dir, tmpWim,
                 software, bootFiles, isoFile, mounted, dismNext>>

(* FOURTH_STEP: files of the installer image are added to media. *)
MakeFourth ==
  /\ Enter("make.fourth")
  /\ IF holder.method = "FROM_ISO"
     THEN \E added \in SUBSET BootFile : bootFiles' = bootFiles \cup added
     ELSE UNCHANGED bootFiles
  /\ pc' = "make.fifth"
  /\ UNCHANGED <<tstate, events, listening, isoOpen, holder, dir, tmpWim,
                 software, peWim, isoFile, hive, mounted, dismNext>>

(***************************************************************************)
(* FIFTH_STEP: the image is updated for the chosen architecture.  wimlib's *)
(* progress callback aborts the update on a cancel request made since the  *)
(* step began, so the failure is possible with the request pending.        *)
(***************************************************************************)
MakeFifth ==
  /\ pc = "make.fifth"
  /\ \/ /\ ~TerminateRequired
        /\ peWim.state = "whole"
        /\ peWim' = [peWim EXCEPT !.arch = SelectedArch]
        /\ pc' = "make.sixth"
        /\ UNCHANGED events
     \/ OverwriteFailed /\ MakeFail
  /\ UNCHANGED <<tstate, listening, isoOpen, holder, dir, tmpWim, software,
                 bootFiles, isoFile, hive, mounted, dismNext>>

(* SIXTH_STEP: the user's own files are copied. *)
MakeSixth ==
  /\ Enter("make.sixth")
  /\ pc' = "make.seventh"
  /\ UNCHANGED <<tstate, events, listening, isoOpen, holder, workVars, dismNext>>

(* SEVENTH_STEP: an option of the settings file enables the DISM commands. *)
MakeSeventh ==
  /\ Enter("make.seventh")
  /\ pc' \in {"make.dism", "make.eighth"}
  /\ dismNext' = 1
  /\ UNCHANGED <<tstate, events, listening, isoOpen, holder, workVars>>

(* One command; execute_cmd kills dism.exe on a cancel request. *)
MakeDism ==
  /\ Enter("make.dism")
  /\ dismNext <= Len(DismCmds)
  /\ mounted' \in CASE DismCmds[dismNext] = "mount"   -> {mounted, TRUE}
                    [] DismCmds[dismNext] = "service" -> {mounted}
                    [] DismCmds[dismNext] = "unmount" -> {mounted, FALSE}
  /\ dismNext' = dismNext + 1
  /\ UNCHANGED <<pc, tstate, events, listening, isoOpen, holder, dir, tmpWim,
                 software, peWim, bootFiles, isoFile, hive>>

(* The loop ends with the section, or breaks out of it on a cancel request. *)
MakeDismDone ==
  /\ pc = "make.dism"
  /\ TerminateRequired \/ dismNext > Len(DismCmds)
  /\ pc' = "make.eighth"
  /\ UNCHANGED <<tstate, events, listening, isoOpen, holder, workVars, dismNext>>

(***************************************************************************)
(* EIGHTH_STEP: WinPE.iso is written from media, which must have the boot  *)
(* file of the chosen firmware.  MakeISO::Make can fail before it opens    *)
(* the file and half way through it, and is stopped by a cancel request    *)
(* made since the step began.                                              *)
(***************************************************************************)
MadeIso ==
  [state |-> "whole", src |-> peWim.src, arch |-> peWim.arch, boot |-> SelectedBoot]

MakeEighth ==
  /\ pc = "make.eighth"
  /\ \/ /\ ~TerminateRequired
        /\ SelectedBoot \in bootFiles
        /\ isoFile' = MadeIso
        /\ pc' = "make.final"
        /\ UNCHANGED events
     \/ /\ isoFile' \in (IF SelectedBoot \in bootFiles
                         THEN {isoFile, PartialIso} ELSE {isoFile})
        /\ MakeFail
  /\ UNCHANGED <<tstate, listening, isoOpen, holder, dir, tmpWim, software,
                 peWim, bootFiles, hive, mounted, dismNext>>

(* FINAL_STEP. *)
MakeFinal ==
  /\ pc = "make.final"
  /\ RemoveTmp
  /\ pc' = "make.end"
  /\ UNCHANGED <<tstate, events, listening, isoOpen, holder, dismNext>>

(* END. *)
MakeEnd ==
  /\ pc = "make.end"
  /\ isoOpen' = FALSE
  /\ SetStateComplete
  /\ pc' = "exit"
  /\ UNCHANGED <<listening, holder, workVars, dismNext>>

(* The steps that start with a look at the cancel request. *)
MakeCancelled ==
  \E step \in {"make.first", "make.second", "make.third", "make.fourth",
               "make.fifth", "make.sixth", "make.seventh", "make.eighth"} :
    Cancelled(step)

MakeStep ==
  \/ MakeEntry \/ MakePrep \/ MakeFirst \/ MakeSecond \/ MakeThird \/ MakeHive
  \/ MakeFourth \/ MakeFifth \/ MakeSixth \/ MakeSeventh \/ MakeDism
  \/ MakeDismDone \/ MakeEighth \/ MakeFinal \/ MakeEnd \/ MakeCancelled
=============================================================================
