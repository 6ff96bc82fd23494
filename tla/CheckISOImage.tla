--------------------------- MODULE CheckISOImage ----------------------------
(***************************************************************************)
(* CheckISOImage::Entry (Worker/CheckISOImage.cpp), the first worker: it   *)
(* rebuilds the work folder, brings the selected boot.wim into it and      *)
(* exports the PE image.  One action per labelled step of the function.    *)
(***************************************************************************)
EXTENDS CustomThread, WorkDir

checkPc ==
  {"check.entry", "check.prep", "check.first", "check.second", "check.third",
   "check.report", "check.end"}

CheckFail ==
  /\ Post("ERROR")
  /\ pc' = "check.end"

(* Entered on the new thread. *)
CheckEntry ==
  /\ pc = "check.entry"
  /\ SetStateStart
  /\ pc' = "check.prep"
  /\ UNCHANGED <<listening, isoOpen, holder, workVars>>

(* Mutants of CheckPrep: the folder of the last run is used again, or a    *)
(* removal that failed is not an error.                                    *)
CheckPrepKeepsFolder ==
  /\ pc = "check.prep"
  /\ PrepareWorkDir
  /\ pc' = "check.first"
  /\ UNCHANGED <<tstate, events, listening, isoOpen, holder, tmpWim, software,
                 peWim, bootFiles, isoFile, hive, mounted>>

CheckPrepIgnoresFailure ==
  /\ pc = "check.prep"
  /\ \/ RemoveWorkDir /\ PrepareWorkDir
     \/ RemoveWorkDirFails
  /\ pc' = "check.first"
  /\ UNCHANGED <<tstate, events, listening, isoOpen, holder>>

(* PREP_STEP: the folder is removed and made again. *)
CheckPrep ==
  /\ pc = "check.prep"
  /\ \/ /\ RemoveWorkDir
        /\ PrepareWorkDir
        /\ pc' = "check.first"
        /\ UNCHANGED events
     \/ RemoveWorkDir /\ PrepareWorkDirFails /\ CheckFail
     \/ RemoveWorkDirFails /\ CheckFail
  /\ UNCHANGED <<tstate, listening, isoOpen, holder>>

(* A boot.wim was brought to tmp, or bringing it failed half way. *)
Fetched == tmpWim' = [state |-> "whole", src |-> SelectedSource]
FetchFailed == tmpWim' \in {tmpWim, PartialWim}

(***************************************************************************)
(* FIRST_STEP.  The search through the recovery partitions stops as soon   *)
(* as it sees a cancel request; the copy of an existing file does not look *)
(* at it.                                                                  *)
(***************************************************************************)
CheckFirstFromRE ==
  /\ pc = "check.first"
  /\ holder.method = "FROM_RE"
  /\ \/ ~TerminateRequired /\ Fetched /\ pc' = "check.third" /\ UNCHANGED events
     \/ FetchFailed /\ CheckFail
  /\ UNCHANGED <<tstate, listening, isoOpen, holder, dir, software, peWim,
                 bootFiles, isoFile, hive, mounted>>

CheckFirstExisting ==
  /\ pc = "check.first"
  /\ holder.method = "USE_EXISTING_FILE"
  /\ \/ Fetched /\ pc' = "check.third" /\ UNCHANGED events
     \/ FetchFailed /\ CheckFail
  /\ UNCHANGED <<tstate, listening, isoOpen, holder, dir, software, peWim,
                 bootFiles, isoFile, hive, mounted>>

CheckFirstFromISO ==
  /\ pc = "check.first"
  /\ holder.method = "FROM_ISO"
  /\ \/ isoOpen' = TRUE /\ pc' = "check.second" /\ UNCHANGED events
     \/ CheckFail /\ UNCHANGED isoOpen
  /\ UNCHANGED <<tstate, listening, holder, workVars>>

(***************************************************************************)
(* SECOND_STEP: boot.wim is extracted block by block, with a look at the   *)
(* cancel request before each.  A failure is a message, not an error.      *)
(***************************************************************************)
CheckSecond ==
  /\ pc = "check.second"
  /\ \/ ~TerminateRequired /\ Fetched /\ pc' = "check.third"
     \/ FetchFailed /\ pc' = "check.report"
  /\ UNCHANGED <<tstate, events, listening, isoOpen, holder, dir, software,
                 peWim, bootFiles, isoFile, hive, mounted>>

(***************************************************************************)
(* THIRD_STEP: the PE image of tmp/boot.wim is exported; wimlib's progress *)
(* callback aborts the writing on a cancel request.  Failures are messages. *)
(***************************************************************************)
CheckThird ==
  /\ pc = "check.third"
  /\ \/ /\ ~TerminateRequired
        /\ peWim' = [state |-> "whole", src |-> tmpWim.src, arch |-> "none"]
     \/ peWim' \in {peWim, NoPe}
  /\ pc' = "check.report"
  /\ UNCHANGED <<tstate, events, listening, isoOpen, holder, dir, tmpWim,
                 software, bootFiles, isoFile, hive, mounted>>

(* FOURTH_ to SIXTH_STEP: boot files go to tmp only to be listed. *)
CheckReport ==
  /\ pc = "check.report"
  /\ pc' = "check.end"
  /\ UNCHANGED <<tstate, events, listening, isoOpen, holder, workVars>>

(* END. *)
CheckEnd ==
  /\ pc = "check.end"
  /\ isoOpen' = FALSE
  /\ SetStateComplete
  /\ pc' = "exit"
  /\ UNCHANGED <<listening, holder, workVars>>

CheckStep ==
  \/ CheckEntry \/ CheckPrep
  \/ CheckFirstFromRE \/ CheckFirstExisting \/ CheckFirstFromISO
  \/ CheckSecond \/ CheckThird \/ CheckReport \/ CheckEnd
=============================================================================
