-------------------------- MODULE WorkerCallsProofs --------------------------
(***************************************************************************)
(* Proofs about WorkerCalls for every installer image, settings file and   *)
(* number of blocks: what a cancelled job still writes, what loading the   *)
(* hive leaves behind, the files the two workers leave, and that they do   *)
(* what the steps of CheckISOImage and MakePEImage stand for.              *)
(***************************************************************************)
EXTENDS WorkerCalls, FoldLemmas

(***************************************************************************)
(* One look, one write.  Of the two kinds of calls that write at most one  *)
(* is in progress: a call of the extractor belongs to the steps that wait  *)
(* for it, and there wimlib is at rest.  Once a block is written after the *)
(* request, nothing is between a look and its write any more.              *)
(***************************************************************************)
Fields ==
  /\ "at" \in DOMAIN copy
  /\ {"kind", "result"} \subseteq DOMAIN call
  /\ {"at", "result"} \subseteq DOMAIN wcall

OneCall ==
  /\ copy.at # "none" => call.result = "INITIAL"
  /\ call.result = "INITIAL" => pc \in {"check.second", "make.fourth"}
  /\ call.result = "INITIAL" => wcall.at = "done"

Counted ==
  /\ DOMAIN late = {"looked", "extracted"}
  /\ late.looked \in {0, 1} /\ late.extracted \in Nat
  /\ cancel \in BOOLEAN
  /\ ~cancel => late.looked = 0 /\ late.extracted = 0
  /\ late.looked = 1 => copy.at # "block" /\ wcall.at # "write"

LateInv == Fields /\ OneCall /\ Counted

(* The fields of a call of wimlib that is over.                            *)
LEMMA NoCallFields ==
  /\ {"at", "result"} \subseteq DOMAIN NoCall
  /\ NoCall.at = "done"
  BY DEF NoCall

(* What is written after the request counts once, with its own kind.       *)
LEMMA WritesCounts ==
  ASSUME Counted, NEW kind \in {"looked", "extracted"}, Writes(kind)
  PROVE  /\ DOMAIN late' = {"looked", "extracted"}
         /\ ~cancel => late' = late
         /\ cancel => late'[kind] = late[kind] + 1
         /\ kind = "looked" => late'.extracted = late.extracted
         /\ kind = "extracted" => late'.looked = late.looked
  BY DEF Counted, Writes

(* Before the first step nothing is in progress.                           *)
LEMMA InitLateInv == Init => LateInv
<1> SUFFICES ASSUME Init PROVE LateInv
  OBVIOUS
<1> USE DEF Init, IsoInit, WimInit
<1>1. Fields
  BY NoCallFields DEF NoIsoCall, NoCopy, Fields
<1>2. OneCall
  BY NoCallFields DEF NoIsoCall, NoCopy, OneCall
<1>3. Counted
  BY NoCallFields DEF NoCopy, NothingLate, Counted
<1> QED
  BY <1>1, <1>2, <1>3 DEF LateInv

(* A step inside a call of the extractor.                                  *)
LEMMA IsoLateInv ==
  ASSUME LateInv, IsoStep, UNCHANGED <<cancel, wimVars, regVars, pc, next>>
  PROVE  LateInv'
<1>1. CASE CopyOpen
  <2>1. Fields'
    BY <1>1 DEF CopyOpen, EndFile, NoCopy, wimVars, LateInv, Fields
  <2>2. copy'.at = "none" \/ (copy'.at = "look" /\ UNCHANGED call)
    <3>1. CASE \E result : EndFile(result)
      BY <3>1 DEF EndFile, NoCopy
    <3>2. CASE (\E n : copy' = [copy EXCEPT !.left = n, !.at = "look"]) /\ UNCHANGED call
      BY <3>2 DEF LateInv, Fields
    <3> QED  BY <1>1, <3>1, <3>2 DEF CopyOpen
  <2>3. /\ call.result = "INITIAL" /\ pc' \in {"check.second", "make.fourth"}
        /\ wcall'.at = "done"
    BY <1>1 DEF CopyOpen, wimVars, LateInv, OneCall
  <2>4. OneCall'
    BY <2>2, <2>3 DEF OneCall
  <2>5. Counted'
    BY <1>1, <2>2, <2>3 DEF CopyOpen, LateInv, Counted
  <2> QED  BY <2>1, <2>4, <2>5 DEF LateInv
<1>2. CASE CopyLook
  BY <1>2 DEF CopyLook, EndFile, NoCopy, wimVars, LateInv, Fields, OneCall, Counted
<1>3. CASE CopyBlock
  <2>1. Fields'
    BY <1>3 DEF CopyBlock, Written, EndFile, NoCopy, wimVars, LateInv, Fields
  <2>2. OneCall'
    BY <1>3 DEF CopyBlock, Written, EndFile, NoCopy, wimVars, LateInv, Fields, OneCall
  <2>3. copy'.at # "block" /\ wcall'.at # "write"
    <3>1. wcall'.at = "done"
      BY <1>3 DEF CopyBlock, wimVars, LateInv, OneCall
    <3>2. CASE \E result : EndFile(result)
      BY <3>1, <3>2 DEF EndFile, NoCopy
    <3>3. CASE copy' = [copy EXCEPT !.left = @ - 1, !.at = "look"]
      BY <3>1, <3>3 DEF LateInv, Fields
    <3> QED  BY <1>3, <3>2, <3>3 DEF CopyBlock
  <2>4. late.looked = 0
    BY <1>3 DEF CopyBlock, LateInv, Counted
  <2>5. UNCHANGED late \/ Writes("looked")
    BY <1>3 DEF CopyBlock, Written
  <2>6. Counted'
    BY <2>3, <2>4, <2>5, WritesCounts DEF LateInv, Counted
  <2> QED  BY <2>1, <2>2, <2>6 DEF LateInv
<1>4. CASE CopyDone
  BY <1>4 DEF CopyDone, EndFile, NoCopy, wimVars, LateInv, Fields, OneCall, Counted
<1>5. CASE UdfSubfolder
  BY <1>5 DEF UdfSubfolder, Subfolder, InFolder, Idle, End, wimVars,
              LateInv, Fields, OneCall, Counted
<1>6. CASE Iso9660Subfolder
  BY <1>6 DEF Iso9660Subfolder, Subfolder, InFolder, Idle, End, wimVars,
              LateInv, Fields, OneCall, Counted
<1>7. CASE Subfile
  BY <1>7 DEF Subfile, InFolder, Idle, wimVars, LateInv, Fields, OneCall, Counted
<1>8. CASE FolderDone
  BY <1>8 DEF FolderDone, InFolder, Idle, End, wimVars, LateInv, Fields, OneCall, Counted
<1> QED
  BY <1>1, <1>2, <1>3, <1>4, <1>5, <1>6, <1>7, <1>8 DEF IsoStep

(* A step inside a call of wimlib.                                         *)
LEMMA WimLateInv ==
  ASSUME LateInv, WimStep, UNCHANGED <<isoVars, cancel, regVars, pc, next>>
  PROVE  LateInv'
<1> USE DEF isoVars, Goto, Leave, LateInv, Fields, OneCall, Counted
<1>1. CASE MakeFolder
  BY <1>1 DEF MakeFolder
<1>2. CASE Open
  BY <1>2 DEF Open
<1>3. CASE GetNameInformations
  BY <1>3 DEF GetNameInformations, Doing
<1>4. CASE GetPEImageNumber
  BY <1>4 DEF GetPEImageNumber, Doing
<1>5. CASE Export
  BY <1>5 DEF Export, Doing, Resolve
<1>6. CASE Update
  BY <1>6 DEF Update, Doing
<1>7. CASE WriteProgress
  <2>1. Fields' /\ OneCall'
    BY <1>7 DEF WriteProgress, WriteFails
  <2>2. copy'.at # "block" /\ (cancel => wcall'.at # "write")
    BY <1>7 DEF WriteProgress, WriteFails
  <2>3. Counted'
    BY <1>7, <2>2 DEF WriteProgress
  <2> QED  BY <2>1, <2>3
<1>8. CASE WritePart
  <2>1. Fields' /\ OneCall'
    BY <1>8 DEF WritePart, WriteFails
  <2>2. copy'.at # "block" /\ wcall'.at # "write"
    BY <1>8 DEF WritePart, WriteFails
  <2>3. late.looked = 0 /\ Writes("looked")
    BY <1>8 DEF WritePart
  <2>4. Counted'
    BY <2>2, <2>3, WritesCounts
  <2> QED  BY <2>1, <2>4
<1>9. CASE Extract
  <2>1. Fields' /\ OneCall'
    BY <1>9 DEF Extract, Doing, Resolve
  <2>2. copy'.at # "block" /\ wcall'.at # "write"
    BY <1>9 DEF Extract, Doing, Resolve
  <2>3. UNCHANGED late \/ Writes("extracted")
    BY <1>9 DEF Extract
  <2>4. Counted'
    BY <2>2, <2>3, WritesCounts
  <2> QED  BY <2>1, <2>4
<1>10. CASE Free
  BY <1>10 DEF Free, NoCall
<1> QED
  BY <1>1, <1>2, <1>3, <1>4, <1>5, <1>6, <1>7, <1>8, <1>9, <1>10 DEF WimStep

(* Beginning a call of wimlib while the extractor is at rest.              *)
LEMMA BeginWimLateInv ==
  ASSUME LateInv, NEW op, NEW file, NEW image, NEW arg, BeginWim(op, file, image, arg),
         UNCHANGED <<isoVars, cancel, late>>, call.result # "INITIAL"
  PROVE  LateInv'
  BY DEF BeginWim, NoCall, isoVars, LateInv, Fields, OneCall, Counted

(* A step that begins nothing.                                             *)
LEMMA QuietLateInv ==
  ASSUME LateInv, UNCHANGED <<copy, cancel, late>>,
         call' = call \/ (call' = NoIsoCall /\ call.result # "INITIAL"),
         wcall' = wcall \/ wcall' = NoCall,
         pc' = pc \/ call.result # "INITIAL"
  PROVE  LateInv'
<1>1. Fields'
  BY NoCallFields DEF NoIsoCall, LateInv, Fields
<1>2. OneCall'
  <2>1. call'.result = "INITIAL" => UNCHANGED call /\ UNCHANGED pc
    BY DEF NoIsoCall
  <2>2. copy.at # "none" => UNCHANGED call
    BY DEF LateInv, OneCall
  <2>3. wcall.at = "done" => wcall'.at = "done"
    BY NoCallFields
  <2> QED  BY <2>1, <2>2, <2>3 DEF LateInv, OneCall
<1>3. Counted'
  BY NoCallFields DEF LateInv, Counted
<1> QED
  BY <1>1, <1>2, <1>3 DEF LateInv

(* CheckISOImage's steps: each waits for the calls of the one before.      *)
LEMMA CheckLateInv ==
  ASSUME LateInv,
         CheckFirst \/ CheckSecond \/ CheckThird \/ CheckFourth \/ CheckSixth \/ CheckEnd
  PROVE  LateInv'
<1>1. CASE CheckFirst
  BY <1>1, QuietLateInv
     DEF CheckFirst, At, AtRest, Idle, CreateExtractor, CreateUdf, CreateIso9660,
         CreateFails, wimVars
<1>2. CASE CheckSecond
  <2>1. CASE next = 1 /\ ExtractFile(BootWim, TmpWim) /\ UNCHANGED pc
    BY <1>2, <2>1
       DEF CheckSecond, At, AtRest, WimIdle, ExtractFile, Running, wimVars,
           LateInv, Fields, OneCall, Counted
  <2>2. CASE call' = NoIsoCall /\ UNCHANGED copy
    BY <1>2, <2>2, QuietLateInv DEF CheckSecond, At, AtRest, Idle, wimVars
  <2> QED  BY <1>2, <2>1, <2>2 DEF CheckSecond
<1>3. CASE CheckThird
  <2>1. call.result # "INITIAL" /\ UNCHANGED <<isoVars, cancel, late>>
    BY <1>3 DEF CheckThird, At, AtRest, Idle
  <2>2. CASE \E op, file, image, arg : BeginWim(op, file, image, arg)
    BY <2>1, <2>2, BeginWimLateInv
  <2>3. CASE wcall' = NoCall
    BY <2>1, <2>3, QuietLateInv DEF isoVars
  <2> QED  BY <1>3, <2>2, <2>3 DEF CheckThird
<1>4. CASE CheckFourth
  <2>1. call.result # "INITIAL" /\ UNCHANGED <<isoVars, cancel, late>>
    BY <1>4 DEF CheckFourth, At, AtRest, Idle
  <2>2. CASE \E op, file, image, arg : BeginWim(op, file, image, arg)
    BY <2>1, <2>2, BeginWimLateInv
  <2>3. CASE UNCHANGED wimVars
    BY <2>1, <2>3, QuietLateInv DEF isoVars, wimVars
  <2> QED  BY <1>4, <2>2, <2>3 DEF CheckFourth, ExtractAll
<1>5. CASE CheckSixth
  BY <1>5, QuietLateInv DEF CheckSixth, At, AtRest, Idle, others, isoVars, wimVars
<1>6. CASE CheckEnd
  BY <1>6, QuietLateInv DEF CheckEnd, At, AtRest, Idle
<1> QED
  BY <1>1, <1>2, <1>3, <1>4, <1>5, <1>6

(* MakePEImage's steps, likewise; a new thread starts the count anew.      *)
LEMMA MakeLateInv ==
  ASSUME LateInv,
         \/ MakeEntry \/ Cancelled \/ MakeFirst \/ MakeSecond \/ MakeThird
         \/ MakeFourth \/ MakeFifth \/ MakeEnd
  PROVE  LateInv'
<1>1. CASE MakeEntry
  BY <1>1 DEF MakeEntry, others, isoVars, wimVars, NothingLate, LateInv, Fields, OneCall, Counted
<1>2. CASE Cancelled
  BY <1>2, QuietLateInv DEF Cancelled, At, AtRest, Idle, others, isoVars, wimVars
<1>3. CASE MakeFirst
  BY <1>3, QuietLateInv
     DEF MakeFirst, Enter, At, AtRest, Idle, CreateExtractor, CreateUdf, CreateIso9660,
         CreateFails, wimVars
<1>4. CASE MakeSecond
  <2>1. call.result # "INITIAL" /\ UNCHANGED <<isoVars, cancel, late>>
    BY <1>4 DEF MakeSecond, Enter, At, AtRest, Idle
  <2>2. CASE \E op, file, image, arg : BeginWim(op, file, image, arg)
    BY <2>1, <2>2, BeginWimLateInv
  <2>3. CASE UNCHANGED wimVars
    BY <2>1, <2>3, QuietLateInv DEF isoVars, wimVars
  <2> QED  BY <1>4, <2>2, <2>3 DEF MakeSecond, ExtractAll
<1>5. CASE MakeThird
  <2>1. call.result # "INITIAL" /\ UNCHANGED <<isoVars, cancel, late>>
    BY <1>5 DEF MakeThird, Enter, At, AtRest, Idle, LateInv, OneCall
  <2>2. CASE \E op, file, image, arg : BeginWim(op, file, image, arg)
    BY <2>1, <2>2, BeginWimLateInv
  <2>3. CASE UNCHANGED wimVars \/ wcall' = NoCall
    BY <2>1, <2>3, QuietLateInv DEF isoVars, wimVars
  <2> QED  BY <1>5, <2>2, <2>3 DEF MakeThird
<1>6. CASE MakeFourth
  <2>1. UNCHANGED <<cancel, late, wcall>>
    BY <1>6 DEF MakeFourth, wimVars
  <2>2. call.result # "INITIAL" /\ wcall.at = "done" /\ copy.at = "none"
    BY <1>6 DEF MakeFourth, Enter, At, AtRest, Idle, WimIdle, LateInv, OneCall
  <2>3. CASE UNCHANGED copy /\ (call' = call \/ call' = NoIsoCall)
    BY <2>1, <2>2, <2>3, QuietLateInv
  <2>4. CASE pc' = "make.fourth" /\ \E from, to : BeginFolder(from, to)
    BY <2>1, <2>2, <2>4 DEF BeginFolder, LateInv, Fields, OneCall, Counted
  <2>5. CASE pc' = "make.fourth" /\ \E from, to : ExtractFile(from, to)
    BY <2>1, <2>2, <2>5 DEF ExtractFile, Running, LateInv, Fields, OneCall, Counted
  <2> QED  BY <1>6, <2>3, <2>4, <2>5 DEF MakeFourth, Enter, At, isoVars
<1>7. CASE MakeFifth
  <2>1. call.result # "INITIAL" /\ UNCHANGED <<isoVars, cancel, late>>
    BY <1>7 DEF MakeFifth, Enter, At, AtRest, Idle
  <2>2. CASE \E op, file, image, arg : BeginWim(op, file, image, arg)
    BY <2>1, <2>2, BeginWimLateInv
  <2>3. CASE wcall' = NoCall
    BY <2>1, <2>3, QuietLateInv DEF isoVars
  <2> QED  BY <1>7, <2>2, <2>3 DEF MakeFifth
<1>8. CASE MakeEnd
  BY <1>8, QuietLateInv DEF MakeEnd, At, AtRest, Idle, wimVars
<1> QED
  BY <1>1, <1>2, <1>3, <1>4, <1>5, <1>6, <1>7, <1>8

(* Every step of the two workers, of the page and of the calls.            *)
LEMMA NextLateInv == LateInv /\ [Next]_vars => LateInv'
<1> SUFFICES ASSUME LateInv, [Next]_vars
             PROVE  LateInv'
  OBVIOUS
<1>1. CASE CheckFirst \/ CheckSecond \/ CheckThird \/ CheckFourth \/ CheckSixth \/ CheckEnd
  BY <1>1, CheckLateInv
<1>2. CASE \/ MakeEntry \/ Cancelled \/ MakeFirst \/ MakeSecond \/ MakeThird
           \/ MakeFourth \/ MakeFifth \/ MakeEnd
  BY <1>2, MakeLateInv
<1>3. CASE Dies
  BY <1>3, QuietLateInv DEF Dies, others, isoVars, wimVars
<1>4. CASE Calls
  BY <1>4, IsoLateInv, WimLateInv, QuietLateInv DEF Calls, isoVars, wimVars
<1>5. CASE Cancel
  BY <1>5 DEF Cancel, others, isoVars, wimVars, LateInv, Fields, OneCall, Counted
<1>6. CASE UNCHANGED vars
  BY <1>6, QuietLateInv DEF vars, isoVars, wimVars
<1> QED
  BY <1>1, <1>2, <1>3, <1>4, <1>5, <1>6 DEF Next, Worker, Over

-----------------------------------------------------------------------------
(***************************************************************************)
(* The hive.  RegistryHiveData exists only while THIRD_STEP uses the hive; *)
(* every way out of Load and out of the step passes the place that closes  *)
(* the keys and gives the privileges back.                                 *)
(***************************************************************************)
HiveInv ==
  /\ {privileged, data} \subseteq BOOLEAN
  /\ data => reg \in {"loaded", "set", "changed", "unload"}
  /\ HiveGivenBack

(* The steps of Load, of the change of the value and of the destructors.   *)
LEMMA RegHiveInv ==
  ASSUME HiveInv, RegStep
  PROVE  HiveInv'
<1> USE DEF HiveInv, HiveGivenBack
<1>1. CASE OpenParent
  BY <1>1 DEF OpenParent, LoadFails
<1>2. CASE LoadKey
  BY <1>2 DEF LoadKey, LoadFails
<1>3. CASE OpenHive
  <2>1. ({privileged, data} \subseteq BOOLEAN)'
    BY <1>3 DEF OpenHive
  <2>2. reg' \in {"loaded", "failed"} /\ (reg' = "failed" => ~data')
    BY <1>3 DEF OpenHive, LoadFails
  <2> QED  BY <2>1, <2>2
<1>4. CASE LoadFailed
  BY <1>4 DEF LoadFailed
<1>5. CASE GetStringValue
  BY <1>5 DEF GetStringValue
<1>6. CASE SetStringValue
  BY <1>6 DEF SetStringValue
<1>7. CASE Unload
  BY <1>7 DEF Unload
<1> QED
  BY <1>1, <1>2, <1>3, <1>4, <1>5, <1>6, <1>7 DEF RegStep

(* Nothing else in either worker touches the registry.                     *)
LEMMA NextHiveInv == HiveInv /\ [Next]_vars => HiveInv'
<1> SUFFICES ASSUME HiveInv, [Next]_vars
             PROVE  HiveInv'
  OBVIOUS
<1>1. CASE UNCHANGED regVars
  BY <1>1 DEF regVars, HiveInv, HiveGivenBack
<1>2. CASE RegStep
  BY <1>2, RegHiveInv
<1>3. CASE MakeThird
  BY <1>1, <1>3 DEF MakeThird, BeginLoad, RegIdle, HiveInv, HiveGivenBack
<1>4. CASE CheckFirst \/ CheckSecond \/ CheckThird \/ CheckFourth \/ CheckSixth \/ CheckEnd
  BY <1>1, <1>4 DEF CheckFirst, CheckSecond, CheckThird, CheckFourth, CheckSixth, CheckEnd, others
<1>5. CASE MakeEntry \/ Cancelled \/ MakeFirst \/ MakeSecond \/ MakeFourth \/ MakeFifth \/ MakeEnd
  BY <1>1, <1>5 DEF MakeEntry, Cancelled, MakeFirst, MakeSecond, MakeFourth, MakeFifth,
                    MakeEnd, others
<1>6. CASE Dies \/ Cancel \/ UNCHANGED vars
  BY <1>1, <1>6 DEF Dies, Cancel, vars, others
<1> QED
  BY <1>1, <1>2, <1>3, <1>4, <1>5, <1>6 DEF Next, Worker, Calls, Over

(* No key and no privilege outlives THIRD_STEP's use of the hive.          *)
THEOREM HiveGivenBackHolds == Spec => []HiveGivenBack
<1>1. Init => HiveInv
  BY DEF Init, RegInit, HiveInv, HiveGivenBack
<1>2. HiveInv => HiveGivenBack
  BY DEF HiveInv
<1> QED
  BY <1>1, <1>2, NextHiveInv, PTL DEF Spec

-----------------------------------------------------------------------------
(***************************************************************************)
(* What is listed can be opened, and media's boot.wim is the PE image of   *)
(* the installer's.                                                        *)
(***************************************************************************)

(***************************************************************************)
(* The extractor.  What is listed stands for an entry with these letters.  *)
(* What is missing of the file being copied is what is left of it.         *)
(***************************************************************************)
Listed ==
  /\ disc \in Discs
  /\ extractor \in {"none", "UDF", "ISO9660"}
  /\ \A key \in DOMAIN list : list[key] \in Range(Entries) /\ Upper(list[key].path) = key

Copying ==
  /\ {"to", "left"} \subseteq DOMAIN copy
  /\ copy.at \in {"none", "open", "look", "block"} /\ copy.left \in Nat
  /\ copy.at \in {"look", "block"} =>
       copy.to \in DOMAIN local /\ local[copy.to].missing = copy.left
  /\ copy.at = "block" => copy.left > 0
  /\ copy.at # "none" /\ pc = "make.fourth" => copy.to \notin {TmpWim, Software}

OnDisk ==
  \A f \in DOMAIN local : /\ Front(f) \in folders
                          /\ "missing" \in DOMAIN local[f] /\ local[f].missing \in Nat

NotInTmp(path) == path \in Seq(STRING) \ {<<>>} /\ Head(path) # "TMP"

InFolders ==
  /\ "to" \in DOMAIN call
  /\ call.kind \in {"none", "file", "folder"}
  /\ call.kind = "folder" /\ call.result = "INITIAL" => pc = "make.fourth" /\ NotInTmp(call.to)
  /\ call.result = "CRASH" => pc \in {"make.fourth", "over"}
  /\ todo \subseteq DOMAIN Entries

(***************************************************************************)
(* wimlib.  Each call of THIRD_STEP rests on the one before, and nobody    *)
(* writes tmp/boot.wim any more; the others work on media's boot.wim.      *)
(***************************************************************************)
Settings == Range(CheckExtracts) \cup Range(MakeExtracts)

BeforeThird ==
  \/ pc \in {"check.first", "check.second"}
  \/ pc = "check.third" /\ next = 1

InThird ==
  /\ BeforeThird => wcall.op = "none" /\ number = 0 /\ pe.state = "none"
  /\ wcall.op \in {"GetNameInformations", "GetPEImageNumber", "Export"} =>
       pc = "check.third" /\ wcall.file = "tmp"
  /\ pc = "check.third" /\ next = 2 => wcall.op = "GetNameInformations"
  /\ pc = "check.third" /\ next = 3 => wcall.op = "GetPEImageNumber"
  /\ wcall.op = "GetNameInformations" =>
       /\ number = 0
       /\ wcall.at \in {"END", "done"} /\ wcall.result = "SUCCESS" => names = TmpFile.images
  /\ wcall.op = "GetPEImageNumber" =>
       /\ names = TmpFile.images
       /\ wcall.at \in {"END", "done"} /\ wcall.result = "SUCCESS" =>
            number = PEImageNumber(TmpFile.images) /\ number # 0
  /\ wcall.op = "Export" =>
       wcall.image = PEImageNumber(TmpFile.images) /\ wcall.image # 0

Asked ==
  /\ {"op", "file", "image", "arg"} \subseteq DOMAIN wcall
  /\ wcall.op \in {"none", "GetNameInformations", "GetPEImageNumber", "Export", "Update", "Extract"}
  /\ wcall.op = "none" => wcall.at = "done"
  /\ wcall.op \in {"Update", "Extract"} => wcall.file = "pe"
  /\ wcall.op = "Extract" =>
       /\ wcall.arg \in Settings
       /\ wcall.at \notin {"mkdir", "done"} => ExtractTo \in folders
  /\ wcall.at \in {"progress", "write"} => wcall.op \in {"Export", "Update"}

Images ==
  /\ names \in Seq(STRING)
  /\ number \in 0 .. Len(names)
  /\ DOMAIN pe = DOMAIN NoFile
  /\ pe.state \in {"none", "partial", "whole"}
  /\ pe.state = "whole" =>
       /\ TmpFile.state = "whole"
       /\ pe.from = PEImageNumber(TmpFile.images) /\ pe.from # 0
       /\ pe.images = <<TmpFile.images[pe.from]>>

Flags ==
  /\ {cancel, seen, privileged, loaded, data} \subseteq BOOLEAN
  /\ keys \subseteq {"parent", "hive"}

FilesInv ==
  Listed /\ Copying /\ OnDisk /\ InFolders /\ InThird /\ Asked /\ Images /\ Flags

(* The loops over the settings start with the first.                       *)
Counting == next \in Nat /\ (pc = "check.fourth" => next > 0)

-----------------------------------------------------------------------------
(* Numbers and sequences.                                                  *)

(* The number of the PE image is a number of an image, or 0.               *)
LEMMA PEImageNumberIs ==
  ASSUME NEW images \in Seq(STRING)
  PROVE  PEImageNumber(images) \in 0 .. Len(images)
<1> DEFINE found == {i \in DOMAIN images : images[i] \in PENames}
<1>1. Len(images) \in Nat /\ DOMAIN images = 1 .. Len(images)
  BY LenProperties
<1>2. CASE Len(images) = 1 \/ found = {}
  BY <1>1, <1>2 DEF PEImageNumber
<1>3. CASE Len(images) # 1 /\ found # {}
  <2>1. Min(found) \in found
    BY <1>1, <1>3, MinIsIn
  <2> QED  BY <1>1, <1>3, <2>1 DEF PEImageNumber
<1> QED
  BY <1>2, <1>3

(* What precedes the last name is what a name was appended to.             *)
LEMMA FrontOfAppend ==
  ASSUME NEW S, NEW s \in Seq(S), NEW e
  PROVE  Front(Append(s, e)) = s
<1>1. s \in Seq(S \cup {e})
  BY SeqMonotonic
<1> QED
  BY <1>1 DEF Front

(* The front of a sequence is one.                                         *)
LEMMA FrontIsSeq ==
  ASSUME NEW S, NEW s \in Seq(S)
  PROVE  Front(s) \in Seq(S)
<1>1. Len(s) \in Nat /\ \A i \in 1 .. Len(s) - 1 : s[i] \in S
  BY LenProperties, ElementOfSeq
<1> QED
  BY <1>1, SubSeqProperties DEF Front

(* What the settings ask for.                                              *)
LEMMA SettingsAre ==
  /\ \A cmd \in Settings : cmd \in Extracts /\ cmd.to # TmpWim /\ FileOf(cmd) # TmpWim
  /\ \A i \in DOMAIN Copies : NotInTmp(Copies[i].to)
<1>1. ASSUME NEW S, NEW s \in Seq(S)
      PROVE  \A i \in DOMAIN s : s[i] \in S
  BY <1>1, LenProperties, ElementOfSeq
<1>2. \A cmd \in Settings : cmd \in Extracts
  BY <1>1, SettingsAssumption DEF Settings, Range
<1>3. FolderCopies \in Seq(Copied) /\ FileCopies \in Seq(Copied)
  BY SettingsAssumption
<1>4. ASSUME NEW cmd \in Range(FolderCopies) \cup Range(FileCopies)
      PROVE  NotInTmp(cmd.to)
  <2>1. cmd \in Copied
    BY <1>1, <1>3 DEF Range
  <2> QED  BY <2>1, SettingsAssumption DEF Copied, NotInTmp
<1>5. ASSUME NEW i \in DOMAIN Copies
      PROVE  Copies[i] \in Range(FolderCopies) \cup Range(FileCopies)
  <2>1. /\ Len(FolderCopies) \in Nat /\ DOMAIN FolderCopies = 1 .. Len(FolderCopies)
        /\ Len(FileCopies) \in Nat /\ DOMAIN FileCopies = 1 .. Len(FileCopies)
    BY <1>3, LenProperties
  <2>2. /\ Copies \in Seq(Copied) /\ Len(Copies) = Len(FolderCopies) + Len(FileCopies)
        /\ \A j \in 1 .. Len(FolderCopies) + Len(FileCopies) :
             Copies[j] = IF j <= Len(FolderCopies) THEN FolderCopies[j]
                         ELSE FileCopies[j - Len(FolderCopies)]
    BY <1>3, ConcatProperties DEF Copies
  <2>3. i \in 1 .. Len(FolderCopies) + Len(FileCopies)
    BY <2>2, LenProperties
  <2>4. CASE i <= Len(FolderCopies)
    BY <2>1, <2>2, <2>3, <2>4 DEF Range
  <2>5. CASE i > Len(FolderCopies)
    <3>1. i - Len(FolderCopies) \in DOMAIN FileCopies
      BY <2>1, <2>3, <2>5
    <3> QED  BY <2>1, <2>2, <2>3, <2>5, <3>1 DEF Range
  <2> QED  BY <2>1, <2>3, <2>4, <2>5
<1> QED
  BY <1>2, <1>4, <1>5, SettingsAssumption DEF Settings

(* A path below one that is not in TMP is none of the files there.         *)
LEMMA LocalPathNotTmp ==
  ASSUME NEW to, NotInTmp(to), NEW path \in Seq(STRING)
  PROVE  LocalPath(to, path) \notin {TmpWim, Software}
<1> DEFINE upper == Upper(path)
           S == STRING \cup {Letters[name] : name \in STRING}
<1>1. upper \in Seq(S)
  <2>1. Len(path) \in Nat /\ DOMAIN path = 1 .. Len(path)
    BY LenProperties
  <2>2. \A i \in 1 .. Len(path) : path[i] \in STRING
    BY ElementOfSeq
  <2>3. \A i \in 1 .. Len(path) : Letters[path[i]] \in S
    BY <2>2
  <2> HIDE DEF S
  <2>4. [i \in 1 .. Len(path) |-> Letters[path[i]]] \in Seq(S)
    BY <2>1, <2>3, IsASeq
  <2> QED  BY <2>1, <2>4 DEF Upper
<1>2. to \in Seq(S) /\ Len(to) \in Nat \ {0} /\ to[1] # "TMP"
  <2>1. to \in Seq(STRING) /\ to # <<>>
    BY DEF NotInTmp
  <2>2. to \in Seq(S)
    BY <2>1, SeqMonotonic
  <2>3. Len(to) \in Nat \ {0}
    BY <2>1, EmptySeq
  <2>4. Head(to) = to[1]
    BY <2>1
  <2> QED  BY <2>2, <2>3, <2>4 DEF NotInTmp
<1> HIDE DEF upper, S
<1>3. Len(upper) \in Nat
  BY <1>1, LenProperties
<1>4. (to \o upper)[1] = to[1]
  BY <1>1, <1>2, <1>3, ConcatProperties
<1>5. TmpWim[1] = "TMP" /\ Software[1] = "TMP"
  BY DEF TmpWim, Software
<1> QED
  BY <1>2, <1>4, <1>5 DEF LocalPath, upper

-----------------------------------------------------------------------------
(* The image and what is read of it.                                       *)

EntryType == [path : Seq(STRING), dir : BOOLEAN, blocks : Nat]

(* The entries of an image are what the assumption says, and the root.     *)
LEMMA EntriesTyped ==
  ASSUME disc \in Discs
  PROVE  /\ Entries \in Seq(EntryType)
         /\ Len(Entries) \in Nat /\ DOMAIN Entries = 1 .. Len(Entries)
         /\ \A e \in Range(Entries) : e \in EntryType
         /\ \A i \in DOMAIN Entries : Entries[i] \in EntryType /\ Entries[i].path \in Seq(STRING)
<1>1. disc.entries \in Seq(EntryType)
  BY DiscsAssumption DEF EntryType
<1>2. RootEntry \in EntryType
  <2>1. <<>> \in Seq(STRING)
    OBVIOUS
  <2> QED  BY <2>1 DEF RootEntry, EntryType
<1>3. <<RootEntry>> \in Seq(EntryType)
  BY <1>2
<1>4. Entries \in Seq(EntryType)
  BY <1>1, <1>3, ConcatProperties DEF Entries
<1>5. Len(Entries) \in Nat /\ DOMAIN Entries = 1 .. Len(Entries)
  BY <1>4, LenProperties
<1>6. \A i \in DOMAIN Entries : Entries[i] \in EntryType
  BY <1>4, <1>5, ElementOfSeq
<1>7. \A i \in DOMAIN Entries : Entries[i].path \in Seq(STRING)
  BY <1>6 DEF EntryType
<1> QED
  BY <1>4, <1>5, <1>6, <1>7 DEF Range

(* Whatever folders are missed, what is listed stands for an entry.        *)
LEMMA FileListIs ==
  ASSUME disc \in Discs, NEW lost, NEW key \in DOMAIN FileList(lost)
  PROVE  /\ FileList(lost)[key] \in Range(Entries)
         /\ Upper(FileList(lost)[key].path) = key
<1> DEFINE met == {i \in DOMAIN Entries : ~ \E d \in lost : IsPrefix(d.path, Entries[i].path)}
           same == {i \in met : Upper(Entries[i].path) = key}
<1>1. FileList(lost) = [k \in {Upper(Entries[i].path) : i \in met} |->
                          Entries[Max({i \in met : Upper(Entries[i].path) = k})]]
  BY DEF FileList
<1>2. same # {} /\ FileList(lost)[key] = Entries[Max(same)]
  BY <1>1
<1>3. Len(Entries) \in Nat /\ same \in SUBSET (0 .. Len(Entries))
  BY EntriesTyped
<1>4. Max(same) \in same
  BY <1>2, <1>3, MaxIsIn
<1> QED
  BY <1>2, <1>4 DEF Range

(* What is in TMP's boot.wim, whatever was copied there.                   *)
LEMMA TmpFileTyped ==
  ASSUME disc \in Discs
  PROVE  /\ TmpFile.images \in Seq(STRING)
         /\ TmpFile.state \in {"none", "partial", "whole"}
         /\ DOMAIN TmpFile = DOMAIN NoFile
<1>1. /\ NoFile.images = <<>> /\ Damaged.images = <<>>
      /\ NoFile.state = "none" /\ Damaged.state = "partial"
      /\ DOMAIN Damaged = DOMAIN NoFile
  BY DEF NoFile, Damaged
<1>2. ASSUME NEW images
      PROVE  /\ Installer(images).images = images
             /\ Installer(images).state = "whole"
             /\ DOMAIN Installer(images) = DOMAIN NoFile
  BY DEF Installer, NoFile
<1>3. CASE TmpFile = NoFile \/ TmpFile = Damaged
  <2>1. TmpFile.images = <<>> /\ TmpFile.state \in {"none", "partial"}
    BY <1>1, <1>3
  <2>2. DOMAIN TmpFile = DOMAIN NoFile
    BY <1>1, <1>3
  <2>3. <<>> \in Seq(STRING)
    OBVIOUS
  <2> QED  BY <2>1, <2>2, <2>3
<1>4. CASE \E path \in DOMAIN disc.images : TmpFile = Installer(disc.images[path])
  BY <1>2, <1>4, DiscsAssumption
<1> QED
  BY <1>3, <1>4 DEF TmpFile

(* It depends on nothing but the image and the file.                       *)
LEMMA TmpFileKept ==
  ASSUME UNCHANGED disc, TmpWim \in DOMAIN local <=> TmpWim \in DOMAIN local',
         TmpWim \in DOMAIN local => local'[TmpWim] = local[TmpWim]
  PROVE  UNCHANGED TmpFile
  BY DEF TmpFile, Installer

-----------------------------------------------------------------------------
(* What a step leaves alone keeps its part of the invariant: the list.     *)
LEMMA ListedKept ==
  ASSUME Listed, UNCHANGED <<disc, extractor, list>>
  PROVE  Listed'
  BY DEF Listed, Entries

(* The copy, which belongs to the step that waits for it.                  *)
LEMMA CopyingKept ==
  ASSUME Copying, UNCHANGED <<copy, local>>, UNCHANGED pc \/ pc' # "make.fourth" \/ copy.at = "none"
  PROVE  Copying'
  BY DEF Copying

(* The files, when no folder is lost.                                      *)
LEMMA OnDiskKept ==
  ASSUME OnDisk, UNCHANGED local, folders \subseteq folders'
  PROVE  OnDisk'
  BY DEF OnDisk

(* The folder being extracted, which belongs to its step as well.          *)
LEMMA InFoldersKept ==
  ASSUME InFolders, UNCHANGED <<disc, call, todo>>,
         UNCHANGED pc \/ call.result \notin {"INITIAL", "CRASH"}
  PROVE  InFolders'
  BY DEF InFolders, Entries

(* The request, the privileges and the keys; a look finds what there is.   *)
LEMMA FlagsKept ==
  ASSUME Flags, UNCHANGED <<cancel, regVars>>, UNCHANGED seen \/ Look
  PROVE  Flags'
  BY DEF Flags, regVars, Look

(* The wims.  Before THIRD_STEP nothing is said of TMP's boot.wim.         *)
LEMMA WimKept ==
  ASSUME InThird, Asked, Images, UNCHANGED <<wimVars, pc, next>>,
         folders \subseteq folders', UNCHANGED TmpFile \/ pc = "check.second"
  PROVE  InThird' /\ Asked' /\ Images'
<1>1. Asked'
  BY DEF Asked, wimVars, ExtractTo
<1>2. CASE UNCHANGED TmpFile
  BY <1>1, <1>2 DEF InThird, Images, BeforeThird, wimVars
<1>3. CASE pc = "check.second"
  BY <1>1, <1>3 DEF InThird, Images, BeforeThird, wimVars
<1> QED
  BY <1>2, <1>3

(* A copy that ends.                                                       *)
LEMMA EndFileFiles ==
  ASSUME InFolders, Fields, NEW result, result # "CRASH", EndFile(result),
         UNCHANGED <<disc, todo, pc>>
  PROVE  Copying' /\ InFolders'
<1>1. Copying'
  BY DEF EndFile, NoCopy, Copying
<1>2. CASE call.kind = "folder"
  BY <1>1, <1>2 DEF EndFile, InFolders, Entries
<1>3. CASE call.kind # "folder"
  <2>1. call' = [call EXCEPT !.result = result]
    BY <1>3 DEF EndFile
  <2>2. call'.kind = call.kind /\ call'.result = result /\ "to" \in DOMAIN call'
    BY <2>1 DEF InFolders, Fields
  <2> QED  BY <1>1, <1>3, <2>2 DEF InFolders, Entries
<1> QED
  BY <1>2, <1>3

(* The steps of a copy: only FOURTH_STEP copies once there is a wim.       *)
LEMMA CopyFiles ==
  ASSUME FilesInv, LateInv, CopyOpen \/ CopyLook \/ CopyBlock \/ CopyDone,
         UNCHANGED <<cancel, wimVars, regVars, pc, next>>
  PROVE  FilesInv'
<1> USE DEF FilesInv
<1>1. Listed' /\ UNCHANGED <<disc, todo>> /\ UNCHANGED folders
  BY ListedKept DEF CopyOpen, CopyLook, CopyBlock, CopyDone, diskVars
<1>2. Flags'
  BY FlagsKept DEF CopyOpen, CopyLook, CopyBlock, CopyDone
<1>3. Fields /\ pc \in {"check.second", "make.fourth"}
  BY DEF LateInv, OneCall, CopyOpen, CopyLook, CopyBlock, CopyDone
<1>4. CASE UNCHANGED local /\ ((\E result : result # "CRASH" /\ EndFile(result)) \/ CopyLook)
  <2>1. OnDisk' /\ UNCHANGED TmpFile
    BY <1>1, <1>4, OnDiskKept, TmpFileKept
  <2>2. InThird' /\ Asked' /\ Images'
    BY <1>1, <2>1, WimKept
  <2>3. Copying' /\ InFolders'
    <3>1. CASE \E result : result # "CRASH" /\ EndFile(result)
      BY <1>1, <1>3, <3>1, EndFileFiles
    <3>2. CASE copy' = [copy EXCEPT !.at = "block"] /\ UNCHANGED call /\ copy.at = "look" /\ copy.left > 0
      <4>1. Copying'
        BY <1>1, <1>3, <1>4, <3>2 DEF Copying, Fields
      <4> QED  BY <1>1, <3>2, <4>1, InFoldersKept
    <3> QED  BY <1>4, <3>1, <3>2 DEF CopyLook
  <2> QED  BY <1>1, <1>2, <2>1, <2>2, <2>3
<1>5. CASE /\ CopyOpen /\ Front(copy.to) \in folders /\ UNCHANGED call
           /\ \E e \in Target(copy.from) :
                /\ copy' = [copy EXCEPT !.left = e.blocks, !.at = "look"]
                /\ local' = With(copy.to, [of |-> e.path, missing |-> e.blocks])
  <2>1. PICK e \in Target(copy.from) :
               /\ copy' = [copy EXCEPT !.left = e.blocks, !.at = "look"]
               /\ local' = With(copy.to, [of |-> e.path, missing |-> e.blocks])
    BY <1>5
  <2>2. e.blocks \in Nat
    <3>1. e \in Range(Entries)
      BY DEF Target, UdfTarget, Iso9660Target, Listed, FileExists
    <3> QED  BY <3>1, EntriesTyped DEF EntryType, Listed
  <2>3. /\ copy'.to = copy.to /\ copy'.left = e.blocks /\ copy'.at = "look"
        /\ {"to", "left"} \subseteq DOMAIN copy'
    BY <1>3, <2>1 DEF Copying, Fields
  <2>4. /\ DOMAIN local' = DOMAIN local \cup {copy.to}
        /\ local'[copy.to] = [of |-> e.path, missing |-> e.blocks]
        /\ \A f \in DOMAIN local \ {copy.to} : local'[f] = local[f]
    BY <2>1 DEF With
  <2>5. Copying'
    <3>1. local'[copy.to].missing = e.blocks
      BY <2>4
    <3>2. copy'.to \in DOMAIN local' /\ local'[copy'.to].missing = copy'.left
      BY <2>3, <2>4, <3>1
    <3>3. copy.at = "open"
      BY <1>5 DEF CopyOpen
    <3> QED  BY <2>2, <2>3, <3>2, <3>3 DEF Copying
  <2>6. OnDisk'
    BY <1>1, <1>5, <2>2, <2>4 DEF OnDisk
  <2>7. UNCHANGED TmpFile \/ pc = "check.second"
    <3>1. CASE pc = "make.fourth"
      <4>1. copy.to # TmpWim
        BY <1>5, <3>1 DEF Copying, CopyOpen
      <4> QED  BY <1>1, <2>4, <4>1, TmpFileKept
    <3> QED  BY <1>3, <3>1
  <2>8. InThird' /\ Asked' /\ Images'
    BY <1>1, <2>7, WimKept
  <2>9. InFolders'
    BY <1>1, <1>5, InFoldersKept
  <2> QED  BY <1>1, <1>2, <2>5, <2>6, <2>8, <2>9
<1>6. CASE CopyBlock /\ Written /\ copy' = [copy EXCEPT !.left = @ - 1, !.at = "look"] /\ UNCHANGED call
  <2>1. /\ copy.to \in DOMAIN local /\ local[copy.to].missing = copy.left
        /\ copy.left \in Nat \ {0}
    BY <1>6 DEF CopyBlock, Copying
  <2>2. /\ copy'.to = copy.to /\ copy'.left = copy.left - 1 /\ copy'.at = "look"
        /\ {"to", "left"} \subseteq DOMAIN copy'
    BY <1>3, <1>6 DEF Copying, Fields
  <2>3. /\ DOMAIN local' = DOMAIN local
        /\ local'[copy.to].missing = copy.left - 1 /\ "missing" \in DOMAIN local'[copy.to]
        /\ \A f \in DOMAIN local \ {copy.to} : local'[f] = local[f]
    BY <1>6, <2>1 DEF Written, OnDisk
  <2>4. Copying'
    BY <1>1, <2>1, <2>2, <2>3, <1>6 DEF Copying, CopyBlock
  <2>5. OnDisk'
    BY <1>1, <2>1, <2>3 DEF OnDisk
  <2>6. UNCHANGED TmpFile \/ pc = "check.second"
    <3>1. CASE pc = "make.fourth"
      <4>1. copy.to # TmpWim
        BY <1>6, <3>1 DEF Copying, CopyBlock
      <4> QED  BY <1>1, <2>3, <4>1, TmpFileKept
    <3> QED  BY <1>3, <3>1
  <2>7. InThird' /\ Asked' /\ Images'
    BY <1>1, <2>6, WimKept
  <2>8. InFolders'
    BY <1>1, <1>6, InFoldersKept
  <2> QED  BY <1>1, <1>2, <2>4, <2>5, <2>7, <2>8
<1> QED
  BY <1>1, <1>4, <1>5, <1>6 DEF CopyOpen, CopyBlock, CopyDone, CopyLook, diskVars

(* The steps of a folder, which only FOURTH_STEP extracts.                 *)
LEMMA FolderFiles ==
  ASSUME FilesInv, LateInv, UdfSubfolder \/ Iso9660Subfolder \/ Subfile \/ FolderDone,
         UNCHANGED <<cancel, wimVars, regVars, pc, next>>
  PROVE  FilesInv'
<1> USE DEF FilesInv
<1>1. /\ call.kind = "folder" /\ call.result = "INITIAL" /\ copy.at = "none"
      /\ UNCHANGED <<disc, extractor, list, local, seen>> /\ folders \subseteq folders'
  BY DEF UdfSubfolder, Iso9660Subfolder, Subfolder, Subfile, FolderDone, InFolder, Idle, diskVars
<1>2. Listed' /\ OnDisk' /\ Flags' /\ UNCHANGED TmpFile
  BY <1>1, ListedKept, OnDiskKept, FlagsKept, TmpFileKept
<1>3. InThird' /\ Asked' /\ Images'
  BY <1>1, <1>2, WimKept
<1>4. pc = "make.fourth" /\ NotInTmp(call.to) /\ Fields
  BY <1>1 DEF InFolders, LateInv
<1>5. todo \subseteq DOMAIN Entries /\ UNCHANGED Entries
  BY <1>1 DEF InFolders, Entries
<1>6. InFolders'
  <2>1. todo' \subseteq todo
    BY DEF UdfSubfolder, Iso9660Subfolder, Subfolder, Subfile, FolderDone, End
  <2>2. UNCHANGED call \/ \E result : call' = [call EXCEPT !.result = result]
    BY DEF UdfSubfolder, Iso9660Subfolder, Subfolder, Subfile, FolderDone, End
  <2>3. call'.kind = "folder" /\ call'.to = call.to /\ "to" \in DOMAIN call'
    BY <1>1, <1>4, <2>2 DEF InFolders, Fields
  <2> QED  BY <1>4, <1>5, <2>1, <2>3 DEF InFolders
<1>7. Copying'
  <2>1. CASE UNCHANGED copy
    BY <1>1, <2>1, CopyingKept
  <2>2. CASE Subfile
    <3>1. todo # {} /\ DOMAIN Entries \in SUBSET Nat /\ disc \in Discs
      BY <2>2, EntriesTyped DEF Subfile, Listed
    <3>2. Min(todo) \in DOMAIN Entries
      BY <1>5, <3>1, MinIsIn
    <3>3. First.path \in Seq(STRING)
      <4>1. \A i \in DOMAIN Entries : Entries[i].path \in Seq(STRING)
        BY <3>1, EntriesTyped
      <4> QED  BY <3>2, <4>1 DEF First
    <3>4. LocalPath(call.to, First.path) \notin {TmpWim, Software}
      BY <1>4, <3>3, LocalPathNotTmp
    <3> QED  BY <2>2, <3>4 DEF Subfile, Copying
  <2> QED  BY <2>1, <2>2 DEF UdfSubfolder, Iso9660Subfolder, Subfolder, FolderDone
<1> QED
  BY <1>2, <1>3, <1>6, <1>7

-----------------------------------------------------------------------------
(* A step inside a call of wimlib that gives no result away.               *)
LEMMA WimMoved ==
  ASSUME InThird, Asked, Images, UNCHANGED <<pe, names, number, pc, next>>, UNCHANGED TmpFile,
         {"op", "file", "image", "arg"} \subseteq DOMAIN wcall',
         wcall'.op = wcall.op, wcall'.file = wcall.file, wcall'.image = wcall.image,
         wcall'.arg = wcall.arg, wcall.op # "none", folders \subseteq folders',
         wcall'.result = "SUCCESS" /\ wcall'.at \in {"END", "done"} =>
           \/ wcall.op \notin {"GetNameInformations", "GetPEImageNumber"}
           \/ wcall.at \in {"END", "done"} /\ wcall.result = "SUCCESS",
         wcall.op = "Extract" /\ wcall'.at \notin {"mkdir", "done"} => ExtractTo \in folders',
         wcall'.at \in {"progress", "write"} => wcall.op \in {"Export", "Update"}
  PROVE  InThird' /\ Asked' /\ Images'
<1>1. Asked'
  BY DEF Asked, ExtractTo
<1>2. InThird'
  BY DEF InThird, BeforeThird
<1>3. Images'
  BY DEF Images
<1> QED
  BY <1>1, <1>2, <1>3

(* What WIM's methods share: the fields, and the rest of the state.        *)
LEMMA WimFrame ==
  ASSUME FilesInv, LateInv, WimStep, UNCHANGED <<isoVars, cancel, regVars, pc, next>>
  PROVE  /\ wcall.op # "none" /\ wcall.at # "done" /\ copy.at = "none"
         /\ Listed' /\ Flags' /\ InFolders' /\ folders \subseteq folders'
         /\ UNCHANGED <<disc, pc, next>>
         /\ {"at", "result", "op", "file", "image", "arg"} \subseteq DOMAIN wcall
<1>1. wcall.at # "done"
  BY DEF WimStep, MakeFolder, Open, GetNameInformations, GetPEImageNumber, Export, Update,
         WriteProgress, WritePart, Extract, Free, Doing
<1>2. wcall.op # "none" /\ copy.at = "none"
  BY <1>1 DEF FilesInv, Asked, LateInv, OneCall
<1>3. folders \subseteq folders' /\ (UNCHANGED seen \/ Look)
  BY DEF WimStep, MakeFolder, Open, GetNameInformations, GetPEImageNumber, Export, Update,
         WriteProgress, WritePart, Extract, Free, diskVars
<1>4. Listed' /\ Flags' /\ InFolders'
  BY <1>3, ListedKept, FlagsKept, InFoldersKept DEF FilesInv, isoVars
<1> QED
  BY <1>1, <1>2, <1>3, <1>4 DEF FilesInv, Asked, LateInv, Fields, isoVars

(* Opening, and what is only looked at, created or left: no file changes.  *)
LEMMA WimOpenFiles ==
  ASSUME FilesInv, LateInv, MakeFolder \/ Open \/ Export \/ Update \/ Free,
         UNCHANGED <<isoVars, cancel, regVars, pc, next>>
  PROVE  FilesInv'
<1> USE DEF FilesInv
<1>1. /\ wcall.op # "none" /\ wcall.at # "done" /\ copy.at = "none"
      /\ Listed' /\ Flags' /\ InFolders' /\ folders \subseteq folders'
      /\ UNCHANGED <<disc, pc, next>>
      /\ {"at", "result", "op", "file", "image", "arg"} \subseteq DOMAIN wcall
  BY WimFrame DEF WimStep
<1>2. UNCHANGED <<local, pe, names, number>> /\ UNCHANGED copy
  BY DEF MakeFolder, Open, Export, Update, Free, diskVars, isoVars
<1>3. OnDisk' /\ Copying' /\ UNCHANGED TmpFile
  BY <1>1, <1>2, OnDiskKept, CopyingKept, TmpFileKept
<1>4. InThird' /\ Asked' /\ Images'
  <2>1. CASE MakeFolder
    <3>1. /\ {"op", "file", "image", "arg"} \subseteq DOMAIN wcall'
          /\ wcall'.op = wcall.op /\ wcall'.file = wcall.file /\ wcall'.image = wcall.image
          /\ wcall'.arg = wcall.arg
          /\ \/ wcall'.at = "open" /\ (wcall.op = "Extract" => ExtractTo \in folders')
             \/ wcall'.at = "done" /\ wcall'.result # "SUCCESS"
      BY <1>1, <2>1 DEF MakeFolder, Goto
    <3> QED  BY <1>1, <1>2, <1>3, <3>1, WimMoved
  <2>2. CASE Open
    <3>1. /\ {"op", "file", "image", "arg"} \subseteq DOMAIN wcall'
          /\ wcall'.op = wcall.op /\ wcall'.file = wcall.file /\ wcall'.image = wcall.image
          /\ wcall'.arg = wcall.arg
          /\ \/ wcall'.at \in {"create", "resolve", "update", "info"}
             \/ wcall'.at = "END" /\ wcall'.result # "SUCCESS"
      BY <1>1, <2>2 DEF Open, Leave
    <3>2. wcall.op = "Extract" => ExtractTo \in folders'
      BY <1>1, <2>2 DEF Open, Asked
    <3> QED  BY <1>1, <1>2, <1>3, <3>1, <3>2, WimMoved
  <2>3. CASE Export \/ Update
    <3>1. /\ {"op", "file", "image", "arg"} \subseteq DOMAIN wcall'
          /\ wcall'.op = wcall.op /\ wcall'.file = wcall.file /\ wcall'.image = wcall.image
          /\ wcall'.arg = wcall.arg
          /\ wcall.op \in {"Export", "Update"}
      BY <1>1, <2>3 DEF Export, Update, Doing, Leave, Resolve, Goto
    <3> QED  BY <1>1, <1>2, <1>3, <3>1, WimMoved
  <2>4. CASE Free /\ wcall.op = "Extract"
    <3>1. wcall' = NoCall
      BY <2>4 DEF Free
    <3>2. Asked'
      BY <3>1 DEF NoCall, Asked
    <3>3. InThird'
      BY <1>1, <1>2, <1>3, <2>4, <3>1 DEF NoCall, InThird, BeforeThird
    <3> QED  BY <1>2, <1>3, <3>2, <3>3 DEF Images
  <2>5. CASE Free /\ wcall.op # "Extract"
    <3>1. /\ {"op", "file", "image", "arg"} \subseteq DOMAIN wcall'
          /\ wcall'.op = wcall.op /\ wcall'.file = wcall.file /\ wcall'.image = wcall.image
          /\ wcall'.arg = wcall.arg /\ wcall'.result = wcall.result
          /\ wcall'.at = "done" /\ wcall.at = "END"
      BY <1>1, <2>5 DEF Free
    <3> QED  BY <1>1, <1>2, <1>3, <2>5, <3>1, WimMoved
  <2> QED  BY <2>1, <2>2, <2>3, <2>4, <2>5
<1> QED
  BY <1>1, <1>3, <1>4

(* The two methods that read the wim of the installer.                     *)
LEMMA WimReadFiles ==
  ASSUME FilesInv, LateInv, GetNameInformations \/ GetPEImageNumber,
         UNCHANGED <<isoVars, cancel, regVars, pc, next>>
  PROVE  FilesInv'
<1> USE DEF FilesInv
<1>1. /\ wcall.op # "none" /\ wcall.at # "done" /\ copy.at = "none"
      /\ Listed' /\ Flags' /\ InFolders' /\ folders \subseteq folders'
      /\ UNCHANGED <<disc, pc, next>>
      /\ {"at", "result", "op", "file", "image", "arg"} \subseteq DOMAIN wcall
  BY WimFrame DEF WimStep
<1>2. UNCHANGED <<local, pe>> /\ UNCHANGED copy
  BY DEF GetNameInformations, GetPEImageNumber, diskVars, isoVars
<1>3. OnDisk' /\ Copying' /\ UNCHANGED TmpFile
  BY <1>1, <1>2, OnDiskKept, CopyingKept, TmpFileKept
<1>4. /\ {"op", "file", "image", "arg"} \subseteq DOMAIN wcall'
      /\ wcall'.op = wcall.op /\ wcall'.file = wcall.file /\ wcall'.arg = wcall.arg
      /\ wcall'.at = "END"
  BY <1>1 DEF GetNameInformations, GetPEImageNumber, Leave
<1>5. TmpFile.images \in Seq(STRING) /\ Opened = TmpFile
  BY TmpFileTyped DEF Listed, GetNameInformations, GetPEImageNumber, Doing, InThird, Opened
<1>6. PEImageNumber(TmpFile.images) \in 0 .. Len(TmpFile.images) /\ Len(TmpFile.images) \in Nat
  BY <1>5, PEImageNumberIs, LenProperties
<1>7. Asked'
  BY <1>4 DEF Asked, GetNameInformations, GetPEImageNumber, Doing
<1>8. CASE GetNameInformations
  <2>1. wcall.op = "GetNameInformations" /\ number = 0 /\ UNCHANGED number
    BY <1>8 DEF GetNameInformations, Doing, InThird
  <2>2. \/ wcall'.result # "SUCCESS" /\ UNCHANGED names
        \/ names' = TmpFile.images
    BY <1>1, <1>5, <1>8 DEF GetNameInformations, Leave
  <2>3. InThird'
    BY <1>1, <1>2, <1>3, <1>4, <2>1, <2>2 DEF InThird, BeforeThird
  <2>4. Images'
    BY <1>2, <1>3, <1>5, <1>6, <2>1, <2>2 DEF Images
  <2> QED  BY <1>1, <1>3, <1>7, <2>3, <2>4
<1>9. CASE GetPEImageNumber
  <2>1. wcall.op = "GetPEImageNumber" /\ names = TmpFile.images /\ UNCHANGED names
    BY <1>9 DEF GetPEImageNumber, Doing, InThird
  <2>2. \/ wcall'.result # "SUCCESS" /\ number' = 0
        \/ /\ number' = PEImageNumber(TmpFile.images)
           /\ wcall'.result = "SUCCESS" => number' # 0
    BY <1>1, <1>5, <1>9 DEF GetPEImageNumber, Leave
  <2>3. InThird'
    BY <1>1, <1>2, <1>3, <1>4, <2>1, <2>2 DEF InThird, BeforeThird
  <2>4. Images'
    BY <1>2, <1>3, <1>6, <2>1, <2>2 DEF Images
  <2> QED  BY <1>1, <1>3, <1>7, <2>3, <2>4
<1> QED
  BY <1>8, <1>9

(* Writing: what there is at the end is what the call was asked to make.   *)
LEMMA WimWriteFiles ==
  ASSUME FilesInv, LateInv, WriteProgress \/ WritePart,
         UNCHANGED <<isoVars, cancel, regVars, pc, next>>
  PROVE  FilesInv'
<1> USE DEF FilesInv
<1>1. /\ wcall.op # "none" /\ wcall.at # "done" /\ copy.at = "none"
      /\ Listed' /\ Flags' /\ InFolders' /\ folders \subseteq folders'
      /\ UNCHANGED <<disc, pc, next>>
      /\ {"at", "result", "op", "file", "image", "arg"} \subseteq DOMAIN wcall
  BY WimFrame DEF WimStep
<1>2. UNCHANGED <<local, names, number>> /\ UNCHANGED copy
  BY DEF WriteProgress, WritePart, diskVars, isoVars
<1>3. OnDisk' /\ Copying' /\ UNCHANGED TmpFile
  BY <1>1, <1>2, OnDiskKept, CopyingKept, TmpFileKept
<1>4. wcall.op \in {"Export", "Update"} /\ ~BeforeThird
  BY <1>1 DEF WriteProgress, WritePart, Asked, InThird
<1>5. /\ {"op", "file", "image", "arg"} \subseteq DOMAIN wcall'
      /\ wcall'.op = wcall.op /\ wcall'.file = wcall.file /\ wcall'.image = wcall.image
      /\ wcall'.arg = wcall.arg
  BY <1>1 DEF WriteProgress, WritePart, WriteFails, Leave, Goto
<1>6. Asked'
  BY <1>4, <1>5 DEF Asked
<1>7. InThird'
  BY <1>1, <1>2, <1>3, <1>4, <1>5 DEF InThird, BeforeThird
<1>8. Images'
  <2>1. CASE UNCHANGED pe
    BY <1>2, <1>3, <2>1 DEF Images
  <2>2. CASE pe' = Damaged
    <3>1. DOMAIN pe' = DOMAIN NoFile /\ pe'.state = "partial"
      BY <2>2 DEF Damaged, NoFile
    <3> QED  BY <1>2, <3>1 DEF Images
  <2>3. CASE pe' = NewFile /\ wcall.op = "Export"
    <3>1. Opened = TmpFile
      BY <2>3 DEF InThird, Opened
    <3>2. wcall.image = PEImageNumber(TmpFile.images) /\ wcall.image # 0
      BY <2>3 DEF InThird
    <3>3. pe' = [TmpFile EXCEPT !.images = <<@[wcall.image]>>, !.from = wcall.image]
      BY <2>3, <3>1 DEF NewFile
    <3>4. DOMAIN TmpFile = DOMAIN NoFile /\ TmpFile.state \in {"none", "partial", "whole"}
      BY TmpFileTyped DEF Listed
    <3>5. {"images", "from", "state"} \subseteq DOMAIN TmpFile
      BY <3>4 DEF NoFile
    <3>6. /\ DOMAIN pe' = DOMAIN NoFile /\ pe'.state = TmpFile.state
          /\ pe'.from = wcall.image /\ pe'.images = <<TmpFile.images[wcall.image]>>
      BY <3>3, <3>4, <3>5
    <3> QED  BY <1>2, <1>3, <3>2, <3>4, <3>6 DEF Images
  <2>4. CASE pe' = NewFile /\ wcall.op = "Update"
    <3>1. Opened = pe
      BY <2>4 DEF Asked, Opened
    <3>2. \E files : pe' = [pe EXCEPT !.files = files]
      BY <2>4, <3>1 DEF NewFile
    <3>3. {"images", "from", "state"} \subseteq DOMAIN pe
      BY DEF Images, NoFile
    <3>4. /\ DOMAIN pe' = DOMAIN pe /\ pe'.state = pe.state
          /\ pe'.from = pe.from /\ pe'.images = pe.images
      BY <3>2, <3>3
    <3> QED  BY <1>2, <1>3, <3>4 DEF Images
  <2> QED  BY <1>4, <2>1, <2>2, <2>3, <2>4 DEF WriteProgress, WritePart, WriteFails
<1> QED
  BY <1>1, <1>3, <1>6, <1>7, <1>8

(* A file taken from the image is another one than TMP's boot.wim.         *)
LEMMA WimExtractFiles ==
  ASSUME FilesInv, LateInv, Extract, UNCHANGED <<isoVars, cancel, regVars, pc, next>>
  PROVE  FilesInv'
<1> USE DEF FilesInv
<1>1. /\ wcall.op # "none" /\ wcall.at # "done" /\ copy.at = "none"
      /\ Listed' /\ Flags' /\ InFolders' /\ folders \subseteq folders'
      /\ UNCHANGED <<disc, pc, next>>
      /\ {"at", "result", "op", "file", "image", "arg"} \subseteq DOMAIN wcall
  BY WimFrame DEF WimStep
<1>2. UNCHANGED <<pe, names, number, folders>> /\ UNCHANGED copy
  BY DEF Extract, isoVars
<1>3. wcall.op = "Extract" /\ ExtractTo \in folders /\ wcall.arg \in Settings
  BY DEF Extract, Doing, Asked
<1>4. wcall.arg \in Extracts /\ wcall.arg.to # TmpWim /\ Extracted # TmpWim
  BY <1>3, SettingsAre DEF Extracted
<1>5. Front(Extracted) = ExtractTo
  <2>1. wcall.arg.to \in Seq(STRING)
    BY <1>4 DEF Extracts
  <2>2. ExtractTo \in Seq(STRING)
    BY <2>1, FrontIsSeq DEF ExtractTo, FolderOf
  <2> QED  BY <2>2, FrontOfAppend DEF Extracted, FileOf, ExtractTo
<1>6. /\ OnDisk'
      /\ TmpWim \in DOMAIN local <=> TmpWim \in DOMAIN local'
      /\ TmpWim \in DOMAIN local => local'[TmpWim] = local[TmpWim]
  <2>1. CASE UNCHANGED local
    BY <1>1, <2>1, OnDiskKept
  <2>2. CASE local' = With(Extracted, [of |-> wcall.arg.from, missing |-> 0])
    BY <1>2, <1>3, <1>4, <1>5, <2>2 DEF With, OnDisk
  <2>3. CASE /\ wcall.arg.cmd = "RENAME" /\ Extracted \in DOMAIN local
             /\ local' = [f \in (DOMAIN local \ {Extracted}) \cup {wcall.arg.to} |->
                            IF f = wcall.arg.to THEN local[Extracted] ELSE local[f]]
    <3>1. Front(wcall.arg.to) = ExtractTo
      BY <2>3 DEF ExtractTo, FolderOf
    <3> QED  BY <1>2, <1>3, <1>4, <2>3, <3>1 DEF OnDisk
  <2> QED  BY <2>1, <2>2, <2>3 DEF Extract
<1>7. UNCHANGED TmpFile /\ Copying'
  <2>1. UNCHANGED TmpFile
    BY <1>1, <1>6, TmpFileKept
  <2> QED  BY <1>1, <1>2, <2>1 DEF Copying
<1>8. InThird' /\ Asked' /\ Images'
  <2>1. InThird /\ Asked /\ Images /\ wcall.op \notin {"GetNameInformations", "GetPEImageNumber"}
    BY <1>3
  <2>2. \E at \in {"extract", "rename", "END"} :
          \/ wcall' = [wcall EXCEPT !.at = at]
          \/ \E result : wcall' = [wcall EXCEPT !.at = at, !.result = result]
    <3> HIDE DEF FilesInv
    <3> QED  BY DEF Extract, Leave, Goto, Resolve
  <2> HIDE DEF FilesInv
  <2>3. /\ {"op", "file", "image", "arg"} \subseteq DOMAIN wcall'
        /\ wcall'.op = wcall.op /\ wcall'.file = wcall.file /\ wcall'.image = wcall.image
        /\ wcall'.arg = wcall.arg /\ wcall'.at \notin {"progress", "write"}
    BY <1>1, <2>2
  <2>4. UNCHANGED TmpFile /\ UNCHANGED <<pe, names, number>> /\ ExtractTo \in folders'
    BY <1>2, <1>3, <1>7
  <2> QED  BY <1>1, <2>1, <2>3, <2>4, WimMoved
<1> QED
  BY <1>1, <1>6, <1>7, <1>8

-----------------------------------------------------------------------------
(* Before the first step.                                                  *)
LEMMA InitFilesInv == Init => FilesInv
<1> SUFFICES ASSUME Init PROVE FilesInv
  OBVIOUS
<1> USE DEF Init, IsoInit, WimInit, RegInit
<1>1. Listed
  BY DEF Listed
<1>2. Copying /\ OnDisk
  BY DEF Copying, OnDisk, NoCopy
<1>3. InFolders
  BY DEF InFolders, NoIsoCall
<1>4. Asked /\ InThird
  BY DEF Asked, InThird, BeforeThird, NoCall, NoFile
<1>5. Images
  <2>1. names \in Seq(STRING) /\ Len(names) = 0
    OBVIOUS
  <2> QED  BY <2>1 DEF Images, NoFile
<1>6. Flags
  BY DEF Flags
<1> QED
  BY <1>1, <1>2, <1>3, <1>4, <1>5, <1>6 DEF FilesInv

(* The list an extractor is made with is one of the image's entries.       *)
LEMMA CreateListed ==
  ASSUME Listed, CreateExtractor, UNCHANGED disc
  PROVE  Listed'
<1>1. list' = list \/ list' = <<>> \/ \E lost : list' = FileList(lost)
  BY DEF CreateExtractor, CreateUdf, CreateIso9660, CreateFails, Lists
<1>2. extractor' \in {"none", "UDF", "ISO9660"}
  BY DEF CreateExtractor, CreateUdf, CreateIso9660, CreateFails, Listed
<1>3. UNCHANGED Entries
  BY DEF Entries
<1>4. \A key \in DOMAIN list' : list'[key] \in Range(Entries) /\ Upper(list'[key].path) = key
  <2>1. CASE list' = list
    BY <2>1 DEF Listed
  <2>2. CASE list' = <<>>
    BY <2>2
  <2>3. CASE \E lost : list' = FileList(lost)
    BY <2>3, FileListIs DEF Listed
  <2> QED  BY <1>1, <2>1, <2>2, <2>3
<1> QED
  BY <1>2, <1>3, <1>4 DEF Listed

(* A step between calls in which no file of the image or of TMP changes.   *)
LEMMA BetweenCalls ==
  ASSUME FilesInv, LateInv, call.result \notin {"INITIAL", "CRASH"},
         UNCHANGED <<disc, todo, copy, local, folders>>,
         UNCHANGED call \/ call' = NoIsoCall, cancel' \in BOOLEAN, seen' \in BOOLEAN
  PROVE  Copying' /\ OnDisk' /\ InFolders' /\ UNCHANGED TmpFile
<1>1. copy.at = "none"
  BY DEF LateInv, OneCall
<1>2. Copying' /\ OnDisk'
  BY <1>1, CopyingKept, OnDiskKept DEF FilesInv
<1>3. UNCHANGED TmpFile
  BY TmpFileKept
<1>4. InFolders'
  BY DEF FilesInv, InFolders, NoIsoCall, Entries
<1> QED
  BY <1>2, <1>3, <1>4

(* FIRST_STEP of CheckISOImage: only the extractor changes.                *)
LEMMA CheckFirstFiles ==
  ASSUME FilesInv, LateInv, CheckFirst
  PROVE  FilesInv'
<1> USE DEF FilesInv
<1>1. /\ call.result \notin {"INITIAL", "CRASH"} /\ UNCHANGED <<wimVars, cancel, seen, regVars>>
      /\ UNCHANGED <<disc, call, todo, copy, local, folders>>
  BY DEF CheckFirst, At, AtRest, Idle, diskVars
<1>2. Copying' /\ OnDisk' /\ InFolders' /\ UNCHANGED TmpFile
  BY <1>1, BetweenCalls DEF Flags
<1>3. Listed' /\ Flags'
  BY <1>1, CreateListed, FlagsKept DEF CheckFirst
<1>4. pc = "check.first" /\ pc' \in {"check.second", "check.end"}
  BY DEF CheckFirst, At, NextStep
<1>5. InThird' /\ Asked' /\ Images'
  BY <1>1, <1>2, <1>4 DEF InThird, Asked, Images, BeforeThird, wimVars, ExtractTo
<1> QED
  BY <1>2, <1>3, <1>5

(* SECOND_STEP: TMP's boot.wim is written before any wim was made of it.   *)
LEMMA CheckSecondFiles ==
  ASSUME FilesInv, LateInv, CheckSecond
  PROVE  FilesInv'
<1> USE DEF FilesInv
<1>1. /\ call.result \notin {"INITIAL", "CRASH"} /\ UNCHANGED <<wimVars, cancel, seen, regVars>>
      /\ UNCHANGED <<disc, extractor, list, todo, local, folders>>
      /\ pc = "check.second"
  BY DEF CheckSecond, ExtractFile, At, AtRest, Idle, diskVars
<1>2. Listed' /\ Flags' /\ OnDisk' /\ UNCHANGED TmpFile
  BY <1>1, ListedKept, FlagsKept, OnDiskKept, TmpFileKept
<1>3. CASE ExtractFile(BootWim, TmpWim) /\ UNCHANGED pc
  <2>1. Copying' /\ InFolders'
    BY <1>1, <1>3 DEF ExtractFile, Running, Copying, InFolders, Entries
  <2>2. InThird' /\ Asked' /\ Images'
    BY <1>1, <1>2, <1>3 DEF InThird, Asked, Images, BeforeThird, wimVars, ExtractTo
  <2> QED  BY <1>2, <2>1, <2>2
<1>4. CASE /\ call' = NoIsoCall /\ UNCHANGED copy
           /\ NextStep(IF call.result = "SUCCESS" THEN "check.third" ELSE "check.sixth")
  <2>1. Copying' /\ InFolders'
    BY <1>1, <1>4, BetweenCalls DEF Flags
  <2>2. InThird' /\ Asked' /\ Images'
    BY <1>1, <1>2, <1>4 DEF NextStep, InThird, Asked, Images, BeforeThird, wimVars, ExtractTo
  <2> QED  BY <1>2, <2>1, <2>2
<1> QED
  BY <1>3, <1>4 DEF CheckSecond

(* Each call is made of what the one before has found out.                 *)
LEMMA CheckThirdFiles ==
  ASSUME FilesInv, LateInv, CheckThird
  PROVE  FilesInv'
<1> USE DEF FilesInv
<1>1. /\ call.result \notin {"INITIAL", "CRASH"} /\ UNCHANGED <<isoVars, diskVars, cancel, seen, regVars>>
      /\ pc = "check.third" /\ wcall.at = "done" /\ UNCHANGED <<pe, names, number>>
  BY DEF CheckThird, At, AtRest, Idle, WimIdle, BeginWim
<1>2. Listed' /\ Flags'
  BY <1>1, ListedKept, FlagsKept DEF isoVars
<1>3. Copying' /\ OnDisk' /\ InFolders' /\ UNCHANGED TmpFile
  BY <1>1, BetweenCalls DEF isoVars, diskVars, Flags
<1>4. Images'
  BY <1>1, <1>3 DEF Images
<1>5. CASE next = 1 /\ BeginWim("GetNameInformations", "tmp", 0, <<>>) /\ next' = 2 /\ UNCHANGED pc
  BY <1>1, <1>2, <1>3, <1>4, <1>5 DEF BeginWim, NoCall, InThird, BeforeThird, Asked
<1>6. CASE /\ next = 2 /\ wcall.result = "SUCCESS" /\ next' = 3 /\ UNCHANGED pc
           /\ BeginWim("GetPEImageNumber", "tmp", 0, <<>>)
  BY <1>1, <1>2, <1>3, <1>4, <1>6 DEF BeginWim, NoCall, InThird, BeforeThird, Asked
<1>7. CASE /\ next = 3 /\ wcall.result = "SUCCESS" /\ next' = 4 /\ UNCHANGED pc
           /\ BeginWim("Export", "tmp", number, <<>>)
  BY <1>1, <1>2, <1>3, <1>4, <1>7 DEF BeginWim, NoCall, InThird, BeforeThird, Asked
<1>8. CASE NextStep("check.fourth") /\ wcall' = NoCall
  BY <1>1, <1>2, <1>3, <1>4, <1>8 DEF NextStep, NoCall, InThird, BeforeThird, Asked
<1> QED
  BY <1>5, <1>6, <1>7, <1>8 DEF CheckThird

-----------------------------------------------------------------------------
(* The steps after THIRD_STEP of CheckISOImage: the wim is there or is not. *)

Late == pc' \notin {"check.first", "check.second", "check.third"}

(* A step that ends the calls of one and begins none.                      *)
LEMMA QuietFiles ==
  ASSUME FilesInv, LateInv, call.result \notin {"INITIAL", "CRASH"}, Late, Listed', cancel' \in BOOLEAN,
         seen' \in BOOLEAN, UNCHANGED <<disc, todo, copy, diskVars, pe>>,
         UNCHANGED call \/ call' = NoIsoCall,
         (UNCHANGED wcall /\ wcall.op \in {"none", "Update", "Extract"}) \/ wcall' = NoCall,
         UNCHANGED <<names, number>> \/ (names' = <<>> /\ number' = 0),
         {privileged', loaded', data'} \subseteq BOOLEAN, keys' \subseteq {"parent", "hive"}
  PROVE  FilesInv'
<1> USE DEF FilesInv
<1>1. Copying' /\ OnDisk' /\ InFolders' /\ UNCHANGED TmpFile
  BY BetweenCalls DEF diskVars
<1>2. Flags'
  BY DEF Flags
<1>3. Asked' /\ wcall'.op \in {"none", "Update", "Extract"}
  BY DEF Asked, NoCall, ExtractTo, diskVars
<1>4. InThird'
  BY <1>3 DEF Late, InThird, BeforeThird
<1>5. Images'
  <2>1. names' \in Seq(STRING) /\ number' \in 0 .. Len(names')
    <3>1. CASE UNCHANGED <<names, number>>
      BY <3>1 DEF Images
    <3>2. CASE names' = <<>> /\ number' = 0
      <4>1. <<>> \in Seq(STRING) /\ Len(<<>>) = 0
        OBVIOUS
      <4> QED  BY <3>2, <4>1
    <3> QED  BY <3>1, <3>2
  <2> QED  BY <1>1, <2>1 DEF Images
<1> QED
  BY <1>1, <1>2, <1>3, <1>4, <1>5

(* A step that begins a call on media's boot.wim.                          *)
LEMMA BeginFiles ==
  ASSUME FilesInv, LateInv, call.result \notin {"INITIAL", "CRASH"}, Late, UNCHANGED <<isoVars, diskVars>>,
         cancel' \in BOOLEAN, seen' \in BOOLEAN,
         {privileged', loaded', data'} \subseteq BOOLEAN, keys' \subseteq {"parent", "hive"},
         NEW op \in {"Update", "Extract"}, NEW arg, op = "Extract" => arg \in Settings,
         BeginWim(op, "pe", 1, arg)
  PROVE  FilesInv'
<1> USE DEF FilesInv
<1>1. Copying' /\ OnDisk' /\ InFolders' /\ UNCHANGED TmpFile
  BY BetweenCalls DEF isoVars, diskVars
<1>2. Listed'
  BY ListedKept DEF isoVars
<1>3. Flags'
  BY DEF Flags
<1>4. UNCHANGED <<pe, names, number>>
  BY DEF BeginWim
<1>5. Asked' /\ InThird'
  BY DEF BeginWim, NoCall, Asked, InThird, BeforeThird, Late
<1>6. Images'
  BY <1>1, <1>4 DEF Images
<1> QED
  BY <1>1, <1>2, <1>3, <1>5, <1>6

(* The rest of CheckISOImage.                                              *)
LEMMA CheckRestFiles ==
  ASSUME FilesInv, LateInv, Counting, CheckFourth \/ CheckSixth \/ CheckEnd
  PROVE  FilesInv'
<1>1. /\ call.result \notin {"INITIAL", "CRASH"} /\ Late /\ pc # "check.third"
      /\ UNCHANGED <<disc, call, todo, copy, diskVars, pe, cancel, seen, regVars>>
  BY DEF CheckFourth, CheckSixth, CheckEnd, ExtractAll, BeginWim, At, AtRest, Idle, NextStep,
         Late, others, isoVars, wimVars, regVars
<1>2. /\ wcall.op \in {"none", "Update", "Extract"}
      /\ {cancel', seen', privileged', loaded', data'} \subseteq BOOLEAN
      /\ keys' \subseteq {"parent", "hive"}
  BY <1>1 DEF FilesInv, Asked, InThird, Flags, regVars
<1>3. CASE CheckFourth
  <2>1. Listed'
    BY <1>3, ListedKept DEF CheckFourth, isoVars, FilesInv
  <2>2. CASE UNCHANGED wimVars
    BY <1>1, <1>2, <2>1, <2>2, QuietFiles DEF wimVars
  <2>3. CASE \E i \in DOMAIN CheckExtracts : BeginWim("Extract", "pe", 1, CheckExtracts[i])
    <3>1. PICK i \in DOMAIN CheckExtracts : BeginWim("Extract", "pe", 1, CheckExtracts[i])
      BY <2>3
    <3>2. CheckExtracts[i] \in Settings
      BY DEF Settings, Range
    <3> QED  BY <1>1, <1>2, <1>3, <3>1, <3>2, BeginFiles DEF CheckFourth
  <2>4. next <= Len(CheckExtracts) => next \in DOMAIN CheckExtracts
    <3>1. Len(CheckExtracts) \in Nat /\ DOMAIN CheckExtracts = 1 .. Len(CheckExtracts)
      BY SettingsAssumption, LenProperties
    <3>2. next \in Nat \ {0}
      BY <1>3 DEF CheckFourth, At, Counting
    <3> QED  BY <3>1, <3>2
  <2> QED  BY <1>3, <2>2, <2>3, <2>4 DEF CheckFourth, ExtractAll
<1>4. CASE CheckSixth
  <2>1. Listed' /\ UNCHANGED wimVars
    BY <1>4, ListedKept DEF CheckSixth, others, isoVars, FilesInv
  <2> QED  BY <1>1, <1>2, <2>1, QuietFiles DEF wimVars
<1>5. CASE CheckEnd
  <2>1. Listed'
    BY <1>1, <1>5 DEF CheckEnd, DeleteExtractor, FilesInv, Listed
  <2>2. UNCHANGED wcall /\ names' = <<>> /\ number' = 0
    BY <1>5 DEF CheckEnd
  <2> QED  BY <1>1, <1>2, <2>1, <2>2, QuietFiles
<1> QED
  BY <1>3, <1>4, <1>5

(* The steps of MakePEImage that begin nothing.                            *)
LEMMA MakeQuietFiles ==
  ASSUME FilesInv, LateInv, MakeEntry \/ Cancelled \/ MakeFirst \/ MakeEnd
  PROVE  FilesInv'
<1>1. /\ UNCHANGED <<disc, call, todo, copy, diskVars, wimVars, regVars>>
      /\ cancel' \in BOOLEAN /\ seen' \in BOOLEAN
  BY DEF MakeEntry, Cancelled, MakeFirst, MakeEnd, Enter, Look, others, isoVars, FilesInv, Flags
<1>2. /\ Late /\ pc # "check.third"
      /\ call.result \notin {"INITIAL", "CRASH"}
  BY DEF MakeEntry, Cancelled, MakeFirst, MakeEnd, Enter, At, AtRest, Idle, Steps, MakeStep, Late,
         LateInv, OneCall, FilesInv, InFolders
<1>3. Listed'
  <2>1. CASE UNCHANGED <<extractor, list>>
    BY <1>1, <2>1, ListedKept DEF FilesInv
  <2>2. CASE MakeFirst
    BY <1>1, <2>2, CreateListed DEF MakeFirst, FilesInv
  <2>3. CASE MakeEnd
    BY <1>1, <2>3 DEF MakeEnd, DeleteExtractor, FilesInv, Listed
  <2> QED  BY <2>1, <2>2, <2>3 DEF MakeEntry, Cancelled, others, isoVars
<1>4. wcall.op \in {"none", "Update", "Extract"}
  BY <1>2 DEF FilesInv, Asked, InThird
<1> QED
  BY <1>1, <1>2, <1>3, <1>4, QuietFiles DEF wimVars, regVars, FilesInv, Flags

(* SECOND_STEP, THIRD_STEP and FIFTH_STEP, which ask wimlib.               *)
LEMMA MakeWimFiles ==
  ASSUME FilesInv, LateInv, Counting, MakeSecond \/ MakeThird \/ MakeFifth
  PROVE  FilesInv'
<1>1. /\ UNCHANGED <<isoVars, diskVars, cancel>>
      /\ call.result \notin {"INITIAL", "CRASH"} /\ Late /\ pc # "check.third"
  <2>1. pc \in {"make.second", "make.third", "make.fifth"}
    BY DEF MakeSecond, MakeThird, MakeFifth, Enter, At
  <2>2. call.result \notin {"INITIAL", "CRASH"}
    BY <2>1 DEF LateInv, OneCall, FilesInv, InFolders
  <2> QED  BY <2>1, <2>2 DEF MakeSecond, MakeThird, MakeFifth, Enter, At, ExtractAll, MakeStep, Late
<1>2. /\ wcall.op \in {"none", "Update", "Extract"} /\ Listed'
      /\ cancel' \in BOOLEAN /\ seen' \in BOOLEAN
  <2>1. UNCHANGED seen \/ seen' = cancel
    BY DEF MakeSecond, MakeThird, MakeFifth, Enter, Look
  <2> QED  BY <1>1, <2>1, ListedKept DEF FilesInv, Asked, InThird, Flags, isoVars
<1>3. {privileged', loaded', data'} \subseteq BOOLEAN /\ keys' \subseteq {"parent", "hive"}
  BY DEF MakeSecond, MakeThird, MakeFifth, BeginLoad, FilesInv, Flags, regVars
<1>4. CASE UNCHANGED <<pe, names, number>> /\ (UNCHANGED wcall \/ wcall' = NoCall)
  BY <1>1, <1>2, <1>3, <1>4, QuietFiles DEF isoVars
<1>5. CASE \E arg : BeginWim("Update", "pe", 1, arg)
  BY <1>1, <1>2, <1>3, <1>5, BeginFiles
<1>6. CASE \E i \in DOMAIN MakeExtracts : BeginWim("Extract", "pe", 1, MakeExtracts[i])
  <2>1. PICK i \in DOMAIN MakeExtracts : BeginWim("Extract", "pe", 1, MakeExtracts[i])
    BY <1>6
  <2>2. MakeExtracts[i] \in Settings
    BY DEF Settings, Range
  <2> QED  BY <1>1, <1>2, <1>3, <2>1, <2>2, BeginFiles
<1>7. next > 0 /\ next <= Len(MakeExtracts) => next \in DOMAIN MakeExtracts
  <2>1. Len(MakeExtracts) \in Nat /\ DOMAIN MakeExtracts = 1 .. Len(MakeExtracts)
    BY SettingsAssumption, LenProperties
  <2> QED  BY <2>1 DEF Counting
<1>8. CASE MakeSecond
  BY <1>4, <1>6, <1>7, <1>8 DEF MakeSecond, ExtractAll, wimVars
<1>9. CASE MakeThird
  BY <1>4, <1>5, <1>9 DEF MakeThird, wimVars
<1>10. CASE MakeFifth
  BY <1>4, <1>5, <1>10 DEF MakeFifth
<1> QED
  BY <1>8, <1>9, <1>10

(* FOURTH_STEP, which asks the extractor.                                  *)
LEMMA MakeFourthFiles ==
  ASSUME FilesInv, LateInv, MakeFourth
  PROVE  FilesInv'
<1> USE DEF FilesInv
<1>1. /\ UNCHANGED <<disc, extractor, list, local, wimVars, regVars, cancel>>
      /\ call.result \notin {"INITIAL", "CRASH"} /\ pc = "make.fourth"
      /\ copy.at = "none" /\ folders \subseteq folders'
  BY DEF MakeFourth, Enter, At, AtRest, Idle, BeginFolder, ExtractFile, isoVars, LateInv, OneCall
<1>2. Listed' /\ OnDisk' /\ UNCHANGED TmpFile
  BY <1>1, ListedKept, OnDiskKept, TmpFileKept
<1>3. seen' \in BOOLEAN /\ Flags'
  BY <1>1 DEF MakeFourth, Enter, Look, Flags, regVars
<1>4. /\ pc' \in {"make.fourth", "make.fifth"}
      /\ wcall.op \in {"none", "Update", "Extract"}
  BY <1>1 DEF MakeFourth, MakeStep, InThird, Asked
<1>5. InThird' /\ Asked' /\ Images'
  BY <1>1, <1>2, <1>4 DEF InThird, BeforeThird, Asked, Images, wimVars, ExtractTo
<1>6. UNCHANGED Entries
  BY <1>1 DEF Entries
<1>7. CASE UNCHANGED copy /\ UNCHANGED todo /\ (UNCHANGED call \/ call' = NoIsoCall)
  BY <1>1, <1>2, <1>3, <1>5, <1>6, <1>7 DEF Copying, InFolders, NoIsoCall
<1>8. CASE next \in DOMAIN Copies /\ BeginFolder(Copies[next].from, Copies[next].to) /\ UNCHANGED pc
  <2>1. NotInTmp(Copies[next].to)
    BY <1>8, SettingsAre
  <2>2. Copying'
    BY <1>1, <1>8 DEF BeginFolder, Copying
  <2>3. InFolders'
    BY <1>1, <1>6, <1>8, <2>1 DEF BeginFolder, InFolders
  <2> QED  BY <1>2, <1>3, <1>5, <2>2, <2>3
<1>9. CASE next \in DOMAIN Copies /\ ExtractFile(Copies[next].from, Copies[next].to) /\ UNCHANGED pc
  <2>1. NotInTmp(Copies[next].to)
    BY <1>9, SettingsAre
  <2>2. Copies[next].to \notin {TmpWim, Software}
    BY <2>1 DEF NotInTmp, TmpWim, Software
  <2>3. Copying' /\ InFolders'
    BY <1>1, <1>6, <1>9, <2>2 DEF ExtractFile, Running, Copying, InFolders
  <2> QED  BY <1>2, <1>3, <1>5, <2>3
<1> QED
  BY <1>7, <1>8, <1>9 DEF MakeFourth, isoVars

-----------------------------------------------------------------------------
(* A loop starts with its first command.                                   *)
LEMMA NextCounting == Counting /\ [Next]_vars => Counting'
<1> SUFFICES ASSUME Counting, [Next]_vars
             PROVE  Counting'
  OBVIOUS
<1> USE DEF Counting
<1>1. CASE CheckFirst \/ CheckSecond \/ CheckThird \/ CheckFourth \/ CheckSixth \/ CheckEnd
  BY <1>1 DEF CheckFirst, CheckSecond, CheckThird, CheckFourth, CheckSixth, CheckEnd, ExtractAll,
              At, NextStep
<1>2. CASE MakeEntry \/ Cancelled \/ MakeFirst \/ MakeEnd
  BY <1>2 DEF MakeEntry, Cancelled, MakeFirst, MakeEnd, Enter, At, MakeStep, Steps
<1>3. CASE MakeSecond \/ MakeThird \/ MakeFourth \/ MakeFifth
  BY <1>3 DEF MakeSecond, MakeThird, MakeFourth, MakeFifth, ExtractAll, Enter, At, MakeStep
<1>4. CASE Dies \/ Calls \/ Cancel \/ UNCHANGED vars
  BY <1>4 DEF Dies, Calls, Cancel, vars
<1> QED
  BY <1>1, <1>2, <1>3, <1>4 DEF Next, Worker, Over

(* The calls of the registry, and what changes only the position.          *)
LEMMA OtherFiles ==
  ASSUME FilesInv, LateInv,
         \/ RegStep /\ UNCHANGED <<isoVars, diskVars, cancel, seen, wimVars, pc, next>>
         \/ Dies \/ Cancel \/ UNCHANGED vars
  PROVE  FilesInv'
<1> USE DEF FilesInv
<1>1. /\ UNCHANGED <<isoVars, diskVars, wimVars, next>>
      /\ UNCHANGED pc \/ (pc' = "over" /\ pc \in {"make.fourth", "over"})
  BY DEF Dies, Cancel, vars, others, InFolders
<1>2. cancel' \in BOOLEAN /\ UNCHANGED seen
  BY DEF Dies, Cancel, vars, Flags
<1>3. Listed' /\ OnDisk' /\ UNCHANGED TmpFile
  BY <1>1, ListedKept, OnDiskKept, TmpFileKept DEF isoVars, diskVars
<1>4. Copying'
  BY <1>1 DEF Copying, isoVars, diskVars
<1>5. InThird' /\ Asked' /\ Images'
  BY <1>1, <1>3 DEF InThird, BeforeThird, Asked, Images, wimVars, ExtractTo, diskVars
<1>6. {privileged', loaded', data'} \subseteq BOOLEAN /\ keys' \subseteq {"parent", "hive"}
  <2>1. CASE UNCHANGED regVars
    BY <2>1 DEF regVars, Flags
  <2>2. CASE RegStep
    BY <2>2 DEF RegStep, OpenParent, LoadKey, OpenHive, LoadFailed, LoadFails, GetStringValue,
                SetStringValue, Unload, Flags
  <2> QED  BY <2>1, <2>2 DEF Dies, Cancel, vars, others
<1>7. Flags'
  BY <1>2, <1>6 DEF Flags
<1>8. InFolders'
  BY <1>1 DEF InFolders, isoVars, Entries, Dies, Cancel, vars
<1> QED
  BY <1>3, <1>4, <1>5, <1>7, <1>8

(* Every step of the two workers, of the page and of the calls.            *)
LEMMA NextFilesInv == FilesInv /\ LateInv /\ Counting /\ [Next]_vars => FilesInv'
<1> SUFFICES ASSUME FilesInv, LateInv, Counting, [Next]_vars
             PROVE  FilesInv'
  OBVIOUS
<1>1. CASE CheckFirst \/ CheckSecond \/ CheckThird \/ CheckFourth \/ CheckSixth \/ CheckEnd
  BY <1>1, CheckFirstFiles, CheckSecondFiles, CheckThirdFiles, CheckRestFiles
<1>2. CASE MakeEntry \/ Cancelled \/ MakeFirst \/ MakeEnd
  BY <1>2, MakeQuietFiles
<1>3. CASE MakeSecond \/ MakeThird \/ MakeFourth \/ MakeFifth
  BY <1>3, MakeWimFiles, MakeFourthFiles
<1>4. CASE IsoStep /\ UNCHANGED <<cancel, wimVars, regVars, pc, next>>
  BY <1>4, CopyFiles, FolderFiles DEF IsoStep
<1>5. CASE WimStep /\ UNCHANGED <<isoVars, cancel, regVars, pc, next>>
  BY <1>5, WimOpenFiles, WimReadFiles, WimWriteFiles, WimExtractFiles DEF WimStep
<1>6. CASE \/ RegStep /\ UNCHANGED <<isoVars, diskVars, cancel, seen, late, wimVars, pc, next>>
           \/ Dies \/ Cancel \/ UNCHANGED vars
  BY <1>6, OtherFiles
<1> QED
  BY <1>1, <1>2, <1>3, <1>4, <1>5, <1>6 DEF Next, Worker, Calls, Over

(* The invariant of the specification.                                     *)
LEMMA FilesInvHolds == Spec => [](FilesInv /\ LateInv)
<1>1. Init => Counting
  BY DEF Init, Counting
<1> QED
  BY <1>1, InitFilesInv, InitLateInv, NextFilesInv, NextLateInv, NextCounting, PTL DEF Spec

(* Every variable of the workers' calls stays in its range: what a block   *)
(* was written of is less what is missing, each file is in a folder that   *)
(* was made, and the number of the image is the number of a name.          *)
THEOREM CallsTyped == Spec => []TypeOK
<1>1. FilesInv => TypeOK
  <2> SUFFICES ASSUME FilesInv PROVE TypeOK
    OBVIOUS
  <2>1. Range(list) \subseteq Range(Entries)
    BY DEF FilesInv, Listed, Range
  <2> QED
    BY <2>1 DEF TypeOK, FilesInv, Listed, Copying, OnDisk, InFolders, Images, Flags
<1> QED
  BY <1>1, FilesInvHolds, PTL

(* Whatever folders the list misses and whichever extractor is at work, a  *)
(* file that FileExists finds is found when it is opened.                  *)
THEOREM ListedIsFound == Spec => []ListedCanBeOpened
<1>1. FilesInv => ListedCanBeOpened
  <2> SUFFICES ASSUME FilesInv, FileExists(copy.from), ~list[Upper(copy.from)].dir
               PROVE  Target(copy.from) # {}
    BY DEF ListedCanBeOpened
  <2> DEFINE found == list[Upper(copy.from)]
  <2>1. found \in Range(Entries) /\ found \in Range(list)
    BY DEF FilesInv, Listed, FileExists, Range
  <2>2. CASE extractor = "UDF"
    BY <2>1, <2>2 DEF Target, UdfTarget, CorrectName
  <2>3. CASE extractor # "UDF"
    BY <2>1, <2>3 DEF Target, Iso9660Target
  <2> QED  BY <2>2, <2>3
<1> QED
  BY <1>1, FilesInvHolds, PTL

(* GetPEImageNumber gives the only image, or the first with the name.      *)
LEMMA PEImageNumberFirst ==
  ASSUME NEW images \in Seq(STRING), PEImageNumber(images) # 0
  PROVE  \/ Len(images) = 1 /\ PEImageNumber(images) = 1
         \/ /\ images[PEImageNumber(images)] \in PENames
            /\ \A i \in 1 .. PEImageNumber(images) - 1 : images[i] \notin PENames
<1> DEFINE found == {i \in DOMAIN images : images[i] \in PENames}
<1>1. Len(images) \in Nat /\ DOMAIN images = 1 .. Len(images)
  BY LenProperties
<1>2. CASE Len(images) = 1
  BY <1>2 DEF PEImageNumber
<1>3. CASE Len(images) # 1
  <2>1. found # {} /\ PEImageNumber(images) = Min(found)
    BY <1>3 DEF PEImageNumber
  <2>2. Min(found) \in found /\ \A i \in found : Min(found) <= i
    <3>1. found \in SUBSET Nat /\ found # {}
      BY <1>1, <2>1
    <3> HIDE DEF found
    <3> QED  BY <3>1, MinIsIn
  <2>3. \A i \in 1 .. Min(found) - 1 : i \notin found /\ i \in DOMAIN images
    <3>1. Min(found) \in 1 .. Len(images)
      BY <1>1, <2>2
    <3>2. \A i \in 1 .. Min(found) - 1 : i \in DOMAIN images /\ ~(Min(found) <= i)
      BY <1>1, <3>1
    <3> QED  BY <2>2, <3>2
  <2> QED  BY <2>1, <2>2, <2>3
<1> QED
  BY <1>2, <1>3

(* Through three calls of THIRD_STEP, and in spite of all that is written  *)
(* and failed after, image 1 of a wim that can be opened is the PE image.  *)
THEOREM ExportedIsThePE == Spec => []ExportedIsPE
<1>1. FilesInv => ExportedIsPE
  <2> SUFFICES ASSUME FilesInv, pe.state = "whole" PROVE ExportedIsPE
    BY DEF ExportedIsPE
  <2> DEFINE all == disc.images[local[TmpWim].of]
  <2>1. /\ TmpFile.state = "whole" /\ pe.from = PEImageNumber(TmpFile.images)
        /\ pe.from # 0 /\ pe.images = <<TmpFile.images[pe.from]>>
    BY DEF FilesInv, Images
  <2>2. TmpFile = Installer(all)
    BY <2>1 DEF TmpFile, NoFile, Damaged
  <2>3. TmpFile.images = all
    BY <2>2 DEF Installer
  <2>4. all \in Seq(STRING)
    BY <2>3, TmpFileTyped DEF FilesInv, Listed
  <2> QED  BY <2>1, <2>3, <2>4, PEImageNumberFirst DEF ExportedIsPE
<1> QED
  BY <1>1, FilesInvHolds, PTL

-----------------------------------------------------------------------------
(***************************************************************************)
(* The two workers, call by call, do what CheckISOImage and MakePEImage    *)
(* take each of their labelled steps to do; and what FIFTH_STEP leaves in  *)
(* the image.                                                              *)
(***************************************************************************)

(***************************************************************************)
(* Where the workers are, and what they have seen of the request: once it  *)
(* is seen, no call that the step still waits for can succeed.             *)
(***************************************************************************)
Position ==
  /\ pc = "check.second" => next \in {1, 2}
  /\ pc = "check.second" /\ next = 1 => call.result # "INITIAL"
  /\ pc = "check.third" => next > 0
  /\ pc = "make.third" => next \in {0, 1, 2}
  /\ pc = "make.fifth" => next \in {0, 1}

Asking == pc = "check.third" \/ (pc \in {"make.third", "make.fifth"} /\ next > 0)

Failing ==
  /\ wcall.op \in {"Export", "Update"}
  /\ wcall.at \in {"END", "done"} /\ wcall.result = "WIMFILE_WRITE_ERROR"

Seen ==
  /\ seen => cancel
  /\ (pc = "check.first" \/ (pc = "check.second" /\ next = 1)) => ~seen
  /\ pc = "make.second" /\ next > 0 => ~seen
  /\ Asking /\ seen => Failing

(***************************************************************************)
(* SECOND_STEP of CheckISOImage: what its result says of tmp/boot.wim.     *)
(***************************************************************************)
Waiting ==
  /\ call.kind = "file"
  /\ copy.at # "none" => copy.to = TmpWim /\ ~seen
  /\ copy.at = "open" => TmpWim \notin DOMAIN local
  /\ call.result = "SUCCESS" => TmpWim \in DOMAIN local /\ local[TmpWim].missing = 0 /\ ~seen
  /\ call.result \notin {"SUCCESS", "INITIAL"} /\ TmpWim \in DOMAIN local =>
       local[TmpWim].missing > 0

Extracting ==
  /\ (pc = "check.first" \/ (pc = "check.second" /\ next = 1)) => TmpWim \notin DOMAIN local
  /\ pc = "check.second" /\ next = 2 => Waiting

(***************************************************************************)
(* tmp/SOFTWARE comes from SECOND_STEP of MakePEImage, out of the image.   *)
(***************************************************************************)
BeforeSoftware ==
  \/ pc \in {"check.first", "check.second", "check.third", "check.fourth", "check.sixth",
             "check.end", "exit", "make.first"}
  \/ pc = "make.second" /\ next = 0

Taken ==
  /\ wcall.op = "Extract" /\ wcall.at # "done" =>
       \/ pc = "check.fourth" /\ wcall.arg \in Range(CheckExtracts)
       \/ pc = "make.second" /\ next > 0
  /\ wcall.op = "Extract" /\ wcall.at \in {"resolve", "extract", "rename"} => pe.state = "whole"
  /\ BeforeSoftware => Software \notin DOMAIN local
  /\ pc = "make.second" /\ Software \in DOMAIN local => pe.state = "whole"

(***************************************************************************)
(* media's boot.wim while it is written: whole before an update and after  *)
(* one that succeeds, and not before an export has succeeded.              *)
(***************************************************************************)
InUpdate == (pc = "make.third" /\ next = 2) \/ (pc = "make.fifth" /\ next = 1)

Over1 == wcall.at \in {"END", "done"}

Updating ==
  /\ wcall.op = "Update" <=> InUpdate
  /\ ~Over1 => wcall.result = "SUCCESS"
  /\ wcall.op = "Update" /\ wcall.at # "open" /\ wcall.result = "SUCCESS" => pe.state = "whole"
  /\ pc = "check.third" /\ pe.state = "whole" =>
       wcall.op = "Export" /\ Over1 /\ wcall.result = "SUCCESS"

(* The hive is in use during THIRD_STEP only, and only with tmp/SOFTWARE.  *)
Loading ==
  /\ reg \in {"done", "parent", "load", "open", "loaded", "set", "changed", "unload", "update",
              "failed"}
  /\ reg # "done" => pc = "make.third" /\ next = 1 /\ Software \in DOMAIN local
  /\ reg = "open" => loaded

StepInv == Position /\ Seen /\ Extracting /\ Taken /\ Updating /\ Loading

(* All that is known between two steps.                                    *)
Inv == FilesInv /\ LateInv /\ Counting /\ StepInv

-----------------------------------------------------------------------------
(* Between the calls of a worker everything is at rest.                    *)
LEMMA AtIs ==
  ASSUME Inv, NEW label, At(label)
  PROVE  /\ pc = label /\ copy.at = "none" /\ call.result \notin {"INITIAL", "CRASH"}
         /\ wcall.at = "done" /\ reg = "done" /\ next \in Nat
  BY DEF At, AtRest, Idle, WimIdle, RegIdle, Inv, LateInv, OneCall, Counting

(* Which step waits for the call of wimlib that is in progress.            *)
LEMMA CallPlace ==
  ASSUME Inv, wcall.at # "done"
  PROVE  /\ wcall.op \in {"GetNameInformations", "GetPEImageNumber", "Export"} =>
              pc = "check.third" /\ next > 1
         /\ wcall.op = "Update" <=> InUpdate
         /\ wcall.op = "Extract" =>
              \/ pc = "check.fourth" /\ wcall.arg \in Range(CheckExtracts)
              \/ pc = "make.second" /\ next > 0
         /\ wcall.op \in {"GetNameInformations", "GetPEImageNumber", "Export", "Update", "Extract"}
<1>1. wcall.op # "none" /\ wcall.op \in
        {"none", "GetNameInformations", "GetPEImageNumber", "Export", "Update", "Extract"}
  BY DEF Inv, FilesInv, Asked
<1>2. pc = "check.third" => next > 0 /\ next # 1 /\ next \in Nat
  BY <1>1 DEF Inv, FilesInv, InThird, BeforeThird, StepInv, Position, Counting
<1> QED
  BY <1>1, <1>2 DEF Inv, FilesInv, InThird, StepInv, Taken, Updating

(* What a file taken for the check is not.                                 *)
LEMMA SoftwareIsNotChecked ==
  ASSUME NEW cmd \in Range(CheckExtracts)
  PROVE  cmd.to # Software /\ FileOf(cmd) # Software
  BY SettingsAssumption

(* What a step of wimlib does to the files.                                *)
LEMMA WimLocal ==
  ASSUME Inv, WimStep, UNCHANGED <<isoVars, cancel, regVars, pc, next>>
  PROVE  \/ UNCHANGED local
         \/ /\ wcall.op = "Extract" /\ pe.state = "whole"
            /\ TmpWim \in DOMAIN local <=> TmpWim \in DOMAIN local'
            /\ TmpWim \in DOMAIN local => local'[TmpWim] = local[TmpWim]
            /\ pc = "check.fourth" => (Software \in DOMAIN local <=> Software \in DOMAIN local')
<1>1. CASE ~Extract
  BY <1>1 DEF WimStep, MakeFolder, Open, GetNameInformations, GetPEImageNumber, Export, Update,
              WriteProgress, WritePart, Free, diskVars
<1>2. CASE Extract
  <2>1. wcall.op = "Extract" /\ wcall.at \in {"resolve", "extract", "rename"}
    BY <1>2 DEF Extract, Doing
  <2>2. pe.state = "whole" /\ wcall.arg \in Settings
    BY <2>1 DEF Inv, StepInv, Taken, FilesInv, Asked
  <2>3. wcall.arg.to # TmpWim /\ Extracted # TmpWim
    BY <2>2, SettingsAre DEF Extracted
  <2>4. pc = "check.fourth" => wcall.arg.to # Software /\ Extracted # Software
    BY <2>1, CallPlace, SoftwareIsNotChecked DEF Extracted
  <2>5. CASE UNCHANGED local
    BY <2>5
  <2>6. CASE local' = With(Extracted, [of |-> wcall.arg.from, missing |-> 0])
    BY <2>1, <2>2, <2>3, <2>4, <2>6 DEF With
  <2>7. CASE /\ Extracted \in DOMAIN local
             /\ local' = [f \in (DOMAIN local \ {Extracted}) \cup {wcall.arg.to} |->
                            IF f = wcall.arg.to THEN local[Extracted] ELSE local[f]]
    BY <2>1, <2>2, <2>3, <2>4, <2>7
  <2> QED  BY <1>2, <2>5, <2>6, <2>7 DEF Extract
<1> QED
  BY <1>1, <1>2

(* What a step of wimlib does to the call, to what was seen and to media's *)
(* boot.wim.                                                               *)
LEMMA WimCall ==
  ASSUME Inv, WimStep, UNCHANGED <<isoVars, cancel, regVars, pc, next>>
  PROVE  /\ wcall.at # "done"
         /\ \/ wcall.op = "Extract" /\ wcall.at = "END" /\ wcall' = NoCall
            \/ /\ wcall'.op = wcall.op /\ wcall'.arg = wcall.arg
               /\ wcall'.at \notin {"END", "done"} => wcall'.result = "SUCCESS"
               /\ wcall.at = "END" => wcall'.at = "done" /\ wcall'.result = wcall.result
               /\ wcall.at = "open" => Opened.state = "whole" \/ wcall'.result # "SUCCESS"
               /\ wcall'.at = "open" => wcall.at = "mkdir"
               /\ wcall'.result = "WIMFILE_WRITE_ERROR" => wcall.at \in {"progress", "write", "END"}
               /\ wcall.op = "Extract" /\ wcall'.at \in {"resolve", "extract", "rename"} =>
                    wcall.at \in {"open", "resolve", "extract"}
         /\ \/ UNCHANGED <<pe, seen>>
            \/ wcall.at = "progress" /\ cancel /\ seen' /\ wcall'.at = "END"
                 /\ wcall'.result = "WIMFILE_WRITE_ERROR" /\ pe' \in {pe, Damaged}
            \/ wcall.at = "progress" /\ ~cancel /\ ~seen' /\ UNCHANGED pe
            \/ /\ wcall.at = "write" /\ UNCHANGED seen /\ wcall'.at = "END"
               /\ \/ wcall'.result = "WIMFILE_WRITE_ERROR" /\ pe' \in {pe, Damaged}
                  \/ wcall'.result = "SUCCESS" /\ pe' = NewFile
<1> USE DEF Inv
<1>1. /\ {"at", "result", "op", "arg"} \subseteq DOMAIN wcall
      /\ wcall.at # "done" /\ cancel \in BOOLEAN
  BY WimFrame DEF FilesInv, Flags
<1>2. wcall.at # "END" => wcall.result = "SUCCESS"
  BY <1>1 DEF StepInv, Updating, Over1
<1>3. CASE MakeFolder
  BY <1>1, <1>2, <1>3 DEF MakeFolder, Goto
<1>4. CASE Open
  BY <1>1, <1>2, <1>4 DEF Open, Leave
<1>5. CASE GetNameInformations \/ GetPEImageNumber
  BY <1>1, <1>2, <1>5 DEF GetNameInformations, GetPEImageNumber, Doing, Leave
<1>6. CASE Export
  BY <1>1, <1>2, <1>6 DEF Export, Doing, Leave, Resolve, Goto
<1>7. CASE Update
  BY <1>1, <1>2, <1>7 DEF Update, Doing, Leave
<1>8. CASE WriteProgress
  BY <1>1, <1>2, <1>8 DEF WriteProgress, WriteFails, Look, Leave, Goto
<1>9. CASE WritePart
  BY <1>1, <1>2, <1>9 DEF WritePart, WriteFails, Leave
<1>10. CASE Extract
  BY <1>1, <1>2, <1>10 DEF Extract, Doing, Leave, Resolve, Goto
<1>11. CASE Free
  BY <1>1, <1>2, <1>11 DEF Free
<1> QED
  BY <1>3, <1>4, <1>5, <1>6, <1>7, <1>8, <1>9, <1>10, <1>11 DEF WimStep

-----------------------------------------------------------------------------
(* Before the first step.                                                  *)
LEMMA InitStepInv == Init => StepInv
<1> SUFFICES ASSUME Init PROVE StepInv
  OBVIOUS
<1> USE DEF Init, IsoInit, WimInit, RegInit
<1>1. Position /\ Seen
  BY DEF Position, Seen, Asking
<1>2. Extracting /\ Taken
  BY DEF Extracting, Taken, NoCall
<1>3. Updating /\ Loading
  BY DEF Updating, Loading, InUpdate, NoCall, NoFile
<1> QED
  BY <1>1, <1>2, <1>3 DEF StepInv

(* Which step waits for the call of the extractor that is in progress.     *)
LEMMA IsoPlace ==
  ASSUME Inv, IsoStep, UNCHANGED <<cancel, wimVars, regVars, pc, next>>
  PROVE  /\ call.result = "INITIAL"
         /\ pc = "make.fourth" \/ (pc = "check.second" /\ next = 2 /\ Waiting)
         /\ wcall.at = "done" /\ UNCHANGED extractor
<1>1. call.result = "INITIAL"
  BY DEF IsoStep, CopyOpen, CopyLook, CopyBlock, CopyDone, UdfSubfolder, Iso9660Subfolder,
         Subfolder, Subfile, FolderDone, InFolder, Idle, Inv, LateInv, OneCall
<1>2. UNCHANGED extractor
  BY DEF IsoStep, CopyOpen, CopyLook, CopyBlock, CopyDone, UdfSubfolder, Iso9660Subfolder,
         Subfolder, Subfile, FolderDone
<1> QED
  BY <1>1, <1>2 DEF Inv, LateInv, OneCall, StepInv, Position, Extracting

(* What a step of the extractor does to the files.                         *)
LEMMA IsoLocal ==
  ASSUME Inv, IsoStep, UNCHANGED <<cancel, wimVars, regVars, pc, next>>
  PROVE  /\ Software \in DOMAIN local <=> Software \in DOMAIN local'
         /\ pc = "make.fourth" =>
              /\ TmpWim \in DOMAIN local <=> TmpWim \in DOMAIN local'
              /\ TmpWim \in DOMAIN local => local'[TmpWim] = local[TmpWim]
<1>1. CASE UNCHANGED local
  BY <1>1
<1>2. ASSUME copy.at # "none"
      PROVE  copy.to # Software /\ (pc = "make.fourth" => copy.to # TmpWim)
  <2>1. Software # TmpWim
    BY DEF Software, TmpWim
  <2> QED  BY <1>2, <2>1, IsoPlace DEF Inv, FilesInv, Copying, Waiting
<1>3. CASE copy.at # "none" /\ \E file : local' = With(copy.to, file)
  BY <1>2, <1>3 DEF With
<1>4. CASE copy.at # "none" /\ Written
  BY <1>2, <1>4 DEF Written
<1> QED
  BY <1>1, <1>3, <1>4
     DEF IsoStep, CopyOpen, CopyLook, CopyBlock, CopyDone, UdfSubfolder, Iso9660Subfolder,
         Subfolder, Subfile, FolderDone, diskVars

(* Only the look of a copy sees the request.                               *)
LEMMA IsoSeen ==
  ASSUME IsoStep
  PROVE  UNCHANGED seen \/ (CopyLook /\ seen' = cancel)
  BY DEF IsoStep, CopyOpen, CopyLook, CopyBlock, CopyDone, UdfSubfolder, Iso9660Subfolder,
         Subfolder, Subfile, FolderDone, Look

(* The copy SECOND_STEP of CheckISOImage waits for.                        *)
LEMMA CopyWaiting ==
  ASSUME Inv, IsoStep, UNCHANGED <<cancel, wimVars, regVars, pc, next>>, pc = "check.second"
  PROVE  Waiting'
<1>1. Waiting /\ call.result = "INITIAL" /\ call.kind = "file"
  BY IsoPlace DEF Waiting
<1>2. /\ {"to", "left", "at"} \subseteq DOMAIN copy /\ {"kind", "result"} \subseteq DOMAIN call
      /\ copy.left \in Nat /\ cancel \in BOOLEAN
  BY DEF Inv, FilesInv, Copying, Flags, LateInv, Fields
<1>3. CopyOpen \/ CopyLook \/ CopyBlock \/ CopyDone
  BY <1>1 DEF IsoStep, UdfSubfolder, Iso9660Subfolder, Subfolder, Subfile, FolderDone, InFolder
<1>4. copy.at # "none" /\ copy.to = TmpWim /\ ~seen
  BY <1>1, <1>3 DEF Waiting, CopyOpen, CopyLook, CopyBlock, CopyDone
<1>5. copy.at \in {"look", "block"} => TmpWim \in DOMAIN local /\ local[TmpWim].missing = copy.left
  BY <1>4 DEF Inv, FilesInv, Copying
<1>6. ASSUME NEW result, EndFile(result), UNCHANGED local, result # "INITIAL",
             result = "SUCCESS" => TmpWim \in DOMAIN local /\ local[TmpWim].missing = 0 /\ ~seen',
             result # "SUCCESS" /\ TmpWim \in DOMAIN local => local[TmpWim].missing > 0
      PROVE  Waiting'
  <2>1. copy'.at = "none" /\ call'.kind = "file" /\ call'.result = result
    BY <1>1, <1>2, <1>6 DEF EndFile, NoCopy
  <2> QED  BY <1>6, <2>1 DEF Waiting
<1>7. CASE CopyOpen
  <2>1. TmpWim \notin DOMAIN local
    BY <1>1, <1>7 DEF CopyOpen, Waiting
  <2>2. CASE UNCHANGED local /\ \E error \in {"TARGETFILE_OPEN_ERROR", "WRITEFILE_OPEN_ERROR"} :
                                  EndFile(error)
    BY <1>6, <2>1, <2>2
  <2>3. CASE UNCHANGED call /\ \E n : copy' = [copy EXCEPT !.left = n, !.at = "look"]
    <3>1. copy'.at = "look" /\ copy'.to = TmpWim
      BY <1>2, <1>4, <2>3
    <3> QED  BY <1>1, <1>4, <1>7, <2>3, <3>1 DEF Waiting, CopyOpen
  <2> QED  BY <1>7, <2>2, <2>3 DEF CopyOpen
<1>8. CASE CopyLook
  <2>1. UNCHANGED local /\ copy.left > 0 /\ seen' = cancel
    BY <1>8 DEF CopyLook, Look
  <2>2. CASE cancel
    BY <1>2, <1>5, <1>6, <1>8, <2>1, <2>2 DEF CopyLook
  <2>3. CASE ~cancel
    <3>1. copy'.at = "block" /\ copy'.to = TmpWim /\ UNCHANGED call /\ ~seen'
      BY <1>2, <1>4, <1>8, <2>1, <2>3 DEF CopyLook
    <3> QED  BY <1>1, <3>1 DEF Waiting
  <2> QED  BY <1>2, <2>2, <2>3
<1>9. CASE CopyBlock
  <2>1. copy.left > 0 /\ UNCHANGED seen
    BY <1>9 DEF CopyBlock, Inv, FilesInv, Copying
  <2>2. CASE \E error \in {"TARGETFILE_READ_ERROR", "WRITEFILE_WRITE_ERROR"} :
               EndFile(error) /\ UNCHANGED local
    BY <1>2, <1>5, <1>6, <1>9, <2>1, <2>2 DEF CopyBlock
  <2>3. CASE UNCHANGED call /\ copy' = [copy EXCEPT !.left = @ - 1, !.at = "look"]
    <3>1. copy'.at = "look" /\ copy'.to = TmpWim
      BY <1>2, <1>4, <2>3
    <3> QED  BY <1>1, <1>4, <2>1, <2>3, <3>1 DEF Waiting
  <2> QED  BY <1>9, <2>2, <2>3 DEF CopyBlock
<1>10. CASE CopyDone
  <2>1. UNCHANGED <<local, seen>> /\ copy.left = 0 /\ EndFile("SUCCESS") /\ copy.at = "look"
    BY <1>10 DEF CopyDone, diskVars
  <2> QED  BY <1>4, <1>5, <1>6, <2>1
<1> QED
  BY <1>3, <1>7, <1>8, <1>9, <1>10

(* A step inside a call of the extractor.                                  *)
LEMMA IsoStepInv ==
  ASSUME Inv, IsoStep, UNCHANGED <<cancel, wimVars, regVars, pc, next>>
  PROVE  StepInv'
<1>1. pc = "make.fourth" \/ (pc = "check.second" /\ next = 2)
  BY IsoPlace
<1>2. Position' /\ Extracting'
  BY <1>1, CopyWaiting DEF Position, Extracting
<1>3. Seen'
  <2>1. seen' => cancel
    BY IsoSeen DEF Inv, StepInv, Seen
  <2> QED  BY <1>1, <2>1 DEF Seen, Asking
<1>4. Taken'
  BY <1>1, IsoLocal, IsoPlace DEF Inv, StepInv, Taken, BeforeSoftware, wimVars
<1>5. Updating'
  BY DEF Inv, StepInv, Updating, InUpdate, Over1, wimVars
<1>6. Loading'
  BY IsoLocal DEF Inv, StepInv, Loading, regVars
<1> QED
  BY <1>2, <1>3, <1>4, <1>5, <1>6 DEF StepInv

(* A step inside a call of wimlib.                                         *)
LEMMA WimStepInv ==
  ASSUME Inv, WimStep, UNCHANGED <<isoVars, cancel, regVars, pc, next>>
  PROVE  StepInv'
<1>1. /\ pc \in {"check.third", "check.fourth", "make.second", "make.third", "make.fifth"}
      /\ wcall.at # "done"
  BY CallPlace, WimCall DEF InUpdate
<1>2. Position' /\ Extracting'
  BY <1>1 DEF Inv, StepInv, Position, Extracting, isoVars
<1>3. \/ wcall.op = "Extract" /\ wcall.at = "END" /\ wcall' = NoCall
      \/ /\ wcall'.op = wcall.op /\ wcall'.arg = wcall.arg
         /\ wcall.at = "END" => wcall'.at = "done" /\ wcall'.result = wcall.result
  BY WimCall
<1>4. wcall.at \in {"progress", "write"} => wcall.op \in {"Export", "Update"}
  BY DEF Inv, FilesInv, Asked
<1>5. Seen'
  <2>1. seen' => cancel
    BY WimCall DEF Inv, StepInv, Seen
  <2>2. pc = "make.second" => UNCHANGED seen
    BY <1>1, <1>4, WimCall, CallPlace DEF InUpdate
  <2>3. ASSUME Asking, seen'
        PROVE  Failing'
    <3>1. CASE seen
      <4>1. Failing
        BY <2>3, <3>1 DEF Inv, StepInv, Seen
      <4>2. wcall.at = "END"
        BY <1>1, <4>1 DEF Failing
      <4> QED  BY <1>3, <4>1, <4>2 DEF Failing
    <3>2. CASE ~seen
      <4>1. wcall.at = "progress" /\ wcall'.at = "END" /\ wcall'.result = "WIMFILE_WRITE_ERROR"
        BY <2>3, <3>2, WimCall
      <4> QED  BY <1>3, <1>4, <4>1 DEF Failing
    <3> QED  BY <3>1, <3>2
  <2>4. UNCHANGED Asking
    BY DEF Asking
  <2> QED  BY <1>1, <2>1, <2>2, <2>3, <2>4 DEF Inv, StepInv, Seen
<1>6. Taken'
  <2>1. CASE wcall.op = "Extract"
    <3>1. UNCHANGED pe
      BY <1>4, <2>1, WimCall
    <3>2. wcall'.op = "Extract" /\ wcall'.at \in {"resolve", "extract", "rename"} => pe.state = "whole"
      <4>1. Opened = pe
        BY <2>1 DEF Opened, Inv, FilesInv, Asked
      <4>2. SUFFICES ASSUME wcall'.op = "Extract", wcall'.at \in {"resolve", "extract", "rename"}
                     PROVE  pe.state = "whole"
        OBVIOUS
      <4>3. CASE wcall.at = "open"
        BY <4>1, <4>2, <4>3, WimCall DEF NoCall
      <4>4. CASE wcall.at # "open"
        BY <2>1, <4>2, <4>4, WimCall DEF NoCall, Inv, StepInv, Taken
      <4> QED  BY <4>3, <4>4
    <3>3. BeforeSoftware => Software \notin DOMAIN local'
      BY <1>1, <2>1, WimLocal, CallPlace DEF Inv, StepInv, Taken, BeforeSoftware
    <3>4. pc = "make.second" /\ Software \in DOMAIN local' => pe.state = "whole"
      BY WimLocal DEF Inv, StepInv, Taken
    <3>5. wcall'.op = "Extract" => wcall'.arg = wcall.arg
      BY WimCall DEF NoCall
    <3>6. UNCHANGED BeforeSoftware
      BY DEF BeforeSoftware
    <3> QED  BY <1>1, <2>1, <3>1, <3>2, <3>3, <3>4, <3>5, <3>6, CallPlace DEF Taken
  <2>2. CASE wcall.op # "Extract"
    <3>1. UNCHANGED local /\ wcall'.op # "Extract" /\ pc \notin {"check.fourth", "make.second"}
      BY <1>1, <1>3, <2>2, WimLocal, CallPlace DEF InUpdate
    <3> QED  BY <3>1 DEF Inv, StepInv, Taken, BeforeSoftware
  <2> QED  BY <2>1, <2>2
<1>7. Updating'
  <2>1. (wcall.op = "Update" <=> wcall'.op = "Update") /\ UNCHANGED InUpdate
    BY <1>3 DEF NoCall, InUpdate
  <2>2. ~Over1' => wcall'.result = "SUCCESS"
    BY WimCall DEF Over1, NoCall
  <2>3. wcall'.op = "Update" /\ wcall'.at # "open" /\ wcall'.result = "SUCCESS" => pe'.state = "whole"
    <3> SUFFICES ASSUME wcall'.op = "Update", wcall'.at # "open", wcall'.result = "SUCCESS"
                 PROVE  pe'.state = "whole"
      OBVIOUS
    <3>1. wcall.op = "Update" /\ Opened = pe
      BY <2>1 DEF Opened, Inv, FilesInv, Asked
    <3>2. wcall.at = "open" \/ pe.state = "whole"
      BY <1>1, <1>3, <3>1 DEF Inv, StepInv, Updating, Over1
    <3>3. pe.state = "whole"
      BY <3>1, <3>2, WimCall
    <3>4. NewFile.state = "whole"
      BY <3>1, <3>3 DEF NewFile, Inv, FilesInv, Images, NoFile
    <3>5. pe' \in {pe, NewFile}
      BY WimCall
    <3> QED  BY <3>3, <3>4, <3>5
  <2>4. pc = "check.third" /\ pe'.state = "whole" =>
          wcall'.op = "Export" /\ Over1' /\ wcall'.result = "SUCCESS"
    <3> SUFFICES ASSUME pc = "check.third", pe'.state = "whole"
                 PROVE  wcall'.op = "Export" /\ Over1' /\ wcall'.result = "SUCCESS"
      OBVIOUS
    <3>1. CASE pe.state = "whole"
      <4>1. wcall.op = "Export" /\ Over1 /\ wcall.result = "SUCCESS"
        BY <3>1 DEF Inv, StepInv, Updating
      <4> QED  BY <1>1, <1>3, <4>1 DEF Over1
    <3>2. CASE pe.state # "whole"
      <4>1. Damaged.state # "whole"
        BY DEF Damaged, NoFile
      <4>2. wcall.at = "write" /\ wcall'.at = "END" /\ wcall'.result = "SUCCESS"
        BY <3>2, <4>1, WimCall
      <4> QED  BY <1>3, <1>4, <4>2 DEF Over1, Inv, StepInv, Updating, InUpdate
    <3> QED  BY <3>1, <3>2
  <2>5. Updating /\ UNCHANGED pc
    BY DEF Inv, StepInv
  <2> QED  BY <2>1, <2>2, <2>3, <2>4, <2>5 DEF Updating
<1>8. Loading'
  <2>1. pc = "make.third" => UNCHANGED local
    BY <1>1, WimLocal, CallPlace
  <2> QED  BY <2>1 DEF Inv, StepInv, Loading, regVars
<1> QED
  BY <1>2, <1>5, <1>6, <1>7, <1>8 DEF StepInv

(* A step of the registry.                                                 *)
LEMMA RegStepInv ==
  ASSUME Inv, RegStep, UNCHANGED <<isoVars, diskVars, cancel, seen, late, wimVars, pc, next>>
  PROVE  StepInv'
<1>1. Position' /\ Seen' /\ Extracting' /\ Taken' /\ Updating'
  BY DEF Inv, StepInv, Position, Seen, Asking, Failing, Extracting, Waiting, Taken, BeforeSoftware,
         Updating, InUpdate, Over1, isoVars, diskVars, wimVars
<1>2. reg # "done"
  BY DEF RegStep, OpenParent, LoadKey, OpenHive, LoadFailed, GetStringValue, SetStringValue, Unload
<1>3. Loading'
  BY <1>2 DEF Inv, StepInv, Loading, RegStep, OpenParent, LoadKey, OpenHive, LoadFailed, LoadFails,
         GetStringValue, SetStringValue, Unload, diskVars
<1> QED
  BY <1>1, <1>3 DEF StepInv

-----------------------------------------------------------------------------
(* A step that begins one of Extract's calls, or none, where one may be.   *)
LEMMA ExtractStepInv ==
  ASSUME Inv, UNCHANGED <<isoVars, diskVars, cancel, seen, regVars, pe>>,
         wcall.at = "done", reg = "done",
         \/ UNCHANGED wcall
         \/ \E cmd : BeginWim("Extract", "pe", 1, cmd)
                       /\ (pc' = "check.fourth" => cmd \in Range(CheckExtracts)),
         \/ pc = "check.fourth" /\ pc' \in {"check.fourth", "check.sixth"}
         \/ pc = "make.second" /\ next > 0 /\ pc' = "make.second" /\ next' > 0
         \/ pc = "make.second" /\ pc' = "make.third" /\ next' = 0,
         pc' # pc => UNCHANGED wcall
  PROVE  StepInv'
<1>1. Position' /\ Seen' /\ Extracting'
  BY DEF Inv, StepInv, Position, Seen, Asking, Extracting, isoVars, diskVars
<1>5. Loading'
  BY DEF Loading, Inv, StepInv, regVars
<1>2. wcall.op # "Update" /\ pc # "check.third" /\ ~InUpdate'
  BY DEF Inv, StepInv, Updating, InUpdate
<1>3. CASE UNCHANGED wcall
  <2>1. Updating'
    BY <1>2, <1>3 DEF Inv, StepInv, Updating, Over1
  <2>2. Taken'
    BY <1>3 DEF Inv, StepInv, Taken, BeforeSoftware, diskVars
  <2> QED  BY <1>1, <2>1, <2>2, <1>5 DEF StepInv
<1>4. CASE \E cmd : BeginWim("Extract", "pe", 1, cmd)
                      /\ (pc' = "check.fourth" => cmd \in Range(CheckExtracts))
  <2>1. PICK cmd : BeginWim("Extract", "pe", 1, cmd)
                      /\ (pc' = "check.fourth" => cmd \in Range(CheckExtracts))
    BY <1>4
  <2>2. wcall'.op = "Extract" /\ wcall'.at = "mkdir" /\ wcall'.arg = cmd /\ wcall'.result = "SUCCESS"
    BY <2>1 DEF BeginWim, NoCall
  <2>3. Updating'
    BY <1>2, <2>2 DEF Updating, Over1
  <2>4. UNCHANGED pc
    BY <2>2
  <2>5. Taken'
    BY <2>1, <2>2, <2>4 DEF Inv, StepInv, Taken, BeforeSoftware, diskVars
  <2> QED  BY <1>1, <2>3, <2>5, <1>5 DEF StepInv
<1> QED
  BY <1>3, <1>4

(* CheckISOImage's steps.                                                  *)
LEMMA CheckStepInv ==
  ASSUME Inv, CheckFirst \/ CheckSecond \/ CheckThird \/ CheckFourth \/ CheckSixth \/ CheckEnd
  PROVE  StepInv'
<1>1. CASE CheckFirst
  <2>1. /\ pc = "check.first" /\ call.result # "INITIAL" /\ wcall.at = "done"
        /\ pc' \in {"check.second", "check.end"} /\ next' = 1
        /\ UNCHANGED <<call, copy, diskVars, cancel, seen, wimVars, regVars>>
    BY <1>1, AtIs DEF CheckFirst, NextStep
  <2>2. Position' /\ Seen' /\ Extracting'
    BY <2>1 DEF Inv, StepInv, Position, Seen, Asking, Extracting, diskVars
  <2>3. Taken' /\ Updating'
    BY <2>1 DEF Inv, StepInv, Taken, BeforeSoftware, Updating, InUpdate, Over1, diskVars, wimVars
  <2>4. Loading'
    BY <2>1 DEF Inv, StepInv, Loading, regVars
  <2> QED  BY <2>2, <2>3, <2>4 DEF StepInv
<1>2. CASE CheckSecond
  <2>1. /\ pc = "check.second" /\ call.result # "INITIAL" /\ wcall.at = "done" /\ copy.at = "none"
        /\ UNCHANGED <<diskVars, cancel, seen, wimVars, regVars>>
        /\ next \in {1, 2} /\ pc' \in {"check.second", "check.third", "check.sixth"}
    BY <1>2, AtIs DEF CheckSecond, NextStep, Inv, StepInv, Position
  <2>2. wcall.op = "none" /\ pe.state = "none" /\ Software \notin DOMAIN local
    BY <2>1 DEF Inv, FilesInv, InThird, BeforeThird, StepInv, Taken, BeforeSoftware
  <2>3. Taken' /\ Updating' /\ Loading'
    BY <2>1, <2>2 DEF Inv, StepInv, Taken, BeforeSoftware, Updating, InUpdate, Over1, Loading,
                      diskVars, wimVars, regVars
  <2>4. CASE next = 1 /\ ExtractFile(BootWim, TmpWim) /\ next' = 2 /\ UNCHANGED pc
    <3>1. Waiting'
      BY <2>1, <2>4 DEF ExtractFile, Running, Waiting, Inv, StepInv, Seen, Extracting, diskVars
    <3>2. Position' /\ Seen' /\ Extracting'
      BY <2>1, <2>4, <3>1 DEF Inv, StepInv, Position, Seen, Asking, Extracting
    <3> QED  BY <2>3, <3>2 DEF StepInv
  <2>5. CASE next = 2 /\ NextStep(IF call.result = "SUCCESS" THEN "check.third" ELSE "check.sixth")
    <3>1. next' = 1 /\ (pc' = "check.third" => ~seen) /\ pc' \in {"check.third", "check.sixth"}
      BY <2>1, <2>5 DEF NextStep, Inv, StepInv, Extracting, Waiting
    <3>2. Position' /\ Seen' /\ Extracting'
      BY <2>1, <3>1 DEF Inv, StepInv, Position, Seen, Asking, Extracting
    <3> QED  BY <2>3, <3>2 DEF StepInv
  <2> QED  BY <1>2, <2>4, <2>5 DEF CheckSecond
<1>3. CASE CheckThird
  <2>1. /\ pc = "check.third" /\ wcall.at = "done" /\ pc' \in {"check.third", "check.fourth"}
        /\ UNCHANGED <<isoVars, diskVars, cancel, seen, regVars, pe>> /\ next' > 0
    BY <1>3, AtIs DEF CheckThird, NextStep, BeginWim
  <2>2. Position' /\ Extracting'
    BY <2>1 DEF Position, Extracting
  <2>3. Software \notin DOMAIN local
    BY <2>1 DEF Inv, StepInv, Taken, BeforeSoftware
  <2>4. Loading'
    BY <2>1 DEF Inv, StepInv, Loading, regVars
  <2>5. CASE \E op \in {"GetNameInformations", "GetPEImageNumber", "Export"} : \E image :
               BeginWim(op, "tmp", image, <<>>) /\ (next = 1 \/ wcall.result = "SUCCESS")
               /\ next < 4 /\ UNCHANGED pc
    <3>1. pe.state # "whole" /\ ~seen
      <4>1. next \in {1, 2, 3}
        BY <2>1, <2>5 DEF Inv, StepInv, Position, Counting
      <4>2. wcall.op # "Export"
        BY <2>1, <4>1 DEF Inv, FilesInv, InThird, BeforeThird
      <4>3. wcall.op # "Update"
        BY <2>1 DEF Inv, StepInv, Updating, InUpdate
      <4> QED  BY <2>1, <4>2, <4>3 DEF Inv, StepInv, Seen, Asking, Failing, Updating
    <3>2. Seen'
      BY <2>1, <2>5, <3>1 DEF Inv, StepInv, Seen
    <3>3. Taken' /\ Updating'
      BY <2>1, <2>3, <2>5, <3>1 DEF BeginWim, NoCall, Taken, Updating, InUpdate, Over1, diskVars
    <3> QED  BY <2>2, <2>4, <3>2, <3>3 DEF StepInv
  <2>6. CASE pc' = "check.fourth" /\ wcall' = NoCall
    <3>1. Seen'
      BY <2>1, <2>6 DEF Inv, StepInv, Seen, Asking
    <3>2. Taken' /\ Updating'
      BY <2>1, <2>3, <2>6 DEF NoCall, Taken, Updating, InUpdate, Over1, diskVars
    <3> QED  BY <2>2, <2>4, <3>1, <3>2 DEF StepInv
  <2>7. \/ \E op \in {"GetNameInformations", "GetPEImageNumber", "Export"} : \E image :
               BeginWim(op, "tmp", image, <<>>) /\ (next = 1 \/ wcall.result = "SUCCESS")
               /\ next < 4 /\ UNCHANGED pc
        \/ pc' = "check.fourth" /\ wcall' = NoCall
    BY <1>3 DEF CheckThird, NextStep
  <2> QED  BY <2>5, <2>6, <2>7
<1>4. CASE CheckFourth
  <2>1. /\ pc = "check.fourth" /\ wcall.at = "done" /\ reg = "done" /\ next \in Nat \ {0}
        /\ UNCHANGED <<isoVars, diskVars, cancel, seen, regVars>>
    BY <1>4, AtIs DEF CheckFourth, Inv, Counting
  <2>2. next <= Len(CheckExtracts) => CheckExtracts[next] \in Range(CheckExtracts)
    <3>1. Len(CheckExtracts) \in Nat /\ DOMAIN CheckExtracts = 1 .. Len(CheckExtracts)
      BY SettingsAssumption, LenProperties
    <3> QED  BY <2>1, <3>1 DEF Range
  <2>3. CASE pc' = "check.fourth" /\ (UNCHANGED wimVars
               \/ \E cmd \in Range(CheckExtracts) : BeginWim("Extract", "pe", 1, cmd))
    BY <2>1, <2>3, ExtractStepInv DEF BeginWim, wimVars
  <2>4. CASE pc' = "check.sixth" /\ UNCHANGED wimVars
    BY <2>1, <2>4, ExtractStepInv DEF wimVars
  <2> QED  BY <1>4, <2>1, <2>2, <2>3, <2>4 DEF CheckFourth, ExtractAll, NextStep
<1>5. CASE CheckSixth \/ CheckEnd
  <2>1. /\ pc \in {"check.sixth", "check.end"} /\ wcall.at = "done" /\ reg = "done"
        /\ pc' \in {"check.end", "exit"}
        /\ UNCHANGED <<local, cancel, seen, wcall, pe, regVars>>
    BY <1>5, AtIs DEF CheckSixth, CheckEnd, NextStep, others, wimVars, diskVars
  <2>2. Position' /\ Seen' /\ Extracting'
    BY <2>1 DEF Inv, StepInv, Position, Seen, Asking, Extracting
  <2>3. Taken' /\ Updating' /\ Loading'
    BY <2>1 DEF Inv, StepInv, Taken, BeforeSoftware, Updating, InUpdate, Over1, Loading, regVars
  <2> QED  BY <2>2, <2>3 DEF StepInv
<1> QED
  BY <1>1, <1>2, <1>3, <1>4, <1>5

(* MakePEImage's steps that ask nobody, and what is no step.               *)
LEMMA OtherStepInv ==
  ASSUME Inv, \/ MakeEntry \/ Cancelled \/ MakeFirst \/ MakeEnd
              \/ Dies \/ Cancel \/ UNCHANGED vars
  PROVE  StepInv'
<1>1. CASE MakeEntry \/ Cancelled \/ MakeFirst \/ MakeEnd
  <2>1. /\ wcall.at = "done" /\ reg = "done" /\ next \in Nat
        /\ \/ pc = "exit" /\ pc' = "make.first" /\ ~seen'
           \/ pc \in Steps /\ next = 0 /\ pc' \in {pc, "make.end"} /\ cancel /\ UNCHANGED next
           \/ pc = "make.first" /\ pc' \in {"make.second", "make.end"} /\ ~seen'
           \/ pc \in {"make.sixth", "make.end"} /\ pc' = "over" /\ UNCHANGED seen
        /\ UNCHANGED <<local, wcall, pe, regVars>>
        /\ UNCHANGED cancel \/ ~seen'
        /\ pc' = "make.second" => next' = 0 \/ pc = "make.second"
    <3>1. CASE MakeEntry
      <4>1. pc = "exit" /\ pc' = "make.first" /\ ~seen' /\ UNCHANGED <<local, wcall, pe, regVars>>
        BY <3>1 DEF MakeEntry, others, wimVars, diskVars
      <4>2. wcall.at = "done" /\ reg = "done" /\ next \in Nat
        BY <4>1, CallPlace DEF InUpdate, Inv, StepInv, Loading, Counting
      <4> QED  BY <4>1, <4>2
    <3>2. CASE Cancelled
      BY <3>2, AtIs DEF Cancelled, Steps, others, wimVars, diskVars
    <3>3. CASE MakeFirst
      BY <3>3, AtIs DEF MakeFirst, Enter, MakeStep, Look, wimVars, diskVars
    <3>4. CASE MakeEnd
      BY <3>4, AtIs DEF MakeEnd, wimVars, diskVars
    <3> QED  BY <1>1, <3>1, <3>2, <3>3, <3>4
  <2>2. Position' /\ Extracting'
    BY <2>1 DEF Inv, StepInv, Position, Extracting, Steps
  <2>3. Seen'
    <3>1. seen' => cancel'
      <4>1. CASE Cancelled
        BY <2>1, <4>1 DEF Cancelled, Look, Inv, StepInv, Seen
      <4>2. CASE MakeEntry \/ MakeFirst
        BY <4>2 DEF MakeEntry, MakeFirst, Enter, Look
      <4>3. CASE MakeEnd
        BY <4>3 DEF MakeEnd, Inv, StepInv, Seen
      <4> QED  BY <1>1, <4>1, <4>2, <4>3
    <3> QED  BY <2>1, <3>1 DEF Seen, Asking, Steps
  <2>4. Taken'
    BY <2>1 DEF Inv, StepInv, Taken, BeforeSoftware, Steps
  <2>5. Updating'
    BY <2>1 DEF Inv, StepInv, Updating, InUpdate, Over1, Steps
  <2>6. Loading'
    BY <2>1 DEF Inv, StepInv, Loading, regVars
  <2> QED  BY <2>2, <2>3, <2>4, <2>5, <2>6 DEF StepInv
<1>2. CASE Dies
  <2>1. pc = "make.fourth" /\ pc' = "over" /\ UNCHANGED <<local, cancel, seen, wcall, pe, regVars>>
    BY <1>2 DEF Dies, others, wimVars, diskVars, Inv, FilesInv, InFolders
  <2>2. Position' /\ Seen' /\ Extracting'
    BY <2>1 DEF Inv, StepInv, Position, Seen, Asking, Extracting
  <2>3. wcall.at = "done"
    BY <2>1, CallPlace DEF InUpdate
  <2>4. Taken' /\ Updating' /\ Loading'
    BY <2>1, <2>3 DEF Inv, StepInv, Taken, BeforeSoftware, Updating, InUpdate, Over1, Loading, regVars
  <2> QED  BY <2>2, <2>4 DEF StepInv
<1>3. CASE Cancel \/ UNCHANGED vars
  <2>1. UNCHANGED <<pc, next, call, copy, local, seen, wcall, pe, regVars>> /\ (UNCHANGED cancel \/ cancel')
    BY <1>3 DEF Cancel, vars, others, isoVars, diskVars, wimVars
  <2>2. Position' /\ Seen' /\ Extracting'
    BY <2>1 DEF Inv, StepInv, Position, Seen, Asking, Failing, Extracting, Waiting
  <2>3. Taken' /\ Updating' /\ Loading'
    BY <2>1 DEF Inv, StepInv, Taken, BeforeSoftware, Updating, InUpdate, Over1, Loading, regVars
  <2> QED  BY <2>2, <2>3 DEF StepInv
<1> QED
  BY <1>1, <1>2, <1>3

(* MakePEImage's steps that ask wimlib, the registry and the extractor.    *)
LEMMA MakeStepInv ==
  ASSUME Inv, MakeSecond \/ MakeThird \/ MakeFourth \/ MakeFifth
  PROVE  StepInv'
<1>1. CASE MakeSecond
  <2>1. /\ pc = "make.second" /\ wcall.at = "done" /\ reg = "done" /\ next \in Nat
        /\ UNCHANGED <<isoVars, diskVars, cancel, regVars>>
    BY <1>1, AtIs DEF MakeSecond, Enter
  <2>2. CASE Enter("make.second") /\ next' = 1 /\ UNCHANGED <<pc, wimVars>>
    <3>1. ~seen' /\ ~cancel /\ next = 0
      BY <2>2 DEF Enter, Look
    <3>2. Position' /\ Seen' /\ Extracting'
      BY <2>1, <2>2, <3>1 DEF Position, Seen, Asking, Extracting
    <3>3. Taken' /\ Updating' /\ Loading'
      BY <2>1, <2>2 DEF Inv, StepInv, Taken, BeforeSoftware, Updating, InUpdate, Over1, Loading,
                        diskVars, wimVars, regVars
    <3> QED  BY <3>2, <3>3 DEF StepInv
  <2>3. CASE next > 0 /\ ExtractAll(MakeExtracts, MakeStep("make.third")) /\ UNCHANGED seen
    <3>1. CASE pc' = "make.second" /\ next' = next + 1 /\ (UNCHANGED wimVars
               \/ \E cmd : BeginWim("Extract", "pe", 1, cmd))
      <4>1. next' > 0 /\ UNCHANGED pe
        <5>1. next' > 0
          BY <2>1, <3>1
        <5>2. UNCHANGED pe
          BY <3>1 DEF BeginWim, wimVars
        <5> QED  BY <5>1, <5>2
      <4>2. \/ UNCHANGED wcall
            \/ \E cmd : BeginWim("Extract", "pe", 1, cmd)
                         /\ (pc' = "check.fourth" => cmd \in Range(CheckExtracts))
        BY <3>1 DEF wimVars
      <4> QED  BY <2>1, <2>3, <3>1, <4>1, <4>2, ExtractStepInv
    <3>2. CASE pc' = "make.third" /\ next' = 0 /\ UNCHANGED wimVars
      BY <2>1, <2>3, <3>2, ExtractStepInv DEF wimVars
    <3> QED  BY <2>1, <2>3, <3>1, <3>2 DEF ExtractAll, MakeStep
  <2> QED  BY <1>1, <2>2, <2>3 DEF MakeSecond
<1>2. CASE MakeThird
  <2>1. /\ pc = "make.third" /\ wcall.at = "done" /\ next \in {0, 1, 2}
        /\ UNCHANGED <<local, cancel, pe>>
    BY <1>2, AtIs DEF MakeThird, Enter, BeginWim, WimIdle, wimVars, diskVars, Inv, StepInv, Position
  <2>2. CASE Enter("make.third") /\ Software \in DOMAIN local /\ BeginLoad /\ next' = 1
             /\ UNCHANGED pc /\ UNCHANGED wimVars
    <3>1. ~seen' /\ next = 0 /\ reg' = "parent" /\ wcall' = wcall
      BY <2>2 DEF Enter, Look, BeginLoad, wimVars
    <3>2. Position' /\ Seen' /\ Extracting'
      BY <2>1, <2>2, <3>1 DEF Position, Seen, Asking, Extracting
    <3>3. Taken' /\ Updating' /\ Loading'
      BY <2>1, <2>2, <3>1 DEF Inv, StepInv, Taken, BeforeSoftware, Updating, InUpdate, Over1, Loading
    <3> QED  BY <3>2, <3>3 DEF StepInv
  <2>3. CASE Enter("make.third") /\ MakeStep("make.fourth") /\ UNCHANGED wimVars /\ UNCHANGED regVars
    <3>1. ~seen' /\ next = 0 /\ pc' = "make.fourth" /\ wcall' = wcall /\ reg = "done" /\ reg' = reg
      BY <2>3, AtIs DEF Enter, Look, MakeStep, wimVars, regVars
    <3>2. Position' /\ Seen' /\ Extracting'
      BY <3>1 DEF Position, Seen, Asking, Extracting
    <3>3. Taken' /\ Updating' /\ Loading'
      BY <2>1, <3>1 DEF Inv, StepInv, Taken, BeforeSoftware, Updating, InUpdate, Over1, Loading
    <3> QED  BY <3>2, <3>3 DEF StepInv
  <2>4. CASE reg = "update" /\ BeginWim("Update", "pe", 1, SoftwareCmds) /\ reg' = "done" /\ next' = 2
             /\ UNCHANGED <<pc, seen>>
    <3>1. next = 1 /\ wcall.op # "Update"
      BY <2>1, <2>4 DEF Inv, StepInv, Loading, Updating, InUpdate
    <3>2. ~seen
      BY <2>1, <3>1 DEF Inv, StepInv, Seen, Asking, Failing, FilesInv, InThird
    <3>3. Position' /\ Seen' /\ Extracting'
      BY <2>1, <2>4, <3>2 DEF Position, Seen, Extracting
    <3>4. Taken' /\ Updating' /\ Loading'
      BY <2>1, <2>4 DEF BeginWim, NoCall, Taken, BeforeSoftware, Updating, InUpdate, Over1, Loading
    <3> QED  BY <3>3, <3>4 DEF StepInv
  <2>5. CASE At("make.third") /\ next > 0 /\ MakeStep("make.fourth") /\ wcall' = NoCall
             /\ UNCHANGED <<regVars, seen>>
    <3>1. pc' = "make.fourth" /\ reg = "done" /\ reg' = "done"
      BY <2>5, AtIs DEF MakeStep, regVars
    <3>2. Position' /\ Seen' /\ Extracting'
      BY <2>1, <2>5, <3>1 DEF Position, Seen, Asking, Extracting, Inv, StepInv
    <3>3. Taken' /\ Updating' /\ Loading'
      BY <2>1, <2>5, <3>1 DEF NoCall, Taken, BeforeSoftware, Updating, InUpdate, Over1, Loading
    <3> QED  BY <3>2, <3>3 DEF StepInv
  <2> QED  BY <1>2, <2>2, <2>3, <2>4, <2>5 DEF MakeThird
<1>3. CASE MakeFourth
  <2>1. /\ pc = "make.fourth" /\ wcall.at = "done" /\ reg = "done"
        /\ pc' \in {"make.fourth", "make.fifth"} /\ (pc' = "make.fifth" => next' = 0)
        /\ UNCHANGED <<local, cancel, wimVars, regVars>>
        /\ UNCHANGED seen \/ ~seen'
    BY <1>3, AtIs DEF MakeFourth, Enter, Look, MakeStep
  <2>2. Position' /\ Seen' /\ Extracting'
    BY <2>1 DEF Position, Seen, Asking, Extracting, Inv, StepInv
  <2>3. Taken' /\ Updating' /\ Loading'
    BY <2>1 DEF Inv, StepInv, Taken, BeforeSoftware, Updating, InUpdate, Over1, Loading,
                wimVars, regVars
  <2> QED  BY <2>2, <2>3 DEF StepInv
<1>4. CASE MakeFifth
  <2>1. /\ pc = "make.fifth" /\ wcall.at = "done" /\ reg = "done" /\ next \in {0, 1}
        /\ UNCHANGED <<local, cancel, regVars, pe>>
    BY <1>4, AtIs DEF MakeFifth, Enter, BeginWim, diskVars, Inv, StepInv, Position
  <2>2. CASE Enter("make.fifth") /\ BeginWim("Update", "pe", 1, UpdateCmds) /\ next' = 1 /\ UNCHANGED pc
    <3>1. ~seen'
      BY <2>2 DEF Enter, Look
    <3>2. Position' /\ Seen' /\ Extracting'
      BY <2>1, <2>2, <3>1 DEF Position, Seen, Extracting
    <3>3. Taken' /\ Updating' /\ Loading'
      BY <2>1, <2>2 DEF BeginWim, NoCall, Taken, BeforeSoftware, Updating, InUpdate, Over1, Loading,
                        regVars
    <3> QED  BY <3>2, <3>3 DEF StepInv
  <2>3. CASE pc' \in {"make.sixth", "make.end"} /\ wcall' = NoCall /\ UNCHANGED seen
    <3>1. Position' /\ Seen' /\ Extracting'
      BY <2>1, <2>3 DEF Position, Seen, Asking, Extracting, Inv, StepInv
    <3>2. Taken' /\ Updating' /\ Loading'
      BY <2>1, <2>3 DEF NoCall, Taken, BeforeSoftware, Updating, InUpdate, Over1, Loading, regVars
    <3> QED  BY <3>1, <3>2 DEF StepInv
  <2> QED  BY <1>4, <2>2, <2>3 DEF MakeFifth, MakeStep
<1> QED
  BY <1>1, <1>2, <1>3, <1>4

(* Every step of the two workers, of the page and of the calls.            *)
LEMMA NextInv == Inv /\ [Next]_vars => Inv'
<1> SUFFICES ASSUME Inv, [Next]_vars
             PROVE  Inv'
  OBVIOUS
<1>1. StepInv'
  BY CheckStepInv, MakeStepInv, OtherStepInv, IsoStepInv, WimStepInv, RegStepInv
     DEF Next, Worker, Calls, Over
<1> QED
  BY <1>1, NextFilesInv, NextLateInv, NextCounting DEF Inv

(* The invariant of the specification.                                     *)
LEMMA InvHolds == Spec => []Inv
<1>1. Init => Inv
  BY InitFilesInv, InitLateInv, InitStepInv DEF Init, Inv, Counting
<1> QED
  BY <1>1, NextInv, PTL DEF Spec

-----------------------------------------------------------------------------
(***************************************************************************)
(* What wimlib extracts after the request.  A section's loop counts more   *)
(* commands than were extracted late, by one while a command has yet to be *)
(* extracted; outside of the loops and of what follows them nothing was;   *)
(* and an export that has seen the request leaves nothing to extract from. *)
(***************************************************************************)
ToExtract ==
  wcall.op = "Extract" /\ wcall.at \in {"mkdir", "open", "resolve", "extract"}

Within(cmds) ==
  /\ next - 1 <= Len(cmds)
  /\ late.extracted <= next - 1
  /\ ToExtract => late.extracted < next - 1

NoneYet ==
  \/ pc \notin {"check.fourth", "check.sixth", "check.end", "exit",
                "make.second", "make.third", "make.end", "over"}
  \/ pc = "make.second" /\ next = 0
  \/ pc = "make.third" /\ next > 0

ExtractInv ==
  /\ NoneYet => late.extracted = 0
  /\ pc = "check.fourth" => Within(CheckExtracts)
  /\ pc \in {"check.sixth", "check.end", "exit"} => late.extracted <= Len(CheckExtracts)
  /\ pc = "make.second" /\ next > 0 => Within(MakeExtracts)
  /\ pc \in {"make.third", "make.end", "over"} => late.extracted <= Len(MakeExtracts)
  /\ pc \in {"check.fourth", "check.sixth", "check.end", "exit"} /\ seen =>
       pe.state # "whole" /\ late.extracted = 0

(* The settings have so many commands.                                     *)
LEMMA ExtractsCounted == Len(CheckExtracts) \in Nat /\ Len(MakeExtracts) \in Nat
  BY SettingsAssumption, LenProperties

(* Nothing but the extraction itself counts as one, and no other step of a *)
(* call goes back before it.                                               *)
LEMMA WimExtraction ==
  ASSUME Inv, WimStep, UNCHANGED <<isoVars, cancel, regVars, pc, next>>
  PROVE  /\ ToExtract' => ToExtract
         /\ \/ late'.extracted = late.extracted
            \/ /\ late'.extracted = late.extracted + 1
               /\ Doing("Extract", "extract") /\ ~ToExtract' /\ UNCHANGED <<pe, seen>>
<1>1. /\ {"at", "result", "op", "arg"} \subseteq DOMAIN wcall
      /\ Counted /\ late.extracted \in Nat
  BY WimFrame DEF Inv, LateInv, Counted
<1>2. CASE MakeFolder
  BY <1>1, <1>2 DEF MakeFolder, Goto, ToExtract
<1>3. CASE Open
  BY <1>1, <1>3 DEF Open, Leave, ToExtract
<1>4. CASE GetNameInformations \/ GetPEImageNumber \/ Export \/ Update
  BY <1>1, <1>4 DEF GetNameInformations, GetPEImageNumber, Export, Update, Doing, Leave, Resolve,
                    Goto, ToExtract
<1>5. CASE WriteProgress
  BY <1>1, <1>5 DEF WriteProgress, WriteFails, Leave, Goto, ToExtract
<1>6. CASE WritePart
  <2>1. ~ToExtract'
    BY <1>1, <1>6 DEF WritePart, WriteFails, Leave, ToExtract
  <2>2. late'.extracted = late.extracted
    BY <1>1, <1>6, WritesCounts DEF WritePart, Counted
  <2> QED  BY <2>1, <2>2
<1>7. CASE Extract /\ UNCHANGED late
  BY <1>1, <1>7 DEF Extract, Doing, Leave, Resolve, Goto, ToExtract
<1>8. CASE Extract /\ Doing("Extract", "extract") /\ Writes("extracted")
  <2>1. ~ToExtract' /\ ToExtract /\ UNCHANGED <<pe, seen>>
    BY <1>1, <1>8 DEF Extract, Doing, Leave, Goto, ToExtract
  <2>2. late'.extracted \in {late.extracted, late.extracted + 1}
    BY <1>1, <1>8, WritesCounts DEF Counted
  <2> QED  BY <1>8, <2>1, <2>2
<1>9. CASE Free
  BY <1>1, <1>9 DEF Free, NoCall, ToExtract
<1> QED
  BY <1>2, <1>3, <1>4, <1>5, <1>6, <1>7, <1>8, <1>9 DEF WimStep, Extract

(* A step inside a call.                                                   *)
LEMMA CallsExtractInv ==
  ASSUME Inv, ExtractInv, Calls
  PROVE  ExtractInv'
<1>1. CASE IsoStep /\ UNCHANGED <<cancel, wimVars, regVars, pc, next>>
  <2>1. pc \in {"make.fourth", "check.second"} /\ UNCHANGED pc
    BY <1>1, IsoPlace
  <2>2. UNCHANGED late \/ Writes("looked")
    BY <1>1 DEF IsoStep, CopyOpen, CopyLook, CopyBlock, CopyDone, Written, UdfSubfolder,
                Iso9660Subfolder, Subfolder, Subfile, FolderDone
  <2>3. late'.extracted = late.extracted
    BY <2>2, WritesCounts DEF Inv, LateInv, Counted
  <2> QED  BY <2>1, <2>3 DEF ExtractInv, NoneYet
<1>2. CASE WimStep /\ UNCHANGED <<isoVars, cancel, regVars, pc, next>>
  <2>1. /\ pc \in {"check.third", "check.fourth", "make.second", "make.third", "make.fifth"}
        /\ pc = "make.second" => next > 0
        /\ pc = "make.third" => next > 0
        /\ pc \in {"check.fourth", "make.second"} => wcall.op = "Extract"
    BY <1>2, CallPlace, WimCall DEF InUpdate
  <2>2. next \in Nat /\ late.extracted \in Nat
    BY DEF Inv, Counting, LateInv, Counted
  <2>3. /\ ToExtract' => ToExtract
        /\ \/ late'.extracted = late.extracted
           \/ /\ late'.extracted = late.extracted + 1
              /\ Doing("Extract", "extract") /\ ~ToExtract' /\ UNCHANGED <<pe, seen>>
    BY <1>2, WimExtraction
  <2>4. pc \in {"check.fourth", "make.second"} => UNCHANGED <<pe, seen>>
    BY <1>2, <2>1, WimCall DEF Inv, FilesInv, Asked
  <2>5. CASE late'.extracted = late.extracted
    BY <1>2, <2>1, <2>2, <2>3, <2>4, <2>5 DEF ExtractInv, NoneYet, Within
  <2>6. CASE late'.extracted = late.extracted + 1 /\ Doing("Extract", "extract") /\ ~ToExtract'
    <3>1. /\ ToExtract /\ pe.state = "whole"
          /\ pc \in {"check.fourth", "make.second"} /\ (pc = "make.second" => next > 0)
      BY <2>1, <2>6, CallPlace DEF Doing, ToExtract, Inv, StepInv, Taken
    <3>2. late'.extracted <= next - 1
      BY <2>1, <2>2, <2>6, <3>1 DEF ExtractInv, Within
    <3> QED  BY <1>2, <2>4, <2>6, <3>1, <3>2 DEF ExtractInv, NoneYet, Within
  <2> QED  BY <2>3, <2>5, <2>6
<1>3. CASE RegStep /\ UNCHANGED <<isoVars, diskVars, cancel, seen, late, wimVars, pc, next>>
  BY <1>3 DEF ExtractInv, NoneYet, Within, ToExtract, wimVars
<1> QED
  BY <1>1, <1>2, <1>3 DEF Calls

(* CheckISOImage: the loop of FOURTH_STEP begins when nothing was taken.   *)
LEMMA CheckExtractInv ==
  ASSUME Inv, ExtractInv,
         CheckFirst \/ CheckSecond \/ CheckThird \/ CheckFourth \/ CheckSixth \/ CheckEnd
  PROVE  ExtractInv'
<1>1. next \in Nat /\ late.extracted \in Nat
  BY DEF Inv, Counting, LateInv, Counted
<1>2. CASE CheckFirst \/ CheckSecond
  <2>1. /\ pc \in {"check.first", "check.second"} /\ UNCHANGED <<pe, late, seen>>
        /\ pc' \in {"check.second", "check.third", "check.sixth", "check.end"}
    BY <1>2 DEF CheckFirst, CheckSecond, At, NextStep, wimVars
  <2>2. pe.state = "none" /\ late.extracted = 0
    BY <2>1 DEF Inv, FilesInv, InThird, BeforeThird, ExtractInv, NoneYet
  <2> QED  BY <2>1, <2>2, ExtractsCounted DEF ExtractInv, NoneYet
<1>3. CASE CheckThird
  <2>1. pc = "check.third" /\ late.extracted = 0 /\ UNCHANGED <<pe, late, seen>>
    BY <1>3 DEF CheckThird, At, BeginWim, ExtractInv, NoneYet
  <2>2. CASE UNCHANGED pc
    BY <2>1, <2>2 DEF ExtractInv, NoneYet
  <2>3. CASE pc' = "check.fourth" /\ next' = 1 /\ wcall' = NoCall
    <3>1. seen => pe.state # "whole"
      BY <2>1 DEF Inv, StepInv, Seen, Asking, Failing, Updating
    <3>2. ~ToExtract'
      BY <2>3, NoCallFields DEF ToExtract
    <3> QED  BY <2>1, <2>3, <3>1, <3>2, ExtractsCounted DEF ExtractInv, NoneYet, Within
  <2> QED  BY <1>3, <2>2, <2>3 DEF CheckThird, NextStep
<1>4. CASE CheckFourth
  <2>1. /\ pc = "check.fourth" /\ UNCHANGED <<pe, late, seen>>
        /\ wcall.at = "done" /\ Within(CheckExtracts)
    BY <1>4, AtIs DEF CheckFourth, ExtractAll, BeginWim, wimVars, ExtractInv
  <2>2. CASE next <= Len(CheckExtracts) /\ next' = next + 1 /\ UNCHANGED pc
    BY <1>1, <2>1, <2>2, ExtractsCounted DEF ExtractInv, NoneYet, Within
  <2>3. CASE pc' = "check.sixth"
    BY <1>1, <2>1, <2>3, ExtractsCounted DEF ExtractInv, NoneYet, Within
  <2> QED  BY <1>4, <2>2, <2>3 DEF CheckFourth, ExtractAll, NextStep
<1>5. CASE CheckSixth \/ CheckEnd
  <2>1. /\ pc \in {"check.sixth", "check.end"} /\ UNCHANGED <<pe, late, seen>>
        /\ pc' \in {"check.end", "exit"}
    BY <1>5 DEF CheckSixth, CheckEnd, At, NextStep, others, wimVars
  <2> QED  BY <2>1 DEF ExtractInv, NoneYet
<1> QED
  BY <1>2, <1>3, <1>4, <1>5

(* MakePEImage: the heads of SECOND_STEP and THIRD_STEP let no request by. *)
LEMMA MakeExtractInv ==
  ASSUME Inv, ExtractInv,
         \/ MakeEntry \/ Cancelled \/ MakeFirst \/ MakeSecond \/ MakeThird
         \/ MakeFourth \/ MakeFifth \/ MakeEnd
  PROVE  ExtractInv'
<1>1. next \in Nat /\ late.extracted \in Nat
  BY DEF Inv, Counting, LateInv, Counted
<1>2. CASE MakeEntry
  BY <1>2 DEF MakeEntry, NothingLate, ExtractInv, NoneYet
<1>3. CASE Cancelled
  <2>1. pc \in Steps /\ next = 0 /\ UNCHANGED <<late, next>> /\ pc' \in {pc, "make.end"}
    BY <1>3 DEF Cancelled, At
  <2>2. late.extracted <= Len(MakeExtracts) /\ (pc # "make.third" => late.extracted = 0)
    BY <1>1, <2>1, ExtractsCounted DEF Steps, ExtractInv, NoneYet
  <2> QED  BY <2>1, <2>2 DEF Steps, ExtractInv, NoneYet
<1>4. CASE MakeFirst
  <2>1. pc = "make.first" /\ UNCHANGED late /\ next' = 0 /\ pc' \in {"make.second", "make.end"}
    BY <1>4 DEF MakeFirst, Enter, At, MakeStep
  <2>2. late.extracted = 0
    BY <2>1 DEF ExtractInv, NoneYet
  <2> QED  BY <2>1, <2>2, ExtractsCounted DEF ExtractInv, NoneYet
<1>5. CASE MakeSecond
  <2>1. pc = "make.second" /\ wcall.at = "done" /\ UNCHANGED late
    BY <1>5, AtIs DEF MakeSecond, Enter
  <2>2. CASE Enter("make.second") /\ next' = 1 /\ UNCHANGED <<pc, wimVars>>
    <3>1. late.extracted = 0
      BY <2>1, <2>2 DEF Enter, ExtractInv, NoneYet
    <3>2. ~ToExtract'
      BY <2>1, <2>2 DEF ToExtract, wimVars
    <3> QED  BY <2>1, <2>2, <3>1, <3>2, ExtractsCounted DEF ExtractInv, NoneYet, Within
  <2>3. CASE next > 0 /\ next <= Len(MakeExtracts) /\ next' = next + 1 /\ UNCHANGED pc
    <3>1. Within(MakeExtracts)
      BY <2>1, <2>3 DEF ExtractInv
    <3> QED  BY <1>1, <2>1, <2>3, <3>1, ExtractsCounted DEF ExtractInv, NoneYet, Within
  <2>4. CASE next > 0 /\ pc' = "make.third" /\ next' = 0
    BY <1>1, <2>1, <2>4, ExtractsCounted DEF ExtractInv, NoneYet, Within
  <2> QED  BY <1>5, <2>2, <2>3, <2>4 DEF MakeSecond, ExtractAll, MakeStep
<1>6. CASE MakeThird
  <2>1. pc = "make.third" /\ UNCHANGED late /\ late.extracted = 0
    <3>1. pc = "make.third" /\ UNCHANGED late
      BY <1>6 DEF MakeThird, Enter, At
    <3>2. CASE ~cancel
      BY <3>1, <3>2 DEF Inv, LateInv, Counted
    <3>3. CASE next > 0
      BY <3>1, <3>3 DEF ExtractInv, NoneYet
    <3>4. reg = "update" => next > 0
      BY DEF Inv, StepInv, Loading
    <3> QED  BY <1>6, <3>1, <3>2, <3>3, <3>4 DEF MakeThird, Enter
  <2>2. pc' = "make.fourth" \/ (pc' = "make.third" /\ next' > 0)
    BY <1>6, <2>1 DEF MakeThird, MakeStep
  <2> QED  BY <2>1, <2>2 DEF ExtractInv, NoneYet
<1>7. CASE MakeFourth \/ MakeFifth \/ MakeEnd
  <2>1. /\ UNCHANGED late /\ pc' \in {"make.fourth", "make.fifth", "make.sixth", "make.end", "over"}
        /\ pc \in {"make.fourth", "make.fifth", "make.sixth", "make.end"}
        /\ pc = "make.end" => pc' = "over"
    BY <1>7 DEF MakeFourth, MakeFifth, MakeEnd, Enter, At, MakeStep
  <2>2. late.extracted <= Len(MakeExtracts) /\ (pc # "make.end" => late.extracted = 0)
    BY <2>1, ExtractsCounted DEF ExtractInv, NoneYet
  <2> QED  BY <2>1, <2>2 DEF ExtractInv, NoneYet
<1> QED
  BY <1>2, <1>3, <1>4, <1>5, <1>6, <1>7

(* Every step of the two workers, of the page and of the calls.            *)
LEMMA NextExtractInv == Inv /\ ExtractInv /\ [Next]_vars => ExtractInv'
<1> SUFFICES ASSUME Inv, ExtractInv, [Next]_vars
             PROVE  ExtractInv'
  OBVIOUS
<1>1. CASE Dies
  <2>1. pc = "make.fourth" /\ pc' = "over" /\ UNCHANGED late
    BY <1>1 DEF Dies, Inv, FilesInv, InFolders
  <2> QED  BY <2>1, ExtractsCounted DEF ExtractInv, NoneYet
<1>2. CASE Cancel \/ UNCHANGED vars
  BY <1>2 DEF Cancel, vars, others, wimVars, ExtractInv, NoneYet, Within, ToExtract
<1> QED
  BY <1>1, <1>2, CallsExtractInv, CheckExtractInv, MakeExtractInv DEF Next, Worker, Over

(* After a cancel request at most one more block or part is written, and   *)
(* wimlib extracts at most what is left of one section, nothing at all     *)
(* where the export has seen the request or MakePEImage had a look before. *)
THEOREM LateWritesHolds == Spec => []LateWrites
<1>1. Init => ExtractInv
  BY DEF Init, NothingLate, ExtractInv, NoneYet
<1>2. Inv /\ ExtractInv => LateWrites
  <2> SUFFICES ASSUME Inv, ExtractInv PROVE LateWrites
    OBVIOUS
  <2>1. late.looked <= 1 /\ late.extracted \in Nat /\ next \in Nat
    BY DEF Inv, LateInv, Counted, Counting
  <2>2. CASE pc \in {"check.fourth", "check.sixth", "check.end", "exit"}
    BY <2>1, <2>2, ExtractsCounted DEF ExtractInv, Within, LateWrites
  <2>3. CASE pc \in {"make.second", "make.third", "make.end", "over"}
    <3>1. late.extracted <= Len(MakeExtracts)
      <4>1. pc = "make.second" => next = 0 \/ next > 0
        BY <2>1
      <4> QED  BY <2>1, <2>3, <4>1, ExtractsCounted DEF ExtractInv, NoneYet, Within
    <3> QED  BY <2>1, <2>3, <3>1 DEF LateWrites
  <2>4. CASE pc \notin {"check.fourth", "check.sixth", "check.end", "exit",
                        "make.second", "make.third", "make.end", "over"}
    BY <2>1, <2>4 DEF ExtractInv, NoneYet, LateWrites
  <2> QED  BY <2>2, <2>3, <2>4
<1> QED
  BY <1>1, <1>2, InvHolds, NextExtractInv, PTL DEF Spec

-----------------------------------------------------------------------------
(***************************************************************************)
(* What the steps are of: their position and the hive, case by case.       *)
(***************************************************************************)
Values ==
  /\ pc \notin {"check.fourth", "check.sixth", "make.third", "make.hive"} =>
       StepPc = pc /\ StepHive = loaded
  /\ pc \in {"check.fourth", "check.sixth"} => StepPc = "check.report" /\ StepHive = loaded
  /\ pc = "make.third" =>
       /\ next = 0 => StepPc = "make.third" /\ StepHive = loaded
       /\ next > 0 /\ reg \in {"parent", "load"} => StepPc = "make.third" /\ StepHive = loaded
       /\ next > 0 /\ reg = "open" => StepPc = "make.third" /\ StepHive = FALSE
       /\ next > 0 /\ reg \in {"loaded", "set", "changed", "unload", "update"} =>
            StepPc = "make.hive" /\ StepHive = TRUE
       /\ next = 1 /\ reg \in {"failed", "done"} => StepPc = "make.fourth" /\ StepHive = loaded
       /\ next = 2 => StepPc = "make.hive" /\ StepHive = TRUE

(* They are what the definitions say.                                      *)
LEMMA ValuesAre == Inv => Values
<1> SUFFICES ASSUME Inv PROVE Values
  OBVIOUS
<1>1. pc \notin {"check.fourth", "check.sixth", "make.third"} => StepPc = pc
  BY DEF StepPc
<1>2. pc \in {"check.fourth", "check.sixth"} => StepPc = "check.report"
  BY DEF StepPc
<1>3. pc = "make.third" =>
        /\ next \in {0, 1, 2}
        /\ next = 2 => reg = "done" /\ wcall.op = "Update"
        /\ next = 1 => wcall.at = "done" /\ wcall.op # "Update"
  <2>1. pc = "make.third" /\ next = 1 => ~InUpdate
    BY DEF InUpdate
  <2> QED  BY <2>1, CallPlace DEF Inv, StepInv, Position, Loading, Updating, InUpdate
<1>4. pc = "make.third" /\ next = 0 => StepPc = "make.third"
  BY DEF StepPc
<1>5. pc = "make.third" /\ next > 0 /\ reg \in {"parent", "load", "open"} => StepPc = "make.third"
  BY <1>3 DEF StepPc, WimIdle
<1>6. pc = "make.third" /\ next > 0 /\ reg \in {"loaded", "set", "changed", "unload", "update"} =>
        StepPc = "make.hive"
  BY <1>3 DEF StepPc, WimIdle
<1>7. pc = "make.third" /\ next = 1 /\ reg \in {"failed", "done"} => StepPc = "make.fourth"
  BY <1>3 DEF StepPc, WimIdle
<1>8. pc = "make.third" /\ next = 2 => StepPc = "make.hive"
  BY <1>3 DEF StepPc, WimIdle
<1>9. StepPc = "make.hive" => StepHive = TRUE
  BY <1>1, <1>2, <1>3, <1>4, <1>5 DEF StepHive
<1>10. StepPc # "make.hive" /\ pc = "make.third" /\ reg = "open" => StepHive = FALSE
  BY DEF StepHive
<1>11. StepPc # "make.hive" /\ ~(pc = "make.third" /\ reg = "open") => StepHive = loaded
  BY DEF StepHive
<1>12. reg # "done" => next = 1
  BY DEF Inv, StepInv, Loading
<1> QED
  BY <1>1, <1>2, <1>3, <1>4, <1>5, <1>6, <1>7, <1>8, <1>9, <1>10, <1>11, <1>12 DEF Values

(* Both before and after a step.                                           *)
LEMMA ValuesNext == Inv /\ [Next]_vars => Values /\ Values'
<1>1. (Inv => Values)'
  BY ValuesAre, PTL
<1> QED
  BY <1>1, ValuesAre, NextInv

-----------------------------------------------------------------------------
(* FIRST_STEP of CheckISOImage is one step here too.                       *)
LEMMA CheckFirstAsAssumed ==
  ASSUME Inv, Values, Values', CheckFirst
  PROVE  CheckSteps!CheckFirstFromISO
<1>1. /\ pc = "check.first" /\ pc' = (IF extractor' = "none" THEN "check.end" ELSE "check.second")
      /\ UNCHANGED <<local, seen, wcall, pe, loaded>> /\ next' = 1
  BY AtIs DEF CheckFirst, NextStep, diskVars, wimVars, regVars
<1>2. /\ pe.state = "none" /\ TmpWim \notin DOMAIN local
  BY <1>1 DEF Inv, FilesInv, InThird, BeforeThird, StepInv, Extracting
<1>3. StepPc = "check.first" /\ StepPc' = pc' /\ UNCHANGED StepHive
  BY <1>1 DEF Values
<1>4. UNCHANGED <<StepThread, StepTmp, StepSoftware>>
  BY <1>1, <1>2 DEF StepThread, StepTmp, StepSoftware
<1>5. UNCHANGED StepPe
  BY <1>1, <1>2 DEF StepPe, FailedJustNow
<1>6. extractor' = "none" => (extractor # "none") = (extractor' # "none")
  BY DEF CheckFirst, CreateExtractor, CreateUdf, CreateIso9660, CreateFails
<1> QED
  BY <1>1, <1>3, <1>4, <1>5, <1>6
     DEF CheckSteps!CheckFirstFromISO, CheckSteps!CheckFail, CheckSteps!Post, CheckSteps!workVars,
         IsoChosen

(* A step inside a call of the extractor: the step waits for it.           *)
LEMMA IsoAsAssumed ==
  ASSUME Inv, Values, Values', IsoStep, UNCHANGED <<cancel, wimVars, regVars, pc, next>>
  PROVE  UNCHANGED stepVars \/ Requested
<1>1. pc \in {"check.second", "make.fourth"} /\ UNCHANGED extractor
  BY IsoPlace
<1>2. UNCHANGED <<StepPc, StepHive>>
  BY <1>1 DEF Values, regVars
<1>3. UNCHANGED StepTmp
  BY <1>1, IsoLocal DEF StepTmp
<1>4. UNCHANGED StepSoftware
  BY IsoLocal DEF StepSoftware
<1>5. UNCHANGED StepPe
  BY DEF StepPe, FailedJustNow, wimVars
<1>6. seen => seen'
  BY IsoSeen DEF Inv, StepInv, Seen
<1>7. UNCHANGED StepThread \/ (StepThread = "STARTED" /\ StepThread' = "TERMINATING")
  BY <1>6 DEF StepThread
<1> QED
  BY <1>1, <1>2, <1>3, <1>4, <1>5, <1>7 DEF Requested, stepVars

(* A step inside a call of wimlib: while a file is written it is what it   *)
(* was for everyone else.                                                  *)
LEMMA WimAsAssumed ==
  ASSUME Inv, Values, Values', WimStep, UNCHANGED <<isoVars, cancel, regVars, pc, next>>
  PROVE  UNCHANGED stepVars \/ Requested
<1>1. /\ wcall.at # "done" /\ (wcall.op = "Update" <=> InUpdate)
      /\ pc \in {"check.third", "check.fourth", "make.second", "make.third", "make.fifth"}
      /\ pc = "make.third" => next = 2
      /\ pc \in {"make.third", "make.fifth"} => InUpdate
      /\ pc \notin {"check.fourth", "make.second"} => wcall.op # "Extract"
      /\ pc \in {"check.fourth", "make.second"} => wcall.op = "Extract"
  BY WimCall, CallPlace DEF InUpdate
<1>2. UNCHANGED <<StepPc, StepHive>>
  BY <1>1 DEF Values, regVars
<1>3. UNCHANGED StepTmp
  BY <1>1, WimLocal DEF StepTmp
<1>4. UNCHANGED StepSoftware
  BY <1>1, WimLocal DEF StepSoftware
<1>5. UNCHANGED StepPe
  <2>1. CASE pc = "check.third"
    BY <2>1 DEF StepPe
  <2>2. CASE pc \in {"check.fourth", "make.second"}
    <3>1. UNCHANGED pe
      BY <1>1, <2>2, WimCall DEF Inv, FilesInv, Asked
    <3> QED  BY <2>2, <3>1 DEF StepPe, FailedJustNow
  <2>3. CASE InUpdate
    <3>1. wcall'.op = "Update" /\ wcall.op = "Update" /\ Opened = pe
      BY <1>1, <2>3, WimCall DEF Opened, Inv, FilesInv, Asked
    <3>2. pc # "check.third" /\ pc # "make.sixth"
      BY <2>3 DEF InUpdate
    <3>3. (pe.state = "whole" \/ FailedJustNow) <=> (pe'.state = "whole" \/ FailedJustNow')
      <4>1. CASE wcall.at = "END"
        <5>1. UNCHANGED pe /\ wcall'.result = wcall.result
          BY <3>1, <4>1, WimCall
        <5> QED  BY <5>1 DEF FailedJustNow
      <4>2. CASE wcall.at # "END"
        <5>1. wcall.result = "SUCCESS"
          BY <1>1, <4>2 DEF Inv, StepInv, Updating, Over1
        <5>2. CASE wcall.at = "open"
          BY <3>1, <5>1, <5>2, WimCall DEF FailedJustNow
        <5>3. CASE wcall.at # "open"
          <6>1. pe.state = "whole"
            BY <3>1, <5>1, <5>3 DEF Inv, StepInv, Updating
          <6>2. NewFile.state = "whole"
            BY <3>1, <6>1 DEF NewFile, Inv, FilesInv, Images, NoFile
          <6>3. pe'.state = "whole" \/ wcall'.result = "WIMFILE_WRITE_ERROR"
            BY <6>1, <6>2, WimCall
          <6> QED  BY <2>3, <6>1, <6>3 DEF FailedJustNow, InUpdate
        <5> QED  BY <5>2, <5>3
      <4> QED  BY <4>1, <4>2
    <3> QED  BY <3>2, <3>3 DEF StepPe
  <2> QED  BY <1>1, <2>1, <2>2, <2>3
<1>6. seen => seen'
  BY WimCall DEF Inv, StepInv, Seen
<1>7. UNCHANGED StepThread \/ (StepThread = "STARTED" /\ StepThread' = "TERMINATING")
  BY <1>1, <1>6 DEF StepThread
<1> QED
  BY <1>2, <1>3, <1>4, <1>5, <1>7 DEF Requested, stepVars, isoVars

(* A step of the registry: loading ends THIRD_STEP's first part, unloading *)
(* its second when there is nothing to update.                             *)
LEMMA RegAsAssumed ==
  ASSUME Inv, Values, Values', RegStep,
         UNCHANGED <<isoVars, diskVars, cancel, seen, late, wimVars, pc, next>>
  PROVE  UNCHANGED stepVars \/ MakeSteps!MakeThird \/ MakeSteps!MakeHive
<1>1. pc = "make.third" /\ next = 1 /\ Software \in DOMAIN local
  BY DEF Inv, StepInv, Loading, RegStep, OpenParent, LoadKey, OpenHive, LoadFailed,
         GetStringValue, SetStringValue, Unload
<1>2. ~seen
  BY <1>1 DEF Inv, StepInv, Seen, Asking, Failing, Updating, InUpdate, FilesInv, InThird
<1>3. StepThread = "STARTED" /\ StepSoftware = TRUE
  BY <1>1, <1>2 DEF StepThread, StepSoftware
<1>4. UNCHANGED <<StepThread, StepTmp, StepSoftware, StepPe>> /\ UNCHANGED extractor
  BY DEF StepThread, StepTmp, StepSoftware, StepPe, FailedJustNow, isoVars, diskVars, wimVars
<1>5. loaded \in BOOLEAN
  BY DEF Inv, FilesInv, Flags
<1>6. CASE UNCHANGED <<StepPc, StepHive>>
  BY <1>4, <1>6 DEF stepVars
<1>7. CASE StepPc = "make.third" /\ StepPc' = "make.fourth" /\ (UNCHANGED StepHive \/ StepHive' = TRUE)
  BY <1>3, <1>4, <1>5, <1>7
     DEF MakeSteps!MakeThird, MakeSteps!Enter, MakeSteps!TerminateRequired
<1>8. CASE StepPc = "make.third" /\ StepPc' = "make.hive" /\ StepHive = FALSE /\ StepHive' = TRUE
  BY <1>3, <1>4, <1>8
     DEF MakeSteps!MakeThird, MakeSteps!Enter, MakeSteps!TerminateRequired
<1>9. CASE StepPc = "make.hive" /\ StepPc' = "make.fourth" /\ StepHive' \in BOOLEAN
  BY <1>4, <1>9 DEF MakeSteps!MakeHive, MakeSteps!OverwriteFailed
<1>10. CASE OpenParent
  <2>1. reg = "parent" /\ reg' \in {"load", "failed"} /\ loaded' = loaded
    BY <1>10 DEF OpenParent, LoadFails
  <2>2. StepPc = "make.third" /\ StepPc' \in {"make.third", "make.fourth"} /\ UNCHANGED StepHive
    BY <1>1, <2>1 DEF Values
  <2> QED  BY <1>6, <1>7, <2>2
<1>11. CASE LoadKey
  <2>1. /\ reg = "load"
        /\ \/ reg' = "open" /\ loaded = FALSE
           \/ reg' = "failed" /\ loaded' = loaded
    BY <1>5, <1>11 DEF LoadKey, LoadFails
  <2>2. StepPc = "make.third" /\ StepHive = loaded
    BY <1>1, <2>1 DEF Values
  <2>3. CASE reg' = "open" /\ loaded = FALSE
    <3>1. StepPc' = "make.third" /\ StepHive' = FALSE
      BY <1>1, <2>3 DEF Values
    <3> QED  BY <1>6, <2>2, <2>3, <3>1
  <2>4. CASE reg' = "failed" /\ loaded' = loaded
    <3>1. StepPc' = "make.fourth" /\ StepHive' = loaded'
      BY <1>1, <2>4 DEF Values
    <3> QED  BY <1>7, <2>2, <2>4, <3>1
  <2> QED  BY <2>1, <2>3, <2>4
<1>12. CASE OpenHive
  <2>1. reg = "open" /\ reg' \in {"loaded", "failed"} /\ loaded' = TRUE
    BY <1>5, <1>12 DEF OpenHive, LoadFails, Inv, StepInv, Loading
  <2>2. StepPc = "make.third" /\ StepHive = FALSE
    BY <1>1, <2>1 DEF Values
  <2>3. CASE reg' = "loaded"
    <3>1. StepPc' = "make.hive" /\ StepHive' = TRUE
      BY <1>1, <2>3 DEF Values
    <3> QED  BY <1>8, <2>2, <3>1
  <2>4. CASE reg' = "failed"
    <3>1. StepPc' = "make.fourth" /\ StepHive' = loaded'
      BY <1>1, <2>4 DEF Values
    <3> QED  BY <1>7, <2>1, <2>2, <3>1
  <2> QED  BY <2>1, <2>3, <2>4
<1>13. CASE LoadFailed
  BY <1>1, <1>6, <1>13 DEF LoadFailed, Values
<1>14. CASE GetStringValue \/ SetStringValue
  <2>1. reg \in {"loaded", "set"} /\ reg' \in {"set", "changed", "unload"}
    BY <1>14 DEF GetStringValue, SetStringValue
  <2>2. StepPc = "make.hive" /\ StepPc' = "make.hive" /\ StepHive = TRUE /\ StepHive' = TRUE
    BY <1>1, <2>1 DEF Values
  <2> QED  BY <1>6, <2>2
<1>15. CASE Unload
  <2>1. /\ \/ reg = "changed" /\ reg' = "update"
           \/ reg = "unload" /\ reg' = "done"
        /\ loaded' \in BOOLEAN
    BY <1>15 DEF Unload
  <2>2. /\ StepPc = "make.hive" /\ StepHive = TRUE
        /\ \/ StepPc' = "make.hive" /\ StepHive' = TRUE
           \/ StepPc' = "make.fourth" /\ StepHive' \in BOOLEAN
    BY <1>1, <2>1 DEF Values
  <2> QED  BY <1>6, <1>9, <2>2
<1> QED
  BY <1>10, <1>11, <1>12, <1>13, <1>14, <1>15 DEF RegStep

(* SECOND_STEP of CheckISOImage is one step, made when the call is over.   *)
LEMMA CheckSecondAsAssumed ==
  ASSUME Inv, Values, Values', CheckSecond
  PROVE  UNCHANGED stepVars \/ CheckSteps!CheckSecond
<1>1. /\ pc = "check.second" /\ next \in {1, 2} /\ UNCHANGED extractor
      /\ UNCHANGED <<local, seen, wcall, pe, loaded>>
  BY AtIs DEF CheckSecond, ExtractFile, Inv, StepInv, Position, diskVars, wimVars, regVars
<1>2. pe.state = "none"
  BY <1>1 DEF Inv, FilesInv, InThird, BeforeThird
<1>3. CASE next = 1 /\ UNCHANGED pc
  <2>1. UNCHANGED <<StepPc, StepHive>>
    BY <1>1, <1>3 DEF Values
  <2>2. UNCHANGED <<StepThread, StepTmp, StepSoftware>>
    BY <1>1, <1>3 DEF StepThread, StepTmp, StepSoftware
  <2>3. UNCHANGED StepPe
    BY <1>1, <1>2, <1>3 DEF StepPe, FailedJustNow
  <2> QED  BY <1>1, <2>1, <2>2, <2>3 DEF stepVars
<1>4. CASE next = 2 /\ pc' = (IF call.result = "SUCCESS" THEN "check.third" ELSE "check.sixth")
  <2>1. Waiting /\ call.result # "INITIAL"
    BY <1>1, <1>4, AtIs DEF CheckSecond, Inv, StepInv, Extracting
  <2>2. StepPc = "check.second" /\ UNCHANGED StepHive
    BY <1>1, <1>4 DEF Values
  <2>3. StepPc' = IF call.result = "SUCCESS" THEN "check.third" ELSE "check.report"
    BY <1>4 DEF Values
  <2>4. UNCHANGED StepThread /\ UNCHANGED StepSoftware
    BY <1>1, <1>4 DEF StepThread, StepSoftware
  <2>5. UNCHANGED StepPe
    BY <1>1, <1>2, <1>4 DEF StepPe, FailedJustNow
  <2>6. StepTmp = [state |-> "none", src |-> NoSource]
    BY <1>1 DEF StepTmp
  <2>7. CASE call.result = "SUCCESS"
    <3>1. StepTmp' = [state |-> "whole", src |-> Source]
      BY <1>1, <1>4, <2>1, <2>7 DEF StepTmp, Waiting
    <3>2. StepThread = "STARTED"
      BY <1>1, <2>1, <2>7 DEF StepThread, Waiting
    <3> QED
      BY <1>1, <2>2, <2>3, <2>4, <2>5, <2>7, <3>1, <3>2
         DEF CheckSteps!CheckSecond, CheckSteps!TerminateRequired, CheckSteps!Fetched,
             CheckSteps!SelectedSource, Source, IsoChosen
  <2>8. CASE call.result # "SUCCESS"
    <3>1. StepTmp' \in {StepTmp, [state |-> "partial", src |-> NoSource]}
      BY <1>1, <1>4, <2>1, <2>6, <2>8 DEF StepTmp, Waiting
    <3> QED
      BY <1>1, <2>2, <2>3, <2>4, <2>5, <2>8, <3>1
         DEF CheckSteps!CheckSecond, CheckSteps!FetchFailed, CheckSteps!PartialWim,
             CheckSteps!NoSource, NoSource
  <2> QED  BY <2>7, <2>8
<1> QED
  BY <1>1, <1>3, <1>4 DEF CheckSecond, NextStep

(* THIRD_STEP of CheckISOImage: the step is over when its calls are.       *)
LEMMA CheckThirdAsAssumed ==
  ASSUME Inv, Values, Values', CheckThird
  PROVE  UNCHANGED stepVars \/ CheckSteps!CheckThird
<1>1. /\ pc = "check.third" /\ UNCHANGED <<isoVars, diskVars, seen, pe, loaded>>
  BY AtIs DEF CheckThird, BeginWim, diskVars, regVars
<1>2. StepPe = [state |-> "none", src |-> NoSource, arch |-> "none"]
  BY <1>1 DEF StepPe
<1>3. StepPc = "check.third" /\ StepHive = loaded
  BY <1>1 DEF Values
<1>4. CASE UNCHANGED pc
  <2>1. UNCHANGED <<StepPc, StepHive>>
    BY <1>1, <1>4 DEF Values
  <2>2. UNCHANGED <<StepThread, StepTmp, StepSoftware>>
    BY <1>1, <1>4 DEF StepThread, StepTmp, StepSoftware, diskVars
  <2>3. UNCHANGED StepPe
    BY <1>1, <1>4 DEF StepPe
  <2> QED  BY <1>1, <2>1, <2>2, <2>3 DEF stepVars, isoVars
<1>5. CASE pc' = "check.fourth"
  <2>1. StepPc' = "check.report" /\ StepHive' = loaded
    BY <1>1, <1>5 DEF Values
  <2>2. UNCHANGED <<StepThread, StepTmp, StepSoftware>>
    BY <1>1, <1>5 DEF StepThread, StepTmp, StepSoftware, diskVars
  <2>3. ~FailedJustNow'
    BY <1>5 DEF FailedJustNow
  <2>4. CASE pe.state = "whole"
    <3>1. ~seen
      BY <1>1, <2>4 DEF Inv, StepInv, Seen, Asking, Failing, Updating
    <3>2. StepThread = "STARTED"
      BY <3>1 DEF StepThread
    <3>3. TmpFile.state = "whole"
      BY <2>4 DEF Inv, FilesInv, Images
    <3>4. StepTmp.src = Source
      BY <1>1, <3>3 DEF StepTmp, TmpFile, NoFile, Damaged, Inv, FilesInv, OnDisk
    <3>5. StepPe' = [state |-> "whole", src |-> StepTmp.src, arch |-> "none"]
      BY <1>1, <1>5, <2>4, <3>4 DEF StepPe
    <3> QED
      BY <1>1, <1>3, <2>1, <2>2, <3>2, <3>5
         DEF CheckSteps!CheckThird, CheckSteps!TerminateRequired, isoVars
  <2>5. CASE pe.state # "whole"
    <3>1. StepPe' = StepPe
      BY <1>1, <1>2, <1>5, <2>3, <2>5 DEF StepPe
    <3> QED
      BY <1>1, <1>3, <2>1, <2>2, <3>1 DEF CheckSteps!CheckThird, isoVars
  <2> QED  BY <2>4, <2>5
<1> QED
  BY <1>4, <1>5 DEF CheckThird, NextStep

(* FOURTH_STEP to SIXTH_STEP of CheckISOImage are one step, the last.      *)
LEMMA CheckReportAsAssumed ==
  ASSUME Inv, Values, Values', CheckFourth \/ CheckSixth
  PROVE  UNCHANGED stepVars \/ CheckSteps!CheckReport
<1>1. /\ pc \in {"check.fourth", "check.sixth"}
      /\ pc' \in {"check.fourth", "check.sixth"} \/ (pc = "check.sixth" /\ pc' = "check.end")
      /\ UNCHANGED <<isoVars, diskVars, seen, pe, loaded>>
  BY AtIs DEF CheckFourth, CheckSixth, ExtractAll, NextStep, BeginWim, others, wimVars, regVars
<1>2. UNCHANGED <<StepThread, StepTmp, StepSoftware>>
  BY <1>1 DEF StepThread, StepTmp, StepSoftware, diskVars
<1>3. UNCHANGED StepPe
  BY <1>1 DEF StepPe, FailedJustNow
<1>4. StepPc = "check.report" /\ UNCHANGED StepHive
  BY <1>1 DEF Values
<1>5. CASE pc' \in {"check.fourth", "check.sixth"}
  <2>1. StepPc' = "check.report"
    BY <1>5 DEF Values
  <2> QED  BY <1>1, <1>2, <1>3, <1>4, <2>1 DEF stepVars, isoVars
<1>6. CASE pc' = "check.end"
  <2>1. StepPc' = "check.end"
    BY <1>6 DEF Values
  <2> QED
    BY <1>1, <1>2, <1>3, <1>4, <2>1 DEF CheckSteps!CheckReport, CheckSteps!workVars, isoVars
<1> QED
  BY <1>1, <1>5, <1>6

-----------------------------------------------------------------------------
(* A step of MakePEImage that has not begun ends with the request.         *)
LEMMA CancelledAsAssumed ==
  ASSUME Inv, Values, Values', Cancelled
  PROVE  Requested \/ MakeSteps!MakeCancelled
<1>1. /\ pc \in Steps /\ next = 0 /\ cancel /\ UNCHANGED <<others, next>>
      /\ \/ ~seen /\ seen' = cancel /\ UNCHANGED pc
         \/ seen /\ UNCHANGED seen /\ pc' = "make.end"
  BY AtIs DEF Cancelled, Steps, Look, Inv, FilesInv, Flags
<1>2. StepPc = pc /\ StepHive = loaded /\ UNCHANGED loaded
  BY <1>1 DEF Values, Steps, others, regVars
<1>3. UNCHANGED extractor /\ UNCHANGED StepTmp
  BY <1>1 DEF StepTmp, Steps, others, isoVars, diskVars
<1>4. UNCHANGED StepPe
  <2>1. next = 0 /\ next' = 0 /\ pe' = pe
    BY <1>1 DEF others, wimVars
  <2>2. ~FailedJustNow /\ ~FailedJustNow'
    BY <2>1 DEF FailedJustNow
  <2>3. {pc, pc'} \cap {"check.third", "make.sixth"} = {}
    BY <1>1 DEF Steps
  <2> QED  BY <2>1, <2>2, <2>3 DEF StepPe
<1>5. UNCHANGED StepSoftware
  <2>1. pc = "make.second" => Software \notin DOMAIN local
    BY <1>1 DEF Inv, StepInv, Taken, BeforeSoftware
  <2> QED  BY <1>1, <2>1 DEF StepSoftware, others, diskVars
<1>6. CASE ~seen /\ seen' = cancel /\ UNCHANGED pc
  <2>1. StepThread = "STARTED" /\ StepThread' = "TERMINATING"
    BY <1>1, <1>6 DEF StepThread
  <2>2. StepPc' = pc /\ StepHive' = loaded
    BY <1>1, <1>2, <1>6 DEF Values, Steps
  <2> QED  BY <1>2, <1>3, <1>4, <1>5, <2>1, <2>2 DEF Requested
<1>7. CASE seen /\ UNCHANGED seen /\ pc' = "make.end"
  <2>1. StepThread = "TERMINATING" /\ StepThread' = "TERMINATING"
    BY <1>1, <1>7 DEF StepThread
  <2>2. StepPc' = "make.end" /\ StepHive' = loaded
    BY <1>1, <1>2, <1>7 DEF Values
  <2>3. MakeSteps!Cancelled(pc)
    BY <1>2, <1>3, <1>4, <1>5, <2>1, <2>2
       DEF MakeSteps!Cancelled, MakeSteps!TerminateRequired, MakeSteps!workVars
  <2> QED  BY <1>1, <2>3 DEF MakeSteps!MakeCancelled, Steps
<1> QED
  BY <1>1, <1>6, <1>7

(* What the look at the head of a step finds.                              *)
LEMMA EnterIs ==
  ASSUME Inv, NEW label, Enter(label)
  PROVE  pc = label /\ next = 0 /\ ~seen /\ ~seen' /\ ~cancel /\ wcall.at = "done" /\ reg = "done"
  BY AtIs DEF Enter, Look, Inv, StepInv, Seen

(* FIRST_STEP of MakePEImage.                                              *)
LEMMA MakeFirstAsAssumed ==
  ASSUME Inv, Values, Values', MakeFirst
  PROVE  MakeSteps!MakeFirst
<1>1. /\ pc = "make.first" /\ ~seen /\ ~seen' /\ UNCHANGED <<diskVars, wimVars, regVars>>
      /\ \/ extractor' # "none" /\ pc' = "make.second"
         \/ pc' = "make.end"
  BY EnterIs DEF MakeFirst, MakeStep
<1>2. StepPc = "make.first" /\ StepPc' = pc' /\ UNCHANGED StepHive
  BY <1>1 DEF Values, regVars
<1>3. StepThread = "STARTED" /\ StepThread' = "STARTED"
  BY <1>1 DEF StepThread
<1>4. UNCHANGED StepTmp
  BY <1>1 DEF StepTmp, diskVars
<1>5. UNCHANGED StepSoftware
  BY <1>1 DEF StepSoftware, diskVars, Inv, StepInv, Taken, BeforeSoftware
<1>6. UNCHANGED StepPe
  BY <1>1 DEF StepPe, FailedJustNow, wimVars
<1>7. (extractor' # "none") \in BOOLEAN
  OBVIOUS
<1>8. IsoChosen.method = "FROM_ISO"
  BY DEF IsoChosen
<1> QED
  BY <1>1, <1>2, <1>3, <1>4, <1>5, <1>6, <1>7, <1>8
     DEF MakeSteps!MakeFirst, MakeSteps!Enter, MakeSteps!TerminateRequired, MakeSteps!MakeFail,
         MakeSteps!Post, MakeSteps!workVars

(* SECOND_STEP: nobody looks at tmp/SOFTWARE before it is over.            *)
LEMMA MakeSecondAsAssumed ==
  ASSUME Inv, Values, Values', MakeSecond
  PROVE  UNCHANGED stepVars \/ MakeSteps!MakeSecond
<1>1. /\ pc = "make.second" /\ next \in Nat /\ UNCHANGED <<isoVars, diskVars, pe, loaded>>
  BY AtIs DEF MakeSecond, Enter, ExtractAll, BeginWim, wimVars, regVars
<1>2. ~seen /\ ~seen'
  BY <1>1, EnterIs DEF MakeSecond, Inv, StepInv, Seen
<1>3. StepThread = "STARTED" /\ StepThread' = "STARTED"
  BY <1>2 DEF StepThread
<1>4. UNCHANGED extractor
  BY <1>1 DEF isoVars
<1>5. CASE UNCHANGED pc
  <2>1. UNCHANGED <<StepPc, StepHive>>
    BY <1>1, <1>5 DEF Values
  <2>2. UNCHANGED <<StepTmp, StepSoftware>>
    BY <1>1, <1>5 DEF StepTmp, StepSoftware, diskVars
  <2>3. UNCHANGED StepPe
    BY <1>1, <1>5 DEF StepPe, FailedJustNow
  <2> QED  BY <1>3, <1>4, <2>1, <2>2, <2>3 DEF stepVars
<1>6. CASE next > 0 /\ pc' = "make.third" /\ next' = 0
  <2>1. StepPc = "make.second" /\ StepPc' = "make.third" /\ StepHive = loaded /\ StepHive' = loaded
    BY <1>1, <1>6 DEF Values
  <2>2. UNCHANGED StepTmp
    BY <1>1, <1>6 DEF StepTmp, diskVars
  <2>3. UNCHANGED StepPe
    BY <1>1, <1>6 DEF StepPe, FailedJustNow
  <2>4. StepSoftware = FALSE /\ StepSoftware' \in BOOLEAN
    BY <1>1 DEF StepSoftware
  <2>5. StepPe.state # "whole" => StepSoftware' = FALSE
    <3>1. Software \in DOMAIN local => StepPe.state = "whole"
      BY <1>1 DEF StepPe, Inv, StepInv, Taken
    <3> QED  BY <1>1, <3>1 DEF StepSoftware, diskVars
  <2> QED
    BY <1>3, <1>4, <2>1, <2>2, <2>3, <2>4, <2>5
       DEF MakeSteps!MakeSecond, MakeSteps!Enter, MakeSteps!TerminateRequired
<1> QED
  BY <1>1, <1>5, <1>6 DEF MakeSecond, ExtractAll, MakeStep

(* THIRD_STEP, but for what it waits for.                                  *)
LEMMA MakeThirdAsAssumed ==
  ASSUME Inv, Values, Values', MakeThird
  PROVE  UNCHANGED stepVars \/ MakeSteps!MakeThird \/ MakeSteps!MakeHive
<1>1. /\ pc = "make.third" /\ UNCHANGED <<isoVars, diskVars, pe, loaded>>
      /\ loaded \in BOOLEAN
  BY AtIs DEF MakeThird, Enter, BeginLoad, BeginWim, wimVars, regVars, Inv, FilesInv, Flags
<1>2. UNCHANGED <<extractor, StepTmp>> \/ pc' \notin {"make.third", "make.fourth"}
  BY <1>1 DEF StepTmp, isoVars, diskVars
<1>3. CASE Enter("make.third") /\ UNCHANGED wimVars
  <2>1. next = 0 /\ ~seen /\ ~seen'
    BY <1>3, EnterIs
  <2>2. StepThread = "STARTED" /\ StepThread' = "STARTED"
    BY <2>1 DEF StepThread
  <2>3. StepPc = "make.third" /\ StepHive = loaded
    BY <1>1, <2>1 DEF Values
  <2>4. StepSoftware = (Software \in DOMAIN local)
    BY <1>1 DEF StepSoftware
  <2>5. CASE Software \in DOMAIN local /\ BeginLoad /\ next' = 1 /\ UNCHANGED pc
    <3>1. reg' = "parent"
      BY <2>5 DEF BeginLoad
    <3>2. StepPc' = "make.third" /\ StepHive' = loaded
      BY <1>1, <2>5, <3>1 DEF Values
    <3>3. UNCHANGED StepSoftware
      BY <1>1, <2>5 DEF StepSoftware, diskVars
    <3>4. UNCHANGED StepPe
      BY <1>1, <2>1, <2>5 DEF StepPe, FailedJustNow
    <3> QED  BY <1>1, <1>2, <2>2, <2>3, <2>5, <3>2, <3>3, <3>4 DEF stepVars
  <2>6. CASE MakeStep("make.fourth")
    <3>1. pc' = "make.fourth" /\ next' = 0
      BY <2>6 DEF MakeStep
    <3>2. StepPc' = "make.fourth" /\ StepHive' = loaded
      BY <1>1, <3>1 DEF Values
    <3>3. UNCHANGED StepSoftware
      BY <1>1, <3>1 DEF StepSoftware, diskVars
    <3>4. UNCHANGED StepPe
      BY <1>1, <2>1, <3>1 DEF StepPe, FailedJustNow
    <3> QED
      BY <1>1, <1>2, <2>2, <2>3, <3>1, <3>2, <3>3, <3>4
         DEF MakeSteps!MakeThird, MakeSteps!Enter, MakeSteps!TerminateRequired
  <2> QED  BY <1>3, <2>5, <2>6 DEF MakeThird, Enter, AtRest, WimIdle, At, RegIdle
<1>4. CASE reg = "update" /\ BeginWim("Update", "pe", 1, SoftwareCmds) /\ reg' = "done"
           /\ next' = 2 /\ UNCHANGED <<pc, seen>>
  <2>1. next = 1 /\ next' = 2 /\ pc' = "make.third"
    BY <1>1, <1>4 DEF Inv, StepInv, Loading
  <2>2. StepPc = "make.hive" /\ StepHive = TRUE /\ StepPc' = "make.hive" /\ StepHive' = TRUE
    BY <1>1, <1>4, <2>1 DEF Values
  <2>3. UNCHANGED StepThread
    BY <1>1, <1>4, <2>1 DEF StepThread
  <2>4. UNCHANGED StepSoftware
    BY <1>1, <2>1 DEF StepSoftware, diskVars
  <2>5. UNCHANGED StepPe
    <3>1. wcall'.result = "SUCCESS"
      BY <1>4 DEF BeginWim, NoCall
    <3>2. ~FailedJustNow /\ ~FailedJustNow'
      BY <1>1, <2>1, <3>1 DEF FailedJustNow
    <3> QED  BY <1>1, <2>1, <3>2 DEF StepPe
  <2> QED  BY <1>1, <1>2, <2>1, <2>2, <2>3, <2>4, <2>5 DEF stepVars
<1>5. CASE At("make.third") /\ next > 0 /\ MakeStep("make.fourth") /\ wcall' = NoCall
           /\ UNCHANGED <<regVars, seen>>
  <2>1. pc' = "make.fourth" /\ next' = 0 /\ reg = "done" /\ next \in {1, 2}
    BY <1>5, AtIs DEF MakeStep, Inv, StepInv, Position
  <2>2. StepPc' = "make.fourth" /\ StepHive' = loaded
    BY <1>1, <2>1 DEF Values
  <2>3. UNCHANGED StepThread
    BY <1>1, <1>5, <2>1 DEF StepThread
  <2>4. UNCHANGED StepSoftware
    BY <1>1, <2>1 DEF StepSoftware, diskVars
  <2>5. ~FailedJustNow'
    BY <2>1 DEF FailedJustNow
  <2>6. CASE next = 1
    <3>1. StepPc = "make.fourth" /\ StepHive = loaded
      BY <1>1, <2>1, <2>6 DEF Values
    <3>2. ~FailedJustNow
      BY <1>1, <2>6 DEF FailedJustNow
    <3>3. UNCHANGED StepPe
      BY <1>1, <2>1, <2>5, <3>2 DEF StepPe
    <3> QED  BY <1>1, <1>2, <2>1, <2>2, <2>3, <2>4, <3>1, <3>3 DEF stepVars
  <2>7. CASE next = 2
    <3>1. StepPc = "make.hive" /\ StepHive' \in BOOLEAN
      BY <1>1, <2>1, <2>2, <2>7 DEF Values
    <3>2. StepPe' \in {StepPe, [state |-> "none", src |-> NoSource, arch |-> "none"]}
      BY <1>1, <2>1, <2>5 DEF StepPe
    <3> QED
      BY <1>1, <1>2, <2>1, <2>2, <2>3, <2>4, <3>1, <3>2
         DEF MakeSteps!MakeHive, MakeSteps!OverwriteFailed, MakeSteps!NoPe, MakeSteps!NoSource,
             NoSource
  <2> QED  BY <2>1, <2>6, <2>7
<1> QED
  BY <1>1, <1>3, <1>4, <1>5 DEF MakeThird

(* FOURTH_STEP: what its calls saw of a request is gone when it is over.   *)
LEMMA MakeFourthAsAssumed ==
  ASSUME Inv, Values, Values', MakeFourth
  PROVE  UNCHANGED stepVars \/ MakeSteps!MakeFourth
<1>1. /\ pc = "make.fourth" /\ UNCHANGED <<extractor, local, wimVars, loaded>> /\ next \in Nat
  BY AtIs DEF MakeFourth, Enter, BeginFolder, ExtractFile, isoVars, regVars
<1>2. UNCHANGED <<StepTmp, StepSoftware>> \/ pc' \notin {"make.fourth", "make.fifth"}
  BY <1>1 DEF StepTmp, StepSoftware
<1>3. StepPc = "make.fourth" /\ StepHive = loaded
  BY <1>1 DEF Values
<1>4. CASE Enter("make.fourth") /\ UNCHANGED pc
  <2>1. ~seen /\ ~seen'
    BY <1>4, EnterIs
  <2>2. UNCHANGED StepThread
    BY <2>1 DEF StepThread
  <2>3. StepPc' = "make.fourth" /\ StepHive' = loaded
    BY <1>1, <1>4 DEF Values
  <2>4. UNCHANGED StepPe
    BY <1>1, <1>4 DEF StepPe, FailedJustNow, wimVars
  <2> QED  BY <1>1, <1>2, <1>3, <1>4, <2>2, <2>3, <2>4 DEF stepVars
<1>5. CASE next \in DOMAIN Copies /\ next' = next + 1 /\ UNCHANGED <<pc, seen>>
  <2>1. next > 0
    <3>1. FolderCopies \in Seq(Copied) /\ FileCopies \in Seq(Copied)
      BY SettingsAssumption
    <3>2. Copies \in Seq(Copied)
      BY <3>1, ConcatProperties DEF Copies
    <3> QED  BY <1>5, <3>2, LenProperties
  <2>2. StepThread = "STARTED" /\ StepThread' = "STARTED"
    BY <1>1, <1>5, <2>1 DEF StepThread
  <2>3. StepPc' = "make.fourth" /\ StepHive' = loaded
    BY <1>1, <1>5 DEF Values
  <2>4. UNCHANGED StepPe
    BY <1>1, <1>5 DEF StepPe, FailedJustNow, wimVars
  <2> QED  BY <1>1, <1>2, <1>3, <1>5, <2>2, <2>3, <2>4 DEF stepVars
<1>6. CASE next > Len(Copies) /\ MakeStep("make.fifth") /\ seen' = FALSE
  <2>1. pc' = "make.fifth" /\ next' = 0
    BY <1>6 DEF MakeStep
  <2>2. next > 0
    <3>1. FolderCopies \in Seq(Copied) /\ FileCopies \in Seq(Copied)
      BY SettingsAssumption
    <3>2. Copies \in Seq(Copied)
      BY <3>1, ConcatProperties DEF Copies
    <3> QED  BY <1>1, <1>6, <3>2, LenProperties
  <2>3. StepThread = "STARTED" /\ StepThread' = "STARTED"
    BY <1>1, <1>6, <2>1, <2>2 DEF StepThread
  <2>4. StepPc' = "make.fifth" /\ StepHive' = loaded
    BY <1>1, <2>1 DEF Values
  <2>5. UNCHANGED StepPe
    BY <1>1, <2>1 DEF StepPe, FailedJustNow, wimVars
  <2>6. {} \in SUBSET MakeSteps!BootFile /\ {} = {} \cup {}
    OBVIOUS
  <2> QED
    BY <1>1, <1>2, <1>3, <2>1, <2>3, <2>4, <2>5, <2>6
       DEF MakeSteps!MakeFourth, MakeSteps!Enter, MakeSteps!TerminateRequired, IsoChosen
<1> QED
  BY <1>4, <1>5, <1>6 DEF MakeFourth

(* FIFTH_STEP: an image that was updated is one for the chosen machine.    *)
LEMMA MakeFifthAsAssumed ==
  ASSUME Inv, Values, Values', MakeFifth
  PROVE  UNCHANGED stepVars \/ MakeSteps!MakeFifth
<1>1. /\ pc = "make.fifth" /\ UNCHANGED <<isoVars, diskVars, pe, loaded>>
  BY AtIs DEF MakeFifth, Enter, BeginWim, regVars
<1>2. StepPc = "make.fifth" /\ StepHive = loaded
  BY <1>1 DEF Values
<1>3. UNCHANGED extractor
  BY <1>1 DEF isoVars
<1>4. CASE Enter("make.fifth") /\ BeginWim("Update", "pe", 1, UpdateCmds) /\ UNCHANGED pc
  <2>1. ~seen /\ ~seen' /\ next = 0
    BY <1>4, EnterIs
  <2>2. UNCHANGED StepThread
    BY <2>1 DEF StepThread
  <2>3. StepPc' = "make.fifth" /\ StepHive' = loaded
    BY <1>1, <1>4 DEF Values
  <2>4. UNCHANGED <<StepTmp, StepSoftware>>
    BY <1>1, <1>4 DEF StepTmp, StepSoftware, diskVars
  <2>5. UNCHANGED StepPe
    <3>1. wcall'.result = "SUCCESS"
      BY <1>4 DEF BeginWim, NoCall
    <3>2. ~FailedJustNow /\ ~FailedJustNow'
      BY <1>1, <1>4, <2>1, <3>1 DEF FailedJustNow
    <3> QED  BY <1>1, <1>4, <3>2 DEF StepPe
  <2> QED  BY <1>2, <1>3, <2>2, <2>3, <2>4, <2>5 DEF stepVars
<1>5. CASE /\ next = 1 /\ UNCHANGED seen
           /\ MakeStep(IF wcall.result = "SUCCESS" THEN "make.sixth" ELSE "make.end")
  <2>1. /\ wcall.op = "Update" /\ next' = 0 /\ wcall.at = "done"
        /\ pc' = (IF wcall.result = "SUCCESS" THEN "make.sixth" ELSE "make.end")
    BY <1>1, <1>5, AtIs DEF MakeStep, MakeFifth, Enter, Inv, StepInv, Updating, InUpdate
  <2>2. UNCHANGED StepThread
    BY <1>1, <1>5, <2>1 DEF StepThread
  <2>3. StepPc' = pc' /\ StepHive' = loaded
    BY <1>1, <2>1 DEF Values
  <2>4. UNCHANGED <<StepTmp, StepSoftware>>
    BY <1>1, <2>1 DEF StepTmp, StepSoftware, diskVars
  <2>5. ~FailedJustNow'
    BY <2>1 DEF FailedJustNow
  <2>6. CASE wcall.result = "SUCCESS"
    <3>1. pe.state = "whole"
      BY <2>1, <2>6 DEF Inv, StepInv, Updating
    <3>2. ~seen
      BY <1>1, <1>5, <2>6 DEF Inv, StepInv, Seen, Asking, Failing
    <3>3. StepThread = "STARTED"
      BY <3>2 DEF StepThread
    <3>4. StepPe = [state |-> "whole", src |-> Source, arch |-> "none"]
      BY <1>1, <3>1 DEF StepPe
    <3>5. StepPe' = [state |-> "whole", src |-> Source, arch |-> "x64"]
      BY <1>1, <2>1, <2>6, <3>1 DEF StepPe
    <3>6. MakeSteps!SelectedArch = "x64"
      BY DEF MakeSteps!SelectedArch, IsoChosen
    <3>7. StepPe' = [StepPe EXCEPT !.arch = MakeSteps!SelectedArch]
      BY <3>4, <3>5, <3>6
    <3> QED
      BY <1>2, <1>3, <2>1, <2>2, <2>3, <2>4, <2>6, <3>3, <3>4, <3>7
         DEF MakeSteps!MakeFifth, MakeSteps!TerminateRequired
  <2>7. CASE wcall.result # "SUCCESS"
    <3>1. StepPe' \in {StepPe, [state |-> "none", src |-> NoSource, arch |-> "none"]}
      BY <1>1, <2>1, <2>5, <2>7 DEF StepPe
    <3> QED
      BY <1>2, <1>3, <2>1, <2>2, <2>3, <2>4, <2>7, <3>1
         DEF MakeSteps!MakeFifth, MakeSteps!OverwriteFailed, MakeSteps!MakeFail, MakeSteps!Post,
             MakeSteps!NoPe, MakeSteps!NoSource, NoSource
  <2> QED  BY <2>6, <2>7
<1> QED
  BY <1>4, <1>5 DEF MakeFifth

(* What StepsAsAssumed says of a step.                                     *)
AsAssumed ==
  {pc, pc'} \cap {"exit", "over"} = {} =>
    CheckSteps!CheckStep \/ MakeSteps!MakeStep \/ Requested

(* What leaves all that the steps are of as it is leaves the steps so.     *)
LEMMA SameAsAssumed ==
  ASSUME Inv, Values, Values', Cancel \/ UNCHANGED vars
  PROVE  UNCHANGED stepVars
<1>1. UNCHANGED <<pc, next, extractor, local, seen, wcall, pe, reg, loaded>>
  BY DEF Cancel, vars, others, isoVars, diskVars, wimVars, regVars
<1>2. UNCHANGED StepPc
  BY <1>1 DEF StepPc, WimIdle
<1>3. UNCHANGED StepHive
  BY <1>1, <1>2 DEF StepHive
<1>4. UNCHANGED <<StepThread, StepTmp, StepSoftware>>
  BY <1>1 DEF StepThread, StepTmp, StepSoftware
<1>5. UNCHANGED StepPe
  BY <1>1 DEF StepPe, FailedJustNow
<1> QED
  BY <1>1, <1>2, <1>3, <1>4, <1>5 DEF stepVars

(* Each step of the workers is one of theirs, or none.                     *)
LEMMA EachAsAssumed ==
  ASSUME Inv, [Next]_vars, Values, Values'
  PROVE  AsAssumed \/ UNCHANGED stepVars
<1>1. CASE CheckFirst
  BY <1>1, CheckFirstAsAssumed DEF AsAssumed, CheckSteps!CheckStep
<1>2. CASE CheckSecond
  BY <1>2, CheckSecondAsAssumed DEF AsAssumed, CheckSteps!CheckStep
<1>3. CASE CheckThird
  BY <1>3, CheckThirdAsAssumed DEF AsAssumed, CheckSteps!CheckStep
<1>4. CASE CheckFourth \/ CheckSixth
  BY <1>4, CheckReportAsAssumed DEF AsAssumed, CheckSteps!CheckStep
<1>5. CASE CheckEnd \/ MakeEntry \/ MakeEnd \/ Dies \/ Over
  BY <1>5, SameAsAssumed
     DEF AsAssumed, CheckEnd, NextStep, MakeEntry, MakeEnd, Dies, Over
<1>6. CASE Cancelled
  BY <1>6, CancelledAsAssumed DEF AsAssumed, MakeSteps!MakeStep
<1>7. CASE MakeFirst
  BY <1>7, MakeFirstAsAssumed DEF AsAssumed, MakeSteps!MakeStep
<1>8. CASE MakeSecond
  BY <1>8, MakeSecondAsAssumed DEF AsAssumed, MakeSteps!MakeStep
<1>9. CASE MakeThird
  BY <1>9, MakeThirdAsAssumed DEF AsAssumed, MakeSteps!MakeStep
<1>10. CASE MakeFourth
  BY <1>10, MakeFourthAsAssumed DEF AsAssumed, MakeSteps!MakeStep
<1>11. CASE MakeFifth
  BY <1>11, MakeFifthAsAssumed DEF AsAssumed, MakeSteps!MakeStep
<1>12. CASE IsoStep /\ UNCHANGED <<cancel, wimVars, regVars, pc, next>>
  BY <1>12, IsoAsAssumed DEF AsAssumed
<1>13. CASE WimStep /\ UNCHANGED <<isoVars, cancel, regVars, pc, next>>
  BY <1>13, WimAsAssumed DEF AsAssumed
<1>14. CASE RegStep /\ UNCHANGED <<isoVars, diskVars, cancel, seen, late, wimVars, pc, next>>
  BY <1>14, RegAsAssumed DEF AsAssumed, MakeSteps!MakeStep
<1>15. CASE Cancel \/ UNCHANGED vars
  BY <1>15, SameAsAssumed
<1> QED
  BY <1>1, <1>2, <1>3, <1>4, <1>5, <1>6, <1>7, <1>8, <1>9, <1>10, <1>11, <1>12, <1>13, <1>14,
     <1>15 DEF Next, Worker, Calls

(* Call by call the workers do what CheckISOImage and MakePEImage take     *)
(* their steps to do: no step sees a file half done, none succeeds with a  *)
(* request it has seen, and a failure is where they say                    *)
(* (CheckISOImage.cpp, MakePEImage.cpp).                                   *)
THEOREM StepsAsAssumedHolds == Spec => StepsAsAssumed
<1>1. Inv /\ [Next]_vars => [AsAssumed]_stepVars
  BY ValuesNext, EachAsAssumed
<1>2. Inv /\ [Next]_vars =>
        [{pc, pc'} \cap {"exit", "over"} = {} =>
           CheckSteps!CheckStep \/ MakeSteps!MakeStep \/ Requested]_stepVars
  BY <1>1 DEF AsAssumed
<1> QED
  BY <1>2, InvHolds, PTL DEF StepsAsAssumed, Spec

-----------------------------------------------------------------------------
(***************************************************************************)
(* What FIFTH_STEP leaves in the image.                                    *)
(***************************************************************************)
(* p[k] is what is in the image after the first k commands of Update.      *)
AppliedBy(p, files, cmds) ==
  /\ p[0] = files
  /\ p[Len(cmds)] = Applied(files, cmds)
  /\ \A k \in 1 .. Len(cmds) :
       p[k] = IF cmds[k].op = "delete"
              THEN [path \in DOMAIN p[k - 1] \ {cmds[k].path} |-> p[k - 1][path]]
              ELSE [path \in DOMAIN p[k - 1] \cup {cmds[k].path} |->
                      IF path = cmds[k].path THEN "ours" ELSE p[k - 1][path]]

(* Update changes the image command by command.                            *)
LEMMA AppliedSteps ==
  ASSUME NEW files, NEW C, NEW cmds \in Seq(C)
  PROVE  \E p : AppliedBy(p, files, cmds)
<1> DEFINE n == Len(cmds)
           After(now, k) ==
             IF cmds[k].op = "delete"
             THEN [path \in DOMAIN now \ {cmds[k].path} |-> now[path]]
             ELSE [path \in DOMAIN now \cup {cmds[k].path} |->
                     IF path = cmds[k].path THEN "ours" ELSE now[path]]
           Paths == DOMAIN files \cup {cmds[k].path : k \in 1 .. n}
           Whose == {files[path] : path \in DOMAIN files} \cup {"ours"}
           X     == {files} \cup UNION {[S -> Whose] : S \in SUBSET Paths}
           step  == [at \in X \X (1 .. n) |-> After(at[1], at[2])]
           IsFold(h) == h = [t \in SUBSET (1 .. n) |->
                               IF t = {} THEN files ELSE After(h[t \ {Max(t)}], Max(t))]
           H     == CHOOSE h : IsFold(h)
<1>1. n \in Nat /\ DOMAIN cmds = 1 .. n
  BY LenProperties
<1>2. Applied(files, cmds) = H[1 .. n]
  BY <1>1 DEF Applied, FoldLeft, MapThenFoldSet
<1>3. \A now \in X : DOMAIN now \subseteq Paths /\ \A path \in DOMAIN now : now[path] \in Whose
  OBVIOUS
<1>4. step \in [X \X (1 .. n) -> X]
  <2> SUFFICES ASSUME NEW now \in X, NEW k \in 1 .. n PROVE After(now, k) \in X
    <3> HIDE DEF X, After
    <3>1. \A at \in X \X (1 .. n) : at[1] \in X /\ at[2] \in 1 .. n
      OBVIOUS
    <3> QED  BY <3>1
  <2>1. After(now, k) \in UNION {[S -> Whose] : S \in SUBSET Paths}
    <3> HIDE DEF X
    <3>1. CASE cmds[k].op = "delete"
      <4> DEFINE S == DOMAIN now \ {cmds[k].path}
      <4>1. [path \in S |-> now[path]] \in [S -> Whose] /\ S \in SUBSET Paths
        BY <1>3
      <4> QED  BY <3>1, <4>1
    <3>2. CASE cmds[k].op # "delete"
      <4> DEFINE S == DOMAIN now \cup {cmds[k].path}
      <4>1. S \in SUBSET Paths
        BY <1>3
      <4>2. [path \in S |-> IF path = cmds[k].path THEN "ours" ELSE now[path]] \in [S -> Whose]
        BY <1>3
      <4> QED  BY <3>2, <4>1, <4>2
    <3> QED  BY <3>1, <3>2
  <2> QED  BY <2>1
<1>5. \E h : IsFold(h)
  <2>1. PICK h \in [SUBSET (1 .. n) -> X] : Folds(h, n, files, step)
    <3> HIDE DEF X, step
    <3>1. files \in X
      BY DEF X
    <3> QED  BY <1>1, <1>4, <3>1, FoldExists
  <2>2. \A t \in SUBSET (1 .. n) : t # {} =>
          step[<<h[t \ {Max(t)}], Max(t)>>] = After(h[t \ {Max(t)}], Max(t))
    <3> HIDE DEF X, After
    <3> SUFFICES ASSUME NEW t \in SUBSET (1 .. n), t # {}
                 PROVE  step[<<h[t \ {Max(t)}], Max(t)>>] = After(h[t \ {Max(t)}], Max(t))
      OBVIOUS
    <3>1. t \in SUBSET (0 .. n)
      OBVIOUS
    <3>3. Max(t) \in t
      BY <1>1, <3>1, MaxIsIn
    <3>2. h[t \ {Max(t)}] \in X
      OBVIOUS
    <3> QED  BY <3>2, <3>3
  <2>3. IsFold(h)
    <3> HIDE DEF X, step, After
    <3> QED  BY <2>1, <2>2 DEF Folds
  <2> QED  BY <2>3
<1>6. IsFold(H)
  <2> HIDE DEF IsFold
  <2> QED  BY <1>5
<1> DEFINE p == [k \in 0 .. n |-> H[1 .. k]]
<1>7. \A k \in 1 .. n : p[k] = After(p[k - 1], k)
  <2> HIDE DEF H, After
  <2> TAKE k \in 1 .. n
  <2>1. 1 .. k \in SUBSET (1 .. n) /\ 1 .. k # {} /\ Max(1 .. k) = k /\ (1 .. k) \ {k} = 1 .. k - 1
    BY <1>1, FirstPositions
  <2>2. H[1 .. k] = After(H[1 .. k - 1], k)
    BY <1>6, <2>1
  <2>3. p[k] = H[1 .. k] /\ p[k - 1] = H[1 .. k - 1]
    BY <1>1
  <2> QED  BY <2>2, <2>3
<1>8. p[0] = files
  <2> HIDE DEF H, After
  <2>1. H[1 .. 0] = files
    BY <1>6
  <2> QED  BY <1>1, <2>1
<1>9. p[n] = Applied(files, cmds)
  BY <1>1, <1>2
<1> HIDE DEF p, H
<1>10. AppliedBy(p, files, cmds)
  BY <1>7, <1>8, <1>9 DEF AppliedBy
<1> QED
  BY <1>10

Of(op) == {cmd.path : cmd \in {c \in Range(UpdateCmds) : c.op = op}}

OursIn(files) ==
  /\ \A path \in Of("add") : path \in DOMAIN files /\ files[path] = "ours"
  /\ (Of("delete") \ Of("add")) \cap DOMAIN files = {}

(* Once applied, the commands of the settings have done what they are for: *)
(* nothing is deleted after something was added.                           *)
LEMMA AppliedIsOurs ==
  ASSUME NEW files
  PROVE  OursIn(Applied(files, UpdateCmds))
<1> DEFINE n == Len(UpdateCmds)
           Path(k) == UpdateCmds[k].path
           Op(k)   == UpdateCmds[k].op
<1>1. /\ n \in Nat /\ UpdateCmds \in [1 .. n -> Updates]
      /\ \A i, j \in 1 .. n : Op(i) = "delete" /\ Op(j) = "add" => i < j
  BY SettingsAssumption, LenProperties
<1>2. \A k \in 1 .. n : Op(k) \in {"delete", "add"}
  BY <1>1 DEF Updates
<1>3. PICK p : AppliedBy(p, files, UpdateCmds)
  BY SettingsAssumption, AppliedSteps
<1>4. p[n] = Applied(files, UpdateCmds)
  BY <1>3 DEF AppliedBy
<1>5. \A j \in 1 .. n, k \in 0 .. n - 1 : j = k + 1 =>
        /\ Op(j) = "delete" => p[j] = [path \in DOMAIN p[k] \ {Path(j)} |-> p[k][path]]
        /\ Op(j) = "add" => p[j] = [path \in DOMAIN p[k] \cup {Path(j)} |->
                                      IF path = Path(j) THEN "ours" ELSE p[k][path]]
  <2> SUFFICES ASSUME NEW j \in 1 .. n, NEW k \in 0 .. n - 1, j = k + 1
               PROVE  /\ Op(j) = "delete" =>
                           p[j] = [path \in DOMAIN p[k] \ {Path(j)} |-> p[k][path]]
                      /\ Op(j) = "add" =>
                           p[j] = [path \in DOMAIN p[k] \cup {Path(j)} |->
                                     IF path = Path(j) THEN "ours" ELSE p[k][path]]
    OBVIOUS
  <2>1. j - 1 = k
    OBVIOUS
  <2> QED  BY <1>3, <2>1 DEF AppliedBy
<1> DEFINE Added == {k \in 0 .. n : \A i \in 1 .. k : Op(i) = "add" =>
                                      Path(i) \in DOMAIN p[k] /\ p[k][Path(i)] = "ours"}
           Gone  == {k \in 0 .. n : \A i \in 1 .. k : Op(i) = "delete" /\ Path(i) \notin Of("add") =>
                                      Path(i) \notin DOMAIN p[k]}
<1>6. \A op : Of(op) = {Path(k) : k \in {i \in 1 .. n : Op(i) = op}}
  BY <1>1 DEF Of, Range
<1> HIDE DEF Path, Op, n
<1>7. n \in Added
  <2>1. 0 \in Added
    BY <1>1
  <2>2. ASSUME NEW k \in 0 .. n - 1, k \in Added PROVE k + 1 \in Added
    <3>1. k + 1 \in 1 .. n
      BY <1>1
    <3>2. SUFFICES ASSUME NEW i \in 1 .. k + 1, Op(i) = "add"
                   PROVE  Path(i) \in DOMAIN p[k + 1] /\ p[k + 1][Path(i)] = "ours"
      BY <3>1
    <3>3. Op(k + 1) = "add"
      BY <1>1, <1>2, <3>1, <3>2
    <3>4. p[k + 1] = [path \in DOMAIN p[k] \cup {Path(k + 1)} |->
                        IF path = Path(k + 1) THEN "ours" ELSE p[k][path]]
      BY <1>5, <3>1, <3>3
    <3>5. i = k + 1 \/ i \in 1 .. k
      BY <3>1
    <3> QED  BY <2>2, <3>2, <3>4, <3>5
  <2>3. 0 .. n \subseteq Added
    <3> HIDE DEF Added
    <3> QED  BY <1>1, <2>1, <2>2, UpTo
  <2> QED  BY <1>1, <2>3
<1>8. n \in Gone
  <2>1. 0 \in Gone
    BY <1>1
  <2>2. ASSUME NEW k \in 0 .. n - 1, k \in Gone PROVE k + 1 \in Gone
    <3>1. k + 1 \in 1 .. n
      BY <1>1
    <3>2. SUFFICES ASSUME NEW i \in 1 .. k + 1, Op(i) = "delete", Path(i) \notin Of("add")
                   PROVE  Path(i) \notin DOMAIN p[k + 1]
      BY <3>1
    <3>3. i = k + 1 \/ Path(i) \notin DOMAIN p[k]
      BY <2>2, <3>1, <3>2
    <3>4. CASE Op(k + 1) = "delete"
      <4>1. p[k + 1] = [path \in DOMAIN p[k] \ {Path(k + 1)} |-> p[k][path]]
        BY <1>5, <3>1, <3>4
      <4>2. DOMAIN p[k + 1] = DOMAIN p[k] \ {Path(k + 1)}
        BY <4>1
      <4> QED  BY <3>3, <4>2
    <3>5. CASE Op(k + 1) = "add"
      <4>0. p[k + 1] = [path \in DOMAIN p[k] \cup {Path(k + 1)} |->
                          IF path = Path(k + 1) THEN "ours" ELSE p[k][path]]
        BY <1>5, <3>1, <3>5
      <4>1. DOMAIN p[k + 1] = DOMAIN p[k] \cup {Path(k + 1)}
        BY <4>0
      <4>2. Path(k + 1) \in Of("add")
        BY <1>6, <3>1, <3>5
      <4>3. i # k + 1
        BY <3>2, <3>5
      <4> QED  BY <3>2, <3>3, <4>1, <4>2, <4>3
    <3> QED  BY <1>2, <3>1, <3>4, <3>5
  <2>3. 0 .. n \subseteq Gone
    <3> HIDE DEF Gone
    <3> QED  BY <1>1, <2>1, <2>2, UpTo
  <2> QED  BY <1>1, <2>3
<1>9. \A path \in Of("add") : path \in DOMAIN p[n] /\ p[n][path] = "ours"
  BY <1>6, <1>7
<1>10. \A path \in Of("delete") \ Of("add") : path \notin DOMAIN p[n]
  BY <1>6, <1>8
<1> QED
  BY <1>4, <1>9, <1>10 DEF OursIn

(* From the call of FIFTH_STEP on.                                         *)
Ours ==
  /\ pc = "make.fifth" /\ next = 1 =>
       /\ wcall.arg = UpdateCmds
       /\ Over1 /\ wcall.result = "SUCCESS" => OursIn(pe.files)
  /\ pc = "make.sixth" => OursIn(pe.files)

(* While wimlib writes the image, it is the old one; then it is the one    *)
(* the commands were applied to.                                           *)
LEMMA WimOurs ==
  ASSUME Inv, Ours, WimStep, UNCHANGED <<isoVars, cancel, regVars, pc, next>>
  PROVE  Ours'
<1>1. /\ wcall.at # "done" /\ (wcall.op = "Update" <=> InUpdate)
      /\ pc # "make.sixth"
  BY WimCall, CallPlace DEF InUpdate
<1>2. SUFFICES ASSUME pc = "make.fifth", next = 1
               PROVE  /\ wcall'.arg = UpdateCmds
                      /\ Over1' /\ wcall'.result = "SUCCESS" => OursIn(pe'.files)
  BY <1>1 DEF Ours
<1>3. wcall.op = "Update" /\ Opened = pe /\ wcall.arg = UpdateCmds
  BY <1>1, <1>2 DEF InUpdate, Ours, Opened, Inv, FilesInv, Asked
<1>4. wcall'.arg = UpdateCmds
  BY <1>3, WimCall
<1>5. ASSUME Over1', wcall'.result = "SUCCESS" PROVE OursIn(pe'.files)
  <2>1. CASE wcall.at = "END"
    BY <1>2, <1>3, <1>5, <2>1, WimCall DEF Ours, Over1
  <2>2. CASE wcall.at = "write" /\ pe' = NewFile
    <3>1. pe'.files = Applied(pe.files, UpdateCmds)
      BY <1>3, <2>2 DEF NewFile, Inv, FilesInv, Images, NoFile
    <3> QED  BY <3>1, AppliedIsOurs
  <2>3. CASE wcall.at # "END" /\ ~(wcall.at = "write" /\ pe' = NewFile)
    <3>1. "at" \in DOMAIN wcall /\ "result" \in DOMAIN wcall
      BY DEF Inv, LateInv, Fields
    <3>2. CASE MakeFolder \/ Open
      BY <1>3, <1>5, <3>1, <3>2 DEF MakeFolder, Open, Goto, Leave, Over1
    <3>3. CASE Update \/ WriteProgress
      BY <1>5, <3>1, <3>3 DEF Update, WriteProgress, WriteFails, Goto, Leave, Over1
    <3>4. CASE WritePart
      BY <1>5, <2>3, <3>1, <3>4 DEF WritePart, WriteFails, Leave, Over1
    <3>5. CASE ~(MakeFolder \/ Open \/ Update \/ WriteProgress \/ WritePart)
      BY <1>3, <2>3, <3>5
         DEF WimStep, GetNameInformations, GetPEImageNumber, Export, Extract, Free, Doing
    <3> QED  BY <3>2, <3>3, <3>4, <3>5
  <2> QED  BY <2>1, <2>2, <2>3
<1> QED
  BY <1>4, <1>5

(* A build that gets beyond FIFTH_STEP has every file of [Add] in the      *)
(* image, the ones [Delete] names too, and of [Delete] no other            *)
(* (MakePEImage.cpp:363-409).                                              *)
THEOREM OursIsInHolds == Spec => []OursIsIn
<1>1. Init => Ours
  BY DEF Init, Ours
<1>2. Inv /\ Ours /\ [Next]_vars => Ours'
  <2> SUFFICES ASSUME Inv, Ours, [Next]_vars PROVE Ours'
    OBVIOUS
  <2>1. CASE WimStep /\ UNCHANGED <<isoVars, cancel, regVars, pc, next>>
    BY <2>1, WimOurs
  <2>2. CASE MakeFifth
    <3>1. pc = "make.fifth" /\ wcall.at = "done" /\ next \in {0, 1} /\ UNCHANGED pe
      BY <2>2, AtIs DEF MakeFifth, Enter, BeginWim, Inv, StepInv, Position
    <3>2. CASE BeginWim("Update", "pe", 1, UpdateCmds) /\ next' = 1 /\ UNCHANGED pc
      BY <3>1, <3>2 DEF BeginWim, NoCall, Ours, Over1
    <3>3. CASE next = 1 /\ MakeStep(IF wcall.result = "SUCCESS" THEN "make.sixth" ELSE "make.end")
      BY <3>1, <3>3 DEF MakeStep, Ours, Over1
    <3> QED  BY <2>2, <3>2, <3>3 DEF MakeFifth
  <2>3. CASE UNCHANGED <<wcall, pe, pc, next>>
    BY <2>3 DEF Ours, Over1
  <2>4. CASE pc' \notin {"make.fifth", "make.sixth"} \/ (pc' = "make.fifth" /\ next' = 0)
    BY <2>4 DEF Ours
  <2>5. CASE CheckFirst \/ CheckSecond \/ CheckThird \/ CheckFourth \/ CheckSixth \/ CheckEnd
    <3>1. pc' \notin {"make.fifth", "make.sixth"}
      BY <2>5 DEF CheckFirst, CheckSecond, CheckThird, CheckFourth, CheckSixth, CheckEnd, At, NextStep,
                  ExtractAll
    <3> QED  BY <2>4, <3>1
  <2>6. CASE Cancelled \/ MakeFirst \/ MakeSecond \/ MakeThird \/ MakeFourth
    <3>1. CASE Cancelled
      BY <2>3, <2>4, <3>1 DEF Cancelled, others, wimVars
    <3>2. CASE MakeFirst \/ MakeSecond \/ MakeThird \/ MakeFourth
      BY <2>4, <3>2 DEF MakeFirst, MakeSecond, MakeThird, MakeFourth, Enter, At, MakeStep, ExtractAll
    <3> QED  BY <2>6, <3>1, <3>2
  <2>7. CASE MakeEnd \/ Dies \/ MakeEntry \/ Cancel \/ Over \/ UNCHANGED vars
    BY <2>3, <2>4, <2>7 DEF MakeEnd, Dies, MakeEntry, Cancel, Over, others, vars, wimVars
  <2>8. CASE (IsoStep \/ RegStep) /\ UNCHANGED <<wimVars, pc, next>>
    BY <2>3, <2>8 DEF wimVars
  <2> QED
    BY <2>1, <2>2, <2>5, <2>6, <2>7, <2>8 DEF Next, Worker, Calls
<1>3. Ours => OursIsIn
  BY DEF Ours, OursIn, OursIsIn, Of
<1> QED
  BY <1>1, <1>2, <1>3, InvHolds, PTL DEF Spec
=============================================================================
