---------------------------- MODULE PEMakerProofs ---------------------------
(***************************************************************************)
(* Proofs about PEMaker, for any files, any list of DISM commands and any  *)
(* buttons the user presses.                                               *)
(***************************************************************************)
EXTENDS PEMaker, TLAPS

-----------------------------------------------------------------------------
(* Type correctness. *)

(* The constant states of the files. *)
LEMMA FileStates ==
  /\ NoWim \in WimType /\ PartialWim \in WimType
  /\ NoPe \in PeType
  /\ NoIso \in IsoType /\ PartialIso \in IsoType
BY DEF NoWim, NoPe, NoIso, PartialWim, PartialIso, WimType, PeType, IsoType,
       FileState, NoSource, SourceType

(* What the choices stand for has the type of the files made from them. *)
LEMMA Selections ==
  ASSUME holder \in DataHolderType
  PROVE  /\ holder.method # Unset => SelectedSource \in SourceType
         /\ SelectedArch \in Arch
         /\ SelectedBoot \in BootFile
BY DEF DataHolderType, SelectedSource, SourceType, Method, Unset, SelectedArch,
       Arch, SelectedBoot, BootFile

(* A queued event keeps the type of the queue. *)
LEMMA PostType ==
  ASSUME ThreadType, NEW e \in EventKind, Post(e)
  PROVE  events' \in Seq(EventKind)
BY DEF ThreadType, Post

(* The state a worker ends in is one, and can be posted. *)
LEMMA CompletedIsState ==
  CompletedState \in ThreadState /\ CompletedState \in EventKind
BY DEF CompletedState, ThreadState, EventKind

(* The two ways a removal of the folder ends. *)
LEMMA RemovalType ==
  ASSUME WorkDirType, RemoveWorkDir \/ RemoveWorkDirFails, dir' \in BOOLEAN
  PROVE  WorkDirType'
<1>1. CASE RemoveWorkDir
  BY <1>1, FileStates DEF RemoveWorkDir, WorkDirType
<1>2. CASE RemoveWorkDirFails
  <2>1. tmpWim' \in WimType /\ software' \in BOOLEAN
    BY <1>2, FileStates DEF RemoveWorkDirFails, TmpPartlyRemoved, WorkDirType
  <2>2. QED
    BY <1>2, <2>1, FileStates DEF RemoveWorkDirFails, WorkDirType
<1>3. QED
  BY <1>1, <1>2

(* What FIRST_ or SECOND_STEP leaves in tmp. *)
LEMMA FetchType ==
  ASSUME TypeOK, pc # "none", Fetched \/ FetchFailed
  PROVE  tmpWim' \in WimType
BY FileStates, Selections
   DEF TypeOK, WorkerOfPage, WorkDirType, WimType, FileState, Fetched, FetchFailed

(* A step of the first worker keeps the types.                             *)
LEMMA CheckStepType ==
  ASSUME TypeOK, CheckStep, UNCHANGED <<dismNext, guiVars>>
  PROVE  TypeOK'
<1> USE DEF TypeOK
<1>1. CASE CheckEntry
  <2>1. WorkDirType'
    BY <1>1 DEF CheckEntry, workVars, WorkDirType
  <2>2. ThreadType'
    BY <1>1, PostType
       DEF CheckEntry, SetStateStart, ThreadState, EventKind, ThreadType
  <2>3. WorkerOfPage'
    BY <1>1 DEF CheckEntry, WorkerOfPage, checkPc, makePc, guiVars, pageVars
  <2>4. QED
    BY <1>1, <2>1, <2>2, <2>3 DEF CheckEntry, GuiType, guiVars, pageVars
<1>2. CASE CheckPrep
  <2>1. WorkDirType'
    <3>1. RemoveWorkDir \/ RemoveWorkDirFails
      BY <1>2 DEF CheckPrep
    <3>2. dir' \in BOOLEAN
      BY <1>2 DEF CheckPrep, PrepareWorkDir, PrepareWorkDirFails,
                  RemoveWorkDirFails, WorkDirType
    <3>3. QED
      BY <3>1, <3>2, RemovalType
  <2>2. ThreadType'
    BY <1>2, PostType DEF CheckPrep, CheckFail, EventKind, ThreadType
  <2>3. WorkerOfPage'
    BY <1>2
       DEF CheckPrep, CheckFail, WorkerOfPage, checkPc, makePc, guiVars,
           pageVars
  <2>4. QED
    BY <1>2, <2>1, <2>2, <2>3 DEF CheckPrep, GuiType, guiVars, pageVars
<1>3. CASE CheckFirstFromRE
  <2>1. WorkDirType'
    BY <1>3, FetchType DEF CheckFirstFromRE, WorkDirType
  <2>2. ThreadType'
    BY <1>3, PostType DEF CheckFirstFromRE, CheckFail, EventKind, ThreadType
  <2>3. WorkerOfPage'
    BY <1>3
       DEF CheckFirstFromRE, CheckFail, WorkerOfPage, checkPc, makePc,
           guiVars, pageVars
  <2>4. QED
    BY <1>3, <2>1, <2>2, <2>3 DEF CheckFirstFromRE, GuiType, guiVars, pageVars
<1>4. CASE CheckFirstExisting
  <2>1. WorkDirType'
    BY <1>4, FetchType DEF CheckFirstExisting, WorkDirType
  <2>2. ThreadType'
    BY <1>4, PostType DEF CheckFirstExisting, CheckFail, EventKind, ThreadType
  <2>3. WorkerOfPage'
    BY <1>4
       DEF CheckFirstExisting, CheckFail, WorkerOfPage, checkPc, makePc,
           guiVars, pageVars
  <2>4. QED
    BY <1>4, <2>1, <2>2, <2>3
       DEF CheckFirstExisting, GuiType, guiVars, pageVars
<1>5. CASE CheckFirstFromISO
  <2>1. WorkDirType'
    BY <1>5 DEF CheckFirstFromISO, workVars, WorkDirType
  <2>2. ThreadType'
    BY <1>5, PostType DEF CheckFirstFromISO, CheckFail, EventKind, ThreadType
  <2>3. WorkerOfPage'
    BY <1>5
       DEF CheckFirstFromISO, CheckFail, WorkerOfPage, checkPc, makePc,
           guiVars, pageVars
  <2>4. QED
    BY <1>5, <2>1, <2>2, <2>3
       DEF CheckFirstFromISO, GuiType, guiVars, pageVars
<1>6. CASE CheckSecond
  <2>1. WorkDirType'
    BY <1>6, FetchType DEF CheckSecond, WorkDirType
  <2>2. ThreadType'
    BY <1>6 DEF CheckSecond, ThreadType
  <2>3. WorkerOfPage'
    BY <1>6 DEF CheckSecond, WorkerOfPage, checkPc, makePc, guiVars, pageVars
  <2>4. QED
    BY <1>6, <2>1, <2>2, <2>3 DEF CheckSecond, GuiType, guiVars, pageVars
<1>7. CASE CheckThird
  <2>1. WorkDirType'
    BY <1>7, FileStates DEF CheckThird, WimType, PeType, WorkDirType
  <2>2. ThreadType'
    BY <1>7 DEF CheckThird, ThreadType
  <2>3. WorkerOfPage'
    BY <1>7 DEF CheckThird, WorkerOfPage, checkPc, makePc, guiVars, pageVars
  <2>4. QED
    BY <1>7, <2>1, <2>2, <2>3 DEF CheckThird, GuiType, guiVars, pageVars
<1>8. CASE CheckReport
  <2>1. WorkDirType'
    BY <1>8 DEF CheckReport, workVars, WorkDirType
  <2>2. ThreadType'
    BY <1>8 DEF CheckReport, ThreadType
  <2>3. WorkerOfPage'
    BY <1>8 DEF CheckReport, WorkerOfPage, checkPc, makePc, guiVars, pageVars
  <2>4. QED
    BY <1>8, <2>1, <2>2, <2>3 DEF CheckReport, GuiType, guiVars, pageVars
<1>9. CASE CheckEnd
  <2>1. WorkDirType'
    BY <1>9 DEF CheckEnd, workVars, WorkDirType
  <2>2. ThreadType'
    BY <1>9, PostType, CompletedIsState
       DEF CheckEnd, SetStateComplete, ThreadType
  <2>3. WorkerOfPage'
    BY <1>9 DEF CheckEnd, WorkerOfPage, checkPc, makePc, guiVars, pageVars
  <2>4. QED
    BY <1>9, <2>1, <2>2, <2>3 DEF CheckEnd, GuiType, guiVars, pageVars
<1>10. QED
  BY <1>1, <1>2, <1>3, <1>4, <1>5, <1>6, <1>7, <1>8, <1>9 DEF CheckStep

(* A step of the second worker keeps the types.                            *)
LEMMA MakeStepType ==
  ASSUME TypeOK, MakeStep, UNCHANGED guiVars
  PROVE  TypeOK'
<1> USE DEF TypeOK
<1>1. CASE MakeEntry
  <2>1. WorkDirType'
    BY <1>1 DEF MakeEntry, workVars, WorkDirType
  <2>2. ThreadType'
    BY <1>1, PostType
       DEF MakeEntry, SetStateStart, ThreadState, EventKind, ThreadType
  <2>3. WorkerOfPage'
    BY <1>1 DEF MakeEntry, WorkerOfPage, checkPc, makePc, guiVars, pageVars
  <2>4. QED
    BY <1>1, <2>1, <2>2, <2>3 DEF MakeEntry, GuiType, guiVars, pageVars
<1>2. CASE MakePrep
  <2>1. WorkDirType'
    BY <1>2 DEF MakePrep, workVars, WorkDirType
  <2>2. ThreadType'
    BY <1>2, PostType DEF MakePrep, MakeFail, EventKind, ThreadType
  <2>3. WorkerOfPage'
    BY <1>2
       DEF MakePrep, MakeFail, WorkerOfPage, checkPc, makePc, guiVars,
           pageVars
  <2>4. QED
    BY <1>2, <2>1, <2>2, <2>3 DEF MakePrep, GuiType, guiVars, pageVars
<1>3. CASE MakeFirst
  <2>1. WorkDirType'
    BY <1>3 DEF MakeFirst, workVars, WorkDirType
  <2>2. ThreadType'
    BY <1>3, PostType DEF MakeFirst, MakeFail, EventKind, ThreadType
  <2>3. WorkerOfPage'
    BY <1>3
       DEF MakeFirst, Enter, MakeFail, WorkerOfPage, checkPc, makePc, guiVars,
           pageVars
  <2>4. QED
    BY <1>3, <2>1, <2>2, <2>3 DEF MakeFirst, GuiType, guiVars, pageVars
<1>4. CASE MakeSecond
  <2>1. WorkDirType'
    BY <1>4, Selections DEF MakeSecond, Enter, WorkDirType
  <2>2. ThreadType'
    BY <1>4 DEF MakeSecond, ThreadType
  <2>3. WorkerOfPage'
    BY <1>4
       DEF MakeSecond, Enter, WorkerOfPage, checkPc, makePc, guiVars, pageVars
  <2>4. QED
    BY <1>4, <2>1, <2>2, <2>3 DEF MakeSecond, GuiType, guiVars, pageVars
<1>5. CASE MakeThird
  <2>1. WorkDirType'
    <3>1. hive' \in BOOLEAN
      BY <1>5 DEF MakeThird, WorkDirType
    <3>2. QED
      BY <1>5, <3>1 DEF MakeThird, WorkDirType
  <2>2. ThreadType'
    BY <1>5 DEF MakeThird, ThreadType
  <2>3. WorkerOfPage'
    BY <1>5
       DEF MakeThird, Enter, WorkerOfPage, checkPc, makePc, guiVars, pageVars
  <2>4. QED
    BY <1>5, <2>1, <2>2, <2>3 DEF MakeThird, GuiType, guiVars, pageVars
<1>6. CASE MakeHive
  <2>1. WorkDirType'
    BY <1>6, FileStates DEF MakeHive, OverwriteFailed, WorkDirType
  <2>2. ThreadType'
    BY <1>6 DEF MakeHive, ThreadType
  <2>3. WorkerOfPage'
    BY <1>6 DEF MakeHive, WorkerOfPage, checkPc, makePc, guiVars, pageVars
  <2>4. QED
    BY <1>6, <2>1, <2>2, <2>3 DEF MakeHive, GuiType, guiVars, pageVars
<1>7. CASE MakeFourth
  <2>1. WorkDirType'
    BY <1>7 DEF MakeFourth, WorkDirType
  <2>2. ThreadType'
    BY <1>7 DEF MakeFourth, ThreadType
  <2>3. WorkerOfPage'
    BY <1>7
       DEF MakeFourth, Enter, WorkerOfPage, checkPc, makePc, guiVars, pageVars
  <2>4. QED
    BY <1>7, <2>1, <2>2, <2>3 DEF MakeFourth, GuiType, guiVars, pageVars
<1>8. CASE MakeFifth
  <2>1. WorkDirType'
    BY <1>8, FileStates, Selections
       DEF MakeFifth, OverwriteFailed, PeType, WorkDirType
  <2>2. ThreadType'
    BY <1>8, PostType DEF MakeFifth, MakeFail, EventKind, ThreadType
  <2>3. WorkerOfPage'
    BY <1>8
       DEF MakeFifth, MakeFail, WorkerOfPage, checkPc, makePc, guiVars,
           pageVars
  <2>4. QED
    BY <1>8, <2>1, <2>2, <2>3 DEF MakeFifth, GuiType, guiVars, pageVars
<1>9. CASE MakeSixth
  <2>1. WorkDirType'
    BY <1>9 DEF MakeSixth, workVars, WorkDirType
  <2>2. ThreadType'
    BY <1>9 DEF MakeSixth, ThreadType
  <2>3. WorkerOfPage'
    BY <1>9
       DEF MakeSixth, Enter, WorkerOfPage, checkPc, makePc, guiVars, pageVars
  <2>4. QED
    BY <1>9, <2>1, <2>2, <2>3 DEF MakeSixth, GuiType, guiVars, pageVars
<1>10. CASE MakeSeventh
  <2>1. WorkDirType'
    BY <1>10 DEF MakeSeventh, workVars, WorkDirType
  <2>2. ThreadType'
    BY <1>10 DEF MakeSeventh, ThreadType
  <2>3. WorkerOfPage'
    BY <1>10
       DEF MakeSeventh, Enter, WorkerOfPage, checkPc, makePc, guiVars,
           pageVars
  <2>4. QED
    BY <1>10, <2>1, <2>2, <2>3, DismAssumption
       DEF MakeSeventh, GuiType, guiVars, pageVars
<1>11. CASE MakeDism
  <2>1. WorkDirType'
    <3>1. DismCmds[dismNext] \in {"mount", "service", "unmount"}
      BY <1>11, DismAssumption DEF MakeDism
    <3>2. mounted' \in BOOLEAN
      BY <1>11, <3>1 DEF MakeDism, WorkDirType
    <3>3. QED
      BY <1>11, <3>2 DEF MakeDism, WorkDirType
  <2>2. ThreadType'
    BY <1>11 DEF MakeDism, ThreadType
  <2>3. WorkerOfPage'
    BY <1>11
       DEF MakeDism, Enter, WorkerOfPage, checkPc, makePc, guiVars, pageVars
  <2>4. QED
    BY <1>11, <2>1, <2>2, <2>3, DismAssumption
       DEF MakeDism, GuiType, guiVars, pageVars
<1>12. CASE MakeDismDone
  <2>1. WorkDirType'
    BY <1>12 DEF MakeDismDone, workVars, WorkDirType
  <2>2. ThreadType'
    BY <1>12 DEF MakeDismDone, ThreadType
  <2>3. WorkerOfPage'
    BY <1>12
       DEF MakeDismDone, WorkerOfPage, checkPc, makePc, guiVars, pageVars
  <2>4. QED
    BY <1>12, <2>1, <2>2, <2>3 DEF MakeDismDone, GuiType, guiVars, pageVars
<1>13. CASE MakeEighth
  <2>1. WorkDirType'
    BY <1>13, FileStates, Selections
       DEF MakeEighth, MadeIso, PeType, IsoType, FileState, WorkDirType
  <2>2. ThreadType'
    BY <1>13, PostType DEF MakeEighth, MakeFail, EventKind, ThreadType
  <2>3. WorkerOfPage'
    BY <1>13
       DEF MakeEighth, MakeFail, WorkerOfPage, checkPc, makePc, guiVars,
           pageVars
  <2>4. QED
    BY <1>13, <2>1, <2>2, <2>3 DEF MakeEighth, GuiType, guiVars, pageVars
<1>14. CASE MakeFinal
  <2>1. WorkDirType'
    <3>1. tmpWim' \in WimType /\ software' \in BOOLEAN
      BY <1>14, FileStates
         DEF MakeFinal, RemoveTmp, TmpPartlyRemoved, WorkDirType
    <3>2. QED
      BY <1>14, <3>1 DEF MakeFinal, RemoveTmp, WorkDirType
  <2>2. ThreadType'
    BY <1>14 DEF MakeFinal, ThreadType
  <2>3. WorkerOfPage'
    BY <1>14 DEF MakeFinal, WorkerOfPage, checkPc, makePc, guiVars, pageVars
  <2>4. QED
    BY <1>14, <2>1, <2>2, <2>3 DEF MakeFinal, GuiType, guiVars, pageVars
<1>15. CASE MakeEnd
  <2>1. WorkDirType'
    BY <1>15 DEF MakeEnd, workVars, WorkDirType
  <2>2. ThreadType'
    BY <1>15, PostType, CompletedIsState
       DEF MakeEnd, SetStateComplete, ThreadType
  <2>3. WorkerOfPage'
    BY <1>15 DEF MakeEnd, WorkerOfPage, checkPc, makePc, guiVars, pageVars
  <2>4. QED
    BY <1>15, <2>1, <2>2, <2>3 DEF MakeEnd, GuiType, guiVars, pageVars
<1>16. CASE MakeCancelled
  <2>1. WorkDirType'
    BY <1>16 DEF MakeCancelled, Cancelled, workVars, WorkDirType
  <2>2. ThreadType'
    BY <1>16 DEF MakeCancelled, Cancelled, ThreadType
  <2>3. WorkerOfPage'
    BY <1>16
       DEF MakeCancelled, Cancelled, WorkerOfPage, checkPc, makePc, guiVars,
           pageVars
  <2>4. QED
    BY <1>16, <2>1, <2>2, <2>3
       DEF MakeCancelled, Cancelled, GuiType, guiVars, pageVars
<1>17. QED
  BY <1>1, <1>2, <1>3, <1>4, <1>5, <1>6, <1>7, <1>8, <1>9, <1>10, <1>11,
     <1>12, <1>13, <1>14, <1>15, <1>16
     DEF MakeStep

-----------------------------------------------------------------------------
(* The queue of a new page. *)
LEMMA NoEvents == <<>> \in Seq(EventKind)
OBVIOUS

(* The index a new worker starts its commands from. *)
LEMMA FirstDism == 1 \in 1 .. Len(DismCmds) + 1
<1>1. Len(DismCmds) \in Nat
  BY DismAssumption
<1>2. QED
  BY <1>1

(* The widgets of a new page have their types. *)
LEMMA ResetType ==
  ASSUME NEW p \in Page, ResetPage(p)
  PROVE  GuiType'
<1>1. label' \in Label
  BY DEF ResetPage, Label
<1>2. /\ nextEnabled' \in BOOLEAN
      /\ prevEnabled' \in BOOLEAN
      /\ checkError' \in BOOLEAN
  BY DEF ResetPage
<1>3. QED
  BY <1>1, <1>2 DEF ResetPage, GuiType, NoClick

(* A page is built, with its worker, over choices it may read. *)
LEMMA ShowType ==
  ASSUME TypeOK, NEW p \in Page \ {"Closed"}, Show(p),
         holder' \in DataHolderType, p = "Main" \/ holder'.method # Unset,
         UNCHANGED workVars
  PROVE  TypeOK'
<1>1. WorkDirType'
  BY DEF TypeOK, WorkDirType, workVars
<1>2. ThreadType' /\ dismNext' \in 1 .. Len(DismCmds) + 1
  BY NoEvents, FirstDism DEF Show, NewThread, ThreadType, ThreadState
<1>3. GuiType'
  BY ResetType DEF Show
<1>4. WorkerOfPage'
  BY DEF TypeOK, Show, ResetPage, NewThread, WorkerOfPage, Page, ProgressPage,
         checkPc, makePc
<1>5. QED
  BY <1>1, <1>2, <1>3, <1>4 DEF TypeOK

(* Closing the window keeps the types. *)
LEMMA CloseType ==
  ASSUME TypeOK, OnClose
  PROVE  TypeOK'
<1>1. WorkDirType'
  BY DEF TypeOK, OnClose, WorkDirType, workVars
<1>2. ThreadType'
  BY NoEvents DEF TypeOK, OnClose, ThreadType
<1>3. GuiType'
  BY ResetType DEF OnClose, Page
<1>4. WorkerOfPage'
  BY DEF TypeOK, OnClose, ResetPage, WorkerOfPage, ProgressPage
<1>5. QED
  BY <1>1, <1>2, <1>3, <1>4 DEF TypeOK, OnClose

(* A handler that only asks the worker to stop, and one that does nothing. *)
LEMMA StayType ==
  ASSUME TypeOK, Stay, UNCHANGED <<pc, listening, isoOpen, workVars, dismNext>>,
         nextEnabled' \in BOOLEAN, holder' \in DataHolderType,
         holder'.method = holder.method,
         Terminate \/ UNCHANGED <<tstate, events>>
  PROVE  TypeOK'
<1>1. WorkDirType'
  BY DEF TypeOK, WorkDirType, workVars
<1>2. ThreadType'
  BY PostType DEF TypeOK, ThreadType, Terminate, ThreadState, EventKind
<1>3. GuiType'
  BY DEF TypeOK, Stay, GuiType, NoClick
<1>4. WorkerOfPage'
  BY DEF TypeOK, Stay, WorkerOfPage
<1>5. QED
  BY <1>1, <1>2, <1>3, <1>4 DEF TypeOK

(* So do the two buttons with a file dialog, cancelled or not. *)
LEMMA OpenFileType ==
  ASSUME TypeOK, NEW m \in Method, OpenFile(m)
  PROVE  TypeOK'
<1>1. CASE Stay /\ UNCHANGED <<threadVars, workVars, holder, dismNext, nextEnabled>>
  BY <1>1, StayType DEF TypeOK, GuiType, threadVars
<1>2. ASSUME NEW f \in Paths,
             holder' = [holder EXCEPT !.method = m, !.path = f],
             Show("CheckISO"), UNCHANGED workVars
      PROVE  TypeOK'
  <2>1. holder' \in DataHolderType
    BY <1>2 DEF TypeOK, DataHolderType
  <2>2. holder'.method # Unset
    BY <1>2 DEF TypeOK, DataHolderType, Method, Unset
  <2>3. QED
    BY <1>2, <2>1, <2>2, ShowType DEF Page
<1>3. QED
  BY <1>1, <1>2 DEF OpenFile

(* So does Next on a progress page, whatever it does. *)
LEMMA NextButtonType ==
  ASSUME TypeOK, NEW p \in ProgressPage, NEW q \in Page \ {"Closed"},
         OnClickNext(p, q)
  PROVE  TypeOK'
<1>1. holder.method # Unset
  BY DEF TypeOK, WorkerOfPage, OnClickNext, Clicked, ProgressPage
<1>2. CASE goback \/ gonext
  <2>1. PICK r \in {"Main", q} : Show(r) /\ UNCHANGED <<workVars, holder>>
    BY <1>2 DEF OnClickNext
  <2>2. QED
    BY <1>1, <2>1, ShowType DEF TypeOK, Page
<1>3. CASE ~goback /\ ~gonext
  BY <1>3, StayType DEF OnClickNext, TypeOK, GuiType
<1>4. QED
  BY <1>2, <1>3

(* A handler of the GUI thread keeps the types. *)
LEMMA HandleEventType ==
  ASSUME TypeOK, HandleEvent
  PROVE  TypeOK'
<1> DEFINE ev == Head(events)
<1>1. WorkDirType'
  BY DEF TypeOK, HandleEvent, WorkDirType, workVars
<1>2. ThreadType'
  BY DEF TypeOK, HandleEvent, ThreadType
<1>3. goback' \in BOOLEAN /\ gonext' \in BOOLEAN /\ prevEnabled' \in BOOLEAN
  BY DEF HandleEvent, OnThreadEvent
<1>4. error' \in BOOLEAN /\ checkError' \in BOOLEAN
  BY DEF HandleEvent, OnError
<1>5. label' \in Label
  <2>1. OnThreadEvent(ev)
    BY DEF HandleEvent
  <2>2. label' \in {label, "Error", "Next", "Canceling", "Canceled"}
    BY <2>1 DEF OnThreadEvent
  <2>3. QED
    BY <2>2 DEF TypeOK, GuiType, Label
<1>6. GuiType'
  BY <1>3, <1>4, <1>5 DEF TypeOK, HandleEvent, GuiType
<1>7. WorkerOfPage'
  BY DEF TypeOK, HandleEvent, WorkerOfPage
<1>8. QED
  BY <1>1, <1>2, <1>6, <1>7 DEF TypeOK, HandleEvent

(* Every click handler keeps the types. *)
LEMMA HandleClickType ==
  ASSUME TypeOK, HandleClick
  PROVE  TypeOK'
<1>1. CASE OnClickREButton
  <2>1. holder' \in DataHolderType /\ holder'.method # Unset
    BY <1>1 DEF OnClickREButton, TypeOK, DataHolderType, Method, Unset
  <2>2. QED
    BY <1>1, <2>1, ShowType DEF OnClickREButton, Page
<1>2. CASE OnClickISOButton
  BY <1>2, OpenFileType DEF OnClickISOButton, Method
<1>3. CASE OnClickBootWimButton
  BY <1>3, OpenFileType DEF OnClickBootWimButton, Method
<1>4. CASE CheckISO_OnClickNextButton
  BY <1>4, NextButtonType DEF CheckISO_OnClickNextButton, ProgressPage, Page
<1>5. CASE CheckISO_OnClickPrevButton
  BY <1>5, ShowType DEF CheckISO_OnClickPrevButton, Page, TypeOK
<1>6. CASE Select_OnClickPrevNext
  <2>1. holder.method # Unset
    BY <1>6 DEF Select_OnClickPrevNext, Clicked, TypeOK, WorkerOfPage
  <2>2. PICK p \in {"Main", "SelectArch", "SelectMbrGpt", "Extract"} : Show(p)
    BY <1>6 DEF Select_OnClickPrevNext
  <2>3. QED
    BY <1>6, <2>1, <2>2, ShowType DEF Select_OnClickPrevNext, Page, TypeOK
<1>7. CASE Select_OnClickButton
  <2>1. /\ holder' \in DataHolderType
        /\ holder'.method = holder.method
    <3>1. CASE holder' = [holder EXCEPT !.Arch32bit = (click = "32bit")]
      BY <3>1 DEF TypeOK, DataHolderType
    <3>2. CASE holder' = [holder EXCEPT !.Mbr = (click = "Mbr")]
      BY <3>2 DEF TypeOK, DataHolderType
    <3>3. QED
      BY <1>7, <3>1, <3>2 DEF Select_OnClickButton
  <2>2. QED
    BY <1>7, <2>1, StayType DEF Select_OnClickButton, threadVars
<1>8. CASE Extract_OnClickNextButton
  BY <1>8, NextButtonType DEF Extract_OnClickNextButton, ProgressPage, Page
<1>9. CASE OnClickButtonTop
  BY <1>9, ShowType DEF OnClickButtonTop, Page, TypeOK
<1>10. CASE OnClickButtonQuit
  BY <1>10, CloseType DEF OnClickButtonQuit
<1>11. QED
  BY <1>1, <1>2, <1>3, <1>4, <1>5, <1>6, <1>7, <1>8, <1>9, <1>10 DEF HandleClick

(* The program starts with the types. *)
LEMMA InitType == Init => TypeOK
<1> SUFFICES ASSUME Init PROVE TypeOK
  OBVIOUS
<1>1. holder \in DataHolderType
  BY DEF Init, InitialChoices, DataHolderType
<1>2. WorkDirType
  BY FileStates DEF Init, WorkDirInit, WorkDirType
<1>3. ThreadType /\ dismNext \in 1 .. Len(DismCmds) + 1
  BY NoEvents, FirstDism DEF Init, ThreadType, ThreadState
<1>4. GuiType /\ WorkerOfPage
  BY DEF Init, GuiType, WorkerOfPage, Page, NoClick, Label, ProgressPage
<1>5. QED
  BY <1>1, <1>2, <1>3, <1>4 DEF TypeOK

(* The induction step of type correctness. *)
LEMMA NextType == TypeOK /\ [Next]_vars => TypeOK'
<1> SUFFICES ASSUME TypeOK, [Next]_vars PROVE TypeOK'
  OBVIOUS
<1>1. CASE WorkerStep
  BY <1>1, CheckStepType, MakeStepType DEF WorkerStep
<1>2. CASE HandleEvent
  BY <1>2, HandleEventType
<1>3. CASE HandleClick
  BY <1>3, HandleClickType
<1>4. CASE User
  BY <1>4, UsesAssumption
     DEF User, MouseReleased, TypeOK, WorkDirType, ThreadType, GuiType,
         WorkerOfPage, workVars, threadVars
<1>5. CASE CloseBox
  BY <1>5, CloseType DEF CloseBox
<1>6. CASE Relaunch
  <2>1. holder' \in DataHolderType
    BY <1>6 DEF Relaunch, InitialChoices, DataHolderType
  <2>2. QED
    BY <1>6, <2>1, ShowType DEF Relaunch, Page
<1>7. CASE UNCHANGED vars
  BY <1>7 DEF vars, threadVars, workVars, guiVars, pageVars, TypeOK, WorkDirType,
              ThreadType, GuiType, WorkerOfPage
<1>8. QED
  BY <1>1, <1>2, <1>3, <1>4, <1>5, <1>6, <1>7 DEF Next

(***************************************************************************)
(* Type correctness: every variable keeps its type, and the worker that    *)
(* runs is the one the page on display created, on choices the user made.  *)
(***************************************************************************)
THEOREM TypeCorrect == Spec => []TypeOK
BY InitType, NextType, PTL DEF Spec

-----------------------------------------------------------------------------
(***************************************************************************)
(* The worker, its queued events and the page.  Seen from the page, a step *)
(* of either worker is its start, its end, or something in between that    *)
(* posts no more than an error.                                            *)
(***************************************************************************)
Idle == {"none", "check.entry", "make.entry"}

Starts == pc \in Idle /\ pc' \notin Idle \cup {"exit"} /\ SetStateStart
Ends   == pc \notin Idle \cup {"exit"} /\ pc' = "exit" /\ SetStateComplete
Works  == /\ pc \notin Idle \cup {"exit"}
          /\ pc' \notin Idle \cup {"exit"}
          /\ UNCHANGED tstate
          /\ Post("ERROR") \/ UNCHANGED events

(* What the page knows of its worker is behind what the worker did, and    *)
(* never ahead of it.                                                      *)
WorkerPhase ==
  /\ tstate = "NOTSTARTED" <=> pc \in {"none", "check.entry", "make.entry"}
  /\ Completed <=> pc = "exit"

EventsFollowState ==
  \A i \in 1 .. Len(events) :
    /\ events[i] = "FINISHED" => tstate = "FINISHED"
    /\ events[i] = "TERMINATED" => tstate = "TERMINATED"
    /\ events[i] = "TERMINATING" => tstate \in {"TERMINATING", "TERMINATED"}

PageFollowsEvents ==
  /\ gonext => tstate = "FINISHED"
  /\ goback => Completed
  /\ label = "Canceling" => tstate \in {"TERMINATING", "TERMINATED"}
  /\ page = "CheckISO" /\ (prevEnabled \/ click = "Prev") => gonext
  /\ page \notin ProgressPage => ~goback /\ ~gonext

ControlInv == WorkerPhase /\ EventsFollowState /\ PageFollowsEvents

(* Every step of the first worker has one of the three shapes. *)
LEMMA CheckStepShape ==
  ASSUME CheckStep
  PROVE  (Starts \/ Ends \/ Works) /\ UNCHANGED listening
<1> USE DEF Idle, CheckFail
<1>1. CASE CheckEntry
  BY <1>1 DEF CheckEntry, Starts
<1>2. CASE CheckEnd
  BY <1>2 DEF CheckEnd, Ends
<1>3. CASE CheckPrep
  BY <1>3 DEF CheckPrep, Works
<1>4. CASE CheckFirstFromRE \/ CheckFirstExisting \/ CheckFirstFromISO
  BY <1>4 DEF CheckFirstFromRE, CheckFirstExisting, CheckFirstFromISO, Works
<1>5. CASE CheckSecond \/ CheckThird \/ CheckReport
  BY <1>5 DEF CheckSecond, CheckThird, CheckReport, Works
<1>6. QED
  BY <1>1, <1>2, <1>3, <1>4, <1>5 DEF CheckStep

(* So has every step of the second. *)
LEMMA MakeStepShape ==
  ASSUME MakeStep
  PROVE  (Starts \/ Ends \/ Works) /\ UNCHANGED listening
<1> USE DEF Idle, MakeFail, Enter
<1>1. CASE MakeEntry
  BY <1>1 DEF MakeEntry, Starts
<1>2. CASE MakeEnd
  BY <1>2 DEF MakeEnd, Ends
<1>3. CASE MakePrep \/ MakeFirst
  BY <1>3 DEF MakePrep, MakeFirst, Works
<1>4. CASE MakeSecond \/ MakeThird \/ MakeHive \/ MakeFourth
  BY <1>4 DEF MakeSecond, MakeThird, MakeHive, MakeFourth, Works
<1>5. CASE MakeFifth \/ MakeSixth \/ MakeSeventh
  BY <1>5 DEF MakeFifth, MakeSixth, MakeSeventh, Works
<1>6. CASE MakeDism \/ MakeDismDone
  BY <1>6 DEF MakeDism, MakeDismDone, Works
<1>7. CASE MakeEighth \/ MakeFinal
  BY <1>7 DEF MakeEighth, MakeFinal, Works
<1>8. CASE MakeCancelled
  BY <1>8 DEF MakeCancelled, Cancelled, Works
<1>9. QED
  BY <1>1, <1>2, <1>3, <1>4, <1>5, <1>6, <1>7, <1>8 DEF MakeStep

(* Queueing an event keeps what the queue says of the state, if the event  *)
(* says the truth and the events before it still do.                       *)
Truthful(e, s) ==
  /\ e = "FINISHED" => s = "FINISHED"
  /\ e = "TERMINATED" => s = "TERMINATED"
  /\ e = "TERMINATING" => s \in {"TERMINATING", "TERMINATED"}

(* Posting a truthful event keeps EventsFollowState. *)
LEMMA PostFollows ==
  ASSUME TypeOK, EventsFollowState, NEW e \in EventKind, Post(e),
         Truthful(e, tstate'),
         \A d \in EventKind : Truthful(d, tstate) => Truthful(d, tstate')
  PROVE  EventsFollowState'
<1>1. events \in Seq(EventKind)
  BY DEF TypeOK, ThreadType
<1>2. \A i \in 1 .. Len(events) : Truthful(events[i], tstate')
  BY <1>1 DEF EventsFollowState, Truthful
<1>3. CASE events' = events
  BY <1>2, <1>3 DEF EventsFollowState, Truthful
<1>4. CASE events' = Append(events, e)
  <2>1. ASSUME NEW i \in 1 .. Len(events')
        PROVE  Truthful(events'[i], tstate')
    BY <1>1, <1>2, <1>4
  <2>2. QED
    BY <2>1 DEF EventsFollowState, Truthful
<1>5. QED
  BY <1>3, <1>4 DEF Post

(* A step of a worker keeps the control invariant. *)
LEMMA WorkerStepControl ==
  ASSUME TypeOK, ControlInv, WorkerStep
  PROVE  ControlInv'
<1>1. Starts \/ Ends \/ Works
  BY CheckStepShape, MakeStepShape DEF WorkerStep
<1> USE DEF ControlInv, WorkerPhase
<1>2. CASE Starts
  <2>1. tstate = "NOTSTARTED" /\ tstate' = "STARTED"
    BY <1>2 DEF Starts, Idle, SetStateStart
  <2>2. EventsFollowState'
    BY <1>2, <2>1, PostFollows
       DEF Starts, SetStateStart, Truthful, EventKind, ThreadState
  <2>3. QED
    BY <1>2, <2>1, <2>2
       DEF Starts, Idle, WorkerStep, guiVars, pageVars, PageFollowsEvents, Completed
<1>3. CASE Ends
  <2>1. tstate \in {"STARTED", "TERMINATING"}
    BY <1>3 DEF Ends, Idle, TypeOK, ThreadType, ThreadState, Completed
  <2>2. tstate' = IF tstate = "STARTED" THEN "FINISHED" ELSE "TERMINATED"
    BY <1>3, <2>1 DEF Ends, SetStateComplete, CompletedState
  <2>3. EventsFollowState'
    <3>1. Post(tstate') /\ tstate' \in EventKind
      BY <1>3, <2>2 DEF Ends, SetStateComplete, EventKind, ThreadState
    <3>2. QED
      BY <2>1, <2>2, <3>1, PostFollows DEF Truthful
  <2>4. QED
    BY <1>3, <2>1, <2>2, <2>3
       DEF Ends, Idle, WorkerStep, guiVars, pageVars, PageFollowsEvents, Completed
<1>4. CASE Works
  <2>1. EventsFollowState'
    BY <1>4, PostFollows DEF Works, Truthful, EventKind, EventsFollowState
  <2>2. QED
    BY <1>4, <2>1
       DEF Works, Idle, WorkerStep, guiVars, pageVars, PageFollowsEvents, Completed
<1>5. QED
  BY <1>1, <1>2, <1>3, <1>4

(* So does the handling of the oldest event. *)
LEMMA HandleEventControl ==
  ASSUME TypeOK, ControlInv, HandleEvent
  PROVE  ControlInv'
<1> DEFINE ev == Head(events)
<1>1. events \in Seq(EventKind) /\ events # <<>>
  BY DEF TypeOK, ThreadType, HandleEvent
<1>2. Truthful(ev, tstate)
  BY <1>1 DEF ControlInv, EventsFollowState, Truthful
<1>3. EventsFollowState'
  <2>1. ASSUME NEW i \in 1 .. Len(events')
        PROVE  Truthful(events'[i], tstate')
    <3>1. i + 1 \in 1 .. Len(events) /\ events'[i] = events[i + 1]
      BY <1>1 DEF HandleEvent
    <3>2. QED
      BY <3>1 DEF HandleEvent, ControlInv, EventsFollowState, Truthful
  <2>2. QED
    BY <2>1 DEF EventsFollowState, Truthful
<1>4. WorkerPhase'
  BY DEF ControlInv, WorkerPhase, HandleEvent, Completed
<1>5. PageFollowsEvents'
  <2>1. gonext' => tstate = "FINISHED"
    BY <1>2 DEF HandleEvent, OnThreadEvent, Truthful, ControlInv, PageFollowsEvents
  <2>2. goback' => Completed
    BY <1>2
       DEF HandleEvent, OnThreadEvent, Truthful, ControlInv, PageFollowsEvents,
           Completed
  <2>3. label' = "Canceling" => tstate \in {"TERMINATING", "TERMINATED"}
    BY <1>2 DEF HandleEvent, OnThreadEvent, Truthful, ControlInv, PageFollowsEvents
  <2>4. page = "CheckISO" /\ (prevEnabled' \/ click = "Prev") => gonext'
    BY DEF HandleEvent, OnThreadEvent, ControlInv, PageFollowsEvents
  <2>5. QED
    BY <2>1, <2>2, <2>3, <2>4 DEF HandleEvent, PageFollowsEvents, Completed
<1>6. QED
  BY <1>3, <1>4, <1>5 DEF ControlInv

(* A new page knows nothing of its worker yet, and its queue is empty. *)
LEMMA ShowControl ==
  ASSUME NEW p \in Page, Show(p)
  PROVE  ControlInv'
<1>1. WorkerPhase'
  BY DEF Show, NewThread, WorkerPhase, Completed
<1>2. EventsFollowState'
  BY DEF Show, NewThread, EventsFollowState
<1>3. PageFollowsEvents'
  BY DEF Show, ResetPage, PageFollowsEvents, NoClick, ProgressPage
<1>4. QED
  BY <1>1, <1>2, <1>3 DEF ControlInv

(* A closed window knows nothing of the worker it left behind. *)
LEMMA CloseControl ==
  ASSUME ControlInv, OnClose
  PROVE  ControlInv'
<1>1. WorkerPhase'
  BY DEF ControlInv, OnClose, WorkerPhase, Completed
<1>2. EventsFollowState'
  BY DEF OnClose, EventsFollowState
<1>3. PageFollowsEvents'
  BY DEF OnClose, ResetPage, PageFollowsEvents, ProgressPage
<1>4. QED
  BY <1>1, <1>2, <1>3 DEF ControlInv

(* The handlers that stay on the page; Next may ask the worker to stop. *)
LEMMA StayControl ==
  ASSUME TypeOK, ControlInv, Stay, UNCHANGED pc,
         Terminate \/ UNCHANGED <<tstate, events>>
  PROVE  ControlInv'
<1>1. CASE UNCHANGED <<tstate, events>>
  BY <1>1
     DEF ControlInv, WorkerPhase, EventsFollowState, PageFollowsEvents, Stay,
         NoClick, Completed
<1>2. CASE tstate = "STARTED" /\ tstate' = "TERMINATING" /\ Post("TERMINATING")
  <2>1. WorkerPhase'
    BY <1>2 DEF ControlInv, WorkerPhase, Completed
  <2>2. EventsFollowState'
    BY <1>2, PostFollows DEF ControlInv, Truthful, EventKind, ThreadState
  <2>3. PageFollowsEvents'
    BY <1>2 DEF ControlInv, PageFollowsEvents, Stay, NoClick, Completed
  <2>4. QED
    BY <2>1, <2>2, <2>3 DEF ControlInv
<1>3. QED
  BY <1>1, <1>2 DEF Terminate

(* Each click leads to another page, to the end, or stays. *)
LEMMA HandleClickControl ==
  ASSUME TypeOK, ControlInv, HandleClick
  PROVE  ControlInv'
<1>1. CASE \E p \in Page : Show(p)
  BY <1>1, ShowControl
<1>2. CASE OnClose
  BY <1>2, CloseControl
<1>3. CASE Stay /\ UNCHANGED pc /\ (Terminate \/ UNCHANGED <<tstate, events>>)
  BY <1>3, StayControl
<1>4. QED
  BY <1>1, <1>2, <1>3
     DEF HandleClick, OnClickREButton, OnClickISOButton, OnClickBootWimButton,
         OpenFile, CheckISO_OnClickNextButton, CheckISO_OnClickPrevButton,
         Select_OnClickPrevNext, Select_OnClickButton, Extract_OnClickNextButton,
         OnClickNext, OnClickButtonTop, OnClickButtonQuit, threadVars, Page

(* The control invariant holds at the start. *)
LEMMA InitControl == Init => ControlInv
BY DEF Init, ControlInv, WorkerPhase, EventsFollowState, PageFollowsEvents,
       Completed

(* The induction step of the control invariant. *)
LEMMA NextControl == TypeOK /\ ControlInv /\ [Next]_vars => ControlInv'
<1> SUFFICES ASSUME TypeOK, ControlInv, [Next]_vars PROVE ControlInv'
  OBVIOUS
<1>1. CASE WorkerStep
  BY <1>1, WorkerStepControl
<1>2. CASE HandleEvent
  BY <1>2, HandleEventControl
<1>3. CASE HandleClick
  BY <1>3, HandleClickControl
<1>4. CASE User
  BY <1>4
     DEF User, MouseReleased, Enabled, Choices, ControlInv, WorkerPhase,
         EventsFollowState, PageFollowsEvents, Completed, threadVars, Page
<1>5. CASE CloseBox
  BY <1>5, CloseControl DEF CloseBox
<1>6. CASE Relaunch
  BY <1>6, ShowControl DEF Relaunch, Page
<1>7. CASE UNCHANGED vars
  BY <1>7
     DEF vars, threadVars, guiVars, pageVars, ControlInv, WorkerPhase,
         EventsFollowState, PageFollowsEvents, Completed
<1>8. QED
  BY <1>1, <1>2, <1>3, <1>4, <1>5, <1>6, <1>7 DEF Next

(* The two invariants the theorems below rest on. *)
LEMMA Control == Spec => [](TypeOK /\ ControlInv)
BY InitType, InitControl, NextType, NextControl, PTL DEF Spec

(***************************************************************************)
(* An accepted cancel request is never turned into an offer to go on.      *)
(***************************************************************************)
THEOREM CancelIsFinal == Spec => []CancelNeverGoesOn
<1>1. ControlInv => CancelNeverGoesOn
  BY DEF ControlInv, PageFollowsEvents, CancelNeverGoesOn
<1>2. QED
  BY <1>1, Control, PTL

(***************************************************************************)
(* A page is left, short of closing the window, only when its worker has   *)
(* passed SetStateComplete.                                                *)
(***************************************************************************)
THEOREM PagesWait == Spec => NavigationWaits
<1> DEFINE Left == page \in ProgressPage /\ page' \notin {page, "Closed"}
<1>1. ASSUME ControlInv, [Next]_vars, Left PROVE Completed
  <2>1. ~WorkerStep /\ ~HandleEvent /\ ~User /\ ~CloseBox /\ ~UNCHANGED vars
    BY <1>1
       DEF WorkerStep, HandleEvent, User, MouseReleased, CloseBox, OnClose,
           ResetPage, guiVars, pageVars, vars
  <2>2. HandleClick
    BY <1>1, <2>1 DEF Next, Relaunch, ProgressPage
  <2>3. goback \/ gonext
    BY <1>1, <2>2
       DEF HandleClick, OnClickREButton, OnClickISOButton, OnClickBootWimButton,
           CheckISO_OnClickNextButton, CheckISO_OnClickPrevButton,
           Select_OnClickPrevNext, Select_OnClickButton,
           Extract_OnClickNextButton, OnClickButtonTop, OnClickButtonQuit,
           OnClickNext, Stay, Clicked, ProgressPage, ControlInv, PageFollowsEvents
  <2>4. QED
    BY <1>1, <2>3 DEF ControlInv, PageFollowsEvents, Completed
<1>2. ControlInv /\ [Next]_vars => [Left => Completed]_vars
  BY <1>1
<1>3. QED
  BY <1>2, Control, PTL DEF Spec, NavigationWaits

-----------------------------------------------------------------------------
(***************************************************************************)
(* The image offered is complete and made for the selected machine.  The   *)
(* build keeps the architecture from FIFTH_STEP on; a build that ends      *)
(* otherwise was cancelled, or its error is on the page or in the queue -  *)
(* ahead of the end of the thread.                                         *)
(***************************************************************************)
Built ==
  /\ isoFile.state = "whole"
  /\ isoFile.arch = SelectedArch
  /\ isoFile.boot = SelectedBoot

FailureShown == error \/ \E i \in 1 .. Len(events) : events[i] = "ERROR"

ArchKept ==
  pc \in {"make.sixth", "make.seventh", "make.dism", "make.eighth"} =>
    peWim.arch = SelectedArch

FinalBuilt == pc = "make.final" => Built

EndExplained == pc = "make.end" => Built \/ FailureShown \/ tstate = "TERMINATING"

ErrorFirst ==
  \A i \in 1 .. Len(events) :
    events[i] = "FINISHED" =>
      Built \/ error \/ \E j \in 1 .. i - 1 : events[j] = "ERROR"

ExtractInv ==
  /\ EndExplained
  /\ tstate = "FINISHED" => Built \/ FailureShown
  /\ ErrorFirst
  /\ gonext => Built

BuildInv ==
  /\ ArchKept
  /\ FinalBuilt
  /\ page = "Extract" => ExtractInv
  /\ page = "Complete" => Built

(* While the worker runs nothing has been concluded from its end. *)
LEMMA StillRunning ==
  ASSUME TypeOK, ControlInv, Starts \/ Works, UNCHANGED guiVars, EndExplained'
  PROVE  ExtractInv'
<1>1. events \in Seq(EventKind)
  BY DEF TypeOK, ThreadType
<1>2. tstate # "FINISHED" /\ tstate' # "FINISHED"
  BY DEF Starts, Works, SetStateStart, Idle, ControlInv, WorkerPhase, Completed
<1>3. ~gonext'
  BY <1>2 DEF ControlInv, PageFollowsEvents, guiVars, pageVars
<1>4. events' \in {events, Append(events, "ERROR"), Append(events, "STARTED")}
  BY DEF Starts, Works, SetStateStart, Post
<1>5. ASSUME NEW i \in 1 .. Len(events') PROVE events'[i] # "FINISHED"
  <2>1. \A k \in 1 .. Len(events) : events[k] # "FINISHED"
    BY <1>2 DEF ControlInv, EventsFollowState
  <2>2. QED
    BY <1>1, <1>4, <2>1
<1>6. QED
  BY <1>2, <1>3, <1>5 DEF ExtractInv, ErrorFirst

(* A failing step of a page on display posts an error. *)
LEMMA ErrorPosted ==
  ASSUME TypeOK, page = "Extract", MakeFail
  PROVE  FailureShown'
<1>1. events \in Seq(EventKind) /\ events' = Append(events, "ERROR")
  BY DEF TypeOK, ThreadType, WorkerOfPage, MakeFail, Post
<1>2. Len(events') \in 1 .. Len(events') /\ events'[Len(events')] = "ERROR"
  BY <1>1
<1>3. QED
  BY <1>2 DEF FailureShown

(* A step of the build keeps the build invariant. *)
LEMMA MakeStepBuild ==
  ASSUME TypeOK, ControlInv, BuildInv, MakeStep, UNCHANGED guiVars
  PROVE  BuildInv'
<1>1. page # "Complete" /\ page' = page
  <2>1. pc # "none"
    BY DEF MakeStep, MakeEntry, MakePrep, MakeFirst, MakeSecond, MakeThird, MakeHive,
           MakeFourth, MakeFifth, MakeSixth, MakeSeventh, MakeDism, MakeDismDone,
           MakeEighth, MakeFinal, MakeEnd, MakeCancelled, Cancelled, Enter
  <2>2. QED
    BY <2>1 DEF TypeOK, WorkerOfPage, ProgressPage, guiVars, pageVars
<1>2. ASSUME ArchKept', FinalBuilt', page = "Extract" => EndExplained',
             Starts \/ Works
      PROVE  BuildInv'
  BY <1>1, <1>2, StillRunning DEF BuildInv
<1>3. ASSUME MakeFail
      PROVE  page = "Extract" => EndExplained'
  BY <1>3, ErrorPosted DEF EndExplained
<1> USE DEF ArchKept, FinalBuilt, EndExplained, SelectedArch, SelectedBoot
<1>4. CASE MakeEntry
  <2>1. Starts
    BY <1>4 DEF MakeEntry, Starts, Idle
  <2>2. QED
    BY <1>2, <1>4, <2>1 DEF MakeEntry
<1>5. CASE MakeEnd
  <2>1. ArchKept' /\ FinalBuilt'
    BY <1>5 DEF MakeEnd
  <2>2. ASSUME page = "Extract" PROVE ExtractInv'
    <3>1. Built \/ FailureShown \/ tstate = "TERMINATING"
      BY <1>5, <2>2 DEF BuildInv, ExtractInv, MakeEnd
    <3>2. /\ events \in Seq(EventKind)
          /\ events' = Append(events, tstate')
          /\ tstate' \in {"FINISHED", "TERMINATED"}
          /\ tstate = "TERMINATING" => tstate' = "TERMINATED"
          /\ Built' = Built
      BY <1>5, <2>2
         DEF MakeEnd, SetStateComplete, CompletedState, Post, TypeOK, ThreadType,
             WorkerOfPage, Built, workVars
    <3>3. tstate # "FINISHED" /\ ~gonext /\ error' = error /\ gonext' = gonext
      BY <1>5 DEF MakeEnd, ControlInv, WorkerPhase, PageFollowsEvents, Completed,
                  guiVars, pageVars
    <3>4. \A k \in 1 .. Len(events) : events[k] # "FINISHED"
      BY <3>3 DEF ControlInv, EventsFollowState
    <3>5. FailureShown => FailureShown'
      BY <3>2, <3>3 DEF FailureShown
    <3>6. ErrorFirst'
      <4>1. ASSUME NEW i \in 1 .. Len(events'), events'[i] = "FINISHED"
            PROVE  Built' \/ error' \/ \E j \in 1 .. i - 1 : events'[j] = "ERROR"
        <5>1. i = Len(events) + 1 /\ tstate' = "FINISHED"
          BY <3>2, <3>4, <4>1
        <5>2. Built \/ FailureShown
          BY <3>1, <3>2, <5>1
        <5>3. ASSUME NEW j \in 1 .. Len(events), events[j] = "ERROR"
              PROVE  j \in 1 .. i - 1 /\ events'[j] = "ERROR"
          BY <3>2, <5>1, <5>3
        <5>4. QED
          BY <3>2, <3>3, <5>2, <5>3 DEF FailureShown
      <4>2. QED
        BY <4>1 DEF ErrorFirst
    <3>7. QED
      BY <1>5, <3>1, <3>2, <3>3, <3>5, <3>6 DEF ExtractInv, MakeEnd
  <2>3. QED
    BY <1>1, <2>1, <2>2 DEF BuildInv
<1>6. CASE MakePrep
  <2>1. Works
    BY <1>6 DEF MakePrep, MakeFail, Works, Idle
  <2>2. QED
    BY <1>2, <1>3, <1>6, <2>1 DEF MakePrep, MakeFail
<1>7. CASE MakeFirst
  <2>1. Works
    BY <1>7 DEF MakeFirst, Enter, MakeFail, Works, Idle
  <2>2. QED
    BY <1>2, <1>3, <1>7, <2>1 DEF MakeFirst, MakeFail
<1>8. CASE MakeSecond \/ MakeThird \/ MakeHive \/ MakeFourth
  <2>1. Works
    BY <1>8 DEF MakeSecond, MakeThird, MakeHive, MakeFourth, Enter, Works, Idle
  <2>2. QED
    BY <1>2, <1>8, <2>1 DEF MakeSecond, MakeThird, MakeHive, MakeFourth
<1>9. CASE MakeFifth
  <2>1. Works
    BY <1>9 DEF MakeFifth, MakeFail, Works, Idle
  <2>2. ArchKept' /\ FinalBuilt'
    BY <1>9 DEF MakeFifth, MakeFail, TypeOK, WorkDirType, PeType
  <2>3. page = "Extract" => EndExplained'
    BY <1>3, <1>9 DEF MakeFifth
  <2>4. QED
    BY <1>2, <2>1, <2>2, <2>3
<1>10. CASE MakeSixth \/ MakeSeventh \/ MakeDism \/ MakeDismDone
  <2>1. Works
    BY <1>10 DEF MakeSixth, MakeSeventh, MakeDism, MakeDismDone, Enter, Works, Idle
  <2>2. ArchKept' /\ FinalBuilt' /\ EndExplained'
    BY <1>10
       DEF MakeSixth, MakeSeventh, MakeDism, MakeDismDone, Enter, workVars, BuildInv
  <2>3. QED
    BY <1>2, <2>1, <2>2
<1>11. CASE MakeEighth
  <2>1. Works
    BY <1>11 DEF MakeEighth, MakeFail, Works, Idle
  <2>2. FinalBuilt' /\ ArchKept'
    BY <1>11 DEF MakeEighth, MakeFail, MadeIso, Built, BuildInv
  <2>3. QED
    BY <1>2, <1>3, <1>11, <2>1, <2>2 DEF MakeEighth
<1>12. CASE MakeFinal
  <2>1. Works
    BY <1>12 DEF MakeFinal, Works, Idle
  <2>2. EndExplained'
    BY <1>12 DEF MakeFinal, RemoveTmp, Built, BuildInv
  <2>3. QED
    BY <1>2, <1>12, <2>1, <2>2 DEF MakeFinal
<1>13. CASE MakeCancelled
  <2>1. Works
    BY <1>13 DEF MakeCancelled, Cancelled, Works, Idle
  <2>2. QED
    BY <1>2, <1>13, <2>1 DEF MakeCancelled, Cancelled, TerminateRequired
<1>14. QED
  BY <1>4, <1>5, <1>6, <1>7, <1>8, <1>9, <1>10, <1>11, <1>12, <1>13 DEF MakeStep

(* The first worker runs on another page. *)
LEMMA CheckStepBuild ==
  ASSUME TypeOK, CheckStep, UNCHANGED guiVars
  PROVE  BuildInv'
<1>1. pc \in checkPc /\ pc' \in checkPc \cup {"exit"}
  BY DEF CheckStep, CheckEntry, CheckPrep, CheckFirstFromRE, CheckFirstExisting,
         CheckFirstFromISO, CheckSecond, CheckThird, CheckReport, CheckEnd,
         CheckFail, checkPc
<1>2. page \notin {"Extract", "Complete"} /\ page' = page
  BY <1>1 DEF TypeOK, WorkerOfPage, checkPc, makePc, ProgressPage, guiVars, pageVars
<1>3. QED
  BY <1>1, <1>2 DEF BuildInv, ArchKept, FinalBuilt, checkPc

(* Handling an event keeps what the queue and the page explain together. *)
LEMMA HandleEventBuild ==
  ASSUME TypeOK, ControlInv, BuildInv, HandleEvent
  PROVE  BuildInv'
<1> DEFINE ev == Head(events)
<1>1. /\ events \in Seq(EventKind) /\ events # <<>> /\ events' = Tail(events)
      /\ ev = events[1]
  BY DEF TypeOK, ThreadType, HandleEvent
<1>2. /\ UNCHANGED <<tstate, pc, workVars, holder, page>>
      /\ Built' = Built
  BY DEF HandleEvent, Built, SelectedArch, SelectedBoot, workVars
<1>3. \A i \in 1 .. Len(events') :
        i + 1 \in 1 .. Len(events) /\ events'[i] = events[i + 1]
  BY <1>1
<1>4. \A i \in 2 .. Len(events) :
        i - 1 \in 1 .. Len(events') /\ events'[i - 1] = events[i]
  BY <1>1
<1>5. ASSUME page = "Extract" PROVE ExtractInv'
  <2>1. error' = (error \/ ev = "ERROR")
    BY <1>5 DEF HandleEvent, OnError
  <2>2. FailureShown => FailureShown'
    <3>1. ASSUME NEW i \in 1 .. Len(events), events[i] = "ERROR"
          PROVE  FailureShown'
      <4>1. CASE i = 1
        BY <1>1, <2>1, <3>1, <4>1 DEF FailureShown
      <4>2. CASE i # 1
        <5>1. i \in 2 .. Len(events)
          BY <1>1, <4>2
        <5>2. QED
          BY <1>4, <3>1, <5>1 DEF FailureShown
      <4>3. QED
        BY <4>1, <4>2
    <3>2. QED
      BY <2>1, <3>1 DEF FailureShown
  <2>3. ErrorFirst'
    <3>1. ASSUME NEW i \in 1 .. Len(events'), events'[i] = "FINISHED", ~Built, ~error'
          PROVE  \E j \in 1 .. i - 1 : events'[j] = "ERROR"
      <4>1. PICK k \in 1 .. i : events[k] = "ERROR"
        <5>1. i + 1 \in 1 .. Len(events) /\ events[i + 1] = "FINISHED" /\ (i + 1) - 1 = i
          BY <1>3, <3>1
        <5>2. \E k \in 1 .. (i + 1) - 1 : events[k] = "ERROR"
          BY <1>5, <2>1, <3>1, <5>1 DEF BuildInv, ExtractInv, ErrorFirst
        <5>3. QED
          BY <5>1, <5>2
      <4>2. k # 1
        BY <1>1, <2>1, <3>1, <4>1
      <4>3. k \in 2 .. Len(events) /\ k - 1 \in 1 .. i - 1
        BY <1>1, <1>3, <4>1, <4>2
      <4>4. QED
        BY <1>4, <4>1, <4>3
    <3>2. QED
      BY <1>2, <3>1 DEF ErrorFirst
  <2>4. gonext' => Built
    <3>1. gonext => Built
      BY <1>5 DEF BuildInv, ExtractInv
    <3>2. ASSUME ev = "FINISHED" PROVE Built \/ error
      <4>1. 1 \in 1 .. Len(events) /\ 1 .. 1 - 1 = {}
        BY <1>1
      <4>2. QED
        BY <1>1, <1>5, <3>2, <4>1 DEF BuildInv, ExtractInv, ErrorFirst
    <3>3. QED
      BY <1>5, <3>1, <3>2 DEF HandleEvent, OnThreadEvent
  <2>5. QED
    BY <1>2, <1>5, <2>2, <2>3, <2>4 DEF BuildInv, ExtractInv, EndExplained
<1>6. QED
  BY <1>2, <1>5
     DEF BuildInv, ArchKept, FinalBuilt, SelectedArch, workVars, HandleEvent,
         ProgressPage

(* A page other than Complete concludes nothing from an earlier build. *)
LEMMA ShowBuild ==
  ASSUME NEW p \in Page, Show(p), p = "Complete" => Built'
  PROVE  BuildInv'
<1>1. pc' \in Idle /\ page' = p /\ tstate' = "NOTSTARTED" /\ events' = <<>> /\ ~gonext'
  BY DEF Show, ResetPage, NewThread, Idle
<1>2. ExtractInv'
  BY <1>1 DEF ExtractInv, EndExplained, ErrorFirst, Idle
<1>3. QED
  BY <1>1, <1>2 DEF BuildInv, ArchKept, FinalBuilt, Idle

(* Closing the window leaves the build as it is. *)
LEMMA CloseBuild ==
  ASSUME BuildInv, OnClose
  PROVE  BuildInv'
BY DEF BuildInv, OnClose, ResetPage, ArchKept, FinalBuilt, Built, SelectedArch,
       SelectedBoot, workVars

(* The Complete page is reached from a built image only. *)
LEMMA HandleClickBuild ==
  ASSUME TypeOK, ControlInv, BuildInv, HandleClick
  PROVE  BuildInv'
<1>1. CASE \E p \in Page \ {"Complete"} : Show(p)
  BY <1>1, ShowBuild
<1>2. CASE /\ page = "Extract" /\ Show("Complete") /\ ~goback /\ gonext
           /\ UNCHANGED <<workVars, holder>>
  <2>1. Built'
    BY <1>2 DEF BuildInv, ExtractInv, Built, SelectedArch, SelectedBoot, workVars
  <2>2. QED
    BY <2>1, <1>2, ShowBuild DEF Page
<1>3. CASE OnClose
  BY <1>3, CloseBuild
<1>4. CASE /\ Stay /\ UNCHANGED <<pc, workVars>>
           /\ UNCHANGED <<tstate, events>>
           /\ UNCHANGED holder \/ page \in {"SelectArch", "SelectMbrGpt"}
  <2>1. CASE UNCHANGED holder
    BY <1>4, <2>1
       DEF BuildInv, ArchKept, FinalBuilt, ExtractInv, EndExplained, ErrorFirst,
           Built, FailureShown, SelectedArch, SelectedBoot, workVars, Stay
  <2>2. CASE page \in {"SelectArch", "SelectMbrGpt"}
    BY <1>4, <2>2
       DEF BuildInv, ArchKept, FinalBuilt, TypeOK, WorkerOfPage, ProgressPage, Stay
  <2>3. QED
    BY <1>4, <2>1, <2>2
<1>5. CASE /\ page \in ProgressPage /\ ~gonext
           /\ Stay /\ UNCHANGED <<pc, workVars, holder>>
           /\ tstate = "STARTED" /\ tstate' = "TERMINATING" /\ Post("TERMINATING")
  <2>1. /\ events \in Seq(EventKind)
        /\ \A k \in 1 .. Len(events) : events[k] # "FINISHED"
        /\ events' \in {events, Append(events, "TERMINATING")}
    BY <1>5 DEF TypeOK, ThreadType, ControlInv, EventsFollowState, Post
  <2>2. \A i \in 1 .. Len(events') : events'[i] # "FINISHED"
    BY <2>1
  <2>3. ExtractInv'
    BY <1>5, <2>2 DEF ExtractInv, EndExplained, ErrorFirst, Stay
  <2>4. QED
    BY <1>5, <2>3
       DEF BuildInv, ArchKept, FinalBuilt, Built, SelectedArch, SelectedBoot,
           workVars, Stay, ProgressPage
<1>6. CASE OnClickNext("CheckISO", "SelectArch")
  BY <1>1, <1>4, <1>5, <1>6 DEF OnClickNext, Terminate, Clicked, ProgressPage, Page
<1>7. CASE OnClickNext("Extract", "Complete")
  BY <1>1, <1>2, <1>4, <1>5, <1>7
     DEF OnClickNext, Terminate, Clicked, ProgressPage, Page
<1>8. QED
  BY <1>1, <1>3, <1>4, <1>6, <1>7
     DEF HandleClick, OnClickREButton, OnClickISOButton, OnClickBootWimButton,
         OpenFile, CheckISO_OnClickNextButton, CheckISO_OnClickPrevButton,
         Select_OnClickPrevNext, Select_OnClickButton, Extract_OnClickNextButton,
         OnClickButtonTop, OnClickButtonQuit, threadVars, Page

(* The induction step of the build invariant. *)
LEMMA NextBuild == TypeOK /\ ControlInv /\ BuildInv /\ [Next]_vars => BuildInv'
<1> SUFFICES ASSUME TypeOK, ControlInv, BuildInv, [Next]_vars PROVE BuildInv'
  OBVIOUS
<1>1. CASE WorkerStep
  BY <1>1, CheckStepBuild, MakeStepBuild DEF WorkerStep
<1>2. CASE HandleEvent
  BY <1>2, HandleEventBuild
<1>3. CASE HandleClick
  BY <1>3, HandleClickBuild
<1>4. CASE User \/ UNCHANGED vars
  BY <1>4
     DEF User, MouseReleased, vars, threadVars, workVars, guiVars, pageVars,
         BuildInv, ArchKept, FinalBuilt, ExtractInv, EndExplained, ErrorFirst, Built,
         FailureShown, SelectedArch, SelectedBoot
<1>5. CASE CloseBox
  BY <1>5, CloseBuild DEF CloseBox
<1>6. CASE Relaunch
  BY <1>6, ShowBuild DEF Relaunch, Page
<1>7. QED
  BY <1>1, <1>2, <1>3, <1>4, <1>5, <1>6 DEF Next

(***************************************************************************)
(* The way on from the build page is offered, and taken, only over a       *)
(* complete WinPE.iso for the selected architecture and firmware.          *)
(***************************************************************************)
THEOREM OfferIsBuilt == Spec => []NextMeansBuilt
<1>1. Init => BuildInv
  BY DEF Init, BuildInv, ArchKept, FinalBuilt
<1>2. BuildInv => NextMeansBuilt
  BY DEF BuildInv, ExtractInv, Built, NextMeansBuilt, Offered
<1>3. QED
  BY <1>1, <1>2, NextBuild, Control, PTL DEF Spec

-----------------------------------------------------------------------------
(* FOURTH_STEP finds the extractor open if the source is an installer image. *)

IsoInv ==
  pc \in {"make.second", "make.third", "make.hive", "make.fourth"} =>
    (holder.method = "FROM_ISO" => isoOpen)

(* The extractor stays open to the end of FOURTH_STEP. *)
LEMMA MakeStepIso ==
  ASSUME IsoInv, MakeStep
  PROVE  IsoInv'
<1> USE DEF IsoInv
<1>1. CASE MakeEntry \/ MakePrep \/ MakeEnd
  BY <1>1 DEF MakeEntry, MakePrep, MakeFail, MakeEnd
<1>2. CASE MakeFirst
  BY <1>2 DEF MakeFirst, MakeFail
<1>3. CASE MakeSecond \/ MakeThird \/ MakeHive \/ MakeFourth
  BY <1>3 DEF MakeSecond, MakeThird, MakeHive, MakeFourth, Enter
<1>4. CASE MakeFifth \/ MakeSixth \/ MakeSeventh
  BY <1>4 DEF MakeFifth, MakeFail, MakeSixth, MakeSeventh, Enter
<1>5. CASE MakeDism \/ MakeDismDone
  BY <1>5 DEF MakeDism, MakeDismDone, Enter
<1>6. CASE MakeEighth \/ MakeFinal
  BY <1>6 DEF MakeEighth, MakeFail, MakeFinal
<1>7. CASE MakeCancelled
  BY <1>7 DEF MakeCancelled, Cancelled
<1>8. QED
  BY <1>1, <1>2, <1>3, <1>4, <1>5, <1>6, <1>7 DEF MakeStep

(* The induction step for the extractor. *)
LEMMA NextIso == TypeOK /\ IsoInv /\ [Next]_vars => IsoInv'
<1> SUFFICES ASSUME TypeOK, IsoInv, [Next]_vars PROVE IsoInv'
  OBVIOUS
<1>1. CASE WorkerStep
  <2>1. CASE CheckStep
    BY <2>1
       DEF CheckStep, CheckEntry, CheckPrep, CheckFirstFromRE, CheckFirstExisting,
           CheckFirstFromISO, CheckSecond, CheckThird, CheckReport, CheckEnd,
           CheckFail, IsoInv
  <2>2. QED
    BY <1>1, <2>1, MakeStepIso DEF WorkerStep
<1>2. CASE \E p \in Page : Show(p)
  BY <1>2 DEF Show, NewThread, IsoInv
<1>3. CASE UNCHANGED <<pc, isoOpen, holder>>
  BY <1>3 DEF IsoInv
<1>4. CASE Select_OnClickButton
  BY <1>4
     DEF Select_OnClickButton, Clicked, TypeOK, WorkerOfPage, ProgressPage,
         threadVars, IsoInv
<1>5. QED
  BY <1>1, <1>2, <1>3, <1>4
     DEF Next, HandleEvent, HandleClick, OnClickREButton, OnClickISOButton,
         OnClickBootWimButton, OpenFile, CheckISO_OnClickNextButton,
         CheckISO_OnClickPrevButton, Select_OnClickPrevNext,
         Extract_OnClickNextButton, OnClickNext, OnClickButtonTop,
         OnClickButtonQuit, OnClose, User, MouseReleased, CloseBox, Relaunch,
         vars, threadVars, Page

(***************************************************************************)
(* The extractor that FOURTH_STEP dereferences without a look at it is     *)
(* open: FIRST_STEP opened it for the same choice, or ended the thread.    *)
(***************************************************************************)
THEOREM ExtractorIsOpen == Spec => []IsoOpenWhenUsed
<1>1. Init => IsoInv
  BY DEF Init, IsoInv
<1>2. IsoInv => IsoOpenWhenUsed
  BY DEF IsoInv, IsoOpenWhenUsed
<1>3. QED
  BY <1>1, <1>2, NextIso, Control, PTL DEF Spec

-----------------------------------------------------------------------------
(***************************************************************************)
(* The page implements JobPage: initial states map to initial states, each *)
(* step to a step or a stutter.  That every job ends is left to TLC.       *)
(***************************************************************************)
PromisedStep == Promise!Next \/ phaseShown' = phaseShown

(* The worker's end is its last event: once handled, nothing follows it.   *)
EndIsLast ==
  /\ \A i \in 1 .. Len(events) :
       events[i] \in {"FINISHED", "TERMINATED"} => i = Len(events)
  /\ goback \/ gonext => events = <<>>

(* An event posted by a worker that has not ended is the last so far. *)
LEMMA PostBeforeEnd ==
  ASSUME TypeOK, ControlInv, ~Completed, NEW e \in EventKind, Post(e),
         UNCHANGED <<goback, gonext>>
  PROVE  EndIsLast'
<1>1. /\ events \in Seq(EventKind)
      /\ \A k \in 1 .. Len(events) : events[k] \notin {"FINISHED", "TERMINATED"}
  BY DEF TypeOK, ThreadType, ControlInv, EventsFollowState, Completed
<1>2. ~goback' /\ ~gonext'
  BY DEF ControlInv, PageFollowsEvents, Completed
<1>3. events' \in {events, Append(events, e)}
  BY DEF Post
<1>4. \A i \in 1 .. Len(events') :
        events'[i] \in {"FINISHED", "TERMINATED"} => i = Len(events')
  BY <1>1, <1>3
<1>5. QED
  BY <1>2, <1>4 DEF EndIsLast

(* Once the end is handled the queue is empty. *)
LEMMA HandleEventLast ==
  ASSUME TypeOK, ControlInv, EndIsLast, HandleEvent
  PROVE  EndIsLast' /\ ~goback /\ ~gonext
<1>1. /\ events \in Seq(EventKind) /\ events # <<>> /\ events' = Tail(events)
      /\ Head(events) = events[1]
  BY DEF TypeOK, ThreadType, HandleEvent
<1>2. ~goback /\ ~gonext
  BY <1>1 DEF EndIsLast
<1>3. \A i \in 1 .. Len(events') :
        events'[i] \in {"FINISHED", "TERMINATED"} => i = Len(events')
  BY <1>1 DEF EndIsLast
<1>4. ASSUME goback' \/ gonext' PROVE events' = <<>>
  <2>1. events[1] \in {"FINISHED", "TERMINATED"}
    BY <1>1, <1>2, <1>4 DEF HandleEvent, OnThreadEvent
  <2>2. 1 \in 1 .. Len(events)
    BY <1>1
  <2>3. 1 = Len(events)
    BY <2>1, <2>2 DEF EndIsLast
  <2>4. QED
    BY <1>1, <2>3
<1>5. QED
  BY <1>2, <1>3, <1>4 DEF EndIsLast

(* The induction step for the order of the last event. *)
LEMMA NextLast == TypeOK /\ ControlInv /\ EndIsLast /\ [Next]_vars => EndIsLast'
<1> SUFFICES ASSUME TypeOK, ControlInv, EndIsLast, [Next]_vars PROVE EndIsLast'
  OBVIOUS
<1>1. CASE UNCHANGED <<events, goback, gonext>>
  BY <1>1 DEF EndIsLast
<1>2. CASE \E p \in Page : Show(p)
  BY <1>2 DEF Show, ResetPage, NewThread, EndIsLast
<1>3. CASE OnClose
  BY <1>3 DEF OnClose, ResetPage, EndIsLast
<1>4. CASE Stay /\ Terminate
  BY <1>1, <1>4, PostBeforeEnd
     DEF Stay, Terminate, Completed, EventKind, ThreadState
<1>5. CASE WorkerStep
  <2>1. Starts \/ Ends \/ Works
    BY <1>5, CheckStepShape, MakeStepShape DEF WorkerStep
  <2>2. ~Completed
    BY <2>1 DEF Starts, Ends, Works, Idle, ControlInv, WorkerPhase
  <2>3. UNCHANGED events \/ \E e \in EventKind : Post(e)
    BY <2>1, CompletedIsState
       DEF Starts, Ends, Works, SetStateStart, SetStateComplete, EventKind,
           ThreadState
  <2>4. QED
    BY <1>1, <1>5, <2>2, <2>3, PostBeforeEnd DEF WorkerStep, guiVars, pageVars
<1>6. CASE HandleEvent
  BY <1>6, HandleEventLast
<1>7. QED
  BY <1>1, <1>2, <1>3, <1>4, <1>5, <1>6
     DEF Next, HandleClick, OnClickREButton, OnClickISOButton,
         OnClickBootWimButton, OpenFile, CheckISO_OnClickNextButton,
         CheckISO_OnClickPrevButton, Select_OnClickPrevNext, Select_OnClickButton,
         Extract_OnClickNextButton, OnClickNext, OnClickButtonTop,
         OnClickButtonQuit, Stay, User, MouseReleased, CloseBox, Relaunch, vars,
         guiVars, pageVars, threadVars, Page

(* The phase a new page shows. *)
LEMMA ShowPhase ==
  ASSUME NEW p \in Page \ {"Closed"}, Show(p)
  PROVE  phaseShown' = IF p \in ProgressPage THEN "running" ELSE "away"
BY DEF Show, ResetPage, phaseShown, ProgressPage

(* From a page with no job, a page is opened with or without one. *)
LEMMA OpenPhase ==
  ASSUME page \notin ProgressPage \cup {"Closed"},
         NEW p \in Page \ {"Closed"}, Show(p)
  PROVE  PromisedStep
<1>1. phaseShown = "away"
  BY DEF phaseShown
<1>2. QED
  BY <1>1, ShowPhase DEF PromisedStep, Promise!Next, Promise!Open

(* From a page with a job, only when it is over. *)
LEMMA LeavePhase ==
  ASSUME page \in ProgressPage, goback \/ gonext,
         NEW p \in Page \ (ProgressPage \cup {"Closed"}), Show(p)
  PROVE  PromisedStep
<1>1. phaseShown \in {"back", "next"}
  BY DEF phaseShown, ProgressPage
<1>2. phaseShown' = "away"
  BY ShowPhase
<1>3. QED
  BY <1>1, <1>2 DEF PromisedStep, Promise!Next, Promise!Leave

(* Closing the window is allowed in every phase but one. *)
LEMMA ClosePhase ==
  ASSUME page # "Closed", OnClose
  PROVE  PromisedStep
<1>1. phaseShown # "closed"
  BY DEF phaseShown
<1>2. phaseShown' = "closed"
  BY DEF OnClose, ResetPage, phaseShown
<1>3. QED
  BY <1>1, <1>2 DEF PromisedStep, Promise!Next, Promise!Close

(* An event takes a job on to stopping or to its end, never back. *)
LEMMA HandleEventPhase ==
  ASSUME TypeOK, ControlInv, EndIsLast, HandleEvent
  PROVE  PromisedStep
<1> DEFINE ev == Head(events)
<1>1. page \in ProgressPage /\ page' = page /\ page # "Closed"
  BY DEF HandleEvent, ProgressPage
<1>2. Truthful(ev, tstate) /\ OnThreadEvent(ev)
  BY DEF TypeOK, ThreadType, HandleEvent, ControlInv, EventsFollowState, Truthful
<1>3. ~goback /\ ~gonext
  BY HandleEventLast
<1>4. CASE label = "Canceling"
  <2>1. phaseShown = "stopping"
    BY <1>1, <1>3, <1>4 DEF phaseShown
  <2>2. tstate # "FINISHED" /\ ev # "FINISHED"
    BY <1>2, <1>4 DEF ControlInv, PageFollowsEvents, Truthful
  <2>3. phaseShown' \in {"back", "stopping"}
    BY <1>1, <1>2, <1>3, <1>4, <2>2 DEF phaseShown, OnThreadEvent
  <2>4. QED
    BY <2>1, <2>3 DEF PromisedStep, Promise!Next, Promise!End
<1>5. CASE label # "Canceling"
  <2>1. phaseShown = "running"
    BY <1>1, <1>3, <1>5 DEF phaseShown
  <2>2. phaseShown' \in {"back", "next", "stopping", "running"}
    BY <1>1 DEF phaseShown
  <2>3. QED
    BY <2>1, <2>2 DEF PromisedStep, Promise!Next, Promise!End, Promise!Acknowledge
<1>6. QED
  BY <1>4, <1>5

(* A click opens a page or leaves one that is over. *)
LEMMA HandleClickPhase ==
  ASSUME TypeOK, ControlInv, HandleClick
  PROVE  PromisedStep
<1> DEFINE Quiet == Page \ (ProgressPage \cup {"Closed"})
<1>1. CASE page \in Quiet /\ \E p \in Page \ {"Closed"} : Show(p)
  BY <1>1, OpenPhase
<1>2. CASE Stay
  BY <1>2 DEF Stay, phaseShown, PromisedStep
<1>3. CASE CheckISO_OnClickNextButton \/ Extract_OnClickNextButton
  <2>1. page \in ProgressPage
    BY <1>3
       DEF CheckISO_OnClickNextButton, Extract_OnClickNextButton, OnClickNext,
           Clicked, ProgressPage
  <2>2. Stay \/ ((goback \/ gonext) /\ \E p \in Quiet : Show(p))
    BY <1>3
       DEF CheckISO_OnClickNextButton, Extract_OnClickNextButton, OnClickNext,
           ProgressPage, Page
  <2>3. QED
    BY <1>2, <2>1, <2>2, LeavePhase
<1>4. CASE CheckISO_OnClickPrevButton
  <2>1. page \in ProgressPage /\ gonext /\ Show("Main") /\ "Main" \in Quiet
    BY <1>4
       DEF CheckISO_OnClickPrevButton, Clicked, ControlInv, PageFollowsEvents,
           ProgressPage, Page
  <2>2. QED
    BY <2>1, LeavePhase
<1>5. CASE OnClickButtonQuit
  BY <1>5, ClosePhase DEF OnClickButtonQuit, Clicked
<1>6. QED
  BY <1>1, <1>2, <1>3, <1>4, <1>5
     DEF HandleClick, OnClickREButton, OnClickISOButton, OnClickBootWimButton,
         OpenFile, Select_OnClickPrevNext, Select_OnClickButton, OnClickButtonTop,
         Clicked, ProgressPage, Page

(* Every step of the program is a step of JobPage or a stutter. *)
LEMMA NextPhase ==
  TypeOK /\ ControlInv /\ EndIsLast /\ [Next]_vars => PromisedStep
<1> SUFFICES ASSUME TypeOK, ControlInv, EndIsLast, [Next]_vars PROVE PromisedStep
  OBVIOUS
<1>1. CASE WorkerStep \/ User \/ UNCHANGED vars
  BY <1>1
     DEF WorkerStep, User, MouseReleased, vars, guiVars, pageVars, phaseShown,
         PromisedStep
<1>2. CASE HandleEvent
  BY <1>2, HandleEventPhase
<1>3. CASE HandleClick
  BY <1>3, HandleClickPhase
<1>4. CASE CloseBox
  BY <1>4, ClosePhase DEF CloseBox
<1>5. CASE Relaunch
  <2>1. phaseShown = "closed" /\ phaseShown' = "away"
    BY <1>5, ShowPhase DEF Relaunch, phaseShown, Page, ProgressPage
  <2>2. QED
    BY <2>1 DEF PromisedStep, Promise!Next, Promise!Relaunch
<1>6. QED
  BY <1>1, <1>2, <1>3, <1>4, <1>5 DEF Next

(***************************************************************************)
(* What the user is shown of a job is what JobPage promises: a page with a *)
(* running job is left only when the job is over, and an acknowledged      *)
(* cancel only leads back.                                                 *)
(***************************************************************************)
THEOREM PromiseKept == Spec => Promise!Init /\ [][Promise!Next]_phaseShown
<1>1. Init => Promise!Init
  BY DEF Init, Promise!Init, phaseShown, ProgressPage
<1>2. Init => EndIsLast
  BY DEF Init, EndIsLast
<1>3. TypeOK /\ ControlInv /\ EndIsLast /\ [Next]_vars => [Promise!Next]_phaseShown
  BY NextPhase DEF PromisedStep
<1>4. QED
  BY <1>1, <1>2, <1>3, NextLast, Control, PTL DEF Spec

-----------------------------------------------------------------------------
(***************************************************************************)
(* What PEMaker keeps in the work folder from one page to the next: the    *)
(* check worker empties it and fills it from the selected source, and the  *)
(* build starts on what the check left.                                    *)
(*                                                                         *)
(* Two workers, two pages between them and whatever earlier jobs left      *)
(* behind take part, so the invariant follows the folder along pc and page *)
(* until the next check.  An error of the check worker only shows if its   *)
(* event is handled before the end of the thread, which is the last event  *)
(* (EndIsLast).                                                            *)
(***************************************************************************)

(* What the folder holds of an image comes from the selected source. *)
Sourced ==
  /\ peWim = NoPe \/ peWim.src = SelectedSource
  /\ isoFile.state = "whole" => isoFile.src = SelectedSource

(* No build has touched the folder, and nothing holds it. *)
Fresh ==
  /\ peWim = NoPe \/ peWim.src = SelectedSource
  /\ isoFile = NoIso /\ bootFiles = {} /\ ~software /\ peWim.arch = "none"
  /\ ~Held

(* What can be held, and what is worked on, is in the folder. *)
FolderThere ==
  /\ Held \/ tmpWim.state # "none" => dir
  /\ pc \in {"check.first", "check.second"}
             \cup (makePc \ {"make.entry", "make.prep", "make.end"}) => dir

(* The check worker past PREP_STEP. *)
CheckFresh ==
  /\ pc \in {"check.first", "check.second", "check.third", "check.report"} => Fresh
  /\ pc = "check.third" => tmpWim.src = SelectedSource

(* A check that left no fresh folder behind has said so. *)
CheckShown == checkError \/ \E i \in 1 .. Len(events) : events[i] = "ERROR"

CheckExplained ==
  page = "CheckISO" =>
    /\ pc = "check.end" \/ tstate = "FINISHED" => Fresh \/ CheckShown
    /\ gonext => Fresh \/ checkError

(* From the check to SECOND_STEP of the build, and from there on. *)
StartFresh ==
  \/ page \in {"SelectArch", "SelectMbrGpt"}
  \/ pc \in {"make.entry", "make.prep", "make.first", "make.second"}
  => Fresh \/ checkError

BuildSourced ==
  page \in {"Extract", "Complete"} \/ pc \in makePc => Sourced \/ checkError

FolderInv ==
  /\ FolderThere
  /\ CheckFresh
  /\ CheckExplained
  /\ StartFresh
  /\ BuildSourced

-----------------------------------------------------------------------------
(* Neither depends on more than the folder, the method and the file. *)
LEMMA FolderKept ==
  ASSUME UNCHANGED workVars, holder'.method = holder.method,
         holder'.path = holder.path
  PROVE  Fresh' = Fresh /\ Sourced' = Sourced /\ Held' = Held
BY DEF Fresh, Sourced, Held, SelectedSource, workVars

(* A fresh folder holds no image of another source. *)
LEMMA FreshIsSourced == Fresh => Sourced
BY DEF Fresh, Sourced, NoIso

(* The check worker runs on its page, or on after the window is closed. *)
LEMMA CheckStepPage ==
  ASSUME TypeOK, CheckStep, UNCHANGED guiVars
  PROVE  /\ page \in {"CheckISO", "Closed"} /\ page' = page
         /\ pc \in checkPc /\ pc' \in checkPc \cup {"exit"}
<1>1. pc \in checkPc /\ pc' \in checkPc \cup {"exit"}
  BY DEF CheckStep, CheckEntry, CheckPrep, CheckFirstFromRE, CheckFirstExisting,
         CheckFirstFromISO, CheckSecond, CheckThird, CheckReport, CheckEnd,
         CheckFail, checkPc
<1>2. QED
  BY <1>1
     DEF TypeOK, WorkerOfPage, checkPc, makePc, ProgressPage, guiVars, pageVars

(* So does the build worker. *)
LEMMA MakeStepPage ==
  ASSUME TypeOK, MakeStep, UNCHANGED guiVars
  PROVE  /\ page \in {"Extract", "Closed"} /\ page' = page
         /\ pc \in makePc /\ pc' \in makePc \cup {"exit"}
<1>1. pc \in makePc
  BY DEF MakeStep, MakeEntry, MakePrep, MakeFirst, MakeSecond, MakeThird, MakeHive,
         MakeFourth, MakeFifth, MakeSixth, MakeSeventh, MakeDism, MakeDismDone,
         MakeEighth, MakeFinal, MakeEnd, MakeCancelled, Cancelled, Enter, makePc
<1>2. pc' \in makePc \cup {"exit"}
  <2>1. CASE MakeEntry \/ MakePrep \/ MakeFirst \/ MakeSecond \/ MakeThird
    BY <2>1 DEF MakeEntry, MakePrep, MakeFirst, MakeSecond, MakeThird, MakeFail,
                Enter, makePc
  <2>2. CASE MakeHive \/ MakeFourth \/ MakeFifth \/ MakeSixth \/ MakeSeventh
    BY <2>2 DEF MakeHive, MakeFourth, MakeFifth, MakeSixth, MakeSeventh, MakeFail,
                Enter, makePc
  <2>3. CASE MakeDism \/ MakeDismDone \/ MakeEighth \/ MakeFinal \/ MakeEnd
    BY <1>1, <2>3 DEF MakeDism, MakeDismDone, MakeEighth, MakeFinal, MakeEnd,
                      MakeFail, makePc
  <2>4. CASE MakeCancelled
    BY <2>4 DEF MakeCancelled, Cancelled, makePc
  <2>5. QED
    BY <2>1, <2>2, <2>3, <2>4 DEF MakeStep
<1>3. QED
  BY <1>1, <1>2
     DEF TypeOK, WorkerOfPage, checkPc, makePc, ProgressPage, guiVars, pageVars

(* While the check runs, its page concludes nothing from its end. *)
LEMMA CheckRunning ==
  ASSUME TypeOK, ControlInv, Starts \/ Works, UNCHANGED guiVars,
         page = "CheckISO" /\ pc' = "check.end" => Fresh' \/ CheckShown'
  PROVE  CheckExplained'
<1>1. tstate' # "FINISHED"
  BY DEF Starts, Works, SetStateStart, Idle, ControlInv, WorkerPhase, Completed
<1>2. ~gonext'
  <2>1. tstate # "FINISHED"
    BY DEF Starts, Works, Idle, ControlInv, WorkerPhase, Completed
  <2>2. QED
    BY <2>1 DEF ControlInv, PageFollowsEvents, guiVars, pageVars
<1>3. QED
  BY <1>1, <1>2 DEF CheckExplained, guiVars, pageVars

(* A step of the check worker that fails with the page there shows it. *)
LEMMA CheckFailureShown ==
  ASSUME TypeOK, page = "CheckISO", CheckFail
  PROVE  CheckShown'
<1>1. events \in Seq(EventKind) /\ events' = Append(events, "ERROR")
  BY DEF TypeOK, ThreadType, WorkerOfPage, CheckFail, Post
<1>2. Len(events') \in 1 .. Len(events') /\ events'[Len(events')] = "ERROR"
  BY <1>1
<1>3. QED
  BY <1>2 DEF CheckShown

(* The emptied folder. *)
LEMMA RemovedIsFresh ==
  ASSUME TypeOK, FolderThere, RemoveWorkDir
  PROVE  Fresh' /\ tmpWim'.state = "none" /\ ~Held'
BY DEF RemoveWorkDir, FolderThere, Held, Fresh, NoPe, NoWim

(* A step of the check worker keeps the folder invariant. *)
LEMMA CheckStepFolder ==
  ASSUME TypeOK, ControlInv, FolderInv, CheckStep, UNCHANGED guiVars
  PROVE  FolderInv'
<1>1. /\ page \in {"CheckISO", "Closed"} /\ page' = page
      /\ pc \in checkPc /\ pc' \in checkPc \cup {"exit"}
  BY CheckStepPage
<1>2. StartFresh' /\ BuildSourced'
  BY <1>1 DEF StartFresh, BuildSourced, checkPc, makePc
<1>3. holder' = holder
  BY DEF CheckStep, CheckEntry, CheckPrep, CheckFirstFromRE, CheckFirstExisting,
         CheckFirstFromISO, CheckSecond, CheckThird, CheckReport, CheckEnd
<1>4. ASSUME FolderThere', CheckFresh', Starts \/ Works,
             page = "CheckISO" /\ pc' = "check.end" => Fresh' \/ CheckShown'
      PROVE  FolderInv'
  BY <1>2, <1>4, CheckRunning DEF FolderInv
<1>5. ASSUME CheckFail PROVE page = "CheckISO" => CheckShown'
  BY <1>5, CheckFailureShown
<1>6. UNCHANGED workVars => (Fresh' = Fresh /\ Held' = Held)
  BY <1>3, FolderKept
<1>7. CASE CheckEntry
  <2>1. Starts /\ pc' = "check.prep"
    BY <1>7 DEF CheckEntry, Starts, Idle
  <2>2. FolderThere' /\ CheckFresh'
    BY <1>6, <1>7 DEF CheckEntry, FolderInv, FolderThere, CheckFresh, workVars, makePc
  <2>3. QED
    BY <1>4, <2>1, <2>2
<1>8. CASE CheckPrep
  <2>1. Works /\ (pc' = "check.first" \/ CheckFail)
    BY <1>8 DEF CheckPrep, CheckFail, Works, Idle
  <2>2. CASE RemoveWorkDir /\ PrepareWorkDir /\ pc' = "check.first"
    <3>1. Fresh' /\ tmpWim'.state = "none" /\ ~Held'
      BY <2>2, RemovedIsFresh DEF FolderInv
    <3>2. FolderThere' /\ CheckFresh'
      BY <2>2, <3>1 DEF FolderThere, CheckFresh, PrepareWorkDir
    <3>3. QED
      BY <1>4, <2>1, <2>2, <3>2
  <2>3. CASE RemoveWorkDir /\ CheckFail
    <3>1. Fresh' /\ tmpWim'.state = "none" /\ ~Held'
      BY <2>3, RemovedIsFresh DEF FolderInv
    <3>2. FolderThere' /\ CheckFresh'
      BY <2>3, <3>1 DEF FolderThere, CheckFresh, CheckFail, makePc
    <3>3. QED
      BY <1>4, <2>1, <3>1, <3>2
  <2>4. CASE RemoveWorkDirFails /\ CheckFail
    <3>1. FolderThere' /\ CheckFresh'
      BY <2>4 DEF FolderThere, CheckFresh, CheckFail, RemoveWorkDirFails, makePc
    <3>2. QED
      BY <1>4, <1>5, <2>1, <2>4, <3>1
  <2>5. QED
    BY <1>8, <2>2, <2>3, <2>4 DEF CheckPrep
<1>9. CASE CheckFirstFromRE \/ CheckFirstExisting
  <2>1. Works /\ pc = "check.first" /\ (Fetched \/ FetchFailed)
        /\ UNCHANGED <<dir, software, peWim, bootFiles, isoFile, hive, mounted>>
    BY <1>9 DEF CheckFirstFromRE, CheckFirstExisting, CheckFail, Works, Idle
  <2>2. Fresh' /\ dir' /\ ~Held'
    BY <1>3, <2>1
       DEF FolderInv, FolderThere, CheckFresh, Fresh, Held, SelectedSource
  <2>3. \/ pc' = "check.third" /\ tmpWim'.src = SelectedSource
        \/ pc' = "check.end"
    BY <1>9 DEF CheckFirstFromRE, CheckFirstExisting, CheckFail, Fetched
  <2>4. FolderThere' /\ CheckFresh'
    BY <1>3, <2>2, <2>3 DEF FolderThere, CheckFresh, SelectedSource, makePc
  <2>5. QED
    BY <1>4, <2>1, <2>2, <2>4
<1>10. CASE CheckFirstFromISO
  <2>1. Works /\ pc = "check.first" /\ pc' \in {"check.second", "check.end"}
        /\ UNCHANGED workVars
    BY <1>10 DEF CheckFirstFromISO, CheckFail, Works, Idle
  <2>2. Fresh' /\ FolderThere' /\ CheckFresh'
    BY <1>6, <2>1 DEF FolderInv, FolderThere, CheckFresh, workVars, makePc
  <2>3. QED
    BY <1>4, <2>1, <2>2
<1>11. CASE CheckSecond
  <2>1. Works /\ pc = "check.second"
        /\ UNCHANGED <<dir, software, peWim, bootFiles, isoFile, hive, mounted>>
    BY <1>11 DEF CheckSecond, Works, Idle
  <2>2. Fresh' /\ dir' /\ ~Held'
    BY <1>3, <2>1
       DEF FolderInv, FolderThere, CheckFresh, Fresh, Held, SelectedSource
  <2>3. \/ pc' = "check.third" /\ tmpWim'.src = SelectedSource
        \/ pc' = "check.report"
    BY <1>11 DEF CheckSecond, Fetched
  <2>4. FolderThere' /\ CheckFresh'
    BY <1>3, <2>2, <2>3 DEF FolderThere, CheckFresh, SelectedSource, makePc
  <2>5. QED
    BY <1>4, <2>1, <2>2, <2>4
<1>12. CASE CheckThird
  <2>1. Works /\ pc = "check.third" /\ pc' = "check.report"
        /\ UNCHANGED <<dir, tmpWim, software, bootFiles, isoFile, hive, mounted>>
    BY <1>12 DEF CheckThird, Works, Idle
  <2>2. \/ peWim' = [state |-> "whole", src |-> tmpWim.src, arch |-> "none"]
        \/ peWim' \in {peWim, NoPe}
    BY <1>12 DEF CheckThird
  <2>3. Fresh'
    BY <1>3, <2>1, <2>2
       DEF FolderInv, CheckFresh, Fresh, Held, SelectedSource, NoPe
  <2>4. FolderThere' /\ CheckFresh'
    BY <2>1, <2>3 DEF FolderInv, FolderThere, CheckFresh, Held, makePc
  <2>5. QED
    BY <1>4, <2>1, <2>3, <2>4
<1>13. CASE CheckReport
  <2>1. Works /\ pc = "check.report" /\ pc' = "check.end" /\ UNCHANGED workVars
    BY <1>13 DEF CheckReport, Works, Idle
  <2>2. Fresh' /\ FolderThere' /\ CheckFresh'
    BY <1>6, <2>1 DEF FolderInv, FolderThere, CheckFresh, workVars, makePc
  <2>3. QED
    BY <1>4, <2>1, <2>2
<1>14. CASE CheckEnd
  <2>1. Ends /\ pc = "check.end" /\ pc' = "exit" /\ UNCHANGED workVars
    BY <1>14 DEF CheckEnd, Ends, Idle
  <2>2. FolderThere' /\ CheckFresh'
    BY <1>6, <2>1 DEF FolderInv, FolderThere, CheckFresh, workVars, makePc
  <2>3. ~gonext'
    BY <2>1 DEF ControlInv, WorkerPhase, PageFollowsEvents, Completed, guiVars,
                pageVars
  <2>4. CheckShown => CheckShown'
    <3>1. /\ events \in Seq(EventKind)
          /\ events' \in {events, Append(events, CompletedState)}
      BY <2>1 DEF TypeOK, ThreadType, Ends, SetStateComplete, Post
    <3>2. \A i \in 1 .. Len(events) :
            i \in 1 .. Len(events') /\ events'[i] = events[i]
      BY <3>1
    <3>3. QED
      BY <3>2 DEF CheckShown, guiVars
  <2>5. CheckExplained'
    BY <1>1, <1>6, <2>1, <2>3, <2>4 DEF FolderInv, CheckExplained
  <2>6. QED
    BY <1>2, <2>2, <2>5 DEF FolderInv
<1>15. QED
  BY <1>7, <1>8, <1>9, <1>10, <1>11, <1>12, <1>13, <1>14 DEF CheckStep

(* A step of the build keeps the folder invariant. *)
LEMMA MakeStepFolder ==
  ASSUME TypeOK, FolderInv, BuildInv, MakeStep, UNCHANGED guiVars
  PROVE  FolderInv'
<1>1. /\ page \in {"Extract", "Closed"} /\ page' = page
      /\ pc \in makePc /\ pc' \in makePc \cup {"exit"}
  BY MakeStepPage
<1>2. CheckFresh' /\ CheckExplained'
  BY <1>1 DEF CheckFresh, CheckExplained, makePc
<1>3. holder' = holder /\ checkError' = checkError
  BY DEF MakeStep, MakeEntry, MakePrep, MakeFirst, MakeSecond, MakeThird, MakeHive,
         MakeFourth, MakeFifth, MakeSixth, MakeSeventh, MakeDism, MakeDismDone,
         MakeEighth, MakeFinal, MakeEnd, MakeCancelled, Cancelled, guiVars
<1>4. SelectedSource' = SelectedSource
  BY <1>3 DEF SelectedSource
<1>5. Sourced \/ checkError
  BY <1>1 DEF FolderInv, BuildSourced
<1>6. ASSUME FolderThere',
             pc' \in {"make.prep", "make.first", "make.second"} =>
               pc \in {"make.entry", "make.prep", "make.first", "make.second"}
               /\ UNCHANGED workVars,
             Sourced => Sourced', pc' # "make.entry"
      PROVE  FolderInv'
  <2>1. StartFresh'
    <3>1. CASE pc' \in {"make.prep", "make.first", "make.second"}
      BY <1>3, <1>6, <3>1, FolderKept DEF FolderInv, StartFresh
    <3>2. QED
      BY <1>1, <1>6, <3>1 DEF StartFresh
  <2>2. QED
    BY <1>2, <1>3, <1>5, <1>6, <2>1 DEF FolderInv, BuildSourced
<1>7. UNCHANGED workVars => Sourced' = Sourced
  BY <1>3, FolderKept
<1> USE DEF FolderThere, makePc
<1>8. CASE MakeEntry \/ MakePrep \/ MakeFirst
  <2>1. /\ UNCHANGED workVars
        /\ pc \in {"make.entry", "make.prep", "make.first"}
        /\ pc' \in {"make.prep", "make.first", "make.second", "make.end"}
    BY <1>8 DEF MakeEntry, MakePrep, MakeFirst, MakeFail, Enter
  <2>2. pc' \in {"make.first", "make.second"} => dir
    BY <1>8 DEF MakeEntry, MakePrep, MakeFirst, MakeFail, Enter, FolderInv
  <2>3. FolderThere'
    BY <2>1, <2>2 DEF FolderInv, Held, workVars
  <2>4. QED
    BY <1>6, <1>7, <2>1, <2>3
<1>9. CASE MakeSecond
  <2>1. FolderThere'
    BY <1>9 DEF MakeSecond, Enter, FolderInv, Held
  <2>2. Sourced => Sourced'
    BY <1>4, <1>9 DEF MakeSecond, Sourced
  <2>3. QED
    BY <1>6, <1>9, <2>1, <2>2 DEF MakeSecond
<1>10. CASE MakeThird
  <2>1. pc = "make.third" /\ pc' \in {"make.hive", "make.fourth"}
        /\ UNCHANGED <<dir, tmpWim, peWim, isoFile>>
    BY <1>10 DEF MakeThird, Enter
  <2>2. FolderThere'
    BY <2>1 DEF FolderInv
  <2>3. Sourced => Sourced'
    BY <1>4, <2>1 DEF Sourced
  <2>4. QED
    BY <1>6, <2>1, <2>2, <2>3
<1>11. CASE MakeHive
  <2>1. pc = "make.hive" /\ pc' = "make.fourth" /\ UNCHANGED <<dir, tmpWim, isoFile>>
        /\ peWim' \in {peWim, NoPe}
    BY <1>11 DEF MakeHive, OverwriteFailed
  <2>2. FolderThere'
    BY <2>1 DEF FolderInv
  <2>3. Sourced => Sourced'
    BY <1>4, <2>1 DEF Sourced
  <2>4. QED
    BY <1>6, <2>1, <2>2, <2>3
<1>12. CASE MakeFourth
  <2>1. pc = "make.fourth" /\ pc' = "make.fifth"
        /\ UNCHANGED <<dir, tmpWim, peWim, isoFile, hive, mounted>>
    BY <1>12 DEF MakeFourth, Enter
  <2>2. FolderThere'
    BY <2>1 DEF FolderInv, Held
  <2>3. Sourced => Sourced'
    BY <1>4, <2>1 DEF Sourced
  <2>4. QED
    BY <1>6, <2>1, <2>2, <2>3
<1>13. CASE MakeFifth
  <2>1. pc = "make.fifth" /\ pc' \in {"make.sixth", "make.end"}
        /\ UNCHANGED <<dir, tmpWim, isoFile, hive, mounted>>
    BY <1>13 DEF MakeFifth, MakeFail
  <2>2. \/ peWim.state = "whole" /\ peWim'.src = peWim.src
        \/ peWim' \in {peWim, NoPe}
    BY <1>13 DEF MakeFifth, OverwriteFailed, TypeOK, WorkDirType, PeType
  <2>3. FolderThere'
    BY <2>1 DEF FolderInv, Held
  <2>4. Sourced => Sourced'
    BY <1>4, <2>1, <2>2 DEF Sourced, NoPe
  <2>5. QED
    BY <1>6, <2>1, <2>3, <2>4
<1>14. CASE MakeSixth \/ MakeSeventh \/ MakeDismDone
  <2>1. /\ UNCHANGED workVars
        /\ pc \in {"make.sixth", "make.seventh", "make.dism"}
        /\ pc' \in {"make.seventh", "make.dism", "make.eighth"}
    BY <1>14 DEF MakeSixth, MakeSeventh, MakeDismDone, Enter
  <2>2. FolderThere'
    BY <2>1 DEF FolderInv, Held, workVars
  <2>3. QED
    BY <1>6, <1>7, <2>1, <2>2
<1>15. CASE MakeDism
  <2>1. pc = "make.dism" /\ pc' = "make.dism"
        /\ UNCHANGED <<dir, tmpWim, peWim, isoFile>>
    BY <1>15 DEF MakeDism, Enter
  <2>2. FolderThere'
    BY <2>1 DEF FolderInv
  <2>3. Sourced => Sourced'
    BY <1>4, <2>1 DEF Sourced
  <2>4. QED
    BY <1>6, <2>1, <2>2, <2>3
<1>16. CASE MakeEighth
  <2>1. pc = "make.eighth" /\ pc' \in {"make.final", "make.end"}
        /\ UNCHANGED <<dir, tmpWim, peWim, hive, mounted>>
    BY <1>16 DEF MakeEighth, MakeFail
  <2>2. isoFile' \in {MadeIso, isoFile, PartialIso}
    BY <1>16 DEF MakeEighth
  <2>3. peWim # NoPe
    <3>1. peWim.arch = SelectedArch
      BY <2>1 DEF BuildInv, ArchKept
    <3>2. QED
      BY <3>1 DEF NoPe, SelectedArch
  <2>4. FolderThere'
    BY <2>1 DEF FolderInv, Held
  <2>5. Sourced => Sourced'
    BY <1>4, <2>1, <2>2, <2>3 DEF Sourced, MadeIso, PartialIso
  <2>6. QED
    BY <1>6, <2>1, <2>4, <2>5
<1>17. CASE MakeFinal
  <2>1. pc = "make.final" /\ pc' = "make.end"
        /\ UNCHANGED <<dir, peWim, isoFile, hive, mounted>>
        /\ tmpWim' \in {tmpWim, NoWim}
    BY <1>17 DEF MakeFinal, RemoveTmp, TmpPartlyRemoved
  <2>2. FolderThere'
    BY <2>1 DEF FolderInv, Held
  <2>3. Sourced => Sourced'
    BY <1>4, <2>1 DEF Sourced
  <2>4. QED
    BY <1>6, <2>1, <2>2, <2>3
<1>18. CASE MakeEnd \/ MakeCancelled
  <2>1. UNCHANGED workVars /\ pc' \in {"make.end", "exit"}
    BY <1>18 DEF MakeEnd, MakeCancelled, Cancelled
  <2>2. FolderThere'
    BY <2>1 DEF FolderInv, Held, workVars
  <2>3. QED
    BY <1>6, <1>7, <2>1, <2>2
<1>19. QED
  BY <1>8, <1>9, <1>10, <1>11, <1>12, <1>13, <1>14, <1>15, <1>16, <1>17, <1>18
     DEF MakeStep

-----------------------------------------------------------------------------
(* Handling an event: an error leaves the queue for the page, and the end  *)
(* is handled with no error behind it in the queue.                        *)
LEMMA HandleEventFolder ==
  ASSUME TypeOK, ControlInv, EndIsLast, FolderInv, HandleEvent
  PROVE  FolderInv'
<1>1. /\ events \in Seq(EventKind) /\ events # <<>> /\ events' = Tail(events)
      /\ Head(events) = events[1] /\ 1 \in 1 .. Len(events)
  BY DEF TypeOK, ThreadType, HandleEvent
<1>2. UNCHANGED <<tstate, pc, workVars, holder, page>>
  BY DEF HandleEvent
<1>3. /\ Fresh' = Fresh /\ Sourced' = Sourced /\ Held' = Held
      /\ checkError => checkError'
  BY <1>2, FolderKept DEF HandleEvent, OnError
<1>4. FolderThere' /\ CheckFresh' /\ StartFresh' /\ BuildSourced'
  BY <1>2, <1>3
     DEF FolderInv, FolderThere, CheckFresh, StartFresh, BuildSourced,
         SelectedSource, workVars
<1>5. ASSUME page = "CheckISO" PROVE CheckShown => CheckShown'
  <2>1. ASSUME NEW i \in 1 .. Len(events), events[i] = "ERROR"
        PROVE  CheckShown'
    <3>1. CASE i = 1
      BY <1>1, <1>5, <2>1, <3>1 DEF HandleEvent, OnError, CheckShown
    <3>2. CASE i # 1
      <4>1. i - 1 \in 1 .. Len(events') /\ events'[i - 1] = events[i]
        BY <1>1, <2>1, <3>2
      <4>2. QED
        BY <2>1, <4>1 DEF CheckShown
    <3>3. QED
      BY <3>1, <3>2
  <2>2. QED
    BY <1>3, <2>1 DEF CheckShown
<1>6. ASSUME page = "CheckISO", Head(events) = "FINISHED"
      PROVE  Fresh \/ checkError
  <2>1. tstate = "FINISHED"
    BY <1>1, <1>6 DEF ControlInv, EventsFollowState
  <2>2. Len(events) = 1
    BY <1>1, <1>6 DEF EndIsLast
  <2>3. \A i \in 1 .. Len(events) : events[i] # "ERROR"
    BY <1>1, <1>6, <2>2
  <2>4. QED
    BY <1>6, <2>1, <2>3 DEF FolderInv, CheckExplained, CheckShown
<1>7. CheckExplained'
  BY <1>2, <1>3, <1>5, <1>6 DEF FolderInv, CheckExplained, HandleEvent, OnThreadEvent
<1>8. QED
  BY <1>4, <1>7 DEF FolderInv

(* A page that is opened takes over what the page before it knows. *)
LEMMA ShowFolder ==
  ASSUME FolderInv, NEW p \in Page, Show(p), UNCHANGED workVars,
         p \in {"SelectArch", "SelectMbrGpt", "Extract"} =>
           Fresh' \/ checkError',
         p = "Complete" => Sourced' \/ checkError'
  PROVE  FolderInv'
<1>1. /\ page' = p /\ tstate' = "NOTSTARTED" /\ ~gonext'
      /\ pc' = CASE p = "CheckISO" -> "check.entry"
                 [] p = "Extract"  -> "make.entry"
                 [] OTHER          -> "none"
  BY DEF Show, ResetPage, NewThread
<1>2. FolderThere' /\ CheckFresh' /\ CheckExplained' /\ StartFresh'
  BY <1>1
     DEF FolderInv, FolderThere, CheckFresh, CheckExplained, StartFresh, Held,
         workVars, makePc
<1>3. BuildSourced'
  <2>1. Fresh' => Sourced'
    BY FreshIsSourced DEF Fresh, Sourced, NoIso
  <2>2. QED
    BY <1>1, <2>1 DEF BuildSourced, makePc
<1>4. QED
  BY <1>2, <1>3 DEF FolderInv

(* Staying on a page, and closing the window, leave the folder alone. *)
LEMMA StayFolder ==
  ASSUME FolderInv, UNCHANGED <<pc, workVars, checkError>>,
         holder'.method = holder.method, holder'.path = holder.path,
         UNCHANGED <<page, gonext>> \/ page' = "Closed",
         page' = "CheckISO" /\ tstate' = "FINISHED" => tstate = "FINISHED",
         page' = "CheckISO" /\ CheckShown => CheckShown'
  PROVE  FolderInv'
<1>1. Fresh' = Fresh /\ Sourced' = Sourced /\ Held' = Held
  BY FolderKept
<1>2. SelectedSource' = SelectedSource
  BY DEF SelectedSource
<1>3. FolderThere' /\ CheckFresh'
  BY <1>1, <1>2 DEF FolderInv, FolderThere, CheckFresh, workVars
<1>4. CheckExplained'
  BY <1>1 DEF FolderInv, CheckExplained
<1>5. StartFresh' /\ BuildSourced'
  BY <1>1 DEF FolderInv, StartFresh, BuildSourced
<1>6. QED
  BY <1>3, <1>4, <1>5 DEF FolderInv

(* Closing the window is one of them. *)
LEMMA CloseFolder ==
  ASSUME TypeOK, FolderInv, OnClose
  PROVE  FolderInv'
<1>1. checkError' = checkError
  BY DEF TypeOK, GuiType, OnClose, ResetPage
<1>2. page' = "Closed" /\ UNCHANGED <<pc, workVars, holder>>
  BY DEF OnClose, ResetPage
<1>3. QED
  BY <1>1, <1>2, StayFolder

(* A click handler keeps the folder invariant. *)
LEMMA HandleClickFolder ==
  ASSUME TypeOK, ControlInv, FolderInv, HandleClick
  PROVE  FolderInv'
<1>1. CASE \E p \in {"Main", "CheckISO"} : Show(p) /\ UNCHANGED workVars
  BY <1>1, ShowFolder DEF Page
<1>2. CASE OnClickNext("CheckISO", "SelectArch") /\ gonext /\ ~goback
  <2>1. page = "CheckISO" /\ Show("SelectArch") /\ UNCHANGED <<workVars, holder>>
    BY <1>2 DEF OnClickNext, Clicked
  <2>2. Fresh' \/ checkError'
    BY <1>2, <2>1, FolderKept DEF FolderInv, CheckExplained, Show, ResetPage
  <2>3. QED
    BY <2>1, <2>2, ShowFolder DEF Page
<1>3. CASE OnClickNext("Extract", "Complete") /\ gonext /\ ~goback
  <2>1. page = "Extract" /\ Show("Complete") /\ UNCHANGED <<workVars, holder>>
    BY <1>3 DEF OnClickNext, Clicked
  <2>2. Sourced' \/ checkError'
    BY <2>1, FolderKept DEF FolderInv, BuildSourced, Show, ResetPage
  <2>3. QED
    BY <2>1, <2>2, ShowFolder DEF Page
<1>4. CASE Select_OnClickPrevNext
  <2>1. PICK p \in {"Main", "SelectArch", "SelectMbrGpt", "Extract"} :
          Show(p) /\ page \in {"SelectArch", "SelectMbrGpt"}
          /\ UNCHANGED <<workVars, holder>>
    BY <1>4 DEF Select_OnClickPrevNext, Clicked
  <2>2. Fresh' \/ checkError'
    BY <2>1, FolderKept DEF FolderInv, StartFresh, Show, ResetPage
  <2>3. QED
    BY <2>1, <2>2, ShowFolder DEF Page
<1>5. CASE Select_OnClickButton
  <2>1. holder'.method = holder.method /\ holder'.path = holder.path
    BY <1>5 DEF Select_OnClickButton, TypeOK, DataHolderType
  <2>2. QED
    BY <1>5, <2>1, StayFolder DEF Select_OnClickButton, Stay, threadVars, CheckShown
<1>6. CASE Stay /\ UNCHANGED <<threadVars, workVars, holder>>
  BY <1>6, StayFolder DEF Stay, threadVars, CheckShown
<1>7. CASE Stay /\ Terminate /\ UNCHANGED <<pc, workVars, holder>>
  <2>1. CheckShown => CheckShown'
    <3>1. /\ events \in Seq(EventKind)
          /\ events' \in {events, Append(events, "TERMINATING")}
      BY <1>7 DEF TypeOK, ThreadType, Terminate, Post
    <3>2. \A i \in 1 .. Len(events) :
            i \in 1 .. Len(events') /\ events'[i] = events[i]
      BY <3>1
    <3>3. QED
      BY <1>7, <3>2 DEF CheckShown, Stay
  <2>2. tstate' = "FINISHED" => tstate = "FINISHED"
    BY <1>7 DEF Terminate
  <2>3. QED
    BY <1>7, <2>1, <2>2, StayFolder DEF Stay
<1>8. CASE OnClose
  BY <1>8, CloseFolder
<1>9. QED
  BY <1>1, <1>2, <1>3, <1>4, <1>5, <1>6, <1>7, <1>8
     DEF HandleClick, OnClickREButton, OnClickISOButton, OnClickBootWimButton,
         OpenFile, CheckISO_OnClickNextButton, CheckISO_OnClickPrevButton,
         Extract_OnClickNextButton, OnClickNext, OnClickButtonTop, OnClickButtonQuit,
         threadVars

(* The induction step of the folder invariant. *)
LEMMA NextFolder ==
  TypeOK /\ ControlInv /\ EndIsLast /\ BuildInv /\ FolderInv /\ [Next]_vars
    => FolderInv'
<1> SUFFICES ASSUME TypeOK, ControlInv, EndIsLast, BuildInv, FolderInv, [Next]_vars
             PROVE  FolderInv'
  OBVIOUS
<1>1. CASE WorkerStep
  BY <1>1, CheckStepFolder, MakeStepFolder DEF WorkerStep
<1>2. CASE HandleEvent
  BY <1>2, HandleEventFolder
<1>3. CASE HandleClick
  BY <1>3, HandleClickFolder
<1>4. CASE User \/ UNCHANGED vars
  BY <1>4, StayFolder
     DEF User, MouseReleased, vars, threadVars, guiVars, pageVars, CheckShown
<1>5. CASE CloseBox
  BY <1>5, CloseFolder DEF CloseBox
<1>6. CASE Relaunch
  BY <1>6, ShowFolder DEF Relaunch, Page
<1>7. QED
  BY <1>1, <1>2, <1>3, <1>4, <1>5, <1>6 DEF Next

(* The invariants together. *)
LEMMA Folder == Spec => [](BuildInv /\ FolderInv)
<1>1. Init => EndIsLast /\ BuildInv
  BY DEF Init, EndIsLast, BuildInv, ArchKept, FinalBuilt
<1>2. Init => FolderInv
  BY DEF Init, WorkDirInit, FolderInv, FolderThere, CheckFresh, CheckExplained,
         StartFresh, BuildSourced, Held, NoWim, makePc
<1>3. QED
  BY <1>1, <1>2, NextLast, NextBuild, NextFolder, Control, PTL DEF Spec

-----------------------------------------------------------------------------
(***************************************************************************)
(* The image offered was made from the source the user selected, whatever  *)
(* earlier jobs left in the work folder, unless the check page displayed   *)
(* an error.                                                               *)
(***************************************************************************)
THEOREM OfferIsFromSelection == Spec => []BuiltFromSelection
<1>1. BuildInv /\ FolderInv => BuiltFromSelection
  BY DEF BuildInv, ExtractInv, Built, FolderInv, BuildSourced, Sourced,
         BuiltFromSelection, Offered
<1>2. QED
  BY <1>1, Folder, PTL

(***************************************************************************)
(* No user gets past the check page over a folder that a hive or a mount   *)
(* left behind makes impossible to rebuild, without having been told.      *)
(***************************************************************************)
THEOREM HeldFolderIsReported == Spec => []HeldFolderReported
<1>1. FolderInv => HeldFolderReported
  BY DEF FolderInv, StartFresh, Fresh, HeldFolderReported
<1>2. QED
  BY <1>1, Folder, PTL

(***************************************************************************)
(* A build starts on a folder no other build has touched.                  *)
(***************************************************************************)
THEOREM StartIsClean == Spec => []BuildStartsClean
<1>1. FolderInv => BuildStartsClean
  BY DEF FolderInv, StartFresh, Fresh, BuildStartsClean
<1>2. QED
  BY <1>1, Folder, PTL
=============================================================================
