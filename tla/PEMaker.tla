------------------------------- MODULE PEMaker ------------------------------
(***************************************************************************)
(* The program: the wizard of FrameImpl.cpp on the GUI thread, the worker  *)
(* thread of the page on display, the work folder both leave behind, and   *)
(* what happens when the window is closed and the program started again.   *)
(*                                                                         *)
(* The GUI thread runs one handler at a time: a click, a thread event, the *)
(* closing of the window.  A handler is one action.  The worker's steps    *)
(* (CheckISOImage, MakePEImage) interleave with the handlers.              *)
(*                                                                         *)
(* A SimpleButton queues its click event when the mouse button is released *)
(* over it, if it is enabled then; the handler runs later, after other     *)
(* pending events perhaps.  wxWidgets handles pending events before it     *)
(* dispatches the next input message, so at most one click is pending.     *)
(***************************************************************************)
EXTENDS CheckISOImage, MakePEImage

CONSTANT Uses  (* the buttons the user ever presses                        *)

Button  == {"Next", "Prev", "RE", "ISO", "BootWim", "32bit", "64bit", "Mbr", "Gpt",
            "Top", "Quit"}

ASSUME UsesAssumption == Uses \subseteq Button

VARIABLES
  page,        (* Container_Util::CurrentFrame                             *)
  click,       (* the button whose click event is pending                  *)
  goback,      (* ProgressHandler::ready_to_goback                         *)
  gonext,      (* ProgressHandler::ready_to_gonext                         *)
  error,       (* ProgressHandler::error, set by the Extract page only     *)
  label,       (* text of the Next button of a progress page               *)
  nextEnabled, (* of the PrevNextPanel                                     *)
  prevEnabled,
  checkError   (* history: the last check page displayed an error          *)

pageVars == <<page, click, goback, gonext, error, label, nextEnabled, prevEnabled>>
guiVars  == <<pageVars, checkError>>
vars     == <<threadVars, workVars, holder, dismNext, guiVars>>

Page == {"Main", "CheckISO", "SelectArch", "SelectMbrGpt", "Extract", "Complete",
         "Closed"}
ProgressPage == {"CheckISO", "Extract"}

(* The buttons of a page other than Next and Prev; all are always enabled. *)
Choices ==
  [p \in Page |->
     CASE p = "Main"         -> {"RE", "ISO", "BootWim"}
       [] p = "SelectArch"   -> {"32bit", "64bit"}
       [] p = "SelectMbrGpt" -> {"Mbr", "Gpt"}
       [] p = "Complete"     -> {"Top", "Quit"}
       [] OTHER              -> {}]

NoClick == "none"

Label == {"Next", "Cancel", "Canceling", "Canceled", "Error"}

Enabled(b) ==
  \/ b = "Next" /\ nextEnabled
  \/ b = "Prev" /\ prevEnabled
  \/ b \in Choices[page]

-----------------------------------------------------------------------------
(***************************************************************************)
(* Container_Util::SetNewframe(new <page>): the constructor of the new     *)
(* page, then the OnClose of the old one, which deletes its worker, then   *)
(* the old page and its buttons are destroyed with the events pending for  *)
(* them.                                                                   *)
(***************************************************************************)
ResetPage(p) ==
  /\ page' = p
  /\ click' = NoClick
  /\ goback' = FALSE
  /\ gonext' = FALSE
  /\ error' = FALSE
  /\ label' = IF p \in ProgressPage THEN "Cancel" ELSE "Next"
  /\ nextEnabled' = (p \in ProgressPage)
  /\ prevEnabled' = (p \in {"SelectArch", "SelectMbrGpt"})
  /\ checkError' = (checkError /\ p # "CheckISO")

NewThread(entry) ==
  /\ tstate' = "NOTSTARTED"
  /\ events' = <<>>
  /\ listening' = TRUE
  /\ pc' = entry
  /\ isoOpen' = FALSE
  /\ dismNext' = 1

(* Mutant of Show: the Extract page runs the wrong worker.                 *)
ShowRunsCheck(p) ==
  /\ ResetPage(p)
  /\ NewThread(IF p \in ProgressPage THEN "check.entry" ELSE "none")

(* Pages that need no worker, and the two that create one and Run() it. *)
Show(p) ==
  /\ ResetPage(p)
  /\ NewThread(CASE p = "CheckISO" -> "check.entry"
                 [] p = "Extract"  -> "make.entry"
                 [] OTHER          -> "none")

-----------------------------------------------------------------------------
(* The mouse is released over an enabled button. *)
MouseReleased(b) ==
  /\ page # "Closed"
  /\ click = NoClick
  /\ Enabled(b)
  /\ click' = b
  /\ UNCHANGED <<threadVars, workVars, holder, dismNext, page, goback, gonext,
                 error, label, nextEnabled, prevEnabled, checkError>>

Clicked(p, b) == page = p /\ click = b

Stay ==
  /\ click' = NoClick
  /\ UNCHANGED <<page, goback, gonext, error, label, prevEnabled, checkError>>

(* Container_MainImpl *)
OnClickREButton ==
  /\ Clicked("Main", "RE")
  /\ holder' = [holder EXCEPT !.method = "FROM_RE"]
  /\ Show("CheckISO")
  /\ UNCHANGED workVars

(* OnClickISOButton and OnClickBootWimButton: the file dialog is modal. *)
OpenFile(method) ==
  \/ Stay /\ UNCHANGED <<threadVars, workVars, holder, dismNext, nextEnabled>>
  \/ /\ \E f \in Paths :
          holder' = [holder EXCEPT !.method = method, !.path = f]
     /\ Show("CheckISO")
     /\ UNCHANGED workVars

OnClickISOButton     == Clicked("Main", "ISO") /\ OpenFile("FROM_ISO")
OnClickBootWimButton == Clicked("Main", "BootWim") /\ OpenFile("USE_EXISTING_FILE")

(* Mutant of OnClickNext: a failed build leads back to the last choice.    *)
OnClickNextRetries(p, nextPage) ==
  /\ Clicked(p, "Next")
  /\ \/ /\ goback \/ gonext
        /\ Show(IF ~goback THEN nextPage
                ELSE IF p = "Extract" THEN "SelectMbrGpt" ELSE "Main")
        /\ UNCHANGED <<workVars, holder>>
     \/ /\ ~goback /\ ~gonext
        /\ Terminate
        /\ Stay
        /\ UNCHANGED <<pc, listening, isoOpen, workVars, holder, dismNext,
                       nextEnabled>>

(***************************************************************************)
(* Next on the two progress pages goes back or on when the worker's end    *)
(* has been handled, and asks the worker to stop until then.               *)
(***************************************************************************)
OnClickNext(p, nextPage) ==
  /\ Clicked(p, "Next")
  /\ \/ /\ goback \/ gonext
        /\ Show(IF goback THEN "Main" ELSE nextPage)
        /\ UNCHANGED <<workVars, holder>>
     \/ /\ ~goback /\ ~gonext
        /\ Terminate
        /\ Stay
        /\ UNCHANGED <<pc, listening, isoOpen, workVars, holder, dismNext,
                       nextEnabled>>

CheckISO_OnClickNextButton == OnClickNext("CheckISO", "SelectArch")
Extract_OnClickNextButton  == OnClickNext("Extract", "Complete")

CheckISO_OnClickPrevButton ==
  /\ Clicked("CheckISO", "Prev")
  /\ Show("Main")
  /\ UNCHANGED <<workVars, holder>>

(* Prev and Next of the two selection pages. *)
Select_OnClickPrevNext ==
  /\ \/ Clicked("SelectArch", "Prev") /\ Show("Main")
     \/ Clicked("SelectArch", "Next") /\ Show("SelectMbrGpt")
     \/ Clicked("SelectMbrGpt", "Prev") /\ Show("SelectArch")
     \/ Clicked("SelectMbrGpt", "Next") /\ Show("Extract")
  /\ UNCHANGED <<workVars, holder>>

(* A selection enables Next. *)
Select_OnClickButton ==
  /\ \/ /\ page = "SelectArch" /\ click \in {"32bit", "64bit"}
        /\ holder' = [holder EXCEPT !.Arch32bit = (click = "32bit")]
     \/ /\ page = "SelectMbrGpt" /\ click \in {"Mbr", "Gpt"}
        /\ holder' = [holder EXCEPT !.Mbr = (click = "Mbr")]
  /\ nextEnabled' = TRUE
  /\ Stay
  /\ UNCHANGED <<threadVars, workVars, dismNext>>

OnClickButtonTop ==
  /\ Clicked("Complete", "Top")
  /\ Show("Main")
  /\ UNCHANGED <<workVars, holder>>

-----------------------------------------------------------------------------
(* Mutants of OnThreadEvent: back is possible as soon as the request is    *)
(* acknowledged, or not even when the worker has stopped.                  *)
OnThreadEventEarly(ev) ==
  /\ goback' = (goback \/ ev = "TERMINATING")
  /\ gonext' = (gonext \/ ev = "FINISHED")
  /\ label' = IF ev = "TERMINATING" THEN "Canceling" ELSE label
  /\ UNCHANGED prevEnabled

OnThreadEventStuck(ev) ==
  /\ goback' = (goback \/ (ev = "FINISHED" /\ page = "Extract" /\ error))
  /\ gonext' = (gonext \/ (ev = "FINISHED" /\ ~(page = "Extract" /\ error)))
  /\ label' = IF ev = "TERMINATING" THEN "Canceling" ELSE label
  /\ UNCHANGED prevEnabled

(* What the head of the queue does to the page, by the page's handlers. *)
OnThreadEvent(ev) ==
  /\ goback' = (goback \/ ev = "TERMINATED"
                       \/ (ev = "FINISHED" /\ page = "Extract" /\ error))
  /\ gonext' = (gonext \/ (ev = "FINISHED" /\ ~(page = "Extract" /\ error)))
  /\ prevEnabled' = (prevEnabled \/ (ev = "FINISHED" /\ page = "CheckISO"))
  /\ label' = CASE ev = "FINISHED" ->
                     IF page = "Extract" /\ error THEN "Error" ELSE "Next"
                [] ev = "TERMINATING" -> "Canceling"
                [] ev = "TERMINATED"  -> "Canceled"
                [] OTHER              -> label

(* Mutant of OnError: the Extract page, too, only displays the error.      *)
OnErrorShowsOnly(ev) ==
  /\ checkError' = (checkError \/ (ev = "ERROR" /\ page = "CheckISO"))
  /\ UNCHANGED error

OnError(ev) ==
  /\ error' = (error \/ (ev = "ERROR" /\ page = "Extract"))
  /\ checkError' = (checkError \/ (ev = "ERROR" /\ page = "CheckISO"))

HandleEvent ==
  /\ page \in ProgressPage
  /\ events # <<>>
  /\ OnThreadEvent(Head(events))
  /\ OnError(Head(events))
  /\ events' = Tail(events)
  /\ UNCHANGED <<tstate, listening, pc, isoOpen, workVars, holder, dismNext,
                 page, click, nextEnabled>>

-----------------------------------------------------------------------------
(***************************************************************************)
(* FrameImpl::OnClose, by the window's close box or by Quit.  The current  *)
(* page is destroyed without its own OnClose: its worker is neither        *)
(* stopped nor deleted.                                                    *)
(***************************************************************************)
OnClose ==
  /\ ResetPage("Closed")
  /\ events' = <<>>
  /\ listening' = FALSE
  /\ UNCHANGED <<tstate, pc, isoOpen, workVars, holder, dismNext>>

CloseBox == page # "Closed" /\ click = NoClick /\ OnClose

OnClickButtonQuit == Clicked("Complete", "Quit") /\ OnClose

(***************************************************************************)
(* The process ends, killing the worker where it is, and the program is    *)
(* started again; the work folder, a loaded hive and a mount remain.       *)
(***************************************************************************)
Relaunch ==
  /\ page = "Closed"
  /\ holder' = InitialChoices
  /\ Show("Main")
  /\ UNCHANGED workVars

-----------------------------------------------------------------------------
Init ==
  /\ holder = InitialChoices
  /\ WorkDirInit
  /\ tstate = "NOTSTARTED" /\ events = <<>> /\ listening = TRUE
  /\ pc = "none" /\ isoOpen = FALSE /\ dismNext = 1
  /\ page = "Main" /\ click = NoClick
  /\ goback = FALSE /\ gonext = FALSE /\ error = FALSE /\ label = "Next"
  /\ nextEnabled = FALSE /\ prevEnabled = FALSE
  /\ checkError = FALSE

WorkerStep ==
  /\ \/ CheckStep /\ UNCHANGED dismNext
     \/ MakeStep
  /\ UNCHANGED guiVars

HandleClick ==
  \/ OnClickREButton \/ OnClickISOButton \/ OnClickBootWimButton
  \/ CheckISO_OnClickNextButton \/ CheckISO_OnClickPrevButton
  \/ Select_OnClickPrevNext \/ Select_OnClickButton
  \/ Extract_OnClickNextButton \/ OnClickButtonTop
  \/ OnClickButtonQuit

User == \E b \in Uses : MouseReleased(b)

Next ==
  \/ WorkerStep
  \/ HandleEvent
  \/ HandleClick
  \/ User
  \/ CloseBox
  \/ Relaunch

Spec == Init /\ [][Next]_vars

(***************************************************************************)
(* The system schedules the worker thread, and the GUI thread empties its  *)
(* event queues; nothing makes the user click, close or start again.  The  *)
(* worker's fairness assumes that what it calls returns: the file and      *)
(* registry functions, wimlib and dism.exe.                                *)
(***************************************************************************)
Fairness ==
  /\ WF_vars(WorkerStep)
  /\ WF_vars(HandleEvent)
  /\ WF_vars(HandleClick)

FairSpec == Spec /\ Fairness

-----------------------------------------------------------------------------
GuiType ==
  /\ page \in Page
  /\ click \in Button \cup {NoClick}
  /\ goback \in BOOLEAN /\ gonext \in BOOLEAN /\ error \in BOOLEAN
  /\ label \in Label
  /\ nextEnabled \in BOOLEAN /\ prevEnabled \in BOOLEAN
  /\ checkError \in BOOLEAN

(* The worker is the one the page on display created, if any. *)
WorkerOfPage ==
  /\ listening = (page # "Closed")
  /\ pc \in {"none", "exit"} \cup checkPc \cup makePc
  /\ pc # "none" => holder.method # Unset
  /\ page = "CheckISO" => pc \in checkPc \cup {"exit"}
  /\ page = "Extract" => pc \in makePc \cup {"exit"}
  /\ page \notin ProgressPage \cup {"Closed"} => pc = "none"
  /\ page \notin {"Main", "Closed"} => holder.method # Unset

(***************************************************************************)
(* Every variable has its type, and the worker running is the one the page *)
(* on display created, on choices the user has made: ExtractMethod is      *)
(* never read uninitialised.                                               *)
(***************************************************************************)
TypeOK ==
  /\ holder \in DataHolderType
  /\ WorkDirType
  /\ ThreadType
  /\ dismNext \in 1 .. Len(DismCmds) + 1
  /\ GuiType
  /\ WorkerOfPage

(***************************************************************************)
(* A page that owns a worker is never left, short of closing the window,   *)
(* before the worker has passed SetStateComplete: its OnClose deletes the  *)
(* thread object, and the next worker would share the work folder with a   *)
(* live one.  Cancelling only asks, so every way out has to wait for the   *)
(* worker's last event.                                                    *)
(***************************************************************************)
NavigationWaits ==
  [][(page \in ProgressPage /\ page' \notin {page, "Closed"}) => Completed]_vars

(***************************************************************************)
(* FOURTH_STEP uses the extractor without a look at it; FIRST_STEP opened  *)
(* it under a condition on a DataHolder that the GUI thread could write.   *)
(***************************************************************************)
IsoOpenWhenUsed ==
  pc = "make.fourth" /\ holder.method = "FROM_ISO" => isoOpen

(* The build page offers the way on, or the user has taken it. *)
Offered == page = "Complete" \/ (page = "Extract" /\ gonext)

(***************************************************************************)
(* The way on from the build page is offered only over a complete          *)
(* WinPE.iso, made for the architecture and the firmware selected on the   *)
(* earlier pages.  A failed build also ends as THREAD_FINISHED, so this    *)
(* needs the error event to be handled before the end event, for each      *)
(* failure of the pipeline.                                                *)
(***************************************************************************)
NextMeansBuilt ==
  Offered => /\ isoFile.state = "whole"
             /\ isoFile.arch = SelectedArch
             /\ isoFile.boot = SelectedBoot

(***************************************************************************)
(* The image offered was made from the source selected on the main page,   *)
(* whatever earlier jobs, cancelled, failed or killed, left in the work    *)
(* folder - unless the check page displayed an error, after which its Next *)
(* button works all the same.                                              *)
(***************************************************************************)
BuiltFromSelection == Offered => isoFile.src = SelectedSource \/ checkError

(***************************************************************************)
(* A hive left loaded or a mount left behind makes the work folder         *)
(* impossible to rebuild; no user gets past the check page over such a     *)
(* folder without having been told.                                        *)
(***************************************************************************)
HeldFolderReported ==
  Held /\ page \in {"SelectArch", "SelectMbrGpt"} => checkError

(***************************************************************************)
(* A build starts on a folder no other build has touched: whatever stopped *)
(* the last one, the way back leads through a check that empties it.       *)
(***************************************************************************)
BuildStartsClean ==
  pc \in {"make.entry", "make.prep"} =>
    \/ checkError
    \/ isoFile = NoIso /\ bootFiles = {} /\ ~software /\ peWim.arch = "none"

(***************************************************************************)
(* An accepted cancel request is never turned into an offer to go on, even *)
(* when it arrives after the worker's last look at it.                     *)
(***************************************************************************)
CancelNeverGoesOn == tstate \in {"TERMINATING", "TERMINATED"} => ~gonext

(* The page keeps the promise of JobPage. *)
phaseShown ==
  IF page = "Closed" THEN "closed"
  ELSE IF page \notin ProgressPage THEN "away"
  ELSE IF goback THEN "back"
  ELSE IF gonext THEN "next"
  ELSE IF label = "Canceling" THEN "stopping"
  ELSE "running"

Promise == INSTANCE JobPage WITH phase <- phaseShown

PagePromise == Promise!Spec

(***************************************************************************)
(* A cancel request accepted by the worker leads to the page offering the  *)
(* way back, unless the window is closed first.                            *)
(***************************************************************************)
CancelLeadsBack ==
  (page \in ProgressPage /\ tstate = "TERMINATING") ~> (goback \/ page = "Closed")
=============================================================================
