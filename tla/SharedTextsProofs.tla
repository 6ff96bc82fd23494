-------------------------- MODULE SharedTextsProofs --------------------------
(***************************************************************************)
(* Proofs about SharedTexts for every set of languages, settings file and  *)
(* environment: the texts are loaded by the GUI thread, always before a    *)
(* worker runs, so that the maps of texts need no lock.                    *)
(***************************************************************************)
EXTENDS SharedTexts, TLAPS

Labels == {"none", "load resource", "file?", "load file", "value"}

(***************************************************************************)
(* The inductive invariant.  Where a thread is in GetString tells what is  *)
(* loaded by then; what is not loaded will be by the constructor of the    *)
(* page, and a page whose constructor is at work has no worker that runs.  *)
(***************************************************************************)
Loads(t) ==
  /\ look[t] \in {"file?", "load file", "value"} => resource_loaded
  /\ look[t] = "value" => ~damaged
  /\ look[t] = "load resource" => ~resource_loaded
  /\ look[t] = "load file" => damaged

Shape ==
  /\ look \in [Threads -> Labels]
  /\ resource_loaded \in BOOLEAN /\ damaged \in BOOLEAN
  /\ locale \in Locales /\ ini \in Locales \cup {"none"}
  /\ ~damaged => ini \in {locale, "none"}
  /\ shown \in [Threads -> Locales \cup {"none"}]

Before ==
  /\ fresh \in BOOLEAN
  /\ fresh => worker # "running"
  /\ page = "main" => worker = "none"
  /\ ~resource_loaded \/ damaged => fresh
  /\ look["worker"] # "none" => worker = "running"

TextInv == Shape /\ Before /\ \A t \in Threads : Loads(t)

(* The invariant holds when the first page is made.                        *)
LEMMA InitTextInv == Init => TextInv
  BY LocalesAssumption
     DEF Init, LanguageInit, TextInv, Shape, Before, Loads, Threads, Labels

(* Each step of a lookup keeps what its labels stand for.                  *)
LEMMA LookupShape ==
  ASSUME TextInv, NEW t \in Threads, Lookup(t),
         UNCHANGED <<page, fresh, worker>>, t = "worker" => worker = "running"
  PROVE  TextInv'
<1>1. Threads = {"gui", "worker"}
  BY DEF Threads
<1>2. CASE GetString(t)
  BY <1>1, <1>2 DEF GetString, Reaches, TextInv, Shape, Before, Loads, Labels
<1>3. CASE LoadResource(t)
  BY <1>1, <1>3 DEF LoadResource, Reaches, TextInv, Shape, Before, Loads, Labels
<1>4. CASE FileLoaded(t)
  BY <1>1, <1>4 DEF FileLoaded, Reaches, TextInv, Shape, Before, Loads, Labels
<1>5. CASE LoadFile(t)
  BY <1>1, <1>5 DEF LoadFile, Reaches, TextInv, Shape, Before, Loads, Labels
<1> QED
  BY <1>2, <1>3, <1>4, <1>5 DEF Lookup

LEMMA ValueShape ==
  ASSUME TextInv, NEW t \in Threads, GetValue(t),
         UNCHANGED <<page, worker>>, fresh' \in BOOLEAN, fresh' => fresh,
         t = "worker" => worker = "running"
  PROVE  TextInv'
<1>1. Threads = {"gui", "worker"}
  BY DEF Threads
<1>2. resource_loaded /\ ~damaged
  BY DEF GetValue, TextInv, Loads
<1>3. UNCHANGED <<locale, damaged, ini, resource_loaded>> /\ look' = [look EXCEPT ![t] = "none"]
  BY DEF GetValue, Reaches
<1>4. Shape'
  <2>1. PICK from \in {ini, "none"} : shown' = [shown EXCEPT ![t] = from]
    BY DEF GetValue
  <2> QED
    BY <1>3, <2>1 DEF TextInv, Shape, Labels
<1>5. Before'
  BY <1>1, <1>2, <1>3 DEF TextInv, Shape, Before
<1>6. \A u \in Threads : Loads(u)'
  BY <1>3 DEF TextInv, Shape, Loads
<1> QED
  BY <1>4, <1>5, <1>6 DEF TextInv

(* Every step of either thread keeps the invariant.                        *)
LEMMA NextTextInv == TextInv /\ [Next]_vars => TextInv'
<1> SUFFICES ASSUME TextInv, [Next]_vars PROVE TextInv'
  OBVIOUS
<1>1. CASE UNCHANGED vars
  BY <1>1 DEF vars, languageVars, TextInv, Shape, Before, Loads
<1>2. CASE GuiLookup
  <2>1. "gui" \in Threads
    BY DEF Threads
  <2>2. CASE Lookup("gui") /\ UNCHANGED <<pageVars, envVars>>
    BY <2>1, <2>2, LookupShape DEF pageVars
  <2>3. CASE GetValue("gui") /\ fresh' = FALSE /\ UNCHANGED <<page, worker, envVars>>
    BY <2>1, <2>3, ValueShape
  <2> QED
    BY <1>2, <2>2, <2>3 DEF GuiLookup
<1>3. CASE WorkerLookup
  <2>1. "worker" \in Threads
    BY DEF Threads
  <2>2. CASE Lookup("worker")
    BY <1>3, <2>1, <2>2, LookupShape DEF WorkerLookup, pageVars
  <2>3. CASE GetValue("worker")
    BY <1>3, <2>1, <2>3, ValueShape DEF WorkerLookup, pageVars, TextInv, Before
  <2> QED
    BY <1>3, <2>2, <2>3 DEF WorkerLookup
<1>4. ASSUME NEW lng \in Locales, OnChoice(lng) PROVE TextInv'
  <2>1. look["gui"] = "none" /\ look["worker"] = "none"
    BY <1>4, LocalesAssumption DEF OnChoice, Handles, TextInv, Before
  <2> QED
    BY <1>4, <2>1 DEF OnChoice, NewPage, SetLocale, TextInv, Shape, Before, Loads, Threads
<1>5. CASE OnClickButton
  BY <1>5 DEF OnClickButton, Handles, NewPage, languageVars, TextInv, Shape, Before, Loads
<1>6. CASE RunWorker
  BY <1>6 DEF RunWorker, Handles, languageVars, TextInv, Shape, Before, Loads
<1>7. CASE LeavePage
  BY <1>7 DEF LeavePage, Handles, NewPage, languageVars, TextInv, Shape, Before, Loads
<1>8. CASE WorkerReplaces
  BY <1>8 DEF WorkerReplaces, pageVars, languageVars, TextInv, Shape, Before, Loads
<1>9. CASE WorkerEnds
  BY <1>9 DEF WorkerEnds, Works, languageVars, TextInv, Shape, Before, Loads
<1>10. CASE Crashed
  BY <1>1, <1>10 DEF Crashed
<1> QED
  BY <1>1, <1>2, <1>3, <1>4, <1>5, <1>6, <1>7, <1>8, <1>9, <1>10
     DEF Next, Gui, Worker

(* A thread that loads is the only one in GetString.                       *)
LEMMA TextInvImplies == TextInv => NeverLoadedWhileRead
  BY DEF TextInv, Shape, Before, Loads, NeverLoadedWhileRead, Loading, Threads

(* The maps of texts are never changed while the other thread looks into   *)
(* them, however many languages there are (MiscWx.cpp:112).                *)
THEOREM TextsNeedNoLock == Spec => []NeverLoadedWhileRead
<1>1. Init => TextInv
  BY InitTextInv
<1>2. TextInv /\ [Next]_vars => TextInv'
  BY NextTextInv
<1>3. TextInv => NeverLoadedWhileRead
  BY TextInvImplies
<1> QED
  BY <1>1, <1>2, <1>3, PTL DEF Spec
-----------------------------------------------------------------------------
(* Only the return of GetString brings a thread back from "value".         *)
LEMMA ReturnsItsLanguage ==
  ASSUME TextInv, [Next]_vars, NEW t \in Threads,
         look[t] = "value", look'[t] = "none"
  PROVE  shown'[t] \in {locale, "none"}
<1>1. ini \in {locale, "none"} /\ shown \in [Threads -> Locales \cup {"none"}]
  BY DEF TextInv, Shape, Loads
<1>2. \A u \in Threads : GetValue(u) => shown'[t] \in {locale, "none"}
  <2> SUFFICES ASSUME NEW u \in Threads, GetValue(u) PROVE shown'[t] \in {locale, "none"}
    OBVIOUS
  <2>1. PICK from \in {ini, "none"} : shown' = [shown EXCEPT ![u] = from]
    BY DEF GetValue
  <2>2. u = t
    BY DEF GetValue, Reaches, TextInv, Shape
  <2> QED
    BY <1>1, <2>1, <2>2
<1>3. \A u \in Threads : ~Lookup(u)
  <2> SUFFICES ASSUME NEW u \in Threads, Lookup(u) PROVE FALSE
    OBVIOUS
  <2> QED
    BY DEF Lookup, GetString, LoadResource, FileLoaded, LoadFile, Reaches, TextInv, Shape
<1>4. look' # look
  OBVIOUS
<1>5. GetValue("gui") \/ GetValue("worker")
  <2>1. {"gui", "worker"} = Threads
    BY DEF Threads
  <2> QED
    BY <1>3, <1>4, <2>1
       DEF Next, Gui, Worker, GuiLookup, WorkerLookup, WorkerReplaces, WorkerEnds, OnChoice,
           SetLocale, OnClickButton, RunWorker, LeavePage, Crashed, vars, languageVars
<1> QED
  BY <1>2, <1>5 DEF Threads

(* A text is of the language that is chosen, or the one of the resource    *)
(* (MiscWx.cpp:140).                                                       *)
THEOREM TextsInChosenLanguage == Spec => InChosenLanguage
<1>1. Init => TextInv
  BY InitTextInv
<1>2. TextInv /\ [Next]_vars => TextInv'
  BY NextTextInv
<1>3. TextInv /\ [Next]_vars
        => [\A t \in Threads : look[t] = "value" /\ look'[t] = "none"
              => shown'[t] \in {locale, "none"}]_vars
  BY ReturnsItsLanguage
<1> QED
  BY <1>1, <1>2, <1>3, PTL DEF Spec, InChosenLanguage

-----------------------------------------------------------------------------
(***************************************************************************)
(* Where a replacement is, and which pages and workers there are.  The two *)
(* lookups share nothing, so this stands beside TextInv.                   *)
(***************************************************************************)
CallInv ==
  /\ at \in {"idle", "make", "match", "done", "crash"}
  /\ at \in {"match", "done"} => made
  /\ page \in {"main", "job"}
  /\ worker \in {"none", "running", "ended"}

(* Only the steps of the replacement move at; they make the instance on    *)
(* the way to "match".                                                     *)
LEMMA ReplacesCall ==
  ASSUME CallInv, WorkerReplaces
  PROVE  CallInv'
<1> USE DEF WorkerReplaces, pageVars, CallInv
<1>1. CASE \E src \in Settings : ReplaceEnvVars(src)
  BY <1>1 DEF ReplaceEnvVars
<1>2. CASE Construct
  BY <1>2 DEF Construct
<1>3. CASE Replace
  BY <1>3 DEF Replace
<1>4. CASE Return \/ Taken
  BY <1>4 DEF Return, Taken
<1> QED
  BY <1>1, <1>2, <1>3, <1>4 DEF Replacement

(* Every step of either thread keeps it.                                   *)
LEMMA NextCallInv == CallInv /\ [Next]_vars => CallInv'
<1> SUFFICES ASSUME CallInv, [Next]_vars PROVE CallInv'
  OBVIOUS
<1>1. CASE Gui
  BY <1>1
     DEF Gui, GuiLookup, OnClickButton, RunWorker, LeavePage, OnChoice, NewPage,
         pageVars, envVars, CallInv
<1>2. CASE WorkerReplaces
  BY <1>2, ReplacesCall
<1>3. CASE WorkerLookup \/ WorkerEnds
  BY <1>3 DEF WorkerLookup, WorkerEnds, pageVars, envVars, CallInv
<1>4. CASE UNCHANGED vars
  BY <1>4 DEF vars, envVars, CallInv
<1> QED
  BY <1>1, <1>2, <1>3, <1>4 DEF Next, Worker, Crashed

(* Type correctness; a name is looked up in env_map only when the instance *)
(* has been made (MiscWx.cpp:324).                                         *)
THEOREM TextsTyped == Spec => []TypeOK
<1>1. Init => TextInv /\ CallInv
  BY InitTextInv DEF Init, EnvInit, CallInv
<1>2. TextInv /\ CallInv /\ [Next]_vars => (TextInv /\ CallInv)'
  BY NextTextInv, NextCallInv
<1>3. TextInv /\ CallInv => TypeOK
  BY DEF TextInv, Shape, Before, Labels, CallInv, TypeOK
<1> QED
  BY <1>1, <1>2, <1>3, PTL DEF Spec
=============================================================================
