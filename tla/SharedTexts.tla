---------------------------- MODULE SharedTexts -----------------------------
(***************************************************************************)
(* Both threads at the two lookups they share: the texts of the display,   *)
(* which both use and neither locks, and the variables of the settings,    *)
(* which only workers use.  The pages are the ones of PEMaker.tla, cut     *)
(* down to what decides when a thread looks up a text.                     *)
(***************************************************************************)
EXTENDS MultiLanguage, EnvironmentVariables

CONSTANTS
  Machines,    (* what EnvironmentVariables may find                       *)
  Settings     (* texts in pe_settings.ini                                 *)

VARIABLES
  page,        (* "main", or "job" for a page that has a worker            *)
  fresh,       (* the constructor of the page is not through with its texts*)
  worker       (* "none", "running" or "ended"                             *)

vars == <<languageVars, envVars, page, fresh, worker>>
pageVars == <<page, fresh, worker>>

(* The first page is made before the first event.                          *)
Init ==
  /\ LanguageInit /\ EnvInit
  /\ machine \in Machines
  /\ page = "main" /\ fresh = TRUE /\ worker = "none"

(* Mutant of NewPage: the page has no texts of its own.                    *)
NewPagePlain(p) == page' = p /\ fresh' = FALSE

(* The constructor of each page sets its labels before it returns.         *)
NewPage(p) == page' = p /\ fresh' = TRUE

(* The GUI thread takes its next event.                                    *)
Handles == ~fresh /\ look["gui"] = "none"

OnChoice(lng) ==
  /\ Handles /\ page = "main"
  /\ SetLocale(lng)
  /\ NewPage("main") /\ UNCHANGED <<worker, envVars>>

(* A button of the main page, or Next of a page before a build.            *)
OnClickButton ==
  /\ Handles /\ page = "main"
  /\ NewPage("job") /\ UNCHANGED <<worker, languageVars, envVars>>

(* Run() is the last thing the constructor does.                           *)
RunWorker ==
  /\ Handles /\ page = "job" /\ worker = "none"
  /\ worker' = "running"
  /\ UNCHANGED <<page, fresh, languageVars, envVars>>

(* A page is left when its worker is over.                                 *)
LeavePage ==
  /\ Handles /\ page = "job" /\ worker = "ended"
  /\ \E p \in {"main", "job"} : NewPage(p)
  /\ worker' = "none"
  /\ UNCHANGED <<languageVars, envVars>>

GuiLookup ==
  \/ Lookup("gui") /\ UNCHANGED <<pageVars, envVars>>
  \/ GetValue("gui") /\ fresh' = FALSE /\ UNCHANGED <<page, worker, envVars>>

Gui ==
  \/ GuiLookup \/ OnClickButton \/ RunWorker \/ LeavePage
  \/ \E lng \in Locales : OnChoice(lng)

Works == worker = "running" /\ look["worker"] = "none" /\ at = "idle"

WorkerLookup ==
  /\ worker = "running" /\ at = "idle"
  /\ Lookup("worker") \/ GetValue("worker")
  /\ UNCHANGED <<pageVars, envVars>>

WorkerReplaces ==
  /\ worker = "running"
  /\ \/ Works /\ \E src \in Settings : ReplaceEnvVars(src)
     \/ Replacement
  /\ UNCHANGED <<pageVars, languageVars>>

WorkerEnds ==
  /\ Works
  /\ worker' = "ended"
  /\ UNCHANGED <<page, fresh, languageVars, envVars>>

Worker == WorkerLookup \/ WorkerReplaces \/ WorkerEnds

Crashed == at = "crash" /\ UNCHANGED vars

(* Nothing happens after a null pointer was followed.                      *)
Next == (at # "crash" /\ (Gui \/ Worker)) \/ Crashed

Spec == Init /\ [][Next]_vars /\ WF_vars(at # "crash" /\ Worker)

-----------------------------------------------------------------------------
(* Properties.                                                             *)

(* Every variable stays in its range, and env_map is never used before the *)
(* instance is made (MiscWx.cpp:324).                                      *)
TypeOK ==
  /\ locale \in Locales /\ ini \in Locales \cup {"none"}
  /\ damaged \in BOOLEAN /\ resource_loaded \in BOOLEAN
  /\ look \in [Threads -> {"none", "load resource", "file?", "load file", "value"}]
  /\ shown \in [Threads -> Locales \cup {"none"}]
  /\ at \in {"idle", "make", "match", "done", "crash"}
  /\ at \in {"match", "done"} => made
  /\ page \in {"main", "job"} /\ fresh \in BOOLEAN
  /\ worker \in {"none", "running", "ended"}

Loading(t) == look[t] \in {"load resource", "load file"}

(* The maps of texts, which have no lock, are never changed while another  *)
(* thread looks into them: the constructor of every page looks up a text   *)
(* after a language was chosen and before a worker runs.                   *)
NeverLoadedWhileRead ==
  \A t, u \in Threads : t # u /\ Loading(t) => look[u] = "none"

(* A text that is shown is of the language that is chosen, or the one of   *)
(* the resource; never of the language that was chosen before.             *)
InChosenLanguage ==
  [][\A t \in Threads : look[t] = "value" /\ look'[t] = "none"
       => shown'[t] \in {locale, "none"}]_vars
=============================================================================
