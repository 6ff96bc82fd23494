--------------------------- MODULE MultiLanguage ---------------------------
(***************************************************************************)
(* MultiLanguage (MiscWx.cpp): the texts of the program come from the file *)
(* of the chosen language and, where that has none, from a resource of the *)
(* program.  Both are read by the first lookup that needs them.  There is  *)
(* one instance, both threads use it, and it has no lock.                  *)
(***************************************************************************)
CONSTANTS
  Locales,         (* the languages on offer                               *)
  DefaultLocale    (* "en-us"                                              *)

ASSUME LocalesAssumption == DefaultLocale \in Locales /\ "none" \notin Locales

VARIABLES
  locale,          (* the chosen language                                  *)
  damaged,         (* ini is not the file of locale                        *)
  ini,             (* the language whose file is in ini, or "none"         *)
  resource_loaded, (* ini_res has the texts of the resource                *)
  look,            (* where each thread is in GetString                    *)
  shown            (* where the text came from that a thread got last      *)

languageVars == <<locale, damaged, ini, resource_loaded, look, shown>>

Threads == {"gui", "worker"}

LanguageInit ==
  /\ locale = DefaultLocale /\ damaged = TRUE /\ ini = "none"
  /\ resource_loaded = FALSE
  /\ look = [t \in Threads |-> "none"]
  /\ shown = [t \in Threads |-> "none"]

Reaches(t, label) == look' = [look EXCEPT ![t] = label]

SetLocale(lng) ==
  /\ locale' = lng /\ damaged' = TRUE
  /\ UNCHANGED <<ini, resource_loaded, look, shown>>

(***************************************************************************)
(* GetString: each flag is looked at, what it stands for is loaded, and    *)
(* the flag is set when that is over.                                      *)
(***************************************************************************)
GetString(t) ==
  /\ look[t] = "none"
  /\ Reaches(t, IF resource_loaded THEN "file?" ELSE "load resource")
  /\ UNCHANGED <<locale, damaged, ini, resource_loaded, shown>>

LoadResource(t) ==
  /\ look[t] = "load resource"
  /\ resource_loaded' = TRUE
  /\ Reaches(t, "file?")
  /\ UNCHANGED <<locale, damaged, ini, shown>>

FileLoaded(t) ==
  /\ look[t] = "file?"
  /\ Reaches(t, IF damaged THEN "load file" ELSE "value")
  /\ UNCHANGED <<locale, damaged, ini, resource_loaded, shown>>

(* Mutant of LoadFile: what was read before is not forgotten.              *)
LoadFileKeeps(t) ==
  /\ look[t] = "load file"
  /\ ini' \in {locale, ini}
  /\ damaged' = FALSE
  /\ Reaches(t, "value")
  /\ UNCHANGED <<locale, resource_loaded, shown>>

(* ini is reset first; without a file it stays empty.                      *)
LoadFile(t) ==
  /\ look[t] = "load file"
  /\ ini' \in {locale, "none"}
  /\ damaged' = FALSE
  /\ Reaches(t, "value")
  /\ UNCHANGED <<locale, resource_loaded, shown>>

(* The file may lack the text; the resource is asked then.                 *)
GetValue(t) ==
  /\ look[t] = "value"
  /\ \E from \in {ini, "none"} : shown' = [shown EXCEPT ![t] = from]
  /\ Reaches(t, "none")
  /\ UNCHANGED <<locale, damaged, ini, resource_loaded>>

Lookup(t) == GetString(t) \/ LoadResource(t) \/ FileLoaded(t) \/ LoadFile(t)
=============================================================================
