---------------------------- MODULE RegistryHive ----------------------------
(***************************************************************************)
(* RegistryHive (RegistryHive.cpp) and Registry (MiscWx.cpp): the SOFTWARE *)
(* hive of the PE image is loaded below HKEY_USERS, one value in it is     *)
(* changed, and it is unloaded again.  The privileges this takes belong to *)
(* the process; a loaded hive outlives it.                                 *)
(***************************************************************************)
EXTENDS Integers

VARIABLES
  reg,        (* how far Load and its caller are                           *)
  privileged, (* SE_BACKUP_NAME and SE_RESTORE_NAME are enabled            *)
  keys,       (* registry keys the process has open                        *)
  loaded,     (* the hive is loaded as "pemaker_hive"                      *)
  data        (* hive_data: what RegistryHive::Load returned               *)

regVars == <<reg, privileged, keys, loaded, data>>

RegInit == reg = "done" /\ privileged = FALSE /\ keys = {} /\ loaded = FALSE /\ data = FALSE

RegIdle == reg = "done"

(* Load: the RegistryHive object enables both privileges if it may.        *)
BeginLoad ==
  /\ RegIdle
  /\ privileged' \in BOOLEAN
  /\ reg' = "parent"
  /\ UNCHANGED <<keys, loaded, data>>

LoadFails == reg' = "failed"

OpenParent ==
  /\ reg = "parent"
  /\ \/ keys' = keys \cup {"parent"} /\ reg' = "load"
     \/ LoadFails /\ UNCHANGED keys
  /\ UNCHANGED <<privileged, loaded, data>>

(* RegLoadKey takes the privileges, and a name that is not in use.         *)
LoadKey ==
  /\ reg = "load"
  /\ \/ privileged /\ ~loaded /\ loaded' = TRUE /\ reg' = "open"
     \/ LoadFails /\ UNCHANGED loaded
  /\ UNCHANGED <<privileged, keys, data>>

OpenHive ==
  /\ reg = "open"
  /\ \/ keys' = keys \cup {"hive"} /\ data' = TRUE /\ reg' = "loaded"
     \/ LoadFails /\ UNCHANGED <<keys, data>>
  /\ UNCHANGED <<privileged, loaded>>

(* Mutant of LoadFailed: the RegistryHive object is not deleted.           *)
LoadFailedKeeps ==
  /\ reg = "failed"
  /\ keys' = {} /\ reg' = "done"
  /\ UNCHANGED <<loaded, data, privileged>>

(* ERROR_END: what was opened is closed and the privileges are given back; *)
(* a hive that was loaded stays so.                                        *)
LoadFailed ==
  /\ reg = "failed"
  /\ privileged' = FALSE /\ keys' = {} /\ reg' = "done"
  /\ UNCHANGED <<loaded, data>>

(* GetStringValue: "" when the key or the value is not there.              *)
GetStringValue ==
  /\ reg = "loaded"
  /\ reg' \in {"set", "unload"}
  /\ UNCHANGED <<privileged, keys, loaded, data>>

(* SetStringValue; a failure goes to THIRD_END.                            *)
SetStringValue ==
  /\ reg = "set"
  /\ reg' \in {"changed", "unload"}
  /\ UNCHANGED <<privileged, keys, loaded, data>>

(* ~RegistryHiveData: the key is closed, then the hive is unloaded, which  *)
(* nobody asks the result of, then the privileges are given back.          *)
Unload ==
  /\ reg \in {"changed", "unload"}
  /\ keys' = {} /\ privileged' = FALSE /\ data' = FALSE
  /\ loaded' \in BOOLEAN
  /\ reg' = IF reg = "changed" THEN "update" ELSE "done"

RegStep ==
  \/ OpenParent \/ LoadKey \/ OpenHive \/ LoadFailed
  \/ GetStringValue \/ SetStringValue \/ Unload
=============================================================================
