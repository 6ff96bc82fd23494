----------------------------- MODULE MC_PEMaker -----------------------------
(***************************************************************************)
(* PEMaker for model checking: one file to pick, and three users.          *)
(***************************************************************************)
EXTENDS PEMaker

CONSTANTS p1, p2

MCPaths == {p1, p2}
MCPath  == {p1}

(* The settings file as shipped: a mount, some servicing, an unmount.      *)
MCDismCmds   == <<"mount", "service", "unmount">>
MCDismShort  == <<"mount", "unmount">>

Wizard == {"Next", "Prev", "Top", "Quit"}

(* One who tries every source for the same kind of machine, one who makes  *)
(* images for every kind of machine from one file, and a minimal one.      *)
MCSources  == Wizard \cup {"RE", "ISO", "BootWim", "64bit", "Gpt"}
MCMachines == Wizard \cup {"BootWim", "32bit", "64bit", "Mbr", "Gpt"}
MCOneJob   == Wizard \cup {"ISO", "64bit", "Gpt"}
=============================================================================
