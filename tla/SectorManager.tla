--------------------------- MODULE SectorManager ---------------------------
(***************************************************************************)
(* sectormanager.cc: hands out ranges of sectors in the order in which the *)
(* writers ask, and remembers where each range starts under a region name, *)
(* the (client, identifier) pair of the code.  It does not keep the length *)
(* of a range and never looks whether a name is used twice.                *)
(***************************************************************************)
EXTENDS Integers, SectorStream

CONSTANTS
  Regions,   (* the (client, identifier) pairs of both writers             *)
  Word       (* 2^64 in the code: the counters are unsigned and wrap       *)

ASSUME WordAssumption == Word \in Nat \ {0}

(* get_start reads the map with operator[]: a name nobody reserved is 0.   *)
NewManager(start_sector) ==
  [next |-> start_sector, start |-> [r \in Regions |-> 0],
   dataStart |-> 0, dataLen |-> 0]

ManagerType ==
  [next : Nat, start : [Regions -> Nat], dataStart : Nat, dataLen : Nat]

(* num_sec may be a difference that went below zero before the call.       *)
AllocSectors(m, r, num_sec) ==
  [m EXCEPT !.start[r] = m.next, !.next = (m.next + num_sec) % Word]

AllocBytes(m, r, num_bytes) == AllocSectors(m, r, BytesToSec(num_bytes))

AllocDataSectors(m, num_sec) ==
  [m EXCEPT !.dataStart = m.next, !.dataLen = num_sec,
            !.next = (m.next + num_sec) % Word]

GetStart(m, r) == m.start[r]
=============================================================================
