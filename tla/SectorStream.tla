---------------------------- MODULE SectorStream ----------------------------
(***************************************************************************)
(* sectorstream.cc and the sector arithmetic of util.cc.  The output       *)
(* stream counts whole sectors and the bytes of the one it is in; the      *)
(* input stream counts what was asked for, not what was read.              *)
(***************************************************************************)
EXTENDS Integers, Sequences, SequencesExt

CONSTANT SectorSize     (* ISO_SECTOR_SIZE = UDF_SECTOR_SIZE = 2048        *)

ASSUME SectorSizeAssumption == SectorSize \in Nat \ {0}

(* bytes_to_sec, bytes_to_sec64: the loop that takes sectors off one by one.*)
BytesToSec(bytes) == IF bytes = 0 THEN 0 ELSE (bytes - 1) \div SectorSize + 1

(* What a sequence takes, from what each of its members takes.             *)
SumOver(takes, members) == FoldLeft(LAMBDA sum, m : sum + takes[m], 0, members)

StreamType == [sector : Nat, written : 0 .. SectorSize - 1]

NewStream == [sector |-> 0, written |-> 0]

(* Mutant of WriteBytes: one write moves over one sector at most.          *)
WriteBytesOnce(s, count) ==
  IF s.written + count < SectorSize THEN [s EXCEPT !.written = @ + count]
  ELSE [sector |-> s.sector + 1, written |-> s.written + count - SectorSize]

(* SectorOutStream::write: the loop moves the counters over the sectors.   *)
WriteBytes(s, count) ==
  [sector  |-> s.sector + (s.written + count) \div SectorSize,
   written |-> (s.written + count) % SectorSize]

Remaining(s) == SectorSize - s.written

(* pad_sector writes what remains: a whole sector when none is open.       *)
PadSector(s) == WriteBytes(s, Remaining(s))

(* The caller's look at get_allocated that goes with every pad but one.    *)
PadIfOpen(s) == IF s.written # 0 THEN PadSector(s) ELSE s

WriteSectors(s, n) == WriteBytes(s, n * SectorSize)

(* SectorInStream::seek from the start, and seek or read further on.       *)
SeekBegin(distance) == WriteBytes(NewStream, distance)
Advance(s, count)   == WriteBytes(s, count)
=============================================================================
