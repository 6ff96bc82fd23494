----------------------------- MODULE UdfWriter -----------------------------
(***************************************************************************)
(* udfwriter.cc and the sizes of the structures of udf.cc.  Every volume   *)
(* descriptor and every file entry is padded by its own code to exactly    *)
(* one sector; only the identifiers of a directory share sectors.  Places  *)
(* inside the partition are counted from its start, sector 257.            *)
(***************************************************************************)
EXTENDS FileSystem, FileTree, SectorManager, FiniteSets

CONSTANTS
  LongExtent,   (* 0x3ffff800: one long allocation descriptor              *)
  ShortLimit    (* 2^30: the two upper bits of the 32 bit length of a      *)
                (* short allocation descriptor are its type                *)

ASSUME DescriptorAssumption == LongExtent \in Nat \ {0} /\ ShortLimit \in Nat \ {0}

(* The sectors before the file set can be counted, and the identifier of   *)
(* the parent, of 40 bytes, does not fill a sector.                        *)
ASSUME PartitionAssumption == Word > 258 /\ SectorSize > 40

UdfRegions == {"initial", "main", "fileset"}

PartStart    == 257     (* the file set descriptor, place 0 of the partition *)
AnchorSector == 256
UniqueMin    == 16      (* UDF_UNIQUEIDENT_MIN                             *)

-----------------------------------------------------------------------------
(* Identifiers of a directory.                                             *)
ParentIdentSize == 40

IdentSize(chars, dvd) ==
  LET raw == 38 + 1 + (IF dvd THEN chars ELSE 2 * chars) IN ((raw + 3) \div 4) * 4

(* calc_file_ident_size foresees up to 254 characters ...                  *)
CalcIdentSize(fs, nm)  == IdentSize(Least(FullLen(nm), 254), IsDvd(fs))
(* ... make_file_ident copies at most 127.                                 *)
WriteIdentSize(fs, nm) == IdentSize(Least(FullLen(nm), 127), IsDvd(fs))

IdentBytes(fs, t, d) ==
  ParentIdentSize
  + SumOver([n \in Range(t.kids[d]) |-> CalcIdentSize(fs, t.name[n])], t.kids[d])

(* calc_local_node_lengths: an entry, and the identifiers of a directory.  *)
UdfSize(fs, t, n) == 1 + (IF n \in Dirs(t) THEN BytesToSec(IdentBytes(fs, t, n)) ELSE 0)

(* calc_node_size_total and calc_node_links_total.                         *)
UdfSizeTotal(fs, t) ==
  LET tot[n \in Nodes(t)] ==
        IF n \in Files(t) THEN UdfSize(fs, t, n)
        ELSE UdfSize(fs, t, n) + SumOver(tot, t.kids[n])
  IN tot

LinkCount(t, d) == Len(SubDirs(t, d)) + 1

(* alloc_partition: everything up to sector 258, then the file set.  The   *)
(* difference is unsigned: past 258 it wraps.                              *)
AllocUdf(m, fs, t) ==
  LET initial == AllocSectors(m, "initial", 3)
      main    == AllocSectors(initial, "main", 258 - initial.next)
  IN AllocSectors(main, "fileset", UdfSizeTotal(fs, t)[Root])

-----------------------------------------------------------------------------
(* write_partition up to the file set descriptor: integrity sequence of 2, *)
(* twice 6 descriptors and 10 empty sectors, empty sectors until 256, the  *)
(* anchor, the file set descriptor.  first is where the main descriptors   *)
(* were reserved; the code counts from there, not from the stream.         *)
MainSequence == 16

MainSectors(first) ==
  LET counted == first + 2 + 2 * MainSequence
  IN 2 + 2 * MainSequence + (IF counted < AnchorSector THEN AnchorSector - counted ELSE 0)

MainLayout(first) ==
  [integrity |-> first, main |-> first + 2, reserve |-> first + 2 + MainSequence,
   anchor |-> first + MainSectors(first)]

(* Mutant of PartitionLength: the data is taken to follow the file set.    *)
PartitionLengthOfData(m) == m.dataLen + 1

(* The length of the partition in its descriptor: up to the end of data.   *)
PartitionLength(m) == 1 + m.dataLen + m.dataStart - GetStart(m, "fileset")

(***************************************************************************)
(* What the descriptors state.  Each is one sector and has its own place   *)
(* in its tag, as udf_cur_sec counts them; everything that is said of the  *)
(* partition is said before it is written.                                 *)
(***************************************************************************)
IntegrityDescriptor(tag, m, t) ==
  LET dirs  == Cardinality(Dirs(t) \ {Root})
      files == Cardinality(Files(t))
  IN [tag |-> tag, files |-> files, dirs |-> dirs + 1, partLen |-> PartitionLength(m),
      unique |-> dirs + files + 1 + UniqueMin]

VolumeSequence(first, m, integrity) ==
  << [tag |-> first,     kind |-> "primary"],
     [tag |-> first + 1, kind |-> "implementation use"],
     [tag |-> first + 2, kind |-> "partition", start |-> PartStart, len |-> PartitionLength(m)],
     [tag |-> first + 3, kind |-> "logical", integrity |-> integrity],
     [tag |-> first + 4, kind |-> "unallocated space"],
     [tag |-> first + 5, kind |-> "terminator"] >>

AnchorDescriptor(tag, at) == [tag |-> tag, main |-> at.main, reserve |-> at.reserve]

(* Its place and the root's are counted from the start of the partition.   *)
FileSetDescriptor == [tag |-> 0, root |-> 1]

UdfDescriptors(m, t) ==
  LET at == MainLayout(GetStart(m, "main"))
  IN [integrity |-> IntegrityDescriptor(at.integrity, m, t),
      main      |-> VolumeSequence(at.main, m, at.integrity),
      reserve   |-> VolumeSequence(at.reserve, m, at.integrity),
      anchor    |-> AnchorDescriptor(at.anchor, at),
      fileset   |-> FileSetDescriptor,
      tail      |-> AnchorDescriptor(m.dataStart + m.dataLen, at)]

-----------------------------------------------------------------------------
(* write_local_partition_dir.                                              *)

(* Where the identifiers say the entries of the children are.              *)
ChildEntries(fs, t, d, entry_sec) ==
  LET tot   == UdfSizeTotal(fs, t)
      first == entry_sec + 1 + BytesToSec(IdentBytes(fs, t, d))
  IN [i \in DOMAIN t.kids[d] |-> first + SumOver(tot, SubSeq(t.kids[d], 1, i - 1))]

(* Mutant of NextPartSec: the rest of the last sector is not counted.      *)
NextPartSecWhole(fs, t, d, entry_sec) == entry_sec + 1 + IdentBytes(fs, t, d) \div SectorSize

(* cur_part_sec after the directory: the sectors its bytes are taken for.  *)
NextPartSec(fs, t, d, entry_sec) ==
  LET Step(run, n) ==
        LET bytes == run.bytes + CalcIdentSize(fs, t.name[n])
        IN IF bytes >= SectorSize THEN [sec |-> run.sec + 1, bytes |-> bytes - SectorSize]
           ELSE [run EXCEPT !.bytes = bytes]
      run == FoldLeft(Step, [sec |-> entry_sec + 1, bytes |-> ParentIdentSize], t.kids[d])
  IN IF run.bytes > 0 THEN run.sec + 1 ELSE run.sec

(* What goes to the stream: the entry, the identifiers, and a pad that     *)
(* does not look whether a sector is open.                                 *)
WriteUdfDir(s, fs, t, d) ==
  LET idents == SumOver([n \in Range(t.kids[d]) |-> WriteIdentSize(fs, t.name[n])], t.kids[d])
  IN PadSector(WriteBytes(WriteSectors(s, 1), ParentIdentSize + idents))

(* Mutant of NextUnique: the identifiers of Macintosh are not left out.    *)
NextUniqueDense(ident) == ident + 1

NextUnique(ident) == IF ident = 0 THEN UniqueMin ELSE ident + 1

(***************************************************************************)
(* The allocation descriptors of write_file_entry, (length, place).  In    *)
(* short mode there is one, whatever the size; kind is what a reader takes *)
(* from the two upper bits of its length (0: recorded and allocated).      *)
(***************************************************************************)
AllocDescriptors(fs, info_loc, info_len) ==
  LET loc == IF info_len = 0 THEN 0 ELSE info_loc
  IN IF IsDvd(fs) \/ fs.shortAd
     THEN << [loc |-> loc, len |-> info_len % ShortLimit,
              kind |-> (info_len \div ShortLimit) % 4] >>
     ELSE LET whole == IF info_len = 0 THEN 0 ELSE (info_len - 1) \div LongExtent
          IN [i \in 1 .. whole + 1 |->
                [loc  |-> loc + (i - 1) * BytesToSec(LongExtent),
                 len  |-> IF i <= whole THEN LongExtent ELSE info_len - whole * LongExtent,
                 kind |-> 0]]
=============================================================================
