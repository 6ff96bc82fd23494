----------------------------- MODULE IsoWriter -----------------------------
(***************************************************************************)
(* isowriter.cc: what the ISO9660 and Joliet structures need, calculated   *)
(* before anything is written, and what writing them takes.  The two are   *)
(* computed by different code from the same tree; nothing in the program   *)
(* compares them.                                                          *)
(***************************************************************************)
EXTENDS FileSystem, FileTree, SectorManager, ElTorito

CONSTANT MaxExtent      (* ISO_MAX_EXTENT_SIZE, 0xfffff800                 *)

ASSUME MaxExtentAssumption == MaxExtent \in Nat \ {0}

DirRecord  == 34        (* sizeof(tiso_dir_record), one name byte included *)
PathRecord == 9         (* sizeof(tiso_pathtable_record), likewise         *)

(* A record of any name leaves room in its sector.                         *)
ASSUME RecordsAssumption ==
  \A chars \in {207 + 2, 2 * (MaxJoliet + 2), 2 * (MaxJolietRelaxed + 2)} :
    DirRecord + chars < SectorSize

(* IsoWriter's own regions of the sector manager.                          *)
IsoRegions == {"descriptors", "bootcatalog", "bootdata",
               "path L", "path M", "joliet path L", "joliet path M", "direntries"}

-----------------------------------------------------------------------------
(* The volume descriptors, one sector each, in the order written.          *)
AllocIsoHeader(m, fs) ==
  LET voldesc == SectorSize * (2 + (IF fs.images # <<>> THEN 1 ELSE 0)
                                 + (IF HasSuppl(fs) THEN 1 ELSE 0)
                                 + (IF IsJoliet(fs) THEN 1 ELSE 0))
      header  == AllocBytes(m, "descriptors", voldesc)
  IN IF fs.extended \/ fs.images = <<>> THEN header
     ELSE AllocBytes(AllocBytes(header, "bootcatalog", BootCatSize(fs.images)),
                     "bootdata", BootDataSize(fs.images))

(* calc_path_table_size over the directories the path table holds.         *)
PathTableBytes(fs, t, dirs, joliet) ==
  FoldSet(LAMBDA d, sum : sum + Even(PathRecord - 1 + CalcBytesOf(fs, t.name[d], TRUE, joliet)),
          PathRecord + 1, dirs)

(* write_path_table pads the name, not the record, to an even length.      *)
PathTableLength(fs, t, dirs, joliet) ==
  FoldSet(LAMBDA d, sum : sum + PathRecord - 1 + Even(WriteBytesOf(fs, t.name[d], TRUE, joliet)),
          PathRecord + 1, dirs)

WritePathTable(s, fs, t, dirs, joliet) ==
  PadIfOpen(WriteBytes(s, PathTableLength(fs, t, dirs, joliet)))

AllocPathTables(m, fs, t, dirs) ==
  LET normal == PathTableBytes(fs, t, dirs, FALSE)
      joliet == IF IsJoliet(fs) THEN PathTableBytes(fs, t, dirs, TRUE) ELSE 0
  IN AllocBytes(AllocBytes(AllocBytes(AllocBytes(m,
       "path L", normal), "path M", normal), "joliet path L", joliet), "joliet path M", joliet)

(* What a volume descriptor states: the end of the data, its path tables   *)
(* and the record of its root directory.                                   *)
Volume(type, m, size, l, be, loc, len) ==
  [type |-> type, space |-> m.dataStart + m.dataLen, tableSize |-> size,
   tableL |-> GetStart(m, l), tableM |-> GetStart(m, be), root |-> loc, rootLen |-> len]

PrimaryVolume(m, size, root) ==
  Volume("primary", m, size, "path L", "path M", GetStart(m, "direntries"), root.sizeN)

(* ISO9660:1999: a copy of the primary one, made before its type is        *)
(* changed, so that there are two primary descriptors.                     *)
SupplementaryVolume(m, size, root) == PrimaryVolume(m, size, root)

(* The root of Joliet is taken to follow the other root.                   *)
JolietVolume(m, size, root) ==
  Volume("joliet", m, size, "joliet path L", "joliet path M",
         GetStart(m, "direntries") + BytesToSec(root.sizeN), root.sizeJ)

(* In the order written; catalog is the place of the boot catalog, if any. *)
VolumeDescriptors(m, fs, t, dirs, root, catalog) ==
  LET size == PathTableBytes(fs, t, dirs, FALSE)
      If(cond, d) == IF cond THEN <<d>> ELSE <<>>
  IN <<PrimaryVolume(m, size, root)>>
     \o [i \in DOMAIN catalog |-> BootRecord(catalog[i])]
     \o If(HasSuppl(fs), SupplementaryVolume(m, size, root))
     \o If(IsJoliet(fs), JolietVolume(m, PathTableBytes(fs, t, dirs, TRUE), root))
     \o <<[type |-> "terminator"]>>

-----------------------------------------------------------------------------
(* The records of a directory.                                             *)

(* Both passes leave out the same children.                                *)
Listed(fs, t, d, level) ==
  Among(t.kids[d], {n \in Nodes(t) :
    IF n \in Dirs(t) THEN level <= GetMaxDirLevel(fs)
    ELSE t.size[n] <= MaxExtent \/ AllowsFragmentation(fs)})

(* One record for every extent of at most MaxExtent bytes, at least one.   *)
ExtentCount(size) == IF size = 0 THEN 1 ELSE (size - 1) \div MaxExtent + 1

RecordSize(fs, t, n, joliet) ==
  Even(DirRecord - 1 + WriteBytesOf(fs, t.name[n], n \in Dirs(t), joliet))

SizeOf(t, n) == IF n \in Files(t) THEN t.size[n] ELSE 0

(* calc_local_dir_entry_len: all records of a file move to the next sector *)
(* together.  The answer is in sectors.                                    *)
CalcDirSectors(fs, t, d, level, joliet) ==
  LET Step(run, n) ==
        LET bytes == RecordSize(fs, t, n, joliet) * ExtentCount(SizeOf(t, n))
        IN IF run.data + bytes > SectorSize
           THEN [data |-> bytes, len |-> run.len + 1]
           ELSE [run EXCEPT !.data = @ + bytes]
      run == FoldLeft(Step, [data |-> 2 * DirRecord, len |-> 0], Listed(fs, t, d, level))
  IN IF run.data # 0 THEN run.len + 1 ELSE run.len

(* Mutant of WriteDir: a record may start in one sector and end in the next. *)
WriteDirTight(s, fs, t, d, level, joliet) ==
  LET Child(out, n) ==
        WriteBytes(out, RecordSize(fs, t, n, joliet) * ExtentCount(SizeOf(t, n)))
  IN PadIfOpen(FoldLeft(Child, WriteBytes(s, 2 * DirRecord), Listed(fs, t, d, level)))

(* write_local_dir_entry: record by record; a full sector starts from 0.   *)
WriteRecord(run, bytes) ==
  [data |-> CASE run.data + bytes > SectorSize -> bytes
              [] run.data + bytes = SectorSize -> 0
              [] OTHER -> run.data + bytes,
   out  |-> WriteBytes(IF run.data + bytes > SectorSize THEN PadSector(run.out) ELSE run.out, bytes)]

WriteRecords(run, bytes, count) == FoldLeft(WriteRecord, run, [i \in 1 .. count |-> bytes])

WriteDir(s, fs, t, d, level, joliet) ==
  LET Child(run, n) ==
        WriteRecords(run, RecordSize(fs, t, n, joliet), ExtentCount(SizeOf(t, n)))
      all == FoldLeft(Child, [data |-> 2 * DirRecord, out |-> WriteBytes(s, 2 * DirRecord)],
                      Listed(fs, t, d, level))
  IN PadIfOpen(all.out)

(* Mutant of FileExtents: the location is not moved on.                    *)
FileExtentsStay(loc, size) ==
  [i \in 1 .. ExtentCount(size) |->
     [loc |-> loc, len |-> IF i < ExtentCount(size) THEN MaxExtent ELSE size - (i - 1) * MaxExtent]]

(* The extents of a file as its records list them: (location, length).     *)
FileExtents(loc, size) ==
  [i \in 1 .. ExtentCount(size) |->
     [loc |-> loc + (i - 1) * BytesToSec(MaxExtent),
      len |-> IF i < ExtentCount(size) THEN MaxExtent ELSE size - (i - 1) * MaxExtent]]
=============================================================================
