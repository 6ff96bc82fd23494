-------------------------- MODULE FileSystemWriter --------------------------
(***************************************************************************)
(* FileSystemWriter::write (filesystemwriter.cc): one disc image, from the *)
(* tree to the last anchor.  Sizes are calculated, sectors reserved and    *)
(* bytes written in separate passes over the tree, so a place recorded     *)
(* early is right only if every later pass takes exactly as much as was    *)
(* reserved for it.  The calling thread is alone but for two things: the   *)
(* user may ask to cancel, and a file may change on the hard drive.        *)
(***************************************************************************)
EXTENDS IsoWriter, UdfWriter, FiniteSets

CONSTANTS
  Inputs,       (* [fs, tree]: a FileSystem and the tree of its file set    *)
  MaxChanges    (* bound: files changed by somebody else during a build    *)

ASSUME InputsAssumption ==
  \A input \in Inputs : /\ IsTree(input.tree) /\ IsFiniteSet(Nodes(input.tree))
                        /\ \A n \in Nodes(input.tree) : IsName(input.tree.name[n])
                        /\ AreSizes(input.tree) /\ AreImages(input.fs.images)

ASSUME RegionsAssumption == Regions = IsoRegions \cup UdfRegions

VARIABLES
  fs, tree,     (* this build: one of Inputs                                *)
  pc,           (* how far write() is                                      *)
  work,         (* dir_node_stack of the current pass, or its deque        *)
  cur,          (* <<directory, level, next child>> while data is written  *)
  mgr,          (* sec_manager                                             *)
  sec,          (* sec_offset of the passes that reserve                   *)
  place,        (* data_pos_ and data_size_ of the nodes                   *)
  udf,          (* udf_part_loc_ and the unique identifier of the nodes    *)
  part,         (* cur_part_sec and unique_ident of write_partition_entries *)
  out,          (* out_sec_stream                                          *)
  disc,         (* where things went, in sectors from the image's start    *)
  desc,         (* what the descriptors state: [iso, udf]                   *)
  boot,         (* the places the boot record and the catalog state        *)
  changed,      (* files whose size is no longer the one of their node     *)
  cancelled,    (* progress.cancelled(), which never goes back             *)
  result        (* RESULT_OK, _FAIL, _CANCEL, or "none" before the return  *)

vars == <<fs, tree, pc, work, cur, mgr, sec, place, udf, part, out, disc, desc, boot,
          changed, cancelled, result>>

planning == <<mgr, sec, place>>
writing  == <<udf, part, out, disc, desc, boot>>

NotYet == -1

(* 16 sectors of zeros go to the file before out_sec_stream is used.       *)
Now(s) == 16 + s.sector

Init ==
  /\ \E input \in Inputs : fs = input.fs /\ tree = input.tree
  /\ pc = "tree" /\ work = <<>> /\ cur = <<>>
  /\ mgr = NewManager(16) /\ sec = 0
  /\ place = [n \in Nodes(tree) |-> [normal |-> 0, joliet |-> 0, sizeN |-> 0, sizeJ |-> 0]]
  /\ udf = [n \in Nodes(tree) |-> [loc |-> 0, ident |-> NotYet]]
  /\ part = [sec |-> 0, ident |-> 0]
  /\ out = NewStream
  /\ disc = [dir |-> [d \in Dirs(tree) |-> NotYet], jdir |-> [d \in Dirs(tree) |-> NotYet],
             entry |-> [n \in Nodes(tree) |-> NotYet], tag |-> [n \in Nodes(tree) |-> NotYet],
             data |-> [f \in Files(tree) |-> NotYet], region |-> [r \in Regions |-> NotYet],
             image |-> <<>>, volumes |-> <<>>, anchor |-> NotYet, tail |-> NotYet]
  /\ desc = [iso |-> <<>>, udf |-> <<>>]
  /\ boot = [record |-> NotYet, images |-> <<>>, catalog |-> "none"]
  /\ changed = {} /\ cancelled = FALSE /\ result = "none"

Return(res) ==
  /\ result' = res /\ pc' = "end"
  /\ UNCHANGED <<fs, tree, work, cur, changed, cancelled>>

(* An exception, or an early return of RESULT_FAIL.                        *)
Fail == Return("FAIL") /\ UNCHANGED <<planning, writing>>

Goto(label) == pc' = label /\ UNCHANGED <<fs, tree, changed, cancelled, result>>

-----------------------------------------------------------------------------
(* Reserving.                                                              *)

(* create_from_file_set opens every file and keeps it open.                *)
CreateTree ==
  /\ pc = "tree"
  /\ \/ Goto("header") /\ UNCHANGED <<work, cur, planning, writing>>
     \/ Fail

AllocHeader ==
  /\ pc = "header"
  /\ LET iso == IF IsIso(fs) THEN AllocIsoHeader(mgr, fs) ELSE mgr
     IN mgr' = IF IsUdf(fs) THEN AllocUdf(iso, fs, tree) ELSE iso
  /\ Goto("tables")
  /\ UNCHANGED <<work, cur, sec, place, writing>>

(* The directories a path table holds, the root apart.                     *)
TableDirs == ReachedDirs(tree, GetMaxDirLevel(fs)) \ {Root}

AllocTables ==
  /\ pc = "tables"
  /\ mgr' = IF IsIso(fs) THEN AllocPathTables(mgr, fs, tree, TableDirs) ELSE mgr
  /\ sec' = mgr'.next
  /\ work' = RootStack
  /\ Goto(IF IsIso(fs) THEN "dirs" ELSE "files")
  /\ UNCHANGED <<cur, place, writing>>

Top   == work[Len(work)][1]
Level_ == work[Len(work)][2]
Pushed == PushDirs(work, tree, Top, Level_, GetMaxDirLevel(fs))

(* calc_local_dir_entries_len.                                             *)
AllocDir ==
  /\ pc = "dirs" /\ work # <<>>
  /\ LET normal == CalcDirSectors(fs, tree, Top, Level_, FALSE)
         joliet == IF IsJoliet(fs) THEN CalcDirSectors(fs, tree, Top, Level_, TRUE) ELSE 0
     IN /\ place' = [place EXCEPT ![Top] =
                       [normal |-> sec, sizeN |-> normal * SectorSize,
                        joliet |-> sec + normal, sizeJ |-> joliet * SectorSize]]
        /\ sec' = sec + normal + joliet
  /\ work' = Pushed
  /\ Goto("dirs")
  /\ UNCHANGED <<cur, mgr, writing>>

AllocDirsEnd ==
  /\ pc = "dirs" /\ work = <<>>
  /\ mgr' = AllocSectors(mgr, "direntries", sec - mgr.next)
  /\ sec' = mgr'.next
  /\ work' = RootStack
  /\ Goto("files")
  /\ UNCHANGED <<cur, place, writing>>

(* Left out of the image, not only of the ISO9660 part of it.              *)
TooLarge(f) ==
  /\ tree.size[f] > MaxExtent /\ ~AllowsFragmentation(fs)
  /\ IsIso(fs) /\ ~IsUdf(fs)

(* calc_local_filesys_data.                                                *)
PlaceAll(t, start, files) ==
  LET Step(run, f) ==
        [sec   |-> run.sec + BytesToSec(t.size[f]) + t.pad[f],
         place |-> [run.place EXCEPT ![f] =
                      [normal |-> run.sec, joliet |-> run.sec,
                       sizeN |-> t.size[f], sizeJ |-> t.size[f]]]]
  IN FoldLeft(Step, start, files)

PlaceFiles ==
  /\ pc = "files" /\ work # <<>>
  /\ LET files == Among(tree.kids[Top], {f \in Files(tree) : ~TooLarge(f)})
         run   == PlaceAll(tree, [sec |-> sec, place |-> place], files)
     IN sec' = run.sec /\ place' = run.place
  /\ work' = Pushed
  /\ Goto("files")
  /\ UNCHANGED <<cur, mgr, writing>>

PlaceFilesEnd ==
  /\ pc = "files" /\ work = <<>>
  /\ mgr' = AllocDataSectors(mgr, sec - mgr.next)
  /\ Goto("write header")
  /\ UNCHANGED <<work, cur, sec, place, writing>>

Reserve ==
  \/ CreateTree \/ AllocHeader \/ AllocTables \/ AllocDir \/ AllocDirsEnd
  \/ PlaceFiles \/ PlaceFilesEnd

-----------------------------------------------------------------------------
(* Writing the structures.                                                 *)

InTree(n) == n \in Files(tree)

(***************************************************************************)
(* IsoWriter::write_header.  In extended mode the record and the entries   *)
(* take the places of files of the tree; a file that is not there leaves   *)
(* out the record, or leaves an entry at 0.  The catalog is written into   *)
(* its file on the hard drive, which somebody else may hold open.          *)
(***************************************************************************)
WriteHeader ==
  /\ pc = "write header"
  /\ IF ~IsIso(fs)
     THEN Goto("write udf") /\ UNCHANGED <<work, cur, planning, writing>>
     ELSE IF fs.extended /\ InTree(fs.catalog) /\ fs.images = <<>>
     THEN Fail
     ELSE
       LET record == IF fs.images = <<>> THEN <<>>
                     ELSE IF ~fs.extended THEN <<GetStart(mgr, "bootcatalog")>>
                     ELSE IF InTree(fs.catalog) THEN <<place[fs.catalog].normal>> ELSE <<>>
           volumes == VolumeDescriptors(mgr, fs, tree, TableDirs, place[Root], record)
           count  == Len(volumes)
           inside == WriteBootImages(
                       WriteBootCatalog(WriteSectors(out, count), fs.images), fs.images)
       IN /\ desc' = [desc EXCEPT !.iso = volumes]
          /\ IF fs.extended \/ fs.images = <<>>
             THEN
               /\ out' = WriteSectors(out, count)
               /\ disc' = [disc EXCEPT !.region["descriptors"] = Now(out)]
               /\ \E written \in BOOLEAN :
                    /\ boot' = [record  |-> IF record # <<>> THEN record[1] ELSE NotYet,
                                images  |-> [i \in DOMAIN fs.images |->
                                               IF InTree(fs.images[i].node)
                                               THEN place[fs.images[i].node].normal ELSE 0],
                                catalog |-> IF record # <<>> /\ written THEN "written" ELSE "none"]
                    /\ changed' = IF record = <<>> \/ ~written THEN changed
                                  ELSE IF WriteBootCatalog(NewStream, fs.images)
                                            = WriteBytes(NewStream, tree.size[fs.catalog])
                                  THEN changed \ {fs.catalog} ELSE changed \cup {fs.catalog}
               /\ pc' = "write udf"
               /\ UNCHANGED <<fs, tree, cancelled, result, work, cur, planning, udf, part>>
             ELSE
               /\ out' = inside.out
               /\ disc' = [disc EXCEPT
                    !.region["descriptors"] = Now(out),
                    !.region["bootcatalog"] = Now(out) + count,
                    !.region["bootdata"]    = 16 + inside.at[1],
                    !.image = [i \in DOMAIN inside.at |-> 16 + inside.at[i]]]
               /\ boot' = [record  |-> record[1],
                           images  |-> BootImagePos(fs.images, GetStart(mgr, "bootdata")),
                           catalog |-> "written"]
               /\ Goto("write udf")
               /\ UNCHANGED <<work, cur, planning, udf, part>>

(* The same, when a boot image is copied into the header and cannot be     *)
(* opened or read: write_boot_image throws.                                *)
BootImageLost ==
  /\ pc = "write header"
  /\ IsIso(fs) /\ ~fs.extended /\ fs.images # <<>>
  /\ Fail

(* UdfWriter::write_header, and write_partition up to the entries.         *)
WriteUdf ==
  /\ pc = "write udf"
  /\ IF ~IsUdf(fs)
     THEN Goto("write tables") /\ UNCHANGED <<work, udf, part, out, disc, desc>>
     ELSE LET main == WriteSectors(out, 3)
              anchor == WriteSectors(main, MainSectors(GetStart(mgr, "main")))
          IN /\ disc' = [disc EXCEPT !.region["initial"] = Now(out), !.region["main"] = Now(main),
                                     !.volumes = <<Now(WriteSectors(main, 2)),
                                                    Now(WriteSectors(main, 2 + MainSequence))>>,
                                     !.anchor = Now(anchor), !.region["fileset"] = Now(anchor) + 2]
             /\ out' = WriteSectors(anchor, 2)
             /\ desc' = [desc EXCEPT !.udf = UdfDescriptors(mgr, tree)]
             /\ part' = [sec |-> 1, ident |-> 0]
             /\ udf' = [udf EXCEPT ![Root].loc = 1]
             /\ work' = <<Root>>
             /\ Goto("write entries")
  /\ UNCHANGED <<cur, planning, boot>>

(* A file entry holds the size of its file: 1 GiB at most on DVD-Video.    *)
EntryRefused(n) == n \in Files(tree) /\ IsDvd(fs) /\ tree.size[n] > ShortLimit

(* One round of write_partition_entries.                                   *)
WriteEntry ==
  /\ pc = "write entries" /\ work # <<>>
  /\ LET n == Head(work) IN
     IF EntryRefused(n) THEN Fail
     ELSE
       /\ disc' = [disc EXCEPT !.entry[n] = Now(out), !.tag[n] = part.sec]
       /\ IF n \in Dirs(tree)
          THEN LET locs == ChildEntries(fs, tree, n, part.sec)
                   kids == tree.kids[n]
               IN /\ udf' = [k \in Nodes(tree) |->
                               IF k = n THEN [udf[n] EXCEPT !.ident = part.ident]
                               ELSE IF k \in Range(kids)
                               THEN [udf[k] EXCEPT !.loc = locs[CHOOSE i \in DOMAIN kids : kids[i] = k]]
                               ELSE udf[k]]
                  /\ out' = WriteUdfDir(out, fs, tree, n)
                  /\ part' = [sec |-> NextPartSec(fs, tree, n, part.sec),
                              ident |-> NextUnique(part.ident)]
                  /\ work' = kids \o Tail(work)
          ELSE /\ udf' = [udf EXCEPT ![n].ident = part.ident]
               /\ out' = WriteSectors(out, 1)
               /\ part' = [sec |-> part.sec + 1, ident |-> NextUnique(part.ident)]
               /\ work' = Tail(work)
       /\ Goto("write entries")
       /\ UNCHANGED <<cur, planning, desc, boot>>

WriteEntriesEnd ==
  /\ pc = "write entries" /\ work = <<>>
  /\ Goto("write tables")
  /\ UNCHANGED <<work, cur, planning, writing>>

WriteTables ==
  /\ pc = "write tables"
  /\ LET l  == WritePathTable(out, fs, tree, TableDirs, FALSE)
         m  == WritePathTable(l, fs, tree, TableDirs, FALSE)
         jl == WritePathTable(m, fs, tree, TableDirs, TRUE)
         jm == WritePathTable(jl, fs, tree, TableDirs, TRUE)
         normal == [disc.region EXCEPT !["path L"] = Now(out), !["path M"] = Now(l)]
     IN IF ~IsIso(fs) THEN UNCHANGED <<out, disc>>
        ELSE IF IsJoliet(fs)
        THEN /\ out' = jm
             /\ disc' = [disc EXCEPT !.region = [normal EXCEPT !["joliet path L"] = Now(m),
                                                               !["joliet path M"] = Now(jl)]]
        ELSE out' = m /\ disc' = [disc EXCEPT !.region = normal]
  /\ work' = RootStack
  /\ Goto(IF IsIso(fs) THEN "write dirs" ELSE "write data")
  /\ UNCHANGED <<cur, planning, udf, part, desc, boot>>

(***************************************************************************)
(* write_local_dir_entries: looks at the cancel request before each child, *)
(* so a directory without children is written all the same.  Stopping is   *)
(* modelled before the first child of either form.  For the root the       *)
(* caller tests only for RESULT_FAIL and goes on with the next directory.  *)
(***************************************************************************)
WriteDirEntry ==
  /\ pc = "write dirs" /\ work # <<>>
  /\ work' = Pushed
  /\ LET normal == WriteDir(out, fs, tree, Top, Level_, FALSE)
         joliet == WriteDir(normal, fs, tree, Top, Level_, TRUE)
         isoDir == [disc EXCEPT !.dir[Top] = Now(out)]
         first  == IF Top = Root THEN [isoDir EXCEPT !.region["direntries"] = Now(out)] ELSE isoDir
     IN IF ~cancelled \/ tree.kids[Top] = <<>>
        THEN /\ out' = IF IsJoliet(fs) THEN joliet ELSE normal
             /\ disc' = IF IsJoliet(fs) THEN [first EXCEPT !.jdir[Top] = Now(normal)] ELSE first
             /\ Goto("write dirs")
        ELSE /\ \/ out' = WriteBytes(out, 2 * DirRecord) /\ UNCHANGED disc
                \/ IsJoliet(fs) /\ out' = WriteBytes(normal, 2 * DirRecord) /\ disc' = first
             /\ IF Top = Root THEN Goto("write dirs")
                ELSE /\ result' = "CANCEL" /\ pc' = "end"
                     /\ UNCHANGED <<fs, tree, changed, cancelled>>
  /\ UNCHANGED <<cur, planning, udf, part, desc, boot>>

WriteDirsEnd ==
  /\ pc = "write dirs" /\ work = <<>>
  /\ work' = RootStack
  /\ Goto("write data")
  /\ UNCHANGED <<cur, planning, writing>>

-----------------------------------------------------------------------------
(* Writing the files: write_file_data and write_local_file_data.           *)

OpenDir ==
  /\ pc = "write data" /\ cur = <<>> /\ work # <<>>
  /\ cur' = <<Top, Level_, 1>>
  /\ work' = Front(work)
  /\ Goto("write data")
  /\ UNCHANGED <<planning, writing>>

(* The look before each child, after each directory and after the last.    *)
SeeCancel ==
  /\ pc = "write data" /\ cancelled
  /\ cur # <<>> \/ work = <<>>
  /\ Return("CANCEL")
  /\ UNCHANGED <<planning, writing>>

AtChild == pc = "write data" /\ cur # <<>> /\ ~cancelled
Child   == tree.kids[cur[1]][cur[3]]
More    == cur[3] <= Len(tree.kids[cur[1]])
NextChild == cur' = [cur EXCEPT ![3] = @ + 1]

SkipChild ==
  /\ AtChild /\ More
  /\ \/ /\ Child \in Dirs(tree)
        /\ work' = IF cur[2] > GetMaxDirLevel(fs) THEN work ELSE Append(work, <<Child, cur[2] + 1>>)
     \/ /\ Child \in Files(tree) /\ TooLarge(Child)
        /\ UNCHANGED work
  /\ NextChild
  /\ Goto("write data")
  /\ UNCHANGED <<planning, writing>>

(* write_file_node: with fail_on_error_ a changed file ends the build.     *)
WriteFile ==
  /\ AtChild /\ More
  /\ Child \in Files(tree) /\ ~TooLarge(Child)
  /\ IF Child \in changed THEN Fail
     ELSE /\ disc' = [disc EXCEPT !.data[Child] = Now(out)]
          /\ out' = WriteSectors(PadIfOpen(WriteBytes(out, tree.size[Child])), tree.pad[Child])
          /\ NextChild
          /\ Goto("write data")
          /\ UNCHANGED <<work, planning, udf, part, desc, boot>>

CloseDir ==
  /\ AtChild /\ ~More
  /\ cur' = <<>>
  /\ Goto("write data")
  /\ UNCHANGED <<work, planning, writing>>

(* Mutant of WriteDataEnd: no look at the request after the last file.     *)
WriteDataEndBlind ==
  /\ pc = "write data" /\ cur = <<>> /\ work = <<>>
  /\ Goto("tail")
  /\ UNCHANGED <<work, cur, planning, writing>>

WriteDataEnd ==
  /\ pc = "write data" /\ cur = <<>> /\ work = <<>> /\ ~cancelled
  /\ Goto("tail")
  /\ UNCHANGED <<work, cur, planning, writing>>

(* The second anchor, and the return.  Nobody looks at the request here.   *)
WriteTail ==
  /\ pc = "tail"
  /\ IF IsUdf(fs)
     THEN out' = WriteSectors(out, 1) /\ disc' = [disc EXCEPT !.tail = Now(out)]
     ELSE UNCHANGED <<out, disc>>
  /\ Return("OK")
  /\ UNCHANGED <<planning, udf, part, desc, boot>>

Write ==
  \/ WriteHeader \/ BootImageLost \/ WriteUdf \/ WriteEntry \/ WriteEntriesEnd \/ WriteTables
  \/ WriteDirEntry \/ WriteDirsEnd \/ OpenDir \/ SeeCancel \/ SkipChild
  \/ WriteFile \/ CloseDir \/ WriteDataEnd \/ WriteTail

-----------------------------------------------------------------------------
(* The others.                                                             *)

RequestCancel ==
  /\ result = "none" /\ ~cancelled
  /\ cancelled' = TRUE
  /\ UNCHANGED <<fs, tree, pc, work, cur, planning, writing, changed, result>>

(* A file is open while it is in the tree; its size may change before it   *)
(* is read.                                                                *)
ChangeFile ==
  /\ result = "none" /\ pc # "tree" /\ Cardinality(changed) < MaxChanges
  /\ \E f \in Files(tree) \ changed : changed' = changed \cup {f}
  /\ UNCHANGED <<fs, tree, pc, work, cur, planning, writing, cancelled, result>>

Returned == result # "none" /\ UNCHANGED vars

Next == Reserve \/ Write \/ RequestCancel \/ ChangeFile \/ Returned

(***************************************************************************)
(* Weak fairness of Reserve \/ Write: write() runs in a thread of its own  *)
(* and never waits for anybody, so a step is possible as long as it has    *)
(* not returned, and is taken again and again.                             *)
(***************************************************************************)
Fairness == []<>(pc = "end") \/ []<><<Reserve \/ Write>>_vars

Spec == Init /\ [][Next]_vars /\ Fairness
-----------------------------------------------------------------------------
(***************************************************************************)
(* What the writer is right about: the inputs on which the passes agree.   *)
(* Outside of them the image is wrong: MC_FileSystemWriter shows it of each *)
(* conjunct, and the runs of MC_Irregular what becomes of the image.        *)
(***************************************************************************)
OneSector(f, t, d) == \A joliet \in {FALSE, IsJoliet(f)} :
  LET records == [n \in Range(t.kids[d]) |-> RecordSize(f, t, n, joliet) * ExtentCount(SizeOf(t, n))]
  IN 2 * DirRecord + SumOver(records, t.kids[d]) <= SectorSize

Regular(f, t) ==
  /\ IsUdf(f) => /\ \A d \in Dirs(t) : IdentBytes(f, t, d) % SectorSize # 0
                 /\ \A n \in Nodes(t) : /\ FullLen(t.name[n]) <= 127
                                        /\ CalcIdentSize(f, t.name[n]) <= SectorSize
                 /\ \A d \in Dirs(t) : Level(t)[d] <= GetMaxDirLevel(f)
                 /\ IsDvd(f) \/ f.shortAd => \A n \in Files(t) : t.size[n] < ShortLimit
  /\ IsIso(f) => \A d \in Dirs(t) :
       \/ \A n \in Range(t.kids[d]) : ExtentCount(SizeOf(t, n)) = 1
       \/ OneSector(f, t, d)
  /\ f.images # <<>> =>
       IF f.extended
       THEN \A n \in {f.catalog} \cup {f.images[i].node : i \in DOMAIN f.images} :
              /\ n \in ReachedFiles(t, GetMaxDirLevel(f))
              /\ t.size[n] <= MaxExtent \/ AllowsFragmentation(f) \/ IsUdf(f)
       ELSE \A i \in DOMAIN f.images : i < Len(f.images) => f.images[i].size % SectorSize = 0
  /\ IsUdf(f) /\ ~f.extended =>
       8 + BytesToSec(BootCatSize(f.images)) + BytesToSec(BootDataSize(f.images)) <= 222 - 16

(* The counters of sectors are 64 bits wide: an image that is too large    *)
(* for them is left out, too.  Each of the two passes that reserve by      *)
(* directory needs no more than DirNeeds of any.                           *)
DirNeeds(t, d) ==
  2 * (1 + Len(t.kids[d]))
  + SumOver([n \in Range(t.kids[d]) |->
               IF n \in Files(t) THEN BytesToSec(t.size[n]) + t.pad[n] ELSE 0], t.kids[d])

Fits(f, t) ==
  LET Table(joliet) ==
        BytesToSec(PathTableBytes(f, t, ReachedDirs(t, GetMaxDirLevel(f)) \ {Root}, joliet))
  IN \E most \in {DirNeeds(t, d) : d \in Dirs(t)} :
       /\ \A d \in Dirs(t) : DirNeeds(t, d) <= most
       /\ 263 + BytesToSec(BootCatSize(f.images)) + BytesToSec(BootDataSize(f.images))
            + (IF IsUdf(f) THEN UdfSizeTotal(f, t)[Root] ELSE 0)
            + 2 * (Table(FALSE) + Table(TRUE)) + 2 * most * Cardinality(Dirs(t)) < Word

TypeOK ==
  /\ \E input \in Inputs : fs = input.fs /\ tree = input.tree
  /\ mgr \in ManagerType /\ sec \in Nat /\ out \in StreamType
  /\ DOMAIN place = Nodes(tree) /\ DOMAIN udf = Nodes(tree)
  /\ changed \subseteq Files(tree) /\ cancelled \in BOOLEAN
  /\ result \in {"none", "OK", "FAIL", "CANCEL"} /\ (result # "none" <=> pc = "end")

Placed(actual, planned) == actual # NotYet => actual = planned

(* A request is seen, or comes too late: then the image is as good as any. *)
Trusted == ~cancelled \/ result = "OK"

(***************************************************************************)
(* What path tables, directory records, descriptors and file entries say   *)
(* of a place is where the writing pass put it (SectorManager::get_start,  *)
(* data_pos_normal_, data_pos_joliet_).                                    *)
(***************************************************************************)
PlacedAsRecorded ==
  Trusted =>
    /\ \A r \in Regions : Placed(disc.region[r], GetStart(mgr, r))
    /\ \A d \in Dirs(tree) : /\ Placed(disc.dir[d], place[d].normal)
                             /\ Placed(disc.jdir[d], place[d].joliet)
    /\ \A f \in Files(tree) : Placed(disc.data[f], place[f].normal)

(***************************************************************************)
(* A file entry is written where the identifier in its directory points    *)
(* (udf_part_loc_), and its tag states that place.                         *)
(***************************************************************************)
EntriesAsRemembered ==
  \A n \in Nodes(tree) : disc.entry[n] # NotYet =>
    disc.entry[n] = PartStart + udf[n].loc /\ disc.tag[n] = udf[n].loc

(***************************************************************************)
(* What the volume descriptors state, before anything they speak of is     *)
(* written (isowriter.cc:903, udfwriter.cc:356), is how the image turns    *)
(* out: its size and the partition's, the path tables and their length,    *)
(* the root directories, both sequences of UDF descriptors, the anchors    *)
(* and the numbers of files and directories.                               *)
(***************************************************************************)
IsoDescribed(d) ==
  LET joliet == d.type = "joliet"
  IN /\ d.space = (IF IsUdf(fs) THEN disc.tail ELSE Now(out))
     /\ d.tableL = disc.region[IF joliet THEN "joliet path L" ELSE "path L"]
     /\ d.tableM = disc.region[IF joliet THEN "joliet path M" ELSE "path M"]
     /\ d.tableSize = PathTableLength(fs, tree, TableDirs, joliet)
     /\ d.root = (IF joliet THEN disc.jdir ELSE disc.dir)[Root]
     /\ ~joliet /\ IsJoliet(fs) => d.root + BytesToSec(d.rootLen) = disc.jdir[Root]

UdfDescribed(d) ==
  LET Anchors(a, place_) ==
        a = [tag |-> place_, main |-> disc.volumes[1], reserve |-> disc.volumes[2]]
      Volumes(v, first) ==
        /\ \A i \in DOMAIN v : v[i].tag = first + i - 1
        /\ v[3].start = disc.anchor + 1 /\ v[3].start + v[3].len = disc.tail
        /\ v[4].integrity = disc.region["main"]
        /\ v[3].start + d.fileset.root = disc.entry[Root]
      Written(nodes) == Cardinality({n \in nodes : disc.entry[n] # NotYet})
  IN /\ Volumes(d.main, disc.volumes[1]) /\ Volumes(d.reserve, disc.volumes[2])
     /\ disc.anchor = AnchorSector /\ Now(out) = disc.tail + 1
     /\ Anchors(d.anchor, disc.anchor) /\ Anchors(d.tail, disc.tail)
     /\ d.integrity.tag = disc.region["main"] /\ d.integrity.partLen = d.main[3].len
     /\ d.integrity.dirs = Written(Dirs(tree)) /\ d.integrity.files = Written(Files(tree))

DescribedAsPlaced ==
  result = "OK" =>
    /\ \A i \in DOMAIN desc.iso :
         desc.iso[i].type \in {"primary", "joliet"} => IsoDescribed(desc.iso[i])
    /\ IsUdf(fs) => UdfDescribed(desc.udf)

(* Every extent begins where the one before ended, from the file's data on. *)
Covers(extents, from, size) ==
  LET sectors == [e \in Range(extents) |-> BytesToSec(e.len)]
      bytes   == [e \in Range(extents) |-> e.len]
  IN /\ \A i \in DOMAIN extents :
          extents[i].loc = from + SumOver(sectors, SubSeq(extents, 1, i - 1))
     /\ SumOver(bytes, extents) = size

(***************************************************************************)
(* After RESULT_OK every file that a directory of either file system lists *)
(* is there as a whole: its extents or allocation descriptors cover the    *)
(* sectors that hold its data, no more and no fewer.                       *)
(***************************************************************************)
IsoListed(f) ==
  /\ IsIso(fs) /\ f \in ReachedFiles(tree, GetMaxDirLevel(fs))
  /\ tree.size[f] <= MaxExtent \/ AllowsFragmentation(fs)

FilesAreWhole ==
  result = "OK" => \A f \in Files(tree) : tree.size[f] > 0 =>
    /\ IsoListed(f) =>
         disc.data[f] # NotYet /\ Covers(FileExtents(place[f].normal, tree.size[f]), disc.data[f], tree.size[f])
    /\ IsUdf(fs) =>
         LET ads == AllocDescriptors(fs, place[f].normal - PartStart, tree.size[f])
         IN /\ disc.data[f] # NotYet /\ disc.entry[f] # NotYet
            /\ \A i \in DOMAIN ads : ads[i].kind = 0
            /\ Covers(ads, disc.data[f] - PartStart, tree.size[f])

(***************************************************************************)
(* The unique identifiers of file entries are distinct, leave out those    *)
(* reserved for Macintosh, and are below the next one, which the integrity *)
(* descriptor states before the first entry is written.                    *)
(***************************************************************************)
UniqueIdents ==
  \A n \in Nodes(tree) : udf[n].ident # NotYet =>
    /\ udf[n].ident < desc.udf.integrity.unique
    /\ n = Root <=> udf[n].ident < UniqueMin
    /\ \A m \in Nodes(tree) \ {n} : udf[m].ident # udf[n].ident

(***************************************************************************)
(* The firmware finds the catalog through the boot record, and the image   *)
(* through the catalog, which is written before the data.                  *)
(***************************************************************************)
BootsFromImage ==
  result = "OK" /\ fs.images # <<>> /\ IsIso(fs) =>
    IF fs.extended
    THEN /\ boot.record = disc.data[fs.catalog]
         /\ \A i \in DOMAIN fs.images : boot.images[i] = disc.data[fs.images[i].node]
    ELSE boot.record = disc.region["bootcatalog"] /\ boot.images = disc.image

-----------------------------------------------------------------------------
(***************************************************************************)
(* What the source says of a build in extended mode, and what MC_Irregular *)
(* finds not to be so.                                                     *)
(***************************************************************************)

(* "Write the El Torito boot catalog and boot image data" (isowriter.cc).  *)
CatalogWritten == result = "OK" /\ boot.record # NotYet => boot.catalog = "written"

-----------------------------------------------------------------------------
(***************************************************************************)
(* The writer as DiscImage: the plan is what the reserving passes left in  *)
(* the nodes and in the sector manager.                                    *)
(***************************************************************************)
PlannedFiles == {f \in ReachedFiles(tree, GetMaxDirLevel(fs)) : ~TooLarge(f)}
PlannedDirs  == IF IsIso(fs) THEN ReachedDirs(tree, GetMaxDirLevel(fs)) ELSE {}

Pieces(kind, at, nodes) == {<< <<kind, n>>, at[n]>> : n \in {m \in nodes : at[m] # NotYet}}

Plan ==
  LET normal == [n \in Nodes(tree) |-> place[n].normal]
      joliet == [n \in Nodes(tree) |-> place[n].joliet]
  IN Pieces("file", normal, PlannedFiles) \cup Pieces("dir", normal, PlannedDirs)
     \cup (IF IsJoliet(fs) THEN Pieces("joliet dir", joliet, PlannedDirs) ELSE {})

Stored ==
  Pieces("file", disc.data, Files(tree)) \cup Pieces("dir", disc.dir, Dirs(tree))
  \cup Pieces("joliet dir", disc.jdir, Dirs(tree))

Status ==
  IF result # "none" THEN result
  ELSE IF cancelled /\ pc # "tail" THEN "abandoned"
  ELSE IF pc \in {"tree", "header", "tables", "dirs", "files"} THEN "planning" ELSE "storing"

Promise == INSTANCE DiscImage WITH
  status <- Status,
  plan   <- IF Status \in {"storing", "OK"} THEN Plan ELSE {},
  stored <- IF Status \in {"storing", "OK"} THEN Stored ELSE {}

(***************************************************************************)
(* The three passes together do what a writer with one plan would do.  In  *)
(* particular write() returns, and a request made while there is something *)
(* to write is never answered with RESULT_OK, although the caller in       *)
(* write_dir_entries drops one answer.                                     *)
(***************************************************************************)
ImagePromise == Promise!Spec
=============================================================================
