------------------------------ MODULE ElTorito ------------------------------
(***************************************************************************)
(* eltorito.cc: the boot catalog and the boot images, when the writer puts *)
(* them into its header.  images is boot_images_, a sequence of records    *)
(* with the size of each image's file.                                     *)
(***************************************************************************)
EXTENDS SectorStream, Sequences, SequencesExt

AreImages(images) ==
  images \in Seq(Range(images)) /\ \A image \in Range(images) : image.size \in Nat

(* Validation and default entry, then a header and an entry per image.     *)
BootCatSize(images) == 64 * Len(images)

(* get_boot_data_size: bytes, summed without regard to sectors.            *)
BootDataSize(images) == SumOver([image \in Range(images) |-> image.size], images)

(* bytes_to_sec64 of each.                                                 *)
ImageSectors(images) == [image \in Range(images) |-> BytesToSec(image.size)]

(* Mutant of BootImagePos: a position is noted after its image.            *)
BootImagePosAfter(images, start_sec) ==
  [i \in 1 .. Len(images) |-> start_sec + SumOver(ImageSectors(images), SubSeq(images, 1, i))]

(* calc_filesys_data: every image starts on a sector of its own.           *)
BootImagePos(images, start_sec) ==
  [i \in 1 .. Len(images) |-> start_sec + SumOver(ImageSectors(images), SubSeq(images, 1, i - 1))]

BootRecord(boot_cat_sec_pos) == [type |-> "boot record", catalog |-> boot_cat_sec_pos]

WriteBootCatalog(s, images) == PadIfOpen(WriteBytes(s, BootCatSize(images)))

(* write_boot_images: where each image went, and the stream after the last.*)
WriteBootImages(s, images) ==
  LET Step(run, image) ==
        [at  |-> Append(run.at, run.out.sector),
         out |-> PadIfOpen(WriteBytes(run.out, image.size))]
  IN FoldLeft(Step, [at |-> <<>>, out |-> s], images)
=============================================================================
