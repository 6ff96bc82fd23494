--------------------------- MODULE MC_WorkerCalls ---------------------------
(***************************************************************************)
(* WorkerCalls for model checking: installer images of two boot.wim files  *)
(* and a folder with another one in it, whose names differ from the ones   *)
(* in the settings by their case.                                          *)
(***************************************************************************)
EXTENDS WorkerCalls

MCLetters ==
  "Sources" :> "SOURCES" @@ "sources" :> "SOURCES" @@ "x64" :> "X64" @@
  "Boot.wim" :> "BOOT.WIM" @@ "boot.wim" :> "BOOT.WIM" @@ "boot" :> "BOOT" @@
  "Fonts" :> "FONTS" @@ "a.ttf" :> "A.TTF" @@ "efisys.bin" :> "EFISYS.BIN" @@
  "software" :> "SOFTWARE" @@ "bootmgfw.efi" :> "BOOTMGFW.EFI" @@ "setup.exe" :> "SETUP.EXE" @@
  "winpeshl.ini" :> "WINPESHL.INI" @@ "RegBack" :> "REGBACK"

Dir(path) == [path |-> path, dir |-> TRUE, blocks |-> 0]
File(path, blocks) == [path |-> path, dir |-> FALSE, blocks |-> blocks]

MCEntries ==
  << Dir(<<"boot">>), File(<<"boot", "efisys.bin">>, 1),
     Dir(<<"boot", "Fonts">>), File(<<"boot", "Fonts", "a.ttf">>, 1),
     Dir(<<"Sources">>), File(<<"Sources", "Boot.wim">>, 2) >>

WithImages(udf, iso9660, images) ==
  [udf |-> udf, iso9660 |-> iso9660, entries |-> MCEntries,
   images |-> <<"Sources", "Boot.wim">> :> images]

Setup == "Windows Setup"
PE    == "Windows PE"

(* UDF is tried first; an image of both kinds is read as UDF.  The one     *)
(* with a single image has no boot files.                                  *)
MCDiscs ==
  {WithImages(TRUE, TRUE, <<Setup, PE>>), WithImages(TRUE, FALSE, <<Setup, Setup>>),
   WithImages(FALSE, TRUE, <<PE, Setup, PE>>),
   [WithImages(FALSE, TRUE, <<Setup>>) EXCEPT !.entries = SubSeq(@, 5, 6)],
   WithImages(FALSE, FALSE, <<PE>>)}

MCCandidates == << <<"x64", "sources", "boot.wim">>, <<"sources", "boot.wim">> >>

MCImageFiles == {<<"software">>, <<"RegBack", "software">>, <<"bootmgfw.efi">>, <<"setup.exe">>, <<"winpeshl.ini">>}

MCCheckExtracts ==
  << [from |-> <<"bootmgfw.efi">>, to |-> <<"TMP", "BOOTX64.EFI">>, cmd |-> "RENAME"] >>
MCMakeExtracts ==
  << [from |-> <<"software">>, to |-> <<"TMP">>, cmd |-> "NORMAL"],
     [from |-> <<"RegBack", "software">>, to |-> <<"TMP", "SOFTWARE">>,
      cmd |-> "DROPFILENAME"] >>

MCFolderCopies == << [from |-> <<"boot">>, to |-> <<"MEDIA">>] >>
MCFileCopies == << [from |-> <<"boot", "efisys.bin">>, to |-> <<"MEDIA", "BOOT", "EFISYS.BIN">>] >>

MCUpdateCmds ==
  << [op |-> "delete", path |-> <<"setup.exe">>], [op |-> "delete", path |-> <<"winpeshl.ini">>],
     [op |-> "add", path |-> <<"winpeshl.ini">>] >>
=============================================================================
