# PEMaker in TLA+

PEMaker is a Windows program that makes a bootable WinPE image: a wizard asks for
a source of `boot.wim` and for the target machine, one worker thread brings the
image into a work folder, a second one edits it and writes `WinPE.iso`. This
directory holds its specifications, the TLC configurations that check them and
the proofs.

    tlc -config PEMaker_sources.cfg MC_PEMaker.tla
    tlc -config FileSystemWriter_writes.cfg MC_FileSystemWriter.tla
    tlapm PEMakerProofs.tla

## The system

| Part | State | Operations | Correct when |
| --- | --- | --- | --- |
| Wizard (`FrameImpl`, widgets) | current page, flags and widgets of the progress pages, `DataHolder` | click handlers, handlers of the worker's events, close | no page is left while its worker is alive; Next is offered only over a finished image |
| `CustomThread` (`Worker/Events.h`) | `state` behind a critical section, the page's event queue | `Terminate`, `TerminateRequired`, `SetStateStart`, `SetStateComplete` | an accepted cancel request is final; the end is the last event |
| `CheckISOImage` | position, local extractor | PREP to END | the folder is rebuilt from the selection or the user is told |
| `MakePEImage` | position, extractor, DISM index | PREP to END | every failure reaches the page before the end does |
| Work folder, hive, mount (`MiscWx`, `RegistryHive`, `dism.exe`) | files that survive the process | remove, prepare, load, unload | nothing of an earlier job reaches a later image |
| wimlib wrapper (`Worker/WIM.cpp`) | static pointer to the running thread | `Export`, `Update`, `Extract` | a cancelled write is never reported as done |
| ISO extraction (`Worker/ISO.cpp`) | output file, position | `ExtractFile`, `ExtractFolder` | a file reported as extracted is whole |
| `MakeISO` and the `ckfilesystem` writer | file tree, sector map, output position | calculate, allocate, write | what was calculated, and stated in descriptors, is what is written |
| Path table, names, El Torito | lists of directories, names, boot entries | populate, sort, number; make unique; write | records agree with ECMA-119 and with each other |
| Environment variables, languages, volumes | maps | replace, look up, list | the replacement ends |

The parts interact like this. A click handler of the GUI thread builds a page; a
progress page creates and runs a worker and deletes it in its `OnClose`. A worker
reads the `DataHolder` of the frame through a pointer, works on the folder, and
posts events to its page with `wxQueueEvent`; the page handles them on the GUI
thread in the order of their posting. The page asks a worker to stop through
`Terminate`; the worker looks at the request at the head of its steps, in its
loops, and in the progress callbacks of wimlib and of the ISO writer. Closing the
main window destroys the page without its `OnClose`, so the worker runs on until
the process ends. The folder, a loaded hive and a mounted image remain for the
next run.

What is hard here: a worker and a page that learn of each other late; a cancel
request anywhere in a pipeline of fifteen steps; failures that are errors in some
steps and messages in others; results of one job found by the next, after a
failure, a kill or a restart; and in the writer, three passes that must agree.

## Modules

| Module | Models | Correspondence |
| --- | --- | --- |
| `DataHolder` | `DataHolder.h` | `holder` is the structure; an uninitialised `ExtractMethod` is the value `Unset` |
| `CustomThread` | `Worker/Events.h` | one operator per method; `events` is the queue of the page, `pc` the label `Entry` is at |
| `WorkDir` | `MiscWx.cpp`, the folder | one variable per file a later step depends on, with its state and what it was made from; `hive` and `mounted` are the two things that hold files of the folder |
| `CheckISOImage` | `Worker/CheckISOImage.cpp` | one action per labelled step; FOURTH to SIXTH only list files and are one action |
| `MakePEImage` | `Worker/MakePEImage.cpp` | one action per labelled step; THIRD is split at the loaded hive, SEVENTH at each command, since a kill between them leaves something behind |
| `PEMaker` | `FrameImpl.cpp`, composition of the above, crash and restart | one action per click or event handler; `Relaunch` ends the process, with the worker wherever it is, and starts the next |
| `JobPage` | what a page with a running job promises | abstract specification, implemented by `PEMaker` under `phaseShown` |
| `MC_PEMaker` | instances | three users, defined by the buttons they press |
| `PEMakerProofs` | theorems about `PEMaker` | |

What the workers call, one call, block or part at a time:

| Module | Models | Correspondence |
| --- | --- | --- |
| `IsoExtract` | `Worker/ISO.cpp`, both extractors | `list` is `file_list`; `copy` and `todo` are the locals of the block loop and of the folder recursion; libcdio may fail at every call |
| `WimImage` | `Worker/WIM.cpp` | `wcall` is the call in progress: which label of the method it is at, and what it has opened |
| `RegistryHive` | `RegistryHive.cpp`, `Registry` of `MiscWx.cpp` | privileges, open keys, the loaded hive, the object `Load` returns |
| `WorkerCalls` | `Entry` of both workers over the three above, with the user who cancels | `pc` is the label, `next` the number of the call inside the step; shown to do what `CheckISOImage` and `MakePEImage` take a step to do |
| `MultiLanguage`, `EnvironmentVariables` | the two classes of `MiscWx.cpp` that both threads use | `GetString` is split where another thread could see its map half filled; one action per turn of the replacement loop |
| `SharedTexts` | their use by the pages and by a worker | pages are made, texts looked up, the language changed, a worker runs |

The writer of the disc image:

| Module | Models | Correspondence |
| --- | --- | --- |
| `SectorStream`, `SectorManager` | `sectorstream.cc`, `util.cc`, `sectormanager.cc` | operators on a stream position and on a map of regions |
| `FileSystem`, `FileTree`, `ElTorito` | `filesystem.cc`, `iso.cc`, `joliet.cc`; walks over the tree; `eltorito.cc` | lengths of names, limits of levels and sizes, order of a walk, places of boot images |
| `IsoWriter`, `UdfWriter` | `isowriter.cc`, `udfwriter.cc`, `udf.cc` | what a structure needs, what writing it takes, and what the descriptors state: three groups of operators, as three groups of functions |
| `FileSystemWriter` | `filesystemwriter.cc` over all of these | one action per directory, file or header of each pass; a cancel request and a changed file between any two |
| `DiscImage` | what writing an image promises: one plan, everything where the plan says, success only when all is stored | abstract specification, implemented by `FileSystemWriter` under `Promise` |
| `UniqueNames` | `make_unique_iso`, `make_unique_joliet` | one action per number tried |
| `FileTreeBuild`, `IsoPathTable` | the file set, `filetree.cc`; `isopathtable.cc` and `file_path_map` | the traversal in any order, then populate, sort level by level, and the entries |
| `MC_FileSystemWriter`, `MC_Irregular`, `MC_UniqueNames`, `MC_IsoPathTable`, `MC_WorkerCalls`, `MC_SharedTexts` | instances | small sectors, names, folders, images and settings |
| `WorkerCallsProofs`, `SharedTextsProofs`, `UniqueNamesProofs` | theorems about the modules of that name | |
| `IsoPathTableProofs` | theorems about `FileTreeBuild` and `IsoPathTable`, and what the operators of `FileTree` are on a tree of paths | |
| `FileSystemWriterLemmas`, `FileSystemWriterProofs` | what each pass foresees or reserves, compared with what it writes; theorems about `FileSystemWriter` | |
| `FoldLemmas` | folds over sequences, for all the proofs that need them | |

An action is atomic where nothing outside can tell its parts apart: a method that
runs under the critical section, a handler of the GUI thread, a step of a worker
between two looks at the cancel request. A step with a look at the request inside
a loop or a callback is one action whose success needs that there is no request
and whose failure is always possible; a request that comes after the last look is
the interleaving in which the request follows the step.

A click is in two parts. `SimpleButton::mouseReleased` queues the click if the
button is enabled, the handler runs later, and worker events may be handled in
between. wxWidgets empties its queues before it dispatches the next input, so one
click at most is pending. The text of the button is what the user saw, not what
the handler does.

In `WorkerCalls` a look at the request and the write that follows it are two
steps, so a request can come between them. `WorkerCalls` has a worker and its
user only; what follows from pages and restarts is in `PEMaker`. That no
contradiction hides between the two is what `StepsAsAssumed` is for: every change
the calls of a step make to the extractor, the files, the hive and the thread
together is a step of `CheckISOImage` or `MakePEImage`, or nothing. The boot
files, which a build only copies, are left out of that comparison, and a file is
taken for what it was until the step that writes it is over.

Of the code that looks odd, this is modelled as it is: `ExtractFolder` drops the
results of its files, and a folder below that cannot be opened is passed over;
`Extract` only prints its result; `FOURTH_STEP` drops what its calls saw of a
cancel request; a folder of a UDF image that cannot be made has its directory
entry freed twice, after which the process may be gone (`CRASH`). wimlib looks at
the request only while it writes, not while it extracts. A settings file without
`[SetVars]` is a null pointer that is followed (`crash`); names of that section in
small letters are never found, since names are looked up in capitals.

In the writer, an exception is an action or a branch that ends with `RESULT_FAIL`: a
file that cannot be opened for the tree, a boot image outside of the tree that cannot
be copied into the header (`BootImageLost`), an entry that is refused, a file that
changed.

In `FileSystemWriter` a place is a number of sectors, a name its lengths, and
`disc` is a history of where things went. What can go wrong is an action's
disjunct: a file that cannot be opened or has changed, a catalog somebody holds
open. The supplementary descriptor of ISO9660:1999 is written with the type of a
primary one, because the copy is made before the type is changed (iso.cc:652);
PEMaker does not use that level, and no property speaks of types. The comment
before `write_vol_desc_log_integrity` says that the number of directories is
without the root; the caller, and UDF, count the root. In `UniqueNames` a base of
three characters gets no number, so `abc.htm` and `abc.html` have one name in
ISO9660. `file_path_map` also lists files below the level limit, which are not in
the image: `ReadersFindFiles` speaks of the others.

`checkError` is a history variable: the check page has displayed an error. The
code lets the user press Next after it (only the build page remembers errors), so
what is said of the source of the image holds unless that happened.

## What is checked

| Run | Instance | Distinct states | Properties |
| --- | --- | --- | --- |
| `sources` | all three sources, two files, one machine, commands mount, service, unmount | 2.6 million | `TypeOK`, `IsoOpenWhenUsed`, `BuiltFromSelection`, `HeldFolderReported`, `NavigationWaits` |
| `machines` | one source, both architectures and firmwares, commands mount, unmount | 0.8 million | `NextMeansBuilt`, `BuildStartsClean`, `CancelNeverGoesOn` |
| `live` | an installer image, one machine | 89 thousand | `PagePromise`, `CancelLeadsBack` |
| `writes` | eight kinds of file system on six trees, a cancel request, one changed file | 12.8 thousand | `TypeOK`, `PlacedAsRecorded`, `EntriesAsRemembered`, `DescribedAsPlaced`, `FilesAreWhole`, `UniqueIdents`, `BootsFromImage`, `ImagePromise` |
| `names` | folders of ten or twelve children, eight or ten of which have one name once cut, some of them characters Joliet replaces | 74 thousand | `TypeOK`, `Distinct`, `KeepsShape`, `AllNamed` |
| `dirs` | five folders, traversed in any order | 10 thousand | `TypeOK`, `TreeIsFileSet`, `NumbersHold`, `TableIsWritten`, `ReadersFindFiles` |
| `calls` | five installer images, one lost folder, a cancel at any moment | 401 thousand | `TypeOK`, `LateWrites`, `ListedCanBeOpened`, `ExportedIsPE`, `OursIsIn`, `HiveGivenBack`, `StepsAsAssumed`, `JobEnds` |
| `texts` | two languages, seven settings files, texts of up to four characters | 396 thousand | `TypeOK`, `NeverLoadedWhileRead`, `Expanded`, `InChosenLanguage`, `ReplacementEnds` |

The wizard and its jobs:

* `NavigationWaits`: every way off a progress page other than closing the window
  waits for `SetStateComplete`.
* `NextMeansBuilt`: Next is offered only over a complete image for the selected
  architecture and firmware. A failed build ends as `THREAD_FINISHED` like a good
  one, so this rests on the order of two events and on every failing path posting
  an error.
* `BuiltFromSelection`: the image offered comes from the source selected last,
  whatever earlier jobs left.
* `HeldFolderReported`: a hive or a mount left behind makes the folder impossible
  to rebuild, and no user passes the check page over it without an error shown.
* `BuildStartsClean`: a build never starts on the leavings of another one.
* `CancelNeverGoesOn`, `CancelLeadsBack`: an accepted cancel request never becomes
  an offer to go on, and always leads to the way back.
* `IsoOpenWhenUsed`: FOURTH_STEP, which dereferences the extractor without a look,
  finds it open.
* `PagePromise`: the page implements `JobPage`, with the fairness of its `End`.

What the workers call:

* `LateWrites`: after a cancel request at most one block of a file or part of a wim
  is still written, because a look precedes each. Files that wimlib extracts are
  counted apart: `WIM::Extract` registers no progress function and its loops do not
  look, so everything left of `[ExtractFileFromBootWIM]`, or of its `_BIOS` or `_UEFI`
  form in a build, is extracted all the same. In `CheckISOImage`, which has no look between its steps,
  that can be the whole section after a request made earlier, unless the export saw
  the request; `MakePEImage` looks before the section and after it.
* `ListedCanBeOpened`, `ExportedIsPE`, `OursIsIn`: what the settings name is found
  whatever its case and the extractor; image 1 of the exported wim is the PE image
  of the installer's; what the build adds is there although `[Delete]` names it.
* `HiveGivenBack`: whichever call of THIRD_STEP fails, the keys are closed and the
  privileges given back before wimlib reads the hive. It holds with the hive still
  loaded, which is what `Load` leaves when it cannot open the loaded key
  (RegistryHive.cpp:103); what becomes of that is `HeldFolderReported`.
* `StepsAsAssumed`: the refinement described above. `JobEnds`: both workers end.
* `NeverLoadedWhileRead`, `InChosenLanguage`: the maps of texts have no lock, and
  need none, because a page loads them before it runs a worker.
* `Expanded`, `ReplacementEnds`: the loop that starts again from the text it
  replaced gives what the names stand for, and ends if no variable names itself.

The image:

* `PlacedAsRecorded`, `EntriesAsRemembered`, `DescribedAsPlaced`: the places in
  directory records and path tables, in UDF identifiers and tags, and all that
  the volume descriptors state, are where the writing pass arrives.
* `FilesAreWhole`: the extents of each file cover its data, in both file systems.
* `UniqueIdents`, `BootsFromImage`: identifiers are below the one stated first;
  boot record and catalog lead to the data written later.
* `ImagePromise`: the writer implements `DiscImage`; so it returns, and does not
  say OK to a request made while there was something to write.
* `Distinct`, `KeepsShape`, `AllNamed`: names of siblings are told apart where the
  code has room for a number, without changing a length that was calculated.
* `TreeIsFileSet`, `NumbersHold`, `TableIsWritten`, `ReadersFindFiles`: the order of
  the file set puts parents first, and a reader of the path table comes to every
  directory by numbers given while the table was still being sorted.

`writes` and its kin hold for `Regular` inputs. Each conjunct of `Regular` has an
`ASSUME` in `MC_FileSystemWriter` that shows two passes in disagreement without
it. Two of them bind only where sectors are small or images large: that an
identifier fits a sector (with 2048 bytes each one does), and that header, catalog
and boot images end before the place where the main descriptors of UDF are
expected. Four runs expect a violation, each of something the source says of itself:

| Run | Violated | The code |
| --- | --- | --- |
| `fullidents` | `EntriesAsRemembered` | identifiers that fill their sectors exactly are followed by a sector nobody counted, and every later UDF entry is one sector off (udfwriter.cc:233) |
| `largewim` | `FilesAreWhole` | with `short_ad_mode`, which `MakeISO` sets, a `boot.wim` of 1 GiB or more gets a descriptor whose length overflows into its type (udf.cc:940) |
| `nocatalog` | `CatalogWritten` | a catalog file that cannot be opened is passed over after the boot record was written (isowriter.cc:988) |
| `videofirst` | `VideoFirst` | the path of VIDEO_TS is compared in a form it never has (isopathtable.cc) |

Bounds of the wizard's runs. The list of buttons (`Uses`) is the only bound on behaviour: a user may
press them for ever, close and restart at any time, and no counter is cut. Two
files are enough for a stale one to differ from the selected one; the two smaller
runs need one. Three kinds of DISM command cover what a command does to the state;
a list with one of each has every prefix a cancel or a kill can leave. The
`sources` and `machines` runs split the product of sources and machines, which one
run reaches in four minutes with the same result; each property is checked in
the run that varies what it is about.

Bounds of the others. `writes` has sectors of 256 bytes and limits that shrink with
them, so that five records fill a sector, three sectors an extent, and four levels
are too many; the trees have a directory whose records end exactly with a sector,
empty and nested directories, files of two and three extents and a padded file.
`MaxChanges` is one changed file, since the first one ends the build. `names` has
4.1 names, radix three and numbers up to 9, so numbers of one, two and three digits
are reached and run out.
`dirs` numbers directories up to 4, so the limit is met. `calls` writes files of at
most two blocks and wims of two parts (`Chunks`): enough for a request before,
between and after them; `MaxLost` is one folder the list misses. The folders that
are copied are top-level ones. `texts` cuts a text at `MaxText` characters, which
only texts that grow for ever reach.

Fairness. In `WorkerCalls` and `SharedTexts` it is weak fairness of the worker: the
system schedules it and what it calls returns. In `FileSystemWriter` it is
`[]<>(pc = "end") \/ []<><<Reserve \/ Write>>_vars`: `write()` waits for nobody.
In `PEMaker`, `Fairness` says that the system schedules the worker thread and that
the GUI thread empties its queues. Nothing makes a user click, close or restart.
Fairness of the worker assumes that what it calls returns: file and registry
functions, wimlib, `dism.exe` (a `dism.exe` that neither writes nor ends blocks
`execute_cmd`, cancel request or not) and the replacement of environment
variables, which does not end for a variable that names itself; when it does end
is what `texts` checks.

## What is proved

`PEMakerProofs` proves, for any set of files, any list of DISM commands and any
set of buttons (`NoPathAssumption`, `DismAssumption`, `UsesAssumption`):

* `TypeCorrect`: `TypeOK`, with the relation of page, worker and choices.
* `PagesWait` and `CancelIsFinal`, from `ControlInv`. The two properties are not
  inductive: that `gonext` excludes a cancelled worker needs to know what the
  queued events say (`EventsFollowState`: an end event is in the queue only when
  the worker is in the state it names) and how the position and the state of the
  worker go together (`WorkerPhase`). A worker step is first shown to be a start,
  an end, or something in between that posts no more than an error
  (`CheckStepShape`, `MakeStepShape`), and the invariant is proved from these.
* `OfferIsBuilt`: `NextMeansBuilt`, from `BuildInv`. It follows the architecture
  of the image from FIFTH_STEP to the ISO, and says of a build that has ended that
  it is built, cancelled, or has its error on the page or in the queue - and, for
  the queue, that the error is before the end (`ErrorFirst`).
* `ExtractorIsOpen`: `IsoOpenWhenUsed`.
* `PromiseKept`: the initial state and every step of `PEMaker` map to those of
  `JobPage`, using that the end of a worker is its last event (`EndIsLast`).

The last section of `PEMakerProofs` adds `FolderInv`, which follows what the files
of the folder were made from along the steps of both workers and the pages between
them:

* `OfferIsFromSelection`: `BuiltFromSelection`. From the check of the source to the
  ISO, each position of a worker has its files made from the selection, unless the
  check page has displayed an error.
* `HeldFolderIsReported` and `StartIsClean`. A folder that could not be rebuilt has
  its error on the page or in the queue before the end, and the page that offers
  the build has handled the end, so it has displayed the error.

`UniqueNamesProofs` (any radix, any limits of the lengths, folders of any size):

* `NumbersStayInRange`, `SiblingsToldApart`, `NamesKeepShape`: `TypeOK`, `Distinct`,
  `KeepsShape`, from `NamesInv`: a name is the one written or a numbered form of
  that one, never a number over a number; every number below the one tried was met
  among the earlier siblings, and those keep their names. The proof showed that
  "only after 255 collisions" is not quite what the code does: a child whose own
  name ends like a numbered one coincides with some of its numbered forms, and
  fewer siblings then use up the numbers. `Distinct` says what does hold: a warning
  is given when every numbered name of the child is taken by an earlier sibling.

`SharedTextsProofs` (any languages, settings and number of characters):
`TextsTyped`, `TextsNeedNoLock`, `TextsInChosenLanguage`: `TypeOK`,
`NeverLoadedWhileRead`, `InChosenLanguage`. The argument is that a page loads what
it will show before it runs a worker, and that the language changes on a page
that runs none.

`WorkerCallsProofs` holds for every image, every list the extractor may make of it,
any number of blocks and parts, and every settings file that leaves `tmp/boot.wim` alone and does not take `tmp/SOFTWARE` out
of the image for the check (`SettingsAssumption`); the `pe_settings.ini` that comes
with the program is such a file. That the deletions of the update come before the
additions is part of the assumption, too, since FIFTH_STEP appends `[Add]` after
`[Delete]`, whatever their order in the file.

* `LateWritesHolds` and `HiveGivenBackHolds`. `LateInv` says that of the calls of
  the extractor and of wimlib at most one is in progress, and that once a block or
  part was written after the request, no call is between its look and its write.
  `ExtractInv` counts the files extracted after the request against the position in
  the loop over the section, and says that none is before the loop and none after a
  request the export has seen, which leaves no wim to extract from. `HiveInv` relates
  what is open and enabled to how far `Load` has got.
* `CallsTyped`, `ListedIsFound`, `ExportedIsThePE` (`TypeOK`,
  `ListedCanBeOpened`, `ExportedIsPE`), from `FilesInv`: what is missing of the file
  being copied is what is left of it; what is listed stands for an entry with the
  same letters; each call of THIRD_STEP rests on what the one before gave, and nobody
  writes `tmp/boot.wim` after SECOND_STEP, so that the number that was found still
  is the number of the PE image when the image is exported and ever after.
* `StepsAsAssumedHolds`, the refinement that lets `PEMaker` take a
  labelled step as one action. `StepInv` says, in addition, that the result of
  SECOND_STEP's call tells whether `tmp/boot.wim` is whole (`Extracting`); that once a
  request is seen, no call the step still waits for can succeed (`Seen`); that
  `tmp/SOFTWARE` comes from SECOND_STEP of `MakePEImage` and from a whole image
  (`Taken`); that the image is whole before an update and after one that succeeds, and
  not before an export has succeeded (`Updating`); and that the hive is in use in
  THIRD_STEP only (`Loading`). Then each action of `WorkerCalls` is shown to be one
  step of `CheckISOImage` or `MakePEImage`, the moment the request is seen, or none.
* `OursIsInHolds`: `OursIsIn`. `AppliedBy` is the image after the first
  commands of the update, by induction over their number: what was added is in and
  nothing is deleted after an addition. From the update on, the image of the call is
  the one the commands were applied to.

`FileSystemWriterProofs` (any limits, trees, names and boot images, and any sector
that holds a record and a volume whose sectors a word can count,
`PartitionAssumption`):

* `IdentsAreUnique`: `UniqueIdents`, for every input (`InputsAssumption`: a tree of
  finitely many nodes, below each other, that have names). From
  `UniqueInv`: a node is pushed on the stack of the walk once, when its parent gets
  its entry, and a number given out is the number of entries written so far
  (`Walk`, `Numbered`), which the integrity descriptor has counted from the tree.
* `EntriesAreRemembered`: `EntriesAsRemembered`, for `Regular` inputs. From
  `EntriesInv`, which `writes` was used to check first: the main descriptors are
  reserved right behind the header and the initial ones, and the header written is
  as long as the header reserved, so the file set is in its sector (`Prepared`);
  from there the stream goes along with `cur_part_sec`, and each node on the stack
  is to be written where the node above it ends with all that is below that one
  (`Following`). This is where the passes have to agree: what `UdfSizeTotal` counts
  of a directory is what writing its entry, identifiers and subdirectories takes.

* `TypeCorrect`: `TypeOK`, for every input, from `TypeInv`: the stacks of the passes
  hold directories of the tree, and the passes that reserve go forwards. Some of it is
  not about types at all: that the counters stay natural numbers needs that a directory
  takes a sector or more (`WriteDirTyped`), that a path table is as long as it was
  counted (`TablesAgree`), and of the constants that a record with the longest name
  leaves room in its sector (`RecordsAssumption`).
* `PlacesAreRecorded`: `PlacedAsRecorded`, for inputs that are `Regular` and that the
  counters hold (`Fits`); `MC_FileSystemWriter` has an `ASSUME` for both of each input
  of `writes`. From `PlacesInv`, together with `TypeInv` and `EntriesInv`. A pass over
  the tree is a `Trace`: the stack and the counter of sectors before each of its
  rounds. While places are reserved, `place` is what the rounds so far have left
  (`DirsUpTo`, `FilesUpTo`); while the same directories and files are written, there is
  one complete trace, the one that reserved, the stack is the one of some round of it,
  and the stream is where the counter was (`DirsAt`, `FilesAt`). That a round leaves
  alone what earlier rounds placed needs that no directory is on top of the stack
  twice (`TopsDiffer`), which is also why there are no more rounds than directories
  and a counter that `Fits` does not wrap (`TraceShort`). That a round of writing takes
  what was reserved is `DirWritten` for a directory's records, which is where
  `Regular` speaks of names and extents, and `Ahead` for the files of a directory,
  which are written child by child while the subdirectories are pushed in between.
  Between the passes the regions have to meet: the header ends where the path tables
  or the file set begin, and the partition's entries end where the tables do
  (`Ending`). A request to cancel may leave one directory half written; from there on
  the invariant says no more of places (`Sure`), as the property does not (`Trusted`).
  The invariant has quantifiers over traces, which TLC cannot enumerate; the run
  checks what it implies.
* `BootPlacesHold`: `BootsFromImage`, for the same inputs. `BootInv` keeps what the
  header stated: in extended mode the places of files of the tree, else the sectors in
  which it wrote the catalog and the images itself. That the files are then there is a
  property of a complete pass: every directory that is not too deep has been on top of
  its stack (`AllTaken`), because a directory is in one other (`ParentKnown`), a round
  pushes all the subdirectories with levels that go up by one (`PushesAll`,
  `TraceLeveled`), and the stack is not empty before they are taken (`OnTopOnce`).
* `WholeFiles`: `FilesAreWhole`, for the same inputs. `WalkInv` says of
  `write_partition_entries` that what has no entry yet waits on the deque, or is below
  something that does, so that an empty deque means an entry of every node
  (`AllVisited`). The extents of a file and its allocation descriptors are each a
  sequence of pieces of one length and a rest (`PiecesCover`), of any number
  (`ExtentsCover`, `DescriptorsCover`).
* `DescriptorsHold`: `DescribedAsPlaced`, for the same inputs. What a volume descriptor
  states is what the sector manager, the path table and the root's place said when it
  was written (`Stated`, `UdfStated`), and none of these changes after; so it has to be
  shown that what it speaks of does get written, and there. `ReachInv` says which
  directories are written: those that are not too deep, and no others, since a
  directory of which the parent is written waits on the stack (`Waiting`) until it is
  (`AllWritten`). `DescInv` adds the regions, the anchors and the end of the image. The
  path table's length and the counts of files and directories are foreseen from the
  tree and compared with what the passes reached. Unlike `PlacesInv`, both can be
  enumerated: TLC found them to be invariants of the instance of `writes`.
* `WritesByOnePlan`: the first state and every step of the writer are those of
  `DiscImage`, for the same inputs. Reserving ends with a plan and nothing stored; a
  pass that writes leaves the plan alone, puts something at its planned place or
  nowhere (`StoredAsPlanned`) and takes nothing back (`StaysStored`); before the last
  anchor all of the plan is stored (`PlanIsStored`), and only from there does the
  writer return RESULT_OK. So of `ImagePromise` only `<>Ended` is left to TLC.

Two things came of the attempt. The bound `Regular` puts on the header did not
count the sectors of the boot catalog, and was short by them; and two definitions
were a `CASE` of guards that overlap, of which TLA+ does not say which is taken, as
the `if` of the code does.

`FileSystemWriterLemmas` compares the passes one operator at a time: a stream that
writes so many bytes and pads ends as many sectors on as `BytesToSec` says, a name
takes the bytes foreseen for it, a directory's identifiers take the sectors its
entry was given. Each pass is a fold, and `FoldLemmas` is what makes a fold
provable. It shows that `FoldLeft` is the value, at the last position, of a function
on the positions, and takes the function itself as an argument where one would
expect an operator; so a sum can be split, bounded, and compared with a stream
by one lemma for all of them.

`IsoPathTableProofs` proves every invariant of `dirs`, for folders of any size and
depth, any names on the disc, equal ones too, and any limits of levels and numbers.
It assumes that everything above an entry of a folder is a folder of it
(`DisksAssumption`), that the largest directory number is positive
(`LimitsAssumption`), and of the names that they are different and that comparing
them is transitive (`NamesAssumption`). The last is about the constants and not the
code: comparing characters is transitive, and `NameOrder` and `LowEnd` have to be a
table of what it gives.

* `TreeIsFileSetHolds`: `TreeIsFileSet`, from `TreeInv`. `Before` is shown to be a
  total order (`BeforeOrders`, `BeforeTransitive`), which has to deal with a name
  that goes on with a character below "/" and so stands between two forms of
  another; the paths then come out once each and in this order (`InOrderIs`). A node
  is the path it was added under (`IsPathTree`), which makes parents, levels and
  lookups those of paths. What is in the tree is what has been taken from the list
  (`Holds`), and of what has been taken a folder comes before its contents.
* `TypeOKHolds`, `NumbersHoldAlways`, `TableIsWrittenHolds`, `ReadersFindFilesHolds`,
  from `TableInv`: what is on the stack is disjoint from the table, comes below it,
  and is all of it that is missing (`Populates`), so at its end the table has the
  directories that are not too deep, `Shallow`, and no others; the rows of smaller
  levels have the places of their parents, which sorting a later level leaves where
  they are (`Sorts`); no level is left out before the sorting ends (`NoneLeft`); and
  a walk has entered, or will enter, what is below a directory it has entered
  (`WalksDown`). `ReadersFindFiles` goes along the names of a path with `FollowIs`: one
  name leads from the number of a directory to the number of the next.

The proof of the last ones changed two definitions that said less, or other, than
the code. `SortByLevel` used one order of equal entries that TLA+ chooses, where
`std::sort` may leave any: the action takes any arrangement of the entries with the
levels in order. `InOrder` is the list in which each path has as many before it as
it has in the set, which is what walking through a `std::set` gives.

Only model-checked, and why:

* liveness (`CancelLeadsBack`, `AllNamed`, `JobEnds`, `ReplacementEnds`, the fairness
  of `JobPage` and `DiscImage`), which is out of the prover's reach;
* `Expanded`, which is about the value of a definition that is recursive in a text:
  induction over data.

## What is not modelled

Texts of messages, progress figures, drawing and the parsing of the settings file,
which is third-party code, change nothing the properties speak of. Volume listing
is pure queries. The readers, the verifier and DVD video of `ckfilesystem` are not
reached from the program, nor are files imported from earlier sessions. The writer's
output never fails: a full disk below the image is left out, so no run says what
becomes of an image whose sectors could not be written. Of the
writer, labels, dates, checksums and the types of El Torito emulation are left out;
so are path names beyond their order and their equality. What a post to a destroyed
page does is undefined; in the model it vanishes, and the process may end at any
moment after. That the page can delete the thread object while the worker is still
leaving the critical section of `SetStateComplete` is below the granularity of the
model and listed as a hazard. A second process is excluded by the single-instance
check of `App.cpp`. A local file that cannot be opened for writing leaks directory
entries of libcdio, which no property is about.

## Plan

1. Done: wizard, workers, folder, crash and restart; the calls of the workers and
   their refinement; texts and variables; the writer with its descriptors, names and
   path tables; `JobPage`, `DiscImage`.
2. Done: every invariant and action property but `Expanded` is proved, and that the
   steps of `PEMaker`, `WorkerCalls` and `FileSystemWriter` are those of `JobPage`, of
   the two workers and of `DiscImage`; lemmas on folds, streams, sums and passes.
3. `JobPage` and `WorkerCalls` together, so that the page's promise rests on the
   calls and not on the steps.
