SPECIFICATION Spec
CONSTANTS
  Letters <- MCLetters
  Discs <- MCDiscs
  MaxLost = 1
  PENames = {"Windows PE"}
  ImageFiles <- MCImageFiles
  Chunks = 2
  Candidates <- MCCandidates
  CheckExtracts <- MCCheckExtracts
  MakeExtracts <- MCMakeExtracts
  FolderCopies <- MCFolderCopies
  FileCopies <- MCFileCopies
  UpdateCmds <- MCUpdateCmds
INVARIANTS
  TypeOK
  LateWrites
  ListedCanBeOpened
  ExportedIsPE
  OursIsIn
  HiveGivenBack
PROPERTIES
  StepsAsAssumed
  JobEnds
