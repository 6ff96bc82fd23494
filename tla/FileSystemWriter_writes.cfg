SPECIFICATION Spec
CONSTANTS
  SectorSize = 256
  MaxDirLevel = 3
  MaxDirLevel1999 = 5
  MaxJoliet = 10
  MaxJolietRelaxed = 16
  Root = "root"
  Regions <- MCRegions
  Word = 1048576
  MaxExtent = 768
  LongExtent = 512
  ShortLimit = 1024
  Inputs <- MCInputs
  MaxChanges = 1
INVARIANTS
  TypeOK
  PlacedAsRecorded
  EntriesAsRemembered
  DescribedAsPlaced
  FilesAreWhole
  UniqueIdents
  BootsFromImage
PROPERTIES
  ImagePromise
