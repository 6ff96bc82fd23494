SPECIFICATION Spec
CONSTANTS
  Root <- MCRoot
  NameOrder <- MCNameOrder
  LowEnd <- MCLowEnd
  Disks <- MCDisks
  IsoName <- MCIsoName
  JolietName <- MCJolietName
  MaxDirLevel = 3
  MaxId = 4
  VideoTs = "VIDEO_TS"
INVARIANT VideoFirst
