SPECIFICATION Spec
CONSTANTS
  p1 = p1
  p2 = p2
  NoPath = NoPath
  Paths <- MCPaths
  DismCmds <- MCDismCmds
  Uses <- MCSources
INVARIANTS
  TypeOK
  IsoOpenWhenUsed
  BuiltFromSelection
  HeldFolderReported
PROPERTIES
  NavigationWaits
