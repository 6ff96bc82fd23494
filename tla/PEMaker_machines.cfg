SPECIFICATION Spec
CONSTANTS
  p1 = p1
  p2 = p2
  NoPath = NoPath
  Paths <- MCPath
  DismCmds <- MCDismShort
  Uses <- MCMachines
INVARIANTS
  NextMeansBuilt
  BuildStartsClean
  CancelNeverGoesOn
