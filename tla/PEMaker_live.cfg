SPECIFICATION FairSpec
CONSTANTS
  p1 = p1
  p2 = p2
  NoPath = NoPath
  Paths <- MCPath
  DismCmds <- MCDismShort
  Uses <- MCOneJob
PROPERTIES
  PagePromise
  CancelLeadsBack
