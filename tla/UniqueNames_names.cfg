SPECIFICATION Spec
CONSTANTS
  Folders <- MCFolders
  CharD <- MCCharD
  Digits <- MCDigits
  MaxBase = 4
  MaxExt = 1
  MaxName = 6
  Version = TRUE
  LastNumber = 9
  MinBase = 3
INVARIANTS TypeOK Distinct KeepsShape
PROPERTY AllNamed
