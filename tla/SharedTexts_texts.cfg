SPECIFICATION Spec
CONSTANTS
  Locales = {"en-us", "ja-jp"}
  DefaultLocale = "en-us"
  UpperOf <- MCUpperOf
  CurrentDir <- MCCurrentDir
  MaxText = 8
  Machines <- MCMachines
  Settings <- MCSettings
INVARIANTS
  TypeOK
  NeverLoadedWhileRead
  Expanded
PROPERTIES
  InChosenLanguage
  ReplacementEnds
