SPECIFICATION Spec
CONSTANTS
  NONE = NONE
  c1 = c1
  c2 = c2
  Clients = {c1, c2}
  Vars <- MCVars
  Refs = {"$DIR", "$GONE"}
  Home <- AppDir
  Alphabet <- MCAlphabet
  BadNames = {"all"}
  Sources <- MCSources
  Options <- MCOptions
  Tables <- MCTables
  MaxMishaps = 1
  Exported = {"web"}
INVARIANTS TypeOK SuccessMeansApplied DependenciesFirst ValidatedStarts ConvertedRunsAlike ExportKeepsService
PROPERTIES RepeatedApplyIsNoop
SYMMETRY Symmetry
CHECK_DEADLOCK FALSE
