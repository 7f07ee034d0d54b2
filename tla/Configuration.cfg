SPECIFICATION Spec
CONSTANTS
  Rigs = {"card", "machine", "snapshot"}
  Cards <- AllCards
  FileTables <- CardTables
  MaxChanges = 3
  Files <- BuiltIn
  Texts <- ShortFiles
  Edits <- Sets
  Fitted <- Adds
  MaxEdits = 2
  CardTypes <- SavedTypes
  MaxSteps = 4
INVARIANTS OverlayIsExact SavedFilesLoad RestoredOrTold
PROPERTY RefusedChangesNothing
CHECK_DEADLOCK FALSE
