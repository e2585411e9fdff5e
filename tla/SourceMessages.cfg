SPECIFICATION Spec
CONSTANTS
  MaxMessage = 2
  MaxText = 2
  Edited = {2}
  OperatorMessage = 2
  Deleted = {2}
  Runs = {r1, r2}
  HistoryLimit = 2
  Texts <- MCTexts
INVARIANTS TypeOK VersionsAnnounced CursorIsStored
PROPERTIES ImplementsFeed WritersEnd
CHECK_DEADLOCK FALSE
