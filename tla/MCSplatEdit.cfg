SPECIFICATION EditSpec
CONSTANTS
  Clouds <- MCClouds
  Sessions <- MCSessions
  UndoLimit = 3
  MaxSimplify = 2
  MaxUses = 5
INVARIANTS UnsavedIsSeen
PROPERTIES HistoryRestores FailedEditIsUndone
CHECK_DEADLOCK FALSE
