SPECIFICATION StudioSpec
CONSTANTS
  Commands <- MCCommands
  Earlier <- MCEarlier
  ProjectFiles <- Projects
  Sessions <- MCSessions
  MaxResults = 9
  MaxFaults = 1
  None = None
INVARIANTS CommandsMatchCameras ProgressMatchesModel NothingLostUnasked
PROPERTIES SaveStoresShownModel SuccessIsStored
CHECK_DEADLOCK FALSE
