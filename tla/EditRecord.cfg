SPECIFICATION Spec
CONSTANTS
  None = None
  Assets <- MCAssets
  DataFiles <- MCDataFiles
  MaxCommands = 2
  MaxFaults = 3
INVARIANTS
  FailedCommandIsUndone
  SuccessIsExact
  NothingIsLost
CHECK_DEADLOCK FALSE
