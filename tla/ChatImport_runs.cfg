SPECIFICATION Spec
CONSTANTS
  None = None
  Files <- MCFiles
  Sids <- MCSids
  FirstContents <- MCFirstContents
  BatchSize = 2
  MaxSize = 6
  MaxWrites = 2
  MaxFaults = 2
  MaxUserOps = 2
  MaxEvents = 3
INVARIANTS
  OneText
  ReclaimedIsKept
  SearchIsComplete
PROPERTIES
  Converges
