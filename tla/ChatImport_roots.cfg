SPECIFICATION Spec
CONSTANTS
  None = None
  Files <- MCOverlapping
  Sids <- MCSids
  FirstContents <- MCOneFile
  BatchSize = 2
  MaxSize = 6
  MaxWrites = 2
  MaxFaults = 2
  MaxUserOps = 2
  MaxEvents = 3
INVARIANT AppendedOnce
