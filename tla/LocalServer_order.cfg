SPECIFICATION Spec
CONSTANTS
  None = None
  Unit = 8
  FirstKey = 16
  Ids <- MCIds
  Dates = {1}
  Values = {1}
  FirstRecords <- MCFirstOne
  Requests = {r1}
  PageLimit = 1
  MaxRequests = 3
  MaxCommands = 1
  MaxTicks = 0
INVARIANT
  FallbackNeverUsed
CHECK_DEADLOCK FALSE
