SPECIFICATION Spec
CONSTANTS
  None = None
  Unit = 8
  FirstKey = 16
  Ids <- MCIds
  Dates = {1}
  Values = {1}
  FirstRecords <- MCFirstRecords
  Requests = {r1, r2}
  PageLimit = 1
  MaxRequests = 2
  MaxCommands = 1
  MaxTicks = 1
SYMMETRY Symmetry
INVARIANTS
  NoLostUpdate
  FigureRowHasFile
  PagesAreComplete
  PollMissesNothing
  NextToReference
CHECK_DEADLOCK FALSE
