SPECIFICATION Spec
CONSTANTS
  None = None
  Me = Me
  Other = Other
  Users <- MCUsers
  TicksPerMilli = 2
  Workloads <- MCWorkloads
  MaxCalls = 3
INVARIANTS
  BackendsAgree
  ReferencesHold
PROPERTIES
  EveryChangeIsSeen
  OthersUntouched
  LocalImplementsContract
  CloudImplementsContract
CHECK_DEADLOCK FALSE
