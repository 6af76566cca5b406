SPECIFICATION Spec
CONSTANTS
    Milli = 1
    Device = {d1, d2}
    Cloud = cloud
    Chat = {c1, c2}
    NoChat = none
    Source = {s1, s2}
    MaxClock = 5
    MaxImports = 2
    MaxToggles = 2
    MaxFaults = 1
SYMMETRY Symmetry
CHECK_DEADLOCK FALSE
INVARIANTS ChatsAgree CloudRowHasObject RawFollowsItems
