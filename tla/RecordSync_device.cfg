SPECIFICATION Spec
CONSTANTS
    Milli = 1
    Device = {d1}
    Cloud = cloud
    Record = {r1}
    NoRecord = none
    Figure = {f1}
    DataFile = {x1}
    Features = {"alt", "remove", "replace", "deletion", "web"}
    MaxClock = 4
    MaxEdits = 4
    MaxFaults = 1
CHECK_DEADLOCK FALSE
INVARIANTS UndisturbedSyncIsLossless CloudDataFileHasObject CursorCovers
