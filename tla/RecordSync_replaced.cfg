SPECIFICATION Spec
CONSTANTS
    Milli = 1
    Device = {d1}
    Cloud = cloud
    Record = {r1}
    NoRecord = none
    Figure = {f1}
    DataFile = {}
    Features = {"replace"}
    MaxClock = 4
    MaxEdits = 3
    MaxFaults = 1
CHECK_DEADLOCK FALSE
INVARIANT ContentLossless
