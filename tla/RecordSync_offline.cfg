SPECIFICATION Spec
CONSTANTS
    Milli = 1
    Device = {d1, d2}
    Cloud = cloud
    Record = {r1}
    NoRecord = none
    Figure = {}
    DataFile = {}
    Features = {}
    MaxClock = 5
    MaxEdits = 3
    MaxFaults = 0
SYMMETRY Symmetry
CHECK_DEADLOCK FALSE
INVARIANT CursorCoversCloud
