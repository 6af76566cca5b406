SPECIFICATION Spec
CONSTANTS
    Milli = 1
    Device = {d1}
    Cloud = cloud
    Record = {r1}
    NoRecord = none
    Figure = {f1, f2}
    DataFile = {x1}
    Features = {"deletion", "fetch"}
    MaxClock = 5
    MaxEdits = 4
    MaxFaults = 1
SYMMETRY Symmetry
CHECK_DEADLOCK FALSE
INVARIANTS SyncIsLossless
PROPERTY NoFigureLost
