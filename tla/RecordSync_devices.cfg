SPECIFICATION Spec
CONSTANTS
    Milli = 1
    Device = {d1, d2}
    Cloud = cloud
    Record = {r1}
    NoRecord = none
    Figure = {f1}
    DataFile = {}
    Features = {"remove", "web", "busy"}
    MaxClock = 3
    MaxEdits = 3
    MaxFaults = 1
SYMMETRY Symmetry
CHECK_DEADLOCK FALSE
INVARIANTS CursorCoversLocal FigureRowsHaveContent
PROPERTY NeverOverwritesNewer
