SPECIFICATION Spec
CONSTANTS
    Milli = 1
    Device = {d1}
    Cloud = cloud
    Record = {r1}
    NoRecord = none
    Figure = {}
    DataFile = {}
    Features = {"web", "overlap"}
    MaxClock = 5
    MaxEdits = 4
    MaxFaults = 0
CHECK_DEADLOCK FALSE
PROPERTY MostRecentActionWins
