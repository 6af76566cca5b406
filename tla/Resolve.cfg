SPECIFICATION PairSpec
CONSTANTS
    Milli = 2
    MaxTime = 4
INVARIANTS
    AgreesWithReference
    DroppedNeverWins
