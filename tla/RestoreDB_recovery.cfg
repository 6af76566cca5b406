SPECIFICATION FairSpec
CONSTANTS
    Proc = {p1}
    N = 3
    Overlap = FALSE
    MaxFaults = 3
INVARIANTS OneFaultIsRepaired AbortRestoresOld DatabaseSurvives
PROPERTY MarkerIsResolved
