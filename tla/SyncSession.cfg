SPECIFICATION FairSpec
CONSTANTS
    a1 = a1
    a2 = a2
    a3 = a3
    b1 = b1
    Proc = {a1, a2, a3, b1}
    NoProc = NoProc
    HostOf <- TwoHosts
    MaxStarts <- OneReused
    MaxFaults = 1
    MaxClock = 2
INVARIANTS
    MutualExclusion
    HolderOwnsLockFile
    WindowIsCurrent
PROPERTIES
    CursorMonotone
    StaleLockRecovered
CHECK_DEADLOCK FALSE
