SPECIFICATION Spec
CONSTANTS
    Proc = {p1}
    N = 2
    Overlap = FALSE
    MaxFaults = 2
INVARIANT AllOrNothing
