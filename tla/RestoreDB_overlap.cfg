SPECIFICATION Spec
CONSTANTS
    Proc = {p1, p2}
    N = 2
    Overlap = TRUE
    MaxFaults = 0
SYMMETRY Symmetry
INVARIANT AllOrNothing
