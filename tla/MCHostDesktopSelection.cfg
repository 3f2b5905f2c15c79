CONSTANTS
    d0 = d0
    d1 = d1
    k1 = k1
    k2 = k2
    None = None
    Displays <- MCDisplays
    First <- d0
    Keys <- MCOneKey
    QueueSize = 2
    DrainLimit = 2
    MaxGeneration = 3

SPECIFICATION Spec
INVARIANT
    SelectionHonoured

CHECK_DEADLOCK FALSE
