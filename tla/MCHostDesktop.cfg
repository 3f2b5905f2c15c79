CONSTANTS
    d0 = d0
    d1 = d1
    k1 = k1
    k2 = k2
    None = None
    Displays <- MCDisplays
    First <- d0
    Keys <- MCKeys
    QueueSize = 2
    DrainLimit = 1
    MaxGeneration = 2

SPECIFICATION FairSpec
INVARIANTS
    TypeOK
    InputComesBack
    HeldInOneGeneration
PROPERTIES
    InputIsMeant
    HostResolves

CHECK_DEADLOCK FALSE
