CONSTANTS
    l1 = l1
    l2 = l2
    r1 = r1
    x = x
    None = None
    Clients <- MCClients
    Presents <- MCPresents
    MaxRejected = 2
    MaxSent = 1

SPECIFICATION FairSpec
INVARIANT
    AttemptsLeaveNothing
PROPERTIES
    CleanEndIsLossless
    AttemptsEnd

CHECK_DEADLOCK FALSE
