CONSTANTS
    l1 = l1
    l2 = l2
    r1 = r1
    x = x
    None = None
    Clients <- MCClients
    Presents <- MCPresents
    MaxRejected = 3
    MaxSent = 1

SPECIFICATION Spec
INVARIANT
    SurvivesAbandonedAttempts

CHECK_DEADLOCK FALSE
