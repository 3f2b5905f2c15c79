\* Three runs, of two peers, one after the other or at once, with every failure.
SPECIFICATION Spec
CONSTANTS
    r1 = r1
    r2 = r2
    r3 = r3
    p1 = p1
    p2 = p2
    t1 = t1
    t2 = t2
    Torn = Torn
    None = None
    Runs <- MCRuns
    Events <- MCEvents
    Peers <- MCPeers
    PeerOf <- MCPeerOf
    Transfers <- MCTransfers
SYMMETRY Renamed
INVARIANTS SessionsAreSound ChainIsSound LogAccountsForWork
PROPERTY KeepsItsPromises
CHECK_DEADLOCK FALSE
