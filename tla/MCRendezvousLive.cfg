SPECIFICATION FairSpec
CONSTANTS
    c1 = c1
    c2 = c2
    c3 = c3
    c4 = c4
    d1 = d1
    d2 = d2
    k1 = k1
    k2 = k2
    Conns = {c1, c2, c3}
    Ids = {d1, d2}
    Keys = {k1, k2}
    AnyKey = AnyKey
    None = None
    MaxConnections = 3
    PresenceTtl = 1
    Claims <- ListenerAndViewer
PROPERTIES ImplementsMatchmaking RequestsResolve
