SPECIFICATION MCSpec
CONSTANTS
    a = a
    b = b
    k1 = k1
    k2 = k2
    Jobs = {a, b}
    Listeners = {b}
    Resolvers = 2
    Addresses = 1
    MaxRuns = 2
    MaxSaid = 4
    Heartbeat = 2
    AckLimit = 7
    Ttl = 7
    MaxDelay = 2
    MaxBytes = 2
    MaxPings = 1
    TcpRoom = 1
    WireRoom = 1
    StallLimit = 1
    DeviceIds = {1, 2}
    Keys = {k1, k2}
    Zero = Zero
    Unpinned = Unpinned
    None = None
    FrameRoom = 2
    MaxSends = 2
    MaxDisturbances = 1
    MaxQuestions = 2
    MaxAnswers = 1
INVARIANTS JobsAreAccounted PresenceHolds BytesArrive ChannelIsSound
PROPERTIES Delivers RouteEnds
CHECK_DEADLOCK FALSE
