SPECIFICATION MCSpec
CONSTANTS
    None = None
    Tasks = {"host", "auto", "remote", "chat"}
    Kinds = {"granted", "desktop", "other", "mismatch"}
    MaxEvents = 2
    MaxConnections = 3
    MaxRetries = 2
    QueueSize = 2
    MaxInputs = 2
    MaxFrames = 1
INVARIANTS WindowAgrees ListenerAnswers ViewerIsSound
PROPERTIES ReleasedOrEnded StopEnds
CHECK_DEADLOCK FALSE
