SPECIFICATION MCSpec
CONSTANTS
    m1 = m1
    m2 = m2
    t1 = t1
    t2 = t2
    None = None
    Monitors = {m1, m2}
    First = m1
    Window = 2
    Budget = 2
    MaxSize = 2
    MaxPictures = 3
    MaxGeneration = 2
    Asked = {200000, 1700000, 2000000, 16000000, 60000000}
    Deliveries = {0, 80, 250, 400, 700}
    Works = {5000, 30000, 50000}
    Grain = 20000
    Texts = {t1, t2}
    Copiers = {"host", "viewer"}
    MaxCopies = 3
    MaxToggles = 2
    MaxBusy = 1
    MaxEvents = 2
    MaxMessages = 1
    MaxFormats = 2
INVARIANTS StreamIsSound OncePerCopy MirrorsHost
PROPERTIES RatesAreEarned NoEcho MediaSettles
CHECK_DEADLOCK FALSE
