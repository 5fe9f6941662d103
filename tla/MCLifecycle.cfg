SPECIFICATION Spec
CONSTANTS
    Requests = {r1, r2}
    Main = Main
    Sessions = {s1, s2}
    Captures = {c1, c2}
    None = None
    Disconnects = FALSE
    PeersSend = TRUE
    FlushMayFail = TRUE
INVARIANTS
    TypeOK
    SingleSession
    HealthHonest
    NoGhostRoutes
    DataMatchControl
    CaptureHonest
    ToldTheTruth
    CleanExit
PROPERTIES
    Answered
    StopEnds
