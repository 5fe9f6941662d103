SPECIFICATION Spec
CONSTANTS
    Requests = {r1}
    Main = Main
    Sessions = {s1, s2}
    Captures = {}
    None = None
    Disconnects = TRUE
    PeersSend = FALSE
    FlushMayFail = FALSE
INVARIANTS
    NoOrphan
PROPERTY
    ShutdownExits
