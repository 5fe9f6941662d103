SPECIFICATION Spec
CONSTANTS
    Requests = {r1}
    Main = Main
    Sessions = {s1, s2}
    Captures = {c1}
    None = None
    Disconnects = TRUE
    PeersSend = FALSE
    FlushMayFail = FALSE
INVARIANTS
    HealthWhenEstablished
