SPECIFICATION Spec
CONSTANTS
    ConfigHolds = {0, 3, 6}
    PeerHolds = {0, 4}
    OtherKinds = {"keepalive", "update", "notification"}
    None = None
    MaxInbox = 3
INVARIANTS
    TypeOK
    FramesIntact
    HandshakeFirst
    DeadPeerNoticed
    ExpiryDeserved
    PeerKeptAlive
PROPERTY
    HandshakeEnds
