SPECIFICATION Spec
CONSTANTS
    Configs <- InstanceConfigs
    Peers <- InstancePeers
    Trails <- InstanceTrails
    Parts <- InstanceParts
    BodyLists <- InstanceBodyLists
    Addresses <- InstanceAddresses
    MaxParts = 3
INVARIANTS
    DecodedAsSent
    LongestMatch
    OpenAgreed
