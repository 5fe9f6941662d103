SPECIFICATION Spec
CONSTANTS
    Afi <- MCAfi
    UnicastAfi <- MCUnicastAfi
    Ipv6Afi <- MCIpv6Afi
    Key = {"p", "q", "r"}
    Label <- MCLabel
    None = None
    Updates <- MCUpdates
    ForeignClears = TRUE
    MaxSequence = 6
INVARIANTS
    TypeOK
    IndexAgrees
    CountersAgree
    AnalyticsAgree
    UpdateApplied
    MirrorAgrees
PROPERTY
    ImplementsRib
