SPECIFICATION Spec
CONSTANTS
    Streams = {c1}
    HistoryEvents = 3
    HistoryBytes = 4
    RingSize = 2
    Sizes <- MixedEvents
    MaxEvents = 4
    None = None
INVARIANTS
    TypeOK
    NothingMissed
PROPERTY
    EndsUnlessLate
