SPECIFICATION PageSpec
CONSTANTS
    Streams = {c1}
    HistoryEvents = 1
    HistoryBytes = 1
    RingSize = 2
    Sizes <- SmallEvents
    MaxEvents = 4
    None = None
INVARIANT
    PageSettles
