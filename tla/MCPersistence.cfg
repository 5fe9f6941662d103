SPECIFICATION Spec
CONSTANTS
    Routes = {r1}
    Paths = {p1}
    None = None
    Inode = {n1, n2, n3, n4}
    MaxFaults = 1
    MaxCrashes = 1
INVARIANTS
    TypeOK
    WholeUnlessOverlapped
    SavedUnlessForgotten
PROPERTY
    QuietTableSaved
