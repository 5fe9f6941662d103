SPECIFICATION Spec
CONSTANTS
    Routes = {r1}
    Paths = {p1}
    None = None
    Inode = {n1, n2, n3, n4}
    MaxFaults = 0
    MaxCrashes = 0
INVARIANT
    FileWhole
