SPECIFICATION Spec
CONSTANTS
    Contents = {x}
    Ids = {i, j}
    Clients = {c1, c2}
    Permits = 1
    None = None
INVARIANTS
    SharedOnce
    BodyHonest
PROPERTY
    PermitsReturn
