CONSTANTS
    c1 = c1
    c2 = c2
    u1 = u1
    b1 = b1
    Calls = {c1, c2}
    Backends = {b1}
    Conn = {b1}
    Users = {u1}
    Queries = {1,2}
    CacheMax = 2
    MaxBytes = 3
    ItemMax = 2
    MaxData = 1
    MaxConn = 2
    MaxSpec = 1
    NONE = NONE
SPECIFICATION Spec
SYMMETRY CacheSymmetry
CONSTRAINT FewChanges
INVARIANTS OnlyOverlapGoesStale WithinBounds
