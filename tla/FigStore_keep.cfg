CONSTANTS
    s1 = s1
    Stores = {s1}
    o1 = o1  o2 = o2
    Owners = {o1, o2}
    Sizes = {1}
    Refs = {1,2}
    OwnerQuota = 1
    OwnerMax = 1
    TotalCap = 1
    TTL = 2
    Hour = 0
    MaxNow = 2
    NONE = NONE
SYMMETRY FigSymmetry
SPECIFICATION Spec
INVARIANTS LimitsHold TableAgreesWithDisk
