CONSTANTS
    Tool = {t1, t2}
    RestCall = {}
    Bridge = {}
    Panel = {}
    Parts = 1
    MaxEvents = 2
    NONE = NONE
SPECIFICATION Spec
SYMMETRY CallSymmetry
INVARIANTS AnnouncedChangeRemints
CHECK_DEADLOCK FALSE
