CONSTANTS
    Tool = {t1}
    RestCall = {r1}
    Bridge = {b1}
    Panel = {}
    Parts = 2
    MaxEvents = 2
    NONE = NONE
SPECIFICATION FairSpec
INVARIANTS OneMintPerEvent RefusedTwiceNeedsTwo
PROPERTIES WorkingTokenStays RepeatNeedsEvent EveryCallReturns
CHECK_DEADLOCK FALSE
