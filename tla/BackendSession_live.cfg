CONSTANTS
    c1 = c1
    Calls = {c1}
    Fwd = {}
    Reviver = Reviver
    Strikes = 2
    MaxFaults = 1
    MaxClosing = 1
    NONE = NONE
SPECIFICATION FairSpec
PROPERTIES EveryCallReturns PassReturns Recovers GivenUpSessionCloses
