CONSTANTS
    c1 = c1
    c2 = c2
    Calls = {c1, c2}
    Fwd = {c2}
    Reviver = Reviver
    Strikes = 2
    MaxFaults = 1
    MaxClosing = 1
    NONE = NONE
SPECIFICATION Spec
INVARIANTS OneUnstoppedRun SessionIsCurrent NoLostWaiter AtMostOneRetry
PROPERTIES GivenUpCallsAreReleased UserSparesNewerSession
