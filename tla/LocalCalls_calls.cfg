CONSTANTS
    Calls = {c1, c2}
    Messages = 2
    Batch = 1
    Budget = 1
    DrainTicks = 1
    TailTicks = 1
SPECIFICATION Spec
INVARIANTS SaveTellsTruth  NoSecondDraft CutHadItsTime
PROPERTY ShutdownEnds
