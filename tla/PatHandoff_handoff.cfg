SPECIFICATION Spec
CONSTANTS
    Cooldown = 2
    MaxTime = 4
    MaxPats = 3
    MaxEvents = 1
    NONE = NONE
INVARIANT WishStays
PROPERTIES KeepsCustody OneExchangePerRest
