CONSTANTS
    Static = {s}
    Hub = {h}
    Declared = {d}
    Urls = {u1}
    ByAccount = {d}
    Closed = {h}
    Offers <- MCOffers
    Taken = {}
    Family = {h}
    StaleRounds = 1
    MissDrop = 2
    MaxEvents = 3
    NONE = NONE
SPECIFICATION FairSpec
INVARIANTS DeclaredIsGuarded NoOldList
PROPERTIES ToolsStay NamesStay AppComesBack
