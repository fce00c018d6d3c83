SPECIFICATION Spec
CONSTANTS
    m1 = m1  r1 = r1  old = old  app = app  adm = adm
    Mcp = {m1}
    Rest = {r1}
    Tokens = {old}
    Claims <- MCClaims
    Targets = {app, adm}
    Keyed = {app}
    AdminOnly = {adm}
    Delegated = {app}
    Ttl = 1
    TtlUnknown = 2
    Wait = 1
    MaxTime = 2
    MaxEvents = 2
    NONE = NONE
INVARIANT ToldIsForgotten
PROPERTIES PresentOnly
