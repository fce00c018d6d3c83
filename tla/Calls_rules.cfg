SPECIFICATION CallSpec
CONSTANTS
    sim = sim  ext = ext  rep = rep  hub = hub  jobs = jobs  arc = arc  wiki = wiki
    Backends = {sim, ext, rep, hub}
    Sites = {jobs, arc, wiki, hub}
    Targets = {sim, ext, rep, hub, jobs, arc, wiki}
    Keyed = {sim, arc, jobs}
    AdminOnly = {hub}
    Delegated = {sim}
    Connected = {ext, rep}
    Declared = {ext}
    Identity = {hub}
    Tools <- MCTools
    Reads <- MCReads
    Front = {"cancel_run"}
    Back = {"fan_control"}
    Exact = {"trash_report"}
    Tasks = {"review_task_next"}
    Staging = {rep}
    Siblings = {ext}
    Core <- MCCore
    Area <- MCArea
    PerUser = {jobs}
    Inject = {arc, wiki}
    Opened = {wiki}
    Creds <- MCCreds
    Worlds <- MCWorlds
    NONE = NONE
INVARIANTS NarrowStaysNarrow NoDetour NobodyIsBorrowed ListedIsOpen SameRoad
