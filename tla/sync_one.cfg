CONSTANTS
    c1 = c1
    c2 = c2
    p1 = p1
    p2 = p2
    Cut <- MCCut
    Client = {c1}
    Path = {p1, p2}
    Shared = {p1}
    Remote = {}
    MaxTime = 4
    MaxEdits = 2
    MaxDeletes = 2
    MaxTimeouts = 1
    MaxCrashes = 1
    MaxRestarts = 1
    Recreate = FALSE
    CoarseClock = FALSE
    MaxTimeOffset = 15
SPECIFICATION Spec
INVARIANTS
    SyncTypeOK
    SameTimeSameContent
    UndeletedSurvives
PROPERTIES
    Converges
    NoticedStaysDeleted
CHECK_DEADLOCK FALSE
