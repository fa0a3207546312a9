CONSTANTS
    c1 = c1
    c2 = c2
    p1 = p1
    p2 = p2
    Cut <- MCCut
    Client = {c1}
    Path = {p1}
    Shared = {}
    Remote = {}
    MaxTime = 2
    MaxEdits = 0
    MaxDeletes = 0
    MaxTimeouts = 1
    MaxCrashes = 0
    MaxRestarts = 0
    Recreate = FALSE
    CoarseClock = FALSE
    MaxTimeOffset = 15
SPECIFICATION Spec
INVARIANTS
    ServerSurvives
CHECK_DEADLOCK FALSE
