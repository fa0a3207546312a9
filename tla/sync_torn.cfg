CONSTANTS
    c1 = c1
    c2 = c2
    p1 = p1
    p2 = p2
    Cut <- MCCut
    Client = {c1, c2}
    Path = {p1}
    Shared = {p1}
    Remote = {}
    MaxTime = 2
    MaxEdits = 1
    MaxDeletes = 0
    MaxTimeouts = 0
    MaxCrashes = 0
    MaxRestarts = 0
    Recreate = FALSE
    CoarseClock = FALSE
    MaxTimeOffset = 15
SPECIFICATION Spec
PROPERTIES
    Converges
CHECK_DEADLOCK FALSE
