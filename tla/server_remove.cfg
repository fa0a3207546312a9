CONSTANTS
    c1 = c1
    c2 = c2
    p1 = p1
    p2 = p2
    Cut <- MCCut
    Client = {c1, c2}
    Path = {p1}
    Content = {1}
    MaxTime = 0
    MaxPending = 1
SPECIFICATION Spec
INVARIANT
    RemovedFileExists
CHECK_DEADLOCK FALSE
