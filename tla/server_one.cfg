CONSTANTS
    c1 = c1
    c2 = c2
    p1 = p1
    p2 = p2
    Cut <- MCCut
    Client = {c1}
    Path = {p1, p2}
    Content = {1}
    MaxTime = 1
    MaxPending = 2
SPECIFICATION Spec
INVARIANTS
    TypeOK
    NoAbort
    AcknowledgedHolds
    WholeAtRest
    ListPersisted
PROPERTIES
    MarksSurvive
    ImplementsStore
    Answered
