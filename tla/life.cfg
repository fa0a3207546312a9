SPECIFICATION Spec
CONSTANTS
    Conn = {a, b}
    Descriptor = {4, 5}
    CleanupEvery = 2
    MaxEmpty = 2
INVARIANTS LifeTypeOK NoneAfterClose LiveNotDisplaced
PROPERTIES CloseReturns GoneIsReleased
CHECK_DEADLOCK FALSE
