SPECIFICATION Spec
CONSTANTS
    Conn = {a, b}
    Descriptor = {4, 5}
    CleanupEvery = 2
    MaxEmpty = 2
PROPERTY AcceptedIsServed
CHECK_DEADLOCK FALSE
