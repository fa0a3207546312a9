SPECIFICATION Spec
CONSTANTS
    PayloadSize <- MCPayloadSize
    Room <- MCRoom
    MaxSends = 3
    MaxRepeats = 1
CHECK_DEADLOCK FALSE
INVARIANT KnownType
