SPECIFICATION Spec
CONSTANTS
    PayloadSize <- MCPayloadSize
    Room <- MCRoom
    MaxSends = 3
    MaxRepeats = 1
INVARIANTS LinkTypeOK FramedTypeKnown WholeMessages InOrder
PROPERTIES ImplementsConnection Arrives
CHECK_DEADLOCK FALSE
