SPECIFICATION Spec
INVARIANTS NoLostWake
PROPERTIES ChangeSeen AsksAgain
CHECK_DEADLOCK FALSE
