SPECIFICATION Spec
CONSTANTS
    Name <- MCName
    Time <- MCTime
    Root <- MCRoot
    Component <- MCComponent
    TrailingSlash = TRUE
    MaxLength = 2
INVARIANT PathLeadsBack
CHECK_DEADLOCK FALSE
