SPECIFICATION Spec
CONSTANTS
    Name <- MCName
    Time <- MCTime
    Root <- MCRoot
    Component <- MCComponent
    TrailingSlash = FALSE
    MaxLength = 2
INVARIANTS FilesArrive ListIsReread DeletedListArrives PathLeadsBack
CHECK_DEADLOCK FALSE
