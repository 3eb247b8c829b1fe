SPECIFICATION Spec
CONSTANTS
    Order <- PathOrder
    Projects <- SmallProjects
    RawLimits = {0, 1}
    Unreadable <- NoneOrPackage
    MaxFileSize = 2
    MaxEdits = 2
INVARIANTS
    TypeOK
    EntriesAccounted
    EdgesGrounded
PROPERTIES
    ScanReturns
CHECK_DEADLOCK FALSE
