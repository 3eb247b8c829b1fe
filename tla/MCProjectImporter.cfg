SPECIFICATION Spec
CONSTANTS
    Imports = {i1, i2}
    Shared = shared
    Members = 2
INVARIANTS
    TargetsExclusive
    ReturnedComplete
    LeftoversAreManaged
PROPERTIES
    ImportsEnd
CHECK_DEADLOCK FALSE
