SPECIFICATION Spec
CONSTANTS
    MaxFunctions = 1
INVARIANT ResultPersists
CHECK_DEADLOCK FALSE
