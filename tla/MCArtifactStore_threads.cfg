SPECIFICATION Spec
CONSTANTS
    t1 = t1
    t2 = t2
    t3 = t3
    p1 = p1
    Threads = {t1, t2, t3}
    Processes <- OneProcess
    ProcessOf <- Together
    ArtifactIds = {a, b}
    Results = {r, s}
    NoResult = NoResult
    NoThread = NoThread
    MaxCalls = 4
    MaxCrashes = 1
INVARIANTS
    SavedIsListed
    IndexNeverDangles
PROPERTIES
    ImplementsCatalog
    CallsEnd
CHECK_DEADLOCK FALSE
