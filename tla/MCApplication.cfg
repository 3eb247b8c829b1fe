SPECIFICATION Spec
CONSTANTS
    Applications = {app}
    Shared = shared
    Capabilities = {parse}
    Routes = {planner}
    OtherNames = {other}
    Malformed = malformed
    Provided = {provided}
    NoAgent = noAgent
    MaxBatch = 2
    MaxBound = 1
INVARIANTS
    TypeOK
    ApplicationIsWhole
    InvocationsReachBound
PROPERTIES
    RegistersAllOrNothing
CHECK_DEADLOCK FALSE
