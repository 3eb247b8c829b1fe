SPECIFICATION Spec
CONSTANTS
    MaxSeeds = 2
    MutationCount = 2
    ReturnCodes <- Codes
    Outputs = {"none", "trace"}
INVARIANTS
    TypeOK
    CrashesCounted
    NoTargetLeft
    CampaignComplete
PROPERTIES
    ExecutionEndsUnlessHeld
CHECK_DEADLOCK FALSE
