SPECIFICATION Spec
CONSTANTS
    MaxAgentSteps = 5
    MaxRouteRepeats = 2
    MaxAnalysisRetries = 1
    MaxCandidates = 1
    Candidates <- StableIds
    Tasks <- FuzzedSource
    InjectedDecisions <- AnyDecision
INVARIANTS
    TypeOK
    WithinPolicy
    FailuresRecorded
    StatusesComeFromVerification
    FindingsGrounded
