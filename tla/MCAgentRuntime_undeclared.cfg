SPECIFICATION Spec
CONSTANTS
    MaxAgentSteps = 4
    MaxRouteRepeats = 2
    MaxAnalysisRetries = 0
    MaxCandidates = 1
    Candidates <- StableIds
    Tasks <- FuzzedSource
    InjectedDecisions <- AnyDecision
INVARIANT RetriesNeverExceeded
