SPECIFICATION TaskRunSpec
CONSTANTS
    MaxAgentSteps = 8
    MaxRouteRepeats = 2
    MaxAnalysisRetries = 2
    MaxCandidates = 2
    Candidates <- StableIds
    Tasks <- Targets
    InjectedDecisions <- NoDecisions
    TaskId = task
    MaxEvidence = 12
    MaxFailedStarts = 1
INVARIANTS
    RetriesAccounted
    OnlyReportAfterFailure
    ReportIsCurrent
    FuzzAuthorized
    RoutesAreLegal
    CompletedIsClean
PROPERTIES
    RunEnds
CHECK_DEADLOCK FALSE
