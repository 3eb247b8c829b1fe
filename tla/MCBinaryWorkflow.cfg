SPECIFICATION Spec
CONSTANTS
    MaxFunctions = 3
INVARIANTS
    FactsKeptApart
    RecordsAccount
PROPERTIES
    AnalysisEnds
CHECK_DEADLOCK FALSE
