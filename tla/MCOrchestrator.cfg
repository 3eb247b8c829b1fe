SPECIFICATION Spec
CONSTANTS
    TaskIds = {t1, t2}
    MaxEvidence = 2
    MaxFailedStarts = 2
INVARIANTS
    ContextAgrees
    ReleasedIsTerminal
    OutcomeIsVisible
PROPERTIES
    ImplementsLifecycle
CHECK_DEADLOCK FALSE
