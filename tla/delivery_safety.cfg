CONSTANTS
    r1 = r1
    r2 = r2
    w1 = w1
    w2 = w2
    a1 = a1
    Nobody = Nobody
    Recipients = {r1, r2}
    Workers = {w1, w2}
    Requests = {a1}
    ApiOps = {"pause", "resume", "cancel"}
    Outcomes = {"accepted", "timeout"}
    WindowMayClose = FALSE
    SenderStates <- Ready
    BatchSize = 2
    DailyLimit = 2
    MaxAttempts = 2
    MaxJobs = 1
    MaxRollbacks = 1
SPECIFICATION Spec
SYMMETRY Symmetric
INVARIANTS
    TypeOK
    DuplicateNeedsLostOutcome
    CompletedMeansTerminal
PROPERTIES
    CancelledStaysSilent
    OutcomeIsFinal
    KeepsPromise
CHECK_DEADLOCK FALSE
