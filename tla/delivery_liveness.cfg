CONSTANTS
    r1 = r1
    r2 = r2
    w1 = w1
    a1 = a1
    Nobody = Nobody
    Recipients = {r1, r2}
    Workers = {w1}
    Requests = {a1}
    ApiOps = {"cancel"}
    Outcomes = {"accepted", "rejected", "unwired"}
    WindowMayClose = FALSE
    SenderStates <- Changing
    BatchSize = 2
    DailyLimit = 1
    MaxAttempts = 2
    MaxJobs = 1
    MaxRollbacks = 1
SPECIFICATION FairSpec
INVARIANT WithinDailyLimit
 
CHECK_DEADLOCK FALSE
