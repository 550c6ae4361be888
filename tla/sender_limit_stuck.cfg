SPECIFICATION SenderFairSpec
CONSTANTS
    t1 = t1
    t2 = t2
    Raced = Raced
    Txns <- MCOneTxn
    Workers <- MCOneTxn
    Limit = 2
    BatchSize = 2
    MaxAttempts = 2
    MaxGrants = 1
    MaxRequests = 2
    MaxSent = 4
    MaxUnheard = 1
CHECK_DEADLOCK FALSE
PROPERTY
    DailyCapacityReturns
