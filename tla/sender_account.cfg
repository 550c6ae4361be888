SPECIFICATION SenderFairSpec
CONSTANTS
    t1 = t1
    t2 = t2
    Raced = Raced
    Txns <- MCTxns
    Workers <- MCOneTxn
    Limit = 2
    BatchSize = 2
    MaxAttempts = 2
    MaxGrants = 2
    MaxRequests = 2
    MaxSent = 4
    MaxUnheard = 1
CHECK_DEADLOCK FALSE
INVARIANTS
    DisconnectLasts
    LimitKeptBySerialUse
PROPERTIES
    PendingSettles
    RevokedIsNoticed
