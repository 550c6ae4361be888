CONSTANTS
    o1 = o1
    o2 = o2
    Steps <- TwoMails
    StopOn = {}
    Events = {}
    Reporters = {}
    Operators = {o1, o2}
    Outcomes = {"accepted", "timeout", "unwired"}
    MaxAttempts = 2
    MaxRegrants = 2
    MaxRollbacks = 1
SPECIFICATION FairSpec
INVARIANTS
    ResendsExplained
PROPERTIES
    EventuallyDone
CHECK_DEADLOCK FALSE
