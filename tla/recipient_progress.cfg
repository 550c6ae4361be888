CONSTANTS
    a1 = a1
    a2 = a2
    o1 = o1
    Steps <- OneDelay
    StopOn = {"replied"}
    Events = {"replied", "opened", "unsubscribed"}
    Reporters = {a1, a2}
    Operators = {o1}
    Outcomes = {"accepted", "rejected", "uncertain"}
    MaxAttempts = 2
    MaxRegrants = 1
    MaxRollbacks = 0
SPECIFICATION Spec
SYMMETRY Symmetric
INVARIANTS
    StepsInOrder
    FullAllowance
    CompletedMeansTerminal
PROPERTIES
    SuppressedStaysSilent
    StopEventStops
    DelaysAreKept
CHECK_DEADLOCK FALSE
