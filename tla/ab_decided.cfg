SPECIFICATION ABFairSpec
CONSTANTS
    r1 = r1
    r3 = r3
    a = a
    b = b
    Recipients = {r1, r3}
    Variants = {a, b}
    NoVariant = none
    Buckets <- MCBuckets
    Nobody = nobody
    Batches = {w1}
    Operators = {o}
    Evaluators = {e}
    Launchers = {l}
    EarlyChoice = FALSE
    MinSample = 1
    MaxAttempts = 2
    MaxRollbacks = 0
INVARIANTS
    ReleasedTogether
    HeldBackGetWinner
    OneCandidate
    MetricsOfSample
PROPERTIES
    TestDecided
CHECK_DEADLOCK FALSE
