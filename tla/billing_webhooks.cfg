CONSTANTS
    Plans = {free, pro}
    DefaultPlan = free
    Wishes = {free, pro, "cancel"}
    Requests = {r1}
    Hooks = {h1, h2}
    MaxSubs = 1
    MaxEvents = 3
SPECIFICATION BillingSpec
INVARIANTS DisagreementExplained NoUnknownSubscription
PROPERTY EventsProcessed
CHECK_DEADLOCK FALSE
