SPECIFICATION ContactsSpec
CONSTANTS
    Addresses = {a1, a2}
    Ids = {c1, c2}
    NoContact = none
    Requests = {q1, q2}
    EditStatuses = {"active", "archived"}
    Verdicts = {"valid", "invalid"}
    MaxRequests = 3
SYMMETRY ContactsSymmetry
INVARIANTS
    OptOutLasts
PROPERTIES
    ConsentLasts
CHECK_DEADLOCK FALSE
