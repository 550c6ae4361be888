SPECIFICATION ContentSpec
CONSTANTS
    p1 = p1
    p2 = p2
    x1 = x1
    x2 = x2
    People = {p1, p2}
    Lists = {l1, l2}
    NoList = none
    Txns = {t1}
    Overlap = FALSE
    MaxMails = 3
    MaxLost = 1
    Tmpls = {x1, x2}
    NoTemplate = notemplate
    MaxTexts = 2
SYMMETRY ContentSymmetry
INVARIANTS
    AudienceOfTheList
    MailedOnce
    LaunchedKeepsTemplate
    OneText
PROPERTIES
    ImmutableAudience
    SilentAfterTheEnd
CHECK_DEADLOCK FALSE
