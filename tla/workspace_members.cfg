CONSTANTS
    Users = {u1, u2}
    Orgs = {o1, o2}
    Invites = {i1}
    Requests = {r1, r2}
    Operations = {"create", "close", "invite", "accept", "remove", "resend", "revoke", "decline"}
    AdminActs = {"deletions"}
    Nobody = Nobody
    NoOrg = NoOrg
INIT WorkspaceInit
NEXT WorkspaceNext
INVARIANT OwnerPresent
PROPERTIES EventSparesOthers
SYMMETRY Sym
CHECK_DEADLOCK FALSE
