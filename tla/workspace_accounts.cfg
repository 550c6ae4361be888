CONSTANTS
    Users = {u1}
    Orgs = {o1}
    Invites = {i1}
    Requests = {r1, r2}
    Operations = {"profile", "leave", "login", "google", "code", "create", "edit"}
    AdminActs = {"user", "organization", "deletions"}
    Nobody = Nobody
    NoOrg = NoOrg
SPECIFICATION WorkspaceSpec
PROPERTIES DeletedOnlyWhenAway DeletedUsersLeave
CHECK_DEADLOCK FALSE
