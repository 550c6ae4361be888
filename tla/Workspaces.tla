----------------------------- MODULE Workspaces -----------------------------
(***************************************************************************)
(* User accounts, organizations, memberships and invitations, with the two *)
(* cleanup loops that connect them: an organization whose deletion is due  *)
(* takes its members' accounts with it, by an event in memory, and the     *)
(* account of a deleted owner takes the organization with it.              *)
(*                                                                         *)
(* A request reads its rows in one transaction and writes them back whole  *)
(* (BaseRepository.update writes every column), so it is two steps here,   *)
(* and what others committed in between is overwritten.  Cleanup and       *)
(* administration write single columns.                                    *)
(*                                                                         *)
(* The date of an account's deletion comes at any moment after it was set, *)
(* that of an organization's counts as come, and an invitation may expire  *)
(* at any moment.                                                          *)
(***************************************************************************)
EXTENDS Integers, FiniteSets

CONSTANTS
    Users,      \* accounts, each with its own e-mail address
    Orgs,       \* organizations that may ever be created
    Invites,    \* invitations that may ever be sent
    Requests,   \* requests that may be open at once
    Operations, \* the operations users ask for
    AdminActs,  \* the operations administrators ask for
    Nobody, NoOrg

UserOps == {"profile", "leave", "login", "google", "code"}
Logins == {"login", "google", "code"}  \* with the password, with Google, the second factor
OrgOps == {"create", "edit", "close"}
InviteOps == {"invite", "resend", "revoke", "accept", "decline"}

ASSUME WorkspaceAssumption ==
    /\ Nobody \notin Users /\ NoOrg \notin Orgs
    /\ Operations \subseteq UserOps \cup OrgOps \cup InviteOps \cup {"remove"}
    /\ AdminActs \subseteq {"user", "organization", "deletions"}

VARIABLES
    user,       \* sys_auth_users
    sessions,   \* users with a session that is neither revoked nor expired
    org,        \* org_organizations
    member,     \* org_organization_members: one row per user, deleted ones included
    invite,     \* org_organization_invitations
    job,        \* what each open request has read
    cleanup,    \* the organization cleanup task
    cleared,    \* organizations that were ever deleted (observed, not stored)
    deletion    \* of each account (observed, not stored): "off" when nobody wants it or a
                \* login in time called it off, "asked", or "kept" once a login kept the date

workspaceVars == <<user, sessions, org, member, invite, job, cleanup, cleared, deletion>>

\* A deletion is scheduled for a date that is still to come, or that has come.
User == [deleted : BOOLEAN, active : BOOLEAN, scheduled : {"no", "pending", "due"}]

Organization == [owner : Users \cup {Nobody}, status : {"active", "suspended", "deleted"},
                 scheduled : BOOLEAN, deleted : BOOLEAN]

Member == [org : Orgs \cup {NoOrg}, role : {"owner", "admin", "member"}, gone : BOOLEAN]

Invitation == [to : Users \cup {Nobody}, org : Orgs \cup {NoOrg}, role : {"admin", "member"},
               status : {"unused", "pending", "accepted", "declined", "revoked"}]

NewUser == [deleted |-> FALSE, active |-> TRUE, scheduled |-> "no"]
Unused == [owner |-> Nobody, status |-> "active", scheduled |-> FALSE, deleted |-> FALSE]
NoMember == [org |-> NoOrg, role |-> "member", gone |-> FALSE]
NoInvite == [to |-> Nobody, org |-> NoOrg, role |-> "member", status |-> "unused"]
NoRequest == [op |-> "idle", by |-> Nobody, ref |-> Nobody, seen |-> NewUser]

\* The task is idle, or it has selected organizations to delete with the members to name
\* in their events and members to remove, or these events are being published.
NoCleanup == [step |-> "idle", orgs |-> {}, leavers |-> {}, hits |-> [o \in Orgs |-> {}]]

WorkspaceInit ==
    /\ user = [u \in Users |-> NewUser]
    /\ sessions = Users
    /\ org = [o \in Orgs |-> Unused]
    /\ member = [u \in Users |-> NoMember]
    /\ invite = [i \in Invites |-> NoInvite]
    /\ job = [r \in Requests |-> NoRequest]
    /\ cleanup = NoCleanup
    /\ cleared = {}
    /\ deletion = [u \in Users |-> "off"]

-----------------------------------------------------------------------------
(* Guards that several requests share. *)

\* The session middleware.
Signed(u) == u \in sessions /\ user[u].active /\ ~user[u].deleted

Live(u) == member[u].org # NoOrg /\ ~member[u].gone

LiveIn(u, o) == Live(u) /\ member[u].org = o

\* _load_current_organization_context, with the roles that are allowed.
Acts(u, o, roles) ==
    /\ Signed(u) /\ LiveIn(u, o)
    /\ ~org[o].deleted
    /\ member[u].role \in roles

Managers == {"owner", "admin"}

Load(r, op, by, ref, row) ==
    /\ job[r].op = "idle"
    /\ op \in Operations
    /\ job' = [job EXCEPT ![r] = [op |-> op, by |-> by, ref |-> ref, seen |-> row]]
    /\ UNCHANGED <<user, sessions, org, member, invite, cleanup, cleared, deletion>>

Finish(r) == job' = [job EXCEPT ![r] = NoRequest]

-----------------------------------------------------------------------------
(* Accounts. *)

LoadProfile(r, u) == Signed(u) /\ Load(r, "profile", u, u, user[u])

UpdateProfile(r) ==
    /\ job[r].op = "profile"
    /\ user' = [user EXCEPT ![job[r].by] = job[r].seen]
    /\ Finish(r)
    /\ UNCHANGED <<sessions, org, member, invite, cleanup, cleared, deletion>>

\* An owner must delete the organization first.
LoadDeleteAccount(r, u) ==
    /\ Signed(u)
    /\ ~(Live(u) /\ member[u].role = "owner")
    /\ Load(r, "leave", u, u, user[u])

Ask(u) == deletion' = [deletion EXCEPT ![u] = IF @ = "kept" THEN "kept" ELSE "asked"]

DeleteAccount(r) ==
    LET u == job[r].by IN
    /\ job[r].op = "leave"
    /\ user' = [user EXCEPT ![u] = [job[r].seen EXCEPT !.scheduled = "pending"]]
    /\ sessions' = sessions \ {u}
    /\ Ask(u)
    /\ Finish(r)
    /\ UNCHANGED <<org, member, invite, cleanup, cleared>>

\* The Google account is linked already; the code follows a password or a Google login.
LoadLogin(r, u, op) ==
    /\ op \in Logins
    /\ user[u].active /\ ~user[u].deleted
    /\ Load(r, op, u, u, user[u])

\* Mutant: no login cancels a deletion.
AfterLoginKeeping(op, seen) == seen

\* A password cancels a deletion whose date was still to come when the row was read.
AfterLogin(op, seen) ==
    IF op = "login" /\ seen.scheduled = "pending" THEN [seen EXCEPT !.scheduled = "no"] ELSE seen

\* The logins that leave a date behind: after it, with Google, or with the second factor.
Keeps(op, seen) ==
    \/ seen.scheduled = "due"
    \/ seen.scheduled = "pending" /\ op # "login"

WriteLogin(r) ==
    LET u == job[r].by IN
    /\ user' = [user EXCEPT ![u] = AfterLogin(job[r].op, job[r].seen)]
    /\ deletion' = [deletion EXCEPT ![u] =
                       IF @ = "kept" \/ Keeps(job[r].op, job[r].seen) THEN "kept" ELSE "off"]
    /\ Finish(r)
    /\ UNCHANGED <<org, member, invite, cleanup, cleared>>

Login(r) ==
    /\ job[r].op \in Logins
    /\ WriteLogin(r)
    /\ sessions' = sessions \cup {job[r].by}

\* Who has a second factor gets no session yet, but the deletion is cancelled already.
AskSecondFactor(r) ==
    /\ job[r].op = "login" /\ job[r].seen.scheduled = "pending"
    /\ WriteLogin(r)
    /\ UNCHANGED sessions

Logout(u) ==
    /\ Signed(u)
    /\ sessions' = sessions \ {u}
    /\ UNCHANGED <<user, org, member, invite, job, cleanup, cleared, deletion>>

\* Time passes.
DeletionDue(u) ==
    /\ user[u].scheduled = "pending"
    /\ user' = [user EXCEPT ![u].scheduled = "due"]
    /\ UNCHANGED <<sessions, org, member, invite, job, cleanup, cleared, deletion>>

\* process_expired_deletions: one UPDATE, here of one account whose date has come.
ExpireAccount(u) ==
    /\ user[u].scheduled = "due" /\ ~user[u].deleted
    /\ user' = [user EXCEPT ![u].deleted = TRUE]
    /\ UNCHANGED <<sessions, org, member, invite, job, cleanup, cleared, deletion>>

-----------------------------------------------------------------------------
(* Organizations. *)

\* Mutant: a removed member may be inserted again.
MayRejoin(u) == ~Live(u)

\* The unique index of user_id covers removed members as well.
MayInsertMember(u) == member[u].org = NoOrg

OwnsActive(u) ==
    \E o \in Orgs : org[o].owner = u /\ ~org[o].deleted /\ org[o].status = "active"

LoadCreate(r, u, o) ==
    /\ Signed(u)
    /\ ~Live(u)
    /\ org[o].owner = Nobody
    /\ ~OwnsActive(u)
    /\ Load(r, "create", u, o, [Unused EXCEPT !.owner = u])

CreateOrganization(r) ==
    LET u == job[r].by
        o == job[r].ref
    IN  /\ job[r].op = "create"
        /\ org[o].owner = Nobody
        /\ MayInsertMember(u)
        /\ org' = [org EXCEPT ![o] = job[r].seen]
        /\ member' = [member EXCEPT ![u] = [org |-> o, role |-> "owner", gone |-> FALSE]]
        /\ Finish(r)
        /\ UNCHANGED <<user, sessions, invite, cleanup, cleared, deletion>>

LoadEdit(r, u, o) == Acts(u, o, {"owner"}) /\ Load(r, "edit", u, o, org[o])

EditOrganization(r) ==
    /\ job[r].op = "edit"
    /\ org' = [org EXCEPT ![job[r].ref] = job[r].seen]
    /\ Finish(r)
    /\ UNCHANGED <<user, sessions, member, invite, cleanup, cleared, deletion>>

LoadClose(r, u, o) ==
    /\ Acts(u, o, {"owner"})
    /\ ~org[o].scheduled
    /\ Load(r, "close", u, o, org[o])

\* request_organization_deletion.
CloseOrganization(r) ==
    /\ job[r].op = "close"
    /\ org' = [org EXCEPT ![job[r].ref] = [job[r].seen EXCEPT !.scheduled = TRUE]]
    /\ Finish(r)
    /\ UNCHANGED <<user, sessions, member, invite, cleanup, cleared, deletion>>

-----------------------------------------------------------------------------
(* Members and invitations. *)

\* Mutant: owners are removed like other members.
MayRemoveAnyone(a, v) == a # v /\ (member[v].role = "admin" => member[a].role = "owner")

\* Not oneself, not the owner, and an admin only by the owner.
MayRemove(a, v) ==
    /\ a # v
    /\ member[v].role # "owner"
    /\ member[v].role = "admin" => member[a].role = "owner"

LoadRemove(r, a, v, o) ==
    /\ Acts(a, o, Managers)
    /\ LiveIn(v, o)
    /\ MayRemove(a, v)
    /\ Load(r, "remove", a, v, member[v])

RemoveMember(r) ==
    /\ job[r].op = "remove"
    /\ member' = [member EXCEPT ![job[r].ref] = [job[r].seen EXCEPT !.gone = TRUE]]
    /\ Finish(r)
    /\ UNCHANGED <<user, sessions, org, invite, cleanup, cleared, deletion>>

\* update_member_role, by the owner of an active organization.
ChangeRole(a, v, o, role) ==
    /\ Acts(a, o, {"owner"}) /\ org[o].status = "active"
    /\ LiveIn(v, o)
    /\ member[v].role \notin {"owner", role}
    /\ member' = [member EXCEPT ![v].role = role]
    /\ UNCHANGED <<user, sessions, org, invite, job, cleanup, cleared, deletion>>

\* Neither a member nor invited already.
LoadInvite(r, a, o, i, v, role) ==
    /\ Acts(a, o, Managers)
    /\ invite[i].status = "unused"
    /\ ~LiveIn(v, o)
    /\ \A k \in Invites : ~(invite[k].to = v /\ invite[k].org = o /\ invite[k].status = "pending")
    /\ Load(r, "invite", a, i, [to |-> v, org |-> o, role |-> role, status |-> "pending"])

LoadInvitation(r, op, by, i) ==
    /\ invite[i].status = "pending"
    /\ Load(r, op, by, i, invite[i])

LoadManaged(r, op, a, i) ==
    /\ op \in {"resend", "revoke"}
    /\ invite[i].org # NoOrg
    /\ Acts(a, invite[i].org, Managers)
    /\ LoadInvitation(r, op, a, i)

\* Declining needs the link only.
LoadDecline(r, i) == LoadInvitation(r, "decline", invite[i].to, i)

LoadAccept(r, u, i) ==
    /\ Signed(u)
    /\ invite[i].to = u
    /\ ~Live(u)
    /\ LoadInvitation(r, "accept", u, i)

\* The status a request leaves the invitation with.
InviteStatus == [invite |-> "pending", resend |-> "pending", revoke |-> "revoked",
                 decline |-> "declined", accept |-> "accepted"]

SaveInvitation(r) ==
    invite' = [invite EXCEPT ![job[r].ref] = [job[r].seen EXCEPT !.status = InviteStatus[job[r].op]]]

\* The e-mail of an invitation is part of the transaction: no e-mail, no commit.
WriteInvitation(r) ==
    /\ job[r].op \in {"invite", "resend", "revoke", "decline"}
    /\ job[r].op = "invite" => invite[job[r].ref].status = "unused"
    /\ SaveInvitation(r)
    /\ Finish(r)
    /\ UNCHANGED <<user, sessions, org, member, cleanup, cleared, deletion>>

AcceptInvitation(r) ==
    LET u == job[r].by IN
    /\ job[r].op = "accept"
    /\ MayInsertMember(u)
    /\ SaveInvitation(r)
    /\ member' = [member EXCEPT ![u] =
                     [org |-> job[r].seen.org, role |-> job[r].seen.role, gone |-> FALSE]]
    /\ Finish(r)
    /\ UNCHANGED <<user, sessions, org, cleanup, cleared, deletion>>

\* A request ends without its commit: refused by a later check or the unique index, an
\* error, a lost connection.
AbandonRequest(r) ==
    /\ job[r].op # "idle"
    /\ Finish(r)
    /\ UNCHANGED <<user, sessions, org, member, invite, cleanup, cleared, deletion>>

-----------------------------------------------------------------------------
(* Cleanup. *)

MembersOf(o) == {u \in Users : LiveIn(u, o)}

SelectOrganizations(orgs, leavers) ==
    /\ cleanup.step = "idle"
    /\ orgs # {} \/ leavers # {}
    /\ cleanup' = [step |-> "select", orgs |-> orgs, leavers |-> leavers,
                   hits |-> [o \in Orgs |-> IF o \in orgs THEN MembersOf(o) ELSE {}]]
    /\ UNCHANGED <<user, sessions, org, member, invite, job, cleared, deletion>>

\* process_requested_organization_deletions selects what is due.
SelectDue ==
    \E due \in SUBSET {o \in Orgs : org[o].scheduled /\ ~org[o].deleted} :
       SelectOrganizations(due, {})

\* Mutant: deleted owners are left to the administrators.
SelectDeletedMembers ==
    SelectOrganizations({}, {u \in Users : user[u].deleted /\ Live(u) /\ member[u].role # "owner"})

\* process_deleted_user_organization_cleanup: a deleted owner takes the organization with
\* him, other deleted users leave theirs.
SelectDeletedUsers ==
    LET lost == {u \in Users : user[u].deleted /\ Live(u)}
        owners == {u \in lost : member[u].role = "owner"}
    IN  SelectOrganizations({member[u].org : u \in owners}, lost \ owners)

\* Each UPDATE is limited to rows that are not deleted yet.
CommitCleanup ==
    /\ cleanup.step = "select"
    /\ org' = [o \in Orgs |->
                 IF o \in cleanup.orgs /\ ~org[o].deleted
                 THEN [org[o] EXCEPT !.status = "suspended", !.deleted = TRUE] ELSE org[o]]
    /\ member' = [u \in Users |->
                    IF Live(u) /\ (member[u].org \in cleanup.orgs \/ u \in cleanup.leavers)
                    THEN [member[u] EXCEPT !.gone = TRUE] ELSE member[u]]
    /\ invite' = [i \in Invites |->
                    IF invite[i].org \in cleanup.orgs /\ invite[i].status = "pending"
                    THEN [invite[i] EXCEPT !.status = "revoked"] ELSE invite[i]]
    /\ cleanup' = [cleanup EXCEPT !.step = "publish"]
    /\ cleared' = cleared \cup cleanup.orgs
    /\ UNCHANGED <<user, sessions, job, deletion>>

\* OrganizationDeletedEvent: the auth module deletes the accounts it names.
PublishDeleted(o) ==
    /\ cleanup.step = "publish"
    /\ cleanup.hits[o] # {}
    /\ user' = [u \in Users |-> IF u \in cleanup.hits[o]
                                THEN [user[u] EXCEPT !.deleted = TRUE] ELSE user[u]]
    /\ cleanup' = [cleanup EXCEPT !.hits[o] = {}]
    /\ UNCHANGED <<sessions, org, member, invite, job, cleared, deletion>>

\* The task is done, or it failed or the process crashed: events not yet published are lost.
EndCleanup ==
    /\ cleanup.step # "idle"
    /\ cleanup' = NoCleanup
    /\ UNCHANGED <<user, sessions, org, member, invite, job, cleared, deletion>>

-----------------------------------------------------------------------------
(* Administration. *)

\* update_user_status.
SetUserActive(u, active) ==
    /\ "user" \in AdminActs
    /\ user[u].active # active
    /\ user' = [user EXCEPT ![u].active = active]
    /\ sessions' = IF active THEN sessions ELSE sessions \ {u}
    /\ UNCHANGED <<org, member, invite, job, cleanup, cleared, deletion>>

\* delete_user.
DeleteUser(u) ==
    /\ "deletions" \in AdminActs
    /\ ~user[u].deleted
    /\ user' = [user EXCEPT ![u] = [deleted |-> TRUE, active |-> FALSE, scheduled |-> "due"]]
    /\ sessions' = sessions \ {u}
    /\ Ask(u)
    /\ UNCHANGED <<org, member, invite, job, cleanup, cleared>>

\* update_organization_status.
SetOrganizationStatus(o, status) ==
    /\ "organization" \in AdminActs
    /\ org[o].owner # Nobody /\ org[o].status # status
    /\ org' = [org EXCEPT ![o].status = status]
    /\ UNCHANGED <<user, sessions, member, invite, job, cleanup, cleared, deletion>>

\* delete_organization: members and invitations stay as they are.
DeleteOrganization(o) ==
    /\ "deletions" \in AdminActs
    /\ org[o].owner # Nobody /\ ~org[o].deleted
    /\ org' = [org EXCEPT ![o].status = "deleted", ![o].deleted = TRUE, ![o].scheduled = TRUE]
    /\ cleared' = cleared \cup {o}
    /\ UNCHANGED <<user, sessions, member, invite, job, cleanup, deletion>>

-----------------------------------------------------------------------------

StartRequest(r) ==
    \/ \E u \in Users :
          \/ LoadProfile(r, u) \/ LoadDeleteAccount(r, u)
          \/ \E op \in Logins : LoadLogin(r, u, op)
          \/ \E o \in Orgs : LoadCreate(r, u, o) \/ LoadEdit(r, u, o) \/ LoadClose(r, u, o)
          \/ \E v \in Users, o \in Orgs :
                \/ LoadRemove(r, u, v, o)
                \/ \E i \in Invites, role \in {"admin", "member"} : LoadInvite(r, u, o, i, v, role)
          \/ \E i \in Invites :
                LoadAccept(r, u, i) \/ \E op \in {"resend", "revoke"} : LoadManaged(r, op, u, i)
    \/ \E i \in Invites : LoadDecline(r, i)

CompleteRequest(r) ==
    \/ UpdateProfile(r) \/ DeleteAccount(r) \/ Login(r) \/ AskSecondFactor(r)
    \/ CreateOrganization(r) \/ EditOrganization(r) \/ CloseOrganization(r)
    \/ RemoveMember(r) \/ WriteInvitation(r) \/ AcceptInvitation(r)
    \/ AbandonRequest(r)

Cleanup ==
    \/ SelectDue \/ SelectDeletedUsers \/ CommitCleanup \/ EndCleanup
    \/ \E o \in Orgs : PublishDeleted(o)

Administer ==
    \/ \E u \in Users : DeleteUser(u) \/ \E active \in BOOLEAN : SetUserActive(u, active)
    \/ \E o \in Orgs :
          DeleteOrganization(o) \/ \E s \in {"active", "suspended"} : SetOrganizationStatus(o, s)

WorkspaceNext ==
    \/ \E r \in Requests : StartRequest(r) \/ CompleteRequest(r)
    \/ \E u \in Users : Logout(u) \/ DeletionDue(u) \/ ExpireAccount(u)
    \/ \E u, v \in Users, o \in Orgs, role \in {"admin", "member"} : ChangeRole(u, v, o, role)
    \/ Cleanup
    \/ Administer

\* Both loops run every five minutes, and not every run of them fails.
WorkspaceFairness ==
    /\ \A u \in Users : WF_workspaceVars(ExpireAccount(u))
    /\ SF_workspaceVars(SelectDeletedUsers)
    /\ SF_workspaceVars(CommitCleanup)
    /\ WF_workspaceVars(EndCleanup)

WorkspaceSpec == WorkspaceInit /\ [][WorkspaceNext]_workspaceVars /\ WorkspaceFairness

-----------------------------------------------------------------------------
(* Properties. *)

WorkspaceTypeOK ==
    /\ user \in [Users -> User]
    /\ sessions \subseteq Users
    /\ org \in [Orgs -> Organization]
    /\ member \in [Users -> Member]
    /\ invite \in [Invites -> Invitation]
    /\ \A r \in Requests :
          \/ job[r].op = "idle"
          \/ job[r].op \in UserOps /\ job[r].by \in Users /\ job[r].seen \in User
          \/ job[r].op \in OrgOps /\ job[r].ref \in Orgs /\ job[r].seen \in Organization
          \/ job[r].op \in InviteOps /\ job[r].ref \in Invites /\ job[r].seen \in Invitation
          \/ job[r].op = "remove" /\ job[r].ref \in Users /\ job[r].seen \in Member
    /\ cleanup.orgs \subseteq Orgs /\ cleanup.leavers \subseteq Users
    /\ cleanup.hits \in [Orgs -> SUBSET Users]
    /\ cleared \subseteq Orgs
    /\ deletion \in [Users -> {"off", "asked", "kept"}]

\* Whatever requests, role changes, cleanup runs and administrators do at once, the owner of
\* an organization that was never deleted is a member of it, as its owner, until his account
\* is deleted (organization_member_domain_service.remove_member, update_member_role,
\* organization_deletion_cleanup_task).
OwnerPresent ==
    \A o \in Orgs :
       LET u == org[o].owner IN
       u # Nobody /\ o \notin cleared =>
           member[u] = [org |-> o, role |-> "owner", gone |-> FALSE]

\* The event of a deleted organization never deletes the account of somebody who works for
\* an organization that exists, however late it is handled: whoever it names cannot have
\* joined another one (on_organization_deleted_soft_delete_users).
EventSparesOthers ==
    [][\A o \in Orgs : PublishDeleted(o) =>
          \A u \in cleanup.hits[o] : Live(u) => org[member[u].org].deleted]_workspaceVars

\* Whoever logs in with the password before the date calls the deletion off, whatever rows
\* overlapping requests have read and write back later: no account is deleted by its schedule
\* that nobody has asked to delete since. Excepted are accounts where a login kept the date,
\* which logins with Google, with the second factor or after the date do (user_entity:
\* scheduled_deletion_at; login_user_usecase, delete_account_usecase,
\* process_expired_deletions).
DeletedOnlyWhenAway ==
    [][\A u \in Users : ExpireAccount(u) => deletion[u] # "off"]_workspaceVars

\* A deleted account leaves its organization some day, with the organization when it is the
\* owner's, although each cleanup run may fail (process_deleted_user_organization_cleanup).
DeletedUsersLeave == []<>(\A u \in Users : user[u].deleted => ~Live(u))

=============================================================================
