-------------------------- MODULE Workspaces_proofs --------------------------
(***************************************************************************)
(* Proofs about Workspaces, for any number of users, organizations,        *)
(* invitations and requests, and for all operations together.              *)
(***************************************************************************)
EXTENDS Workspaces, TLAPS

-----------------------------------------------------------------------------
(* The inductive invariant *)

RowsAreTyped ==
    /\ org \in [Orgs -> Organization]
    /\ member \in [Users -> Member]
    /\ invite \in [Invites -> Invitation]
    /\ job = [r \in Requests |-> job[r]]
    /\ cleanup \in [step : {"idle", "select", "publish"}, orgs : SUBSET Orgs,
                   leavers : SUBSET Users, hits : [Orgs -> SUBSET Users]]

\* Organizations that members and invitations refer to have been created.
Created(o) == o \in Orgs /\ org[o].owner # Nobody

RowsReferToCreated ==
    /\ \A u \in Users : member[u].org # NoOrg => Created(member[u].org)
    /\ \A i \in Invites : invite[i].org # NoOrg => Created(invite[i].org)

SentInvitesHaveOrgs ==
    \A i \in Invites : invite[i].status # "unused" => invite[i].org # NoOrg

\* What a request has read may be old, but not so old that writing it back moves an
\* organization to another owner, a member to another organization, or removes an owner.
RequestsKnow(r) ==
    LET j == job[r] IN
    /\ j.op = "create" => /\ j.by \in Users /\ j.ref \in Orgs
                          /\ j.seen \in Organization /\ j.seen.owner = j.by
    /\ j.op \in {"edit", "close"} => /\ Created(j.ref) /\ j.seen \in Organization
                                     /\ j.seen.owner = org[j.ref].owner
    /\ j.op = "remove" => /\ j.ref \in Users /\ j.seen \in Member
                          /\ member[j.ref].org # NoOrg
                          /\ j.seen.org = member[j.ref].org /\ j.seen.role # "owner"
                          /\ member[j.ref].role # "owner"
    /\ j.op \in InviteOps => /\ j.ref \in Invites /\ j.seen \in Invitation
                             /\ Created(j.seen.org)
    /\ j.op = "accept" => j.by \in Users

\* Whom the cleanup removes is no owner; whom an event will name has lost his membership
\* with the organization.
CleanupKnows ==
    /\ \A u \in cleanup.leavers : member[u].org # NoOrg /\ member[u].role # "owner"
    /\ \A o \in Orgs : \A u \in cleanup.hits[o] :
          /\ cleanup.step # "idle"
          /\ cleanup.step = "select" => o \in cleanup.orgs /\ member[u].org = o
          /\ cleanup.step = "publish" => member[u].org # NoOrg /\ member[u].gone

WorkspaceInv ==
    /\ RowsAreTyped
    /\ RowsReferToCreated
    /\ SentInvitesHaveOrgs
    /\ \A r \in Requests : RequestsKnow(r)
    /\ CleanupKnows
    /\ OwnerPresent

LEMMA WorkspaceInvStarts == WorkspaceInit => WorkspaceInv
<1> SUFFICES ASSUME WorkspaceInit PROVE WorkspaceInv
  OBVIOUS
<1>1. RowsAreTyped
  BY DEF WorkspaceInit, RowsAreTyped, Organization, Member, Invitation, Unused, NoMember,
         NoInvite, NoCleanup
<1>2. RowsReferToCreated
  BY DEF WorkspaceInit, RowsReferToCreated, NoMember, NoInvite
<1>3. \A r \in Requests : RequestsKnow(r)
  BY DEF WorkspaceInit, RequestsKnow, NoRequest, InviteOps
<1>4. CleanupKnows
  BY DEF WorkspaceInit, CleanupKnows, NoCleanup
<1>5. OwnerPresent
  BY DEF WorkspaceInit, OwnerPresent, Unused
<1>6. SentInvitesHaveOrgs
  BY DEF WorkspaceInit, SentInvitesHaveOrgs, NoInvite
<1> QED
  BY <1>1, <1>2, <1>3, <1>4, <1>5, <1>6 DEF WorkspaceInv

-----------------------------------------------------------------------------
(* What no step does *)

\* A created organization keeps its owner; a member keeps the organization, is no owner
\* unless he was, and once removed stays removed.
RowsGrow ==
    /\ \A o \in Orgs : org[o].owner # Nobody => org'[o].owner = org[o].owner
    /\ \A u \in Users : member[u].org # NoOrg =>
          /\ member'[u].org = member[u].org
          /\ member[u].role # "owner" => member'[u].role # "owner"
          /\ member[u].gone => member'[u].gone

JobsEnd == \A r \in Requests : job'[r] = job[r] \/ job'[r] = NoRequest

CreatedNext(o) == o \in Orgs /\ org'[o].owner # Nobody

LEMMA CreatedStays ==
    ASSUME RowsGrow
    PROVE  \A o \in Orgs : Created(o) => CreatedNext(o)
BY DEF RowsGrow, Created, CreatedNext

\* Steps that end requests and let rows grow leave the knowledge of the others true.
LEMMA JobsStayTrue ==
    ASSUME WorkspaceInv, RowsGrow, JobsEnd, NEW r \in Requests
    PROVE  RequestsKnow(r)'
<1>1. CASE job'[r] = NoRequest
  BY <1>1 DEF RequestsKnow, NoRequest, InviteOps
<1>2. CASE job'[r] = job[r]
  <2>1. RequestsKnow(r)
    BY DEF WorkspaceInv
  <2>2. job[r].op = "create" => RequestsKnow(r)'
    BY <1>2, <2>1 DEF RequestsKnow, InviteOps
  <2>3. job[r].op \in {"edit", "close"} => RequestsKnow(r)'
    BY <1>2, <2>1, CreatedStays DEF RequestsKnow, InviteOps, RowsGrow, Created, CreatedNext
  <2>4. job[r].op = "remove" => RequestsKnow(r)'
    BY <1>2, <2>1 DEF RequestsKnow, InviteOps, RowsGrow
  <2>5. job[r].op \in InviteOps => RequestsKnow(r)'
    BY <1>2, <2>1, CreatedStays DEF RequestsKnow, InviteOps, Created, CreatedNext
  <2>6. job[r].op \notin {"create", "edit", "close", "remove"} \cup InviteOps => RequestsKnow(r)'
    BY <1>2 DEF RequestsKnow, InviteOps
  <2> QED
    BY <2>2, <2>3, <2>4, <2>5, <2>6
<1> QED
  BY <1>1, <1>2 DEF JobsEnd

LEMMA CleanupStaysTrue ==
    ASSUME WorkspaceInv, RowsGrow, UNCHANGED cleanup
    PROVE  CleanupKnows'
<1>1. CleanupKnows /\ RowsAreTyped
  BY DEF WorkspaceInv
<1>2. \A u \in cleanup'.leavers : member'[u].org # NoOrg /\ member'[u].role # "owner"
  BY <1>1 DEF CleanupKnows, RowsAreTyped, RowsGrow
<1>3. ASSUME NEW o \in Orgs, NEW u \in cleanup.hits[o]
      PROVE  /\ cleanup.step # "idle"
             /\ cleanup.step = "select" => o \in cleanup.orgs /\ member'[u].org = o
             /\ cleanup.step = "publish" => member'[u].org # NoOrg /\ member'[u].gone
  <2>1. u \in Users
    BY <1>1 DEF RowsAreTyped
  <2> QED
    BY <1>1, <2>1, WorkspaceAssumption DEF CleanupKnows, RowsGrow
<1> QED
  BY <1>1, <1>2, <1>3 DEF CleanupKnows

\* Steps that touch no row of organizations and end requests at most.
LEMMA RowsUntouched ==
    ASSUME WorkspaceInv, UNCHANGED <<org, member, invite, cleanup, cleared>>, JobsEnd,
           job' = [r \in Requests |-> job'[r]]
    PROVE  WorkspaceInv'
<1>1. RowsGrow
  BY DEF RowsGrow
<1>2. RowsAreTyped' /\ RowsReferToCreated' /\ SentInvitesHaveOrgs' /\ OwnerPresent'
  BY DEF WorkspaceInv, RowsAreTyped, RowsReferToCreated, SentInvitesHaveOrgs, Created,
         OwnerPresent
<1> QED
  BY <1>1, <1>2, JobsStayTrue, CleanupStaysTrue DEF WorkspaceInv

LEMMA FinishEnds ==
    ASSUME WorkspaceInv, NEW r \in Requests, Finish(r)
    PROVE  JobsEnd /\ job' = [q \in Requests |-> job'[q]]
BY DEF Finish, JobsEnd, WorkspaceInv, RowsAreTyped

\* A request reads: nothing else changes.
Reads(r) ==
    /\ job' = [job EXCEPT ![r] = job'[r]]
    /\ UNCHANGED <<org, member, invite, cleanup, cleared>>

LEMMA LoadReads ==
    ASSUME WorkspaceInv, NEW r \in Requests, NEW op, NEW by, NEW ref, NEW row,
           Load(r, op, by, ref, row)
    PROVE  /\ job'[r] = [op |-> op, by |-> by, ref |-> ref, seen |-> row]
           /\ Reads(r)
BY DEF Load, Reads, WorkspaceInv, RowsAreTyped

\* Reading is safe when the reader knows what it has to.
LEMMA ReadIsSafe ==
    ASSUME WorkspaceInv, NEW r \in Requests, Reads(r), RequestsKnow(r)'
    PROVE  WorkspaceInv'
<1>1. /\ \A q \in Requests \ {r} : job'[q] = job[q]
      /\ job' = [q \in Requests |-> job'[q]]
  BY DEF WorkspaceInv, RowsAreTyped, Reads
<1>2. \A q \in Requests \ {r} : RequestsKnow(q)'
  BY <1>1 DEF WorkspaceInv, RequestsKnow, Created, Reads
<1>3. /\ RowsAreTyped' /\ RowsReferToCreated' /\ SentInvitesHaveOrgs'
      /\ OwnerPresent' /\ CleanupKnows'
  BY <1>1 DEF WorkspaceInv, RowsAreTyped, RowsReferToCreated, SentInvitesHaveOrgs,
              Created, OwnerPresent, CleanupKnows, Reads
<1> QED
  BY <1>1, <1>2, <1>3 DEF WorkspaceInv

-----------------------------------------------------------------------------
(* Requests read *)

\* Who may act in an organization acts in one that was created.
LEMMA ActsInCreated ==
    ASSUME WorkspaceInv, NEW u \in Users, NEW o, LiveIn(u, o)
    PROVE  Created(o) /\ member[u].org = o /\ o # NoOrg
BY DEF LiveIn, Live, WorkspaceInv, RowsReferToCreated

LEMMA StartIsSafe ==
    ASSUME WorkspaceInv, NEW r \in Requests, StartRequest(r)
    PROVE  WorkspaceInv'
<1>0. RowsAreTyped /\ RowsReferToCreated
  BY DEF WorkspaceInv
<1>1. ASSUME NEW u \in Users, NEW op \in UserOps, NEW row, Load(r, op, u, u, row)
      PROVE WorkspaceInv'
  <2>1. job'[r] = [op |-> op, by |-> u, ref |-> u, seen |-> row] /\ Reads(r)
    BY <1>1, LoadReads
  <2>2. RequestsKnow(r)'
    BY <2>1 DEF RequestsKnow, InviteOps, UserOps
  <2> QED
    BY <2>1, <2>2, ReadIsSafe
<1>2. ASSUME NEW u \in Users, NEW o \in Orgs, LoadCreate(r, u, o) PROVE WorkspaceInv'
  <2> DEFINE row == [Unused EXCEPT !.owner = u]
  <2>1. row \in Organization /\ row.owner = u
    BY DEF Unused, Organization
  <2>2. Load(r, "create", u, o, row)
    BY <1>2 DEF LoadCreate
  <2> HIDE DEF row
  <2>3. /\ job'[r] = [op |-> "create", by |-> u, ref |-> o, seen |-> row]
        /\ Reads(r)
    BY <2>2, LoadReads
  <2>4. RequestsKnow(r)'
    BY <2>1, <2>3 DEF RequestsKnow, InviteOps
  <2> QED
    BY <2>3, <2>4, ReadIsSafe
<1>3. ASSUME NEW u \in Users, NEW o \in Orgs, NEW op \in {"edit", "close"},
             Acts(u, o, {"owner"}), Load(r, op, u, o, org[o])
      PROVE WorkspaceInv'
  <2>1. Created(o) /\ org[o] \in Organization
    BY <1>0, <1>3, ActsInCreated DEF Acts, RowsAreTyped
  <2>2. /\ job'[r] = [op |-> op, by |-> u, ref |-> o, seen |-> org[o]]
        /\ Reads(r)
    BY <1>3, LoadReads
  <2>3. RequestsKnow(r)'
    BY <2>1, <2>2 DEF RequestsKnow, InviteOps, Created, Reads
  <2> QED
    BY <2>2, <2>3, ReadIsSafe
<1>4. ASSUME NEW u \in Users, NEW v \in Users, NEW o \in Orgs, LoadRemove(r, u, v, o)
      PROVE WorkspaceInv'
  <2>1. Load(r, "remove", u, v, member[v])
    BY <1>4 DEF LoadRemove
  <2>2. member[v] \in Member /\ member[v].org # NoOrg /\ member[v].role # "owner"
    BY <1>0, <1>4, ActsInCreated DEF LoadRemove, MayRemove, RowsAreTyped
  <2>3. /\ job'[r] = [op |-> "remove", by |-> u, ref |-> v, seen |-> member[v]]
        /\ Reads(r)
    BY <2>1, LoadReads
  <2>4. RequestsKnow(r)'
    BY <2>2, <2>3 DEF RequestsKnow, InviteOps, Reads
  <2> QED
    BY <2>3, <2>4, ReadIsSafe
<1>5. ASSUME NEW u, NEW i \in Invites, NEW op \in InviteOps, op = "accept" => u \in Users,
             NEW row \in Invitation, Created(row.org), Load(r, op, u, i, row)
      PROVE WorkspaceInv'
  <2>1. /\ job'[r] = [op |-> op, by |-> u, ref |-> i, seen |-> row]
        /\ Reads(r)
    BY <1>5, LoadReads
  <2>2. RequestsKnow(r)'
    BY <1>5, <2>1 DEF RequestsKnow, InviteOps, Created, Reads
  <2> QED
    BY <2>1, <2>2, ReadIsSafe
<1>6. ASSUME NEW u \in Users, NEW v \in Users, NEW o \in Orgs, NEW i \in Invites,
             NEW role \in {"admin", "member"}, LoadInvite(r, u, o, i, v, role)
      PROVE WorkspaceInv'
  <2> DEFINE row == [to |-> v, org |-> o, role |-> role, status |-> "pending"]
  <2>1. Load(r, "invite", u, i, row)
    BY <1>6 DEF LoadInvite
  <2>2. row \in Invitation /\ Created(row.org)
    BY <1>6, ActsInCreated DEF Invitation, LoadInvite, Acts
  <2> HIDE DEF row
  <2> QED
    BY <1>5, <2>1, <2>2 DEF InviteOps
<1>7. ASSUME NEW u, NEW i \in Invites, NEW op \in InviteOps, op = "accept" => u \in Users,
             LoadInvitation(r, op, u, i)
      PROVE WorkspaceInv'
  <2>1. invite[i] \in Invitation /\ Created(invite[i].org)
    BY <1>7 DEF LoadInvitation, WorkspaceInv, SentInvitesHaveOrgs, RowsAreTyped,
                RowsReferToCreated
  <2> QED
    BY <1>5, <1>7, <2>1 DEF LoadInvitation
<1>8. ASSUME NEW u \in Users, LoadProfile(r, u) \/ LoadDeleteAccount(r, u) PROVE WorkspaceInv'
  BY <1>1, <1>8 DEF LoadProfile, LoadDeleteAccount, UserOps
<1>9. ASSUME NEW u \in Users, NEW op \in Logins, LoadLogin(r, u, op)
      PROVE WorkspaceInv'
  BY <1>1, <1>9 DEF LoadLogin, Logins, UserOps
<1>10. ASSUME NEW u \in Users, NEW i \in Invites, LoadAccept(r, u, i) PROVE WorkspaceInv'
  BY <1>7, <1>10 DEF LoadAccept, InviteOps
<1>11. ASSUME NEW u \in Users, NEW i \in Invites, NEW op \in {"resend", "revoke"},
              LoadManaged(r, op, u, i)
       PROVE WorkspaceInv'
  BY <1>7, <1>11 DEF LoadManaged, InviteOps
<1>12. ASSUME NEW i \in Invites, LoadDecline(r, i) PROVE WorkspaceInv'
  BY <1>7, <1>12 DEF LoadDecline, InviteOps
<1>13. ASSUME NEW u \in Users, NEW o \in Orgs, LoadEdit(r, u, o) \/ LoadClose(r, u, o)
       PROVE WorkspaceInv'
  BY <1>3, <1>13 DEF LoadEdit, LoadClose
<1> QED
  BY <1>2, <1>4, <1>6, <1>8, <1>9, <1>10, <1>11, <1>12, <1>13 DEF StartRequest

-----------------------------------------------------------------------------
(* Requests write *)

\* What is left to show of a step that changes rows.
LEMMA RowsChanged ==
    ASSUME WorkspaceInv, RowsGrow, JobsEnd, job' = [q \in Requests |-> job'[q]],
           UNCHANGED cleanup,
           org' \in [Orgs -> Organization], member' \in [Users -> Member],
           invite' \in [Invites -> Invitation],
           RowsReferToCreated', SentInvitesHaveOrgs', OwnerPresent'
    PROVE  WorkspaceInv'
<1>1. RowsAreTyped'
  BY DEF WorkspaceInv, RowsAreTyped
<1> QED
  BY <1>1, JobsStayTrue, CleanupStaysTrue DEF WorkspaceInv

\* A new member is in no organization so far; he owns the one he creates.
LEMMA NewMember ==
    ASSUME WorkspaceInv, NEW u \in Users, member[u].org = NoOrg, NEW o \in Orgs,
           NEW role \in {"owner", "admin", "member"},
           member' = [member EXCEPT ![u] = [org |-> o, role |-> role, gone |-> FALSE]],
           UNCHANGED <<cleanup, cleared>>,
           \/ UNCHANGED org /\ Created(o)
           \/ /\ org[o].owner = Nobody
              /\ \E row \in Organization : row.owner = u /\ org' = [org EXCEPT ![o] = row]
              /\ role = "owner"
    PROVE  /\ RowsGrow /\ OwnerPresent'
           /\ org' \in [Orgs -> Organization] /\ member' \in [Users -> Member]
           /\ \A v \in Users : member'[v].org # NoOrg => CreatedNext(member'[v].org)
<1>0. /\ org \in [Orgs -> Organization] /\ member \in [Users -> Member]
      /\ RowsReferToCreated /\ OwnerPresent
  BY DEF WorkspaceInv, RowsAreTyped
<1>1. org' \in [Orgs -> Organization] /\ member' \in [Users -> Member]
  BY <1>0 DEF Member
<1>2. /\ member'[u] = [org |-> o, role |-> role, gone |-> FALSE]
      /\ \A v \in Users \ {u} : member'[v] = member[v]
  BY <1>0
<1>3. \A k \in Orgs \ {o} : org'[k] = org[k]
  BY <1>0
<1>4. org[o].owner # Nobody => org'[o] = org[o]
  BY <1>0
<1>5. org[o].owner = Nobody => org'[o].owner = u /\ role = "owner" /\ u # Nobody
  BY <1>0, WorkspaceAssumption DEF Created
<1>6. RowsGrow
  BY <1>2, <1>3, <1>4 DEF RowsGrow
<1>7. \A k \in Orgs : Created(k) => CreatedNext(k)
  BY <1>6, CreatedStays
<1>8. \A v \in Users : member'[v].org # NoOrg => CreatedNext(member'[v].org)
  <2>1. CreatedNext(o)
    BY <1>4, <1>5 DEF Created, CreatedNext
  <2> QED
    BY <1>0, <1>2, <1>7, <2>1 DEF RowsReferToCreated, Created
<1>9. OwnerPresent'
  <2> SUFFICES ASSUME NEW k \in Orgs, org'[k].owner # Nobody, k \notin cleared
               PROVE  member'[org'[k].owner] = [org |-> k, role |-> "owner", gone |-> FALSE]
    BY DEF OwnerPresent
  <2>1. CASE org[k].owner = Nobody
    BY <1>2, <1>3, <1>5, <2>1
  <2>2. CASE org[k].owner # Nobody
    <3>1. org'[k].owner = org[k].owner
      BY <1>6, <2>2 DEF RowsGrow
    <3>2. member[org[k].owner] = [org |-> k, role |-> "owner", gone |-> FALSE]
      BY <1>0, <2>2 DEF OwnerPresent
    <3>3. org[k].owner \in Users
      BY <1>0, <2>2 DEF Organization
    <3>4. org[k].owner # u
      BY <3>2, WorkspaceAssumption
    <3> QED
      BY <1>2, <3>1, <3>2, <3>3, <3>4
  <2> QED
    BY <2>1, <2>2
<1> QED
  BY <1>1, <1>6, <1>8, <1>9

\* An invitation is written back by who knows its organization.
LEMMA InvitationSaved ==
    ASSUME WorkspaceInv, RowsGrow, NEW r \in Requests, job[r].op \in InviteOps,
           SaveInvitation(r)
    PROVE  /\ invite' \in [Invites -> Invitation]
           /\ SentInvitesHaveOrgs'
           /\ \A i \in Invites : invite'[i].org # NoOrg => CreatedNext(invite'[i].org)
<1> DEFINE i == job[r].ref
           row == [job[r].seen EXCEPT !.status = InviteStatus[job[r].op]]
<1>1. /\ i \in Invites /\ job[r].seen \in Invitation /\ Created(job[r].seen.org)
      /\ invite \in [Invites -> Invitation]
  BY DEF WorkspaceInv, RequestsKnow, RowsAreTyped
<1>2. row \in Invitation /\ row.org = job[r].seen.org
  BY <1>1 DEF Invitation, InviteStatus, InviteOps
<1>3. row.org # NoOrg /\ CreatedNext(row.org)
  BY <1>1, <1>2, CreatedStays, WorkspaceAssumption DEF Created
<1>4. invite' = [invite EXCEPT ![i] = row]
  BY DEF SaveInvitation
<1> HIDE DEF row, i
<1>5. /\ invite' \in [Invites -> Invitation]
      /\ invite'[i] = row
      /\ \A k \in Invites \ {i} : invite'[k] = invite[k]
  BY <1>1, <1>2, <1>4
<1>6. \A k \in Invites : invite[k].org # NoOrg => CreatedNext(invite[k].org)
  BY CreatedStays DEF WorkspaceInv, RowsReferToCreated, Created
<1> QED
  BY <1>3, <1>5, <1>6 DEF WorkspaceInv, SentInvitesHaveOrgs

LEMMA CompleteIsSafe ==
    ASSUME WorkspaceInv, NEW r \in Requests, CompleteRequest(r)
    PROVE  WorkspaceInv'
<1>0. /\ org \in [Orgs -> Organization] /\ member \in [Users -> Member]
      /\ invite \in [Invites -> Invitation]
      /\ RowsReferToCreated /\ SentInvitesHaveOrgs /\ OwnerPresent /\ RequestsKnow(r)
  BY DEF WorkspaceInv, RowsAreTyped
<1>1. Finish(r)
  BY DEF CompleteRequest, UpdateProfile, DeleteAccount, Login, AskSecondFactor, WriteLogin,
         CreateOrganization,
         EditOrganization, CloseOrganization, RemoveMember, WriteInvitation,
         AcceptInvitation, AbandonRequest
<1>2. JobsEnd /\ job' = [q \in Requests |-> job'[q]]
  BY <1>1, FinishEnds
<1>3. CASE \/ UpdateProfile(r) \/ DeleteAccount(r) \/ Login(r) \/ AskSecondFactor(r)
           \/ AbandonRequest(r)
  BY <1>2, <1>3, RowsUntouched DEF UpdateProfile, DeleteAccount, Login, AskSecondFactor,
                                   WriteLogin, AbandonRequest
<1>4. CASE CreateOrganization(r)
  <2> DEFINE u == job[r].by
             o == job[r].ref
  <2>1. /\ u \in Users /\ o \in Orgs
        /\ job[r].seen \in Organization /\ job[r].seen.owner = u
        /\ org[o].owner = Nobody /\ member[u].org = NoOrg
        /\ org' = [org EXCEPT ![o] = job[r].seen]
        /\ member' = [member EXCEPT ![u] = [org |-> o, role |-> "owner", gone |-> FALSE]]
        /\ UNCHANGED <<invite, cleanup, cleared>>
    BY <1>0, <1>4 DEF CreateOrganization, RequestsKnow, MayInsertMember
  <2> HIDE DEF u, o
  <2>2. /\ RowsGrow /\ OwnerPresent'
        /\ org' \in [Orgs -> Organization] /\ member' \in [Users -> Member]
        /\ \A v \in Users : member'[v].org # NoOrg => CreatedNext(member'[v].org)
    BY <2>1, NewMember
  <2>3. \A i \in Invites : invite[i].org # NoOrg => CreatedNext(invite[i].org)
    BY <1>0, <2>2, CreatedStays DEF RowsReferToCreated, Created
  <2>4. RowsReferToCreated' /\ SentInvitesHaveOrgs'
    BY <1>0, <2>1, <2>2, <2>3 DEF RowsReferToCreated, SentInvitesHaveOrgs, Created, CreatedNext
  <2> QED
    BY <1>0, <1>2, <2>1, <2>2, <2>4, RowsChanged
<1>5. CASE EditOrganization(r) \/ CloseOrganization(r)
  <2>1. PICK row : /\ org' = [org EXCEPT ![job[r].ref] = row]
                   /\ row = job[r].seen \/ row = [job[r].seen EXCEPT !.scheduled = TRUE]
    BY <1>5 DEF EditOrganization, CloseOrganization
  <2>2. /\ job[r].ref \in Orgs /\ job[r].seen \in Organization
        /\ job[r].seen.owner = org[job[r].ref].owner
    BY <1>0, <1>5 DEF EditOrganization, CloseOrganization, RequestsKnow, Created
  <2>3. row \in Organization /\ row.owner = org[job[r].ref].owner
    BY <2>1, <2>2 DEF Organization
  <2>4. org' \in [Orgs -> Organization] /\ \A o \in Orgs : org'[o].owner = org[o].owner
    BY <1>0, <2>1, <2>2, <2>3
  <2>5. UNCHANGED <<member, invite, cleanup, cleared>>
    BY <1>5 DEF EditOrganization, CloseOrganization
  <2>6. RowsGrow
    BY <2>4, <2>5 DEF RowsGrow
  <2>7. RowsReferToCreated' /\ SentInvitesHaveOrgs' /\ OwnerPresent'
    BY <1>0, <2>4, <2>5 DEF RowsReferToCreated, SentInvitesHaveOrgs, OwnerPresent, Created
  <2> QED
    BY <1>0, <1>2, <2>4, <2>5, <2>6, <2>7, RowsChanged
<1>6. CASE RemoveMember(r)
  <2> DEFINE v == job[r].ref
             row == [job[r].seen EXCEPT !.gone = TRUE]
  <2>1. /\ v \in Users /\ job[r].seen \in Member /\ member[v].org # NoOrg
        /\ job[r].seen.org = member[v].org /\ member[v].role # "owner"
    BY <1>0, <1>6 DEF RemoveMember, RequestsKnow
  <2>2. member' = [member EXCEPT ![v] = row] /\ UNCHANGED <<org, invite, cleanup, cleared>>
    BY <1>6 DEF RemoveMember
  <2>3. row \in Member /\ row.org = member[v].org /\ row.gone
    BY <2>1 DEF Member
  <2>4. row.role = job[r].seen.role
    BY <2>1 DEF Member
  <2> HIDE DEF v, row
  <2>5. /\ member' \in [Users -> Member] /\ member'[v] = row
        /\ \A u \in Users \ {v} : member'[u] = member[u]
    BY <1>0, <2>2, <2>3, <2>1
  <2>6. job[r].seen.role # "owner"
    BY <1>0, <1>6 DEF RemoveMember, RequestsKnow
  <2>7. RowsGrow
    BY <2>2, <2>3, <2>4, <2>5, <2>6 DEF RowsGrow
  <2>8. OwnerPresent'
    BY <1>0, <2>1, <2>2, <2>5 DEF OwnerPresent, Organization
  <2>9. RowsReferToCreated' /\ SentInvitesHaveOrgs'
    BY <1>0, <2>1, <2>2, <2>3, <2>5 DEF RowsReferToCreated, SentInvitesHaveOrgs, Created
  <2> QED
    BY <1>0, <1>2, <2>2, <2>5, <2>7, <2>8, <2>9, RowsChanged
<1>7. CASE WriteInvitation(r)
  <2>1. /\ job[r].op \in InviteOps /\ SaveInvitation(r)
        /\ UNCHANGED <<org, member, cleanup, cleared>>
    BY <1>7 DEF WriteInvitation, InviteOps
  <2>2. RowsGrow
    BY <2>1 DEF RowsGrow
  <2>3. /\ invite' \in [Invites -> Invitation] /\ SentInvitesHaveOrgs'
        /\ \A i \in Invites : invite'[i].org # NoOrg => CreatedNext(invite'[i].org)
    BY <2>1, <2>2, InvitationSaved
  <2>4. RowsReferToCreated' /\ OwnerPresent'
    BY <1>0, <2>1, <2>3 DEF RowsReferToCreated, OwnerPresent, Created, CreatedNext
  <2> QED
    BY <1>0, <1>2, <2>1, <2>2, <2>3, <2>4, RowsChanged
<1>8. CASE AcceptInvitation(r)
  <2> DEFINE u == job[r].by
             o == job[r].seen.org
             role == job[r].seen.role
  <2>1. /\ job[r].op \in InviteOps /\ SaveInvitation(r)
        /\ member[u].org = NoOrg
        /\ member' = [member EXCEPT ![u] = [org |-> o, role |-> role, gone |-> FALSE]]
        /\ UNCHANGED <<org, cleanup, cleared>>
    BY <1>8 DEF AcceptInvitation, InviteOps, MayInsertMember
  <2>2. u \in Users /\ Created(o) /\ o \in Orgs /\ role \in {"owner", "admin", "member"}
    BY <1>0, <1>8 DEF AcceptInvitation, RequestsKnow, InviteOps, Invitation, Created
  <2> HIDE DEF u, o, role
  <2>3. /\ RowsGrow /\ OwnerPresent'
        /\ org' \in [Orgs -> Organization] /\ member' \in [Users -> Member]
        /\ \A v \in Users : member'[v].org # NoOrg => CreatedNext(member'[v].org)
    BY <2>1, <2>2, NewMember
  <2>4. /\ invite' \in [Invites -> Invitation] /\ SentInvitesHaveOrgs'
        /\ \A i \in Invites : invite'[i].org # NoOrg => CreatedNext(invite'[i].org)
    BY <2>1, <2>3, InvitationSaved
  <2>5. RowsReferToCreated'
    BY <2>3, <2>4 DEF RowsReferToCreated, Created, CreatedNext
  <2> QED
    BY <1>2, <2>1, <2>3, <2>4, <2>5, RowsChanged
<1> QED
  BY <1>3, <1>4, <1>5, <1>6, <1>7, <1>8 DEF CompleteRequest

-----------------------------------------------------------------------------
(* Cleanup, role changes and administration *)

\* Steps that open, end or advance no request.
LEMMA JobsUnchanged ==
    ASSUME WorkspaceInv, UNCHANGED job
    PROVE  JobsEnd /\ job' = [q \in Requests |-> job'[q]]
BY DEF JobsEnd, WorkspaceInv, RowsAreTyped

LEMMA SelectIsSafe ==
    ASSUME WorkspaceInv, SelectDue \/ SelectDeletedUsers
    PROVE  WorkspaceInv'
<1>0. RowsAreTyped /\ RowsReferToCreated
  BY DEF WorkspaceInv
<1>1. PICK orgs \in SUBSET Orgs, leavers \in SUBSET {u \in Users : Live(u) /\ member[u].role # "owner"} :
         SelectOrganizations(orgs, leavers)
  <2>1. CASE SelectDue
    BY <2>1 DEF SelectDue
  <2>2. CASE SelectDeletedUsers
    <3> DEFINE lost == {u \in Users : user[u].deleted /\ Live(u)}
               owners == {u \in lost : member[u].role = "owner"}
    <3>1. SelectOrganizations({member[u].org : u \in owners}, lost \ owners)
      BY <2>2 DEF SelectDeletedUsers
    <3>2. {member[u].org : u \in owners} \in SUBSET Orgs
      BY <1>0 DEF Live, RowsReferToCreated, Created
    <3>3. lost \ owners \in SUBSET {u \in Users : Live(u) /\ member[u].role # "owner"}
      OBVIOUS
    <3> HIDE DEF lost, owners
    <3> QED
      BY <3>1, <3>2, <3>3
  <2> QED
    BY <2>1, <2>2
<1>2. /\ cleanup' = [step |-> "select", orgs |-> orgs, leavers |-> leavers,
                     hits |-> [o \in Orgs |-> IF o \in orgs THEN MembersOf(o) ELSE {}]]
      /\ UNCHANGED <<org, member, invite, job, cleared>>
  BY <1>1 DEF SelectOrganizations
<1>3. \A o \in Orgs : \A u \in cleanup'.hits[o] : o \in orgs /\ u \in Users /\ member[u].org = o
  BY <1>2 DEF MembersOf, LiveIn
<1>4. CleanupKnows'
  <2>1. \A u \in leavers : member[u].org # NoOrg /\ member[u].role # "owner"
    BY DEF Live
  <2> QED
    BY <1>2, <1>3, <2>1 DEF CleanupKnows
<1>5. cleanup'.hits \in [Orgs -> SUBSET Users]
  BY <1>2 DEF MembersOf
<1>6. RowsAreTyped'
  BY <1>0, <1>2, <1>5 DEF RowsAreTyped
<1>7. \A r \in Requests : RequestsKnow(r)'
  BY <1>2 DEF WorkspaceInv, RequestsKnow, Created
<1> QED
  BY <1>2, <1>4, <1>6, <1>7 DEF WorkspaceInv, RowsReferToCreated, SentInvitesHaveOrgs,
                                OwnerPresent, Created

LEMMA CommitCleanupIsSafe ==
    ASSUME WorkspaceInv, CommitCleanup
    PROVE  WorkspaceInv'
<1>0. /\ org \in [Orgs -> Organization] /\ member \in [Users -> Member]
      /\ invite \in [Invites -> Invitation]
      /\ cleanup \in [step : {"idle", "select", "publish"}, orgs : SUBSET Orgs,
                     leavers : SUBSET Users, hits : [Orgs -> SUBSET Users]]
      /\ RowsReferToCreated /\ SentInvitesHaveOrgs /\ OwnerPresent /\ CleanupKnows
  BY DEF WorkspaceInv, RowsAreTyped
<1>1. /\ org' \in [Orgs -> Organization]
      /\ \A o \in Orgs : org'[o].owner = org[o].owner
  <2> DEFINE new(o) == IF o \in cleanup.orgs /\ ~org[o].deleted
                       THEN [org[o] EXCEPT !.status = "suspended", !.deleted = TRUE] ELSE org[o]
  <2>1. \A o \in Orgs : new(o) \in Organization /\ new(o).owner = org[o].owner
    BY <1>0 DEF Organization
  <2>2. org' = [o \in Orgs |-> new(o)]
    BY DEF CommitCleanup
  <2> HIDE DEF new
  <2> QED
    BY <2>1, <2>2
<1>2. /\ member' \in [Users -> Member]
      /\ \A u \in Users : /\ member'[u].org = member[u].org /\ member'[u].role = member[u].role
                          /\ member[u].gone => member'[u].gone
                          /\ member[u].org # NoOrg /\ member[u].org \in cleanup.orgs => member'[u].gone
                          /\ \/ member'[u] = member[u]
                             \/ member[u].org \in cleanup.orgs
                             \/ u \in cleanup.leavers
  <2> DEFINE new(u) == IF Live(u) /\ (member[u].org \in cleanup.orgs \/ u \in cleanup.leavers)
                       THEN [member[u] EXCEPT !.gone = TRUE] ELSE member[u]
  <2>1. \A u \in Users : /\ new(u) \in Member
                         /\ new(u).org = member[u].org /\ new(u).role = member[u].role
                         /\ member[u].gone => new(u).gone
                         /\ member[u].org # NoOrg /\ member[u].org \in cleanup.orgs => new(u).gone
                         /\ \/ new(u) = member[u]
                            \/ member[u].org \in cleanup.orgs
                            \/ u \in cleanup.leavers
    BY <1>0 DEF Member, Live
  <2>2. member' = [u \in Users |-> new(u)]
    BY DEF CommitCleanup
  <2> HIDE DEF new
  <2> QED
    BY <2>1, <2>2
<1>3. /\ invite' \in [Invites -> Invitation]
      /\ \A i \in Invites : invite'[i].org = invite[i].org /\ (invite'[i].status # "unused" => invite[i].status # "unused")
  <2> DEFINE new(i) == IF invite[i].org \in cleanup.orgs /\ invite[i].status = "pending"
                       THEN [invite[i] EXCEPT !.status = "revoked"] ELSE invite[i]
  <2>1. \A i \in Invites : /\ new(i) \in Invitation /\ new(i).org = invite[i].org
                           /\ new(i).status # "unused" => invite[i].status # "unused"
    BY <1>0 DEF Invitation
  <2>2. invite' = [i \in Invites |-> new(i)]
    BY DEF CommitCleanup
  <2> HIDE DEF new
  <2> QED
    BY <2>1, <2>2
<1>4. /\ cleanup.step = "select"
      /\ cleanup' = [cleanup EXCEPT !.step = "publish"]
      /\ cleared' = cleared \cup cleanup.orgs
      /\ UNCHANGED job
  BY DEF CommitCleanup
<1>5. RowsGrow
  BY <1>1, <1>2 DEF RowsGrow
<1>6. \A r \in Requests : RequestsKnow(r)'
  BY <1>4, <1>5, JobsUnchanged, JobsStayTrue
<1>7. RowsAreTyped' /\ RowsReferToCreated' /\ SentInvitesHaveOrgs'
  <2>1. cleanup' \in [step : {"idle", "select", "publish"}, orgs : SUBSET Orgs,
                      leavers : SUBSET Users, hits : [Orgs -> SUBSET Users]]
    BY <1>0, <1>4
  <2>2. RowsAreTyped'
    BY <1>1, <1>2, <1>3, <1>4, <2>1, JobsUnchanged DEF RowsAreTyped
  <2>3. RowsReferToCreated'
    <3>1. \A u \in Users : member'[u].org # NoOrg => CreatedNext(member'[u].org)
      BY <1>0, <1>2, <1>5, CreatedStays DEF RowsReferToCreated, Created
    <3>2. \A i \in Invites : invite'[i].org # NoOrg => CreatedNext(invite'[i].org)
      BY <1>0, <1>3, <1>5, CreatedStays DEF RowsReferToCreated, Created
    <3> QED
      BY <3>1, <3>2 DEF RowsReferToCreated, Created, CreatedNext
  <2>4. SentInvitesHaveOrgs'
    BY <1>0, <1>3 DEF SentInvitesHaveOrgs
  <2> QED
    BY <2>2, <2>3, <2>4
<1>8. CleanupKnows'
  <2>1. /\ cleanup'.step = "publish" /\ cleanup'.leavers = cleanup.leavers
        /\ cleanup'.hits = cleanup.hits
    BY <1>0, <1>4
  <2>2. ASSUME NEW o \in Orgs, NEW u \in cleanup.hits[o]
        PROVE member'[u].org # NoOrg /\ member'[u].gone
    <3>1. u \in Users /\ o \in cleanup.orgs /\ member[u].org = o /\ o # NoOrg
      BY <1>0, <1>4, WorkspaceAssumption DEF CleanupKnows
    <3> QED
      BY <1>2, <3>1
  <2>3. \A u \in cleanup.leavers : member'[u].org # NoOrg /\ member'[u].role # "owner"
    BY <1>0, <1>2 DEF CleanupKnows
  <2> QED
    BY <2>1, <2>2, <2>3 DEF CleanupKnows
<1>9. OwnerPresent'
  <2> SUFFICES ASSUME NEW o \in Orgs, org'[o].owner # Nobody, o \notin cleared'
               PROVE  member'[org'[o].owner] = [org |-> o, role |-> "owner", gone |-> FALSE]
    BY DEF OwnerPresent
  <2>1. /\ org[o].owner \in Users
        /\ member[org[o].owner] = [org |-> o, role |-> "owner", gone |-> FALSE]
        /\ o \notin cleanup.orgs
    BY <1>0, <1>1, <1>4 DEF OwnerPresent, Organization
  <2>2. org[o].owner \notin cleanup.leavers
    BY <1>0, <2>1 DEF CleanupKnows
  <2> QED
    BY <1>1, <1>2, <2>1, <2>2
<1> QED
  BY <1>6, <1>7, <1>8, <1>9 DEF WorkspaceInv

LEMMA CleanupIsSafe ==
    ASSUME WorkspaceInv, Cleanup
    PROVE  WorkspaceInv'
<1>0. RowsAreTyped /\ CleanupKnows
  BY DEF WorkspaceInv
<1>1. CASE SelectDue \/ SelectDeletedUsers
  BY <1>1, SelectIsSafe
<1>2. CASE CommitCleanup
  BY <1>2, CommitCleanupIsSafe
<1>3. CASE EndCleanup \/ \E o \in Orgs : PublishDeleted(o)
  <2>1. /\ UNCHANGED <<org, member, invite, job, cleared>>
        /\ \/ cleanup' = NoCleanup
           \/ \E o \in Orgs : cleanup' = [cleanup EXCEPT !.hits[o] = {}]
    BY <1>3 DEF EndCleanup, PublishDeleted
  <2>2. CASE cleanup' = NoCleanup
    <3>1. RowsAreTyped'
      BY <1>0, <2>1, <2>2, JobsUnchanged DEF RowsAreTyped, NoCleanup
    <3>2. CleanupKnows'
      BY <2>2 DEF CleanupKnows, NoCleanup
    <3> QED
      BY <2>1, <3>1, <3>2 DEF WorkspaceInv, RowsReferToCreated, SentInvitesHaveOrgs, Created,
                              RequestsKnow, OwnerPresent
  <2>3. CASE cleanup' # NoCleanup
    <3>1. PICK o \in Orgs : cleanup' = [cleanup EXCEPT !.hits[o] = {}]
      BY <2>1, <2>3
    <3>2. /\ cleanup'.step = cleanup.step /\ cleanup'.orgs = cleanup.orgs
          /\ cleanup'.leavers = cleanup.leavers
          /\ cleanup'.hits = [cleanup.hits EXCEPT ![o] = {}]
          /\ cleanup' \in [step : {"idle", "select", "publish"}, orgs : SUBSET Orgs,
                           leavers : SUBSET Users, hits : [Orgs -> SUBSET Users]]
      BY <1>0, <3>1 DEF RowsAreTyped
    <3>3. \A k \in Orgs : cleanup'.hits[k] \subseteq cleanup.hits[k]
      BY <1>0, <3>2 DEF RowsAreTyped
    <3>4. RowsAreTyped'
      BY <1>0, <2>1, <3>2, JobsUnchanged DEF RowsAreTyped
    <3>5. CleanupKnows'
      BY <1>0, <2>1, <3>2, <3>3 DEF CleanupKnows
    <3> QED
      BY <2>1, <3>4, <3>5 DEF WorkspaceInv, RowsReferToCreated, SentInvitesHaveOrgs, Created,
                              RequestsKnow, OwnerPresent
  <2> QED
    BY <2>2, <2>3
<1> QED
  BY <1>1, <1>2, <1>3 DEF Cleanup

LEMMA ChangeRoleIsSafe ==
    ASSUME WorkspaceInv, NEW u \in Users, NEW v \in Users, NEW o \in Orgs,
           NEW role \in {"admin", "member"}, ChangeRole(u, v, o, role)
    PROVE  WorkspaceInv'
<1>0. /\ org \in [Orgs -> Organization] /\ member \in [Users -> Member]
      /\ invite \in [Invites -> Invitation]
      /\ RowsReferToCreated /\ SentInvitesHaveOrgs /\ OwnerPresent
  BY DEF WorkspaceInv, RowsAreTyped
<1>1. /\ member' = [member EXCEPT ![v].role = role] /\ member[v].role # "owner"
      /\ UNCHANGED <<org, invite, job, cleanup, cleared>>
  BY DEF ChangeRole
<1>2. /\ member' \in [Users -> Member]
      /\ \A w \in Users \ {v} : member'[w] = member[w]
      /\ member'[v].org = member[v].org /\ member'[v].role = role
      /\ member'[v].gone = member[v].gone
  BY <1>0, <1>1 DEF Member
<1>3. RowsGrow
  BY <1>1, <1>2 DEF RowsGrow
<1>4. OwnerPresent'
  BY <1>0, <1>1, <1>2 DEF OwnerPresent, Organization
<1>5. RowsReferToCreated' /\ SentInvitesHaveOrgs'
  BY <1>0, <1>1, <1>2 DEF RowsReferToCreated, SentInvitesHaveOrgs, Created
<1> QED
  BY <1>0, <1>1, <1>2, <1>3, <1>4, <1>5, JobsUnchanged, RowsChanged

LEMMA AdministerIsSafe ==
    ASSUME WorkspaceInv, Administer
    PROVE  WorkspaceInv'
<1>0. /\ org \in [Orgs -> Organization] /\ member \in [Users -> Member]
      /\ invite \in [Invites -> Invitation]
      /\ RowsReferToCreated /\ SentInvitesHaveOrgs /\ OwnerPresent
  BY DEF WorkspaceInv, RowsAreTyped
<1>1. CASE \E u \in Users : DeleteUser(u) \/ \E active \in BOOLEAN : SetUserActive(u, active)
  BY <1>1, JobsUnchanged, RowsUntouched DEF DeleteUser, SetUserActive
<1>2. ASSUME NEW o \in Orgs, NEW row \in Organization, row.owner = org[o].owner,
             org' = [org EXCEPT ![o] = row], cleared \subseteq cleared',
             UNCHANGED <<member, invite, job, cleanup>>
      PROVE  WorkspaceInv'
  <2>1. org' \in [Orgs -> Organization] /\ \A k \in Orgs : org'[k].owner = org[k].owner
    BY <1>0, <1>2
  <2>2. RowsGrow
    BY <1>2, <2>1 DEF RowsGrow
  <2>3. RowsReferToCreated' /\ SentInvitesHaveOrgs' /\ OwnerPresent'
    BY <1>0, <1>2, <2>1 DEF RowsReferToCreated, SentInvitesHaveOrgs, OwnerPresent, Created
  <2> QED
    BY <1>0, <1>2, <2>1, <2>2, <2>3, JobsUnchanged, RowsChanged
<1>3. ASSUME NEW o \in Orgs, DeleteOrganization(o) PROVE WorkspaceInv'
  <2> DEFINE row == [org[o] EXCEPT !.status = "deleted", !.deleted = TRUE, !.scheduled = TRUE]
  <2>1. row \in Organization /\ row.owner = org[o].owner
    BY <1>0 DEF Organization
  <2>2. /\ org' = [org EXCEPT ![o] = row] /\ cleared \subseteq cleared'
        /\ UNCHANGED <<member, invite, job, cleanup>>
    BY <1>3, <1>0 DEF DeleteOrganization
  <2> HIDE DEF row
  <2> QED
    BY <1>2, <2>1, <2>2
<1>4. ASSUME NEW o \in Orgs, NEW s \in {"active", "suspended"}, SetOrganizationStatus(o, s)
      PROVE  WorkspaceInv'
  <2> DEFINE row == [org[o] EXCEPT !.status = s]
  <2>1. row \in Organization /\ row.owner = org[o].owner
    BY <1>0 DEF Organization
  <2>2. /\ org' = [org EXCEPT ![o] = row] /\ cleared \subseteq cleared'
        /\ UNCHANGED <<member, invite, job, cleanup>>
    BY <1>4, <1>0 DEF SetOrganizationStatus
  <2> HIDE DEF row
  <2> QED
    BY <1>2, <2>1, <2>2
<1> QED
  BY <1>1, <1>3, <1>4 DEF Administer

LEMMA WorkspaceInvStep == WorkspaceInv /\ [WorkspaceNext]_workspaceVars => WorkspaceInv'
<1> SUFFICES ASSUME WorkspaceInv, [WorkspaceNext]_workspaceVars PROVE WorkspaceInv'
  OBVIOUS
<1>1. ASSUME NEW u \in Users, Logout(u) \/ DeletionDue(u) \/ ExpireAccount(u) PROVE WorkspaceInv'
  BY <1>1, JobsUnchanged, RowsUntouched DEF Logout, DeletionDue, ExpireAccount
<1>2. CASE UNCHANGED workspaceVars
  BY <1>2, JobsUnchanged, RowsUntouched DEF workspaceVars
<1> QED
  BY <1>1, <1>2, StartIsSafe, CompleteIsSafe, ChangeRoleIsSafe, CleanupIsSafe, AdministerIsSafe
     DEF WorkspaceNext

THEOREM WorkspaceInvHolds == WorkspaceSpec => []WorkspaceInv
BY WorkspaceInvStarts, WorkspaceInvStep, PTL DEF WorkspaceSpec

\* Any number of users, requests and cleanup runs, all of them writing back rows they read
\* earlier: an organization that was never deleted keeps its owner, as a member and owner.
THEOREM OwnersStay == WorkspaceSpec => []OwnerPresent
<1>1. WorkspaceInv => OwnerPresent
  BY DEF WorkspaceInv
<1> QED
  BY <1>1, WorkspaceInvHolds, PTL

\* Whoever is named in the event of a deleted organization has no live membership when the
\* event is handled, so nobody loses an account he needs elsewhere.
THEOREM EventsSpareOthers == WorkspaceSpec => EventSparesOthers
<1> DEFINE Spared == \A o \in Orgs : PublishDeleted(o) =>
                        \A u \in cleanup.hits[o] : Live(u) => org[member[u].org].deleted
<1>1. WorkspaceInv => Spared
  BY DEF WorkspaceInv, CleanupKnows, PublishDeleted, Live
<1>2. WorkspaceInv /\ [WorkspaceNext]_workspaceVars => [Spared]_workspaceVars
  BY <1>1
<1> QED
  BY <1>2, WorkspaceInvHolds, PTL DEF WorkspaceSpec, EventSparesOthers

-----------------------------------------------------------------------------
(* Accounts with a scheduled deletion *)

\* A date is in the row of an account only when somebody asked for its deletion and nobody
\* called it off in time; whoever has asked is not signed in.  So what a signed-in user reads
\* of his account has a date only after a login that kept it, and no write of such a row
\* brings back a date that was called off.
AccountInv ==
    /\ user \in [Users -> User]
    /\ deletion \in [Users -> {"off", "asked", "kept"}]
    /\ job = [r \in Requests |-> job[r]]
    /\ \A r \in Requests : job[r].op \in UserOps => job[r].by \in Users /\ job[r].seen \in User
    /\ \A r \in Requests : job[r].op = "profile" =>
          job[r].seen.scheduled = "no" \/ deletion[job[r].by] = "kept"
    /\ \A u \in Users : user[u].scheduled # "no" => deletion[u] # "off"
    /\ \A u \in sessions : u \in Users /\ deletion[u] # "asked"

LEMMA AccountInvStarts == WorkspaceInit => AccountInv
BY DEF WorkspaceInit, AccountInv, User, NewUser, NoRequest, UserOps

\* Whatever leaves the accounts alone, and ends requests or reads something else.
LEMMA AccountsUntouched ==
    ASSUME AccountInv, UNCHANGED <<user, sessions, deletion>>,
           job' = [r \in Requests |-> job'[r]],
           \A r \in Requests : job'[r] = job[r] \/ job'[r].op \notin UserOps
    PROVE  AccountInv'
BY DEF AccountInv, UserOps

LEMMA AccountLoads ==
    ASSUME AccountInv, NEW r \in Requests, NEW op, NEW by, NEW ref, NEW row,
           Load(r, op, by, ref, row),
           op \in UserOps => by \in Users /\ row \in User,
           op = "profile" => row.scheduled = "no" \/ deletion[by] = "kept"
    PROVE  AccountInv'
<1>1. /\ job' = [q \in Requests |-> job'[q]]
      /\ job'[r] = [op |-> op, by |-> by, ref |-> ref, seen |-> row]
      /\ \A q \in Requests \ {r} : job'[q] = job[q]
      /\ UNCHANGED <<user, sessions, deletion>>
  BY DEF Load, AccountInv
<1>2. \A q \in Requests : job'[q].op \in UserOps => job'[q].by \in Users /\ job'[q].seen \in User
  BY <1>1 DEF AccountInv
<1>3. \A q \in Requests : job'[q].op = "profile" =>
          job'[q].seen.scheduled = "no" \/ deletion[job'[q].by] = "kept"
  BY <1>1 DEF AccountInv
<1> QED
  BY <1>1, <1>2, <1>3 DEF AccountInv

\* Who reads his profile is signed in: his account has a date only when a login kept it.
LEMMA AccountsStart ==
    ASSUME AccountInv, NEW r \in Requests, StartRequest(r)
    PROVE  AccountInv'
<1>1. ASSUME NEW u \in Users, LoadProfile(r, u) PROVE AccountInv'
  <2>1. user[u].scheduled = "no" \/ deletion[u] = "kept"
    BY <1>1 DEF LoadProfile, Signed, AccountInv
  <2> QED
    BY <1>1, <2>1, AccountLoads DEF LoadProfile, AccountInv
<1>2. ASSUME NEW u \in Users, LoadDeleteAccount(r, u) PROVE AccountInv'
  BY <1>2, AccountLoads DEF LoadDeleteAccount, AccountInv
<1>3. ASSUME NEW u \in Users, NEW op, LoadLogin(r, u, op) PROVE AccountInv'
  BY <1>3, AccountLoads DEF LoadLogin, Logins, AccountInv
<1>4. ASSUME NEW u \in Users, NEW o \in Orgs,
             LoadCreate(r, u, o) \/ LoadEdit(r, u, o) \/ LoadClose(r, u, o)
      PROVE  AccountInv'
  BY <1>4, AccountLoads DEF LoadCreate, LoadEdit, LoadClose, UserOps
<1>5. ASSUME NEW u \in Users, NEW v \in Users, NEW o \in Orgs, LoadRemove(r, u, v, o)
      PROVE  AccountInv'
  BY <1>5, AccountLoads DEF LoadRemove, UserOps
<1>6. ASSUME NEW u \in Users, NEW v \in Users, NEW o \in Orgs, NEW i \in Invites, NEW role,
             LoadInvite(r, u, o, i, v, role)
      PROVE  AccountInv'
  BY <1>6, AccountLoads DEF LoadInvite, UserOps
<1>7. ASSUME NEW op \in InviteOps, NEW by, NEW i \in Invites, LoadInvitation(r, op, by, i)
      PROVE  AccountInv'
  BY <1>7, AccountLoads DEF LoadInvitation, UserOps, InviteOps
<1>8. ASSUME NEW u \in Users, NEW i \in Invites,
             LoadAccept(r, u, i) \/ \E op \in {"resend", "revoke"} : LoadManaged(r, op, u, i)
      PROVE  AccountInv'
  BY <1>8, <1>7 DEF LoadAccept, LoadManaged, InviteOps
<1>9. ASSUME NEW i \in Invites, LoadDecline(r, i) PROVE AccountInv'
  BY <1>9, <1>7 DEF LoadDecline, InviteOps
<1> QED
  BY <1>1, <1>2, <1>3, <1>4, <1>5, <1>6, <1>8, <1>9 DEF StartRequest

LEMMA FinishedRequests ==
    ASSUME AccountInv, NEW r \in Requests, Finish(r)
    PROVE  /\ job' = [q \in Requests |-> job'[q]]
           /\ \A q \in Requests : job'[q] = job[q] \/ job'[q].op \notin UserOps
BY DEF Finish, AccountInv, NoRequest, UserOps

\* A request that writes an account u as x.  What "kept" allows is never taken back.
LEMMA AccountWritten ==
    ASSUME AccountInv, NEW r \in Requests, Finish(r), NEW u \in Users, NEW x \in User,
           NEW d \in {"off", "asked", "kept"},
           user' = [user EXCEPT ![u] = x], deletion' = [deletion EXCEPT ![u] = d],
           deletion[u] = "kept" => d = "kept",
           x.scheduled # "no" => d # "off",
           \A v \in sessions' : v \in sessions \/ v = u,
           u \in sessions' => d # "asked"
    PROVE  AccountInv'
<1>1. user' \in [Users -> User] /\ deletion' \in [Users -> {"off", "asked", "kept"}]
  BY DEF AccountInv
<1>2. \A v \in Users : user'[v].scheduled # "no" => deletion'[v] # "off"
  BY DEF AccountInv
<1>3. \A v \in sessions' : v \in Users /\ deletion'[v] # "asked"
  BY DEF AccountInv
<1>4. /\ job' = [q \in Requests |-> job'[q]]
      /\ \A q \in Requests : job'[q] = job[q] \/ job'[q].op \notin UserOps
  BY FinishedRequests
<1>5. ASSUME NEW q \in Requests, job'[q].op \in UserOps
      PROVE  /\ job'[q].by \in Users /\ job'[q].seen \in User
             /\ job'[q].op = "profile" =>
                   job'[q].seen.scheduled = "no" \/ deletion'[job'[q].by] = "kept"
  <2>1. job'[q] = job[q] /\ job[q].by \in Users
    BY <1>4, <1>5 DEF AccountInv
  <2> QED
    BY <1>5, <2>1 DEF AccountInv
<1> QED
  BY <1>1, <1>2, <1>3, <1>4, <1>5 DEF AccountInv, UserOps

Asked(u) == IF deletion[u] = "kept" THEN "kept" ELSE "asked"

\* A login leaves no date that the observer does not know of.
LEMMA LoginWritten ==
    ASSUME AccountInv, NEW r \in Requests, job[r].op \in Logins, WriteLogin(r),
           \A v \in sessions' : v \in sessions \/ v = job[r].by
    PROVE  AccountInv'
<1> DEFINE u == job[r].by
           x == AfterLogin(job[r].op, job[r].seen)
           d == IF deletion[u] = "kept" \/ Keeps(job[r].op, job[r].seen) THEN "kept" ELSE "off"
<1>1. u \in Users /\ job[r].seen \in User
  BY DEF AccountInv, UserOps, Logins
<1>2. x \in User
  BY <1>1 DEF AfterLogin, User
<1>3. x.scheduled # "no" => d # "off"
  BY <1>1 DEF AfterLogin, Keeps, User
<1>4. user' = [user EXCEPT ![u] = x] /\ deletion' = [deletion EXCEPT ![u] = d] /\ Finish(r)
  BY <1>1 DEF WriteLogin, AccountInv
<1>5. d \in {"off", "asked", "kept"} /\ d # "asked" /\ (deletion[u] = "kept" => d = "kept")
  OBVIOUS
<1> HIDE DEF x, d
<1> QED
  BY <1>1, <1>2, <1>3, <1>4, <1>5, AccountWritten

LEMMA AccountsComplete ==
    ASSUME AccountInv, NEW r \in Requests, CompleteRequest(r)
    PROVE  AccountInv'
<1>1. CASE UpdateProfile(r)
  <2>1. /\ job[r].by \in Users /\ job[r].seen \in User
        /\ job[r].seen.scheduled = "no" \/ deletion[job[r].by] = "kept"
    BY <1>1 DEF UpdateProfile, AccountInv, UserOps
  <2>2. /\ deletion' = [deletion EXCEPT ![job[r].by] = deletion[job[r].by]]
        /\ deletion[job[r].by] \in {"off", "asked", "kept"}
        /\ job[r].by \in sessions => deletion[job[r].by] # "asked"
    BY <1>1, <2>1 DEF UpdateProfile, AccountInv
  <2> QED
    BY <1>1, <2>1, <2>2, AccountWritten DEF UpdateProfile
<1>2. CASE DeleteAccount(r)
  <2>1. job[r].by \in Users /\ job[r].seen \in User
    BY <1>2 DEF DeleteAccount, AccountInv, UserOps
  <2> DEFINE x == [job[r].seen EXCEPT !.scheduled = "pending"]
             d == Asked(job[r].by)
  <2>2. x \in User
    BY <2>1 DEF User
  <2>3. /\ d \in {"off", "asked", "kept"} /\ d # "off"
        /\ deletion[job[r].by] = "kept" => d = "kept"
    BY DEF Asked
  <2>4. /\ user' = [user EXCEPT ![job[r].by] = x]
        /\ deletion' = [deletion EXCEPT ![job[r].by] = d]
        /\ sessions' = sessions \ {job[r].by} /\ Finish(r)
    BY <1>2, <2>1 DEF DeleteAccount, Ask, Asked, AccountInv
  <2> HIDE DEF x, d
  <2> QED
    BY <2>1, <2>2, <2>3, <2>4, AccountWritten
<1>3. CASE Login(r)
  BY <1>3, LoginWritten DEF Login
<1>4. CASE AskSecondFactor(r)
  BY <1>4, LoginWritten DEF AskSecondFactor, Logins
<1>5. CASE \/ CreateOrganization(r) \/ EditOrganization(r) \/ CloseOrganization(r)
           \/ RemoveMember(r) \/ WriteInvitation(r) \/ AcceptInvitation(r)
           \/ AbandonRequest(r)
  <2>1. Finish(r) /\ UNCHANGED <<user, sessions, deletion>>
    BY <1>5 DEF CreateOrganization, EditOrganization, CloseOrganization, RemoveMember,
                WriteInvitation, AcceptInvitation, AbandonRequest
  <2> QED
    BY <2>1, FinishedRequests, AccountsUntouched
<1> QED
  BY <1>1, <1>2, <1>3, <1>4, <1>5 DEF CompleteRequest

\* Loops and administrators set no date without asking for the deletion.
LEMMA AccountsOtherwise ==
    ASSUME AccountInv, UNCHANGED <<job, deletion>>, user' \in [Users -> User],
           sessions' \subseteq sessions,
           \A u \in Users : user'[u].scheduled # "no" => user[u].scheduled # "no"
    PROVE  AccountInv'
BY DEF AccountInv

LEMMA AccountInvStep ==
    ASSUME AccountInv, [WorkspaceNext]_workspaceVars
    PROVE  AccountInv'
<1>0. user \in [Users -> User]
  BY DEF AccountInv
<1>1. ASSUME NEW u \in Users, Logout(u) PROVE AccountInv'
  BY <1>1, <1>0, AccountsOtherwise DEF Logout
<1>2. ASSUME NEW u \in Users, ExpireAccount(u) \/ DeletionDue(u) PROVE AccountInv'
  <2>1. user' \in [Users -> User] /\ \A v \in Users :
           user'[v].scheduled # "no" => user[v].scheduled # "no"
    BY <1>2, <1>0 DEF ExpireAccount, DeletionDue, User
  <2> QED
    BY <1>2, <2>1, AccountsOtherwise DEF ExpireAccount, DeletionDue
<1>3. ASSUME NEW o \in Orgs, PublishDeleted(o) PROVE AccountInv'
  <2>1. /\ \A u \in Users : user'[u] \in User /\ user'[u].scheduled = user[u].scheduled
        /\ user' = [u \in Users |-> user'[u]] /\ UNCHANGED <<job, sessions, deletion>>
    BY <1>3, <1>0 DEF PublishDeleted, User
  <2>2. user' \in [Users -> User]
    BY <2>1
  <2> QED
    BY <2>1, <2>2, AccountsOtherwise
<1>4. ASSUME NEW u \in Users, DeleteUser(u) PROVE AccountInv'
  <2> DEFINE x == [deleted |-> TRUE, active |-> FALSE, scheduled |-> "due"]
             d == Asked(u)
  <2>1. /\ user' = [user EXCEPT ![u] = x] /\ deletion' = [deletion EXCEPT ![u] = d]
        /\ sessions' = sessions \ {u} /\ UNCHANGED job
    BY <1>4 DEF DeleteUser, Ask, Asked, AccountInv
  <2>2. x \in User /\ d \in {"asked", "kept"} /\ (deletion[u] = "kept" => d = "kept")
    BY DEF User, Asked
  <2> HIDE DEF x, d
  <2>3. user' \in [Users -> User] /\ deletion' \in [Users -> {"off", "asked", "kept"}]
    BY <2>1, <2>2 DEF AccountInv
  <2>4. /\ \A v \in Users : user'[v].scheduled # "no" => deletion'[v] # "off"
        /\ \A v \in sessions' : v \in Users /\ deletion'[v] # "asked"
        /\ \A v \in Users : deletion[v] = "kept" => deletion'[v] = "kept"
    BY <2>1, <2>2 DEF AccountInv
  <2>5. \A r \in Requests : job[r].op = "profile" => job[r].by \in Users
    BY DEF AccountInv, UserOps
  <2> QED
    BY <2>1, <2>3, <2>4, <2>5 DEF AccountInv
<1>5. ASSUME NEW u \in Users, NEW active \in BOOLEAN, SetUserActive(u, active)
      PROVE  AccountInv'
  <2>1. user' \in [Users -> User] /\ \A v \in Users : user'[v].scheduled = user[v].scheduled
    BY <1>5, <1>0 DEF SetUserActive, User
  <2>2. sessions' \subseteq sessions /\ UNCHANGED <<job, deletion>>
    BY <1>5 DEF SetUserActive
  <2> QED
    BY <2>1, <2>2, AccountsOtherwise
<1>6. ASSUME UNCHANGED <<user, sessions, job, deletion>> PROVE AccountInv'
  BY <1>6 DEF AccountInv
<1>7. CASE Cleanup
  BY <1>7, <1>3, <1>6 DEF Cleanup, SelectDue, SelectDeletedUsers, SelectOrganizations,
                          CommitCleanup, EndCleanup
<1>8. CASE Administer
  BY <1>8, <1>4, <1>5, <1>6 DEF Administer, DeleteOrganization, SetOrganizationStatus
<1>9. ASSUME NEW u, NEW v, NEW o, NEW role, ChangeRole(u, v, o, role) PROVE AccountInv'
  BY <1>9, <1>6 DEF ChangeRole
<1>10. CASE UNCHANGED workspaceVars
  BY <1>10, <1>6 DEF workspaceVars
<1> QED
  BY <1>1, <1>2, <1>7, <1>8, <1>9, <1>10, AccountsStart, AccountsComplete DEF WorkspaceNext

\* A deletion that was called off in time deletes nobody, whatever rows overlapping
\* requests have read and write back; what a login kept is excepted, see the property.
THEOREM CalledOffDeletionsStayOff == WorkspaceSpec => DeletedOnlyWhenAway
<1> DEFINE Away == \A u \in Users : ExpireAccount(u) => deletion[u] # "off"
<1>1. AccountInv => Away
  BY DEF AccountInv, ExpireAccount
<1>2. AccountInv /\ [WorkspaceNext]_workspaceVars => AccountInv' /\ [Away]_workspaceVars
  BY <1>1, AccountInvStep
<1> QED
  BY <1>2, AccountInvStarts, PTL DEF WorkspaceSpec, DeletedOnlyWhenAway

=============================================================================
