------------------------------- MODULE Contacts -------------------------------
(***************************************************************************)
(* A contact list, the suppression list of its organization and a campaign *)
(* that mails the contacts: who keeps an address out, who puts it back,    *)
(* and what a campaign under way makes of it.                              *)
(*                                                                         *)
(* Requests read first and write at their commit.  Rows changed through    *)
(* the ORM get the columns that differ from what was read, contact lists   *)
(* are written whole, and the UPDATE of an opt-out finds its rows when it  *)
(* commits.  A batch asks the suppression list and the contact once more   *)
(* before each mail.                                                       *)
(***************************************************************************)
EXTENDS Integers, FiniteSets

CONSTANTS
    Addresses,      \* normalized addresses
    Ids,            \* ids of contact rows, never used twice
    NoContact,      \* a NULL contact_id
    Requests,       \* requests that may overlap
    EditStatuses,   \* those of the contact states that edits choose (bound)
    Verdicts,       \* those of the provider's verdicts that occur (bound)
    MaxRequests     \* bound: requests begun

Blocked == {"invalid", "spamtrap", "abuse", "do_not_mail"}

ContactStatus == {"active", "unsubscribed", "archived", "bounced", "suppressed"}

ASSUME ContactsAssumption ==
    /\ NoContact \notin Ids
    /\ EditStatuses \subseteq ContactStatus
    /\ Verdicts \subseteq Blocked \cup {"valid"}
    /\ MaxRequests \in Nat

VARIABLES
    contact,     \* committed rows of the list; NoRow before and after they exist
    suppression, \* the row of each address: "none", "active" or "inactive"
    listGone,    \* deleted_at of the list is set
    campaign,    \* "draft", "running" or "completed"
    recipient,   \* recipients of the campaign, by their normalized address
    job,         \* what each request does and has read
    launch,      \* rows the launch has read
    batch,       \* the batch under way
    begun,       \* requests begun so far, up to the bound
    raced,       \* requests during which a suppression was lifted
    optOut,      \* addresses kept out: "yes", "raced" when lifted meanwhile, "no"
    mailed       \* optOut of each mailed address when the batch asked

rowVars   == <<contact, suppression, listGone>>
mailVars  == <<campaign, recipient, launch, batch, mailed>>
askVars   == <<job, begun, raced, optOut>>
contactsVars == <<rowVars, mailVars, askVars>>

\* A row keeps its address as it was typed: the local part in small letters or not.
Spelling == [address : Addresses, lower : BOOLEAN]
Lower(a) == [address |-> a, lower |-> TRUE]

Contact == [email : Spelling, subscribed : BOOLEAN, status : ContactStatus,
            verdict : Blocked \cup {"valid", "unverified"}, archived : BOOLEAN]

Fresh(e, s) == [email |-> e, subscribed |-> s, status |-> "active",
                verdict |-> "unverified", archived |-> FALSE]

NoRow(state) == [status |-> state]

Exists(c) == c.status \in ContactStatus

There(i) == Exists(contact[i])

Unborn == {i \in Ids : contact[i] = NoRow("unborn")}

\* lower(email) = a: more than one row if they are spelled differently.
HasAddress(a) == {i \in Ids : There(i) /\ contact[i].email.address = a}

\* email = e, which uq_contact_list_email compares.
Spelled(e) == {i \in Ids : There(i) /\ contact[i].email = e}

\* campaign_contact_ineligibility_reason, but for the syntax of the address; a critical
\* bounce_risk is written with the verdict "invalid" and with no other.
Eligible(c) ==
    /\ c.subscribed
    /\ ~c.archived
    /\ c.status = "active"
    /\ c.verdict \notin Blocked

Idle == [op |-> "idle"]

NoBatch == [claimed |-> {}, done |-> [a \in {} |-> "sent"]]

ContactsInit ==
    /\ contact \in [Ids -> {NoRow("unborn")} \cup {Fresh(e, TRUE) : e \in Spelling}]
    /\ \A i, k \in Ids : i # k /\ There(i) /\ There(k) => contact[i].email # contact[k].email
    /\ suppression = [a \in Addresses |-> "none"]
    /\ listGone = FALSE
    /\ campaign = "draft"
    /\ recipient = [a \in Addresses |-> [status |-> "none", contact |-> NoContact]]
    /\ job = [t \in Requests |-> Idle]
    /\ launch = Idle
    /\ batch = NoBatch
    /\ begun = 0
    /\ raced = {}
    /\ optOut = [a \in Addresses |-> "no"]
    /\ mailed = [a \in Addresses |-> "none"]

Begin(t, r) ==
    /\ job[t] = Idle /\ begun < MaxRequests
    /\ job' = [job EXCEPT ![t] = r]
    /\ begun' = begun + 1
    /\ raced' = raced \ {t}

\* The transaction ends; what it writes is said by the action.
End(t) ==
    /\ job' = [job EXCEPT ![t] = Idle]
    /\ UNCHANGED <<begun, mailVars>>

\* A refused, failed or broken off request: everything it did is rolled back.
Abandon(t) ==
    /\ job[t] # Idle
    /\ End(t)
    /\ UNCHANGED <<rowVars, raced, optOut>>

\* Only the columns in which new differs from old, what the ORM has loaded, are written.
Written(now, old, new) ==
    [f \in DOMAIN now |-> IF new[f] # old[f] THEN new[f] ELSE now[f]]

(***************************************************************************)
(* The list and its contacts.                                              *)
(***************************************************************************)
\* An import that adds columns has the list row locked until it commits.
ListLocked == \E t \in Requests : job[t].op = "import" /\ job[t].step = "upsert" /\ job[t].columns

BeginCreate(t, e, s) ==
    /\ ~listGone /\ Spelled(e) = {}
    /\ Begin(t, [op |-> "create", row |-> Fresh(e, s)])
    /\ UNCHANGED <<rowVars, mailVars, optOut>>

\* uq_contact_list_email fails the insert of an address that has come meanwhile.
FinishCreate(t) ==
    /\ job[t].op = "create" /\ Spelled(job[t].row.email) = {}
    /\ \E i \in Unborn : contact' = [contact EXCEPT ![i] = job[t].row]
    /\ End(t)
    /\ UNCHANGED <<suppression, listGone, raced, optOut>>

\* CSV files and sheets, read in small letters; a sheet is fetched from Google after the list was read.
BeginImport(t, file) ==
    /\ ~listGone
    /\ Begin(t, [op |-> "import", step |-> "read", rows |-> file, columns |-> FALSE])
    /\ UNCHANGED <<rowVars, mailVars, optOut>>

LookUpExisting(t) ==
    /\ job[t].op = "import" /\ job[t].step = "read" /\ ~ListLocked
    /\ \E new \in BOOLEAN :
          job' = [job EXCEPT ![t].step = "upsert", ![t].columns = new,
                             ![t].rows = {a \in @ : Spelled(Lower(a)) = {}}]
    /\ UNCHANGED <<rowVars, mailVars, begun, raced, optOut>>

\* Mutant: the values of the file win, those it does not have included.
UpsertedByFile(c) == Fresh(c.email, TRUE)

\* A row that was inserted after the look-up gets the metadata of the file, and nothing else.
Upserted(c) == c

FinishImport(t) ==
    LET rows == job[t].rows
        new  == {a \in rows : Spelled(Lower(a)) = {}} IN
    /\ job[t].op = "import" /\ job[t].step = "upsert"
    /\ \E f \in [new -> Unborn] :
          /\ \A a, b \in new : a # b => f[a] # f[b]
          /\ contact' = [i \in Ids |->
                IF \E a \in new : f[a] = i THEN Fresh(Lower(CHOOSE a \in new : f[a] = i), TRUE)
                ELSE IF \E a \in rows : i \in Spelled(Lower(a)) THEN Upserted(contact[i])
                ELSE contact[i]]
    /\ listGone' = (listGone /\ ~job[t].columns)
    /\ End(t)
    /\ UNCHANGED <<suppression, raced, optOut>>

\* What update_contact makes of a row: one field of the request at a time.
Edited(c, change) ==
    CASE change.field = "email" -> [c EXCEPT !.email = Lower(change.value)]
      [] change.field = "subscribed" ->
           [c EXCEPT !.subscribed = change.value,
                     !.status = IF ~change.value /\ @ = "active" THEN "unsubscribed"
                                ELSE IF change.value /\ @ = "unsubscribed" THEN "active" ELSE @]
      [] change.field = "status" ->
           [c EXCEPT !.status = change.value,
                     !.subscribed = (change.value = "active"),
                     !.archived = change.value = "archived" \/ (@ /\ change.value # "active")]

Changes == [field : {"email"}, value : Addresses] \cup [field : {"subscribed"}, value : BOOLEAN]
             \cup [field : {"status"}, value : EditStatuses]

BeginEdit(t, i, change) ==
    /\ ~listGone /\ There(i)
    /\ change.field = "email" => HasAddress(change.value) \subseteq {i}
    /\ Begin(t, [op |-> "edit", id |-> i, change |-> change, row |-> contact[i]])
    /\ UNCHANGED <<rowVars, mailVars, optOut>>

FinishEdit(t) ==
    LET i    == job[t].id
        row  == Written(contact[i], job[t].row, Edited(job[t].row, job[t].change)) IN
    /\ job[t].op = "edit" /\ There(i)
    /\ Spelled(row.email) \subseteq {i}
    /\ contact' = [contact EXCEPT ![i] = row]
    /\ End(t)
    /\ UNCHANGED <<suppression, listGone, raced, optOut>>

BeginDelete(t, i) ==
    /\ ~listGone /\ There(i)
    /\ Begin(t, [op |-> "delete", id |-> i])
    /\ UNCHANGED <<rowVars, mailVars, optOut>>

\* The foreign key sets the contact_id of the recipients to NULL: it waits for the batch
\* that has locked one of them.
FinishDelete(t) ==
    /\ job[t].op = "delete"
    /\ \A a \in batch.claimed : recipient[a].contact # job[t].id
    /\ contact' = [contact EXCEPT ![job[t].id] = NoRow("gone")]
    /\ recipient' = [a \in Addresses |->
          IF recipient[a].contact = job[t].id THEN [recipient[a] EXCEPT !.contact = NoContact] ELSE recipient[a]]
    /\ job' = [job EXCEPT ![t] = Idle]
    /\ UNCHANGED <<suppression, listGone, campaign, launch, batch, mailed, begun, raced, optOut>>

\* Refused, unless forced, while an unfinished campaign uses the list.
BeginListChange(t, gone, force) ==
    /\ ~listGone
    /\ gone /\ ~force => campaign = "completed"
    /\ Begin(t, [op |-> "list", gone |-> gone])
    /\ UNCHANGED <<rowVars, mailVars, optOut>>

\* The whole row is written, deleted_at included.
FinishListChange(t) ==
    /\ job[t].op = "list" /\ ~ListLocked
    /\ listGone' = job[t].gone
    /\ End(t)
    /\ UNCHANGED <<contact, suppression, raced, optOut>>

(***************************************************************************)
(* Keeping addresses out, and letting them in again.                       *)
(***************************************************************************)
\* Whether the rows of the addresses can be written: one that was not found is inserted,
\* and uq_campaign_suppression_email fails if somebody else was faster.
Suppressible(found) == \A a \in DOMAIN found : found[a] = "none" => suppression[a] = "none"

\* A row found active is not changed: its column active has the value it was read with.
Suppressed(found) ==
    [a \in Addresses |-> IF a \in DOMAIN found /\ found[a] # "active" THEN "active" ELSE suppression[a]]

KeptOut(t, kept) ==
    [a \in Addresses |-> IF a \notin kept THEN optOut[a] ELSE IF t \in raced THEN "raced" ELSE "yes"]

\* add_suppression, the link in a mail, and the bounces and unsubscriptions of the provider.
BeginOptOut(t, a, by) ==
    /\ by \in {"bounced", "unsubscribed"} => recipient[a].status = "sent"
    /\ Begin(t, [op |-> "out", by |-> by, email |-> a, found |-> [b \in {a} |-> suppression[b]]])
    /\ UNCHANGED <<rowVars, mailVars, optOut>>

\* Whose rows the UPDATE of contact_contacts finds.
OptedOut(a, by) ==
    CASE by = "address" -> HasAddress(a)
      [] by = "unsubscribed" -> {recipient[a].contact} \cap {i \in Ids : There(i)}
      [] by = "bounced" -> {}

FinishOptOut(t) ==
    LET out == OptedOut(job[t].email, job[t].by) IN
    /\ job[t].op = "out" /\ Suppressible(job[t].found)
    /\ suppression' = Suppressed(job[t].found)
    /\ contact' = [i \in Ids |-> IF i \in out
                                 THEN [contact[i] EXCEPT !.subscribed = FALSE] ELSE contact[i]]
    /\ optOut' = KeptOut(t, DOMAIN job[t].found)
    /\ End(t)
    /\ UNCHANGED <<listGone, raced>>

BeginLift(t, a) ==
    /\ suppression[a] # "none"
    /\ Begin(t, [op |-> "lift", found |-> [b \in {a} |-> suppression[b]]])
    /\ UNCHANGED <<rowVars, mailVars, optOut>>

FinishLift(t) ==
    LET found == job[t].found IN
    /\ job[t].op = "lift"
    /\ suppression' = [a \in Addresses |-> IF a \in DOMAIN found /\ found[a] = "active"
                                           THEN "inactive" ELSE suppression[a]]
    /\ optOut' = [a \in Addresses |-> IF a \in DOMAIN found THEN "no" ELSE optOut[a]]
    /\ raced' = raced \cup {u \in Requests \ {t} : job[u] # Idle}
    /\ End(t)
    /\ UNCHANGED <<contact, listGone>>

\* One contact or several; the provider is asked about the addresses read here.
BeginVerify(t, who) ==
    /\ ~listGone /\ \A i \in who : There(i)
    /\ Begin(t, [op |-> "verify", step |-> "asked", rows |-> [i \in who |-> contact[i]]])
    /\ UNCHANGED <<rowVars, mailVars, optOut>>

\* The verdicts are in: the suppressions of those blocked are looked up.
Judge(t) ==
    /\ job[t].op = "verify" /\ job[t].step = "asked"
    /\ \E v \in [DOMAIN job[t].rows -> Verdicts] :
          LET out == {job[t].rows[i].email.address : i \in {k \in DOMAIN v : v[k] \in Blocked}} IN
          job' = [job EXCEPT ![t] = [op |-> "verify", step |-> "judged", rows |-> job[t].rows,
                                     verdicts |-> v, found |-> [a \in out |-> suppression[a]]]]
    /\ UNCHANGED <<rowVars, mailVars, begun, raced, optOut>>

Judged(c, v) ==
    [c EXCEPT !.verdict = v,
              !.subscribed = @ /\ v \notin Blocked,
              !.status = IF v = "invalid" THEN "bounced" ELSE IF v \in Blocked THEN "suppressed" ELSE @]

FinishVerify(t) ==
    LET rows == job[t].rows
        v    == job[t].verdicts IN
    /\ job[t].op = "verify" /\ job[t].step = "judged"
    /\ \A i \in DOMAIN rows : There(i)
    /\ Suppressible(job[t].found)
    /\ contact' = [i \in Ids |-> IF i \in DOMAIN rows
                                 THEN Written(contact[i], rows[i], Judged(rows[i], v[i])) ELSE contact[i]]
    /\ suppression' = Suppressed(job[t].found)
    /\ optOut' = KeptOut(t, DOMAIN job[t].found)
    /\ End(t)
    /\ UNCHANGED <<listGone, raced>>

(***************************************************************************)
(* The campaign.                                                           *)
(***************************************************************************)
BeginLaunch ==
    /\ campaign = "draft" /\ ~listGone /\ launch = Idle
    /\ launch' = [op |-> "launch", rows |-> contact]
    /\ UNCHANGED <<rowVars, askVars, campaign, recipient, batch, mailed>>

\* Whom _snapshot_recipients may take.
Audience ==
    {i \in Ids : /\ Exists(launch.rows[i])
                 /\ Eligible(launch.rows[i])
                 /\ suppression[launch.rows[i].email.address] # "active"}

\* One row of each address, the first that the SELECT returns; the foreign key fails the
\* snapshot if it was deleted meanwhile.
FinishLaunch ==
    LET Taken == {launch.rows[i].email.address : i \in Audience} IN
    /\ launch # Idle /\ Audience # {}
    /\ \E pick \in [Taken -> Audience] :
          /\ \A a \in Taken : launch.rows[pick[a]].email.address = a /\ There(pick[a])
          /\ recipient' = [a \in Addresses |->
                IF a \in Taken THEN [status |-> "pending", contact |-> pick[a]] ELSE recipient[a]]
    /\ campaign' = "running"
    /\ launch' = Idle
    /\ UNCHANGED <<rowVars, askVars, batch, mailed>>

AbandonLaunch ==
    /\ launch # Idle
    /\ launch' = Idle
    /\ UNCHANGED <<rowVars, askVars, campaign, recipient, batch, mailed>>

Pending == {a \in Addresses : recipient[a].status = "pending"}

ClaimRecipients(due) ==
    /\ campaign = "running" /\ batch.claimed = {} /\ due # {} /\ due \subseteq Pending
    /\ batch' = [claimed |-> due, done |-> [a \in {} |-> "sent"]]
    /\ UNCHANGED <<rowVars, askVars, campaign, recipient, launch, mailed>>

\* Mutant: the suppressed were excluded by the snapshot, only the contact is asked again.
SendableBySnapshot(a) ==
    recipient[a].contact = NoContact \/ Eligible(contact[recipient[a].contact])

\* _recipient_ineligibility_reason; without a contact the address is not asked about further.
Sendable(a) ==
    LET i == recipient[a].contact IN
    /\ suppression[a] # "active"
    /\ i = NoContact \/ (There(i) /\ Eligible(contact[i]))

\* An opt-out that commits between the question and the mail is too late, like one after it.
ProcessRecipient(a) ==
    /\ a \in batch.claimed \ DOMAIN batch.done
    /\ batch' = [batch EXCEPT !.done = [b \in DOMAIN @ \cup {a} |->
                    IF b # a THEN @[b] ELSE IF Sendable(a) THEN "sent" ELSE "skipped"]]
    /\ mailed' = IF Sendable(a) THEN [mailed EXCEPT ![a] = optOut[a]] ELSE mailed
    /\ UNCHANGED <<rowVars, askVars, campaign, recipient, launch>>

CommitBatch ==
    /\ batch.claimed # {} /\ batch.claimed = DOMAIN batch.done
    /\ recipient' = [a \in Addresses |-> IF a \in batch.claimed
                        THEN [recipient[a] EXCEPT !.status = batch.done[a]] ELSE recipient[a]]
    /\ campaign' = IF Pending \subseteq batch.claimed THEN "completed" ELSE campaign
    /\ batch' = NoBatch
    /\ UNCHANGED <<rowVars, askVars, launch, mailed>>

ListRequest(t) ==
    \/ \E e \in Spelling, s \in BOOLEAN : BeginCreate(t, e, s)
    \/ FinishCreate(t)
    \/ \E file \in SUBSET Addresses \ {{}} : BeginImport(t, file)
    \/ LookUpExisting(t)
    \/ FinishImport(t)
    \/ \E i \in Ids, change \in Changes : BeginEdit(t, i, change)
    \/ FinishEdit(t)
    \/ \E i \in Ids : BeginDelete(t, i)
    \/ FinishDelete(t)
    \/ \E gone, force \in BOOLEAN : BeginListChange(t, gone, force)
    \/ FinishListChange(t)

OptOutRequest(t) ==
    \/ \E a \in Addresses, by \in {"address", "bounced", "unsubscribed"} : BeginOptOut(t, a, by)
    \/ FinishOptOut(t)
    \/ \E a \in Addresses : BeginLift(t, a)
    \/ FinishLift(t)
    \/ \E who \in SUBSET Ids \ {{}} : BeginVerify(t, who)
    \/ Judge(t)
    \/ FinishVerify(t)

Mailing ==
    \/ BeginLaunch \/ FinishLaunch \/ AbandonLaunch
    \/ \E due \in SUBSET Addresses : ClaimRecipients(due)
    \/ \E a \in Addresses : ProcessRecipient(a)
    \/ CommitBatch

ContactsNext ==
    \/ \E t \in Requests : ListRequest(t) \/ OptOutRequest(t) \/ Abandon(t)
    \/ Mailing

ContactsSpec == ContactsInit /\ [][ContactsNext]_contactsVars

\* Once an address was kept out, by its owner, an operator, a bounce or a verdict, no batch
\* that asks afterwards mails it until an operator lifts that, whatever happens to the
\* contact meanwhile: edits, imports, deletion, other verdicts.  Requests during which a
\* suppression was lifted are the exception (add_suppression, one_click_unsubscribe,
\* _apply_verification_result, suppress_email, _recipient_ineligibility_reason).
OptOutLasts == \A a \in Addresses : mailed[a] # "yes"

\* The promise without the exception.
UnsubscribePreventsLaterSends == \A a \in Addresses : mailed[a] \in {"none", "no"}

\* Nobody is subscribed again but by an edit that says so: no import, verdict or stale write
\* of a request that had read the contact before does (bulk_upsert, update_contact).
ConsentLasts ==
    [][\A i \in Ids :
          There(i) /\ ~contact[i].subscribed /\ Exists(contact'[i]) /\ contact'[i].subscribed =>
             \E t \in Requests :
                /\ job[t].op = "edit" /\ job[t].id = i /\ job'[t] = Idle
                /\ job[t].change \in [field : {"subscribed"}, value : {TRUE}]
                                  \cup [field : {"status"}, value : {"active"}]]_contactsVars

=============================================================================
