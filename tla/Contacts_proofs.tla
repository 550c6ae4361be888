--------------------------- MODULE Contacts_proofs ---------------------------
(***************************************************************************)
(* Proofs about Contacts, for any number of addresses, contacts, requests  *)
(* and edits: an opt-out lasts, and consent comes from edits only.         *)
(***************************************************************************)
EXTENDS Contacts, TLAPS

-----------------------------------------------------------------------------
(* Opt-outs *)

\* Requests that have looked up suppressions they are going to write.
HasFound(j) == j.op = "out" \/ (j.op = "verify" /\ j.step = "judged")

\* What such a request believes active is, unless somebody has lifted something since.
FoundHolds ==
    \A t \in Requests : HasFound(job[t]) /\ t \notin raced =>
        \A a \in Addresses :
            a \in DOMAIN job[t].found /\ job[t].found[a] = "active" => suppression[a] = "active"

OptOutIsActive == \A a \in Addresses : optOut[a] = "yes" => suppression[a] = "active"

OptOutShape ==
    /\ job = [t \in Requests |-> job[t]]
    /\ mailed = [a \in Addresses |-> mailed[a]]

OptOutInv ==
    /\ OptOutShape
    /\ FoundHolds
    /\ OptOutIsActive
    /\ OptOutLasts

\* Nothing is found, kept out or mailed at the start.
LEMMA OptOutInit == ContactsInit => OptOutInv
  BY DEF ContactsInit, OptOutInv, OptOutShape, FoundHolds, OptOutIsActive, OptOutLasts, HasFound, Idle

\* A request that begins, or goes on, without a look-up of suppressions, or with one that
\* is true now, keeps the invariant.
LEMMA BeginKeepsOptOuts ==
  ASSUME OptOutInv, NEW t \in Requests, NEW r, Begin(t, r),
         HasFound(r) => \A a \in Addresses :
            a \in DOMAIN r.found /\ r.found[a] = "active" => suppression[a] = "active",
         UNCHANGED <<suppression, optOut, mailed>>
  PROVE  OptOutInv'
  BY DEF OptOutInv, OptOutShape, FoundHolds, OptOutIsActive, OptOutLasts, Begin

\* The end of a request that touches no suppression.
LEMMA EndKeepsOptOuts ==
  ASSUME OptOutInv, NEW t \in Requests, job' = [job EXCEPT ![t] = Idle],
         UNCHANGED <<suppression, optOut, mailed, raced>>
  PROVE  OptOutInv'
  BY DEF OptOutInv, OptOutShape, FoundHolds, OptOutIsActive, OptOutLasts, HasFound, Idle

\* The end of a request that keeps out the addresses it has looked up.
LEMMA KeepingOutKeepsOptOuts ==
  ASSUME OptOutInv, NEW t \in Requests, HasFound(job[t]),
         suppression' = Suppressed(job[t].found), optOut' = KeptOut(t, DOMAIN job[t].found),
         job' = [job EXCEPT ![t] = Idle], UNCHANGED <<mailed, raced>>
  PROVE  OptOutInv'
<1>1. \A a \in Addresses : suppression[a] = "active" => suppression'[a] = "active"
  BY DEF Suppressed
<1>2. FoundHolds'
  BY <1>1 DEF OptOutInv, OptOutShape, FoundHolds, HasFound, Idle
<1>3. OptOutIsActive'
  <2> SUFFICES ASSUME NEW a \in Addresses, optOut'[a] = "yes"
               PROVE  suppression'[a] = "active"
    BY DEF OptOutIsActive
  <2>1. CASE a \notin DOMAIN job[t].found
    BY <2>1, <1>1 DEF KeptOut, OptOutInv, OptOutIsActive
  <2>2. CASE a \in DOMAIN job[t].found
    <3>1. t \notin raced
      BY <2>2 DEF KeptOut
    <3>2. job[t].found[a] = "active" => suppression[a] = "active"
      BY <2>2, <3>1 DEF OptOutInv, FoundHolds
    <3> QED  BY <2>2, <3>2 DEF Suppressed
  <2> QED  BY <2>1, <2>2
<1> QED  BY <1>2, <1>3 DEF OptOutInv, OptOutShape, OptOutLasts

\* A batch mails only addresses that are not suppressed when it asks.
LEMMA MailingKeepsOptOuts == ASSUME OptOutInv, Mailing PROVE OptOutInv'
<1>1. CASE BeginLaunch
  BY <1>1 DEF BeginLaunch, OptOutInv, OptOutShape, FoundHolds, OptOutIsActive, OptOutLasts, askVars, rowVars
<1>2. CASE FinishLaunch
  BY <1>2 DEF FinishLaunch, OptOutInv, OptOutShape, FoundHolds, OptOutIsActive, OptOutLasts, askVars, rowVars
<1>3. CASE AbandonLaunch
  BY <1>3 DEF AbandonLaunch, OptOutInv, OptOutShape, FoundHolds, OptOutIsActive, OptOutLasts, askVars, rowVars
<1>4. ASSUME NEW due \in SUBSET Addresses, ClaimRecipients(due) PROVE OptOutInv'
  BY <1>4 DEF ClaimRecipients, OptOutInv, OptOutShape, FoundHolds, OptOutIsActive, OptOutLasts, askVars, rowVars
<1>5. ASSUME NEW a \in Addresses, ProcessRecipient(a) PROVE OptOutInv'
  <2>1. UNCHANGED <<job, suppression, raced, optOut>>
    BY <1>5 DEF ProcessRecipient, askVars, rowVars
  <2>2. mailed' = [b \in Addresses |-> mailed'[b]] /\ OptOutLasts'
    <3>1. CASE Sendable(a)
      <4>1. optOut[a] # "yes"
        BY <3>1 DEF Sendable, OptOutInv, OptOutIsActive
      <4> QED  BY <1>5, <3>1, <4>1 DEF ProcessRecipient, OptOutInv, OptOutShape, OptOutLasts
    <3>2. CASE ~Sendable(a)
      BY <1>5, <3>2 DEF ProcessRecipient, OptOutInv, OptOutShape, OptOutLasts
    <3> QED  BY <3>1, <3>2
  <2> QED  BY <2>1, <2>2 DEF OptOutInv, OptOutShape, FoundHolds, OptOutIsActive
<1>6. CASE CommitBatch
  BY <1>6 DEF CommitBatch, OptOutInv, OptOutShape, FoundHolds, OptOutIsActive, OptOutLasts, askVars, rowVars
<1> QED  BY <1>1, <1>2, <1>3, <1>4, <1>5, <1>6 DEF Mailing

LEMMA ListRequestsKeepOptOuts ==
  ASSUME OptOutInv, NEW t \in Requests, ListRequest(t) PROVE OptOutInv'
<1>1. ASSUME NEW e \in Spelling, NEW s \in BOOLEAN, BeginCreate(t, e, s) PROVE OptOutInv'
  <2> DEFINE r == [op |-> "create", row |-> Fresh(e, s)]
  <2>1. Begin(t, r) /\ UNCHANGED <<suppression, optOut, mailed>>
    BY <1>1 DEF BeginCreate, rowVars, mailVars
  <2>2. ~HasFound(r)
    BY DEF HasFound
  <2> HIDE DEF r
  <2> QED  BY <2>1, <2>2, BeginKeepsOptOuts
<1>2. CASE FinishCreate(t)
  BY <1>2, EndKeepsOptOuts DEF FinishCreate, End, mailVars
<1>3. ASSUME NEW file \in SUBSET Addresses, BeginImport(t, file) PROVE OptOutInv'
  <2> DEFINE r == [op |-> "import", step |-> "read", rows |-> file, columns |-> FALSE]
  <2>1. Begin(t, r) /\ UNCHANGED <<suppression, optOut, mailed>>
    BY <1>3 DEF BeginImport, rowVars, mailVars
  <2>2. ~HasFound(r)
    BY DEF HasFound
  <2> HIDE DEF r
  <2> QED  BY <2>1, <2>2, BeginKeepsOptOuts
<1>4. CASE LookUpExisting(t)
  <2>1. UNCHANGED <<suppression, optOut, mailed, raced>>
    BY <1>4 DEF LookUpExisting, rowVars, mailVars
  <2>2. PICK new \in BOOLEAN : job' = [job EXCEPT ![t].step = "upsert", ![t].columns = new,
                             ![t].rows = {a \in @ : Spelled(Lower(a)) = {}}]
    BY <1>4 DEF LookUpExisting
  <2>3. job[t].op = "import"
    BY <1>4 DEF LookUpExisting
  <2>4. \A u \in Requests : HasFound(job'[u]) => job'[u] = job[u]
    BY <2>2, <2>3 DEF HasFound, OptOutInv, OptOutShape
  <2>5. job' = [u \in Requests |-> job'[u]]
    BY <2>2 DEF OptOutInv, OptOutShape
  <2> QED  BY <2>1, <2>4, <2>5 DEF OptOutInv, OptOutShape, FoundHolds, OptOutIsActive, OptOutLasts
<1>5. CASE FinishImport(t)
  BY <1>5, EndKeepsOptOuts DEF FinishImport, End, mailVars
<1>6. ASSUME NEW i \in Ids, NEW change \in Changes, BeginEdit(t, i, change) PROVE OptOutInv'
  <2> DEFINE r == [op |-> "edit", id |-> i, change |-> change, row |-> contact[i]]
  <2>1. Begin(t, r) /\ UNCHANGED <<suppression, optOut, mailed>>
    BY <1>6 DEF BeginEdit, rowVars, mailVars
  <2>2. ~HasFound(r)
    BY DEF HasFound
  <2> HIDE DEF r
  <2> QED  BY <2>1, <2>2, BeginKeepsOptOuts
<1>7. CASE FinishEdit(t)
  BY <1>7, EndKeepsOptOuts DEF FinishEdit, End, mailVars
<1>8. ASSUME NEW i \in Ids, BeginDelete(t, i) PROVE OptOutInv'
  <2> DEFINE r == [op |-> "delete", id |-> i]
  <2>1. Begin(t, r) /\ UNCHANGED <<suppression, optOut, mailed>>
    BY <1>8 DEF BeginDelete, rowVars, mailVars
  <2>2. ~HasFound(r)
    BY DEF HasFound
  <2> HIDE DEF r
  <2> QED  BY <2>1, <2>2, BeginKeepsOptOuts
<1>9. CASE FinishDelete(t)
  BY <1>9, EndKeepsOptOuts DEF FinishDelete
<1>10. ASSUME NEW gone \in BOOLEAN, NEW force \in BOOLEAN, BeginListChange(t, gone, force)
       PROVE  OptOutInv'
  <2> DEFINE r == [op |-> "list", gone |-> gone]
  <2>1. Begin(t, r) /\ UNCHANGED <<suppression, optOut, mailed>>
    BY <1>10 DEF BeginListChange, rowVars, mailVars
  <2>2. ~HasFound(r)
    BY DEF HasFound
  <2> HIDE DEF r
  <2> QED  BY <2>1, <2>2, BeginKeepsOptOuts
<1>11. CASE FinishListChange(t)
  BY <1>11, EndKeepsOptOuts DEF FinishListChange, End, mailVars
<1> QED  BY <1>1, <1>2, <1>3, <1>4, <1>5, <1>6, <1>7, <1>8, <1>9, <1>10, <1>11 DEF ListRequest

LEMMA OptOutRequestsKeepOptOuts ==
  ASSUME OptOutInv, NEW t \in Requests, OptOutRequest(t) PROVE OptOutInv'
<1>1. ASSUME NEW a \in Addresses, NEW by, BeginOptOut(t, a, by) PROVE OptOutInv'
  <2> DEFINE r == [op |-> "out", by |-> by, email |-> a, found |-> [b \in {a} |-> suppression[b]]]
  <2>1. Begin(t, r) /\ UNCHANGED <<suppression, optOut, mailed>>
    BY <1>1 DEF BeginOptOut, rowVars, mailVars
  <2>2. \A b \in Addresses : b \in DOMAIN r.found /\ r.found[b] = "active" => suppression[b] = "active"
    OBVIOUS
  <2> HIDE DEF r
  <2> QED  BY <2>1, <2>2, BeginKeepsOptOuts
<1>2. CASE FinishOptOut(t)
  BY <1>2, KeepingOutKeepsOptOuts DEF FinishOptOut, HasFound, End, mailVars
<1>3. ASSUME NEW a \in Addresses, BeginLift(t, a) PROVE OptOutInv'
  <2> DEFINE r == [op |-> "lift", found |-> [b \in {a} |-> suppression[b]]]
  <2>1. Begin(t, r) /\ UNCHANGED <<suppression, optOut, mailed>>
    BY <1>3 DEF BeginLift, rowVars, mailVars
  <2>2. ~HasFound(r)
    BY DEF HasFound
  <2> HIDE DEF r
  <2> QED  BY <2>1, <2>2, BeginKeepsOptOuts
<1>4. CASE FinishLift(t)
  <2>1. /\ job' = [job EXCEPT ![t] = Idle] /\ mailed' = mailed
        /\ raced' = raced \cup {u \in Requests \ {t} : job[u] # Idle}
    BY <1>4 DEF FinishLift, End, mailVars
  <2>2. \A u \in Requests : HasFound(job'[u]) => u \in raced'
    BY <2>1 DEF HasFound, Idle, OptOutInv, OptOutShape
  <2>3. OptOutIsActive'
    BY <1>4 DEF FinishLift, OptOutInv, OptOutIsActive
  <2> QED  BY <2>1, <2>2, <2>3 DEF OptOutInv, OptOutShape, FoundHolds, OptOutLasts
<1>5. ASSUME NEW who \in SUBSET Ids, BeginVerify(t, who) PROVE OptOutInv'
  <2> DEFINE r == [op |-> "verify", step |-> "asked", rows |-> [i \in who |-> contact[i]]]
  <2>1. Begin(t, r) /\ UNCHANGED <<suppression, optOut, mailed>>
    BY <1>5 DEF BeginVerify, rowVars, mailVars
  <2>2. ~HasFound(r)
    BY DEF HasFound
  <2> HIDE DEF r
  <2> QED  BY <2>1, <2>2, BeginKeepsOptOuts
<1>6. CASE Judge(t)
  <2>1. UNCHANGED <<suppression, optOut, mailed, raced>>
    BY <1>6 DEF Judge, rowVars, mailVars
  <2>2. PICK out : \E v : job' = [job EXCEPT ![t] =
             [op |-> "verify", step |-> "judged", rows |-> job[t].rows,
              verdicts |-> v, found |-> [a \in out |-> suppression[a]]]]
    BY <1>6 DEF Judge
  <2>3. /\ job' = [u \in Requests |-> job'[u]]
        /\ \A u \in Requests \ {t} : job'[u] = job[u]
        /\ job'[t].found = [a \in out |-> suppression[a]]
    BY <2>2 DEF OptOutInv, OptOutShape
  <2> QED  BY <2>1, <2>3 DEF OptOutInv, OptOutShape, FoundHolds, OptOutIsActive, OptOutLasts
<1>7. CASE FinishVerify(t)
  BY <1>7, KeepingOutKeepsOptOuts DEF FinishVerify, HasFound, End, mailVars
<1> QED  BY <1>1, <1>2, <1>3, <1>4, <1>5, <1>6, <1>7 DEF OptOutRequest

LEMMA OptOutStep == OptOutInv /\ [ContactsNext]_contactsVars => OptOutInv'
<1> SUFFICES ASSUME OptOutInv, [ContactsNext]_contactsVars PROVE OptOutInv'
  OBVIOUS
<1>1. ASSUME NEW t \in Requests, Abandon(t) PROVE OptOutInv'
  BY <1>1, EndKeepsOptOuts DEF Abandon, End, rowVars, mailVars
<1>2. CASE UNCHANGED contactsVars
  BY <1>2 DEF contactsVars, rowVars, mailVars, askVars, OptOutInv, OptOutShape, FoundHolds,
              OptOutIsActive, OptOutLasts
<1> QED  BY <1>1, <1>2, ListRequestsKeepOptOuts, OptOutRequestsKeepOptOuts, MailingKeepsOptOuts
         DEF ContactsNext

\* An address that was kept out is not mailed by any batch that asks afterwards, unless a
\* suppression was lifted meanwhile (_recipient_ineligibility_reason).
THEOREM OptOutsLast == ContactsSpec => []OptOutLasts
<1>1. OptOutInv => OptOutLasts
  BY DEF OptOutInv
<1> QED  BY <1>1, OptOutInit, OptOutStep, PTL DEF ContactsSpec

-----------------------------------------------------------------------------
(* Consent *)

AnyRow == Contact \cup {NoRow("unborn"), NoRow("gone")}

JobOk(j) ==
    /\ j.op = "create" => j.row \in Contact
    /\ j.op = "import" => j.rows \subseteq Addresses
    /\ j.op = "edit" => j.id \in Ids /\ j.change \in Changes /\ j.row \in Contact
    /\ j.op = "out" => j.by \in {"address", "bounced", "unsubscribed"}
    /\ j.op = "verify" =>
          /\ DOMAIN j.rows \subseteq Ids
          /\ \A i \in DOMAIN j.rows : j.rows[i] \in Contact
          /\ j.step = "judged" => \A i \in DOMAIN j.rows : j.verdicts[i] \in Verdicts

ConsentInv ==
    /\ contact \in [Ids -> AnyRow]
    /\ job = [t \in Requests |-> job[t]]
    /\ \A t \in Requests : JobOk(job[t])

\* What ConsentLasts says of a step.
Consented ==
    \A i \in Ids :
        There(i) /\ ~contact[i].subscribed /\ Exists(contact'[i]) /\ contact'[i].subscribed =>
           \E t \in Requests :
              /\ job[t].op = "edit" /\ job[t].id = i /\ job'[t] = Idle
              /\ job[t].change \in [field : {"subscribed"}, value : {TRUE}]
                                \cup [field : {"status"}, value : {"active"}]

LEMMA FreshIsContact ==
    /\ \A e \in Spelling, s \in BOOLEAN : Fresh(e, s) \in Contact
    /\ \A a \in Addresses : Lower(a) \in Spelling
  BY DEF Fresh, Contact, ContactStatus, Lower, Spelling

LEMMA OnlyContactsExist == \A c \in AnyRow : Exists(c) <=> c \in Contact
<1>1. \A c \in Contact : Exists(c)
  BY DEF Contact, Exists
<1>2. ~Exists(NoRow("unborn")) /\ ~Exists(NoRow("gone"))
  BY DEF Exists, NoRow, ContactStatus
<1> QED  BY <1>1, <1>2 DEF AnyRow

\* The columns of a partial write are those of a contact, and the flag of the consent is
\* the row's own unless the new value differs from the old one.
LEMMA WrittenRow ==
  ASSUME NEW now \in Contact, NEW old \in Contact, NEW new \in Contact
  PROVE  /\ Written(now, old, new) \in Contact
         /\ Written(now, old, new).subscribed =
               IF new.subscribed # old.subscribed THEN new.subscribed ELSE now.subscribed
<1> DEFINE w == [f \in {"email", "subscribed", "status", "verdict", "archived"} |->
                    IF new[f] # old[f] THEN new[f] ELSE now[f]]
<1>1. DOMAIN now = {"email", "subscribed", "status", "verdict", "archived"}
  BY DEF Contact
<1>2. Written(now, old, new) = w
  BY <1>1 DEF Written
<1>3. /\ w.email \in Spelling /\ w.subscribed \in BOOLEAN /\ w.status \in ContactStatus
      /\ w.verdict \in Blocked \cup {"valid", "unverified"} /\ w.archived \in BOOLEAN
  BY DEF Contact
<1>4. w = [email |-> w.email, subscribed |-> w.subscribed, status |-> w.status,
           verdict |-> w.verdict, archived |-> w.archived]
  OBVIOUS
<1>5. w \in Contact
  <2> HIDE DEF w
  <2> QED  BY <1>3, <1>4 DEF Contact
<1> QED  BY <1>2, <1>5

\* An edit subscribes only if it says so.
LEMMA EditedRow ==
  ASSUME NEW c \in Contact, NEW change \in Changes
  PROVE  /\ Edited(c, change) \in Contact
         /\ Edited(c, change).subscribed /\ ~c.subscribed =>
               change \in [field : {"subscribed"}, value : {TRUE}]
                       \cup [field : {"status"}, value : {"active"}]
<1>1. CASE change \in [field : {"email"}, value : Addresses]
  <2>1. Edited(c, change) = [c EXCEPT !.email = Lower(change.value)]
    BY <1>1 DEF Edited
  <2> QED  BY <1>1, <2>1, FreshIsContact DEF Contact
<1>2. CASE change \in [field : {"subscribed"}, value : BOOLEAN]
  <2> DEFINE s == IF ~change.value /\ c.status = "active" THEN "unsubscribed"
                  ELSE IF change.value /\ c.status = "unsubscribed" THEN "active" ELSE c.status
  <2>1. Edited(c, change) = [c EXCEPT !.subscribed = change.value, !.status = s]
    BY <1>2 DEF Edited, Contact
  <2>2. s \in ContactStatus /\ change.value \in BOOLEAN
    BY <1>2 DEF Contact, ContactStatus
  <2>3. change.value => change \in [field : {"subscribed"}, value : {TRUE}]
    BY <1>2
  <2> HIDE DEF s
  <2> QED  BY <2>1, <2>2, <2>3 DEF Contact
<1>3. CASE change \in [field : {"status"}, value : EditStatuses]
  <2> DEFINE x == change.value = "archived" \/ (c.archived /\ change.value # "active")
             y == change.value = "active"
  <2>1. Edited(c, change) = [c EXCEPT !.status = change.value, !.subscribed = y, !.archived = x]
    BY <1>3 DEF Edited, Contact
  <2>2. change.value \in ContactStatus /\ x \in BOOLEAN /\ y \in BOOLEAN
    BY <1>3, ContactsAssumption
  <2>3. y => change \in [field : {"status"}, value : {"active"}]
    BY <1>3
  <2> HIDE DEF x, y
  <2> QED  BY <2>1, <2>2, <2>3 DEF Contact
<1> QED  BY <1>1, <1>2, <1>3 DEF Changes

\* A verdict subscribes nobody.
LEMMA JudgedRow ==
  ASSUME NEW c \in Contact, NEW v \in Verdicts
  PROVE  Judged(c, v) \in Contact /\ (Judged(c, v).subscribed => c.subscribed)
<1> DEFINE s == IF v = "invalid" THEN "bounced" ELSE IF v \in Blocked THEN "suppressed" ELSE c.status
           b == c.subscribed /\ v \notin Blocked
<1>1. Judged(c, v) = [c EXCEPT !.verdict = v, !.subscribed = b, !.status = s]
  BY DEF Judged, Contact
<1>2. /\ s \in ContactStatus /\ b \in BOOLEAN /\ v \in Blocked \cup {"valid", "unverified"}
      /\ b => c.subscribed
  BY ContactsAssumption DEF Contact, ContactStatus
<1> HIDE DEF s, b
<1> QED  BY <1>1, <1>2 DEF Contact

LEMMA ConsentInit == ContactsInit => ConsentInv
<1> SUFFICES ASSUME ContactsInit PROVE ConsentInv
  OBVIOUS
<1>1. contact \in [Ids -> AnyRow]
  BY FreshIsContact DEF ContactsInit, AnyRow
<1> QED  BY <1>1 DEF ContactsInit, ConsentInv, JobOk, Idle

\* Steps that leave the contacts alone need a good job only.
LEMMA JobKeepsConsent ==
  ASSUME ConsentInv, NEW t \in Requests, NEW r, JobOk(r), job' = [job EXCEPT ![t] = r],
         UNCHANGED contact
  PROVE  ConsentInv' /\ Consented
<1>1. ConsentInv'
  BY DEF ConsentInv
<1>2. Consented
  BY DEF Consented
<1> QED  BY <1>1, <1>2

\* Ending a request, with rows that are rows and subscribe nobody, keeps it, too.
LEMMA EndKeepsConsent ==
  ASSUME ConsentInv, NEW t \in Requests, job' = [job EXCEPT ![t] = Idle],
         NEW rows, rows \in [Ids -> AnyRow], contact' = rows,
         \A i \in Ids : There(i) /\ ~contact[i].subscribed /\ Exists(rows[i]) => ~rows[i].subscribed
  PROVE  ConsentInv' /\ Consented
<1>1. JobOk(Idle)
  BY DEF JobOk, Idle
<1>2. ConsentInv'
  BY <1>1 DEF ConsentInv
<1>3. Consented
  BY DEF Consented
<1> QED  BY <1>2, <1>3

LEMMA ListRequestsKeepConsent ==
  ASSUME ConsentInv, NEW t \in Requests, ListRequest(t) PROVE ConsentInv' /\ Consented
<1> USE DEF Begin, End, rowVars
<1>1. ASSUME NEW e \in Spelling, NEW s \in BOOLEAN, BeginCreate(t, e, s)
      PROVE  ConsentInv' /\ Consented
  <2> DEFINE r == [op |-> "create", row |-> Fresh(e, s)]
  <2>1. JobOk(r)
    BY FreshIsContact DEF JobOk
  <2>2. job' = [job EXCEPT ![t] = r] /\ UNCHANGED contact
    BY <1>1 DEF BeginCreate
  <2> HIDE DEF r
  <2> QED  BY <2>1, <2>2, JobKeepsConsent
<1>2. CASE FinishCreate(t)
  <2>1. PICK i \in Unborn : contact' = [contact EXCEPT ![i] = job[t].row]
    BY <1>2 DEF FinishCreate
  <2>2. job[t].row \in Contact /\ ~There(i)
    BY <1>2, OnlyContactsExist DEF FinishCreate, ConsentInv, JobOk, Unborn, There, Exists, NoRow, ContactStatus
  <2>3. contact' \in [Ids -> AnyRow]
    BY <2>1, <2>2 DEF ConsentInv, AnyRow
  <2>4. \A k \in Ids : There(k) /\ ~contact[k].subscribed /\ Exists(contact'[k]) => ~contact'[k].subscribed
    BY <2>1, <2>2 DEF ConsentInv
  <2>5. job' = [job EXCEPT ![t] = Idle]
    BY <1>2 DEF FinishCreate
  <2> QED  BY <2>3, <2>4, <2>5, EndKeepsConsent
<1>3. ASSUME NEW file \in SUBSET Addresses, BeginImport(t, file) PROVE ConsentInv' /\ Consented
  <2> DEFINE r == [op |-> "import", step |-> "read", rows |-> file, columns |-> FALSE]
  <2>1. JobOk(r)
    BY DEF JobOk
  <2>2. job' = [job EXCEPT ![t] = r] /\ UNCHANGED contact
    BY <1>3 DEF BeginImport
  <2> HIDE DEF r
  <2> QED  BY <2>1, <2>2, JobKeepsConsent
<1>4. CASE LookUpExisting(t)
  <2>1. PICK new \in BOOLEAN : job' = [job EXCEPT ![t].step = "upsert", ![t].columns = new,
                             ![t].rows = {a \in @ : Spelled(Lower(a)) = {}}]
    BY <1>4 DEF LookUpExisting
  <2> DEFINE r == [job[t] EXCEPT !.step = "upsert", !.columns = new,
                                 !.rows = {a \in @ : Spelled(Lower(a)) = {}}]
  <2>2. job' = [job EXCEPT ![t] = r]
    BY <2>1 DEF ConsentInv
  <2>3. r.op = "import" /\ job[t].rows \subseteq Addresses
    BY <1>4 DEF LookUpExisting, ConsentInv, JobOk
  <2>4. r.rows \in {{}, {a \in job[t].rows : Spelled(Lower(a)) = {}}} \/ r.rows = job[t].rows
    OBVIOUS
  <2>5. JobOk(r)
    BY <2>3, <2>4 DEF JobOk
  <2>6. UNCHANGED contact
    BY <1>4 DEF LookUpExisting
  <2> HIDE DEF r
  <2> QED  BY <2>2, <2>5, <2>6, JobKeepsConsent
<1>5. CASE FinishImport(t)
  <2> DEFINE rows == job[t].rows
             new  == {a \in rows : Spelled(Lower(a)) = {}}
  <2>1. PICK f \in [new -> Unborn] :
          contact' = [i \in Ids |->
                IF \E a \in new : f[a] = i THEN Fresh(Lower(CHOOSE a \in new : f[a] = i), TRUE)
                ELSE IF \E a \in rows : i \in Spelled(Lower(a)) THEN Upserted(contact[i])
                ELSE contact[i]]
    BY <1>5 DEF FinishImport
  <2>2. rows \subseteq Addresses
    BY <1>5 DEF FinishImport, ConsentInv, JobOk
  <2>3. \A i \in Ids : /\ contact'[i] \in AnyRow
                       /\ There(i) => contact'[i] = contact[i]
    <3> SUFFICES ASSUME NEW i \in Ids
                 PROVE  contact'[i] \in AnyRow /\ (There(i) => contact'[i] = contact[i])
      OBVIOUS
    <3>1. CASE \E a \in new : f[a] = i
      <4>1. i \in Unborn
        BY <3>1, <2>1
      <4>2. ~There(i)
        BY <4>1 DEF Unborn, There, Exists, NoRow, ContactStatus
      <4>3. (CHOOSE a \in new : f[a] = i) \in Addresses
        BY <3>1, <2>2
      <4>4. contact'[i] = Fresh(Lower(CHOOSE a \in new : f[a] = i), TRUE)
        BY <2>1, <3>1
      <4> QED  BY <4>2, <4>3, <4>4, FreshIsContact DEF AnyRow
    <3>2. CASE ~\E a \in new : f[a] = i
      <4>1. contact'[i] = contact[i]
        BY <3>2, <2>1 DEF Upserted
      <4> QED  BY <4>1 DEF ConsentInv
    <3> QED  BY <3>1, <3>2
  <2>4. contact' \in [Ids -> AnyRow]
    BY <2>1, <2>3
  <2>5. job' = [job EXCEPT ![t] = Idle]
    BY <1>5 DEF FinishImport
  <2> QED  BY <2>3, <2>4, <2>5, EndKeepsConsent
<1>6. ASSUME NEW i \in Ids, NEW change \in Changes, BeginEdit(t, i, change)
      PROVE  ConsentInv' /\ Consented
  <2> DEFINE r == [op |-> "edit", id |-> i, change |-> change, row |-> contact[i]]
  <2>1. contact[i] \in Contact
    BY <1>6, OnlyContactsExist DEF BeginEdit, ConsentInv, There
  <2>2. JobOk(r)
    BY <2>1 DEF JobOk
  <2>3. job' = [job EXCEPT ![t] = r] /\ UNCHANGED contact
    BY <1>6 DEF BeginEdit
  <2> HIDE DEF r
  <2> QED  BY <2>2, <2>3, JobKeepsConsent
<1>7. CASE FinishEdit(t)
  <2> DEFINE i   == job[t].id
             new == Edited(job[t].row, job[t].change)
             row == Written(contact[i], job[t].row, new)
  <2>1. /\ job[t].op = "edit" /\ There(i) /\ contact' = [contact EXCEPT ![i] = row]
        /\ job' = [job EXCEPT ![t] = Idle]
    BY <1>7 DEF FinishEdit
  <2>2. i \in Ids /\ job[t].change \in Changes /\ job[t].row \in Contact
    BY <2>1 DEF ConsentInv, JobOk
  <2>3. contact[i] \in Contact
    BY <2>1, <2>2, OnlyContactsExist DEF ConsentInv, There
  <2>4. /\ new \in Contact
        /\ new.subscribed /\ ~job[t].row.subscribed =>
             job[t].change \in [field : {"subscribed"}, value : {TRUE}]
                            \cup [field : {"status"}, value : {"active"}]
    BY <2>2, EditedRow
  <2>5. /\ row \in Contact
        /\ row.subscribed = IF new.subscribed # job[t].row.subscribed
                            THEN new.subscribed ELSE contact[i].subscribed
    BY <2>2, <2>3, <2>4, WrittenRow
  <2>6. row.subscribed /\ ~contact[i].subscribed =>
             job[t].change \in [field : {"subscribed"}, value : {TRUE}]
                            \cup [field : {"status"}, value : {"active"}]
    <3>1. job[t].row.subscribed \in BOOLEAN /\ new.subscribed \in BOOLEAN
      BY <2>2, <2>4 DEF Contact
    <3> QED  BY <2>4, <2>5, <3>1
  <2> HIDE DEF new, row
  <2>7. Consented
    BY <2>1, <2>2, <2>6 DEF Consented, ConsentInv
  <2>8. ConsentInv'
    <3>1. JobOk(Idle)
      BY DEF JobOk, Idle
    <3> QED  BY <2>1, <2>2, <2>5, <3>1 DEF ConsentInv, AnyRow
  <2> QED  BY <2>7, <2>8
<1>8. ASSUME NEW i \in Ids, BeginDelete(t, i) PROVE ConsentInv' /\ Consented
  <2> DEFINE r == [op |-> "delete", id |-> i]
  <2>1. JobOk(r)
    BY DEF JobOk
  <2>2. job' = [job EXCEPT ![t] = r] /\ UNCHANGED contact
    BY <1>8 DEF BeginDelete
  <2> HIDE DEF r
  <2> QED  BY <2>1, <2>2, JobKeepsConsent
<1>9. CASE FinishDelete(t)
  <2>1. contact' = [contact EXCEPT ![job[t].id] = NoRow("gone")] /\ job' = [job EXCEPT ![t] = Idle]
    BY <1>9 DEF FinishDelete
  <2>2. contact' \in [Ids -> AnyRow]
    BY <2>1 DEF ConsentInv, AnyRow
  <2>3. ~Exists(NoRow("gone"))
    BY DEF Exists, NoRow, ContactStatus
  <2>4. \A k \in Ids : There(k) /\ ~contact[k].subscribed /\ Exists(contact'[k]) => ~contact'[k].subscribed
    BY <2>1, <2>3 DEF ConsentInv
  <2> QED  BY <2>1, <2>2, <2>4, EndKeepsConsent
<1>10. ASSUME NEW gone \in BOOLEAN, NEW force \in BOOLEAN, BeginListChange(t, gone, force)
       PROVE  ConsentInv' /\ Consented
  <2> DEFINE r == [op |-> "list", gone |-> gone]
  <2>1. JobOk(r)
    BY DEF JobOk
  <2>2. job' = [job EXCEPT ![t] = r] /\ UNCHANGED contact
    BY <1>10 DEF BeginListChange
  <2> HIDE DEF r
  <2> QED  BY <2>1, <2>2, JobKeepsConsent
<1>11. CASE FinishListChange(t)
  <2>1. job' = [job EXCEPT ![t] = Idle] /\ contact' = contact /\ contact \in [Ids -> AnyRow]
    BY <1>11 DEF FinishListChange, ConsentInv
  <2> QED  BY <2>1, EndKeepsConsent
<1> QED  BY <1>1, <1>2, <1>3, <1>4, <1>5, <1>6, <1>7, <1>8, <1>9, <1>10, <1>11 DEF ListRequest

LEMMA OptOutRequestsKeepConsent ==
  ASSUME ConsentInv, NEW t \in Requests, OptOutRequest(t) PROVE ConsentInv' /\ Consented
<1> USE DEF Begin, End, rowVars
<1>1. ASSUME NEW a \in Addresses, NEW by \in {"address", "bounced", "unsubscribed"}, BeginOptOut(t, a, by)
      PROVE  ConsentInv' /\ Consented
  <2> DEFINE r == [op |-> "out", by |-> by, email |-> a, found |-> [b \in {a} |-> suppression[b]]]
  <2>1. JobOk(r)
    BY DEF JobOk
  <2>2. job' = [job EXCEPT ![t] = r] /\ UNCHANGED contact
    BY <1>1 DEF BeginOptOut
  <2> HIDE DEF r
  <2> QED  BY <2>1, <2>2, JobKeepsConsent
<1>2. CASE FinishOptOut(t)
  <2> DEFINE out == OptedOut(job[t].email, job[t].by)
  <2>1. /\ contact' = [i \in Ids |-> IF i \in out
                          THEN [contact[i] EXCEPT !.subscribed = FALSE] ELSE contact[i]]
        /\ job' = [job EXCEPT ![t] = Idle] /\ job[t].op = "out"
    BY <1>2 DEF FinishOptOut
  <2>2. job[t].by \in {"address", "bounced", "unsubscribed"}
    BY <2>1 DEF ConsentInv, JobOk
  <2>3. \A i \in out : There(i)
    BY <2>2 DEF OptedOut, HasAddress
  <2>4. \A i \in Ids : /\ contact'[i] \in AnyRow
                       /\ There(i) /\ ~contact[i].subscribed => ~contact'[i].subscribed
    <3> SUFFICES ASSUME NEW i \in Ids
                 PROVE  /\ contact'[i] \in AnyRow
                        /\ There(i) /\ ~contact[i].subscribed => ~contact'[i].subscribed
      OBVIOUS
    <3>1. CASE i \in out
      <4>1. contact[i] \in Contact
        BY <2>3, <3>1, OnlyContactsExist DEF ConsentInv, There
      <4>2. contact'[i] = [contact[i] EXCEPT !.subscribed = FALSE]
        BY <2>1, <3>1
      <4> QED  BY <4>1, <4>2 DEF Contact, AnyRow
    <3>2. CASE i \notin out
      BY <2>1, <3>2 DEF ConsentInv
    <3> QED  BY <3>1, <3>2
  <2>5. contact' \in [Ids -> AnyRow]
    BY <2>1, <2>4
  <2> QED  BY <2>1, <2>4, <2>5, EndKeepsConsent
<1>3. ASSUME NEW a \in Addresses, BeginLift(t, a) PROVE ConsentInv' /\ Consented
  <2> DEFINE r == [op |-> "lift", found |-> [b \in {a} |-> suppression[b]]]
  <2>1. JobOk(r)
    BY DEF JobOk
  <2>2. job' = [job EXCEPT ![t] = r] /\ UNCHANGED contact
    BY <1>3 DEF BeginLift
  <2> HIDE DEF r
  <2> QED  BY <2>1, <2>2, JobKeepsConsent
<1>4. CASE FinishLift(t)
  <2>1. job' = [job EXCEPT ![t] = Idle] /\ contact' = contact /\ contact \in [Ids -> AnyRow]
    BY <1>4 DEF FinishLift, ConsentInv
  <2> QED  BY <2>1, EndKeepsConsent
<1>5. ASSUME NEW who \in SUBSET Ids, BeginVerify(t, who) PROVE ConsentInv' /\ Consented
  <2> DEFINE r == [op |-> "verify", step |-> "asked", rows |-> [i \in who |-> contact[i]]]
  <2>1. \A i \in who : contact[i] \in Contact
    BY <1>5, OnlyContactsExist DEF BeginVerify, ConsentInv, There
  <2>2. JobOk(r)
    BY <2>1 DEF JobOk
  <2>3. job' = [job EXCEPT ![t] = r] /\ UNCHANGED contact
    BY <1>5 DEF BeginVerify
  <2> HIDE DEF r
  <2> QED  BY <2>2, <2>3, JobKeepsConsent
<1>6. CASE Judge(t)
  <2> DEFINE Found(v) == [a \in {job[t].rows[i].email.address : i \in {k \in DOMAIN v : v[k] \in Blocked}}
                             |-> suppression[a]]
  <2>1. PICK v \in [DOMAIN job[t].rows -> Verdicts] :
             job' = [job EXCEPT ![t] = [op |-> "verify", step |-> "judged", rows |-> job[t].rows,
                                        verdicts |-> v, found |-> Found(v)]]
    BY <1>6 DEF Judge
  <2> DEFINE r == [op |-> "verify", step |-> "judged", rows |-> job[t].rows,
                   verdicts |-> v, found |-> Found(v)]
  <2>2. JobOk(job[t]) /\ job[t].op = "verify"
    BY <1>6 DEF Judge, ConsentInv
  <2>3. JobOk(r)
    BY <2>2 DEF JobOk
  <2>4. job' = [job EXCEPT ![t] = r] /\ UNCHANGED contact
    BY <1>6, <2>1 DEF Judge
  <2> HIDE DEF r
  <2> QED  BY <2>3, <2>4, JobKeepsConsent
<1>7. CASE FinishVerify(t)
  <2> DEFINE rows == job[t].rows
             v    == job[t].verdicts
  <2>1. /\ contact' = [i \in Ids |-> IF i \in DOMAIN rows
                          THEN Written(contact[i], rows[i], Judged(rows[i], v[i])) ELSE contact[i]]
        /\ job' = [job EXCEPT ![t] = Idle]
        /\ \A i \in DOMAIN rows : There(i)
    BY <1>7 DEF FinishVerify
  <2>2. /\ \A i \in DOMAIN rows : rows[i] \in Contact /\ v[i] \in Verdicts
        /\ DOMAIN rows \subseteq Ids
    BY <1>7 DEF FinishVerify, ConsentInv, JobOk
  <2>3. \A i \in Ids : /\ contact'[i] \in AnyRow
                       /\ There(i) /\ ~contact[i].subscribed => ~contact'[i].subscribed
    <3> SUFFICES ASSUME NEW i \in Ids
                 PROVE  /\ contact'[i] \in AnyRow
                        /\ There(i) /\ ~contact[i].subscribed => ~contact'[i].subscribed
      OBVIOUS
    <3>1. CASE i \in DOMAIN rows
      <4> DEFINE new == Judged(rows[i], v[i])
      <4>1. contact[i] \in Contact
        BY <2>1, <3>1, OnlyContactsExist DEF ConsentInv, There
      <4>2. new \in Contact /\ (new.subscribed => rows[i].subscribed)
        BY <2>2, <3>1, JudgedRow
      <4>3. contact'[i] = Written(contact[i], rows[i], new)
        BY <2>1, <3>1
      <4>4. rows[i].subscribed \in BOOLEAN /\ new.subscribed \in BOOLEAN
        BY <2>2, <3>1, <4>2 DEF Contact
      <4> HIDE DEF new
      <4>5. /\ contact'[i] \in Contact
            /\ contact'[i].subscribed = IF new.subscribed # rows[i].subscribed
                                        THEN new.subscribed ELSE contact[i].subscribed
        BY <2>2, <3>1, <4>1, <4>2, <4>3, WrittenRow
      <4> QED  BY <4>2, <4>4, <4>5 DEF AnyRow
    <3>2. CASE i \notin DOMAIN rows
      BY <2>1, <3>2 DEF ConsentInv
    <3> QED  BY <3>1, <3>2
  <2>4. contact' \in [Ids -> AnyRow]
    BY <2>1, <2>3
  <2> QED  BY <2>1, <2>3, <2>4, EndKeepsConsent
<1> QED  BY <1>1, <1>2, <1>3, <1>4, <1>5, <1>6, <1>7 DEF OptOutRequest

LEMMA ConsentStep == ConsentInv /\ [ContactsNext]_contactsVars => ConsentInv' /\ Consented
<1> SUFFICES ASSUME ConsentInv, [ContactsNext]_contactsVars PROVE ConsentInv' /\ Consented
  OBVIOUS
<1>1. ASSUME NEW t \in Requests, Abandon(t) PROVE ConsentInv' /\ Consented
  <2>1. job' = [job EXCEPT ![t] = Idle] /\ contact' = contact /\ contact \in [Ids -> AnyRow]
    BY <1>1 DEF Abandon, End, rowVars, ConsentInv
  <2> QED  BY <2>1, EndKeepsConsent
<1>2. CASE Mailing \/ UNCHANGED contactsVars
  <2>1. UNCHANGED <<contact, job>>
    BY <1>2 DEF Mailing, contactsVars, rowVars, askVars, BeginLaunch, FinishLaunch, AbandonLaunch,
                ClaimRecipients, ProcessRecipient, CommitBatch
  <2> QED  BY <2>1 DEF ConsentInv, Consented
<1> QED  BY <1>1, <1>2, ListRequestsKeepConsent, OptOutRequestsKeepConsent DEF ContactsNext

\* Nobody is subscribed again but by an edit that says so, whatever imports, verdicts and
\* stale writes overlap (bulk_upsert, update_contact, _apply_verification_result).
THEOREM ConsentIsGiven == ContactsSpec => ConsentLasts
<1>1. ConsentInv /\ [ContactsNext]_contactsVars => [Consented]_contactsVars
  BY ConsentStep
<1>2. ContactsSpec => [][Consented]_contactsVars
  BY <1>1, ConsentInit, ConsentStep, PTL DEF ContactsSpec
<1>3. [Consented]_contactsVars <=>
      [\A i \in Ids :
          There(i) /\ ~contact[i].subscribed /\ Exists(contact'[i]) /\ contact'[i].subscribed =>
             \E t \in Requests :
                /\ job[t].op = "edit" /\ job[t].id = i /\ job'[t] = Idle
                /\ job[t].change \in [field : {"subscribed"}, value : {TRUE}]
                                  \cup [field : {"status"}, value : {"active"}]]_contactsVars
  BY DEF Consented
<1> QED  BY <1>2, <1>3, PTL DEF ConsentLasts

=============================================================================
