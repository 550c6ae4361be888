-------------------------- MODULE CampaignLifecycle --------------------------
(***************************************************************************)
(* The life of one campaign between its creation and its archive: the API  *)
(* requests that edit, review, schedule, launch, pause, cancel, archive,   *)
(* restore and delete it, the worker that launches and processes it, and   *)
(* the audience, a snapshot of a contact list that goes on changing.       *)
(*                                                                         *)
(* A request or a batch is a transaction: it reads the campaign without a  *)
(* lock, decides, and writes the columns it changed.  With Overlap others  *)
(* may commit between the two; without, each has the campaign for itself.  *)
(***************************************************************************)
EXTENDS Integers

CONSTANTS
    People,         \* contacts, by normalized address
    Lists,          \* contact lists
    NoList,         \* the recipients come from no list: there are none
    Txns,           \* transactions that may be open at once
    Overlap,        \* whether they overlap
    MaxMails,       \* bound: mails counted per person
    MaxLost         \* bound: mails per person the database knows nothing of

ASSUME LifecycleAssumption ==
    /\ NoList \notin Lists
    /\ Overlap \in BOOLEAN
    /\ MaxLost \in Nat
    /\ MaxMails \in Nat /\ MaxMails > MaxLost + 1

VARIABLES
    campaign,   \* the committed campaigns row
    rows,       \* status of the committed campaign_recipients, by person
    origin,     \* the list the recipients were drawn from
    members,    \* eligible contacts of each list
    job,        \* of each open transaction: the campaign it has read, the campaign it
                \* writes, and the contacts a snapshot has found in the list
    mailed,     \* mails of the campaign the provider took for each person, up to the bound
    lost        \* those of them that are recorded nowhere, or as failures

mailVars == <<mailed, lost>>
lifeVars == <<campaign, rows, origin, members, job, mailVars>>

\* Statuses that get committed: "launching" lasts within a transaction only, and no
\* code sets "failed".
Statuses == {"draft", "ready", "scheduled", "running", "paused", "completed",
             "cancelled", "archived"}

\* launched, completed, cancelled and deleted: whether the column ..._at is set;
\* counted: whether total_recipients is positive.
Campaign == [status : Statuses, list : Lists, counted : BOOLEAN, launched : BOOLEAN,
             completed : BOOLEAN, cancelled : BOOLEAN, deleted : BOOLEAN]

Ops == {"edit", "limits", "review", "schedule", "launch", "pause", "resume", "cancel",
        "archive", "restore", "delete", "process"}

\* create_campaign and duplicate_campaign.
Created(l) ==
    [status |-> "draft", list |-> l, counted |-> FALSE, launched |-> FALSE,
     completed |-> FALSE, cancelled |-> FALSE, deleted |-> FALSE]

NoJob == [op |-> "idle", seen |-> Created(CHOOSE l \in Lists : TRUE),
          new |-> Created(CHOOSE l \in Lists : TRUE), audience |-> {}]

LifecycleTypeOK ==
    /\ campaign \in Campaign
    /\ rows \in [People -> {"none", "pending", "sent", "skipped"}]
    /\ origin \in Lists \cup {NoList}
    /\ members \in [Lists -> SUBSET People]
    /\ job \in [Txns -> [op : Ops \cup {"idle"}, seen : Campaign, new : Campaign,
                       audience : SUBSET People]]
    /\ mailed \in [People -> 0..MaxMails]
    /\ lost \in [People -> 0..MaxLost]

LifeInit ==
    /\ campaign \in {Created(l) : l \in Lists}
    /\ rows = [p \in People |-> "none"]
    /\ origin = NoList
    /\ members \in [Lists -> SUBSET People]
    /\ job = [t \in Txns |-> NoJob]
    /\ mailed = [p \in People |-> 0]
    /\ lost = [p \in People |-> 0]

-----------------------------------------------------------------------------
(* Status changes. *)

\* Mutant: a paused campaign may be scheduled again.
PausedReschedules == {"running", "scheduled", "cancelled"}

\* _ALLOWED_STATUS_TRANSITIONS of "paused" ...
AllowedIfPaused == {"running", "cancelled"}

\* ... and of every status.
Allowed(from) ==
    CASE from = "paused" -> AllowedIfPaused
      [] from = "draft" -> {"ready", "cancelled", "archived"}
      [] from = "ready" -> {"draft", "scheduled", "launching", "cancelled", "archived"}
      [] from = "scheduled" -> {"launching", "cancelled", "archived"}
      [] from = "launching" -> {"running", "failed", "cancelled"}
      [] from = "running" -> {"paused", "completed", "failed", "cancelled"}
      [] from \in {"completed", "cancelled"} -> {"archived"}
      [] from = "failed" -> {"draft", "ready", "launching", "archived"}
      [] from = "archived" -> {}

MayMove(c, to) == c.status = to \/ to \in Allowed(c.status)

\* _transition_campaign: the same status is no transition.
Move(c, to) ==
    IF c.status = to THEN c
    ELSE [c EXCEPT !.status = to,
                   !.launched = @ \/ to = "running",
                   !.completed = @ \/ to = "completed",
                   !.cancelled = @ \/ to = "cancelled",
                   !.deleted = @ /\ to # "archived"]

Editable(c) == c.status \in {"draft", "ready", "failed"}

\* review_campaign: an audience is what it asks for here; drafts become ready.
Reviewed(c) == members[c.list] # {}
AfterReview(c) == IF c.status \in {"draft", "failed"} THEN Move(c, "ready") ELSE c

\* launch_campaign: by way of "launching".
Launched(c) == Move(Move(AfterReview(c), "launching"), "running")

\* Mutant: what was not launched is restored as a draft, cancelled or not.
RestoreByLaunch(c) == [c EXCEPT !.status = IF c.launched THEN "completed" ELSE "draft"]

\* restore_campaign goes by the timestamps, not by the table.
Restored(c) ==
    [c EXCEPT !.status = IF c.completed THEN "completed"
                         ELSE IF c.cancelled THEN "cancelled" ELSE "draft"]

\* The checks at the head of each operation, on the campaign c it has read.
MayRun(op, c) ==
    /\ ~c.deleted
    /\ CASE op \in {"edit", "limits"} -> Editable(c) /\ MayMove(c, "draft")
         [] op = "review" -> Reviewed(c)
         [] op = "schedule" -> Reviewed(c) /\ MayMove(AfterReview(c), "scheduled")
         [] op = "launch" -> (Editable(c) \/ c.status = "scheduled") /\ Reviewed(c)
         [] op = "process" -> c.status = "running" \/ (c.status = "scheduled" /\ Reviewed(c))
         [] op = "pause" -> c.status = "running"
         [] op = "resume" -> c.status = "paused" /\ Reviewed(c)
         [] op = "cancel" -> /\ c.status \notin {"completed", "cancelled", "archived"}
                             /\ MayMove(c, "cancelled")
         [] op = "archive" -> c.status # "running" /\ MayMove(c, "archived")
         [] op = "restore" -> c.status = "archived"
         [] op = "delete" -> c.status # "running"

\* The campaign as operation op leaves it; an edit chooses list l.
AfterOp(op, c, l) ==
    CASE op = "edit" -> Move([c EXCEPT !.list = l, !.counted = FALSE], "draft")
      [] op = "limits" -> Move(c, "draft")
      [] op = "review" -> AfterReview(c)
      [] op = "schedule" -> [Move(AfterReview(c), "scheduled") EXCEPT !.counted = TRUE]
      [] op = "launch" -> [Launched(c) EXCEPT !.counted = TRUE]
      [] op = "process" -> IF c.status = "scheduled" THEN Launched(c) ELSE c
      [] op = "pause" -> Move(c, "paused")
      [] op = "resume" -> Move(c, "running")
      [] op = "cancel" -> Move(c, "cancelled")
      [] op = "archive" -> Move(c, "archived")
      [] op = "restore" -> Restored(c)
      [] op = "delete" -> [IF c.status = "scheduled" THEN Move(c, "cancelled") ELSE c
                             EXCEPT !.deleted = TRUE]

-----------------------------------------------------------------------------
(* Transactions. *)

\* Mutant: an edit leaves the recipients alone.
DeletesNothing(op) == FALSE

\* Operations that delete the recipients: delete_recipients.
Deletes(op) == op = "edit"

\* Operations that snapshot the audience again, whatever was snapshotted before.
Snapshots(op, c) == op = "schedule" \/ (op = "launch" /\ ~c.counted)

\* What an UPDATE of the columns changed since `old` was read makes of `current`.
MergeColumns(old, new, current) ==
    [c \in DOMAIN current |-> IF new[c] = old[c] THEN current[c] ELSE new[c]]

\* A request or a batch reads the campaign and checks it; an edit names list l.
Begin(t, op, l) ==
    /\ job[t].op = "idle"
    /\ Overlap \/ \A u \in Txns : job[u].op = "idle"
    /\ MayRun(op, campaign)
    /\ job' = [job EXCEPT ![t] = [op |-> op, seen |-> campaign,
                                  new |-> AfterOp(op, campaign, l),
                                  audience |-> IF Snapshots(op, campaign)
                                               THEN members[campaign.list] ELSE {}]]
    /\ UNCHANGED <<campaign, rows, origin, members, mailVars>>

\* The end of an operation on the campaign c, leaving recipients rs drawn from list l.
CommitWith(t, c, rs, l) ==
    /\ campaign' = MergeColumns(job[t].seen, c, campaign)
    /\ rows' = rs
    /\ origin' = l
    /\ job' = [job EXCEPT ![t] = NoJob]
    /\ UNCHANGED members

\* Operations that leave the recipients alone, delete them or snapshot them.
CommitRequest(t) ==
    LET j == job[t] IN
    /\ j.op \notin {"idle", "cancel", "process"}
    /\ IF Snapshots(j.op, j.seen)
       THEN CommitWith(t, j.new, [p \in People |-> IF p \in j.audience THEN "pending" ELSE "none"],
                       j.seen.list)
       ELSE IF Deletes(j.op)
       THEN CommitWith(t, j.new, [p \in People |-> "none"], NoList)
       ELSE CommitWith(t, j.new, rows, origin)
    /\ UNCHANGED mailVars

\* cancel_campaign skips every unfinished recipient.
CommitCancel(t) ==
    /\ job[t].op = "cancel"
    /\ CommitWith(t, job[t].new,
                  [p \in People |-> IF rows[p] = "pending" THEN "skipped" ELSE rows[p]], origin)
    /\ UNCHANGED mailVars

\* Mutant: mailed recipients keep their status.
ForgetSent(sent, skipped) == [p \in People |-> IF p \in skipped THEN "skipped" ELSE rows[p]]

\* The recipients after a batch.
AfterBatch(sent, skipped) ==
    [p \in People |-> IF p \in sent THEN "sent"
                      ELSE IF p \in skipped THEN "skipped" ELSE rows[p]]

Waiting == {p \in People : rows[p] = "pending"}

\* The provider takes a mail for each of `sent` and of `gone`; of the latter nobody knows.
MailsLeave(sent, gone) ==
    /\ gone # {} => \A p \in People : lost[p] < MaxLost
    /\ mailed' = [p \in People |-> IF p \in sent \cup gone /\ mailed[p] < MaxMails
                                   THEN mailed[p] + 1 ELSE mailed[p]]
    /\ lost' = [p \in People |-> IF p \in gone THEN lost[p] + 1 ELSE lost[p]]

\* process_campaign: some due recipients are mailed, some are skipped as no longer
\* eligible or given up; when none is left the campaign is complete.  Where the answer of
\* the provider was lost, the mail counts as failed: it is tried again or given up.
CommitBatch(t) ==
    /\ job[t].op = "process"
    /\ \E sent \in SUBSET Waiting : \E skipped, gone \in SUBSET (Waiting \ sent) :
        LET rs == AfterBatch(sent, skipped)
            done == \A p \in People : rs[p] # "pending"
            c == job[t].new
        IN  /\ CommitWith(t, IF done /\ c.counted THEN Move(c, "completed") ELSE c, rs, origin)
            /\ MailsLeave(sent, gone)

\* A batch that mailed some recipients is rolled back, its launch included; the mails are
\* out.
LoseBatch(t) ==
    /\ job[t].op = "process"
    /\ \E gone \in SUBSET Waiting \ {{}} : MailsLeave({}, gone)
    /\ job' = [job EXCEPT ![t] = NoJob]
    /\ UNCHANGED <<campaign, rows, origin, members>>

\* An operation that is refused or fails before a mail is out leaves nothing behind.
Abandon(t) ==
    /\ job[t].op # "idle"
    /\ job' = [job EXCEPT ![t] = NoJob]
    /\ UNCHANGED <<campaign, rows, origin, members, mailVars>>

\* Contacts join and leave the lists, and become ineligible.
ChangeList(l, p) ==
    /\ members' = [members EXCEPT ![l] = IF p \in @ THEN @ \ {p} ELSE @ \cup {p}]
    /\ UNCHANGED <<campaign, rows, origin, job, mailVars>>

-----------------------------------------------------------------------------
LifeNext ==
    \/ \E t \in Txns, op \in Ops, l \in Lists : Begin(t, op, l)
    \/ \E t \in Txns : CommitRequest(t) \/ CommitCancel(t) \/ CommitBatch(t) \/ LoseBatch(t)
                       \/ Abandon(t)
    \/ \E l \in Lists, p \in People : ChangeList(l, p)

LifeSpec == LifeInit /\ [][LifeNext]_lifeVars

-----------------------------------------------------------------------------
(* Properties. *)

\* The audience is what the campaign says: recipients come from the list the campaign
\* names, however it was edited, scheduled, archived and restored before
\* (update_campaign deletes the recipients, launch_campaign reuses those it finds).
AudienceOfTheList == origin \in {campaign.list, NoList}

\* Once launched, the audience is immutable: no recipient is added, removed or taken
\* back (edits, schedules and launches replace recipients, and are refused by then).
ImmutableAudience ==
    [][campaign.launched =>
        \A p \in People :
            rows'[p] = rows[p] \/ (rows[p] = "pending" /\ rows'[p] # "none")]_lifeVars

\* Through archive, restore, edit and relaunch nobody gets more than one mail of a campaign
\* besides those the database has lost track of: a second mail needs a batch that was rolled
\* back after the provider took the first, or an answer that was lost, a third needs two.
MailedOnce == \A p \in People : mailed[p] <= 1 + lost[p]

\* A cancelled, completed or deleted campaign sends nothing any more, not even after it
\* was archived and restored.
SilentAfterTheEnd ==
    [][campaign.cancelled \/ campaign.completed \/ campaign.deleted
        => mailed' = mailed]_lifeVars

=============================================================================
