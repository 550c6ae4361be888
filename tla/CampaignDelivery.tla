-------------------------- MODULE CampaignDelivery --------------------------
(***************************************************************************)
(* Delivery of one single-email campaign: Dramatiq workers that process    *)
(* batches of its recipients, API requests that pause, resume or cancel    *)
(* it, and the scheduler that keeps enqueueing batches.  Every worker      *)
(* batch and every request is one PostgreSQL transaction (READ COMMITTED): *)
(* others see its writes only when it commits, it sees the last committed  *)
(* rows of others at each statement, and the campaign object it loaded     *)
(* first is never read again.                                              *)
(***************************************************************************)
EXTENDS Naturals, FiniteSets

CONSTANTS
    Recipients,     \* rows of campaign_recipients, snapshotted at schedule time
    Workers,        \* Dramatiq worker threads (and the /process endpoint)
    Requests,       \* API request handlers running at the same time
    Nobody,         \* no transaction holds the lock
    ApiOps,         \* the requests users send: a subset of pause, resume, cancel
    Outcomes,       \* what a provider call may end in, see ProviderOutcomes
    WindowMayClose, \* whether the sending window has closed hours
    SenderStates,   \* what becomes of the sender account, see SenderState
    BatchSize,      \* campaign.batch_size
    DailyLimit,     \* campaign.daily_limit
    MaxAttempts,    \* attempts before a recipient fails (3 in the code)
    MaxJobs,        \* bound: batches waiting in the queue
    MaxRollbacks    \* bound: transactions that do not commit

Txns == Workers \cup Requests

\* "accepted": the provider took the mail and said so.  "rejected": it did
\* not take it.  "timeout": it took it, the answer was lost, and the connected
\* account sender reports a ServerError like any other failure.  "uncertain":
\* a sender that lets the timeout through.  "unwired": the sender could not be
\* built after the message was marked as sending.  "unrendered": a template
\* variable is missing, before the message is touched.
ProviderOutcomes ==
    {"accepted", "rejected", "timeout", "uncertain", "unwired", "unrendered"}

\* Whether the account is active, and what sending_limit leaves of it (sending_limit less
\* daily_sent_count).  Both belong to other requests, other campaigns and background loops.
SenderState == [active : BOOLEAN, left : Nat]

ASSUME DeliveryAssumption ==
    /\ Recipients # {}
    /\ IsFiniteSet(Recipients)
    /\ Workers \cap Requests = {}
    /\ Nobody \notin Txns
    /\ ApiOps \subseteq {"pause", "resume", "cancel"}
    /\ Outcomes \subseteq ProviderOutcomes
    /\ WindowMayClose \in BOOLEAN
    /\ SenderStates \subseteq SenderState /\ SenderStates # {}
    /\ {BatchSize, DailyLimit, MaxAttempts, MaxJobs} \subseteq Nat \ {0}
    /\ MaxRollbacks \in Nat

VARIABLES
    cstatus,    \* campaign.status as committed
    row,        \* recipient rows and their logical messages, as committed
    today,      \* recipients whose message carries a sent_at of today
    suppressed, \* recipients a batch finds ineligible just before sending
    jobs,       \* process_campaign_batch messages in the queue
    rollbacks,
    pc,         \* step of each worker's batch
    allowance,  \* batch_limit computed by each worker
    todo,       \* recipients of the batch not processed yet
    draft,      \* the batch's uncommitted version of the rows it claimed
    accepted,   \* recipients whose accepted mail the open batch has recorded
    cwrite,     \* campaign.status the open batch will write
    req,        \* step of each request
    held,       \* recipient row locks of each transaction
    clock,      \* holder of the campaign row lock
    acct,       \* holder of the sender account row lock
    inbox,      \* mails the provider accepted, per recipient
    doubt,      \* accepted mails the database has no record of
    sender,     \* the sender account
    cancelled   \* whether a cancel request has ever committed

campaignVars == <<cstatus, row, today, cancelled>>
workerVars   == <<pc, allowance, todo, draft, accepted, cwrite>>
lockVars     == <<held, clock, acct>>
worldVars    == <<inbox, doubt, sender>>
vars == <<campaignVars, suppressed, jobs, rollbacks, workerVars, req, lockVars,
          worldVars>>

Row == [status : {"pending", "sent", "failed", "skipped"},
        tries  : 0..MaxAttempts,
        wait   : {"none", "now", "later", "tomorrow"},
        msg    : {"pending", "sending", "sent", "failed", "uncertain"}]

\* A recipient as _snapshot_recipients inserts it.
FreshRow == [status |-> "pending", tries |-> 0, wait |-> "now", msg |-> "pending"]

Terminal(x) == x.status # "pending"

TypeOK ==
    /\ cstatus \in {"scheduled", "running", "paused", "cancelled", "completed"}
    /\ row \in [Recipients -> Row]
    /\ today \subseteq Recipients
    /\ suppressed \subseteq Recipients
    /\ jobs \in 0..MaxJobs
    /\ rollbacks \in 0..MaxRollbacks
    /\ pc \in [Workers -> {"idle", "launch", "limits", "defer", "claim", "batch",
                           "account", "commit"}]
    /\ allowance \in [Workers -> Nat]
    /\ todo \in [Workers -> SUBSET Recipients]
    /\ draft \in [Workers -> [Recipients -> Row]]
    /\ accepted \in [Workers -> SUBSET Recipients]
    /\ cwrite \in [Workers -> {"none", "running", "completed"}]
    /\ req \in [Requests -> {"idle", "pause", "resume", "cancel", "drain"}]
    /\ held \in [Txns -> SUBSET Recipients]
    /\ clock \in Txns \cup {Nobody}
    /\ acct \in Workers \cup {Nobody}
    /\ inbox \in [Recipients -> Nat]
    /\ doubt \in [Recipients -> Nat]
    /\ sender \in SenderStates
    /\ cancelled \in BOOLEAN

Init ==
    /\ cstatus \in {"scheduled", "running"}
    /\ row = [r \in Recipients |-> FreshRow]
    /\ today = {}
    /\ suppressed = {}
    /\ jobs = 0
    /\ rollbacks = 0
    /\ pc = [w \in Workers |-> "idle"]
    /\ allowance = [w \in Workers |-> 0]
    /\ todo = [w \in Workers |-> {}]
    /\ draft = [w \in Workers |-> [r \in Recipients |-> FreshRow]]
    /\ accepted = [w \in Workers |-> {}]
    /\ cwrite = [w \in Workers |-> "none"]
    /\ req = [a \in Requests |-> "idle"]
    /\ held = [t \in Txns |-> {}]
    /\ clock = Nobody
    /\ acct = Nobody
    /\ inbox = [r \in Recipients |-> 0]
    /\ doubt = [r \in Recipients |-> 0]
    /\ sender \in SenderStates
    /\ cancelled = FALSE

-----------------------------------------------------------------------------
(* Queries and helpers *)

\* next_attempt_at has come for a pending recipient.
Due(r) == row[r].status = "pending" /\ row[r].wait = "now"

LockedByBatches(t, r) == \E u \in Workers \ {t} : r \in held[u]

LockedByOthers(t, r) == \E u \in Txns \ {t} : r \in held[u]

ForgetOwnWrites(w, r) == row[r]

\* Rows a statement of worker w reads: its own writes, else the committed row.
View(w, r) == IF r \in held[w] THEN draft[w][r] ELSE row[r]

\* campaign.daily_limit less the committed messages sent since local midnight.
DailyRemaining ==
    LET sent == Cardinality({r \in today : row[r].msg = "sent"})
    IN  IF sent < DailyLimit THEN DailyLimit - sent ELSE 0

Min2(m, n) == IF m < n THEN m ELSE n

\* FOR UPDATE SKIP LOCKED over the due recipients; which ids come first does
\* not matter here, how many does.
ListDueRecipients(w) ==
    LET free == {r \in Recipients : Due(r) /\ ~LockedByOthers(w, r)}
    IN  {S \in SUBSET free :
            Cardinality(S) = Min2(allowance[w], Cardinality(free))}

RetryOnceTooOften(x, m) ==
    IF x.tries < MaxAttempts
    THEN [x EXCEPT !.tries = @ + 1, !.wait = "later", !.msg = m]
    ELSE [status |-> "failed", tries |-> x.tries + 1, wait |-> "none", msg |-> m]

\* A definite failure: back off and retry, or give up after MaxAttempts.
RecordSendFailure(x, m) ==
    IF x.tries + 1 < MaxAttempts
    THEN [x EXCEPT !.tries = @ + 1, !.wait = "later", !.msg = m]
    ELSE [status |-> "failed", tries |-> x.tries + 1, wait |-> "none", msg |-> m]

MarkSent(x) ==
    [status |-> "sent", tries |-> x.tries + 1, wait |-> "none", msg |-> "sent"]

MarkUncertain(x) ==
    [status |-> "failed", tries |-> x.tries + 1, wait |-> "none", msg |-> "uncertain"]

MarkSkipped(x) == [x EXCEPT !.status = "skipped", !.wait = "none"]

\* Commit and rollback end the transaction of worker w and free its locks.
EndTxn(w) ==
    /\ pc' = [pc EXCEPT ![w] = "idle"]
    /\ allowance' = [allowance EXCEPT ![w] = 0]
    /\ todo' = [todo EXCEPT ![w] = {}]
    /\ draft' = [draft EXCEPT ![w] = [r \in Recipients |-> FreshRow]]
    /\ accepted' = [accepted EXCEPT ![w] = {}]
    /\ cwrite' = [cwrite EXCEPT ![w] = "none"]
    /\ held' = [held EXCEPT ![w] = {}]
    /\ clock' = IF clock = w THEN Nobody ELSE clock
    /\ acct' = IF acct = w THEN Nobody ELSE acct

-----------------------------------------------------------------------------
(* The scheduler and the worker's batch *)


\* Every 30 seconds, whatever is already queued or running.
EnqueueDueCampaigns ==
    /\ jobs < MaxJobs
    /\ cstatus = "scheduled" \/ (cstatus = "running" /\ \E r \in Recipients : Due(r))
    /\ jobs' = jobs + 1
    /\ UNCHANGED <<campaignVars, suppressed, rollbacks, workerVars, req, lockVars,
                   worldVars>>

\* The batch loads the campaign; a job for a campaign that is neither
\* scheduled nor running is dropped.
Begin(w) ==
    /\ pc[w] = "idle"
    /\ jobs > 0
    /\ jobs' = jobs - 1
    /\ \/ cstatus = "scheduled" /\ pc' = [pc EXCEPT ![w] = "launch"]
       \/ cstatus = "running" /\ pc' = [pc EXCEPT ![w] = "limits"]
       \/ cstatus \notin {"scheduled", "running"} /\ UNCHANGED pc
    /\ UNCHANGED <<campaignVars, suppressed, rollbacks, allowance, todo, draft,
                   accepted, cwrite, req, lockVars, worldVars>>

\* The review of the launch or the batch itself finds the account inactive: the error rolls
\* everything back, and the job is not retried.
RefuseBatch(w) ==
    /\ pc[w] \in {"launch", "limits"}
    /\ ~sender.active
    /\ EndTxn(w)
    /\ UNCHANGED <<campaignVars, suppressed, jobs, rollbacks, req, worldVars>>

\* launch_campaign from the batch, once its review found the account active: the flush of the new status takes the
\* campaign row lock until the batch ends.
LaunchCampaign(w) ==
    /\ pc[w] = "launch"
    /\ clock = Nobody
    /\ clock' = w
    /\ cwrite' = [cwrite EXCEPT ![w] = "running"]
    /\ pc' = [pc EXCEPT ![w] = "limits"]
    /\ UNCHANGED <<campaignVars, suppressed, jobs, rollbacks, allowance, todo, draft,
                   accepted, req, held, acct, worldVars>>

LimitsAllow(w, limit) ==
    /\ pc[w] = "limits"
    /\ \E outside \in {FALSE, WindowMayClose} :
         /\ outside \/ sender.active
         /\ pc' = [pc EXCEPT ![w] = IF outside \/ limit = 0 THEN "defer" ELSE "claim"]
    /\ allowance' = [allowance EXCEPT ![w] = limit]
    /\ UNCHANGED <<campaignVars, suppressed, jobs, rollbacks, todo, draft, accepted,
                   cwrite, req, lockVars, worldVars>>

IgnoreSentToday(w) == LimitsAllow(w, Min2(BatchSize, sender.left))

BatchLimit == Min2(BatchSize, Min2(DailyRemaining, sender.left))

\* The sending window, then the account and the limits, its own and the campaign's, are
\* read once, before the rows are claimed.
CheckLimits(w) == LimitsAllow(w, BatchLimit)

\* defer_due_recipients and the commit: waits for the due rows others hold.
DeferDueRecipients(w) ==
    /\ pc[w] = "defer"
    /\ \A r \in Recipients : Due(r) => ~LockedByOthers(w, r)
    /\ row' = [r \in Recipients |-> IF Due(r) THEN [row[r] EXCEPT !.wait = "tomorrow"]
                                    ELSE row[r]]
    /\ cstatus' = IF cwrite[w] = "none" THEN cstatus ELSE cwrite[w]
    /\ EndTxn(w)
    /\ UNCHANGED <<today, cancelled, suppressed, jobs, rollbacks, req, worldVars>>

Claim(w) ==
    /\ pc[w] = "claim"
    /\ \E S \in ListDueRecipients(w) :
         /\ held' = [held EXCEPT ![w] = S]
         /\ todo' = [todo EXCEPT ![w] = S]
         /\ draft' = [draft EXCEPT ![w] =
                        [r \in Recipients |-> IF r \in S THEN row[r] ELSE FreshRow]]
    /\ pc' = [pc EXCEPT ![w] = "batch"]
    /\ UNCHANGED <<campaignVars, suppressed, jobs, rollbacks, allowance, accepted,
                   cwrite, req, clock, acct, worldVars>>

Settle(w, r, x) ==
    /\ draft' = [draft EXCEPT ![w][r] = x]
    /\ todo' = [todo EXCEPT ![w] = @ \ {r}]

\* A recipient that needs no provider call: it became ineligible, its message
\* is already sent, or an earlier attempt may have reached the provider.
SettleWithoutCall(w, r) ==
    /\ pc[w] = "batch"
    /\ r \in todo[w]
    /\ LET x == draft[w][r] IN
         \/ r \in suppressed /\ Settle(w, r, MarkSkipped(x))
         \/ r \notin suppressed /\ x.msg = "sent" /\ Settle(w, r, MarkSent(x))
         \/ /\ r \notin suppressed
            /\ x.msg \in {"sending", "uncertain"}
            /\ Settle(w, r, MarkUncertain(x))
    /\ UNCHANGED <<campaignVars, suppressed, jobs, rollbacks, pc, allowance, accepted,
                   cwrite, req, lockVars, worldVars>>

NeedsCall(w, r) ==
    /\ pc[w] = "batch"
    /\ r \in todo[w] \ suppressed
    /\ draft[w][r].msg \in {"pending", "failed"}

\* The provider accepts; the sender then updates the account row, see RecordSent.
CallAccepted(w, r) ==
    /\ NeedsCall(w, r)
    /\ "accepted" \in Outcomes
    /\ Settle(w, r, MarkSent(draft[w][r]))
    /\ inbox' = [inbox EXCEPT ![r] = @ + 1]
    /\ accepted' = [accepted EXCEPT ![w] = @ \cup {r}]
    /\ today' = today \cup {r}
    /\ pc' = [pc EXCEPT ![w] = "account"]
    /\ UNCHANGED <<cstatus, row, cancelled, suppressed, jobs, rollbacks, allowance,
                   cwrite, req, lockVars, doubt, sender>>

\* daily_sent_count is written with the account row lock, held to the commit.
RecordSent(w) ==
    /\ pc[w] = "account"
    /\ acct \in {Nobody, w}
    /\ acct' = w
    /\ pc' = [pc EXCEPT ![w] = "batch"]
    /\ UNCHANGED <<campaignVars, suppressed, jobs, rollbacks, allowance, todo, draft,
                   accepted, cwrite, req, held, clock, worldVars>>

\* The call raises: the answer was a refusal, or the mail is out and nobody knows.
CallFailed(w, r) ==
    /\ NeedsCall(w, r)
    /\ \E o \in Outcomes \ {"accepted"} :
         /\ Settle(w, r,
              CASE o = "uncertain"  -> MarkUncertain(draft[w][r])
                [] o = "unwired"    -> RecordSendFailure(draft[w][r], "sending")
                [] o = "unrendered" -> RecordSendFailure(draft[w][r], draft[w][r].msg)
                [] OTHER            -> RecordSendFailure(draft[w][r], "failed"))
         /\ \E reached \in (IF o = "timeout" THEN {1}
                            ELSE IF o = "uncertain" THEN {0, 1} ELSE {0}) :
              /\ inbox' = [inbox EXCEPT ![r] = @ + reached]
              /\ doubt' = [doubt EXCEPT ![r] = @ + reached]
    /\ UNCHANGED <<campaignVars, suppressed, jobs, rollbacks, pc, allowance, accepted,
                   cwrite, req, lockVars, sender>>

CompleteWhenNothingDue(w) ==
    /\ pc[w] = "batch"
    /\ todo[w] = {}
    /\ cwrite' = [cwrite EXCEPT ![w] =
                    IF \A r \in Recipients : View(w, r).wait # "now" THEN "completed" ELSE @]
    /\ pc' = [pc EXCEPT ![w] = "commit"]
    /\ UNCHANGED <<campaignVars, suppressed, jobs, rollbacks, allowance, todo, draft,
                   accepted, req, lockVars, worldVars>>

\* _refresh_counters counts the statuses this transaction can see; the campaign
\* it holds in memory is RUNNING, whatever the row says by now.
RefreshCounters(w) ==
    /\ pc[w] = "batch"
    /\ todo[w] = {}
    /\ cwrite' = [cwrite EXCEPT ![w] =
                    IF \A r \in Recipients : Terminal(View(w, r)) THEN "completed" ELSE @]
    /\ pc' = [pc EXCEPT ![w] = "commit"]
    /\ UNCHANGED <<campaignVars, suppressed, jobs, rollbacks, allowance, todo, draft,
                   accepted, req, lockVars, worldVars>>

\* The campaign row is always updated (updated_at), so its lock is needed.
Commit(w) ==
    /\ pc[w] = "commit"
    /\ clock \in {Nobody, w}
    /\ row' = [r \in Recipients |-> View(w, r)]
    /\ cstatus' = IF cwrite[w] = "none" THEN cstatus ELSE cwrite[w]
    /\ EndTxn(w)
    /\ UNCHANGED <<today, cancelled, suppressed, jobs, rollbacks, req, worldVars>>

\* The lock a transaction waits for is held by another one.
WaitsFor(t, u) ==
    /\ t # u
    /\ \/ t \in Workers /\ pc[t] \in {"launch", "commit"} /\ clock = u
       \/ t \in Workers /\ pc[t] = "account" /\ acct = u
       \/ t \in Workers /\ pc[t] = "defer" /\ \E r \in held[u] : Due(r)
       \/ t \in Requests /\ req[t] \in {"pause", "resume", "cancel"} /\ clock = u
       \/ t \in Requests /\ req[t] = "drain" /\ \E r \in held[u] : ~Terminal(row[r])

\* Transactions that wait for each other in a circle.
Deadlocked(t) ==
    \E S \in SUBSET Txns :
        t \in S /\ \A x \in S : \E u, v \in S : WaitsFor(x, u) /\ WaitsFor(v, x)

\* A transaction ends without a commit: a crash, a database error, a refused
\* review, or PostgreSQL picks it to break a deadlock.  Beyond the bound only
\* deadlocks are left, and their victim is the holder of the campaign row lock
\* (every circle has one).
MayRollback(t) ==
    \/ rollbacks < MaxRollbacks
    \/ Deadlocked(t) /\ clock = t

\* Everything the batch wrote is gone, the mails are not.  A job that crashed is
\* redelivered.
Rollback(w) ==
    /\ pc[w] # "idle"
    /\ MayRollback(w)
    /\ rollbacks' = Min2(rollbacks + 1, MaxRollbacks)
    /\ doubt' = [r \in Recipients |-> IF r \in accepted[w] THEN doubt[r] + 1
                                      ELSE doubt[r]]
    /\ today' = today \ accepted[w]
    /\ jobs' \in {jobs, Min2(jobs + 1, MaxJobs)}
    /\ EndTxn(w)
    /\ UNCHANGED <<cstatus, row, cancelled, suppressed, req, inbox, sender>>

-----------------------------------------------------------------------------
(* API requests *)

\* The router loads the campaign and the service checks its status; the review of a resume
\* looks at the sender account as well.
Submit(a, op) ==
    /\ req[a] = "idle"
    /\ \/ op = "pause" /\ cstatus = "running"
       \/ op = "resume" /\ cstatus = "paused" /\ sender.active
       \/ op = "cancel" /\ cstatus \notin {"cancelled", "completed"}
    /\ req' = [req EXCEPT ![a] = op]
    /\ UNCHANGED <<campaignVars, suppressed, jobs, rollbacks, workerVars, lockVars,
                   worldVars>>

\* pause_campaign and resume_campaign write over whatever is committed by now.
WriteStatus(a, op, new) ==
    /\ req[a] = op
    /\ clock = Nobody
    /\ cstatus' = new
    /\ req' = [req EXCEPT ![a] = "idle"]
    /\ UNCHANGED <<row, today, cancelled, suppressed, jobs, rollbacks, workerVars,
                   lockVars, worldVars>>

PauseCampaign(a) == WriteStatus(a, "pause", "paused")
ResumeCampaign(a) == WriteStatus(a, "resume", "running")

\* cancel_campaign flushes its status first ...
CancelCampaign(a) ==
    /\ req[a] = "cancel"
    /\ clock = Nobody
    /\ clock' = a
    /\ req' = [req EXCEPT ![a] = "drain"]
    /\ UNCHANGED <<campaignVars, suppressed, jobs, rollbacks, workerVars, held, acct,
                   worldVars>>

LockForCancelNoWait(a, r) ==
    /\ req[a] = "drain"
    /\ ~Terminal(row[r])
    /\ r \notin held[a]
    /\ held' = [held EXCEPT ![a] = @ \cup {r}]
    /\ UNCHANGED <<campaignVars, suppressed, jobs, rollbacks, workerVars, req, clock,
                   acct, worldVars>>

\* ... then updates the unfinished recipients, row by row as their locks come free.
LockForCancel(a, r) ==
    /\ req[a] = "drain"
    /\ ~Terminal(row[r])
    /\ r \notin held[a]
    /\ ~LockedByOthers(a, r)
    /\ held' = [held EXCEPT ![a] = @ \cup {r}]
    /\ UNCHANGED <<campaignVars, suppressed, jobs, rollbacks, workerVars, req, clock,
                   acct, worldVars>>

CommitCancelSkipLocked(a) ==
    /\ req[a] = "drain"
    /\ row' = [r \in Recipients |-> IF r \in held[a] THEN MarkSkipped(row[r])
                                    ELSE row[r]]
    /\ cstatus' = "cancelled"
    /\ cancelled' = TRUE
    /\ req' = [req EXCEPT ![a] = "idle"]
    /\ held' = [held EXCEPT ![a] = {}]
    /\ clock' = Nobody
    /\ UNCHANGED <<today, suppressed, jobs, rollbacks, workerVars, acct, worldVars>>

CommitCancel(a) ==
    /\ req[a] = "drain"
    /\ \A r \in Recipients : Terminal(row[r]) \/ r \in held[a]
    /\ row' = [r \in Recipients |-> IF r \in held[a] THEN MarkSkipped(row[r])
                                    ELSE row[r]]
    /\ cstatus' = "cancelled"
    /\ cancelled' = TRUE
    /\ req' = [req EXCEPT ![a] = "idle"]
    /\ held' = [held EXCEPT ![a] = {}]
    /\ clock' = Nobody
    /\ UNCHANGED <<today, suppressed, jobs, rollbacks, workerVars, acct, worldVars>>

\* The request ends without a commit; the review of a resume may also refuse it.
AbandonRequest(a) ==
    /\ req[a] # "idle"
    /\ MayRollback(a)
    /\ rollbacks' = Min2(rollbacks + 1, MaxRollbacks)
    /\ req' = [req EXCEPT ![a] = "idle"]
    /\ held' = [held EXCEPT ![a] = {}]
    /\ clock' = IF clock = a THEN Nobody ELSE clock
    /\ UNCHANGED <<campaignVars, suppressed, jobs, workerVars, acct, worldVars>>

-----------------------------------------------------------------------------
(* The world outside: opt-outs, time and the sender account *)

\* An unsubscribe, a bounce or an archived contact, outside any batch.
Suppress(r) ==
    /\ r \notin suppressed
    /\ suppressed' = suppressed \cup {r}
    /\ UNCHANGED <<campaignVars, jobs, rollbacks, workerVars, req, lockVars, worldVars>>

BackoffEnds(r) ==
    /\ row[r].wait = "later"
    /\ row' = [row EXCEPT ![r].wait = "now"]
    /\ UNCHANGED <<cstatus, today, cancelled, suppressed, jobs, rollbacks, workerVars,
                   req, lockVars, worldVars>>

Midnight ==
    /\ today' = {}
    /\ row' = [r \in Recipients |-> IF row[r].wait \in {"later", "tomorrow"}
                                    THEN [row[r] EXCEPT !.wait = "now"] ELSE row[r]]
    /\ UNCHANGED <<cstatus, cancelled, suppressed, jobs, rollbacks, workerVars, req,
                   lockVars, worldVars>>

\* Mails of other campaigns and test mails use up what the account may send, a failed
\* check or an administrator makes it inactive; a send on a later day starts the count
\* again, and the user may raise the limit or connect the account again.
SenderChanges ==
    /\ sender' \in SenderStates \ {sender}
    /\ UNCHANGED <<campaignVars, suppressed, jobs, rollbacks, workerVars, req, lockVars,
                   inbox, doubt>>

-----------------------------------------------------------------------------
WorkerStep(w) ==
    \/ Begin(w)
    \/ RefuseBatch(w)
    \/ LaunchCampaign(w)
    \/ CheckLimits(w)
    \/ DeferDueRecipients(w)
    \/ Claim(w)
    \/ \E r \in Recipients : SettleWithoutCall(w, r) \/ CallAccepted(w, r)
                             \/ CallFailed(w, r)
    \/ RecordSent(w)
    \/ RefreshCounters(w)
    \/ Commit(w)

RequestStep(a) ==
    \/ PauseCampaign(a)
    \/ ResumeCampaign(a)
    \/ CancelCampaign(a)
    \/ \E r \in Recipients : LockForCancel(a, r)
    \/ CommitCancel(a)

Next ==
    \/ EnqueueDueCampaigns
    \/ \E w \in Workers : WorkerStep(w) \/ Rollback(w)
    \/ \E a \in Requests : RequestStep(a) \/ AbandonRequest(a)
    \/ \E a \in Requests, op \in ApiOps : Submit(a, op)
    \/ \E r \in Recipients : Suppress(r) \/ BackoffEnds(r)
    \/ Midnight
    \/ SenderChanges

Spec == Init /\ [][Next]_vars

\* The scheduler loop, the worker threads, the clock and the database go on, and
\* the database breaks deadlocks and grants a row lock in the order of arrival;
\* whether users press a button, mails bounce, processes crash or the sender account is
\* of use is not promised.
Fairness ==
    /\ WF_vars(EnqueueDueCampaigns)
    /\ \A w \in Workers : /\ WF_vars(WorkerStep(w))
                          /\ SF_vars(LaunchCampaign(w))
                          /\ SF_vars(Commit(w))
                          /\ WF_vars(Deadlocked(w) /\ Rollback(w))
    /\ \A a \in Requests : /\ WF_vars(RequestStep(a))
                           /\ SF_vars(\E r \in Recipients : LockForCancel(a, r))
                           /\ WF_vars(Deadlocked(a) /\ AbandonRequest(a))
    /\ \A r \in Recipients : WF_vars(BackoffEnds(r))
    /\ WF_vars(Midnight)

FairSpec == Spec /\ Fairness

-----------------------------------------------------------------------------
(* Properties *)

\* Two open transactions never own the same recipient row: list_due_recipients
\* skips locked rows and the cancel statement waits for them.
RowLocksExclusive ==
    \A t, u \in Txns : t # u => held[t] \cap held[u] = {}

\* The provider takes a recipient's mail twice only after an accepted mail the
\* database has no record of (a rolled back batch or a lost answer): two workers,
\* retries, pauses and deferrals alone never duplicate a send.
DuplicateNeedsLostOutcome ==
    \A r \in Recipients : inbox[r] > 1 => doubt[r] > 0

\* A completed campaign has no recipient left to send to, although the batch
\* that completes it counts rows other batches may be working on.
CompletedMeansTerminal ==
    cstatus = "completed" => \A r \in Recipients : Terminal(row[r])

\* Once a cancel request has committed no mail of the campaign leaves any more,
\* also from batches that loaded the campaign while it was running and whatever
\* a late pause, resume or completion writes into the status afterwards.
CancelledStaysSilent ==
    [][cancelled => inbox' = inbox]_vars

\* The outcome of a recipient is final: no commit of a batch overwrites what a
\* cancel request or another batch decided, and no late batch reopens it.
OutcomeIsFinal ==
    [][\A r \in Recipients : Terminal(row[r]) => row'[r] = row[r]]_vars

\* Batches, retries, crashes and requests together do for each recipient what
\* DeliveryPromise says: one mail at a time, another one only after all earlier
\* ones were lost track of, one outcome that agrees with the mails, none after a
\* cancel.
Promise == INSTANCE DeliveryPromise
           WITH outcome <- [r \in Recipients |-> row[r].status],
                mails <- inbox, lost <- doubt, stopped <- cancelled

KeepsPromise == Promise!Spec

\* campaign.daily_limit bounds the messages recorded as sent in one local day.
WithinDailyLimit ==
    Cardinality({r \in today : row[r].msg = "sent"}) <= DailyLimit

\* The account refuses or defers a batch that has come to check it.
SenderBlocks ==
    /\ ~sender.active \/ sender.left = 0
    /\ \E w \in Workers : pc[w] \in {"launch", "limits"}

\* Nothing is left to do: the campaign is over, or a user cancelled it, every recipient is
\* finished, and a batch that was launching it has written "running" over the cancel.
Settled ==
    \/ cstatus \in {"completed", "cancelled"}
    \/ cancelled /\ \A r \in Recipients : Terminal(row[r])


\* A cancelled campaign only ever becomes archived, as the transition table says
\* (archiving is not part of this module).
CancelledStatusKept ==
    [][cstatus = "cancelled" => cstatus' = "cancelled"]_vars

\* A running campaign whose recipients have all reached a terminal state gets
\* completed (or is paused or cancelled by a user).
FinishedGetsCompleted ==
    (cstatus = "running" /\ \A r \in Recipients : Terminal(row[r]))
        ~> (cstatus # "running")

\* A mail whose answer was lost is never recorded as a plain failure.
LostAnswerIsUncertain ==
    \A r \in Recipients : doubt[r] > 0 => row[r].msg # "failed"

\* No recipient gets the campaign's mail twice.
NoDuplicateSends == \A r \in Recipients : inbox[r] <= 1
=============================================================================
