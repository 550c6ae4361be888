-------------------------- MODULE CampaignRecipient --------------------------
(***************************************************************************)
(* One recipient of a sequence campaign, from the launch to the end of the *)
(* sequence: batches that send its steps, provider events reported         *)
(* through the API, and operators that reconcile sends whose outcome is    *)
(* unknown.  Batches lock the recipient row while they claim it (only one  *)
(* at a time has it, see RowLocksExclusive in CampaignDelivery); API       *)
(* requests read it without a lock, decide, and then write the columns     *)
(* they changed over whatever has been committed in between.               *)
(***************************************************************************)
EXTENDS Naturals, Sequences, FiniteSets

CONSTANTS
    Steps,          \* enabled steps in order: "email" or "delay", see MaxWait
    StopOn,         \* configured stop events of the sequence
    Events,         \* provider events that may be reported, one key each
    Reporters,      \* API requests that report events
    Operators,      \* API requests that reconcile a send
    Outcomes,       \* what a provider call may end in, as in CampaignDelivery
    MaxAttempts,    \* attempts per step (3 in the code)
    MaxRegrants,    \* bound: sends that operators ask to retry
    MaxRollbacks    \* bound: batches that do not commit

EmailSteps == {s \in DOMAIN Steps : Steps[s] = "email"}
EventKinds == {"delivered", "opened", "clicked", "replied", "bounced", "unsubscribed",
               "meeting", "custom"}

\* validate_sequence_steps: numbered from 1 without gaps, at least one email.
ASSUME RecipientAssumption ==
    /\ Steps \in Seq({"email", "delay"})
    /\ EmailSteps # {}
    /\ StopOn \subseteq {"replied", "clicked", "meeting", "custom"}
    /\ Events \subseteq EventKinds
    /\ Outcomes \subseteq {"accepted", "rejected", "timeout", "uncertain", "unwired",
                           "unrendered"}
    /\ MaxAttempts \in Nat \ {0}
    /\ {MaxRegrants, MaxRollbacks} \subseteq Nat
    /\ Reporters \cap Operators = {}

VARIABLES
    cstatus,    \* campaign.status as committed
    othersOpen, \* whether other recipients of the campaign are unfinished
    row,        \* the recipient row as committed
    msg,        \* status of the logical message of each email step, as committed
    suppressed, \* the address is on the suppression list
    recorded,   \* events recorded, by dedupe key
    batch,      \* step of the batch at this recipient
    draft,      \* the batch's uncommitted version of the row
    draftMsg,   \* ... and of the messages
    fresh,      \* email step whose accepted mail the open batch has recorded
    report,     \* event each reporter is handling
    fix,        \* step of each reconciliation, then the outcome it enters
    seen,       \* the row as each request has read it
    inbox,      \* mails the provider accepted, per step
    doubt,      \* accepted mails the database has no record of, per step
    tried,      \* failed attempts per step, counted up to MaxAttempts
    age,        \* time since the launch, counted up to MaxWait
    regrants,   \* times an operator has asked to send the newest message again
    rollbacks

batchVars == <<batch, draft, draftMsg, fresh>>
requestVars == <<report, fix, seen>>
worldVars == <<inbox, doubt, tried, age, regrants, rollbacks>>
vars == <<cstatus, othersOpen, row, msg, suppressed, recorded, batchVars, requestVars,
          worldVars>>

\* Each delay step, and each back-off before a retry, lasts one unit of time;
\* next_attempt_at is the time left until it, or Never when it is null.
MaxWait ==
    LET delays == DOMAIN Steps \ EmailSteps
    IN  IF delays = {} THEN 1 ELSE Cardinality(delays)
Never == MaxWait + 1

Terminal(x) == x.status # "pending"

Row == [status : {"pending", "sent", "delivered", "opened", "clicked", "replied",
                  "bounced", "failed", "unsubscribed", "skipped", "stopped"},
        step   : 1..(Len(Steps) + 1),
        tries  : 0..MaxAttempts,
        wait   : 0..Never,
        err    : {"none", "send", "uncertain", "reconciled"}]

Msg == [EmailSteps -> {"pending", "sending", "sent", "failed", "uncertain"}]

TypeOK ==
    /\ cstatus \in {"running", "completed"}
    /\ othersOpen \in BOOLEAN
    /\ row \in Row
    /\ msg \in Msg
    /\ suppressed \in BOOLEAN
    /\ recorded \subseteq Events
    /\ batch \in {"idle", "loaded", "claimed", "processed"}
    /\ draft \in Row
    /\ draftMsg \in Msg
    /\ fresh \subseteq EmailSteps
    /\ report \in [Reporters -> Events \cup {"none"}]
    /\ fix \in [Operators -> {"none", "read", "sent", "retry", "failed"}]
    /\ seen \in [Reporters \cup Operators -> Row]
    /\ inbox \in [EmailSteps -> Nat]
    /\ doubt \in [EmailSteps -> Nat]
    /\ tried \in [EmailSteps -> 0..MaxAttempts]
    /\ age \in 0..MaxWait
    /\ regrants \in 0..MaxRegrants
    /\ rollbacks \in 0..MaxRollbacks

\* As _snapshot_recipients creates it, with the messages of every email step.
FreshRow == [status |-> "pending", step |-> 1, tries |-> 0, wait |-> 0, err |-> "none"]
FreshMsg == [s \in EmailSteps |-> "pending"]

Init ==
    /\ cstatus = "running"
    /\ othersOpen \in BOOLEAN
    /\ row = FreshRow
    /\ msg = FreshMsg
    /\ suppressed = FALSE
    /\ recorded = {}
    /\ batch = "idle"
    /\ draft = FreshRow
    /\ draftMsg = FreshMsg
    /\ fresh = {}
    /\ report = [a \in Reporters |-> "none"]
    /\ fix = [a \in Operators |-> "none"]
    /\ seen = [a \in Reporters \cup Operators |-> FreshRow]
    /\ inbox = [s \in EmailSteps |-> 0]
    /\ doubt = [s \in EmailSteps |-> 0]
    /\ tried = [s \in EmailSteps |-> 0]
    /\ age = 0
    /\ regrants = 0
    /\ rollbacks = 0

-----------------------------------------------------------------------------
(* Helpers *)

Min2(m, n) == IF m < n THEN m ELSE n

AdvanceWithoutDelay(x, s) ==
    LET later == {e \in EmailSteps : e > s}
    IN  IF later = {}
        THEN [x EXCEPT !.status = "sent", !.step = Len(Steps) + 1, !.wait = Never]
        ELSE LET e == CHOOSE e \in later : \A f \in later : e <= f
             IN  [x EXCEPT !.status = "pending", !.step = e, !.wait = 0]

\* _advance_sequence_after_step: delays up to the next email are added up from
\* now; after the last email the recipient is sent.
AdvanceAfterStep(x, s) ==
    LET later == {e \in EmailSteps : e > s}
    IN  IF later = {}
        THEN [x EXCEPT !.status = "sent", !.step = Len(Steps) + 1, !.wait = Never]
        ELSE LET e == CHOOSE e \in later : \A f \in later : e <= f
             IN  [x EXCEPT !.status = "pending", !.step = e, !.wait = e - s - 1]

SentKeepsTries(x, s) == AdvanceAfterStep([x EXCEPT !.err = "none"], s)

\* The row after the mail of step s was accepted.
Sent(x, s) == AdvanceAfterStep([x EXCEPT !.err = "none", !.tries = 0], s)

GiveUpStep(x) ==
    IF x.tries < MaxAttempts
    THEN [x EXCEPT !.err = "send", !.wait = 1]
    ELSE AdvanceAfterStep([x EXCEPT !.err = "send", !.tries = 0], x.step)

RetryWithoutDate(x) ==
    IF x.tries < MaxAttempts
    THEN [x EXCEPT !.err = "send", !.wait = Never]
    ELSE [x EXCEPT !.err = "send", !.status = "failed", !.wait = Never]

\* _record_send_failure; the attempt was counted at the claim.
RecordSendFailure(x) ==
    IF x.tries < MaxAttempts
    THEN [x EXCEPT !.err = "send", !.wait = 1]
    ELSE [x EXCEPT !.err = "send", !.status = "failed", !.wait = Never]

Uncertain(x) == [x EXCEPT !.status = "failed", !.err = "uncertain", !.wait = Never]

WholeRow(base, old, new) == new

\* A request that read old writes only the columns it changed.
Merge(base, old, new) ==
    [f \in DOMAIN base |-> IF new[f] # old[f] THEN new[f] ELSE base[f]]

\* get_message_for_event without a provider message id: the newest message, and
\* the messages of all steps were created in order when the campaign started.
NewestMessage == CHOOSE s \in EmailSteps : \A e \in EmailSteps : e <= s

CompletedWhenNothingDue(x) ==
    IF x.wait # 0 /\ ~othersOpen THEN "completed" ELSE cstatus

\* _refresh_counters: the campaign completes when nobody is left.
CompletedBy(x) ==
    IF Terminal(x) /\ ~othersOpen THEN "completed" ELSE cstatus

RowLocked == batch \in {"claimed", "processed"}

-----------------------------------------------------------------------------
(* Batches *)

EndBatch ==
    /\ batch' = "idle"
    /\ draft' = FreshRow
    /\ draftMsg' = FreshMsg
    /\ fresh' = {}

\* The scheduler enqueues the campaign and a worker loads it.
LoadCampaign ==
    /\ batch = "idle"
    /\ cstatus = "running"
    /\ row.status = "pending" /\ row.wait = 0
    /\ batch' = "loaded"
    /\ UNCHANGED <<cstatus, othersOpen, row, msg, suppressed, recorded, draft, draftMsg,
                   fresh, requestVars, worldVars>>

ClaimWithoutEligibility ==
    /\ batch = "loaded"
    /\ IF row.status = "pending" /\ row.wait = 0
       THEN /\ batch' = "claimed"
            /\ draft' = [row EXCEPT !.tries = @ + 1]
            /\ draftMsg' = msg
            /\ fresh' = {}
       ELSE EndBatch
    /\ UNCHANGED <<cstatus, othersOpen, row, msg, suppressed, recorded, requestVars,
                   worldVars>>

\* The batch claims the recipient if it is still due, and counts the attempt
\* unless the recipient may not be mailed any more.
Claim ==
    /\ batch = "loaded"
    /\ IF row.status = "pending" /\ row.wait = 0
       THEN /\ batch' = IF suppressed THEN "processed" ELSE "claimed"
            /\ draft' = IF suppressed THEN [row EXCEPT !.status = "skipped", !.wait = Never]
                        ELSE [row EXCEPT !.tries = @ + 1]
            /\ draftMsg' = msg
            /\ fresh' = {}
       ELSE EndBatch
    /\ UNCHANGED <<cstatus, othersOpen, row, msg, suppressed, recorded, requestVars,
                   worldVars>>

\* The batch is done with the recipient.
Finish(x, m) ==
    /\ batch' = "processed"
    /\ draft' = x
    /\ draftMsg' = m
    /\ UNCHANGED <<cstatus, othersOpen, row, msg, suppressed, recorded, requestVars,
                   age, regrants, rollbacks>>

\* No provider call: the sequence is over, the current step is a delay, or the
\* message says that an earlier attempt was made.
ProcessWithoutCall ==
    /\ batch = "claimed"
    /\ LET s == draft.step IN
         \/ /\ s > Len(Steps)
            /\ Finish([draft EXCEPT !.status = "sent", !.wait = Never], draftMsg)
         \/ /\ s \in DOMAIN Steps
            /\ s \in EmailSteps => draftMsg[s] = "sent"
            /\ Finish(AdvanceAfterStep(draft, s), draftMsg)
         \/ /\ s \in EmailSteps
            /\ draftMsg[s] \in {"sending", "uncertain"}
            /\ Finish(Uncertain(draft), [draftMsg EXCEPT ![s] = "uncertain"])
    /\ UNCHANGED <<fresh, inbox, doubt, tried>>

NeedsCall(s) ==
    batch = "claimed" /\ s = draft.step /\ draftMsg[s] \in {"pending", "failed"}

CallAcceptedThenRaises(s) ==
    /\ NeedsCall(s)
    /\ "accepted" \in Outcomes
    /\ Finish(RecordSendFailure(draft), [draftMsg EXCEPT ![s] = "failed"])
    /\ inbox' = [inbox EXCEPT ![s] = @ + 1]
    /\ UNCHANGED <<fresh, doubt, tried>>

CallAccepted(s) ==
    /\ NeedsCall(s)
    /\ "accepted" \in Outcomes
    /\ Finish(Sent(draft, s), [draftMsg EXCEPT ![s] = "sent"])
    /\ inbox' = [inbox EXCEPT ![s] = @ + 1]
    /\ fresh' = {s}
    /\ UNCHANGED <<doubt, tried>>

\* What the message says after a call that failed with outcome o.
FailedMsg(o, before) ==
    CASE o = "uncertain"  -> "uncertain"
      [] o = "unwired"    -> "sending"
      [] o = "unrendered" -> before
      [] OTHER            -> "failed"

CallFailed(s) ==
    /\ NeedsCall(s)
    /\ \E o \in Outcomes \ {"accepted"} :
         /\ Finish(IF o = "uncertain" THEN Uncertain(draft) ELSE RecordSendFailure(draft),
                   [draftMsg EXCEPT ![s] = FailedMsg(o, @)])
         /\ \E reached \in (IF o = "timeout" THEN {1}
                            ELSE IF o = "uncertain" THEN {0, 1} ELSE {0}) :
              /\ inbox' = [inbox EXCEPT ![s] = @ + reached]
              /\ doubt' = [doubt EXCEPT ![s] = @ + reached]
    /\ tried' = [tried EXCEPT ![s] = Min2(@ + 1, MaxAttempts)]
    /\ UNCHANGED fresh

Commit ==
    /\ batch = "processed"
    /\ row' = draft
    /\ msg' = draftMsg
    /\ cstatus' = CompletedBy(draft)
    /\ EndBatch
    /\ UNCHANGED <<othersOpen, suppressed, recorded, requestVars, worldVars>>

\* The batch ends without a commit; the mail it sent is out.
Rollback ==
    /\ batch # "idle"
    /\ rollbacks < MaxRollbacks
    /\ rollbacks' = rollbacks + 1
    /\ doubt' = [s \in EmailSteps |-> IF s \in fresh THEN doubt[s] + 1 ELSE doubt[s]]
    /\ EndBatch
    /\ UNCHANGED <<cstatus, othersOpen, row, msg, suppressed, recorded, requestVars,
                   inbox, tried, age, regrants>>

-----------------------------------------------------------------------------
(* Provider events *)

\* A pending recipient still gets mails.
ActiveSequence(x) == x.status = "pending"

\* record_recipient_event: the status after event e on a recipient that was x.
EventStatus(e, x) ==
    CASE e \in {"bounced", "unsubscribed"} -> e
      [] e = "replied" /\ (ActiveSequence(x) => e \in StopOn) -> e
      [] e \in {"clicked", "meeting", "custom"} \cap StopOn /\ ActiveSequence(x) -> "stopped"
      [] e = "clicked" /\ ~ActiveSequence(x) /\ x.status # "replied" -> e
      [] e = "opened" /\ ~ActiveSequence(x) /\ x.status \notin {"clicked", "replied"} -> e
      [] e = "delivered" /\ x.status = "sent" -> e
      [] OTHER -> x.status

AfterEvent(e, x) ==
    LET status == EventStatus(e, x)
        stops == ActiveSequence(x) /\ status # "pending"
    IN  [x EXCEPT !.status = status, !.wait = IF stops THEN Never ELSE @]

\* The request looks the dedupe key up and reads the recipient ...
ReadForEvent(a, e) ==
    /\ report[a] = "none"
    /\ e \notin recorded
    /\ report' = [report EXCEPT ![a] = e]
    /\ seen' = [seen EXCEPT ![a] = row]
    /\ UNCHANGED <<cstatus, othersOpen, row, msg, suppressed, recorded, batchVars, fix,
                   worldVars>>

\* ... and writes once the row is free.  The key may have been inserted since: the
\* unique constraint then refuses the request.
RecordEvent(a) ==
    /\ report[a] # "none"
    /\ ~RowLocked
    /\ LET e == report[a]
           after == Merge(row, seen[a], AfterEvent(e, seen[a]))
       IN  IF e \in recorded
           THEN UNCHANGED <<row, cstatus, suppressed, recorded>>
           ELSE /\ row' = after
                /\ cstatus' = CompletedBy(after)
                /\ suppressed' = (suppressed \/ e \in {"bounced", "unsubscribed"})
                /\ recorded' = recorded \cup {e}
    /\ report' = [report EXCEPT ![a] = "none"]
    /\ seen' = [seen EXCEPT ![a] = FreshRow]
    /\ UNCHANGED <<othersOpen, msg, batchVars, fix, worldVars>>

-----------------------------------------------------------------------------
(* Reconciliation *)

\* reconcile_send_outcome reads the recipient ...
ReadForReconcile(a) ==
    /\ fix[a] = "none"
    /\ fix' = [fix EXCEPT ![a] = "read"]
    /\ seen' = [seen EXCEPT ![a] = row]
    /\ UNCHANGED <<cstatus, othersOpen, row, msg, suppressed, recorded, batchVars, report,
                   worldVars>>

\* ... then its newest message, and refuses unless that one is uncertain.
CheckUncertain(a, outcome) ==
    /\ fix[a] = "read"
    /\ msg[NewestMessage] = "uncertain"
    /\ fix' = [fix EXCEPT ![a] = outcome]
    /\ UNCHANGED <<cstatus, othersOpen, row, msg, suppressed, recorded, batchVars, report,
                   seen, worldVars>>

AfterReconcile(outcome, x) ==
    CASE outcome = "sent"   -> Sent(x, NewestMessage)
      [] outcome = "retry"  -> [x EXCEPT !.status = "pending", !.tries = 0,
                                         !.err = "none", !.wait = 0]
      [] outcome = "failed" -> [x EXCEPT !.status = "failed", !.err = "reconciled",
                                         !.wait = Never]

\* A retry sets next_attempt_at to the present, which no column has held before.
Reconcile(a) ==
    /\ fix[a] \in {"sent", "retry", "failed"}
    /\ ~RowLocked
    /\ fix[a] = "retry" => regrants < MaxRegrants
    /\ LET merged == Merge(row, seen[a], AfterReconcile(fix[a], seen[a]))
           after == [merged EXCEPT !.wait = IF fix[a] = "retry" THEN 0 ELSE @]
       IN  row' = after /\ cstatus' = CompletedBy(after)
    /\ msg' = [msg EXCEPT ![NewestMessage] = IF fix[a] = "sent" THEN "sent" ELSE "failed"]
    /\ regrants' = IF fix[a] = "retry" THEN regrants + 1 ELSE regrants
    /\ fix' = [fix EXCEPT ![a] = "none"]
    /\ seen' = [seen EXCEPT ![a] = FreshRow]
    /\ UNCHANGED <<othersOpen, suppressed, recorded, batchVars, report, inbox, doubt,
                   tried, age, rollbacks>>

\* A request is refused, or ends without a commit.
AbandonEvent(a) ==
    /\ report[a] # "none"
    /\ report' = [report EXCEPT ![a] = "none"]
    /\ seen' = [seen EXCEPT ![a] = FreshRow]
    /\ UNCHANGED <<cstatus, othersOpen, row, msg, suppressed, recorded, batchVars, fix,
                   worldVars>>

AbandonReconcile(a) ==
    /\ fix[a] # "none"
    /\ fix' = [fix EXCEPT ![a] = "none"]
    /\ seen' = [seen EXCEPT ![a] = FreshRow]
    /\ UNCHANGED <<cstatus, othersOpen, row, msg, suppressed, recorded, batchVars, report,
                   worldVars>>

-----------------------------------------------------------------------------
(* The world outside *)

\* The batch of the last other recipient counts too.
OthersFinish ==
    /\ othersOpen
    /\ othersOpen' = FALSE
    /\ cstatus' = IF Terminal(row) THEN "completed" ELSE cstatus
    /\ UNCHANGED <<row, msg, suppressed, recorded, batchVars, requestVars, worldVars>>

\* An unsubscribe link or another campaign's bounce.
Suppress ==
    /\ ~suppressed
    /\ suppressed' = TRUE
    /\ UNCHANGED <<cstatus, othersOpen, row, msg, recorded, batchVars, requestVars,
                   worldVars>>

Tick ==
    /\ age' = Min2(age + 1, MaxWait)
    /\ row' = [row EXCEPT !.wait = IF @ \in 1..MaxWait THEN @ - 1 ELSE @]
    /\ UNCHANGED <<cstatus, othersOpen, msg, suppressed, recorded, batchVars, requestVars,
                   inbox, doubt, tried, regrants, rollbacks>>

-----------------------------------------------------------------------------
Process ==
    ProcessWithoutCall \/ \E s \in EmailSteps : CallAccepted(s) \/ CallFailed(s)

Next ==
    \/ LoadCampaign \/ Claim \/ Process \/ Commit \/ Rollback
    \/ \E a \in Reporters : \/ \E e \in Events : ReadForEvent(a, e)
                            \/ RecordEvent(a)
                            \/ AbandonEvent(a)
    \/ \E a \in Operators : \/ ReadForReconcile(a)
                            \/ \E outcome \in {"sent", "retry", "failed"} :
                                   CheckUncertain(a, outcome)
                            \/ Reconcile(a)
                            \/ AbandonReconcile(a)
    \/ OthersFinish \/ Suppress \/ Tick

Spec == Init /\ [][Next]_vars

\* The scheduler and the workers go on, a claimed batch ends, time passes; no
\* event, operator or other recipient is promised.
Fairness ==
    /\ WF_vars(LoadCampaign)
    /\ WF_vars(Claim)
    /\ WF_vars(Process)
    /\ WF_vars(Commit)
    /\ WF_vars(Tick)

FairSpec == Spec /\ Fairness

-----------------------------------------------------------------------------
(* Properties *)

\* No step is mailed before every earlier email step was, whatever fails, is
\* reconciled, or is reported in between.
StepsInOrder ==
    \A s \in EmailSteps : inbox[s] > 0 => \A p \in EmailSteps : p < s => inbox[p] > 0

\* Each mail of a step beyond the first is explained: the database lost track of
\* an accepted one, or an operator asked to send the newest message again.  Two
\* operators who reconcile the same send at the same time may resend it without
\* need, each of them once.
ResendsExplained ==
    \A s \in EmailSteps :
        inbox[s] <= 1 + doubt[s] + (IF s = NewestMessage THEN regrants ELSE 0)

\* After a recorded bounce or unsubscribe nothing is mailed any more, not even if
\* a request that read the recipient before makes it pending again.
SuppressedStaysSilent ==
    [][recorded \cap {"unsubscribed", "bounced"} # {} => inbox' = inbox]_vars

\* A recorded event that stops the sequence ends it although batches and other
\* requests write the same row from older reads; only an operator's retry may
\* send once more.
StopEventStops ==
    [][recorded \cap StopOn # {} /\ regrants = 0 => inbox' = inbox]_vars

\* A recipient is given up for failed sends only after all attempts were spent on
\* the step it is at: attempts of earlier steps do not count.  It does not hold for
\* a sequence that starts with a delay, nor always when operators reconcile one send at
\* the same time, see the README.
FullAllowance ==
    row.status = "failed" /\ row.err = "send" => tried[row.step] = MaxAttempts

\* A completed campaign has no recipient left to send to, unless an operator
\* asked for a retry (which then stays pending, see the README).
CompletedMeansTerminal ==
    cstatus = "completed" /\ regrants = 0 => Terminal(row)

\* The mail of a step leaves at the earliest after all delay steps between the
\* first mail and it, also after retries and reconciliations.
DelaysAreKept ==
    [][\A s \in EmailSteps :
          inbox'[s] # inbox[s] =>
              age >= Cardinality({d \in DOMAIN Steps : Steps[d] = "delay" /\ d < s
                                     /\ \E e \in EmailSteps : e < d})]_vars

\* Every recipient is eventually done with the sequence for good.
EventuallyDone == <>[](Terminal(row) \/ regrants > 0)

\* A recipient that waits for its send to be reconciled can be reconciled.
UncertainReconcilable ==
    row.status = "failed" /\ row.err = "uncertain" => msg[NewestMessage] = "uncertain"
=============================================================================
