-------------------------------- MODULE ABTest --------------------------------
(***************************************************************************)
(* The A/B test of one campaign: a sample of the recipients gets one of    *)
(* two candidates, the others are held back until a winner is chosen, by   *)
(* an operator, by the evaluator of the scheduler loop or by the batch     *)
(* that reaches the sample size.                                           *)
(*                                                                         *)
(* All of them are database transactions.  A batch claims its recipients   *)
(* with row locks, then works on the test and the counters it has read     *)
(* once; the chooser of a winner writes the test row first and then        *)
(* releases every waiting recipient, row by row as their locks come free.  *)
(* What a transaction changed is written over the committed columns.       *)
(***************************************************************************)
EXTENDS Integers, FiniteSets, Functions

CONSTANTS
    Recipients,     \* the recipients of the campaign
    Variants,       \* the candidates
    NoVariant,      \* no candidate: a NULL reference
    Buckets,        \* what the hashes may give: a candidate, or none outside the sample
    Nobody,         \* holds no lock
    Batches,        \* transactions of campaign batches
    Operators,      \* API requests that choose a winner, each made once
    Evaluators,     \* runs of the winner evaluation
    Launchers,      \* transactions that launch the campaign
    EarlyChoice,    \* whether operators choose before the launch is over, too
    MinSample,      \* minimum_sample_size
    MaxAttempts,    \* attempts per recipient (3 in _record_send_failure)
    MaxRollbacks    \* bound: crashes that are not the end of a deadlock

Txns == Batches \cup Operators \cup Evaluators \cup Launchers

ASSUME ABAssumption ==
    /\ IsFiniteSet(Recipients)
    /\ NoVariant \notin Variants /\ {"test", "account"} \cap Variants = {}
    /\ Buckets \subseteq [Recipients -> Variants \cup {NoVariant}]
    /\ Nobody \notin Txns
    /\ EarlyChoice \in BOOLEAN
    /\ MinSample \in Nat /\ MaxAttempts \in Nat \ {0} /\ MaxRollbacks \in Nat

VARIABLES
    bucket,     \* what the hash of campaign and address gives each recipient: it stays
    campaign,   \* status of the campaign
    test,       \* the committed campaign_ab_tests row
    sentCount,  \* committed sent_count of each variant
    row,        \* committed campaign_recipients
    elapsed,    \* whether test_duration_hours are over
    pc,         \* step of each transaction
    seen,       \* the test as a transaction has read it
    count,      \* sent_count of the variants as a transaction knows it
    dirty,      \* variants a batch has changed
    bumped,     \* those of them whose sent_count it has changed
    draft,      \* uncommitted versions of the locked rows
    todo,       \* claimed recipients of a batch still to process
    accepted,   \* recipients whose mail the provider took in this transaction
    choice,     \* the winner a transaction writes
    closes,     \* whether the batch completes the campaign
    held,       \* recipient row locks
    rowLock,    \* holder of the lock of each variant row, of the test and the account
    rollbacks,  \* crashes so far, up to the bound
    mailed,     \* candidates the provider took for each recipient
    lost,       \* recipients an accepted mail of whom was never recorded
    chosen      \* winners ever committed

dataVars  == <<bucket, campaign, test, sentCount, row, elapsed>>
txnVars   == <<pc, seen, count, dirty, bumped, draft, todo, accepted, choice, closes>>
lockVars  == <<held, rowLock>>
worldVars == <<rollbacks, mailed, lost, chosen>>
abVars    == <<dataVars, txnVars, lockVars, worldVars>>

Row == [status : {"none", "pending", "holdout", "sent", "failed", "skipped"},
        variant : Variants \cup {NoVariant}, sampled : BOOLEAN, tries : 0..MaxAttempts]

Test == [auto : BOOLEAN, status : {"draft", "running", "winner_selected", "completed"},
         winner : Variants \cup {NoVariant}]

NoRow == [status |-> "none", variant |-> NoVariant, sampled |-> FALSE, tries |-> 0]

NoTest == [auto |-> FALSE, status |-> "draft", winner |-> NoVariant]

Zero == [v \in Variants |-> 0]

ABTypeOK ==
    /\ bucket \in [Recipients -> Variants \cup {NoVariant}]
    /\ campaign \in {"ready", "running", "completed"}
    /\ test \in Test
    /\ sentCount \in [Variants -> Nat]
    /\ row \in [Recipients -> Row]
    /\ elapsed \in BOOLEAN
    /\ pc \in [Txns -> {"idle", "read", "batch", "account", "select", "release",
                        "finish", "launch", "commit", "done"}]
    /\ seen \in [Txns -> Test]
    /\ count \in [Txns -> [Variants -> Nat]]
    /\ dirty \in [Txns -> SUBSET Variants]
    /\ bumped \in [Txns -> SUBSET Variants]
    /\ draft \in [Txns -> [Recipients -> Row]]
    /\ todo \in [Txns -> SUBSET Recipients]
    /\ accepted \in [Txns -> SUBSET Recipients]
    /\ choice \in [Txns -> Variants \cup {NoVariant}]
    /\ closes \in [Txns -> BOOLEAN]
    /\ held \in [Txns -> SUBSET Recipients]
    /\ rowLock \in [Variants \cup {"test", "account"} -> Txns \cup {Nobody}]
    /\ rollbacks \in 0..MaxRollbacks
    /\ mailed \in [Recipients -> SUBSET (Variants \cup {NoVariant})]
    /\ lost \in SUBSET Recipients
    /\ chosen \in SUBSET Variants

\* The recipients is_ab_test_sample_recipient picks.
Sample == {r \in Recipients : bucket[r] # NoVariant}

\* _snapshot_recipients: the winner if there is one, else its candidate for each
\* recipient of the sample (choose_ab_variant) and none for the others.
Snapshot(winner) == [r \in Recipients |->
    IF winner # NoVariant
    THEN [status |-> "pending", variant |-> winner, sampled |-> FALSE, tries |-> 0]
    ELSE IF r \in Sample
    THEN [status |-> "pending", variant |-> bucket[r], sampled |-> TRUE, tries |-> 0]
    ELSE [status |-> "holdout", variant |-> NoVariant, sampled |-> FALSE, tries |-> 0]]

\* A campaign that is reviewed, or one that has just been launched.
ABInit ==
    /\ bucket \in Buckets
    /\ campaign = IF Launchers = {} THEN "running" ELSE "ready"
    /\ test \in {[NoTest EXCEPT !.auto = a,
                                !.status = IF Launchers = {} THEN "running" ELSE "draft"]
                   : a \in BOOLEAN}
    /\ row = IF campaign = "ready" THEN [r \in Recipients |-> NoRow]
             ELSE Snapshot(NoVariant)
    /\ sentCount = Zero
    /\ elapsed = FALSE
    /\ pc = [t \in Txns |-> "idle"]
    /\ seen = [t \in Txns |-> NoTest]
    /\ count = [t \in Txns |-> Zero]
    /\ dirty = [t \in Txns |-> {}]
    /\ bumped = [t \in Txns |-> {}]
    /\ draft = [t \in Txns |-> [r \in Recipients |-> NoRow]]
    /\ todo = [t \in Txns |-> {}]
    /\ accepted = [t \in Txns |-> {}]
    /\ choice = [t \in Txns |-> NoVariant]
    /\ closes = [t \in Txns |-> FALSE]
    /\ held = [t \in Txns |-> {}]
    /\ rowLock = [x \in Variants \cup {"test", "account"} |-> Nobody]
    /\ rollbacks = 0
    /\ mailed = [r \in Recipients |-> {}]
    /\ lost = {}
    /\ chosen = {}

-----------------------------------------------------------------------------
(* Helpers. *)

Waiting(x) == x.status \in {"pending", "holdout"}

Terminal(x) == x.status \in {"sent", "failed", "skipped"}

LockedByOthers(t, r) == \E u \in Txns \ {t} : r \in held[u]

Free(t, x) == rowLock[x] \in {Nobody, t}

\* Rows as transaction t reads them: its own writes, else what is committed.
View(t, r) == IF r \in held[t] THEN draft[t][r] ELSE row[r]

\* _ab_winner_ready and is_ab_winner_ready on the counters c.
WinnerReady(c) ==
    LET sent == SumFunction(c) IN sent > 0 /\ sent >= MinSample /\ elapsed

\* The guards of _maybe_select_ab_winner but the last, on a test x.
Undecided(x) == x.status = "running" /\ x.winner = NoVariant

\* The UPDATEs a batch has to make before its next statement are made: autoflush.
Flushed(w) == \A v \in dirty[w] : rowLock[v] = w

EndTxn(t) ==
    /\ pc' = [pc EXCEPT ![t] = IF t \in Operators THEN "done" ELSE "idle"]
    /\ seen' = [seen EXCEPT ![t] = NoTest]
    /\ count' = [count EXCEPT ![t] = Zero]
    /\ dirty' = [dirty EXCEPT ![t] = {}]
    /\ bumped' = [bumped EXCEPT ![t] = {}]
    /\ draft' = [draft EXCEPT ![t] = [r \in Recipients |-> NoRow]]
    /\ todo' = [todo EXCEPT ![t] = {}]
    /\ accepted' = [accepted EXCEPT ![t] = {}]
    /\ choice' = [choice EXCEPT ![t] = NoVariant]
    /\ closes' = [closes EXCEPT ![t] = FALSE]
    /\ held' = [held EXCEPT ![t] = {}]
    /\ rowLock' = [x \in DOMAIN rowLock |-> IF rowLock[x] = t THEN Nobody ELSE rowLock[x]]

-----------------------------------------------------------------------------
(* Launch: the snapshot and the start of the test in one transaction. *)

\* The campaign is reviewed and its recipients are snapshotted, with the test as it is now.
LoadLaunch(l) ==
    /\ pc[l] = "idle"
    /\ campaign = "ready"
    /\ pc' = [pc EXCEPT ![l] = "launch"]
    /\ seen' = [seen EXCEPT ![l] = test]
    /\ draft' = [draft EXCEPT ![l] = Snapshot(test.winner)]
    /\ UNCHANGED <<dataVars, count, dirty, bumped, todo, accepted, choice, closes, lockVars,
                   worldVars>>

\* launch_campaign: the test runs from now on; the status is written over whatever
\* is committed by now.
LaunchCampaign(l) ==
    /\ pc[l] = "launch"
    /\ rowLock["test"] = Nobody
    /\ campaign' = "running"
    /\ test' = [test EXCEPT !.status = "running"]
    /\ row' = draft[l]
    /\ EndTxn(l)
    /\ UNCHANGED <<bucket, sentCount, elapsed, worldVars>>

-----------------------------------------------------------------------------
(* A batch. *)

\* Mutant: the winner is not waited for.
ListWaitingRecipients(w) ==
    SUBSET {r \in Recipients : Waiting(row[r]) /\ ~LockedByOthers(w, r)}

\* list_due_recipients, FOR UPDATE SKIP LOCKED; which of the pending recipients are
\* due and fit into the batch is left open.
ListDueRecipients(w) ==
    SUBSET {r \in Recipients : row[r].status = "pending" /\ ~LockedByOthers(w, r)}

Claim(w) ==
    /\ pc[w] = "idle"
    /\ campaign = "running"
    /\ \E S \in ListDueRecipients(w) :
        /\ held' = [held EXCEPT ![w] = S]
        /\ todo' = [todo EXCEPT ![w] = S]
        /\ draft' = [draft EXCEPT ![w] = [r \in Recipients |->
                                            IF r \in S THEN row[r] ELSE NoRow]]
    /\ pc' = [pc EXCEPT ![w] = "read"]
    /\ UNCHANGED <<dataVars, seen, count, dirty, bumped, accepted, choice, closes, rowLock,
                   worldVars>>

\* get_ab_test: read once, the session keeps these objects.
ReadTest(w) ==
    /\ pc[w] = "read"
    /\ pc' = [pc EXCEPT ![w] = "batch"]
    /\ seen' = [seen EXCEPT ![w] = test]
    /\ count' = [count EXCEPT ![w] = sentCount]
    /\ UNCHANGED <<dataVars, dirty, bumped, draft, todo, accepted, choice, closes, lockVars,
                   worldVars>>

\* The changed variants are written: the batch waits for their rows.
FlushVariants(w) ==
    /\ pc[w] = "batch"
    /\ ~Flushed(w)
    /\ \A v \in dirty[w] : Free(w, v)
    /\ rowLock' = [x \in DOMAIN rowLock |-> IF x \in dirty[w] THEN w ELSE rowLock[x]]
    /\ UNCHANGED <<dataVars, txnVars, held, worldVars>>

NextRecipient(w, r) == pc[w] = "batch" /\ Flushed(w) /\ r \in todo[w]

\* Recipient r of batch w ends up as x, changing the variants in vs.
Settle(w, r, x, vs) ==
    /\ draft' = [draft EXCEPT ![w][r] = x]
    /\ todo' = [todo EXCEPT ![w] = @ \ {r}]
    /\ dirty' = [dirty EXCEPT ![w] = @ \cup vs]

\* No longer eligible: suppressed, unsubscribed, the contact is gone.
SkipRecipient(w, r) ==
    /\ NextRecipient(w, r)
    /\ Settle(w, r, [draft[w][r] EXCEPT !.status = "skipped"], {})
    /\ UNCHANGED <<dataVars, pc, seen, count, bumped, accepted, choice, closes, lockVars,
                   worldVars>>

\* _process_single_recipient: the snapshot of the recipient's candidate is mailed.
CallAccepted(w, r) ==
    /\ NextRecipient(w, r)
    /\ mailed' = [mailed EXCEPT ![r] = @ \cup {draft[w][r].variant}]
    /\ accepted' = [accepted EXCEPT ![w] = @ \cup {r}]
    /\ pc' = [pc EXCEPT ![w] = "account"]
    /\ UNCHANGED <<dataVars, seen, count, dirty, bumped, draft, todo, choice, closes, lockVars,
                   rollbacks, lost, chosen>>

\* Mutant: the continuation counts, too.
CountedAlways(x) == {x.variant}

\* The counters of a variant are about its sample only.
Counted(x) == IF x.sampled THEN {x.variant} ELSE {}

\* The sender account is written first; then the recipient, and the counter, one
\* more than it was read.
RecordSent(w) ==
    /\ pc[w] = "account"
    /\ Free(w, "account")
    /\ rowLock' = [rowLock EXCEPT !["account"] = w]
    /\ \E r \in accepted[w] \cap todo[w] :
        LET x == draft[w][r] IN
        /\ Settle(w, r, [x EXCEPT !.status = "sent", !.tries = @ + 1], Counted(x))
        /\ count' = [count EXCEPT ![w] = [v \in Variants |->
                        IF v \in Counted(x) THEN @[v] + 1 ELSE @[v]]]
        /\ bumped' = [bumped EXCEPT ![w] = @ \cup Counted(x)]
    /\ pc' = [pc EXCEPT ![w] = "batch"]
    /\ UNCHANGED <<dataVars, seen, accepted, choice, closes, held, worldVars>>

\* Mutant: an uncertain attempt is simply repeated.
AfterDoubtRetried(x) == [x EXCEPT !.tries = @ - 1]

\* _record_send_failure: a definite failure is retried up to MaxAttempts ...
AfterFailure(x) == IF x.tries < MaxAttempts THEN x ELSE [x EXCEPT !.status = "failed"]

\* ... an uncertain outcome, of which nobody knows whether the mail went out, is not.
AfterDoubt(x) == [x EXCEPT !.status = "failed"]

CallFailed(w, r) ==
    LET x == [draft[w][r] EXCEPT !.tries = @ + 1]
        v == x.variant
    IN  /\ NextRecipient(w, r)
        /\ \/ /\ Settle(w, r, AfterFailure(x),
                        IF Terminal(AfterFailure(x)) THEN Counted(x) ELSE {})
              /\ UNCHANGED <<mailed, accepted>>
           \/ /\ Settle(w, r, AfterDoubt(x), {})
              /\ \/ UNCHANGED <<mailed, accepted>>
                 \/ /\ mailed' = [mailed EXCEPT ![r] = @ \cup {v}]
                    /\ accepted' = [accepted EXCEPT ![w] = @ \cup {r}]
        /\ UNCHANGED <<dataVars, pc, seen, count, bumped, choice, closes, lockVars,
                       rollbacks, lost, chosen>>

\* _refresh_counters and _maybe_select_ab_winner: the campaign is complete when no
\* recipient waits, the held-back ones included; a winner is chosen by the test and
\* the counters the batch knows.
RefreshCounters(w) ==
    LET done == \A r \in Recipients : Terminal(View(w, r))
        open == Undecided(seen[w])
    IN  /\ pc[w] = "batch"
        /\ todo[w] = {}
        /\ Flushed(w)
        /\ closes' = [closes EXCEPT ![w] = done]
        /\ IF open /\ seen[w].auto /\ WinnerReady(count[w])
           THEN /\ pc' = [pc EXCEPT ![w] = "select"]
                /\ \E v \in Variants : choice' = [choice EXCEPT ![w] = v]
           ELSE /\ pc' = [pc EXCEPT ![w] = IF done /\ open /\ ~seen[w].auto THEN "finish"
                                           ELSE "commit"]
                /\ choice' = choice
        /\ UNCHANGED <<dataVars, seen, count, dirty, bumped, draft, todo, accepted, lockVars,
                       worldVars>>

\* A completed campaign without automatic choice completes its test.
FinishTest(w) ==
    /\ pc[w] = "finish"
    /\ Free(w, "test")
    /\ rowLock' = [rowLock EXCEPT !["test"] = w]
    /\ pc' = [pc EXCEPT ![w] = "commit"]
    /\ UNCHANGED <<dataVars, seen, count, dirty, bumped, draft, todo, accepted, choice, closes,
                   held, worldVars>>

-----------------------------------------------------------------------------
(* The choice of a winner. *)

\* The operator's request, with a winner named or left to the metric.
ChooseManually(o, v) ==
    /\ pc[o] = "idle"
    /\ EarlyChoice \/ test.status # "draft"
    /\ pc' = [pc EXCEPT ![o] = "select"]
    /\ choice' = [choice EXCEPT ![o] = v]
    /\ UNCHANGED <<dataVars, seen, count, dirty, bumped, draft, todo, accepted, closes, lockVars,
                   worldVars>>

\* Mutant: the evaluator waits for the end of the campaign.
EvaluateCompleted(e) ==
    /\ pc[e] = "idle"
    /\ campaign = "completed"
    /\ test.auto
    /\ Undecided(test)
    /\ WinnerReady(sentCount)
    /\ pc' = [pc EXCEPT ![e] = "select"]
    /\ \E v \in Variants : choice' = [choice EXCEPT ![e] = v]
    /\ UNCHANGED <<dataVars, seen, count, dirty, bumped, draft, todo, accepted, closes, lockVars,
                   worldVars>>

\* _evaluate_ab_test_winners, of what is committed; which candidate is the best by
\* the metric is left open.
EvaluateWinner(e) ==
    /\ pc[e] = "idle"
    /\ test.auto
    /\ Undecided(test)
    /\ WinnerReady(sentCount)
    /\ pc' = [pc EXCEPT ![e] = "select"]
    /\ \E v \in Variants : choice' = [choice EXCEPT ![e] = v]
    /\ UNCHANGED <<dataVars, seen, count, dirty, bumped, draft, todo, accepted, closes, lockVars,
                   worldVars>>

\* select_ab_winner writes the test first ...
LockTest(t) ==
    /\ pc[t] = "select"
    /\ Free(t, "test")
    /\ rowLock' = [rowLock EXCEPT !["test"] = t]
    /\ pc' = [pc EXCEPT ![t] = "release"]
    /\ UNCHANGED <<dataVars, seen, count, dirty, bumped, draft, todo, accepted, choice, closes,
                   held, worldVars>>

\* ... then assign_pending_recipients_to_variant waits for each row it changes ...
LockForRelease(t, r) ==
    /\ pc[t] = "release"
    /\ r \notin held[t]
    /\ Waiting(row[r])
    /\ ~LockedByOthers(t, r)
    /\ held' = [held EXCEPT ![t] = @ \cup {r}]
    /\ draft' = [draft EXCEPT ![t][r] = row[r]]
    /\ UNCHANGED <<dataVars, pc, seen, count, dirty, bumped, todo, accepted, choice, closes,
                   rowLock, worldVars>>

\* Mutant: SKIP LOCKED.
ToReleaseUnlocked(t) == {r \in Recipients \ held[t] : Waiting(row[r]) /\ ~LockedByOthers(t, r)}

\* Rows the statement has still to lock.
ToRelease(t) == {r \in Recipients \ held[t] : Waiting(row[r])}

\* ... and gives them all to the winner, out of the sample.
AssignPending(t) ==
    /\ pc[t] = "release"
    /\ ToRelease(t) = {}
    /\ draft' = [draft EXCEPT ![t] = [r \in Recipients |->
                    IF r \in held[t] /\ Waiting(@[r])
                    THEN [status |-> "pending", variant |-> choice[t], sampled |-> FALSE,
                          tries |-> @[r].tries]
                    ELSE @[r]]]
    /\ pc' = [pc EXCEPT ![t] = "commit"]
    /\ UNCHANGED <<dataVars, seen, count, dirty, bumped, todo, accepted, choice, closes, lockVars,
                   worldVars>>

-----------------------------------------------------------------------------
(* The end of a transaction. *)

Commit(t) ==
    /\ pc[t] = "commit"
    /\ row' = [r \in Recipients |-> View(t, r)]
    /\ sentCount' = [v \in Variants |-> IF v \in bumped[t] THEN count[t][v] ELSE sentCount[v]]
    /\ campaign' = IF closes[t] THEN "completed" ELSE campaign
    /\ test' = IF rowLock["test"] # t THEN test
               ELSE IF choice[t] = NoVariant THEN [test EXCEPT !.status = "completed"]
               ELSE [test EXCEPT !.status = "winner_selected", !.winner = choice[t]]
    /\ chosen' = chosen \cup ({choice[t]} \ {NoVariant})
    /\ EndTxn(t)
    /\ UNCHANGED <<bucket, elapsed, rollbacks, mailed, lost>>

\* What transaction t waits for is locked by u.
WaitsFor(t, u) ==
    /\ t # u
    /\ \/ pc[t] = "account" /\ rowLock["account"] = u
       \/ pc[t] \in {"select", "finish", "launch"} /\ rowLock["test"] = u
       \/ pc[t] = "batch" /\ \E v \in dirty[t] : rowLock[v] = u
       \/ pc[t] = "release" /\ \E r \in ToRelease(t) : r \in held[u]

\* Transactions that wait for each other in a circle.
Deadlocked(t) ==
    \E S \in SUBSET Txns :
        t \in S /\ \A x \in S : \E u, v \in S : WaitsFor(x, u) /\ WaitsFor(v, x)

\* A crash, an error, or PostgreSQL breaks a deadlock: the database forgets what the
\* transaction wrote, the recipients keep their mails.
Rollback(t) ==
    /\ pc[t] \notin {"idle", "done"}
    /\ rollbacks < MaxRollbacks \/ Deadlocked(t)
    /\ rollbacks' = IF rollbacks < MaxRollbacks THEN rollbacks + 1 ELSE rollbacks
    /\ lost' = lost \cup accepted[t]
    /\ EndTxn(t)
    /\ UNCHANGED <<dataVars, mailed, chosen>>

TestElapses ==
    /\ test.status # "draft"
    /\ ~elapsed
    /\ elapsed' = TRUE
    /\ UNCHANGED <<bucket, campaign, test, sentCount, row, txnVars, lockVars, worldVars>>

-----------------------------------------------------------------------------
ReleaseStep(t) ==
    \/ LockTest(t)
    \/ \E r \in Recipients : LockForRelease(t, r)
    \/ AssignPending(t)
    \/ Commit(t)

BatchStep(w) ==
    \/ ReadTest(w)
    \/ FlushVariants(w)
    \/ \E r \in Recipients : SkipRecipient(w, r) \/ CallAccepted(w, r) \/ CallFailed(w, r)
    \/ RecordSent(w)
    \/ RefreshCounters(w)
    \/ FinishTest(w)
    \/ ReleaseStep(w)

ABNext ==
    \/ \E l \in Launchers : LoadLaunch(l) \/ LaunchCampaign(l)
    \/ \E w \in Batches : Claim(w) \/ BatchStep(w)
    \/ \E o \in Operators : (\E v \in Variants : ChooseManually(o, v)) \/ ReleaseStep(o)
    \/ \E e \in Evaluators : EvaluateWinner(e) \/ ReleaseStep(e)
    \/ \E t \in Txns : Rollback(t)
    \/ TestElapses

ABSpec == ABInit /\ [][ABNext]_abVars

\* Open transactions go on, the database grants row locks in the order of arrival and
\* breaks deadlocks, the scheduler loop evaluates again and again, and time passes.
\* That anybody opens a batch, chooses by hand or crashes is not promised.
ABFairness ==
    /\ \A l \in Launchers : WF_abVars(LaunchCampaign(l))
    /\ \A w \in Batches : WF_abVars(BatchStep(w))
    /\ \A o \in Operators : WF_abVars(ReleaseStep(o))
    /\ \A e \in Evaluators : WF_abVars(EvaluateWinner(e) \/ ReleaseStep(e))
    /\ \A t \in Txns \ Launchers :
        SF_abVars(LockTest(t) \/ \E r \in Recipients : LockForRelease(t, r))
    /\ WF_abVars(\E t \in Txns : Deadlocked(t) /\ Rollback(t))
    /\ WF_abVars(TestElapses)

ABFairSpec == ABSpec /\ ABFairness

-----------------------------------------------------------------------------
(* Properties. *)

\* A recipient outside the sample is mailed nothing but a winner that was chosen
\* before (select_ab_winner releases `holdout` rows, list_due_recipients ignores them).
HeldBackGetWinner == \A r \in Recipients \ Sample : mailed[r] \subseteq chosen

\* Once a winner is committed no recipient is left behind: nobody waits in the sample,
\* held back, or for another candidate (assign_pending_recipients_to_variant waits for
\* the rows of running batches, who commit retries of their own).
ReleasedTogether ==
    test.winner # NoVariant =>
        \A r \in Recipients : Waiting(row[r]) =>
            row[r].status = "pending" /\ row[r].variant = test.winner /\ ~row[r].sampled

\* Nobody gets two candidates, unless an accepted mail was lost with its transaction.
OneCandidate == \A r \in Recipients \ lost : Cardinality(mailed[r]) <= 1

\* The metric never counts more mails than the sample got: not the continuation, and
\* no mail twice, although counters are read once and written back absolute.
MetricsOfSample ==
    \A v \in Variants :
        sentCount[v] <= Cardinality({r \in Sample : v \in mailed[r]})

\* A test whose rules are met by the committed counters does not stay undecided: the
\* evaluator of the scheduler loop decides it, although it waits for every open batch.
TestDecided ==
    []<>~(test.auto /\ Undecided(test) /\ WinnerReady(sentCount))

=============================================================================
