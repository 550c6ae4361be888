---------------------------- MODULE SenderAccount ----------------------------
(***************************************************************************)
(* One sender address of an organization: connecting it by SMTP or by      *)
(* Google, verifying, testing, editing and disconnecting it, the loops     *)
(* that check its health, and the campaign batches and test mails that     *)
(* send through it and count what they send.                               *)
(*                                                                         *)
(* Requests, batches and test mails are transactions that read the row     *)
(* without a lock, usually talk to a provider, and then write every        *)
(* column of what they have read; the health loops write some columns.     *)
(***************************************************************************)
EXTENDS Integers, FiniteSets

CONSTANTS
    Txns,           \* transactions that may be open at once
    Workers,        \* of them, those that may be batches
    Limit,          \* sending_limit of the account, mails a day
    BatchSize,      \* batch_size of the campaign that sends through it
    MaxAttempts,    \* MAX_ATTEMPTS: verification codes sent
    MaxGrants,      \* bound: authorizations stored
    MaxRequests,    \* bound: requests by users
    MaxSent,        \* bound: mails of a day counted
    MaxUnheard,     \* bound: mails of a day whose answer was lost
    Raced           \* of a day on which transactions overlapped or lost a mail

ASSUME SenderAssumption ==
    /\ IsFiniteSet(Txns) /\ Workers \subseteq Txns
    /\ Limit \in Nat \ {0} /\ BatchSize \in Nat \ {0}
    /\ MaxUnheard \in Nat /\ MaxSent \in Nat /\ MaxSent > Limit + MaxUnheard
    /\ MaxAttempts \in Nat \ {0} /\ MaxGrants \in Nat \ {0} /\ MaxRequests \in Nat
    /\ Raced \notin Int

VARIABLES
    account,    \* the committed email_accounts row of the address
    smtpCode,   \* of the SMTP configuration: its verification code, or "missing"
    attempts,   \* codes sent
    grants,     \* OAuth configurations
    granted,    \* OAuth configurations created so far
    tokenWorks, \* whether Google accepts the stored refresh token
    job,        \* the open transactions
    probe,      \* the health loops: what they have found out and not yet written
    sentToday,  \* mails accepted by the provider today (UTC), or Raced
    unheard,    \* those of them whose answer was lost
    gone,       \* whether the user disconnected the account and did not connect it again
    requests    \* requests made

senderVars == <<account, smtpCode, attempts, grants, granted, tokenWorks, job, probe,
                sentToday, unheard, gone, requests>>

sends == <<sentToday, unheard>>
config == <<smtpCode, attempts, grants, granted, tokenWorks>>

\* today: last_sent_date is the current date; smtp and oauth: the configuration ids,
\* FALSE and 0 for NULL.
Account == [status : {"absent", "pending_verification", "active", "reconnect_required",
                      "disconnected"},
            live : BOOLEAN, provider : {"smtp", "gmail"}, smtp : BOOLEAN,
            oauth : 0..MaxGrants, health : {"unknown", "healthy", "unhealthy"},
            count : 0..Limit, today : BOOLEAN]

Absent == [status |-> "absent", live |-> FALSE, provider |-> "smtp", smtp |-> FALSE,
           oauth |-> 0, health |-> "unknown", count |-> 0, today |-> FALSE]

NewSmtp == [Absent EXCEPT !.status = "pending_verification", !.live = TRUE, !.smtp = TRUE]
NewGmail(g) == [Absent EXCEPT !.status = "active", !.live = TRUE, !.provider = "gmail",
                              !.oauth = g]

Kinds == {"batch", "test", "save", "disconnect", "verify", "callback", "connect"}

\* view: the row as read and changed in memory; row: as written and not yet committed,
\* which locks it; Absent for none. left: the mails still to send.
NoJob == [kind |-> "none", phase |-> "idle", view |-> Absent, row |-> Absent, left |-> 0]
NoProbe == [health |-> "none", stale |-> FALSE]

SenderTypeOK ==
    /\ account \in Account
    /\ smtpCode \in {"missing", "none", "fresh", "expired"}
    /\ attempts \in 0..MaxAttempts
    /\ granted \in 0..MaxGrants /\ grants \subseteq 1..granted
    /\ tokenWorks \in BOOLEAN /\ gone \in BOOLEAN
    /\ job \in [Txns -> [kind : Kinds \cup {"none"},
                         phase : {"idle", "ready", "read", "accepted"},
                         view : Account, row : Account, left : 0..BatchSize]]
    /\ probe \in [health : {"none", "healthy", "unhealthy"}, stale : BOOLEAN]
    /\ sentToday \in 0..MaxSent \cup {Raced}
    /\ unheard \in 0..MaxUnheard
    /\ requests \in 0..MaxRequests

\* An address that is not connected, or is already: by SMTP, not yet verified, or by Google.
SenderInit ==
    /\ \/ /\ account = Absent
          /\ smtpCode = "missing" /\ attempts = 0
          /\ grants = {} /\ granted = 0 /\ tokenWorks = FALSE
       \/ /\ account = NewSmtp
          /\ smtpCode = "fresh" /\ attempts = 1
          /\ grants = {} /\ granted = 0 /\ tokenWorks = FALSE
       \/ /\ account = [NewGmail(1) EXCEPT !.health = "healthy"]
          /\ smtpCode = "missing" /\ attempts = 0
          /\ grants = {1} /\ granted = 1 /\ tokenWorks = TRUE
    /\ job = [t \in Txns |-> NoJob]
    /\ probe = NoProbe
    /\ sentToday = 0 /\ unheard = 0 /\ gone = FALSE
    /\ requests = 0

-----------------------------------------------------------------------------
(* Rows, locks and transactions. *)

Wrote(t) == job[t].row # Absent

\* A transaction reads what it wrote.
View(t) == IF Wrote(t) THEN job[t].row ELSE account

Locked == \E t \in Txns : Wrote(t)
MayWrite(t) == \A u \in Txns \ {t} : ~Wrote(u)

\* Foreign keys: a row refers to configurations that exist.
KeysExist(row) == (row.smtp => smtpCode # "missing") /\ (row.oauth # 0 => row.oauth \in grants)

Open == {t \in Txns : job[t].kind # "none"}

\* The mails of the day can no longer be attributed.
Race == sentToday' = Raced /\ unheard' = 0

\* Transaction t starts for request, batch or mail k, having read row.
Start(t, k, phase, row, n) ==
    /\ job[t].kind = "none"
    /\ job' = [job EXCEPT ![t] = [kind |-> k, phase |-> phase, view |-> row,
                                  row |-> Absent, left |-> n]]
    /\ IF Open = {} THEN UNCHANGED sends ELSE Race

Request(t, k, row) ==
    /\ requests < MaxRequests
    /\ Start(t, k, "read", row, 0)
    /\ requests' = requests + 1
    /\ UNCHANGED <<account, config, probe, gone>>

\* A request writes the whole row and commits.
Finish(t, k, row) ==
    /\ job[t].kind = k
    /\ MayWrite(t)
    /\ account' = row
    /\ job' = [job EXCEPT ![t] = NoJob]
    /\ UNCHANGED <<probe, sends, requests>>

\* A refused, failed or lost transaction; of a mail that left, nothing remains.
Rollback(t) ==
    /\ job[t].kind # "none"
    /\ job' = [job EXCEPT ![t] = NoJob]
    /\ IF job[t].phase = "accepted" \/ Wrote(t) THEN Race ELSE UNCHANGED sends
    /\ UNCHANGED <<account, config, probe, gone, requests>>

-----------------------------------------------------------------------------
(* Connecting. *)

\* What a connection test reports; it may fail for other reasons.
Tested(row, h) ==
    IF row.provider = "smtp" THEN row.smtp /\ smtpCode # "missing" /\ h = "healthy"
    ELSE row.oauth \in grants /\ tokenWorks /\ h = "healthy"

Health(row, h) == IF Tested(row, h) THEN "healthy" ELSE "unhealthy"

\* smtp/connect: refused for a live account, and by the unique key for a deleted one.
LoadConnect(t) == ~account.live /\ Request(t, "connect", NewSmtp)

ConnectSmtp(t) ==
    /\ account.status = "absent"
    /\ Finish(t, "connect", job[t].view)
    /\ smtpCode' = "fresh"
    /\ attempts' = 1
    /\ UNCHANGED <<grants, granted, tokenWorks, gone>>

LoadVerify(t) ==
    /\ account.live /\ account.status = "pending_verification"
    /\ smtpCode = "fresh"
    /\ Request(t, "verify", [account EXCEPT !.status = "active"])

VerifySmtp(t) ==
    /\ KeysExist(job[t].view)
    /\ Finish(t, "verify", job[t].view)
    /\ smtpCode' = "none"
    /\ UNCHANGED <<attempts, grants, granted, tokenWorks, gone>>

\* Mutant: any number of codes.
MayResendForever == account.live /\ account.status = "pending_verification"

MayResend == /\ account.live /\ account.status = "pending_verification"
             /\ attempts < MaxAttempts

ResendVerification ==
    /\ MayResend
    /\ smtpCode' = "fresh"
    /\ attempts' = IF attempts < MaxAttempts THEN attempts + 1 ELSE attempts
    /\ UNCHANGED <<account, grants, granted, tokenWorks, job, probe, sends,
                   gone, requests>>

\* The account that comes back from Google with authorization g.
Authorized(row, g) ==
    IF row.status = "absent" THEN NewGmail(g)
    ELSE [row EXCEPT !.status = "active", !.live = TRUE, !.oauth = g]

\* oauth/callback: a new account, one to reconnect or a deleted one to restore.
LoadCallback(t) ==
    /\ account.live => account.status = "reconnect_required"
    /\ Request(t, "callback", account)

\* Google may return a refresh token or not; without one the stored token stays.
OAuthCallback(t) ==
    \E refresh \in BOOLEAN, h \in {"healthy", "unhealthy"} :
    LET row == job[t].view
        stored == row.oauth # 0
        g == IF stored THEN row.oauth ELSE granted + 1
        new == Authorized(row, g)
    IN  /\ job[t].kind = "callback"
        /\ row.status = "absent" => account.status = "absent"
        /\ stored \/ (refresh /\ granted < MaxGrants)
        /\ KeysExist(row)
        /\ grants' = grants \cup {g}
        /\ granted' = IF stored THEN granted ELSE granted + 1
        /\ tokenWorks' = (refresh \/ tokenWorks)
        /\ Finish(t, "callback",
                  [new EXCEPT !.health =
                      IF /\ h = "healthy"
                         /\ IF new.provider = "gmail" THEN tokenWorks' ELSE new.smtp
                      THEN "healthy" ELSE "unhealthy"])
        /\ gone' = FALSE
        /\ UNCHANGED <<smtpCode, attempts>>

-----------------------------------------------------------------------------
(* Editing, testing and disconnecting. *)

LoadEdit(t) == account.live /\ Request(t, "save", account)

LoadCheck(t) ==
    /\ account.live
    /\ \E h \in {"healthy", "unhealthy"} :
        Request(t, "save", [account EXCEPT !.health = Health(account, h)])

\* update_account and test_connection write every column they have read.
SaveRow(t) ==
    /\ KeysExist(job[t].view)
    /\ Finish(t, "save", job[t].view)
    /\ UNCHANGED <<config, gone>>

LoadDisconnect(t) ==
    /\ account.live
    /\ Request(t, "disconnect", [account EXCEPT !.status = "disconnected", !.live = FALSE])

\* Mutant: the configurations stay.
KeepConfigs(row) == UNCHANGED <<smtpCode, grants>>

\* delete_smtp_config and delete_oauth_config.
DropConfigs(row) ==
    /\ smtpCode' = IF row.smtp THEN "missing" ELSE smtpCode
    /\ grants' = grants \ {row.oauth}

\* The configurations go with the account, whose references become NULL.
Disconnect(t) ==
    /\ KeysExist(job[t].view)
    /\ DropConfigs(job[t].view)
    /\ Finish(t, "disconnect",
              [job[t].view EXCEPT !.smtp = @ /\ smtpCode' # "missing",
                                  !.oauth = IF @ \in grants' THEN @ ELSE 0])
    /\ gone' = TRUE
    /\ UNCHANGED <<attempts, granted, tokenWorks>>

-----------------------------------------------------------------------------
(* Sending. *)

Least(a, b) == IF a < b THEN a ELSE b

\* What process_campaign takes for left of the limit: the stored count, of any day.
Remaining == Limit - account.count

BatchLimit(n) == Least(n, BatchSize)

BeginBatch(t) ==
    /\ t \in Workers
    /\ account.live /\ account.status = "active"
    /\ Remaining > 0
    /\ Start(t, "batch", "ready", Absent, BatchLimit(Remaining))
    /\ UNCHANGED <<account, config, probe, gone, requests>>

BeginTest(t) ==
    /\ requests < MaxRequests
    /\ Start(t, "test", "ready", Absent, 1)
    /\ requests' = requests + 1
    /\ UNCHANGED <<account, config, probe, gone>>

\* Mutant: the count starts again with every mail.
ResetEveryMail(row) == [row EXCEPT !.count = 0, !.today = TRUE]

\* reset_daily_if_new_day, in memory.
ResetDaily(row) == IF row.today THEN row ELSE [row EXCEPT !.count = 0, !.today = TRUE]

CanSend(row) ==
    row.status = "active" /\ row.live /\ row.health # "unhealthy" /\ row.count < Limit

\* send: the account is read again for every mail.
ReadForSend(t) ==
    /\ job[t].phase = "ready"
    /\ job[t].left > 0
    /\ LET row == ResetDaily(View(t)) IN
       IF CanSend(row) /\ KeysExist(row) /\ (row.provider = "smtp" => row.smtp)
       THEN job' = [job EXCEPT ![t].phase = "read", ![t].left = @ - 1,
                               ![t].view = row]
       ELSE job' = [job EXCEPT ![t].left = @ - 1]
    /\ UNCHANGED <<account, config, probe, sends, gone, requests>>

Sending(t) == job[t].kind \in {"batch", "test"} /\ job[t].phase = "read"

CallAccepted(t) ==
    /\ Sending(t)
    /\ job[t].view.provider = "gmail" => tokenWorks
    /\ job' = [job EXCEPT ![t].phase = "accepted"]
    /\ sentToday' = IF sentToday = Raced THEN Raced ELSE Least(sentToday + 1, MaxSent)
    /\ UNCHANGED <<account, config, probe, unheard, gone, requests>>

\* The provider refuses the mail: nothing is written.
CallFailed(t) ==
    /\ Sending(t)
    /\ job' = [job EXCEPT ![t].phase = "ready", ![t].view = Absent]
    /\ UNCHANGED <<account, config, probe, sends, gone, requests>>

\* The mail is out, the answer is lost (a timeout, a broken connection): the sender takes it
\* for a failure and counts nothing.
CallLost(t) ==
    /\ Sending(t)
    /\ job[t].view.provider = "gmail" => tokenWorks
    /\ sentToday # Raced /\ sentToday < MaxSent /\ unheard < MaxUnheard
    /\ job' = [job EXCEPT ![t].phase = "ready", ![t].view = Absent]
    /\ sentToday' = sentToday + 1
    /\ unheard' = unheard + 1
    /\ UNCHANGED <<account, config, probe, gone, requests>>

\* Google refuses the token, or the mail with a 400, 401 or 403: the account has to be
\* connected again.
CallUnauthorized(t) ==
    /\ Sending(t)
    /\ job[t].view.provider = "gmail"
    /\ MayWrite(t) /\ KeysExist(job[t].view)
    /\ job' = [job EXCEPT
                  ![t].phase = "ready", ![t].view = Absent,
                  ![t].row = [job[t].view EXCEPT !.status = "reconnect_required"]]
    /\ UNCHANGED <<account, config, probe, sends, gone, requests>>

\* Count the mail and write every column of the row read before the call.
RecordSent(t) ==
    /\ job[t].phase = "accepted"
    /\ MayWrite(t) /\ KeysExist(job[t].view)
    /\ job' = [job EXCEPT
                  ![t].phase = "ready", ![t].view = Absent,
                  ![t].row = [job[t].view EXCEPT !.count = @ + 1, !.today = TRUE]]
    /\ UNCHANGED <<account, config, probe, sends, gone, requests>>

\* The end of a batch, or of a test mail that was sent.
CommitSends(t) ==
    /\ job[t].phase = "ready" /\ job[t].left = 0
    /\ job[t].kind = "test" => job[t].row.status = "active"
    /\ account' = View(t)
    /\ job' = [job EXCEPT ![t] = NoJob]
    /\ UNCHANGED <<config, probe, sends, gone, requests>>

-----------------------------------------------------------------------------
(* The health loops. *)

\* process_health_check tests an active account ...
TestHealth ==
    /\ probe.health = "none"
    /\ account.live /\ account.status = "active"
    /\ \E h \in {"healthy", "unhealthy"} :
        probe' = [probe EXCEPT !.health = Health(account, h)]
    /\ UNCHANGED <<account, config, job, sends, gone, requests>>

\* ... and writes the result, whatever has become of it.
WriteHealth ==
    /\ probe.health # "none"
    /\ ~Locked
    /\ account' = [account EXCEPT !.health = probe.health]
    /\ probe' = [probe EXCEPT !.health = "none"]
    /\ UNCHANGED <<config, job, sends, gone, requests>>

\* Mutant: accounts are left active.
FindsNothing == FALSE

FindsStale ==
    /\ account.live /\ account.status = "active"
    /\ account.health = "unhealthy" /\ account.provider = "gmail"

\* process_stale_reconnect finds an unhealthy account and marks it.
FindStale ==
    /\ ~probe.stale
    /\ FindsStale
    /\ probe' = [probe EXCEPT !.stale = TRUE]
    /\ UNCHANGED <<account, config, job, sends, gone, requests>>

MarkStale ==
    /\ probe.stale
    /\ ~Locked
    /\ account' = [account EXCEPT !.status = "reconnect_required"]
    /\ probe' = [probe EXCEPT !.stale = FALSE]
    /\ UNCHANGED <<config, job, sends, gone, requests>>

\* process_expired_verification_cleanup keeps the configuration.
ExpireVerification ==
    /\ account.live /\ account.status = "pending_verification"
    /\ account.smtp /\ smtpCode = "expired"
    /\ ~Locked
    /\ account' = [account EXCEPT !.status = "disconnected", !.live = FALSE]
    /\ UNCHANGED <<config, job, probe, sends, gone, requests>>

-----------------------------------------------------------------------------
(* Time and Google. *)

CodeExpires ==
    /\ smtpCode = "fresh"
    /\ smtpCode' = "expired"
    /\ UNCHANGED <<account, attempts, grants, granted, tokenWorks, job, probe, sends,
                   gone, requests>>

\* Rows in memory are compared with the date of their use.
NewDay ==
    /\ account' = [account EXCEPT !.today = FALSE]
    /\ job' = [t \in Txns |-> [job[t] EXCEPT !.view.today = FALSE, !.row.today = FALSE]]
    /\ sentToday' = IF Cardinality(Open) > 1 THEN Raced ELSE 0
    /\ unheard' = 0
    /\ UNCHANGED <<config, probe, gone, requests>>

RevokeToken ==
    /\ tokenWorks
    /\ tokenWorks' = FALSE
    /\ UNCHANGED <<account, smtpCode, attempts, grants, granted, job, probe, sends,
                   gone, requests>>

-----------------------------------------------------------------------------
Loads(t) == LoadConnect(t) \/ LoadVerify(t) \/ LoadCallback(t) \/ LoadEdit(t)
            \/ LoadCheck(t) \/ LoadDisconnect(t) \/ BeginTest(t)

Steps(t) == ConnectSmtp(t) \/ VerifySmtp(t) \/ OAuthCallback(t) \/ SaveRow(t)
            \/ Disconnect(t) \/ ReadForSend(t) \/ CallAccepted(t) \/ CallFailed(t)
            \/ CallLost(t) \/ CallUnauthorized(t) \/ RecordSent(t) \/ CommitSends(t) \/ Rollback(t)

SenderNext ==
    \/ \E t \in Txns : Loads(t) \/ BeginBatch(t) \/ Steps(t)
    \/ ResendVerification
    \/ TestHealth \/ WriteHealth \/ FindStale \/ MarkStale \/ ExpireVerification
    \/ CodeExpires \/ NewDay \/ RevokeToken

SenderSpec == SenderInit /\ [][SenderNext]_senderVars

\* Transactions end, the loops run, batches are started, time passes. A loop's UPDATE
\* waits in the queue of the row lock and gets it.
SenderFairSpec ==
    /\ SenderSpec
    /\ \A t \in Txns : WF_senderVars(Steps(t)) /\ WF_senderVars(BeginBatch(t))
    /\ WF_senderVars(TestHealth) /\ SF_senderVars(WriteHealth)
    /\ WF_senderVars(FindStale) /\ SF_senderVars(MarkStale)
    /\ WF_senderVars(ExpireVerification)
    /\ WF_senderVars(CodeExpires) /\ WF_senderVars(NewDay)

-----------------------------------------------------------------------------
(* Properties. *)

\* An address that was disconnected is used again only after it has been connected
\* again: no batch, edit or test that read the account before the disconnect brings it
\* back by writing the columns it has read, because they refer to configurations that are
\* gone (base_repository.py update, DisconnectAccountUseCase). The exception: two callbacks that
\* restored it at once have stored two authorizations, and one of them is left.
DisconnectLasts == gone /\ grants = {} => ~account.live

\* More than sending_limit mails leave in a day only where transactions overlapped, one was
\* lost after its mails had left, or the answers of mails that left were lost: a day of batches
\* and tests, one at a time, exceeds the limit by no more than the mails without an answer,
\* whatever was reset, edited or reconnected in between (can_send, _send_batch).
LimitKeptBySerialUse == sentToday # Raced => sentToday <= Limit + unheard

Pending == account.live /\ account.status = "pending_verification" /\ smtpCode # "none"

\* An address that waits for its code is verified, or expires and is dropped, in the end,
\* whatever is resent and edited (process_expired_verification_cleanup). One that an edit
\* has put back to pending after the code was used waits for nothing.
PendingSettles == Pending ~> ~Pending

Unusable == /\ account.live /\ account.status = "active"
            /\ account.provider = "gmail" /\ ~tokenWorks

\* A Google account whose token no longer works is found out, by a mail or by the
\* loops, and has to be connected again (process_stale_reconnect, _send_gmail).
RevokedIsNoticed == Unusable ~> ~Unusable

Usable == account.live /\ account.status = "active"

\* What the entity's fields say ("Emails sent today", "Max emails per day"): an account
\* that has reached its limit has mails left again on a later day. The code computes
\* what is left from the count of the day the account was last used.
DailyCapacityReturns == (Usable /\ Remaining = 0) ~> (~Usable \/ Remaining > 0)

=============================================================================
