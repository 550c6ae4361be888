------------------------ MODULE SenderAccount_proofs ------------------------
(***************************************************************************)
(* Proofs about SenderAccount, for any number of transactions, any limit,  *)
(* batch size and number of requests and authorizations.                   *)
(***************************************************************************)
EXTENDS SenderAccount, FiniteSetTheorems, TLAPS

-----------------------------------------------------------------------------
(* Types *)

Txn == [kind : Kinds \cup {"none"}, phase : {"idle", "ready", "read", "accepted"},
        view : Account, row : Account, left : 0..BatchSize]

\* A mail on its way was allowed by the row it was read from: counting it stays in range.
MailsFit ==
    \A t \in Txns :
        \/ job[t].phase = "accepted"
        \/ job[t].phase = "read" /\ job[t].kind \in {"batch", "test"}
        => job[t].view.count < Limit

Typed == SenderTypeOK /\ MailsFit

SendsFit == sentToday \in 0..MaxSent \cup {Raced} /\ unheard \in 0..MaxUnheard

LEMMA KnownRows ==
    /\ Absent \in Account /\ NewSmtp \in Account
    /\ \A g \in 0..MaxGrants : NewGmail(g) \in Account
    /\ NoJob \in Txn
<1>0. 0 \in 0..Limit /\ 0 \in 0..MaxGrants /\ 0 \in 0..BatchSize
  BY SenderAssumption
<1>1. Absent \in Account
  BY <1>0 DEF Absent, Account
<1>2. NewSmtp \in Account
  BY <1>0 DEF NewSmtp, Absent, Account
<1>3. \A g \in 0..MaxGrants : NewGmail(g) \in Account
  BY <1>0 DEF NewGmail, Absent, Account
<1>4. NoJob \in Txn
  BY <1>0, <1>1 DEF NoJob, Txn
<1> QED
  BY <1>1, <1>2, <1>3, <1>4

LEMMA TypedStarts == SenderInit => Typed
<1> SUFFICES ASSUME SenderInit PROVE Typed
  OBVIOUS
<1>1. account \in Account
  <2>1. CASE account = Absent \/ account = NewSmtp
    BY <2>1, KnownRows
  <2>2. CASE account = [NewGmail(1) EXCEPT !.health = "healthy"]
    <3>1. 1 \in 0..MaxGrants
      BY SenderAssumption
    <3> QED
      BY <2>2, <3>1, KnownRows DEF Account
  <2> QED
    BY <2>1, <2>2 DEF SenderInit
<1>2. \A t \in Txns : job[t] = NoJob
  BY DEF SenderInit
<1>3. MailsFit
  BY <1>2 DEF MailsFit, NoJob
<1>4. job \in [Txns -> Txn]
  BY KnownRows DEF SenderInit
<1>5. /\ 0 \in 0..MaxAttempts /\ 1 \in 0..MaxAttempts
      /\ 0 \in 0..MaxGrants /\ 1 \in 0..MaxGrants /\ {1} \subseteq 1..1
      /\ 0 \in 0..MaxSent /\ 0 \in 0..MaxUnheard /\ 0 \in 0..MaxRequests
  BY SenderAssumption
<1>6. /\ smtpCode \in {"missing", "none", "fresh", "expired"}
      /\ attempts \in 0..MaxAttempts
      /\ granted \in 0..MaxGrants /\ grants \subseteq 1..granted
      /\ tokenWorks \in BOOLEAN /\ gone \in BOOLEAN
  BY <1>5 DEF SenderInit
<1>7. /\ probe \in [health : {"none", "healthy", "unhealthy"}, stale : BOOLEAN]
      /\ SendsFit
      /\ requests \in 0..MaxRequests
  BY <1>5 DEF SenderInit, NoProbe, SendsFit
<1> QED
  BY <1>1, <1>3, <1>4, <1>6, <1>7 DEF Typed, SenderTypeOK, SendsFit, Txn

Statuses == {"absent", "pending_verification", "active", "reconnect_required", "disconnected"}

\* A row changed column by column stays a row.
LEMMA ChangedRows ==
    ASSUME NEW row \in Account
    PROVE  /\ \A s \in Statuses : [row EXCEPT !.status = s] \in Account
           /\ \A s \in Statuses, b \in BOOLEAN : [row EXCEPT !.status = s, !.live = b] \in Account
           /\ \A s \in Statuses, b \in BOOLEAN, g \in 0..MaxGrants :
                 [row EXCEPT !.status = s, !.live = b, !.oauth = g] \in Account
           /\ \A b \in BOOLEAN, g \in 0..MaxGrants :
                 [row EXCEPT !.smtp = b, !.oauth = g] \in Account
           /\ \A h \in {"unknown", "healthy", "unhealthy"} : [row EXCEPT !.health = h] \in Account
           /\ \A n \in 0..Limit, b \in BOOLEAN : [row EXCEPT !.count = n, !.today = b] \in Account
           /\ [row EXCEPT !.today = FALSE] \in Account
BY DEF Account, Statuses

LEMMA ResetRows ==
    ASSUME NEW row \in Account
    PROVE  ResetDaily(row) \in Account /\ ResetDaily(row).count \in Nat
<1>1. 0 \in 0..Limit /\ 0..Limit \subseteq Nat
  BY SenderAssumption
<1>2. ResetDaily(row) \in Account
  BY <1>1, ChangedRows DEF ResetDaily
<1> QED
  BY <1>1, <1>2 DEF Account

\* A transaction whose state stays in range disturbs nobody else's.
LEMMA OneJobMoves ==
    ASSUME Typed, NEW t \in Txns, NEW j \in Txn,
           job' = [job EXCEPT ![t] = j],
           \/ j.phase = "accepted"
           \/ j.phase = "read" /\ j.kind \in {"batch", "test"}
           => j.view.count < Limit
    PROVE  job' \in [Txns -> Txn] /\ MailsFit'
<1>1. job \in [Txns -> Txn]
  BY DEF Typed, SenderTypeOK, Txn
<1>2. job' \in [Txns -> Txn]
  BY <1>1
<1>3. \A u \in Txns : job'[u] = IF u = t THEN j ELSE job[u]
  BY <1>1
<1>4. MailsFit'
  BY <1>3 DEF Typed, MailsFit
<1> QED
  BY <1>2, <1>4

\* The rest of the type of the state.
Rest ==
    /\ smtpCode \in {"missing", "none", "fresh", "expired"}
    /\ attempts \in 0..MaxAttempts
    /\ granted \in 0..MaxGrants /\ grants \subseteq 1..granted
    /\ tokenWorks \in BOOLEAN /\ gone \in BOOLEAN
    /\ probe \in [health : {"none", "healthy", "unhealthy"}, stale : BOOLEAN]
    /\ SendsFit
    /\ requests \in 0..MaxRequests

LEMMA TypedIs == Typed <=> /\ account \in Account /\ job \in [Txns -> Txn]
                           /\ Rest /\ MailsFit
BY DEF Typed, SenderTypeOK, Rest, SendsFit, Txn

LEMMA TypedIsNext == Typed' <=> /\ account' \in Account /\ job' \in [Txns -> Txn]
                                /\ Rest' /\ MailsFit'
BY DEF Typed, SenderTypeOK, Rest, SendsFit, Txn

\* A transaction that starts.
LEMMA TypedStart ==
    ASSUME Typed, NEW t \in Txns, NEW k \in Kinds, NEW phase \in {"ready", "read"},
           NEW row \in Account, NEW n \in 0..BatchSize, Start(t, k, phase, row, n),
           phase = "read" => k \notin {"batch", "test"}
    PROVE  /\ job' \in [Txns -> Txn] /\ MailsFit'
           /\ SendsFit'
<1> DEFINE j == [kind |-> k, phase |-> phase, view |-> row, row |-> Absent, left |-> n]
<1>1. j \in Txn
  BY KnownRows DEF Txn
<1>2. job' = [job EXCEPT ![t] = j]
  BY DEF Start
<1>3. ~(j.phase = "accepted" \/ (j.phase = "read" /\ j.kind \in {"batch", "test"}))
  OBVIOUS
<1>4. job' \in [Txns -> Txn] /\ MailsFit'
  <2> HIDE DEF j
  <2> QED
    BY <1>1, <1>2, <1>3, OneJobMoves
<1>5. SendsFit'
  BY SenderAssumption DEF Start, Race, sends, Typed, SenderTypeOK, SendsFit
<1> QED
  BY <1>4, <1>5

LEMMA TypedRequest ==
    ASSUME Typed, NEW t \in Txns, NEW k \in Kinds \ {"batch", "test"},
           NEW row \in Account, Request(t, k, row)
    PROVE  Typed'
<1>0. 0 \in 0..BatchSize
  BY SenderAssumption
<1>1. /\ job' \in [Txns -> Txn] /\ MailsFit'
      /\ SendsFit'
  BY <1>0, TypedStart DEF Request
<1>2. requests' \in 0..MaxRequests
  BY SenderAssumption DEF Request, Typed, SenderTypeOK
<1>3. UNCHANGED <<account, config, probe, gone>>
  BY DEF Request
<1>4. Rest'
  BY <1>1, <1>2, <1>3, TypedIs DEF Rest, config
<1> QED
  BY <1>1, <1>3, <1>4, TypedIs, TypedIsNext

\* A request that writes a row and ends.
LEMMA TypedFinish ==
    ASSUME Typed, NEW t \in Txns, NEW k, NEW row \in Account, Finish(t, k, row),
           smtpCode' \in {"missing", "none", "fresh", "expired"},
           attempts' \in 0..MaxAttempts,
           granted' \in 0..MaxGrants, grants' \subseteq 1..granted',
           tokenWorks' \in BOOLEAN, gone' \in BOOLEAN
    PROVE  Typed'
<1>1. job' = [job EXCEPT ![t] = NoJob]
  BY DEF Finish
<1>2. NoJob.phase = "idle"
  BY DEF NoJob
<1>3. job' \in [Txns -> Txn] /\ MailsFit'
  BY <1>1, <1>2, KnownRows, OneJobMoves
<1>4. account' = row /\ UNCHANGED <<probe, sends, requests>>
  BY DEF Finish
<1>5. Rest'
  BY <1>4, TypedIs DEF Rest, SendsFit, sends
<1> QED
  BY <1>3, <1>4, <1>5, TypedIsNext

LEMMA JobsAreTyped ==
    ASSUME Typed, NEW t \in Txns
    PROVE  /\ job[t] \in Txn /\ job[t].view \in Account /\ job[t].row \in Account
           /\ View(t) \in Account
<1>1. job[t] \in Txn /\ account \in Account
  BY TypedIs
<1>2. job[t].view \in Account /\ job[t].row \in Account
  BY <1>1 DEF Txn
<1> QED
  BY <1>1, <1>2 DEF View

LEMMA TypedLoads ==
    ASSUME Typed, NEW t \in Txns, Loads(t)
    PROVE  Typed'
<1>0. account \in Account /\ 0 \in 0..BatchSize /\ 1 \in 0..BatchSize
  BY SenderAssumption, TypedIs
<1>1. CASE LoadConnect(t)
  BY <1>1, KnownRows, TypedRequest DEF LoadConnect, Kinds
<1>2. CASE LoadVerify(t)
  <2>1. [account EXCEPT !.status = "active"] \in Account
    BY <1>0, ChangedRows DEF Statuses
  <2> QED
    BY <1>2, <2>1, TypedRequest DEF LoadVerify, Kinds
<1>3. CASE LoadCallback(t)
  BY <1>0, <1>3, TypedRequest DEF LoadCallback, Kinds
<1>4. CASE LoadEdit(t)
  BY <1>0, <1>4, TypedRequest DEF LoadEdit, Kinds
<1>5. CASE LoadCheck(t)
  <2>1. PICK h \in {"healthy", "unhealthy"} :
            Request(t, "save", [account EXCEPT !.health = Health(account, h)])
    BY <1>5 DEF LoadCheck
  <2>2. Health(account, h) \in {"unknown", "healthy", "unhealthy"}
    BY DEF Health
  <2>3. [account EXCEPT !.health = Health(account, h)] \in Account
    BY <1>0, <2>2, ChangedRows
  <2> QED
    BY <2>1, <2>3, TypedRequest DEF Kinds
<1>6. CASE LoadDisconnect(t)
  <2>1. [account EXCEPT !.status = "disconnected", !.live = FALSE] \in Account
    BY <1>0, ChangedRows DEF Statuses
  <2> QED
    BY <1>6, <2>1, TypedRequest DEF LoadDisconnect, Kinds
<1>7. CASE BeginTest(t)
  <2>1. Start(t, "test", "ready", Absent, 1)
    BY <1>7 DEF BeginTest
  <2>2. /\ job' \in [Txns -> Txn] /\ MailsFit'
        /\ SendsFit'
    BY <1>0, <2>1, KnownRows, TypedStart DEF Kinds
  <2>3. requests' \in 0..MaxRequests
    BY <1>7, SenderAssumption DEF BeginTest, Typed, SenderTypeOK
  <2>4. UNCHANGED <<account, config, probe, gone>>
    BY <1>7 DEF BeginTest
  <2>5. Rest'
    BY <2>2, <2>3, <2>4, TypedIs DEF Rest, config
  <2> QED
    BY <2>2, <2>4, <2>5, TypedIs, TypedIsNext
<1> QED
  BY <1>1, <1>2, <1>3, <1>4, <1>5, <1>6, <1>7 DEF Loads

LEMMA TypedBatch ==
    ASSUME Typed, NEW t \in Txns, BeginBatch(t)
    PROVE  Typed'
<1>1. Start(t, "batch", "ready", Absent, BatchLimit(Remaining))
  BY DEF BeginBatch
<1>2. Remaining \in 1..Limit
  <2>1. account.count \in 0..Limit
    BY TypedIs DEF Account
  <2> QED
    BY <2>1, SenderAssumption DEF BeginBatch, Remaining
<1>3. BatchLimit(Remaining) \in 0..BatchSize
  BY <1>2, SenderAssumption DEF BatchLimit, Least
<1>4. /\ job' \in [Txns -> Txn] /\ MailsFit'
      /\ SendsFit'
  BY <1>1, <1>3, KnownRows, TypedStart DEF Kinds
<1>5. UNCHANGED <<account, config, probe, gone, requests>>
  BY DEF BeginBatch
<1>6. Rest'
  BY <1>4, <1>5, TypedIs DEF Rest, config
<1> QED
  BY <1>4, <1>5, <1>6, TypedIs, TypedIsNext

LEMMA TypedConnecting ==
    ASSUME Typed, NEW t \in Txns, ConnectSmtp(t) \/ VerifySmtp(t) \/ SaveRow(t)
    PROVE  Typed'
<1>0. job[t].view \in Account
  BY JobsAreTyped
<1>1. 1 \in 0..MaxAttempts
  BY SenderAssumption
<1>2. CASE ConnectSmtp(t)
  <2>1. Finish(t, "connect", job[t].view)
    BY <1>2 DEF ConnectSmtp
  <2>2. /\ smtpCode' \in {"missing", "none", "fresh", "expired"}
        /\ attempts' \in 0..MaxAttempts
        /\ granted' \in 0..MaxGrants /\ grants' \subseteq 1..granted'
        /\ tokenWorks' \in BOOLEAN /\ gone' \in BOOLEAN
    BY <1>1, <1>2, TypedIs DEF ConnectSmtp, Rest
  <2> QED
    BY <1>0, <2>1, <2>2, TypedFinish
<1>3. CASE VerifySmtp(t)
  <2>1. Finish(t, "verify", job[t].view)
    BY <1>3 DEF VerifySmtp
  <2>2. /\ smtpCode' \in {"missing", "none", "fresh", "expired"}
        /\ attempts' \in 0..MaxAttempts
        /\ granted' \in 0..MaxGrants /\ grants' \subseteq 1..granted'
        /\ tokenWorks' \in BOOLEAN /\ gone' \in BOOLEAN
    BY <1>3, TypedIs DEF VerifySmtp, Rest
  <2> QED
    BY <1>0, <2>1, <2>2, TypedFinish
<1>4. CASE SaveRow(t)
  <2>1. Finish(t, "save", job[t].view)
    BY <1>4 DEF SaveRow
  <2>2. /\ smtpCode' \in {"missing", "none", "fresh", "expired"}
        /\ attempts' \in 0..MaxAttempts
        /\ granted' \in 0..MaxGrants /\ grants' \subseteq 1..granted'
        /\ tokenWorks' \in BOOLEAN /\ gone' \in BOOLEAN
    BY <1>4, TypedIs DEF SaveRow, config, Rest
  <2> QED
    BY <1>0, <2>1, <2>2, TypedFinish
<1> QED
  BY <1>2, <1>3, <1>4

LEMMA TypedCallback ==
    ASSUME Typed, NEW t \in Txns, OAuthCallback(t)
    PROVE  Typed'
<1> DEFINE row == job[t].view
           stored == row.oauth # 0
           g == IF stored THEN row.oauth ELSE granted + 1
           new == Authorized(row, g)
<1>0. row \in Account /\ row.oauth \in 0..MaxGrants /\ granted \in 0..MaxGrants
  BY JobsAreTyped, TypedIs DEF Account, Rest
<1>1. PICK h \in {"healthy", "unhealthy"} :
        /\ stored \/ granted < MaxGrants
        /\ KeysExist(row)
        /\ grants' = grants \cup {g}
        /\ granted' = IF stored THEN granted ELSE granted + 1
        /\ tokenWorks' \in BOOLEAN
        /\ \E w \in {"healthy", "unhealthy"} :
              Finish(t, "callback", [new EXCEPT !.health = w])
        /\ gone' = FALSE
        /\ UNCHANGED <<smtpCode, attempts>>
  <2>1. tokenWorks \in BOOLEAN
    BY TypedIs DEF Rest
  <2>2. PICK refresh \in BOOLEAN, h \in {"healthy", "unhealthy"} :
        /\ stored \/ (refresh /\ granted < MaxGrants)
        /\ KeysExist(row)
        /\ grants' = grants \cup {g}
        /\ granted' = IF stored THEN granted ELSE granted + 1
        /\ tokenWorks' = (refresh \/ tokenWorks)
        /\ Finish(t, "callback",
                  [new EXCEPT !.health =
                      IF /\ h = "healthy"
                         /\ IF new.provider = "gmail" THEN tokenWorks' ELSE new.smtp
                      THEN "healthy" ELSE "unhealthy"])
        /\ gone' = FALSE
        /\ UNCHANGED <<smtpCode, attempts>>
    BY Zenon DEF OAuthCallback
  <2>3. tokenWorks' \in BOOLEAN
    BY <2>1, <2>2
  <2>4. \E w \in {"healthy", "unhealthy"} : Finish(t, "callback", [new EXCEPT !.health = w])
    <3> HIDE DEF new
    <3> QED
      BY <2>2
  <2> QED
    BY <2>2, <2>3, <2>4
<1>2. g \in 0..MaxGrants /\ granted' \in 0..MaxGrants /\ granted' >= granted
  BY <1>0, <1>1, SenderAssumption
<1>3. grants' \subseteq 1..granted'
  <2>1. grants \subseteq 1..granted
    BY TypedIs DEF Rest
  <2>2. CASE stored
    <3>1. g \in grants
      BY <1>1, <2>2 DEF KeysExist
    <3> QED
      BY <1>1, <2>1, <2>2, <3>1
  <2>3. CASE ~stored
    <3>1. g = granted + 1 /\ granted' = granted + 1
      BY <1>1, <2>3
    <3> QED
      BY <1>0, <1>1, <2>1, <3>1
  <2> QED
    BY <2>2, <2>3
<1>4. new \in Account
  BY <1>0, <1>2, KnownRows, ChangedRows DEF Authorized, Statuses
<1>5. PICK w \in {"healthy", "unhealthy"} : Finish(t, "callback", [new EXCEPT !.health = w])
  BY <1>1
<1>6. [new EXCEPT !.health = w] \in Account
  BY <1>4, ChangedRows
<1>7. /\ smtpCode' \in {"missing", "none", "fresh", "expired"}
      /\ attempts' \in 0..MaxAttempts
      /\ tokenWorks' \in BOOLEAN /\ gone' \in BOOLEAN
  BY <1>1, TypedIs DEF Rest
<1> QED
  <2> HIDE DEF new
  <2> QED
    BY <1>2, <1>3, <1>5, <1>6, <1>7, TypedFinish

LEMMA TypedDisconnect ==
    ASSUME Typed, NEW t \in Txns, Disconnect(t)
    PROVE  Typed'
<1> DEFINE row == job[t].view
           smtp == row.smtp /\ smtpCode' # "missing"
           oauth == IF row.oauth \in grants' THEN row.oauth ELSE 0
<1>0. row \in Account /\ row.smtp \in BOOLEAN /\ row.oauth \in 0..MaxGrants /\ 0 \in 0..MaxGrants
  BY JobsAreTyped, SenderAssumption DEF Account
<1>1. Finish(t, "disconnect", [row EXCEPT !.smtp = smtp, !.oauth = oauth])
  BY DEF Disconnect
<1>2. [row EXCEPT !.smtp = smtp, !.oauth = oauth] \in Account
  <2>1. smtp \in BOOLEAN /\ oauth \in 0..MaxGrants
    BY <1>0
  <2> HIDE DEF smtp, oauth
  <2> QED
    BY <1>0, <2>1, ChangedRows
<1>3. /\ smtpCode' \in {"missing", "none", "fresh", "expired"}
      /\ attempts' \in 0..MaxAttempts
      /\ granted' \in 0..MaxGrants /\ grants' \subseteq 1..granted'
      /\ tokenWorks' \in BOOLEAN /\ gone' \in BOOLEAN
  BY TypedIs DEF Disconnect, DropConfigs, Rest
<1> QED
  <2> HIDE DEF smtp, oauth
  <2> QED
    BY <1>1, <1>2, <1>3, TypedFinish

\* A mail of a transaction moves on; nothing else changes but, perhaps, the count of the day.
LEMMA TypedMail ==
    ASSUME Typed, NEW t \in Txns, NEW j \in Txn, job' = [job EXCEPT ![t] = j],
           \/ j.phase = "accepted"
           \/ j.phase = "read" /\ j.kind \in {"batch", "test"}
           => j.view.count < Limit,
           account' \in Account, SendsFit',
           UNCHANGED <<config, probe, gone, requests>>
    PROVE  Typed'
<1>1. job' \in [Txns -> Txn] /\ MailsFit'
  BY OneJobMoves
<1>2. Rest'
  BY TypedIs DEF Rest, config
<1> QED
  BY <1>1, <1>2, TypedIsNext

\* A transaction that is done with a mail.
MailDone(t) == \E j \in Txn : j.phase = "ready" /\ job' = [job EXCEPT ![t] = j]

LEMMA MailIsDone ==
    ASSUME Typed, NEW t \in Txns, NEW v \in Account, NEW r \in Account,
           \/ job' = [job EXCEPT ![t].phase = "ready", ![t].view = v]
           \/ job' = [job EXCEPT ![t].phase = "ready", ![t].view = v, ![t].row = r]
    PROVE  MailDone(t)
<1>1. job \in [Txns -> Txn] /\ job[t] \in Txn
  BY TypedIs
<1>2. CASE job' = [job EXCEPT ![t].phase = "ready", ![t].view = v]
  <2> DEFINE j == [job[t] EXCEPT !.phase = "ready", !.view = v]
  <2>1. j \in Txn /\ j.phase = "ready"
    BY <1>1 DEF Txn
  <2>2. job' = [job EXCEPT ![t] = j]
    BY <1>1, <1>2 DEF Txn
  <2> QED
    BY <2>1, <2>2 DEF MailDone
<1>3. CASE job' = [job EXCEPT ![t].phase = "ready", ![t].view = v, ![t].row = r]
  <2> DEFINE j == [job[t] EXCEPT !.phase = "ready", !.view = v, !.row = r]
  <2>1. j \in Txn /\ j.phase = "ready"
    BY <1>1 DEF Txn
  <2>2. job' = [job EXCEPT ![t] = j]
    BY <1>1, <1>3 DEF Txn
  <2> QED
    BY <2>1, <2>2 DEF MailDone
<1> QED
  BY <1>2, <1>3

LEMMA TypedReads ==
    ASSUME Typed, NEW t \in Txns, ReadForSend(t)
    PROVE  Typed'
<1> DEFINE row == ResetDaily(View(t))
           n == job[t].left - 1
<1>1. job \in [Txns -> Txn] /\ job[t] \in Txn /\ row \in Account /\ row.count \in Nat
  BY TypedIs, JobsAreTyped, ResetRows
<1>2. n \in 0..BatchSize
  <2>1. job[t].left \in 0..BatchSize /\ job[t].left > 0
    BY <1>1 DEF Txn, ReadForSend
  <2> QED
    BY <2>1, SenderAssumption
<1>3. account' \in Account /\ SendsFit'
      /\ UNCHANGED <<config, probe, gone, requests>>
  BY TypedIs DEF ReadForSend, Rest, SendsFit, sends
<1>4. CASE /\ row.count < Limit
           /\ job' = [job EXCEPT ![t].phase = "read", ![t].left = n, ![t].view = row]
  <2> DEFINE j == [job[t] EXCEPT !.phase = "read", !.left = n, !.view = row]
  <2> HIDE DEF row, n
  <2>1. j \in Txn
    BY <1>1, <1>2 DEF Txn
  <2>2. job' = [job EXCEPT ![t] = j]
    BY <1>1, <1>4 DEF Txn
  <2>3. j.view = row
    BY <1>1 DEF Txn
  <2> HIDE DEF j
  <2> QED
    BY <1>3, <1>4, <2>1, <2>2, <2>3, TypedMail
<1>5. CASE job' = [job EXCEPT ![t].left = n]
  <2> DEFINE j == [job[t] EXCEPT !.left = n]
  <2> HIDE DEF n
  <2>1. j \in Txn
    BY <1>1, <1>2 DEF Txn
  <2>2. job' = [job EXCEPT ![t] = j]
    BY <1>1, <1>5 DEF Txn
  <2>3. j.phase = "ready"
    BY <1>1 DEF Txn, ReadForSend
  <2> HIDE DEF j
  <2> QED
    BY <1>3, <2>1, <2>2, <2>3, TypedMail
<1>6. \/ /\ CanSend(row)
         /\ job' = [job EXCEPT ![t].phase = "read", ![t].left = n, ![t].view = row]
      \/ job' = [job EXCEPT ![t].left = n]
  <2>1. \/ /\ CanSend(row)
           /\ job' = [job EXCEPT ![t].phase = "read", ![t].left = @ - 1, ![t].view = row]
        \/ job' = [job EXCEPT ![t].left = @ - 1]
    BY DEF ReadForSend
  <2>2. [job EXCEPT ![t].left = @ - 1] = [job EXCEPT ![t].left = n]
    BY <1>1 DEF Txn
  <2>3. [job EXCEPT ![t].phase = "read", ![t].left = @ - 1, ![t].view = row]
        = [job EXCEPT ![t].phase = "read", ![t].left = n, ![t].view = row]
    BY <1>1 DEF Txn
  <2> QED
    BY <2>1, <2>2, <2>3
<1>7. CanSend(row) => row.count < Limit
  BY DEF CanSend
<1> QED
  BY <1>4, <1>5, <1>6, <1>7

LEMMA TypedSends ==
    ASSUME Typed, NEW t \in Txns,
           \/ CallAccepted(t) \/ CallFailed(t) \/ CallLost(t) \/ CallUnauthorized(t)
           \/ RecordSent(t)
    PROVE  Typed'
<1>1. /\ job \in [Txns -> Txn] /\ job[t] \in Txn
      /\ job[t].view \in Account /\ job[t].row \in Account
      /\ account \in Account /\ SendsFit
  BY TypedIs, JobsAreTyped DEF Rest
<1>2. CASE CallAccepted(t)
  <2>1. job' = [job EXCEPT ![t] = [job[t] EXCEPT !.phase = "accepted"]]
    BY <1>1, <1>2 DEF CallAccepted, Txn
  <2>2. [job[t] EXCEPT !.phase = "accepted"] \in Txn
    BY <1>1 DEF Txn
  <2>3. [job[t] EXCEPT !.phase = "accepted"].view = job[t].view
    BY <1>1 DEF Txn
  <2>4. job[t].view.count < Limit
    BY <1>2 DEF CallAccepted, Sending, Typed, MailsFit
  <2>5. SendsFit'
    BY <1>1, <1>2, SenderAssumption DEF CallAccepted, Least, SendsFit
  <2>6. account' \in Account /\ UNCHANGED <<config, probe, gone, requests>>
    BY <1>1, <1>2 DEF CallAccepted
  <2> QED
    BY <2>1, <2>2, <2>3, <2>4, <2>5, <2>6, TypedMail
<1>3. ASSUME MailDone(t), account' \in Account, SendsFit',
             UNCHANGED <<config, probe, gone, requests>>
      PROVE  Typed'
  <2>1. PICK j \in Txn : j.phase = "ready" /\ job' = [job EXCEPT ![t] = j]
    BY <1>3 DEF MailDone
  <2> QED
    BY <1>1, <1>3, <2>1, TypedMail
<1>4. Absent \in Account
  BY KnownRows
<1>5. CASE CallFailed(t)
  <2>1. MailDone(t)
    BY <1>4, <1>5, MailIsDone DEF CallFailed
  <2> QED
    BY <1>1, <1>3, <1>5, <2>1 DEF CallFailed, sends, SendsFit
<1>8. CASE CallLost(t)
  <2>1. MailDone(t)
    BY <1>4, <1>8, MailIsDone DEF CallLost
  <2>2. SendsFit'
    BY <1>1, <1>8, SenderAssumption DEF CallLost, SendsFit
  <2> QED
    BY <1>1, <1>3, <1>8, <2>1, <2>2 DEF CallLost
<1>6. CASE CallUnauthorized(t)
  <2> DEFINE r == [job[t].view EXCEPT !.status = "reconnect_required"]
  <2>1. r \in Account
    BY <1>1, ChangedRows DEF Statuses
  <2>2. job' = [job EXCEPT ![t].phase = "ready", ![t].view = Absent, ![t].row = r]
    BY <1>6 DEF CallUnauthorized
  <2>3. MailDone(t)
    <3> HIDE DEF r
    <3> QED
      BY <1>4, <2>1, <2>2, MailIsDone
  <2> QED
    BY <1>1, <1>3, <1>6, <2>3 DEF CallUnauthorized, sends, SendsFit
<1>7. CASE RecordSent(t)
  <2> DEFINE n == job[t].view.count + 1
             r == [job[t].view EXCEPT !.count = n, !.today = TRUE]
  <2>1. n \in 0..Limit
    <3>1. job[t].view.count < Limit
      BY <1>7 DEF RecordSent, Typed, MailsFit
    <3>2. job[t].view.count \in 0..Limit
      BY <1>1 DEF Account
    <3> QED
      BY <3>1, <3>2, SenderAssumption
  <2>2. r \in Account
    <3> HIDE DEF n
    <3> QED
      BY <1>1, <2>1, ChangedRows
  <2>3. job' = [job EXCEPT ![t].phase = "ready", ![t].view = Absent, ![t].row = r]
    <3>1. [job[t].view EXCEPT !.count = @ + 1, !.today = TRUE] = r
      BY <1>1 DEF Account
    <3> QED
      BY <1>7, <3>1 DEF RecordSent
  <2>4. MailDone(t)
    <3> HIDE DEF r
    <3> QED
      BY <1>4, <2>2, <2>3, MailIsDone
  <2> QED
    BY <1>1, <1>3, <1>7, <2>4 DEF RecordSent, sends, SendsFit
<1> QED
  BY <1>2, <1>5, <1>6, <1>7, <1>8

LEMMA TypedEnds ==
    ASSUME Typed, NEW t \in Txns, CommitSends(t) \/ Rollback(t)
    PROVE  Typed'
<1>1. NoJob \in Txn /\ NoJob.phase = "idle"
  BY KnownRows DEF NoJob
<1>2. View(t) \in Account /\ account \in Account /\ SendsFit
  BY JobsAreTyped, TypedIs DEF Rest
<1>3. /\ job' = [job EXCEPT ![t] = NoJob]
      /\ account' \in Account /\ SendsFit'
      /\ UNCHANGED <<config, probe, gone, requests>>
  BY <1>2, SenderAssumption DEF CommitSends, Rollback, Race, sends, SendsFit
<1> QED
  BY <1>1, <1>3, TypedMail

\* The loops and the user's request for another code leave the transactions alone.
LEMMA TypedLoops ==
    ASSUME Typed,
           \/ ResendVerification \/ TestHealth \/ WriteHealth \/ FindStale \/ MarkStale
           \/ ExpireVerification \/ CodeExpires \/ RevokeToken
    PROVE  Typed'
<1>1. /\ account \in Account /\ job \in [Txns -> Txn] /\ Rest /\ MailsFit
  BY TypedIs
<1>2. UNCHANGED job
  BY DEF ResendVerification, TestHealth, WriteHealth, FindStale, MarkStale,
         ExpireVerification, CodeExpires, RevokeToken
<1>3. account' \in Account
  <2>1. CASE WriteHealth
    <3>1. probe.health \in {"unknown", "healthy", "unhealthy"}
      BY <1>1, <2>1 DEF WriteHealth, Rest
    <3> QED
      BY <1>1, <2>1, <3>1, ChangedRows DEF WriteHealth
  <2>2. CASE MarkStale
    BY <1>1, <2>2, ChangedRows DEF MarkStale, Statuses
  <2>3. CASE ExpireVerification
    BY <1>1, <2>3, ChangedRows DEF ExpireVerification, Statuses
  <2>4. CASE UNCHANGED account
    BY <1>1, <2>4
  <2> QED
    BY <2>1, <2>2, <2>3, <2>4 DEF ResendVerification, TestHealth, FindStale, CodeExpires,
                                  RevokeToken
<1>4. attempts' \in 0..MaxAttempts
  BY <1>1, SenderAssumption DEF Rest, ResendVerification, TestHealth, WriteHealth, FindStale,
      MarkStale, ExpireVerification, CodeExpires, RevokeToken, config
<1>5. probe' \in [health : {"none", "healthy", "unhealthy"}, stale : BOOLEAN]
  BY <1>1 DEF Rest, ResendVerification, TestHealth, WriteHealth, FindStale, MarkStale,
      ExpireVerification, CodeExpires, RevokeToken, config, Health
<1>6. Rest'
  <2>1. /\ smtpCode' \in {"missing", "none", "fresh", "expired"}
        /\ granted' = granted /\ grants' = grants /\ tokenWorks' \in BOOLEAN /\ gone' = gone
        /\ sends' = sends /\ requests' = requests
    BY <1>1 DEF Rest, ResendVerification, TestHealth, WriteHealth, FindStale, MarkStale,
        ExpireVerification, CodeExpires, RevokeToken, config
  <2> QED
    BY <1>1, <1>4, <1>5, <2>1 DEF Rest, sends, SendsFit
<1> QED
  BY <1>1, <1>2, <1>3, <1>6, TypedIsNext DEF MailsFit

LEMMA TypedNewDay == Typed /\ NewDay => Typed'
<1> SUFFICES ASSUME Typed, NewDay PROVE Typed'
  OBVIOUS
<1>1. /\ account \in Account /\ job \in [Txns -> Txn] /\ Rest /\ MailsFit
  BY TypedIs
<1>2. account' \in Account
  BY <1>1, ChangedRows DEF NewDay
<1> DEFINE next(u) == [job[u] EXCEPT !.view.today = FALSE, !.row.today = FALSE]
<1>3. ASSUME NEW u \in Txns
      PROVE  /\ next(u) \in Txn /\ next(u).kind = job[u].kind /\ next(u).phase = job[u].phase
             /\ next(u).view.count = job[u].view.count
  <2> DEFINE v == [job[u].view EXCEPT !.today = FALSE]
             r == [job[u].row EXCEPT !.today = FALSE]
  <2>1. job[u] \in Txn /\ job[u].view \in Account /\ job[u].row \in Account
    BY JobsAreTyped
  <2>2. v \in Account /\ r \in Account
    BY <2>1, ChangedRows
  <2>3. v.count = job[u].view.count
    BY <2>1 DEF Account
  <2>4. next(u) = [job[u] EXCEPT !.view = v, !.row = r]
    BY <2>1 DEF Txn
  <2> HIDE DEF v, r, next
  <2> QED
    BY <2>1, <2>2, <2>3, <2>4 DEF Txn
<1>4. job' = [u \in Txns |-> next(u)]
  BY DEF NewDay
<1>5. job' \in [Txns -> Txn] /\ \A u \in Txns : job'[u] = next(u)
  <2> HIDE DEF next
  <2> QED
    BY <1>3, <1>4
<1>6. MailsFit'
  <2> HIDE DEF next
  <2> QED
    BY <1>1, <1>3, <1>5 DEF MailsFit
<1>7. 0 \in 0..MaxSent /\ 0 \in 0..MaxUnheard
  BY SenderAssumption
<1>8. Rest'
  BY <1>1, <1>7 DEF NewDay, Rest, SendsFit, config
<1> QED
  BY <1>2, <1>5, <1>6, <1>8, TypedIsNext

LEMMA TypedSteps == Typed /\ [SenderNext]_senderVars => Typed'
<1> SUFFICES ASSUME Typed, [SenderNext]_senderVars PROVE Typed'
  OBVIOUS
<1>1. CASE \E t \in Txns : Loads(t)
  BY <1>1, TypedLoads
<1>2. CASE \E t \in Txns : BeginBatch(t)
  BY <1>2, TypedBatch
<1>3. CASE \E t \in Txns : Steps(t)
  BY <1>3, TypedConnecting, TypedCallback, TypedDisconnect, TypedReads, TypedSends,
     TypedEnds DEF Steps
<1>4. CASE \/ ResendVerification \/ TestHealth \/ WriteHealth \/ FindStale \/ MarkStale
           \/ ExpireVerification \/ CodeExpires \/ RevokeToken
  BY <1>4, TypedLoops
<1>5. CASE NewDay
  BY <1>5, TypedNewDay
<1>6. CASE UNCHANGED senderVars
  BY <1>6 DEF senderVars, Typed, SenderTypeOK, MailsFit
<1> QED
  BY <1>1, <1>2, <1>3, <1>4, <1>5, <1>6 DEF SenderNext

\* The columns, the configurations and the mails in flight keep their types, and the count of
\* a day never passes the account's limit, although several transactions write whole rows
\* they read without a lock (EmailAccountEntity, record_sent).
THEOREM RowsStayInRange == SenderSpec => []SenderTypeOK
<1>1. Typed => SenderTypeOK
  BY DEF Typed
<1> QED
  BY <1>1, TypedStarts, TypedSteps, PTL DEF SenderSpec

-----------------------------------------------------------------------------
(* A disconnect lasts *)

\* A live address has a configuration; one that waits for its code has the SMTP one, and
\* while that exists every row in memory that was read since refers to it.
RowOk(x) ==
    /\ x.live => x.smtp \/ x.oauth # 0
    /\ x.live /\ x.status = "pending_verification" => x.smtp
    /\ smtpCode # "missing" /\ x.status # "absent" => x.smtp
    /\ x.status = "absent" => ~x.live

Mailing(j) ==
    \/ j.phase = "accepted"
    \/ j.kind \in {"batch", "test"} /\ j.phase = "read"

\* Only mails write rows before they commit, under the row lock and with their keys checked.
JobOk(j) ==
    /\ RowOk(j.view) /\ RowOk(j.row)
    /\ j.row # Absent => /\ j.kind \in {"batch", "test"}
                         /\ KeysExist(j.row)
                         /\ j.row.status # "absent" /\ account.status # "absent"
    /\ j.kind \in {"save", "disconnect", "verify", "connect"} => j.view.status # "absent"
    /\ Mailing(j) => j.view.status # "absent" /\ j.kind \in {"batch", "test"}
    /\ j.phase = "ready" => j.kind \in {"batch", "test"}
    /\ j.kind = "verify" => j.view.smtp
    /\ j.kind = "connect" => j.view.smtp /\ j.view.oauth = 0
    /\ j.kind = "disconnect" => ~j.view.live
    /\ account.status = "absent" => j.view.status = "absent" \/ j.kind = "connect"

AccountOk ==
    /\ KeysExist(account) /\ RowOk(account)
    /\ account.status = "absent" => smtpCode = "missing" /\ ~probe.stale
    /\ gone => smtpCode = "missing" /\ account.status # "absent"

ConfigInv == AccountOk /\ \A t \in Txns : JobOk(job[t])

LEMMA NoJobIsOk == JobOk(NoJob)
BY DEF JobOk, NoJob, RowOk, Absent, Mailing

LEMMA ConfigStarts == SenderInit => ConfigInv
<1> SUFFICES ASSUME SenderInit PROVE ConfigInv
  OBVIOUS
<1>1. \A t \in Txns : JobOk(job[t])
  BY NoJobIsOk DEF SenderInit
<1>2. ~probe.stale /\ ~gone
  BY DEF SenderInit, NoProbe
<1>3. CASE account = Absent /\ smtpCode = "missing"
  BY <1>1, <1>2, <1>3 DEF ConfigInv, AccountOk, KeysExist, RowOk, Absent
<1>4. CASE account = NewSmtp /\ smtpCode = "fresh"
  <2>1. /\ account.status = "pending_verification" /\ account.live = TRUE
        /\ account.smtp = TRUE /\ account.oauth = 0
    BY <1>4 DEF NewSmtp, Absent
  <2> QED
    BY <1>1, <1>2, <1>4, <2>1 DEF ConfigInv, AccountOk, KeysExist, RowOk
<1>5. CASE account = [NewGmail(1) EXCEPT !.health = "healthy"] /\ smtpCode = "missing" /\ grants = {1}
  <2>1. /\ account.status = "active" /\ account.live = TRUE
        /\ account.smtp = FALSE /\ account.oauth = 1
    BY <1>5 DEF NewGmail, Absent
  <2> QED
    BY <1>1, <1>2, <1>5, <2>1 DEF ConfigInv, AccountOk, KeysExist, RowOk
<1> QED
  BY <1>3, <1>4, <1>5 DEF SenderInit

\* A transaction moves on without touching the row or the configurations.
LEMMA ConfigMoves ==
    ASSUME Typed, ConfigInv, NEW t \in Txns, NEW j \in Txn, JobOk(j),
           job' = [job EXCEPT ![t] = j],
           UNCHANGED <<account, config, probe, gone>>
    PROVE  ConfigInv'
<1>1. job \in [Txns -> Txn]
  BY TypedIs
<1>2. \A u \in Txns : JobOk(job'[u])
  BY <1>1 DEF ConfigInv
<1>3. UNCHANGED <<account, smtpCode, grants, probe, gone>>
  BY DEF config
<1>4. \A u \in Txns : JobOk(job[u])'
  BY <1>2, <1>3 DEF JobOk, RowOk, KeysExist
<1>5. AccountOk'
  BY <1>3 DEF ConfigInv, AccountOk, RowOk, KeysExist
<1> QED
  BY <1>4, <1>5 DEF ConfigInv

\* A request that writes a row whose configurations exist and that ends.
LEMMA ConfigFinish ==
    ASSUME Typed, ConfigInv, NEW t \in Txns, NEW k \in Kinds \ {"batch", "test"},
           NEW row \in Account, Finish(t, k, row),
           row.status # "absent", KeysExist(row)', RowOk(row)',
           gone' => smtpCode' = "missing",
           smtpCode' # "missing" => smtpCode # "missing" \/ account.status = "absent"
    PROVE  ConfigInv'
<1>1. job \in [Txns -> Txn]
  BY TypedIs
<1>2. \A u \in Txns : job[u].row = Absent
  <2>1. \A u \in Txns \ {t} : job[u].row = Absent
    BY DEF Finish, MayWrite, Wrote
  <2>2. job[t].row = Absent
    BY DEF Finish, ConfigInv, JobOk
  <2> QED
    BY <2>1, <2>2
<1>3. /\ account' = row /\ job' = [job EXCEPT ![t] = NoJob] /\ UNCHANGED probe
  BY DEF Finish
<1>4. \A u \in Txns : job'[u] = IF u = t THEN NoJob ELSE job[u]
  BY <1>1, <1>3
<1>5. AccountOk'
  BY <1>3 DEF AccountOk
<1>6. JobOk(NoJob)'
  BY DEF JobOk, NoJob, RowOk, Absent, Mailing
<1>7. ASSUME NEW u \in Txns PROVE JobOk(job[u])'
  <2>1. CASE u = t
    BY <1>4, <1>6, <2>1 DEF JobOk, RowOk, KeysExist
  <2>2. CASE u # t
    <3>1. job'[u] = job[u] /\ job[u].row = Absent
      BY <1>2, <1>4, <2>2
    <3>2. JobOk(job[u])
      BY DEF ConfigInv
    <3>3. RowOk(job[u].view)'
      BY <3>1, <3>2 DEF JobOk, RowOk
    <3>4. RowOk(job[u].row)'
      BY <3>1 DEF RowOk, Absent
    <3> QED
      BY <1>3, <3>1, <3>2, <3>3, <3>4 DEF JobOk, Mailing
  <2> QED
    BY <2>1, <2>2
<1> QED
  BY <1>5, <1>7 DEF ConfigInv

\* The row changes in columns that do not matter here, or is given up.
LEMMA ConfigRow ==
    ASSUME Typed, ConfigInv, UNCHANGED <<job, config, gone>>,
           account'.smtp = account.smtp, account'.oauth = account.oauth,
           account'.live => account.live,
           \/ account'.status = account.status
           \/ /\ account.status # "absent"
              /\ account'.status \in {"reconnect_required", "disconnected"},
           probe'.stale => probe.stale \/ account.status # "absent"
    PROVE  ConfigInv'
<1>1. UNCHANGED <<job, smtpCode, grants, gone>>
  BY DEF config
<1>2. AccountOk'
  <2>1. AccountOk
    BY DEF ConfigInv
  <2>2. KeysExist(account)'
    BY <1>1, <2>1 DEF AccountOk, KeysExist
  <2>3. RowOk(account)'
    BY <1>1, <2>1 DEF AccountOk, RowOk
  <2>4. account'.status = "absent" => smtpCode' = "missing" /\ ~probe'.stale
    BY <1>1, <2>1 DEF AccountOk
  <2>5. gone' => smtpCode' = "missing" /\ account'.status # "absent"
    BY <1>1, <2>1 DEF AccountOk
  <2> QED
    BY <2>2, <2>3, <2>4, <2>5 DEF AccountOk
<1>3. ASSUME NEW u \in Txns PROVE JobOk(job[u])'
  <2>1. JobOk(job[u])
    BY DEF ConfigInv
  <2> QED
    BY <1>1, <2>1 DEF JobOk, RowOk, KeysExist
<1> QED
  BY <1>2, <1>3 DEF ConfigInv

LEMMA ConfigRequest ==
    ASSUME Typed, ConfigInv, NEW t \in Txns, NEW k \in Kinds \ {"batch", "test"},
           NEW row \in Account, Request(t, k, row),
           JobOk([kind |-> k, phase |-> "read", view |-> row, row |-> Absent, left |-> 0])
    PROVE  ConfigInv'
<1> DEFINE j == [kind |-> k, phase |-> "read", view |-> row, row |-> Absent, left |-> 0]
<1>1. j \in Txn
  <2>1. 0 \in 0..BatchSize
    BY SenderAssumption
  <2> QED
    BY <2>1, KnownRows DEF Txn
<1>2. job' = [job EXCEPT ![t] = j] /\ UNCHANGED <<account, config, probe, gone>>
  BY DEF Request, Start
<1>3. JobOk(j)
  OBVIOUS
<1> HIDE DEF j
<1> QED
  BY <1>1, <1>2, <1>3, ConfigMoves

\* A job that starts with a row in which nothing is written.
LEMMA StartIsOk ==
    ASSUME NEW k, NEW phase \in {"ready", "read"}, NEW row, NEW n, RowOk(row),
           phase = "read" <=> k \notin {"batch", "test"},
           k \in {"save", "disconnect", "verify", "connect"} => row.status # "absent",
           k = "verify" => row.smtp,
           k = "connect" => row.smtp /\ row.oauth = 0,
           k = "disconnect" => ~row.live,
           account.status = "absent" => row.status = "absent" \/ k = "connect"
    PROVE  JobOk([kind |-> k, phase |-> phase, view |-> row, row |-> Absent, left |-> n])
<1>1. RowOk(Absent)
  BY DEF RowOk, Absent
<1> QED
  BY <1>1 DEF JobOk, Mailing

LEMMA ConfigLoads ==
    ASSUME Typed, ConfigInv, NEW t \in Txns, Loads(t) \/ BeginBatch(t)
    PROVE  ConfigInv'
<1>0. /\ account \in Account /\ KeysExist(account) /\ RowOk(account)
      /\ account.status = "absent" => ~account.live
  BY TypedIs DEF ConfigInv, AccountOk, RowOk
<1>1. CASE LoadConnect(t)
  <2>1. /\ NewSmtp.smtp = TRUE /\ NewSmtp.oauth = 0 /\ NewSmtp.live = TRUE
        /\ NewSmtp.status = "pending_verification"
    BY DEF NewSmtp, Absent
  <2>2. RowOk(NewSmtp)
    BY <2>1 DEF RowOk
  <2>3. JobOk([kind |-> "connect", phase |-> "read", view |-> NewSmtp, row |-> Absent, left |-> 0])
    BY <2>1, <2>2, StartIsOk
  <2> QED
    BY <1>1, <2>3, KnownRows, ConfigRequest DEF LoadConnect, Kinds
<1>2. CASE LoadVerify(t)
  <2> DEFINE row == [account EXCEPT !.status = "active"]
  <2>0. row \in Account
    BY <1>0, ChangedRows DEF Statuses
  <2>1. /\ row.status = "active" /\ row.smtp = account.smtp
        /\ row.oauth = account.oauth /\ row.live = account.live
    BY <1>0 DEF Account
  <2>2. account.smtp /\ account.status # "absent"
    BY <1>0, <1>2 DEF LoadVerify, RowOk
  <2>3. RowOk(row)
    BY <1>0, <2>1, <2>2 DEF RowOk
  <2>4. Request(t, "verify", row)
    BY <1>2 DEF LoadVerify
  <2> HIDE DEF row
  <2>5. JobOk([kind |-> "verify", phase |-> "read", view |-> row, row |-> Absent, left |-> 0])
    BY <2>1, <2>2, <2>3, StartIsOk
  <2> QED
    BY <2>0, <2>4, <2>5, ConfigRequest DEF Kinds
<1>3. CASE LoadCallback(t)
  <2>1. JobOk([kind |-> "callback", phase |-> "read", view |-> account, row |-> Absent, left |-> 0])
    BY <1>0, StartIsOk
  <2> QED
    BY <1>0, <1>3, <2>1, ConfigRequest DEF LoadCallback, Kinds
<1>4. CASE LoadEdit(t)
  <2>1. JobOk([kind |-> "save", phase |-> "read", view |-> account, row |-> Absent, left |-> 0])
    BY <1>0, <1>4, StartIsOk DEF LoadEdit
  <2> QED
    BY <1>0, <1>4, <2>1, ConfigRequest DEF LoadEdit, Kinds
<1>5. CASE LoadCheck(t)
  <2>1. PICK h \in {"healthy", "unhealthy"} :
            Request(t, "save", [account EXCEPT !.health = Health(account, h)])
    BY <1>5 DEF LoadCheck
  <2> DEFINE row == [account EXCEPT !.health = Health(account, h)]
  <2>2. Health(account, h) \in {"unknown", "healthy", "unhealthy"}
    BY DEF Health
  <2>3. row \in Account
    BY <1>0, <2>2, ChangedRows
  <2>4. /\ row.status = account.status /\ row.smtp = account.smtp
        /\ row.oauth = account.oauth /\ row.live = account.live
    BY <1>0 DEF Account
  <2>5. Request(t, "save", row)
    BY <2>1
  <2> HIDE DEF row
  <2>6. RowOk(row)
    BY <1>0, <2>4 DEF RowOk
  <2>7. JobOk([kind |-> "save", phase |-> "read", view |-> row, row |-> Absent, left |-> 0])
    BY <1>0, <1>5, <2>4, <2>6, StartIsOk DEF LoadCheck
  <2> QED
    BY <2>3, <2>5, <2>7, ConfigRequest DEF Kinds
<1>6. CASE LoadDisconnect(t)
  <2> DEFINE row == [account EXCEPT !.status = "disconnected", !.live = FALSE]
  <2>0. row \in Account
    BY <1>0, ChangedRows DEF Statuses
  <2>1. /\ row.status = "disconnected" /\ row.smtp = account.smtp
        /\ row.oauth = account.oauth /\ row.live = FALSE
    BY <1>0 DEF Account
  <2>2. account.status # "absent"
    BY <1>0, <1>6 DEF LoadDisconnect
  <2>3. RowOk(row)
    BY <1>0, <2>1, <2>2 DEF RowOk
  <2>4. Request(t, "disconnect", row)
    BY <1>6 DEF LoadDisconnect
  <2> HIDE DEF row
  <2>5. JobOk([kind |-> "disconnect", phase |-> "read", view |-> row, row |-> Absent, left |-> 0])
    BY <2>1, <2>2, <2>3, StartIsOk
  <2> QED
    BY <2>0, <2>4, <2>5, ConfigRequest DEF Kinds
<1>7. CASE BeginTest(t) \/ BeginBatch(t)
  <2>1. PICK k \in {"batch", "test"}, n \in 0..BatchSize : Start(t, k, "ready", Absent, n)
    <3>1. CASE BeginTest(t)
      <4>1. 1 \in 0..BatchSize
        BY SenderAssumption
      <4> QED
        BY <3>1, <4>1 DEF BeginTest
    <3>2. CASE BeginBatch(t)
      <4>1. account.count \in 0..Limit
        BY TypedIs DEF Account
      <4>2. BatchLimit(Remaining) \in 0..BatchSize
        BY <3>2, <4>1, SenderAssumption DEF BeginBatch, Remaining, BatchLimit, Least
      <4> QED
        BY <3>2, <4>2 DEF BeginBatch
    <3> QED
      BY <1>7, <3>1, <3>2
  <2> DEFINE j == [kind |-> k, phase |-> "ready", view |-> Absent, row |-> Absent, left |-> n]
  <2>2. j \in Txn
    BY KnownRows DEF Txn, Kinds
  <2>3. RowOk(Absent) /\ Absent.status = "absent"
    BY DEF RowOk, Absent
  <2>4. JobOk(j)
    BY <2>3, StartIsOk
  <2>5. job' = [job EXCEPT ![t] = j]
    BY <2>1 DEF Start
  <2>6. UNCHANGED <<account, config, probe, gone>>
    BY <1>7 DEF BeginTest, BeginBatch
  <2> HIDE DEF j
  <2> QED
    BY <2>2, <2>4, <2>5, <2>6, ConfigMoves
<1> QED
  BY <1>1, <1>2, <1>3, <1>4, <1>5, <1>6, <1>7 DEF Loads

LEMMA ConfigConnecting ==
    ASSUME Typed, ConfigInv, NEW t \in Txns, ConnectSmtp(t) \/ VerifySmtp(t) \/ SaveRow(t)
    PROVE  ConfigInv'
<1> DEFINE row == job[t].view
<1>0. row \in Account /\ RowOk(row) /\ JobOk(job[t]) /\ AccountOk
  BY JobsAreTyped DEF ConfigInv, JobOk
<1>1. CASE ConnectSmtp(t)
  <2>1. Finish(t, "connect", row) /\ job[t].kind = "connect"
    BY <1>1 DEF ConnectSmtp, Finish
  <2>2. row.smtp /\ row.oauth = 0 /\ row.status # "absent"
    BY <1>0, <2>1 DEF JobOk
  <2>3. smtpCode' = "fresh" /\ account.status = "absent" /\ gone' = gone
    BY <1>1 DEF ConnectSmtp
  <2>5. ~gone'
    BY <1>0, <2>3 DEF AccountOk
  <2> QED
    BY <1>0, <2>1, <2>2, <2>3, <2>5, ConfigFinish DEF Kinds, KeysExist, RowOk
<1>2. CASE VerifySmtp(t)
  <2>1. Finish(t, "verify", row) /\ job[t].kind = "verify"
    BY <1>2 DEF VerifySmtp, Finish
  <2>2. row.smtp /\ row.status # "absent"
    BY <1>0, <2>1 DEF JobOk
  <2>3. smtpCode # "missing" /\ smtpCode' = "none" /\ UNCHANGED <<grants, gone>>
    BY <1>2, <2>2 DEF VerifySmtp, KeysExist
  <2>4. ~gone'
    BY <1>0, <2>3 DEF AccountOk
  <2>5. KeysExist(row)
    BY <1>2 DEF VerifySmtp
  <2> QED
    BY <1>0, <2>1, <2>2, <2>3, <2>4, <2>5, ConfigFinish DEF Kinds, KeysExist, RowOk
<1>3. CASE SaveRow(t)
  <2>1. Finish(t, "save", row) /\ job[t].kind = "save" /\ KeysExist(row)
    BY <1>3 DEF SaveRow, Finish
  <2>2. row.status # "absent"
    BY <1>0, <2>1 DEF JobOk
  <2>3. UNCHANGED <<smtpCode, grants, gone>>
    BY <1>3 DEF SaveRow, config
  <2>4. gone' => smtpCode' = "missing"
    BY <1>0, <2>3 DEF AccountOk
  <2> QED
    BY <1>0, <2>1, <2>2, <2>3, <2>4, ConfigFinish DEF Kinds, KeysExist, RowOk
<1> QED
  BY <1>1, <1>2, <1>3

LEMMA ConfigDisconnect ==
    ASSUME Typed, ConfigInv, NEW t \in Txns, Disconnect(t)
    PROVE  ConfigInv'
<1> DEFINE old == job[t].view
           smtp == old.smtp /\ smtpCode' # "missing"
           oauth == IF old.oauth \in grants' THEN old.oauth ELSE 0
           row == [old EXCEPT !.smtp = smtp, !.oauth = oauth]
<1>0. /\ old \in Account /\ RowOk(old) /\ JobOk(job[t]) /\ AccountOk
      /\ job[t].kind = "disconnect"
  BY JobsAreTyped DEF ConfigInv, JobOk, Disconnect, Finish
<1>1. Finish(t, "disconnect", row)
  BY DEF Disconnect
<1>2. old.status # "absent" /\ ~old.live
  BY <1>0 DEF JobOk
<1>3. smtp \in BOOLEAN /\ oauth \in 0..MaxGrants /\ (oauth # 0 => oauth \in grants')
  <2>1. old.smtp \in BOOLEAN /\ old.oauth \in 0..MaxGrants /\ 0 \in 0..MaxGrants
    BY <1>0, SenderAssumption DEF Account
  <2> QED
    BY <2>1
<1>4. smtpCode' = "missing" /\ gone' = TRUE
  <2>1. smtpCode # "missing" => old.smtp
    BY <1>0, <1>2 DEF RowOk
  <2> QED
    BY <2>1 DEF Disconnect, DropConfigs
<1>5. ~smtp
  BY <1>4
<1>6. row \in Account
  <2> HIDE DEF smtp, oauth
  <2> QED
    BY <1>0, <1>3, ChangedRows
<1>7. row.status = old.status /\ row.live = old.live /\ row.smtp = smtp /\ row.oauth = oauth
  <2> HIDE DEF smtp, oauth
  <2> QED
    BY <1>0 DEF Account
<1> HIDE DEF row, smtp, oauth
<1>8. ~row.smtp /\ (row.oauth # 0 => row.oauth \in grants')
  BY <1>3, <1>5, <1>7
<1>9. ~row.live /\ row.status # "absent"
  BY <1>2, <1>7
<1> QED
  BY <1>1, <1>4, <1>6, <1>8, <1>9, ConfigFinish DEF Kinds, KeysExist, RowOk

LEMMA ConfigCallback ==
    ASSUME Typed, ConfigInv, NEW t \in Txns, OAuthCallback(t)
    PROVE  ConfigInv'
<1> DEFINE row == job[t].view
           g == IF row.oauth # 0 THEN row.oauth ELSE granted + 1
<1>0. /\ row \in Account /\ RowOk(row) /\ AccountOk
      /\ row.oauth \in 0..MaxGrants /\ granted \in 0..MaxGrants
  BY JobsAreTyped, TypedIs DEF ConfigInv, JobOk, Account, Rest
<1>1. PICK w \in {"healthy", "unhealthy"} :
        Finish(t, "callback", [Authorized(row, g) EXCEPT !.health = w])
  BY Zenon DEF OAuthCallback
<1>2. /\ row.status = "absent" => account.status = "absent"
      /\ row.oauth # 0 \/ granted < MaxGrants
      /\ KeysExist(row)
      /\ grants' = grants \cup {g}
      /\ gone' = FALSE
      /\ UNCHANGED smtpCode
  BY DEF OAuthCallback
<1>3. g # 0 /\ g \in 0..MaxGrants
  BY <1>0, <1>2, SenderAssumption
<1> DEFINE new == Authorized(row, g)
           last == [new EXCEPT !.health = w]
<1>4. new \in Account
  BY <1>0, <1>3, KnownRows, ChangedRows DEF Authorized, Statuses
<1>5. last \in Account
  <2> HIDE DEF new
  <2> QED
    BY <1>4, ChangedRows
<1>6. /\ new.status = "active" /\ new.live = TRUE /\ new.oauth = g
      /\ new.smtp = IF row.status = "absent" THEN FALSE ELSE row.smtp
  <2> HIDE DEF g
  <2>1. CASE row.status = "absent"
    BY <2>1 DEF Authorized, NewGmail, Absent
  <2>2. CASE row.status # "absent"
    BY <1>0, <2>2 DEF Authorized, Account
  <2> QED
    BY <2>1, <2>2
<1>7. /\ last.status = "active" /\ last.live = TRUE /\ last.oauth = g
      /\ last.smtp = IF row.status = "absent" THEN FALSE ELSE row.smtp
  <2> HIDE DEF new
  <2> QED
    BY <1>4, <1>6 DEF Account
<1>8. Finish(t, "callback", last)
  BY <1>1
<1> HIDE DEF last, new, g
<1>9. last.smtp => smtpCode' # "missing"
  BY <1>2, <1>7 DEF KeysExist
<1>10. last.oauth # 0 /\ last.oauth \in grants'
  BY <1>2, <1>3, <1>7
<1>11. smtpCode' # "missing" => last.smtp
  BY <1>0, <1>2, <1>7 DEF RowOk, AccountOk
<1> QED
  BY <1>2, <1>5, <1>7, <1>8, <1>9, <1>10, <1>11, ConfigFinish DEF Kinds, KeysExist, RowOk

LEMMA ConfigMails ==
    ASSUME Typed, ConfigInv, NEW t \in Txns,
           ReadForSend(t) \/ CallAccepted(t) \/ CallFailed(t) \/ CallLost(t) \/ Rollback(t)
    PROVE  ConfigInv'
<1>0. /\ job \in [Txns -> Txn] /\ job[t] \in Txn /\ JobOk(job[t])
  BY TypedIs DEF ConfigInv
<1>1. UNCHANGED <<account, config, probe, gone>>
  BY DEF ReadForSend, CallAccepted, CallFailed, CallLost, Rollback
<1>2. \A u \in Txns : job'[u] \in Txn
  <2>1. Typed'
    BY TypedReads, TypedSends, TypedEnds
  <2> QED
    BY <2>1, TypedIsNext
<1>3. job' = [job EXCEPT ![t] = job'[t]]
  BY <1>0 DEF ReadForSend, CallAccepted, CallFailed, CallLost, Rollback
<1>4. RowOk(Absent)
  BY DEF RowOk, Absent
<1>5. JobOk(job[t])'
  <2>1. UNCHANGED <<account, smtpCode, grants, probe, gone>>
    BY <1>1 DEF config
  <2>2. CASE Rollback(t)
    <3>1. job'[t] = NoJob
      BY <1>0, <2>2 DEF Rollback
    <3> QED
      BY <2>1, <3>1 DEF JobOk, NoJob, RowOk, Absent, Mailing
  <2>3. CASE CallFailed(t) \/ CallLost(t)
    <3>1. /\ job'[t].kind = job[t].kind /\ job'[t].row = job[t].row
          /\ job'[t].view = Absent /\ job'[t].phase = "ready"
          /\ job[t].kind \in {"batch", "test"}
      BY <1>0, <2>3 DEF CallFailed, CallLost, Sending, Txn
    <3>2. Absent.status = "absent"
      BY DEF Absent
    <3> QED
      BY <1>0, <1>4, <2>1, <3>1, <3>2 DEF JobOk, RowOk, KeysExist, Mailing
  <2>4. CASE CallAccepted(t)
    <3>1. /\ job'[t].kind = job[t].kind /\ job'[t].row = job[t].row
          /\ job'[t].view = job[t].view /\ job'[t].phase = "accepted"
          /\ Mailing(job[t])
      BY <1>0, <2>4 DEF CallAccepted, Sending, Txn, Mailing
    <3> QED
      BY <1>0, <2>1, <3>1 DEF JobOk, RowOk, KeysExist, Mailing
  <2>5. CASE ReadForSend(t)
    <3>0. RowOk(View(t)) /\ View(t) \in Account
      BY <1>0, JobsAreTyped DEF View, JobOk, ConfigInv, AccountOk
    <3>1. /\ job'[t].kind = job[t].kind /\ job'[t].row = job[t].row
      BY <1>0, <2>5 DEF ReadForSend, Txn
    <3>2. \/ job'[t].view = job[t].view /\ job'[t].phase = job[t].phase
          \/ /\ job'[t].view = ResetDaily(View(t)) /\ job'[t].phase = "read"
             /\ CanSend(ResetDaily(View(t)))
      BY <1>0, <2>5 DEF ReadForSend, Txn
    <3> DEFINE row == ResetDaily(View(t))
    <3>3. /\ row.status = View(t).status /\ row.live = View(t).live
          /\ row.smtp = View(t).smtp /\ row.oauth = View(t).oauth
      BY <3>0 DEF ResetDaily, Account
    <3>4. job[t].kind \in {"batch", "test"}
      BY <1>0, <2>5 DEF ReadForSend, JobOk
    <3>5. CASE job'[t].view = job[t].view /\ job'[t].phase = job[t].phase
      BY <1>0, <2>1, <3>1, <3>5 DEF JobOk, RowOk, KeysExist, Mailing
    <3>6. CASE job'[t].view = row /\ job'[t].phase = "read" /\ CanSend(row)
      <4>1. job'[t].view.status = "active"
        BY <3>6 DEF CanSend
      <4>2. RowOk(job[t].view)'
        BY <2>1, <3>0, <3>3, <3>6 DEF RowOk
      <4>3. account.status # "absent"
        <5>1. View(t).status = "active"
          BY <3>3, <3>6 DEF CanSend
        <5> QED
          BY <1>0, <5>1 DEF JobOk, View, Wrote
      <4>4. RowOk(job[t].row)'
        BY <1>0, <2>1, <3>1 DEF JobOk, RowOk
      <4> HIDE DEF row
      <4> QED
        BY <1>0, <2>1, <3>1, <3>4, <3>6, <4>1, <4>2, <4>3, <4>4 DEF JobOk, KeysExist, Mailing
    <3> QED
      BY <3>2, <3>5, <3>6
  <2> QED
    BY <2>2, <2>3, <2>4, <2>5
<1>6. \A u \in Txns \ {t} : job'[u] = job[u]
  BY <1>0, <1>3
<1>7. \A u \in Txns : JobOk(job[u])'
  BY <1>1, <1>5, <1>6 DEF ConfigInv, JobOk, RowOk, KeysExist, config
<1>8. AccountOk'
  BY <1>1 DEF ConfigInv, AccountOk, RowOk, KeysExist, config
<1> QED
  BY <1>7, <1>8 DEF ConfigInv

LEMMA ConfigRecords ==
    ASSUME Typed, ConfigInv, NEW t \in Txns, CallUnauthorized(t) \/ RecordSent(t)
    PROVE  ConfigInv'
<1>0. /\ job \in [Txns -> Txn] /\ job[t] \in Txn /\ JobOk(job[t])
      /\ job[t].view \in Account
  BY TypedIs, JobsAreTyped DEF ConfigInv
<1>1. UNCHANGED <<account, config, probe, gone>> /\ KeysExist(job[t].view) /\ Mailing(job[t])
  BY DEF CallUnauthorized, RecordSent, Sending, Mailing
<1>2. \E r \in Account :
        /\ job' = [job EXCEPT ![t].phase = "ready", ![t].view = Absent, ![t].row = r]
        /\ r.smtp = job[t].view.smtp /\ r.oauth = job[t].view.oauth
        /\ r.live = job[t].view.live
        /\ r.status = job[t].view.status \/ r.status = "reconnect_required"
  <2>1. CASE CallUnauthorized(t)
    <3> DEFINE r == [job[t].view EXCEPT !.status = "reconnect_required"]
    <3>1. r \in Account
      BY <1>0, ChangedRows DEF Statuses
    <3>2. /\ r.smtp = job[t].view.smtp /\ r.oauth = job[t].view.oauth
          /\ r.live = job[t].view.live /\ r.status = "reconnect_required"
      BY <1>0 DEF Account
    <3>3. job' = [job EXCEPT ![t].phase = "ready", ![t].view = Absent, ![t].row = r]
      BY <2>1 DEF CallUnauthorized
    <3> HIDE DEF r
    <3> QED
      BY <3>1, <3>2, <3>3
  <2>2. CASE RecordSent(t)
    <3> DEFINE r == [job[t].view EXCEPT !.count = @ + 1, !.today = TRUE]
    <3>1. r \in Account
      <4>1. job[t].view.count < Limit /\ job[t].view.count \in 0..Limit
        BY <1>0, <2>2 DEF RecordSent, Typed, MailsFit, Account
      <4>2. job[t].view.count + 1 \in 0..Limit
        BY <4>1, SenderAssumption
      <4> DEFINE n == job[t].view.count + 1
      <4>3. r = [job[t].view EXCEPT !.count = n, !.today = TRUE]
        BY <1>0 DEF Account
      <4> HIDE DEF r, n
      <4> QED
        BY <1>0, <4>2, <4>3, ChangedRows DEF n
    <3>2. /\ r.smtp = job[t].view.smtp /\ r.oauth = job[t].view.oauth
          /\ r.live = job[t].view.live /\ r.status = job[t].view.status
      BY <1>0 DEF Account
    <3>3. job' = [job EXCEPT ![t].phase = "ready", ![t].view = Absent, ![t].row = r]
      BY <2>2 DEF RecordSent
    <3> HIDE DEF r
    <3> QED
      BY <3>1, <3>2, <3>3
  <2> QED
    BY <2>1, <2>2
<1>3. PICK r \in Account :
        /\ job' = [job EXCEPT ![t].phase = "ready", ![t].view = Absent, ![t].row = r]
        /\ r.smtp = job[t].view.smtp /\ r.oauth = job[t].view.oauth
        /\ r.live = job[t].view.live
        /\ r.status = job[t].view.status \/ r.status = "reconnect_required"
  BY <1>2
<1> DEFINE j == [job[t] EXCEPT !.phase = "ready", !.view = Absent, !.row = r]
<1>4. job' = [job EXCEPT ![t] = j]
  BY <1>0, <1>3 DEF Txn
<1>5. j \in Txn
  BY <1>0, KnownRows DEF Txn
<1>6. j.phase = "ready" /\ j.view = Absent /\ j.row = r /\ j.kind = job[t].kind
  BY <1>0 DEF Txn
<1>7. RowOk(r) /\ KeysExist(r)
  BY <1>0, <1>1, <1>3 DEF RowOk, KeysExist, JobOk
<1>8. RowOk(Absent) /\ Absent.status = "absent"
  BY DEF RowOk, Absent
<1>9. job[t].view.status # "absent" /\ job[t].kind \in {"batch", "test"}
  BY <1>0, <1>1 DEF JobOk
<1>10. account.status # "absent" /\ r.status # "absent"
  BY <1>0, <1>3, <1>9 DEF JobOk
<1>11. JobOk(j)
  <2> HIDE DEF j
  <2> QED
    BY <1>6, <1>7, <1>8, <1>9, <1>10 DEF JobOk, Mailing
<1> HIDE DEF j
<1> QED
  BY <1>1, <1>4, <1>5, <1>11, ConfigMoves

LEMMA ConfigCommit ==
    ASSUME Typed, ConfigInv, NEW t \in Txns, CommitSends(t)
    PROVE  ConfigInv'
<1>0. /\ job \in [Txns -> Txn] /\ JobOk(job[t]) /\ AccountOk
  BY TypedIs DEF ConfigInv
<1>1. /\ account' = View(t) /\ job' = [job EXCEPT ![t] = NoJob]
      /\ UNCHANGED <<smtpCode, grants, probe, gone>>
  BY DEF CommitSends, config
<1>2. account'.status = "absent" => account' = account
  BY <1>0, <1>1 DEF JobOk, View, Wrote
<1>3. account.status = "absent" => account' = account
  BY <1>0, <1>1 DEF JobOk, View, Wrote
<1>4. KeysExist(account') /\ RowOk(account')
  BY <1>0, <1>1 DEF JobOk, View, Wrote, AccountOk
<1>5. AccountOk'
  BY <1>0, <1>1, <1>2, <1>3, <1>4 DEF AccountOk, KeysExist, RowOk
<1>6. ASSUME NEW u \in Txns PROVE JobOk(job[u])'
  <2>1. job'[u] = IF u = t THEN NoJob ELSE job[u]
    BY <1>0, <1>1
  <2>2. JobOk(job'[u])
    BY <2>1, NoJobIsOk DEF ConfigInv
  <2> QED
    BY <1>1, <1>2, <1>3, <2>2 DEF JobOk, KeysExist, RowOk
<1> QED
  BY <1>5, <1>6 DEF ConfigInv

LEMMA ConfigLoops ==
    ASSUME Typed, ConfigInv,
           \/ ResendVerification \/ TestHealth \/ WriteHealth \/ FindStale \/ MarkStale
           \/ ExpireVerification \/ CodeExpires \/ RevokeToken
    PROVE  ConfigInv'
<1>0. account \in Account /\ AccountOk
  BY TypedIs DEF ConfigInv
<1>1. CASE ResendVerification \/ CodeExpires \/ RevokeToken
  <2>1. /\ UNCHANGED <<account, grants, job, probe, gone>>
        /\ smtpCode # "missing" <=> smtpCode' # "missing"
    <3>1. CASE ResendVerification
      <4>1. account.smtp
        BY <1>0, <3>1 DEF ResendVerification, MayResend, AccountOk, RowOk
      <4> QED
        BY <1>0, <3>1, <4>1 DEF ResendVerification, AccountOk, KeysExist
    <3> QED
      BY <1>1, <3>1 DEF CodeExpires, RevokeToken
  <2>2. AccountOk'
    BY <1>0, <2>1 DEF AccountOk, KeysExist, RowOk
  <2>3. ASSUME NEW u \in Txns PROVE JobOk(job[u])'
    <3>1. JobOk(job[u])
      BY DEF ConfigInv
    <3> QED
      BY <2>1, <3>1 DEF JobOk, KeysExist, RowOk
  <2> QED
    BY <2>2, <2>3 DEF ConfigInv
<1>2. CASE TestHealth \/ FindStale
  <2>1. UNCHANGED <<account, job, config, gone>>
    BY <1>2 DEF TestHealth, FindStale
  <2>2. probe'.stale => probe.stale \/ account.status # "absent"
    BY <1>2, TypedIs DEF TestHealth, FindStale, FindsStale, Rest
  <2>3. /\ account'.smtp = account.smtp /\ account'.oauth = account.oauth
        /\ account'.live => account.live
        /\ account'.status = account.status
    BY <2>1
  <2> QED
    BY <2>1, <2>2, <2>3, ConfigRow
<1>3. CASE WriteHealth
  <2>1. UNCHANGED <<job, config, gone>>
    BY <1>3 DEF WriteHealth
  <2>2. probe'.stale => probe.stale \/ account.status # "absent"
    BY <1>3, TypedIs DEF WriteHealth, Rest
  <2>3. /\ account'.smtp = account.smtp /\ account'.oauth = account.oauth
        /\ account'.live => account.live
        /\ account'.status = account.status
    BY <1>0, <1>3 DEF WriteHealth, Account
  <2> QED
    BY <2>1, <2>2, <2>3, ConfigRow
<1>4. CASE MarkStale
  <2>1. UNCHANGED <<job, config, gone>> /\ probe.stale
    BY <1>4 DEF MarkStale
  <2>2. account.status # "absent"
    BY <1>0, <2>1 DEF AccountOk
  <2>3. /\ account'.smtp = account.smtp /\ account'.oauth = account.oauth
        /\ account'.live = account.live /\ account'.status = "reconnect_required"
    BY <1>0, <1>4 DEF MarkStale, Account
  <2> QED
    BY <2>1, <2>2, <2>3, ConfigRow
<1>5. CASE ExpireVerification
  <2>1. UNCHANGED <<job, config, gone, probe>> /\ account.status # "absent"
    BY <1>5 DEF ExpireVerification
  <2>3. /\ account'.smtp = account.smtp /\ account'.oauth = account.oauth
        /\ account'.live = FALSE /\ account'.status = "disconnected"
    BY <1>0, <1>5 DEF ExpireVerification, Account
  <2> QED
    BY <2>1, <2>3, ConfigRow
<1> QED
  BY <1>1, <1>2, <1>3, <1>4, <1>5

\* What a new day changes in a row.
LEMMA RowsOfAnotherDay ==
    ASSUME NEW x \in Account
    PROVE  /\ [x EXCEPT !.today = FALSE].status = x.status
           /\ [x EXCEPT !.today = FALSE].live = x.live
           /\ [x EXCEPT !.today = FALSE].smtp = x.smtp
           /\ [x EXCEPT !.today = FALSE].oauth = x.oauth
           /\ [x EXCEPT !.today = FALSE].count = x.count
           /\ [x EXCEPT !.today = FALSE].today = FALSE
BY DEF Account

LEMMA JobsOfAnotherDay ==
    ASSUME Typed, NewDay, NEW u \in Txns
    PROVE  /\ job'[u].kind = job[u].kind /\ job'[u].phase = job[u].phase
           /\ job'[u].view = [job[u].view EXCEPT !.today = FALSE]
           /\ job'[u].row = [job[u].row EXCEPT !.today = FALSE]
<1>1. job[u] \in Txn /\ job[u].view \in Account /\ job[u].row \in Account
  BY JobsAreTyped
<1>2. job'[u] = [job[u] EXCEPT !.view.today = FALSE, !.row.today = FALSE]
  BY DEF NewDay
<1> QED
  BY <1>1, <1>2 DEF Txn

LEMMA ConfigNewDay ==
    ASSUME Typed, ConfigInv, NewDay
    PROVE  ConfigInv'
<1>0. account \in Account /\ AccountOk
  BY TypedIs DEF ConfigInv
<1>1. UNCHANGED <<smtpCode, grants, probe, gone>>
  BY DEF NewDay, config
<1>2. /\ account'.status = account.status /\ account'.live = account.live
      /\ account'.smtp = account.smtp /\ account'.oauth = account.oauth
  BY <1>0, RowsOfAnotherDay DEF NewDay
<1>3. AccountOk'
  BY <1>0, <1>1, <1>2 DEF AccountOk, KeysExist, RowOk
<1>4. ASSUME NEW u \in Txns PROVE JobOk(job[u])'
  <2>1. JobOk(job[u]) /\ job[u].view \in Account /\ job[u].row \in Account
    BY JobsAreTyped DEF ConfigInv
  <2>2. job'[u].kind = job[u].kind /\ job'[u].phase = job[u].phase
    BY JobsOfAnotherDay
  <2>3. /\ job'[u].view.status = job[u].view.status /\ job'[u].view.live = job[u].view.live
        /\ job'[u].view.smtp = job[u].view.smtp /\ job'[u].view.oauth = job[u].view.oauth
    BY <2>1, JobsOfAnotherDay, RowsOfAnotherDay
  <2>4. /\ job'[u].row.status = job[u].row.status /\ job'[u].row.live = job[u].row.live
        /\ job'[u].row.smtp = job[u].row.smtp /\ job'[u].row.oauth = job[u].row.oauth
    BY <2>1, JobsOfAnotherDay, RowsOfAnotherDay
  <2>5. job[u].row = Absent => job'[u].row = Absent
    <3>1. [Absent EXCEPT !.today = FALSE] = Absent
      <4>1. Absent.today = FALSE
        BY DEF Absent
      <4>2. \A x \in Account : x.today = FALSE => [x EXCEPT !.today = FALSE] = x
        BY DEF Account
      <4> QED
        BY <4>1, <4>2, KnownRows
    <3> QED
      BY <3>1, JobsOfAnotherDay
  <2>6. RowOk(job[u].view)' /\ RowOk(job[u].row)'
    BY <1>1, <2>1, <2>3, <2>4 DEF JobOk, RowOk
  <2>7. KeysExist(job[u].row) => KeysExist(job[u].row)'
    BY <1>1, <2>4 DEF KeysExist
  <2> QED
    BY <1>2, <2>1, <2>2, <2>3, <2>4, <2>5, <2>6, <2>7 DEF JobOk, Mailing
<1> QED
  BY <1>3, <1>4 DEF ConfigInv

LEMMA ConfigSteps == Typed /\ ConfigInv /\ [SenderNext]_senderVars => ConfigInv'
<1> SUFFICES ASSUME Typed, ConfigInv, [SenderNext]_senderVars PROVE ConfigInv'
  OBVIOUS
<1>1. CASE \E t \in Txns : Loads(t) \/ BeginBatch(t)
  BY <1>1, ConfigLoads
<1>2. CASE \E t \in Txns : Steps(t)
  BY <1>2, ConfigConnecting, ConfigCallback, ConfigDisconnect, ConfigMails, ConfigRecords,
     ConfigCommit DEF Steps
<1>3. CASE \/ ResendVerification \/ TestHealth \/ WriteHealth \/ FindStale \/ MarkStale
           \/ ExpireVerification \/ CodeExpires \/ RevokeToken
  BY <1>3, ConfigLoops
<1>4. CASE NewDay
  BY <1>4, ConfigNewDay
<1>5. CASE UNCHANGED senderVars
  BY <1>5 DEF senderVars, ConfigInv, AccountOk, JobOk, KeysExist, RowOk
<1> QED
  BY <1>1, <1>2, <1>3, <1>4, <1>5 DEF SenderNext

LEMMA ConfigInvHolds == SenderSpec => [](Typed /\ ConfigInv)
BY TypedStarts, TypedSteps, ConfigStarts, ConfigSteps, PTL DEF SenderSpec

\* A disconnected address stays out of use, however many edits, tests, batches, health
\* checks and test mails have read it before: a row that refers to a configuration that was
\* deleted cannot be written back, and a live row has a configuration
\* (DisconnectAccountUseCase, BaseRepository.update, the foreign keys of email_accounts).
THEOREM DisconnectsLast == SenderSpec => []DisconnectLasts
<1>1. ConfigInv => DisconnectLasts
  BY DEF ConfigInv, AccountOk, KeysExist, RowOk, DisconnectLasts
<1> QED
  BY <1>1, ConfigInvHolds, PTL

-----------------------------------------------------------------------------
(* The limit of a day *)

\* The mails of the day whose answers the sender has.
Heard == IF sentToday = Raced THEN Raced ELSE sentToday - unheard

LEMMA HeardIs ==
    ASSUME Typed
    PROVE  /\ Heard \in Int \cup {Raced} /\ (Heard = Raced <=> sentToday = Raced)
           /\ sends' = sends => Heard' = Heard
<1>1. SendsFit
  BY TypedIs DEF Rest
<1>2. sentToday # Raced => sentToday - unheard \in Int
  BY <1>1, SenderAssumption DEF SendsFit
<1> QED
  BY <1>2, SenderAssumption DEF Heard, sends

\* Of n mails heard of today, the row x knows.
Fits(x, n) == IF x.today THEN n <= x.count ELSE n = 0

Seen(j, a) == IF j.row # Absent THEN j.row ELSE a

\* A transaction's row counts the mails of the day, but for the one just accepted; a is
\* the committed row.
DayFits(j, n, a) ==
    /\ j.phase # "accepted" => Fits(Seen(j, a), n)
    /\ j.kind \in {"batch", "test"} /\ j.phase = "read" => Fits(j.view, n)
    /\ j.phase = "accepted" => n <= j.view.count + 1
    /\ j.kind \in {"save", "disconnect", "verify", "callback"} => Fits(j.view, n)
    /\ j.kind = "connect" /\ a.status = "absent" => Fits(j.view, n)

CountInv ==
    /\ account.status = "absent" => ~account.today
    /\ \A t \in Txns : job[t].view.status = "absent" => ~job[t].view.today
    /\ Heard # Raced =>
        /\ \A t \in Txns : job[t].kind # "none" =>
              /\ \A u \in Txns : job[u].kind # "none" => u = t
              /\ DayFits(job[t], Heard, account)
        /\ (\A t \in Txns : job[t].kind = "none") => Fits(account, Heard)

LEMMA CountStarts == SenderInit => CountInv
<1> SUFFICES ASSUME SenderInit PROVE CountInv
  OBVIOUS
<1>1. \A t \in Txns : job[t].kind = "none" /\ job[t].view.today = FALSE
  BY DEF SenderInit, NoJob, Absent
<1>2. account.today = FALSE
  <2>1. Absent.today = FALSE /\ NewSmtp.today = FALSE
    BY DEF Absent, NewSmtp
  <2>2. [NewGmail(1) EXCEPT !.health = "healthy"].today = FALSE
    BY DEF Absent, NewGmail
  <2> QED
    BY <2>1, <2>2 DEF SenderInit
<1>3. Heard = 0
  BY SenderAssumption DEF SenderInit, Heard
<1> QED
  BY <1>1, <1>2, <1>3 DEF CountInv, Fits

\* The only transaction of a serial day starts.
LEMMA CountStart ==
    ASSUME Typed, ConfigInv, CountInv, NEW t \in Txns, NEW k \in Kinds,
           NEW phase \in {"ready", "read"}, NEW row \in Account, NEW n \in 0..BatchSize,
           Start(t, k, phase, row, n), account' = account,
           row.status = "absent" => ~row.today,
           phase = "ready" <=> k \in {"batch", "test"},
           \A m \in Int : Fits(account, m) /\ k \notin {"batch", "test"}
                          /\ (k # "connect" \/ account.status = "absent") => Fits(row, m)
    PROVE  CountInv'
<1> DEFINE j == [kind |-> k, phase |-> phase, view |-> row, row |-> Absent, left |-> n]
<1>1. job \in [Txns -> Txn] /\ Heard \in Int \cup {Raced}
  BY TypedIs, HeardIs
<1>2. \A u \in Txns : job'[u] = IF u = t THEN j ELSE job[u]
  BY <1>1 DEF Start
<1>3. \A u \in Txns : job'[u].view.status = "absent" => ~job'[u].view.today
  BY <1>2 DEF CountInv
<1>4. ASSUME Heard' # Raced
      PROVE  /\ Heard' = Heard /\ Heard \in Int
             /\ \A u \in Txns : job[u].kind = "none"
  <2>1. ~Race
    BY <1>4 DEF Race, Heard
  <2> QED
    BY <1>1, <1>4, <2>1, HeardIs DEF Start, Open
<1>5. k # "none"
  BY DEF Kinds
<1>6. ASSUME Heard' # Raced PROVE DayFits(j, Heard', account)
  <2>1. Fits(account, Heard)
    BY <1>4, <1>6 DEF CountInv
  <2>2. k \notin {"batch", "test"} /\ (k # "connect" \/ account.status = "absent")
        => Fits(row, Heard)
    BY <1>4, <1>6, <2>1
  <2>3. Heard' = Heard
    BY <1>4, <1>6
  <2>4. j.kind = k /\ j.phase = phase /\ j.view = row /\ j.row = Absent
    OBVIOUS
  <2> HIDE DEF j
  <2> QED
    BY <2>1, <2>2, <2>3, <2>4 DEF DayFits, Seen, Kinds
<1>7. ASSUME Heard' # Raced, NEW u \in Txns, job'[u].kind # "none"
      PROVE  u = t
  BY <1>2, <1>4, <1>7
<1>8. account'.status = "absent" => ~account'.today
  BY DEF CountInv
<1>9. j.kind = k
  OBVIOUS
<1> HIDE DEF j
<1> QED
  BY <1>2, <1>3, <1>5, <1>6, <1>7, <1>8, <1>9 DEF CountInv

LEMMA CountLoads ==
    ASSUME Typed, ConfigInv, CountInv, NEW t \in Txns, Loads(t) \/ BeginBatch(t)
    PROVE  CountInv'
<1>0. /\ account \in Account /\ 0 \in 0..BatchSize /\ 1 \in 0..BatchSize
      /\ account.status = "absent" => ~account.live /\ ~account.today
  BY SenderAssumption, TypedIs DEF ConfigInv, CountInv, AccountOk, RowOk
<1>1. CASE LoadConnect(t)
  <2>1. NewSmtp.today = FALSE /\ NewSmtp \in Account
    BY KnownRows DEF NewSmtp, Absent
  <2>2. Start(t, "connect", "read", NewSmtp, 0) /\ account' = account
    BY <1>1 DEF LoadConnect, Request
  <2>3. \A m \in Int : Fits(account, m) /\ account.status = "absent" => Fits(NewSmtp, m)
    BY <1>0, <2>1 DEF Fits
  <2> QED
    BY <1>0, <2>1, <2>2, <2>3, CountStart DEF Kinds
<1>2. ASSUME NEW k \in Kinds \ {"connect", "batch", "test"}, NEW row \in Account,
             Request(t, k, row),
             row.today = account.today, row.count = account.count,
             row.status = "absent" => account.status = "absent"
      PROVE  CountInv'
  <2>1. Start(t, k, "read", row, 0) /\ account' = account
    BY <1>2 DEF Request
  <2>2. \A m \in Int : Fits(account, m) => Fits(row, m)
    BY <1>2 DEF Fits
  <2>3. row.status = "absent" => ~row.today
    BY <1>0, <1>2
  <2> QED
    BY <1>0, <1>2, <2>1, <2>2, <2>3, CountStart DEF Kinds
<1>3. CASE LoadVerify(t)
  <2> DEFINE row == [account EXCEPT !.status = "active"]
  <2>1. row \in Account
    BY <1>0, ChangedRows DEF Statuses
  <2>2. row.status = "active" /\ row.today = account.today /\ row.count = account.count
    BY <1>0 DEF Account
  <2>3. Request(t, "verify", row)
    BY <1>3 DEF LoadVerify
  <2> HIDE DEF row
  <2> QED
    BY <1>2, <2>1, <2>2, <2>3 DEF Kinds
<1>4. CASE LoadCallback(t)
  BY <1>0, <1>2, <1>4 DEF LoadCallback, Kinds
<1>5. CASE LoadEdit(t)
  BY <1>0, <1>2, <1>5 DEF LoadEdit, Kinds
<1>6. CASE LoadCheck(t)
  <2>1. PICK h \in {"healthy", "unhealthy"} :
            Request(t, "save", [account EXCEPT !.health = Health(account, h)])
    BY <1>6 DEF LoadCheck
  <2> DEFINE row == [account EXCEPT !.health = Health(account, h)]
  <2>2. Health(account, h) \in {"unknown", "healthy", "unhealthy"}
    BY DEF Health
  <2>3. row \in Account
    BY <1>0, <2>2, ChangedRows
  <2>4. row.status = account.status /\ row.today = account.today /\ row.count = account.count
    BY <1>0 DEF Account
  <2>5. Request(t, "save", row)
    BY <2>1
  <2> HIDE DEF row
  <2> QED
    BY <1>2, <2>3, <2>4, <2>5 DEF Kinds
<1>7. CASE LoadDisconnect(t)
  <2> DEFINE row == [account EXCEPT !.status = "disconnected", !.live = FALSE]
  <2>1. row \in Account
    BY <1>0, ChangedRows DEF Statuses
  <2>2. row.status = "disconnected" /\ row.today = account.today /\ row.count = account.count
    BY <1>0 DEF Account
  <2>3. Request(t, "disconnect", row)
    BY <1>7 DEF LoadDisconnect
  <2> HIDE DEF row
  <2> QED
    BY <1>2, <2>1, <2>2, <2>3 DEF Kinds
<1>8. CASE BeginTest(t) \/ BeginBatch(t)
  <2>1. PICK k \in {"batch", "test"}, n \in 0..BatchSize : Start(t, k, "ready", Absent, n)
    <3>1. CASE BeginTest(t)
      BY <1>0, <3>1 DEF BeginTest
    <3>2. CASE BeginBatch(t)
      <4>1. account.count \in 0..Limit
        BY <1>0 DEF Account
      <4>2. BatchLimit(Remaining) \in 0..BatchSize
        BY <3>2, <4>1, SenderAssumption DEF BeginBatch, Remaining, BatchLimit, Least
      <4> QED
        BY <3>2, <4>2 DEF BeginBatch
    <3> QED
      BY <1>8, <3>1, <3>2
  <2>2. Absent.today = FALSE /\ Absent \in Account
    BY KnownRows DEF Absent
  <2>3. account' = account
    BY <1>8 DEF BeginTest, BeginBatch
  <2> QED
    BY <2>1, <2>2, <2>3, CountStart DEF Kinds
<1> QED
  BY <1>1, <1>3, <1>4, <1>5, <1>6, <1>7, <1>8 DEF Loads

\* The transaction of a serial day ends, and the committed row counts its mails.
LEMMA CountEnd ==
    ASSUME Typed, ConfigInv, CountInv, NEW t \in Txns,
           job[t].kind # "none", job' = [job EXCEPT ![t] = NoJob],
           account'.status = "absent" => ~account'.today,
           Heard' # Raced => Heard' = Heard,
           Heard' # Raced /\ DayFits(job[t], Heard, account)
           => Fits(account', Heard)
    PROVE  CountInv'
<1>1. job \in [Txns -> Txn]
  BY TypedIs
<1>2. \A u \in Txns : job'[u] = IF u = t THEN NoJob ELSE job[u]
  BY <1>1
<1>3. NoJob.view.today = FALSE /\ NoJob.kind = "none"
  BY DEF NoJob, Absent
<1>4. \A u \in Txns : job'[u].view.status = "absent" => ~job'[u].view.today
  BY <1>2, <1>3 DEF CountInv
<1>5. ASSUME Heard' # Raced
      PROVE  Fits(account', Heard') /\ \A u \in Txns : job'[u].kind = "none"
  <2>1. DayFits(job[t], Heard, account) /\ \A u \in Txns : job[u].kind # "none" => u = t
    BY <1>5 DEF CountInv
  <2> QED
    BY <1>2, <1>3, <1>5, <2>1
<1> QED
  BY <1>4, <1>5 DEF CountInv

\* The transaction of a serial day sends.
LEMMA CountMail ==
    ASSUME Typed, ConfigInv, CountInv, NEW t \in Txns, NEW j \in Txn,
           job' = [job EXCEPT ![t] = j], account' = account,
           job[t].kind # "none", j.kind = job[t].kind,
           j.view.status = "absent" => ~j.view.today,
           Heard' # Raced => Heard # Raced,
           Heard' # Raced /\ DayFits(job[t], Heard, account)
           => DayFits(j, Heard', account)
    PROVE  CountInv'
<1>1. job \in [Txns -> Txn]
  BY TypedIs
<1>2. \A u \in Txns : job'[u] = IF u = t THEN j ELSE job[u]
  BY <1>1
<1>3. \A u \in Txns : job'[u].view.status = "absent" => ~job'[u].view.today
  BY <1>2 DEF CountInv
<1>4. ASSUME Heard' # Raced
      PROVE  /\ DayFits(j, Heard', account')
             /\ \A u \in Txns : job'[u].kind # "none" => u = t
  <2>1. DayFits(job[t], Heard, account) /\ \A u \in Txns : job[u].kind # "none" => u = t
    BY <1>4 DEF CountInv
  <2> QED
    BY <1>2, <1>4, <2>1
<1>5. account'.status = "absent" => ~account'.today
  BY DEF CountInv
<1> QED
  BY <1>2, <1>3, <1>4, <1>5 DEF CountInv

\* Requests write a row that counts the mails of the day.
LEMMA CountRequests ==
    ASSUME Typed, ConfigInv, CountInv, NEW t \in Txns,
           ConnectSmtp(t) \/ VerifySmtp(t) \/ SaveRow(t) \/ Disconnect(t)
    PROVE  CountInv'
<1> DEFINE row == job[t].view
<1>0. /\ row \in Account /\ JobOk(job[t])
  BY JobsAreTyped DEF ConfigInv
<1>1. /\ job' = [job EXCEPT ![t] = NoJob] /\ Heard' = Heard
      /\ job[t].kind \in {"connect", "verify", "save", "disconnect"}
      /\ job[t].kind = "connect" => account.status = "absent"
  BY HeardIs DEF ConnectSmtp, VerifySmtp, SaveRow, Disconnect, Finish
<1>2. account'.today = row.today /\ account'.count = row.count /\ account'.status = row.status
  <2>1. CASE Disconnect(t)
    <3>1. account' = [row EXCEPT !.smtp = @ /\ smtpCode' # "missing",
                                 !.oauth = IF @ \in grants' THEN @ ELSE 0]
      BY <2>1 DEF Disconnect, Finish
    <3> QED
      BY <1>0, <3>1 DEF Account
  <2> QED
    BY <2>1 DEF ConnectSmtp, VerifySmtp, SaveRow, Finish
<1>3. row.status # "absent"
  BY <1>0, <1>1 DEF JobOk
<1>4. DayFits(job[t], Heard, account) => Fits(row, Heard)
  BY <1>1 DEF DayFits
<1>5. Fits(row, Heard) => Fits(account', Heard)
  BY <1>2 DEF Fits
<1> QED
  BY <1>1, <1>2, <1>3, <1>4, <1>5, CountEnd

LEMMA CountCallback ==
    ASSUME Typed, ConfigInv, CountInv, NEW t \in Txns, OAuthCallback(t)
    PROVE  CountInv'
<1> DEFINE row == job[t].view
           g == IF row.oauth # 0 THEN row.oauth ELSE granted + 1
           new == Authorized(row, g)
<1>0. row \in Account /\ (row.status = "absent" => ~row.today)
  BY JobsAreTyped DEF CountInv
<1>1. PICK w \in {"healthy", "unhealthy"} :
        Finish(t, "callback", [Authorized(row, g) EXCEPT !.health = w])
  BY Zenon DEF OAuthCallback
<1>2. /\ job' = [job EXCEPT ![t] = NoJob] /\ Heard' = Heard
      /\ job[t].kind = "callback" /\ account' = [new EXCEPT !.health = w]
  BY <1>1, HeardIs DEF Finish
<1>3. /\ new.today = row.today /\ (row.today => new.count = row.count)
      /\ new.status = "active"
  <2> HIDE DEF g
  <2>1. CASE row.status = "absent"
    <3>1. row.today = FALSE
      BY <1>0, <2>1 DEF Account
    <3>2. new.today = FALSE /\ new.status = "active"
      BY <2>1 DEF Authorized, NewGmail, Absent
    <3> QED
      BY <3>1, <3>2
  <2>2. CASE row.status # "absent"
    BY <1>0, <2>2 DEF Authorized, Account
  <2> QED
    BY <2>1, <2>2
<1>4. new \in Account
  <2>1. /\ row.oauth \in 0..MaxGrants /\ granted \in 0..MaxGrants
        /\ row.oauth # 0 \/ granted < MaxGrants
    BY <1>0, TypedIs DEF Account, Rest, OAuthCallback
  <2>2. g \in 0..MaxGrants
    BY <2>1, SenderAssumption
  <2> HIDE DEF g
  <2> QED
    BY <1>0, <2>2, KnownRows, ChangedRows DEF Authorized, Statuses
<1>5. account'.today = new.today /\ account'.count = new.count /\ account'.status = new.status
  <2> HIDE DEF new
  <2> QED
    BY <1>2, <1>4 DEF Account
<1> HIDE DEF new
<1>6. DayFits(job[t], Heard, account) => Fits(row, Heard)
  BY <1>2 DEF DayFits
<1>7. Fits(row, Heard) => Fits(account', Heard)
  BY <1>3, <1>5 DEF Fits
<1> QED
  BY <1>2, <1>3, <1>5, <1>6, <1>7, CountEnd

LEMMA CountEnds ==
    ASSUME Typed, ConfigInv, CountInv, NEW t \in Txns, CommitSends(t) \/ Rollback(t)
    PROVE  CountInv'
<1>0. JobOk(job[t]) /\ AccountOk /\ (account.status = "absent" => ~account.today)
  BY DEF ConfigInv, CountInv
<1>1. CASE CommitSends(t)
  <2>1. /\ job' = [job EXCEPT ![t] = NoJob] /\ Heard' = Heard
        /\ job[t].phase = "ready" /\ account' = View(t)
    BY <1>1, HeardIs DEF CommitSends
  <2>2. job[t].kind # "none" /\ View(t) = Seen(job[t], account)
    BY <1>0, <2>1 DEF JobOk, View, Wrote, Seen
  <2>3. account'.status = "absent" => ~account'.today
    BY <1>0, <2>1, <2>2 DEF JobOk, Seen
  <2>4. DayFits(job[t], Heard, account) => Fits(account', Heard)
    BY <2>1, <2>2 DEF DayFits
  <2> QED
    BY <2>1, <2>2, <2>3, <2>4, CountEnd
<1>2. CASE Rollback(t)
  <2>1. /\ job' = [job EXCEPT ![t] = NoJob] /\ account' = account
        /\ job[t].kind # "none"
    BY <1>2 DEF Rollback
  <2>2. Heard' # Raced => /\ Heard' = Heard /\ job[t].phase # "accepted"
                              /\ Seen(job[t], account) = account
    BY <1>2, HeardIs DEF Rollback, Race, Heard, Wrote, Seen
  <2>3. Heard' # Raced /\ DayFits(job[t], Heard, account) => Fits(account', Heard)
    BY <2>1, <2>2 DEF DayFits
  <2> QED
    BY <1>0, <2>1, <2>2, <2>3, CountEnd
<1> QED
  BY <1>1, <1>2

LEMMA CountReads ==
    ASSUME Typed, ConfigInv, CountInv, NEW t \in Txns, ReadForSend(t)
    PROVE  CountInv'
<1> DEFINE row == ResetDaily(View(t))
           j == job'[t]
<1>0. /\ job \in [Txns -> Txn] /\ job[t] \in Txn /\ JobOk(job[t]) /\ View(t) \in Account
      /\ Heard \in Int \cup {Raced}
  BY TypedIs, JobsAreTyped, HeardIs DEF ConfigInv
<1>1. job' = [job EXCEPT ![t] = j] /\ account' = account /\ Heard' = Heard
  BY <1>0, HeardIs DEF ReadForSend
<1>2. j \in Txn
  <2>1. Typed'
    BY TypedReads
  <2> QED
    BY <2>1, TypedIsNext
<1>3. j.kind = job[t].kind /\ j.row = job[t].row
  BY <1>0 DEF ReadForSend, Txn
<1>4. \/ j.view = job[t].view /\ j.phase = job[t].phase
      \/ j.view = row /\ j.phase = "read" /\ row.status = "active"
  BY <1>0 DEF ReadForSend, Txn, CanSend
<1>5. job[t].phase = "ready" /\ job[t].kind \in {"batch", "test"}
  BY <1>0 DEF ReadForSend, JobOk
<1>6. ASSUME DayFits(job[t], Heard, account), Heard # Raced
      PROVE  Fits(row, Heard) /\ Fits(Seen(job[t], account), Heard)
  <2>1. Fits(View(t), Heard) /\ Fits(Seen(job[t], account), Heard)
    BY <1>5, <1>6 DEF DayFits, Seen, View, Wrote
  <2>2. CASE View(t).today
    BY <2>1, <2>2 DEF ResetDaily
  <2>3. CASE ~View(t).today
    <3>1. Heard = 0
      BY <2>1, <2>3 DEF Fits
    <3>2. row.count = 0 /\ row.today = TRUE
      BY <1>0, <2>3 DEF ResetDaily, Account
    <3> QED
      BY <2>1, <3>1, <3>2 DEF Fits
  <2> QED
    BY <2>2, <2>3
<1> HIDE DEF j, row
<1>7. Heard' # Raced /\ DayFits(job[t], Heard, account) => DayFits(j, Heard', account)
  <2> SUFFICES ASSUME Heard # Raced, DayFits(job[t], Heard, account)
               PROVE  DayFits(j, Heard, account)
    BY <1>1
  <2>1. Seen(j, account) = Seen(job[t], account)
    BY <1>3 DEF Seen
  <2>2. Fits(row, Heard) /\ Fits(Seen(job[t], account), Heard)
    BY <1>6
  <2> QED
    BY <1>3, <1>4, <1>5, <2>1, <2>2 DEF DayFits
<1>8. j.view.status = "absent" => ~j.view.today
  BY <1>4 DEF CountInv
<1> QED
  BY <1>1, <1>2, <1>3, <1>5, <1>7, <1>8, CountMail

LEMMA CountAccepted ==
    ASSUME Typed, ConfigInv, CountInv, NEW t \in Txns, CallAccepted(t)
    PROVE  CountInv'
<1> DEFINE j == [job[t] EXCEPT !.phase = "accepted"]
<1>0. /\ job \in [Txns -> Txn] /\ job[t] \in Txn /\ job[t].view \in Account
      /\ Heard \in Int \cup {Raced}
  BY TypedIs, JobsAreTyped, HeardIs
<1>1. job' = [job EXCEPT ![t] = j] /\ account' = account
  BY <1>0 DEF CallAccepted, Txn
<1>2. j \in Txn
  BY <1>0 DEF Txn
<1>3. j.kind = job[t].kind /\ j.row = job[t].row /\ j.view = job[t].view /\ j.phase = "accepted"
  BY <1>0 DEF Txn
<1>4. job[t].kind \in {"batch", "test"} /\ job[t].phase = "read"
  BY DEF CallAccepted, Sending
<1>5. ASSUME Heard' # Raced, DayFits(job[t], Heard, account)
      PROVE  Heard # Raced /\ Heard' <= job[t].view.count + 1
  <2>1. Heard # Raced /\ Heard' <= Heard + 1
    <3>1. /\ sentToday' # Raced /\ sentToday # Raced /\ unheard' = unheard
          /\ sentToday' = Least(sentToday + 1, MaxSent)
      BY <1>5, HeardIs DEF CallAccepted, Heard
    <3>2. sentToday \in Nat /\ unheard \in Nat
      BY <3>1, TypedIs, SenderAssumption DEF Rest, SendsFit
    <3>3. Least(sentToday + 1, MaxSent) <= sentToday + 1
      BY <3>2, SenderAssumption DEF Least
    <3>4. Least(sentToday + 1, MaxSent) \in Nat
      BY <3>2, SenderAssumption DEF Least
    <3>5. Least(sentToday + 1, MaxSent) # Raced
      BY <3>4, SenderAssumption
    <3>6. Heard = sentToday - unheard /\ Heard' = Least(sentToday + 1, MaxSent) - unheard
      BY <3>1, <3>5 DEF Heard
    <3>7. Heard # Raced
      BY <3>1, HeardIs
    <3> QED
      BY <3>2, <3>3, <3>4, <3>6, <3>7
  <2>2. Heard \in Int /\ Heard' \in Int /\ job[t].view.count \in Nat
    <3>1. Typed'
      BY TypedSends
    <3>2. Heard' \in Int
      <4>1. sentToday' # Raced /\ SendsFit'
        BY <1>5, <3>1, TypedIsNext DEF Rest, Heard
      <4> QED
        BY <4>1, SenderAssumption DEF SendsFit, Heard
    <3> QED
      BY <1>0, <2>1, <3>2, SenderAssumption DEF Account
  <2>3. Fits(job[t].view, Heard)
    BY <1>4, <1>5 DEF DayFits
  <2>4. Heard <= job[t].view.count
    BY <2>2, <2>3 DEF Fits
  <2> QED
    BY <2>1, <2>2, <2>4
<1>6. Heard' # Raced => Heard # Raced
  BY HeardIs DEF CallAccepted, Heard
<1> HIDE DEF j
<1>7. Heard' # Raced /\ DayFits(job[t], Heard, account) => DayFits(j, Heard', account)
  BY <1>3, <1>4, <1>5 DEF DayFits
<1>8. j.view.status = "absent" => ~j.view.today
  BY <1>3 DEF CountInv
<1> QED
  BY <1>1, <1>2, <1>3, <1>4, <1>6, <1>7, <1>8, CountMail

LEMMA CountDone ==
    ASSUME Typed, ConfigInv, CountInv, NEW t \in Txns,
           CallFailed(t) \/ CallLost(t) \/ CallUnauthorized(t) \/ RecordSent(t)
    PROVE  CountInv'
<1> DEFINE j == job'[t]
<1>0. /\ job \in [Txns -> Txn] /\ job[t] \in Txn /\ JobOk(job[t]) /\ job[t].view \in Account
      /\ Heard \in Int \cup {Raced}
  BY TypedIs, JobsAreTyped, HeardIs DEF ConfigInv
<1>1. job' = [job EXCEPT ![t] = j] /\ account' = account /\ Heard' = Heard
  <2>1. CASE CallLost(t)
    <3>1. Heard' = Heard
      <4>1. /\ sentToday # Raced /\ sentToday' = sentToday + 1 /\ unheard' = unheard + 1
            /\ sentToday \in Nat /\ unheard \in Nat
        BY <2>1, TypedIs, SenderAssumption DEF CallLost, Rest, SendsFit
      <4>2. sentToday + 1 # Raced
        BY <4>1, SenderAssumption
      <4> QED
        BY <4>1, <4>2 DEF Heard
    <3> QED
      BY <1>0, <2>1, <3>1 DEF CallLost
  <2>2. CASE CallFailed(t) \/ CallUnauthorized(t) \/ RecordSent(t)
    BY <1>0, <2>2, HeardIs DEF CallFailed, CallUnauthorized, RecordSent
  <2> QED
    BY <2>1, <2>2
<1>2. j \in Txn
  <2>1. Typed'
    BY TypedSends
  <2> QED
    BY <2>1, TypedIsNext
<1>3. j.kind = job[t].kind /\ j.view = Absent /\ j.phase = "ready"
  BY <1>0 DEF CallFailed, CallLost, CallUnauthorized, RecordSent, Txn
<1>4. Mailing(job[t]) /\ job[t].kind \in {"batch", "test"}
  BY <1>0 DEF CallFailed, CallLost, CallUnauthorized, RecordSent, Sending, Mailing, JobOk
<1>5. ASSUME DayFits(job[t], Heard, account), Heard # Raced
      PROVE  Fits(Seen(j, account), Heard)
  <2>1. CASE CallFailed(t) \/ CallLost(t)
    <3>1. j.row = job[t].row /\ job[t].phase = "read"
      BY <1>0, <2>1 DEF CallFailed, CallLost, Sending, Txn
    <3> QED
      BY <1>5, <3>1 DEF DayFits, Seen
  <2>2. CASE CallUnauthorized(t)
    <3> DEFINE r == [job[t].view EXCEPT !.status = "reconnect_required"]
    <3>1. j.row = r /\ job[t].phase = "read"
      BY <1>0, <2>2 DEF CallUnauthorized, Sending, Txn
    <3>2. r.today = job[t].view.today /\ r.count = job[t].view.count
          /\ r.status = "reconnect_required"
      BY <1>0 DEF Account
    <3>3. Absent.status = "absent"
      BY DEF Absent
    <3>4. r # Absent
      BY <3>2, <3>3
    <3>5. Fits(job[t].view, Heard)
      BY <1>4, <1>5, <3>1 DEF DayFits
    <3> HIDE DEF j, r
    <3> QED
      BY <3>1, <3>2, <3>4, <3>5 DEF Fits, Seen
  <2>3. CASE RecordSent(t)
    <3> DEFINE r == [job[t].view EXCEPT !.count = @ + 1, !.today = TRUE]
    <3>1. j.row = r /\ job[t].phase = "accepted"
      BY <1>0, <2>3 DEF RecordSent, Txn
    <3>2. r.today = TRUE /\ r.count = job[t].view.count + 1
      BY <1>0 DEF Account
    <3>3. Absent.today = FALSE
      BY DEF Absent
    <3>4. r # Absent
      BY <3>2, <3>3
    <3>5. Heard <= job[t].view.count + 1
      BY <1>5, <3>1 DEF DayFits
    <3> HIDE DEF j, r
    <3> QED
      BY <3>1, <3>2, <3>4, <3>5 DEF Fits, Seen
  <2> QED
    BY <2>1, <2>2, <2>3
<1> HIDE DEF j
<1>6. Heard' # Raced /\ DayFits(job[t], Heard, account) => DayFits(j, Heard', account)
  BY <1>1, <1>3, <1>4, <1>5 DEF DayFits
<1>7. Absent.today = FALSE
  BY DEF Absent
<1> QED
  BY <1>1, <1>2, <1>3, <1>4, <1>6, <1>7, CountMail

LEMMA CountLoops ==
    ASSUME Typed, ConfigInv, CountInv,
           \/ ResendVerification \/ TestHealth \/ WriteHealth \/ FindStale \/ MarkStale
           \/ ExpireVerification \/ CodeExpires \/ RevokeToken
    PROVE  CountInv'
<1>0. account \in Account
  BY TypedIs
<1>1. job' = job /\ Heard' = Heard
  BY HeardIs DEF ResendVerification, TestHealth, WriteHealth, FindStale, MarkStale,
         ExpireVerification, CodeExpires, RevokeToken
<1>2. /\ account'.today = account.today /\ account'.count = account.count
      /\ account'.status = "absent" => account.status = "absent"
  BY <1>0 DEF ResendVerification, TestHealth, WriteHealth, FindStale, MarkStale,
         ExpireVerification, CodeExpires, RevokeToken, Account
<1>3. ASSUME NEW u \in Txns, DayFits(job[u], Heard, account)
      PROVE  DayFits(job'[u], Heard', account')
  <2>1. Fits(Seen(job[u], account), Heard) => Fits(Seen(job[u], account'), Heard)
    BY <1>2 DEF Fits, Seen
  <2> QED
    BY <1>1, <1>2, <1>3, <2>1 DEF DayFits
<1>4. Fits(account, Heard) => Fits(account', Heard)
  BY <1>2 DEF Fits
<1> QED
  BY <1>1, <1>2, <1>3, <1>4 DEF CountInv

LEMMA OneOpen ==
    ASSUME Cardinality(Open) <= 1, NEW t \in Open, NEW u \in Open
    PROVE  u = t
<1> SUFFICES ASSUME u # t PROVE FALSE
  OBVIOUS
<1>1. IsFiniteSet(Open)
  BY SenderAssumption, FS_Subset DEF Open
<1>2. IsFiniteSet({t}) /\ Cardinality({t}) = 1
  BY FS_Singleton
<1>3. Cardinality({t} \cup {u}) = 2
  BY <1>2, FS_AddElement
<1>4. {t} \cup {u} \subseteq Open
  OBVIOUS
<1>5. Cardinality({t} \cup {u}) <= Cardinality(Open)
  BY <1>1, <1>4, FS_Subset
<1>6. Cardinality(Open) \in Nat
  BY <1>1, FS_CardinalityType
<1> QED
  BY <1>3, <1>5, <1>6

LEMMA CountNewDay ==
    ASSUME Typed, ConfigInv, CountInv, NewDay
    PROVE  CountInv'
<1>0. account \in Account
  BY TypedIs
<1>1. account'.today = FALSE
  BY <1>0, RowsOfAnotherDay DEF NewDay
<1>2. ASSUME NEW u \in Txns
      PROVE  /\ job'[u].kind = job[u].kind /\ job'[u].phase = job[u].phase
             /\ job'[u].view.today = FALSE /\ job'[u].row.today = FALSE
             /\ job'[u].view.count = job[u].view.count /\ job[u].view.count \in 0..Limit
  <2>1. job[u].view \in Account /\ job[u].row \in Account
    BY JobsAreTyped
  <2>2. job[u].view.count \in 0..Limit
    BY <2>1 DEF Account
  <2> QED
    BY <2>1, <2>2, JobsOfAnotherDay, RowsOfAnotherDay
<1>3. ASSUME Heard' # Raced, NEW t \in Txns, job'[t].kind # "none",
             NEW u \in Txns, job'[u].kind # "none"
      PROVE  u = t
  <2>1. Cardinality(Open) <= 1
    <3>1. IsFiniteSet(Open)
      BY SenderAssumption, FS_Subset DEF Open
    <3>2. Cardinality(Open) \in Nat
      BY <3>1, FS_CardinalityType
    <3>3. ~(Cardinality(Open) > 1)
      BY <1>3 DEF NewDay, Heard
    <3> DEFINE n == Cardinality(Open)
    <3> HIDE DEF n
    <3>4. n \in Nat /\ ~(n > 1) => n <= 1
      OBVIOUS
    <3> QED
      BY <3>2, <3>3, <3>4 DEF n
  <2>2. t \in Open /\ u \in Open
    BY <1>2, <1>3 DEF Open
  <2> QED
    BY <2>1, <2>2, OneOpen
<1>4. Heard' # Raced => Heard' = 0
  <2>1. (sentToday' = Raced \/ sentToday' = 0) /\ unheard' = 0
    BY DEF NewDay
  <2>2. Heard' = IF sentToday' = Raced THEN Raced ELSE sentToday' - unheard'
    BY DEF Heard
  <2> QED
    BY <2>1, <2>2
<1>5. ASSUME NEW u \in Txns PROVE DayFits(job'[u], 0, account')
  <2>1. Fits(Seen(job'[u], account'), 0)
    BY <1>1, <1>2 DEF Fits, Seen
  <2>2. Fits(job'[u].view, 0)
    BY <1>2 DEF Fits
  <2>3. 0 <= job'[u].view.count + 1
    <3>1. job[u].view.count \in Nat
      <4>1. 0..Limit \subseteq Nat
        BY SenderAssumption
      <4> QED
        BY <4>1, JobsAreTyped DEF Account
    <3>2. \A n \in Nat : 0 <= n + 1
      OBVIOUS
    <3>3. job'[u].view.count = job[u].view.count
      BY <1>2
    <3> QED
      BY <3>1, <3>2, <3>3
  <2> QED
    BY <2>1, <2>2, <2>3 DEF DayFits
<1>6. Fits(account', 0)
  BY <1>1 DEF Fits
<1> QED
  BY <1>1, <1>2, <1>3, <1>4, <1>5, <1>6 DEF CountInv

LEMMA CountSteps == Typed /\ ConfigInv /\ CountInv /\ [SenderNext]_senderVars => CountInv'
<1> SUFFICES ASSUME Typed, ConfigInv, CountInv, [SenderNext]_senderVars PROVE CountInv'
  OBVIOUS
<1>1. CASE \E t \in Txns : Loads(t) \/ BeginBatch(t)
  BY <1>1, CountLoads
<1>2. CASE \E t \in Txns : Steps(t)
  BY <1>2, CountRequests, CountCallback, CountEnds, CountReads, CountAccepted, CountDone
     DEF Steps
<1>3. CASE \/ ResendVerification \/ TestHealth \/ WriteHealth \/ FindStale \/ MarkStale
           \/ ExpireVerification \/ CodeExpires \/ RevokeToken
  BY <1>3, CountLoops
<1>4. CASE NewDay
  BY <1>4, CountNewDay
<1>5. CASE UNCHANGED senderVars
  BY <1>5 DEF senderVars, CountInv, DayFits, Seen, Fits, Heard
<1> QED
  BY <1>1, <1>2, <1>3, <1>4, <1>5 DEF SenderNext

LEMMA LimitIsKept ==
    ASSUME Typed, CountInv
    PROVE  LimitKeptBySerialUse
<1>0. ASSUME sentToday # Raced, Heard <= Limit
      PROVE  sentToday <= Limit + unheard
  <2>1. sentToday \in Nat /\ unheard \in Nat /\ Limit \in Nat
    BY <1>0, TypedIs, SenderAssumption DEF Rest, SendsFit
  <2> QED
    BY <1>0, <2>1 DEF Heard
<1> SUFFICES ASSUME Heard # Raced PROVE Heard <= Limit
  BY <1>0, HeardIs DEF LimitKeptBySerialUse
<1>1. Heard \in Int
  BY HeardIs
<1>2. \A x \in Account : Fits(x, Heard) => Heard <= Limit
  <2>1. \A x \in Account : x.count \in 0..Limit
    BY DEF Account
  <2> QED
    BY <1>1, <2>1, SenderAssumption DEF Fits
<1>3. CASE \A t \in Txns : job[t].kind = "none"
  BY <1>2, <1>3, TypedIs DEF CountInv
<1>4. ASSUME NEW t \in Txns, job[t].kind # "none" PROVE Heard <= Limit
  <2>0. job[t].view \in Account /\ job[t].row \in Account /\ account \in Account
    BY JobsAreTyped, TypedIs
  <2>1. DayFits(job[t], Heard, account)
    BY <1>4 DEF CountInv
  <2>2. CASE job[t].phase = "accepted"
    <3>1. job[t].view.count < Limit /\ job[t].view.count \in 0..Limit
      BY <2>0, <2>2 DEF Typed, MailsFit, Account
    <3>2. Heard <= job[t].view.count + 1
      BY <2>1, <2>2 DEF DayFits
    <3> QED
      BY <1>1, <3>1, <3>2, SenderAssumption
  <2>3. CASE job[t].phase # "accepted"
    <3>1. Fits(Seen(job[t], account), Heard)
      BY <2>1, <2>3 DEF DayFits
    <3>2. Seen(job[t], account) \in Account
      BY <2>0 DEF Seen
    <3> QED
      BY <1>2, <3>1, <3>2
  <2> QED
    BY <2>2, <2>3
<1> QED
  BY <1>3, <1>4

\* Where batches and test mails follow each other, and none is lost after its mails have
\* left, a day's mails exceed sending_limit by no more than those whose answers were lost: the
\* count that each reads has been reset when the day began and misses none of the day's mails
\* that were answered (can_send, record_sent).
THEOREM SerialUseKeepsTheLimit == SenderSpec => []LimitKeptBySerialUse
<1>1. Typed /\ CountInv => LimitKeptBySerialUse
  BY LimitIsKept
<1> QED
  BY <1>1, ConfigInvHolds, CountStarts, CountSteps, PTL DEF SenderSpec

=============================================================================
