----------------------- MODULE CampaignDelivery_proofs -----------------------
(***************************************************************************)
(* Proofs about CampaignDelivery, for every number of recipients, workers  *)
(* and requests and every limit; the last part shows that it implements    *)
(* DeliveryPromise.                                                        *)
(***************************************************************************)
EXTENDS CampaignDelivery, FiniteSetTheorems, TLAPS

-----------------------------------------------------------------------------
(* The inductive invariant *)

\* A recipient row that is not finished has an attempt left, a finished one is
\* never due again, and a row is sent when its message is.
SoundRow(x) ==
    /\ x.status = "pending" => x.tries < MaxAttempts
    /\ x.status # "pending" => x.wait = "none"
    /\ x.msg = "sent" <=> x.status = "sent"

SoundRows ==
    /\ \A r \in Recipients : SoundRow(row[r])
    /\ \A w \in Workers, r \in Recipients : SoundRow(draft[w][r])

\* A transaction owns unfinished rows only; a batch works on rows it owns, and
\* owns none before it has claimed them.
Ownership ==
    /\ \A t \in Txns : \A r \in held[t] : row[r].status = "pending"
    /\ \A w \in Workers : pc[w] \notin {"batch", "account", "commit"} => held[w] = {}
    /\ \A a \in Requests : req[a] # "drain" => held[a] = {}
    /\ \A w \in Workers : todo[w] \subseteq held[w]
    /\ \A w \in Workers : \A r \in todo[w] : draft[w][r].status = "pending"

\* The mails an open batch knows of are those of rows it has finished.
Recorded ==
    \A w \in Workers : /\ accepted[w] \subseteq held[w] \ todo[w]
                       /\ \A r \in held[w] : draft[w][r].msg = "sent" <=> r \in accepted[w]

Known(r) == row[r].msg = "sent" \/ \E w \in Workers : r \in accepted[w]

\* Every accepted mail but the lost ones is known to the database or to the open
\* batch that sent it.
MailsAccounted ==
    \A r \in Recipients : inbox[r] = doubt[r] + (IF Known(r) THEN 1 ELSE 0)

\* A batch decides to complete the campaign when every row it can see is finished,
\* and does nothing else before it commits.
CompletionSound ==
    \A w \in Workers :
        cwrite[w] = "completed" => /\ pc[w] = "commit"
                                   /\ \A r \in Recipients : Terminal(View(w, r))

CancelledMeansTerminal ==
    cancelled => \A r \in Recipients : Terminal(row[r])

IInv ==
    /\ TypeOK
    /\ RowLocksExclusive
    /\ SoundRows
    /\ Ownership
    /\ Recorded
    /\ MailsAccounted
    /\ CompletionSound
    /\ CompletedMeansTerminal
    /\ CancelledMeansTerminal

-----------------------------------------------------------------------------
(* Facts about the helpers *)

LEMMA FreshRowSound == FreshRow \in Row /\ SoundRow(FreshRow)
BY DeliveryAssumption DEF FreshRow, Row, SoundRow

\* What a batch makes of an unfinished row is a sound row.
LEMMA SettledRows ==
    ASSUME NEW x \in Row, SoundRow(x), x.status = "pending"
    PROVE  /\ MarkSent(x) \in Row /\ SoundRow(MarkSent(x))
           /\ MarkUncertain(x) \in Row /\ SoundRow(MarkUncertain(x))
           /\ MarkSkipped(x) \in Row /\ SoundRow(MarkSkipped(x))
           /\ MarkUncertain(x).msg # "sent" /\ MarkSkipped(x).msg # "sent"
           /\ \A m \in {"pending", "sending", "failed"} :
                 /\ RecordSendFailure(x, m) \in Row /\ SoundRow(RecordSendFailure(x, m))
                 /\ RecordSendFailure(x, m).msg # "sent"
<1>1. x.tries \in 0..MaxAttempts /\ x.tries + 1 \in 0..MaxAttempts
  BY DeliveryAssumption DEF Row, SoundRow
<1>2. MarkSent(x) \in Row /\ SoundRow(MarkSent(x))
  BY <1>1 DEF Row, SoundRow, MarkSent
<1>3. MarkUncertain(x) \in Row /\ SoundRow(MarkUncertain(x)) /\ MarkUncertain(x).msg # "sent"
  BY <1>1 DEF Row, SoundRow, MarkUncertain
<1>4. MarkSkipped(x) \in Row /\ SoundRow(MarkSkipped(x)) /\ MarkSkipped(x).msg # "sent"
  BY <1>1 DEF Row, SoundRow, MarkSkipped
<1>5. ASSUME NEW m \in {"pending", "sending", "failed"}
      PROVE  /\ RecordSendFailure(x, m) \in Row /\ SoundRow(RecordSendFailure(x, m))
             /\ RecordSendFailure(x, m).msg # "sent"
  BY <1>1, DeliveryAssumption DEF Row, SoundRow, RecordSendFailure
<1> QED
  BY <1>2, <1>3, <1>4, <1>5

LEMMA WaitInRow == ASSUME NEW x \in Row PROVE [x EXCEPT !.wait = "now"] \in Row
BY DEF Row

\* Another wait of an unfinished row does not make it unsound.
LEMMA NewWait ==
    ASSUME NEW x \in Row, SoundRow(x), x.status = "pending",
           NEW d \in {"now", "tomorrow"}
    PROVE  /\ [x EXCEPT !.wait = d] \in Row
           /\ SoundRow([x EXCEPT !.wait = d])
           /\ [x EXCEPT !.wait = d].status = x.status
           /\ [x EXCEPT !.wait = d].msg = x.msg
BY DEF Row, SoundRow

LEMMA AllowanceNat ==
    ASSUME TypeOK
    PROVE  BatchLimit \in Nat /\ BatchLimit <= DailyRemaining
<1> DEFINE Sent == {r \in today : row[r].msg = "sent"}
<1>1. Cardinality(Sent) \in Nat
  <2>1. Sent \subseteq Recipients
    BY DEF TypeOK
  <2> QED
    BY <2>1, DeliveryAssumption, FS_Subset, FS_CardinalityType
<1>2. DailyLimit \in Nat /\ BatchSize \in Nat
  BY DeliveryAssumption
<1>3. DailyRemaining \in Nat
  <2> HIDE DEF Sent
  <2>1. DailyRemaining = IF Cardinality(Sent) < DailyLimit
                         THEN DailyLimit - Cardinality(Sent) ELSE 0
    BY DEF DailyRemaining, Sent
  <2> QED
    BY <1>1, <1>2, <2>1
<1>4. sender.left \in Nat
  BY DeliveryAssumption DEF TypeOK, SenderState
<1> QED
  BY <1>2, <1>3, <1>4 DEF BatchLimit, Min2

\* The row a statement of a batch reads is a sound row.
LEMMA ViewSound ==
    ASSUME IInv, NEW w \in Workers, NEW r \in Recipients
    PROVE  View(w, r) \in Row /\ SoundRow(View(w, r))
BY DEF IInv, TypeOK, SoundRows, View

\* A finished row is in nobody's hands.
LEMMA TerminalNotHeld ==
    ASSUME IInv, NEW r \in Recipients, Terminal(row[r]), NEW t \in Txns
    PROVE  r \notin held[t]
BY DEF IInv, Ownership, Terminal

\* Every row of a cancelled campaign is finished, so no batch works on one.
LEMMA CancelledNothingTodo ==
    ASSUME IInv, cancelled, NEW w \in Workers
    PROVE  todo[w] = {}
BY TerminalNotHeld DEF IInv, Ownership, CancelledMeansTerminal, TypeOK, Txns

\* The mail of a row somebody owns is known to its owner alone.
LEMMA KnownToOwner ==
    ASSUME IInv, NEW t \in Txns, NEW r \in held[t]
    PROVE  Known(r) <=> t \in Workers /\ r \in accepted[t]
<1>1. row[r].msg # "sent"
  BY DEF IInv, TypeOK, Ownership, SoundRows, SoundRow
<1>2. ASSUME NEW u \in Workers, r \in accepted[u] PROVE u = t
  <2>1. r \in held[u] /\ u \in Txns
    BY <1>2 DEF IInv, Recorded, Txns
  <2> QED
    BY <2>1 DEF IInv, RowLocksExclusive
<1> QED
  BY <1>1, <1>2 DEF Known

-----------------------------------------------------------------------------
(* The initial states *)

LEMMA InitInv == ASSUME Init PROVE IInv
<1>1. TypeOK
  <2>1. MaxJobs \in Nat /\ MaxRollbacks \in Nat
    BY DeliveryAssumption
  <2>2. /\ row \in [Recipients -> Row]
        /\ draft \in [Workers -> [Recipients -> Row]]
    BY FreshRowSound DEF Init
  <2>3. cancelled \in BOOLEAN
    BY DEF Init
  <2> QED
    BY <2>1, <2>2, <2>3 DEF Init, TypeOK
<1>2. RowLocksExclusive /\ Ownership /\ Recorded /\ CompletionSound
  BY DEF Init, RowLocksExclusive, Ownership, Recorded, CompletionSound, Txns
<1>3. SoundRows
  BY FreshRowSound DEF Init, SoundRows
<1>4. MailsAccounted
  BY DEF Init, MailsAccounted, Known, FreshRow
<1>5. CompletedMeansTerminal /\ CancelledMeansTerminal
  BY DEF Init, CompletedMeansTerminal, CancelledMeansTerminal
<1> QED
  BY <1>1, <1>2, <1>3, <1>4, <1>5 DEF IInv

-----------------------------------------------------------------------------
(* Steps that leave rows, drafts, locks and mails alone *)

\* What the invariant says depends on no other variable than these.
LEMMA QuietStep ==
    ASSUME IInv, TypeOK',
           UNCHANGED <<row, todo, draft, accepted, inbox, doubt, cancelled, held>>,
           \A w \in Workers : pc[w] \in {"batch", "account", "commit"}
                                => pc'[w] \in {"batch", "account", "commit"},
           \A w \in Workers : pc[w] = "commit" => pc'[w] = "commit",
           \A w \in Workers : cwrite'[w] = cwrite[w] \/ cwrite'[w] # "completed",
           \A a \in Requests : req[a] = "drain" => req'[a] = "drain",
           cstatus' = cstatus \/ cstatus' # "completed"
    PROVE  IInv'
<1> USE DEF IInv
<1>1. RowLocksExclusive' /\ SoundRows' /\ Recorded' /\ CancelledMeansTerminal'
  BY DEF RowLocksExclusive, SoundRows, Recorded, CancelledMeansTerminal
<1>2. Ownership'
  BY DEF Ownership
<1>3. MailsAccounted'
  BY DEF MailsAccounted, Known
<1>4. CompletionSound'
  BY DEF CompletionSound, View
<1>5. CompletedMeansTerminal'
  BY DEF CompletedMeansTerminal
<1> QED
  BY <1>1, <1>2, <1>3, <1>4, <1>5

LEMMA StutterKeeps == ASSUME IInv, UNCHANGED vars PROVE IInv'
<1>1. TypeOK'
  BY DEF IInv, TypeOK, vars, campaignVars, workerVars, lockVars, worldVars
<1> QED
  BY <1>1, QuietStep DEF vars, campaignVars, workerVars, lockVars, worldVars

LEMMA EnqueueKeeps == ASSUME IInv, EnqueueDueCampaigns PROVE IInv'
<1> USE DEF campaignVars, workerVars, lockVars, worldVars
<1>1. TypeOK'
  BY DeliveryAssumption DEF IInv, TypeOK, EnqueueDueCampaigns
<1> QED
  BY <1>1, QuietStep DEF IInv, TypeOK, EnqueueDueCampaigns

LEMMA BeginKeeps == ASSUME IInv, NEW w \in Workers, Begin(w) PROVE IInv'
<1> USE DEF campaignVars, workerVars, lockVars, worldVars
<1>1. TypeOK'
  <2>1. jobs' \in 0..MaxJobs
    BY DeliveryAssumption DEF IInv, TypeOK, Begin
  <2>2. pc' \in [Workers -> {"idle", "launch", "limits", "defer", "claim", "batch",
                             "account", "commit"}]
    BY DEF IInv, TypeOK, Begin
  <2> QED
    BY <2>1, <2>2 DEF IInv, TypeOK, Begin
<1> QED
  BY <1>1, QuietStep DEF IInv, TypeOK, Begin

LEMMA LaunchKeeps == ASSUME IInv, NEW w \in Workers, LaunchCampaign(w) PROVE IInv'
<1> USE DEF campaignVars, workerVars, lockVars, worldVars
<1>1. TypeOK'
  BY DEF IInv, TypeOK, LaunchCampaign, Txns
<1> QED
  BY <1>1, QuietStep DEF IInv, TypeOK, LaunchCampaign, Txns

LEMMA CheckLimitsKeeps == ASSUME IInv, NEW w \in Workers, CheckLimits(w) PROVE IInv'
<1> USE DEF campaignVars, workerVars, lockVars, worldVars
<1>1. TypeOK'
  BY AllowanceNat DEF IInv, TypeOK, CheckLimits, LimitsAllow
<1> QED
  BY <1>1, QuietStep DEF IInv, TypeOK, CheckLimits, LimitsAllow

LEMMA RecordSentKeeps == ASSUME IInv, NEW w \in Workers, RecordSent(w) PROVE IInv'
<1> USE DEF campaignVars, workerVars, lockVars, worldVars
<1>1. TypeOK'
  BY DEF IInv, TypeOK, RecordSent
<1> QED
  BY <1>1, QuietStep DEF IInv, TypeOK, RecordSent

LEMMA SubmitKeeps == ASSUME IInv, NEW a \in Requests, NEW op \in ApiOps, Submit(a, op) PROVE IInv'
<1> USE DEF campaignVars, workerVars, lockVars, worldVars
<1>1. TypeOK'
  BY DeliveryAssumption DEF IInv, TypeOK, Submit
<1> QED
  BY <1>1, QuietStep DEF IInv, TypeOK, Submit

LEMMA PauseKeeps == ASSUME IInv, NEW a \in Requests, PauseCampaign(a) PROVE IInv'
<1> USE DEF campaignVars, workerVars, lockVars, worldVars
<1>1. TypeOK'
  BY DEF IInv, TypeOK, PauseCampaign, WriteStatus
<1> QED
  BY <1>1, QuietStep DEF IInv, TypeOK, PauseCampaign, WriteStatus

LEMMA ResumeKeeps == ASSUME IInv, NEW a \in Requests, ResumeCampaign(a) PROVE IInv'
<1> USE DEF campaignVars, workerVars, lockVars, worldVars
<1>1. TypeOK'
  BY DEF IInv, TypeOK, ResumeCampaign, WriteStatus
<1> QED
  BY <1>1, QuietStep DEF IInv, TypeOK, ResumeCampaign, WriteStatus

LEMMA CancelKeeps == ASSUME IInv, NEW a \in Requests, CancelCampaign(a) PROVE IInv'
<1> USE DEF campaignVars, workerVars, lockVars, worldVars
<1>1. TypeOK'
  BY DEF IInv, TypeOK, CancelCampaign, Txns
<1> QED
  BY <1>1, QuietStep DEF IInv, TypeOK, CancelCampaign, Txns

LEMMA SuppressKeeps == ASSUME IInv, NEW r \in Recipients, Suppress(r) PROVE IInv'
<1> USE DEF campaignVars, workerVars, lockVars, worldVars
<1>1. TypeOK'
  BY DEF IInv, TypeOK, Suppress
<1> QED
  BY <1>1, QuietStep DEF IInv, TypeOK, Suppress

-----------------------------------------------------------------------------
(* Steps of a batch that has claimed its rows *)

LEMMA ClaimKeeps == ASSUME IInv, NEW w \in Workers, Claim(w) PROVE IInv'
<1> USE DEF IInv, campaignVars, workerVars, lockVars, worldVars
<1>1. PICK S \in ListDueRecipients(w) :
           /\ held' = [held EXCEPT ![w] = S]
           /\ todo' = [todo EXCEPT ![w] = S]
           /\ draft' = [draft EXCEPT ![w] =
                          [r \in Recipients |-> IF r \in S THEN row[r] ELSE FreshRow]]
  BY DEF Claim
<1>2. S \subseteq {r \in Recipients : Due(r) /\ ~LockedByOthers(w, r)}
  BY <1>1 DEF ListDueRecipients
<1>3. held[w] = {} /\ accepted[w] = {} /\ w \in Txns
  BY DEF Claim, Ownership, Recorded, Txns
<1>4. TypeOK'
  BY <1>1, <1>2, FreshRowSound DEF TypeOK, Claim, Txns
<1>5. RowLocksExclusive'
  BY <1>1, <1>2, <1>3 DEF RowLocksExclusive, TypeOK, LockedByOthers
<1>6. SoundRows'
  BY <1>1, <1>2, FreshRowSound DEF SoundRows, TypeOK, Claim
<1>7. Ownership'
  BY <1>1, <1>2, DeliveryAssumption DEF Ownership, TypeOK, Claim, Txns, Due
<1>8. Recorded'
  <2>1. \A r \in S : draft'[w][r].msg # "sent"
    BY <1>1, <1>2 DEF TypeOK, SoundRows, SoundRow, Due
  <2> QED
    BY <1>1, <1>3, <2>1 DEF Recorded, TypeOK, Claim, Txns
<1>9. MailsAccounted'
  BY DEF MailsAccounted, Known, Claim
<1>10. CompletionSound'
  BY <1>1 DEF CompletionSound, View, TypeOK, Claim, Txns
<1>11. CompletedMeansTerminal' /\ CancelledMeansTerminal'
  BY DEF CompletedMeansTerminal, CancelledMeansTerminal, Claim
<1> QED
  BY <1>4, <1>5, <1>6, <1>7, <1>8, <1>9, <1>10, <1>11

\* A batch finishes with one of its rows and the provider took no mail, or took
\* one whose answer was lost.
LEMMA SettleKeeps ==
    ASSUME IInv, NEW w \in Workers, NEW r \in Recipients, NEW x \in Row, SoundRow(x),
           x.msg # "sent", pc[w] = "batch", r \in todo[w], Settle(w, r, x),
           NEW reached \in {0, 1},
           inbox' = [inbox EXCEPT ![r] = @ + reached],
           doubt' = [doubt EXCEPT ![r] = @ + reached],
           UNCHANGED <<campaignVars, suppressed, jobs, rollbacks, pc, allowance,
                       accepted, cwrite, req, lockVars, sender>>
    PROVE  IInv'
<1> USE DEF IInv, campaignVars, lockVars, Settle
<1>1. TypeOK'
  BY DEF TypeOK
<1>2. RowLocksExclusive' /\ CompletedMeansTerminal' /\ CancelledMeansTerminal'
  BY DEF RowLocksExclusive, CompletedMeansTerminal, CancelledMeansTerminal
<1>3. SoundRows'
  BY DEF SoundRows, TypeOK
<1>4. Ownership'
  BY DEF Ownership, TypeOK
<1>5. Recorded'
  BY DEF Recorded, TypeOK
<1>6. MailsAccounted'
  BY DEF MailsAccounted, Known, TypeOK
<1>7. CompletionSound'
  BY DEF CompletionSound, View, TypeOK
<1> QED
  BY <1>1, <1>2, <1>3, <1>4, <1>5, <1>6, <1>7

LEMMA SettleWithoutCallKeeps ==
    ASSUME IInv, NEW w \in Workers, NEW r \in Recipients, SettleWithoutCall(w, r)
    PROVE  IInv'
<1> DEFINE x == draft[w][r]
<1>1. x \in Row /\ SoundRow(x) /\ x.status = "pending"
  BY DEF IInv, TypeOK, SoundRows, Ownership, SettleWithoutCall
<1>2. x.msg # "sent"
  BY <1>1 DEF SoundRow
<1>3. PICK y \in {MarkSkipped(x), MarkUncertain(x)} : Settle(w, r, y)
  BY <1>2 DEF SettleWithoutCall
<1>4. y \in Row /\ SoundRow(y) /\ y.msg # "sent"
  BY <1>1, SettledRows
<1>5. /\ inbox' = [inbox EXCEPT ![r] = @ + 0]
      /\ doubt' = [doubt EXCEPT ![r] = @ + 0]
  BY DEF IInv, TypeOK, SettleWithoutCall, worldVars
<1> QED
  BY <1>3, <1>4, <1>5, SettleKeeps DEF SettleWithoutCall, worldVars

LEMMA CallFailedKeeps ==
    ASSUME IInv, NEW w \in Workers, NEW r \in Recipients, CallFailed(w, r)
    PROVE  IInv'
<1> DEFINE x == draft[w][r]
           Failed == {MarkUncertain(x), RecordSendFailure(x, "sending"),
                      RecordSendFailure(x, x.msg), RecordSendFailure(x, "failed")}
<1>1. x \in Row /\ SoundRow(x) /\ x.status = "pending" /\ x.msg \in {"pending", "failed"}
  BY DEF IInv, TypeOK, SoundRows, Ownership, CallFailed, NeedsCall
<1>2. PICK o \in Outcomes \ {"accepted"} :
         /\ Settle(w, r,
              CASE o = "uncertain"  -> MarkUncertain(x)
                [] o = "unwired"    -> RecordSendFailure(x, "sending")
                [] o = "unrendered" -> RecordSendFailure(x, x.msg)
                [] OTHER            -> RecordSendFailure(x, "failed"))
         /\ \E reached \in {0, 1} :
              /\ inbox' = [inbox EXCEPT ![r] = @ + reached]
              /\ doubt' = [doubt EXCEPT ![r] = @ + reached]
  BY DEF CallFailed
<1>3. PICK y \in Failed : Settle(w, r, y)
  BY <1>2
<1>4. y \in Row /\ SoundRow(y) /\ y.msg # "sent"
  BY <1>1, SettledRows
<1> QED
  BY <1>2, <1>3, <1>4, SettleKeeps DEF CallFailed, NeedsCall

LEMMA CallAcceptedKeeps ==
    ASSUME IInv, NEW w \in Workers, NEW r \in Recipients, CallAccepted(w, r)
    PROVE  IInv'
<1> DEFINE x == draft[w][r]
<1> USE DEF CallAccepted, Settle, worldVars
<1>1. /\ x \in Row /\ SoundRow(x) /\ x.status = "pending"
      /\ r \in todo[w] /\ r \in held[w] /\ w \in Txns
  BY DEF IInv, TypeOK, SoundRows, Ownership, NeedsCall, Txns
<1>2. MarkSent(x) \in Row /\ SoundRow(MarkSent(x)) /\ MarkSent(x).msg = "sent"
  BY <1>1, SettledRows DEF MarkSent
<1>3. ~Known(r)
  <2>1. r \notin accepted[w]
    BY <1>1 DEF IInv, Recorded
  <2> QED
    BY <1>1, <2>1, KnownToOwner
<1>4. TypeOK'
  BY <1>2 DEF IInv, TypeOK, NeedsCall, lockVars
<1>5. /\ RowLocksExclusive' /\ CompletedMeansTerminal' /\ CancelledMeansTerminal'
  BY DEF IInv, RowLocksExclusive, CompletedMeansTerminal, CancelledMeansTerminal, lockVars
<1>6. SoundRows'
  BY <1>2 DEF IInv, SoundRows, TypeOK
<1>7. Ownership'
  BY DEF IInv, Ownership, TypeOK, NeedsCall, lockVars
<1>8. Recorded'
  BY <1>1, <1>2 DEF IInv, Recorded, TypeOK, lockVars
<1>9. MailsAccounted'
  <2>1. Known(r)'
    BY DEF IInv, TypeOK, Known
  <2>2. ASSUME NEW q \in Recipients \ {r} PROVE Known(q)' <=> Known(q)
    BY DEF IInv, TypeOK, Known
  <2>3. inbox'[r] = inbox[r] + 1 /\ \A q \in Recipients \ {r} : inbox'[q] = inbox[q]
    BY DEF IInv, TypeOK
  <2>4. inbox[r] = doubt[r] /\ inbox[r] \in Nat /\ doubt[r] \in Nat
    BY <1>3 DEF IInv, TypeOK, MailsAccounted
  <2> QED
    BY <2>1, <2>2, <2>3, <2>4 DEF IInv, MailsAccounted
<1>10. CompletionSound'
  BY DEF IInv, CompletionSound, View, TypeOK, NeedsCall, lockVars
<1> QED
  BY <1>4, <1>5, <1>6, <1>7, <1>8, <1>9, <1>10 DEF IInv

LEMMA RefreshCountersKeeps ==
    ASSUME IInv, NEW w \in Workers, RefreshCounters(w)
    PROVE  IInv'
<1> USE DEF IInv, RefreshCounters, campaignVars, lockVars, worldVars
<1>1. TypeOK'
  BY DEF TypeOK
<1>2. RowLocksExclusive' /\ CompletedMeansTerminal' /\ CancelledMeansTerminal'
  BY DEF RowLocksExclusive, CompletedMeansTerminal, CancelledMeansTerminal
<1>3. SoundRows' /\ Recorded' /\ MailsAccounted'
  BY DEF SoundRows, Recorded, MailsAccounted, Known
<1>4. Ownership'
  BY DEF Ownership, TypeOK
<1>5. CompletionSound'
  BY DEF CompletionSound, View, TypeOK
<1> QED
  BY <1>1, <1>2, <1>3, <1>4, <1>5

-----------------------------------------------------------------------------
(* Ends of transactions *)

\* What the end of a batch leaves behind, whatever happens to the rows.
LEMMA EndTxnFrees ==
    ASSUME IInv, NEW w \in Workers, EndTxn(w), UNCHANGED req,
           \A t \in Txns \ {w} : \A r \in held[t] : row'[r].status = "pending"
    PROVE  RowLocksExclusive' /\ Ownership' /\ Recorded'
<1> USE DEF IInv, EndTxn
<1>1. held'[w] = {} /\ \A t \in Txns \ {w} : held'[t] = held[t]
  BY DEF TypeOK, Txns
<1>2. RowLocksExclusive'
  BY <1>1 DEF RowLocksExclusive
<1>3. Ownership'
  BY <1>1, DeliveryAssumption DEF Ownership, TypeOK, Txns
<1>4. Recorded'
  BY <1>1 DEF Recorded, TypeOK, Txns
<1> QED
  BY <1>2, <1>3, <1>4

LEMMA EndTxnTypes ==
    ASSUME IInv, NEW w \in Workers, EndTxn(w), row' \in [Recipients -> Row],
           cstatus' \in {cstatus, "running", "completed"}, today' \subseteq Recipients,
           doubt' \in [Recipients -> Nat], jobs' \in 0..MaxJobs,
           rollbacks' \in 0..MaxRollbacks,
           UNCHANGED <<cancelled, suppressed, req, inbox, sender>>
    PROVE  TypeOK'
<1>1. draft' \in [Workers -> [Recipients -> Row]]
  BY FreshRowSound DEF IInv, TypeOK, EndTxn
<1>2. clock' \in Txns \cup {Nobody} /\ acct' \in Workers \cup {Nobody}
  BY DEF IInv, TypeOK, EndTxn
<1> QED
  BY <1>1, <1>2 DEF IInv, TypeOK, EndTxn

\* Finished rows that stay as they are keep every completion and cancellation.
LEMMA FinalRowsKeep ==
    ASSUME IInv, TypeOK', \A r \in Recipients : Terminal(row[r]) => row'[r] = row[r],
           \A w \in Workers : \/ cwrite'[w] # "completed"
                              \/ /\ cwrite'[w] = cwrite[w]
                                 /\ pc'[w] = pc[w]
                                 /\ held'[w] = held[w]
                                 /\ draft'[w] = draft[w]
    PROVE  /\ CompletionSound'
           /\ cancelled' = cancelled => CancelledMeansTerminal'
           /\ cstatus' = cstatus => CompletedMeansTerminal'
<1>1. CompletionSound'
  BY DEF IInv, CompletionSound, View, Terminal
<1>2. cancelled' = cancelled => CancelledMeansTerminal'
  BY DEF IInv, CancelledMeansTerminal, Terminal
<1>3. cstatus' = cstatus => CompletedMeansTerminal'
  BY DEF IInv, CompletedMeansTerminal, Terminal
<1> QED
  BY <1>1, <1>2, <1>3

LEMMA CommitKeeps ==
    ASSUME IInv, NEW w \in Workers, Commit(w)
    PROVE  IInv'
<1>1. /\ EndTxn(w)
      /\ row' = [r \in Recipients |-> View(w, r)]
      /\ UNCHANGED <<today, cancelled, suppressed, jobs, rollbacks, req, inbox, doubt, sender>>
  BY DEF Commit, worldVars
<1>2. \A r \in Recipients : Terminal(row[r]) => row'[r] = row[r]
  BY <1>1, TerminalNotHeld DEF View, Txns
<1>3. \A t \in Txns \ {w} : \A r \in held[t] : row'[r] = row[r]
  BY <1>1 DEF IInv, RowLocksExclusive, TypeOK, View, Txns
<1>4. TypeOK'
  <2>1. row' \in [Recipients -> Row]
    BY <1>1, ViewSound
  <2>2. cstatus' \in {cstatus, "running", "completed"}
    BY DEF Commit, IInv, TypeOK
  <2> QED
    BY <1>1, <2>1, <2>2, EndTxnTypes DEF IInv, TypeOK
<1>5. RowLocksExclusive' /\ Ownership' /\ Recorded'
  <2>1. \A t \in Txns \ {w} : \A r \in held[t] : row'[r].status = "pending"
    BY <1>3 DEF IInv, Ownership
  <2> QED
    BY <1>1, <2>1, EndTxnFrees
<1>6. SoundRows'
  BY <1>1, ViewSound, FreshRowSound DEF IInv, SoundRows, EndTxn, TypeOK
<1>7. MailsAccounted'
  <2>1. ASSUME NEW r \in held[w] PROVE Known(r)' <=> Known(r)
    <3>1. r \in Recipients /\ w \in Txns /\ row'[r] = draft[w][r]
      BY <1>1 DEF IInv, TypeOK, View, Txns
    <3>2. Known(r) <=> r \in accepted[w]
      BY <3>1, KnownToOwner
    <3>3. row'[r].msg = "sent" <=> r \in accepted[w]
      BY <3>1 DEF IInv, Recorded
    <3>4. \A u \in Workers \ {w} : r \notin accepted[u]
      BY <3>1 DEF IInv, RowLocksExclusive, Recorded, Txns
    <3>5. \A u \in Workers : r \notin accepted'[u]
      BY <1>1, <3>4 DEF IInv, TypeOK, EndTxn
    <3> QED
      BY <3>2, <3>3, <3>5 DEF Known
  <2>2. ASSUME NEW r \in Recipients \ held[w] PROVE Known(r)' <=> Known(r)
    <3>1. row'[r] = row[r] /\ r \notin accepted[w]
      BY <1>1 DEF IInv, Recorded, View
    <3> QED
      BY <1>1, <3>1 DEF IInv, TypeOK, EndTxn, Known
  <2> QED
    BY <1>1, <2>1, <2>2 DEF IInv, TypeOK, MailsAccounted
<1>8. CompletionSound' /\ CancelledMeansTerminal'
      /\ (cstatus' = cstatus => CompletedMeansTerminal')
  BY <1>1, <1>2, <1>4, FinalRowsKeep DEF EndTxn, IInv, TypeOK
<1>9. cstatus' # cstatus => CompletedMeansTerminal'
  BY <1>1 DEF Commit, IInv, TypeOK, CompletionSound, CompletedMeansTerminal
<1> QED
  BY <1>4, <1>5, <1>6, <1>7, <1>8, <1>9 DEF IInv

LEMMA DeferKeeps ==
    ASSUME IInv, NEW w \in Workers, DeferDueRecipients(w)
    PROVE  IInv'
<1>1. /\ EndTxn(w)
      /\ \A r \in Recipients : row'[r] = IF Due(r) THEN [row[r] EXCEPT !.wait = "tomorrow"]
                                                   ELSE row[r]
      /\ UNCHANGED <<today, cancelled, suppressed, jobs, rollbacks, req, inbox, doubt, sender>>
  BY DEF DeferDueRecipients, worldVars
<1>2. \A r \in Recipients : Terminal(row[r]) => row'[r] = row[r]
  BY <1>1 DEF Due, Terminal
<1>3. ASSUME NEW r \in Recipients
      PROVE  /\ row'[r] \in Row /\ SoundRow(row'[r])
             /\ row'[r].status = row[r].status /\ row'[r].msg = row[r].msg
  <2>1. row[r] \in Row /\ SoundRow(row[r])
    BY DEF IInv, TypeOK, SoundRows
  <2>2. CASE Due(r)
    BY <1>1, <2>1, <2>2, NewWait DEF Due
  <2>3. CASE ~Due(r)
    BY <1>1, <2>1, <2>3
  <2> QED
    BY <2>2, <2>3
<1>4. \A r \in Recipients : row'[r].status = row[r].status /\ row'[r].msg = row[r].msg
  BY <1>3
<1>5. TypeOK'
  <2>1. row' \in [Recipients -> Row]
    BY <1>3 DEF DeferDueRecipients
  <2>2. cstatus' \in {cstatus, "running", "completed"}
    BY DEF DeferDueRecipients, IInv, TypeOK
  <2> QED
    BY <1>1, <2>1, <2>2, EndTxnTypes DEF IInv, TypeOK
<1>6. RowLocksExclusive' /\ Ownership' /\ Recorded'
  BY <1>1, <1>4, EndTxnFrees DEF IInv, Ownership, TypeOK
<1>7. SoundRows'
  BY <1>1, <1>3, FreshRowSound DEF IInv, SoundRows, EndTxn, TypeOK
<1>8. MailsAccounted'
  <2>1. accepted[w] = {}
    BY DEF IInv, Ownership, Recorded, DeferDueRecipients, TypeOK
  <2>2. \A r \in Recipients : Known(r)' <=> Known(r)
    BY <1>1, <1>4, <2>1 DEF IInv, TypeOK, EndTxn, Known
  <2> QED
    BY <1>1, <2>2 DEF IInv, MailsAccounted
<1>9. CompletionSound' /\ CancelledMeansTerminal'
      /\ (cstatus' = cstatus => CompletedMeansTerminal')
  <2>1. \A v \in Workers : v = w \/ v # w
    OBVIOUS
  <2>2. cwrite'[w] # "completed"
    BY <1>1 DEF EndTxn, IInv, TypeOK
  <2>3. ASSUME NEW v \in Workers, v # w
        PROVE  cwrite'[v] = cwrite[v] /\ pc'[v] = pc[v] /\ held'[v] = held[v]
               /\ draft'[v] = draft[v]
    BY <1>1, <2>3 DEF EndTxn, IInv, TypeOK, Txns
  <2>4. \A v \in Workers : \/ cwrite'[v] # "completed"
                            \/ /\ cwrite'[v] = cwrite[v]
                               /\ pc'[v] = pc[v]
                               /\ held'[v] = held[v]
                               /\ draft'[v] = draft[v]
    BY <2>1, <2>2, <2>3
  <2> QED
    BY <1>1, <1>2, <1>5, <2>4, FinalRowsKeep
<1>10. cstatus' # cstatus => cstatus' # "completed"
  BY DEF DeferDueRecipients, IInv, TypeOK, CompletionSound
<1> QED
  BY <1>5, <1>6, <1>7, <1>8, <1>9, <1>10 DEF IInv, CompletedMeansTerminal

LEMMA RollbackKeeps ==
    ASSUME IInv, NEW w \in Workers, Rollback(w)
    PROVE  IInv'
<1>1. /\ EndTxn(w)
      /\ UNCHANGED <<cstatus, row, cancelled, suppressed, req, inbox, sender>>
      /\ doubt' = [r \in Recipients |-> IF r \in accepted[w] THEN doubt[r] + 1
                                        ELSE doubt[r]]
  BY DEF Rollback
<1>2. TypeOK'
  <2>1. rollbacks' \in 0..MaxRollbacks /\ jobs' \in 0..MaxJobs
    BY DeliveryAssumption DEF IInv, TypeOK, Rollback, Min2
  <2>2. doubt' \in [Recipients -> Nat] /\ today' \subseteq Recipients
    BY <1>1 DEF IInv, TypeOK, Rollback
  <2> QED
    BY <1>1, <2>1, <2>2, EndTxnTypes DEF IInv, TypeOK
<1>3. RowLocksExclusive' /\ Ownership' /\ Recorded'
  <2>1. \A t \in Txns \ {w} : \A r \in held[t] : row'[r].status = "pending"
    BY <1>1 DEF IInv, Ownership
  <2> QED
    BY <1>1, <2>1, EndTxnFrees
<1>4. SoundRows'
  BY <1>1, FreshRowSound DEF IInv, SoundRows, EndTxn, TypeOK
<1>5. MailsAccounted'
  <2>1. ASSUME NEW r \in Recipients \ accepted[w] PROVE Known(r)' <=> Known(r)
    BY <1>1 DEF IInv, TypeOK, EndTxn, Known
  <2>2. ASSUME NEW r \in accepted[w] PROVE r \in Recipients /\ Known(r) /\ ~Known(r)'
    <3>1. r \in Recipients /\ r \in held[w] /\ w \in Txns
      BY DEF IInv, TypeOK, Recorded, Txns
    <3>2. row'[r].msg # "sent"
      BY <1>1, <3>1 DEF IInv, TypeOK, Ownership, SoundRows, SoundRow
    <3>3. \A u \in Workers \ {w} : r \notin accepted[u]
      BY <3>1 DEF IInv, RowLocksExclusive, Recorded, Txns
    <3> QED
      BY <1>1, <3>1, <3>2, <3>3 DEF IInv, TypeOK, EndTxn, Known
  <2>3. \A r \in Recipients : inbox[r] \in Nat /\ doubt[r] \in Nat
    BY DEF IInv, TypeOK
  <2> QED
    BY <1>1, <2>1, <2>2, <2>3 DEF IInv, MailsAccounted
<1>6. CompletionSound' /\ CancelledMeansTerminal' /\ CompletedMeansTerminal'
  BY <1>1, <1>2, FinalRowsKeep DEF EndTxn, IInv, TypeOK
<1> QED
  BY <1>2, <1>3, <1>4, <1>5, <1>6 DEF IInv

\* A refused batch has claimed nothing and called nobody.
LEMMA RefuseKeeps ==
    ASSUME IInv, NEW w \in Workers, RefuseBatch(w)
    PROVE  IInv'
<1>1. /\ EndTxn(w) /\ pc[w] \in {"launch", "limits"}
      /\ UNCHANGED <<cstatus, row, today, cancelled, suppressed, jobs, rollbacks, req>>
      /\ UNCHANGED <<inbox, doubt, sender>>
  BY DEF RefuseBatch, campaignVars, worldVars
<1>2. TypeOK'
  BY <1>1, EndTxnTypes DEF IInv, TypeOK
<1>3. RowLocksExclusive' /\ Ownership' /\ Recorded'
  <2>1. \A t \in Txns \ {w} : \A r \in held[t] : row'[r].status = "pending"
    BY <1>1 DEF IInv, Ownership
  <2> QED
    BY <1>1, <2>1, EndTxnFrees
<1>4. SoundRows'
  BY <1>1, FreshRowSound DEF IInv, SoundRows, EndTxn, TypeOK
<1>5. MailsAccounted'
  <2>1. accepted[w] = {} /\ accepted' = [accepted EXCEPT ![w] = {}]
    BY <1>1 DEF IInv, TypeOK, Recorded, Ownership, EndTxn, Txns
  <2>2. \A r \in Recipients : Known(r)' <=> Known(r)
    BY <1>1, <2>1 DEF IInv, TypeOK, Known
  <2> QED
    BY <1>1, <2>2 DEF IInv, MailsAccounted
<1>6. CompletionSound' /\ CancelledMeansTerminal' /\ CompletedMeansTerminal'
  BY <1>1, <1>2, FinalRowsKeep DEF EndTxn, IInv, TypeOK
<1> QED
  BY <1>2, <1>3, <1>4, <1>5, <1>6 DEF IInv

LEMMA LockForCancelKeeps ==
    ASSUME IInv, NEW a \in Requests, NEW r \in Recipients, LockForCancel(a, r)
    PROVE  IInv'
<1> USE DEF IInv, LockForCancel, campaignVars, workerVars, worldVars
<1>1. a \in Txns /\ a \notin Workers
  BY DeliveryAssumption DEF Txns
<1>2. TypeOK'
  BY <1>1 DEF TypeOK
<1>3. RowLocksExclusive'
  BY <1>1 DEF RowLocksExclusive, LockedByOthers, TypeOK
<1>4. SoundRows' /\ MailsAccounted' /\ CompletedMeansTerminal' /\ CancelledMeansTerminal'
  BY DEF SoundRows, MailsAccounted, Known, CompletedMeansTerminal, CancelledMeansTerminal
<1>5. Ownership'
  BY <1>1 DEF Ownership, TypeOK, Terminal
<1>6. Recorded' /\ CompletionSound'
  BY <1>1 DEF Recorded, CompletionSound, View, TypeOK, Txns
<1> QED
  BY <1>2, <1>3, <1>4, <1>5, <1>6

\* A request that ends frees its rows and nobody else's.
LEMMA RequestFrees ==
    ASSUME IInv, NEW a \in Requests,
           req' = [req EXCEPT ![a] = "idle"], held' = [held EXCEPT ![a] = {}],
           UNCHANGED workerVars,
           \A t \in Txns \ {a} : \A r \in held[t] : row'[r].status = "pending"
    PROVE  /\ RowLocksExclusive' /\ Ownership' /\ Recorded'
           /\ \A w \in Workers : held'[w] = held[w]
<1> USE DEF IInv, workerVars
<1>1. /\ held'[a] = {} /\ a \notin Workers
      /\ \A t \in Txns \ {a} : held'[t] = held[t]
  BY DeliveryAssumption DEF TypeOK, Txns
<1>2. RowLocksExclusive'
  BY <1>1 DEF RowLocksExclusive
<1>3. Ownership'
  BY <1>1 DEF Ownership, TypeOK, Txns
<1>4. Recorded' /\ \A w \in Workers : held'[w] = held[w]
  BY <1>1 DEF Recorded, TypeOK, Txns
<1> QED
  BY <1>2, <1>3, <1>4

LEMMA AbandonKeeps ==
    ASSUME IInv, NEW a \in Requests, AbandonRequest(a)
    PROVE  IInv'
<1> USE DEF AbandonRequest, campaignVars, workerVars, worldVars
<1>1. RowLocksExclusive' /\ Ownership' /\ Recorded' /\ \A w \in Workers : held'[w] = held[w]
  <2>1. \A t \in Txns \ {a} : \A r \in held[t] : row'[r].status = "pending"
    BY DEF IInv, Ownership
  <2> QED
    BY <2>1, RequestFrees
<1>2. TypeOK'
  <2>1. rollbacks' \in 0..MaxRollbacks
    BY DeliveryAssumption DEF IInv, TypeOK, Min2
  <2> QED
    BY <2>1 DEF IInv, TypeOK
<1>3. SoundRows' /\ MailsAccounted'
  BY DEF IInv, SoundRows, MailsAccounted, Known
<1>4. CompletionSound' /\ CancelledMeansTerminal' /\ CompletedMeansTerminal'
  BY <1>1, <1>2, FinalRowsKeep
<1> QED
  BY <1>1, <1>2, <1>3, <1>4 DEF IInv

LEMMA CommitCancelKeeps ==
    ASSUME IInv, NEW a \in Requests, CommitCancel(a)
    PROVE  IInv'
<1> USE DEF CommitCancel, workerVars, worldVars
<1>1. a \in Txns
  BY DEF Txns
<1>2. \A r \in Recipients : r \notin held[a] => row'[r] = row[r]
  OBVIOUS
<1>3. \A r \in held[a] : /\ r \in Recipients /\ row[r] \in Row /\ SoundRow(row[r])
                         /\ row[r].status = "pending"
                         /\ row'[r] = MarkSkipped(row[r])
  BY <1>1 DEF IInv, TypeOK, SoundRows, Ownership
<1>4. \A r \in Recipients : /\ Terminal(row[r]) => row'[r] = row[r]
                            /\ Terminal(row'[r])
                            /\ row'[r].msg = row[r].msg
  <2>1. ASSUME NEW r \in held[a]
        PROVE  /\ ~Terminal(row[r]) /\ Terminal(row'[r])
               /\ row'[r].msg = row[r].msg
    BY <1>3, <2>1 DEF Terminal, MarkSkipped, Row
  <2>2. ASSUME NEW r \in Recipients \ held[a]
        PROVE  Terminal(row[r]) /\ row'[r] = row[r]
    BY <1>2, <2>2
  <2> QED
    BY <2>1, <2>2
<1>5. \A r \in Recipients : row'[r] \in Row /\ SoundRow(row'[r])
  BY <1>2, <1>3, SettledRows DEF IInv, TypeOK, SoundRows
<1>6. TypeOK'
  BY <1>5 DEF IInv, TypeOK
<1>7. RowLocksExclusive' /\ Ownership' /\ Recorded' /\ \A w \in Workers : held'[w] = held[w]
  <2>1. \A t \in Txns \ {a} : \A r \in held[t] : r \in Recipients /\ r \notin held[a]
    BY <1>1 DEF IInv, RowLocksExclusive, TypeOK
  <2>2. \A t \in Txns \ {a} : \A r \in held[t] : row'[r].status = "pending"
    BY <1>2, <2>1 DEF IInv, Ownership
  <2> QED
    BY <2>2, RequestFrees
<1>8. SoundRows'
  BY <1>5 DEF IInv, SoundRows
<1>9. MailsAccounted'
  <2>1. \A r \in Recipients : Known(r) <=> Known(r)'
    BY <1>4 DEF Known
  <2> QED
    BY <2>1 DEF IInv, TypeOK, MailsAccounted
<1>10. CompletionSound'
  BY <1>4, <1>6, <1>7, FinalRowsKeep
<1>11. CancelledMeansTerminal' /\ CompletedMeansTerminal'
  BY <1>4 DEF CancelledMeansTerminal, CompletedMeansTerminal
<1> QED
  BY <1>6, <1>7, <1>8, <1>9, <1>10, <1>11 DEF IInv

-----------------------------------------------------------------------------
(* Time *)

\* Time only changes when an unfinished row is tried again.
LEMMA TimeKeeps ==
    ASSUME IInv, row' \in [Recipients -> Row],
           \A r \in Recipients : row'[r] = row[r] \/ row'[r] = [row[r] EXCEPT !.wait = "now"],
           \A r \in Recipients : row[r].wait = "none" => row'[r] = row[r],
           today' \subseteq Recipients,
           UNCHANGED <<cstatus, cancelled, suppressed, jobs, rollbacks, workerVars, req,
                       lockVars, worldVars>>
    PROVE  IInv'
<1> USE DEF workerVars, lockVars, worldVars
<1>1. ASSUME NEW r \in Recipients
      PROVE  /\ Terminal(row[r]) => row'[r] = row[r]
             /\ SoundRow(row'[r])
             /\ row'[r].status = row[r].status /\ row'[r].msg = row[r].msg
  <2>1. row[r] \in Row /\ SoundRow(row[r])
    BY DEF IInv, TypeOK, SoundRows
  <2>2. Terminal(row[r]) => row'[r] = row[r]
    BY <2>1 DEF SoundRow, Terminal
  <2>3. CASE row'[r] = row[r]
    BY <2>1, <2>2, <2>3
  <2>4. CASE row'[r] # row[r]
    BY <2>1, <2>2, <2>4, NewWait DEF Terminal
  <2> QED
    BY <2>3, <2>4
<1>2. TypeOK'
  BY DEF IInv, TypeOK
<1>3. RowLocksExclusive' /\ Recorded'
  BY DEF IInv, RowLocksExclusive, Recorded
<1>4. SoundRows'
  BY <1>1 DEF IInv, SoundRows
<1>5. Ownership'
  BY <1>1 DEF IInv, Ownership, TypeOK
<1>6. MailsAccounted'
  BY <1>1 DEF IInv, MailsAccounted, Known
<1>7. CompletionSound' /\ CancelledMeansTerminal' /\ CompletedMeansTerminal'
  BY <1>1, <1>2, FinalRowsKeep
<1> QED
  BY <1>2, <1>3, <1>4, <1>5, <1>6, <1>7 DEF IInv

LEMMA BackoffKeeps ==
    ASSUME IInv, NEW r \in Recipients, BackoffEnds(r)
    PROVE  IInv'
<1>1. row' \in [Recipients -> Row]
  BY WaitInRow DEF IInv, TypeOK, BackoffEnds
<1> QED
  BY <1>1, TimeKeeps DEF IInv, TypeOK, BackoffEnds

LEMMA MidnightKeeps == ASSUME IInv, Midnight PROVE IInv'
<1>1. row' \in [Recipients -> Row]
  BY WaitInRow DEF IInv, TypeOK, Midnight
<1> QED
  BY <1>1, TimeKeeps DEF IInv, TypeOK, Midnight

LEMMA SenderKeeps == ASSUME IInv, SenderChanges PROVE IInv'
<1> USE DEF campaignVars, workerVars, lockVars
<1>1. TypeOK'
  BY DEF IInv, TypeOK, SenderChanges
<1> QED
  BY <1>1, QuietStep DEF IInv, TypeOK, SenderChanges

-----------------------------------------------------------------------------
(* The theorems *)

LEMMA NextKeeps == ASSUME IInv, [Next]_vars PROVE IInv'
<1>1. ASSUME NEW w \in Workers, WorkerStep(w) \/ Rollback(w) PROVE IInv'
  BY <1>1, BeginKeeps, LaunchKeeps, CheckLimitsKeeps, DeferKeeps, ClaimKeeps,
     SettleWithoutCallKeeps, CallAcceptedKeeps, CallFailedKeeps, RecordSentKeeps,
     RefreshCountersKeeps, CommitKeeps, RollbackKeeps, RefuseKeeps DEF WorkerStep
<1>2. ASSUME NEW a \in Requests, RequestStep(a) \/ AbandonRequest(a) PROVE IInv'
  BY <1>2, PauseKeeps, ResumeKeeps, CancelKeeps, LockForCancelKeeps, CommitCancelKeeps,
     AbandonKeeps DEF RequestStep
<1> QED
  BY <1>1, <1>2, EnqueueKeeps, SubmitKeeps, SuppressKeeps, BackoffKeeps, MidnightKeeps,
     SenderKeeps, StutterKeeps DEF Next

\* The inductive invariant holds in every reachable state.
THEOREM Invariance == Spec => []IInv
<1>1. Init => IInv
  BY InitInv
<1>2. IInv /\ [Next]_vars => IInv'
  BY NextKeeps
<1> QED
  BY <1>1, <1>2, PTL DEF Spec

\* Type correctness: in particular no recipient is tried more than MaxAttempts times.
THEOREM TypeCorrect == Spec => []TypeOK
<1>1. IInv => TypeOK
  BY DEF IInv
<1> QED
  BY <1>1, Invariance, PTL

\* However many batches and requests run, no two own the same recipient row.
THEOREM ExclusiveRows == Spec => []RowLocksExclusive
<1>1. IInv => RowLocksExclusive
  BY DEF IInv
<1> QED
  BY <1>1, Invariance, PTL

\* A duplicate mail needs an accepted mail that the database lost track of.
THEOREM DuplicatesExplained == Spec => []DuplicateNeedsLostOutcome
<1>1. IInv => DuplicateNeedsLostOutcome
  BY DEF IInv, TypeOK, MailsAccounted, DuplicateNeedsLostOutcome
<1> QED
  BY <1>1, Invariance, PTL

\* Completion is never premature, although batches count rows others work on.
THEOREM CompletionIsSound == Spec => []CompletedMeansTerminal
<1>1. IInv => CompletedMeansTerminal
  BY DEF IInv
<1> QED
  BY <1>1, Invariance, PTL

\* No mail leaves after a committed cancel.
THEOREM CancelSilences == Spec => CancelledStaysSilent
<1>1. IInv /\ [Next]_vars => (cancelled => inbox' = inbox)
  <2> SUFFICES ASSUME IInv, [Next]_vars, cancelled PROVE inbox' = inbox
    OBVIOUS
  <2>1. \A w \in Workers, r \in Recipients : ~NeedsCall(w, r)
    BY CancelledNothingTodo DEF NeedsCall
  <2>2. ASSUME NEW w \in Workers, WorkerStep(w) \/ Rollback(w) PROVE inbox' = inbox
    BY <2>1, <2>2 DEF WorkerStep, Rollback, Begin, RefuseBatch, LaunchCampaign, CheckLimits,
       LimitsAllow,
       DeferDueRecipients, Claim, SettleWithoutCall, CallAccepted, CallFailed,
       RecordSent, RefreshCounters, Commit, worldVars
  <2>3. ASSUME NEW a \in Requests, RequestStep(a) \/ AbandonRequest(a)
        PROVE  inbox' = inbox
    BY <2>3 DEF RequestStep, AbandonRequest, PauseCampaign, ResumeCampaign, WriteStatus,
       CancelCampaign, LockForCancel, CommitCancel, worldVars
  <2> QED
    BY <2>2, <2>3 DEF Next, EnqueueDueCampaigns, Submit, Suppress, BackoffEnds, Midnight,
       SenderChanges, vars, worldVars
<1> QED
  BY <1>1, Invariance, PTL DEF Spec, CancelledStaysSilent

\* Nobody overwrites or reopens a finished recipient.
THEOREM OutcomesAreFinal == Spec => OutcomeIsFinal
<1> DEFINE Final == \A r \in Recipients : Terminal(row[r]) => row'[r] = row[r]
<1>1. IInv /\ [Next]_vars => Final
  <2> SUFFICES ASSUME IInv, [Next]_vars, NEW r \in Recipients, Terminal(row[r])
               PROVE  row'[r] = row[r]
    OBVIOUS
  <2>1. /\ row[r].wait = "none" /\ ~Due(r)
        /\ \A t \in Txns : r \notin held[t]
    BY TerminalNotHeld DEF IInv, SoundRows, SoundRow, Terminal, Due
  <2>2. ASSUME NEW w \in Workers, WorkerStep(w) \/ Rollback(w) PROVE row'[r] = row[r]
    BY <2>1, <2>2 DEF WorkerStep, Rollback, Begin, RefuseBatch, LaunchCampaign, CheckLimits,
       LimitsAllow,
       DeferDueRecipients, Claim, SettleWithoutCall, CallAccepted, CallFailed,
       RecordSent, RefreshCounters, Commit, View, Txns, campaignVars
  <2>3. ASSUME NEW a \in Requests, RequestStep(a) \/ AbandonRequest(a)
        PROVE  row'[r] = row[r]
    BY <2>1, <2>3 DEF RequestStep, AbandonRequest, PauseCampaign, ResumeCampaign,
       WriteStatus, CancelCampaign, LockForCancel, CommitCancel, Txns, campaignVars
  <2>4. ASSUME Midnight \/ \E q \in Recipients : BackoffEnds(q) PROVE row'[r] = row[r]
    BY <2>1, <2>4 DEF Midnight, BackoffEnds, IInv, TypeOK
  <2> QED
    BY <2>2, <2>3, <2>4 DEF Next, EnqueueDueCampaigns, Submit, Suppress, SenderChanges, vars,
                            campaignVars
<1> QED
  BY <1>1, Invariance, PTL DEF Spec, OutcomeIsFinal

-----------------------------------------------------------------------------
(* The promise: every step of a batch, a request or the scheduler is a step of *)
(* DeliveryPromise, or changes nothing a recipient could notice.               *)

\* What a step that is invisible to recipients leaves as it is.
Invisible ==
    /\ \A r \in Recipients : row'[r].status = row[r].status
    /\ UNCHANGED <<inbox, doubt, cancelled>>

LEMMA InvisibleStutters == ASSUME Invisible PROVE UNCHANGED Promise!vars
BY DEF Invisible, Promise!vars

\* The mail of an owned row is unsettled only while its owner has it recorded.
LEMMA OwnedSettled ==
    ASSUME IInv, NEW t \in Txns, NEW r \in held[t]
    PROVE  /\ r \in Recipients /\ row[r].status = "pending"
           /\ inbox[r] \in Nat /\ doubt[r] \in Nat
           /\ (t \in Workers /\ r \in accepted[t]) => inbox[r] = doubt[r] + 1
           /\ ~(t \in Workers /\ r \in accepted[t]) => inbox[r] = doubt[r]
<1>1. r \in Recipients /\ row[r].status = "pending" /\ inbox[r] \in Nat /\ doubt[r] \in Nat
  BY DEF IInv, TypeOK, Ownership
<1>2. Known(r) <=> t \in Workers /\ r \in accepted[t]
  BY KnownToOwner
<1> QED
  BY <1>1, <1>2 DEF IInv, MailsAccounted

-----------------------------------------------------------------------------
(* The provider calls send *)

LEMMA CallSends ==
    ASSUME IInv, NEW w \in Workers, NEW r \in Recipients, NeedsCall(w, r)
    PROVE  /\ ~cancelled /\ row[r].status = "pending" /\ inbox[r] = doubt[r]
<1>1. r \in todo[w] /\ r \in held[w] /\ r \notin accepted[w] /\ w \in Txns
  BY DEF IInv, TypeOK, Ownership, Recorded, NeedsCall, Txns
<1>2. ~cancelled
  BY <1>1, CancelledNothingTodo DEF IInv, TypeOK
<1> QED
  BY <1>1, <1>2, OwnedSettled

LEMMA CallAcceptedSends ==
    ASSUME IInv, NEW w \in Workers, NEW r \in Recipients, CallAccepted(w, r)
    PROVE  Promise!Send(r)
<1>1. ~cancelled /\ row[r].status = "pending" /\ inbox[r] = doubt[r]
  BY CallSends DEF CallAccepted
<1> QED
  BY <1>1 DEF CallAccepted, Promise!Send, Promise!Unsettled

LEMMA CallFailedSends ==
    ASSUME IInv, NEW w \in Workers, NEW r \in Recipients, CallFailed(w, r)
    PROVE  Promise!Send(r) \/ Invisible
<1>1. ~cancelled /\ row[r].status = "pending" /\ inbox[r] = doubt[r]
  BY CallSends DEF CallFailed
<1>2. PICK reached \in {0, 1} : /\ inbox' = [inbox EXCEPT ![r] = @ + reached]
                                /\ doubt' = [doubt EXCEPT ![r] = @ + reached]
  BY DEF CallFailed
<1>3. UNCHANGED <<row, cancelled>>
  BY DEF CallFailed, campaignVars
<1>4. CASE reached = 0
  BY <1>2, <1>3, <1>4 DEF Invisible, IInv, TypeOK
<1>5. CASE reached = 1
  BY <1>1, <1>2, <1>3, <1>5 DEF Promise!Send, Promise!Unsettled
<1> QED
  BY <1>4, <1>5

-----------------------------------------------------------------------------
(* The ends of transactions conclude, forget and stop *)

LEMMA CommitConcludes ==
    ASSUME IInv, IInv', NEW w \in Workers, Commit(w)
    PROVE  Promise!Conclude
<1>1. /\ row' = [r \in Recipients |-> View(w, r)]
      /\ UNCHANGED <<inbox, doubt, cancelled>>
  BY DEF Commit, worldVars
<1>2. ASSUME NEW r \in Recipients, row'[r].status # row[r].status
      PROVE  /\ row[r].status = "pending"
             /\ IF row'[r].status = "sent" THEN inbox[r] = doubt[r] + 1
                                           ELSE inbox[r] = doubt[r]
  <2>1. r \in held[w] /\ row'[r] = draft[w][r] /\ w \in Txns
    BY <1>1, <1>2 DEF View, Txns
  <2>2. row'[r].status = "sent" <=> r \in accepted[w]
    BY <2>1 DEF IInv, Recorded, SoundRows, SoundRow
  <2> QED
    BY <2>1, <2>2, OwnedSettled
<1>3. \A r \in Recipients : row'[r].status \in {"pending", "sent", "failed", "skipped"}
  BY DEF IInv, TypeOK, Row
<1> QED
  BY <1>1, <1>2, <1>3 DEF Promise!Conclude, Promise!Agrees, Promise!Unsettled

LEMMA RollbackForgets ==
    ASSUME IInv, NEW w \in Workers, Rollback(w)
    PROVE  Promise!Forget
<1>1. /\ doubt' = [r \in Recipients |-> IF r \in accepted[w] THEN doubt[r] + 1
                                        ELSE doubt[r]]
      /\ UNCHANGED <<row, inbox, cancelled>>
  BY DEF Rollback
<1>2. doubt' \in [Recipients -> Nat]
  BY <1>1 DEF IInv, TypeOK
<1>3. ASSUME NEW r \in Recipients, doubt'[r] # doubt[r]
      PROVE  doubt'[r] = inbox[r] /\ row[r].status = "pending"
  <2>1. r \in accepted[w] /\ r \in held[w] /\ w \in Txns /\ doubt'[r] = doubt[r] + 1
    BY <1>1, <1>3 DEF IInv, Recorded, Txns
  <2> QED
    BY <2>1, OwnedSettled
<1> QED
  BY <1>1, <1>2, <1>3 DEF Promise!Forget

LEMMA CancelStops ==
    ASSUME IInv, NEW a \in Requests, CommitCancel(a)
    PROVE  Promise!Stop
<1> USE DEF CommitCancel
<1>1. a \in Txns /\ a \notin Workers
  BY DeliveryAssumption DEF Txns
<1>2. ASSUME NEW r \in Recipients
      PROVE  /\ row[r].status = "pending" => inbox[r] = doubt[r]
             /\ row'[r].status = IF row[r].status = "pending" THEN "skipped"
                                                            ELSE row[r].status
  <2>1. CASE r \in held[a]
    <3>1. row[r].status = "pending" /\ inbox[r] = doubt[r]
      BY <1>1, <2>1, OwnedSettled
    <3>2. row'[r] = MarkSkipped(row[r]) /\ row[r] \in Row
      BY <2>1 DEF IInv, TypeOK
    <3>3. MarkSkipped(row[r]).status = "skipped"
      BY <3>2 DEF MarkSkipped, Row
    <3> QED
      BY <3>1, <3>2, <3>3
  <2>2. CASE r \notin held[a]
    BY <2>2 DEF Terminal
  <2> QED
    BY <2>1, <2>2
<1>3. cancelled' = TRUE /\ UNCHANGED <<inbox, doubt>>
  BY DEF worldVars
<1> QED
  BY <1>2, <1>3 DEF Promise!Stop, Promise!Unsettled

-----------------------------------------------------------------------------
(* The other steps are invisible *)

LEMMA BatchInvisible ==
    ASSUME IInv, NEW w \in Workers,
           \/ Begin(w) \/ RefuseBatch(w) \/ LaunchCampaign(w) \/ CheckLimits(w)
           \/ Claim(w) \/ RecordSent(w) \/ RefreshCounters(w)
           \/ \E r \in Recipients : SettleWithoutCall(w, r)
    PROVE  Invisible
BY DEF Begin, RefuseBatch, LaunchCampaign, CheckLimits, LimitsAllow, Claim, RecordSent,
   RefreshCounters, SettleWithoutCall, Invisible, campaignVars, worldVars

LEMMA RequestInvisible ==
    ASSUME NEW a \in Requests,
           \/ PauseCampaign(a) \/ ResumeCampaign(a) \/ CancelCampaign(a)
           \/ AbandonRequest(a) \/ \E r \in Recipients : LockForCancel(a, r)
           \/ \E op \in ApiOps : Submit(a, op)
    PROVE  Invisible
BY DEF PauseCampaign, ResumeCampaign, WriteStatus, CancelCampaign, AbandonRequest,
   LockForCancel, Submit, Invisible, campaignVars, worldVars

\* Deferrals, back-off times and midnights move next_attempt_at only.
LEMMA TimeInvisible ==
    ASSUME IInv,
           \/ \E w \in Workers : DeferDueRecipients(w)
           \/ \E r \in Recipients : BackoffEnds(r)
           \/ Midnight
    PROVE  Invisible
<1>1. \A r \in Recipients : row[r] \in Row
  BY DEF IInv, TypeOK
<1>2. \A x \in Row, d \in {"now", "tomorrow"} : [x EXCEPT !.wait = d].status = x.status
  BY DEF Row
<1>3. ASSUME NEW r \in Recipients
      PROVE  row'[r] \in {row[r], [row[r] EXCEPT !.wait = "now"],
                          [row[r] EXCEPT !.wait = "tomorrow"]}
  BY DEF DeferDueRecipients, BackoffEnds, Midnight, IInv, TypeOK
<1>4. UNCHANGED <<inbox, doubt, cancelled>>
  BY DEF DeferDueRecipients, BackoffEnds, Midnight, worldVars
<1> QED
  BY <1>1, <1>2, <1>3, <1>4 DEF Invisible

-----------------------------------------------------------------------------
(* Refinement *)

LEMMA InitKeepsPromise == ASSUME Init PROVE Promise!Init
BY DEF Init, FreshRow, Promise!Init

LEMMA StepKeepsPromise ==
    ASSUME IInv, IInv', [Next]_vars
    PROVE  [Promise!Next]_(Promise!vars)
<1>1. ASSUME NEW w \in Workers, WorkerStep(w) \/ Rollback(w)
      PROVE  [Promise!Next]_(Promise!vars)
  <2>1. CASE \E r \in Recipients : CallAccepted(w, r) \/ CallFailed(w, r)
    BY <2>1, CallAcceptedSends, CallFailedSends, InvisibleStutters DEF Promise!Next
  <2>2. CASE Commit(w)
    BY <2>2, CommitConcludes DEF Promise!Next
  <2>3. CASE Rollback(w)
    BY <2>3, RollbackForgets DEF Promise!Next
  <2>4. CASE DeferDueRecipients(w)
    BY <2>4, TimeInvisible, InvisibleStutters
  <2> QED
    BY <1>1, <2>1, <2>2, <2>3, <2>4, BatchInvisible, InvisibleStutters DEF WorkerStep
<1>2. ASSUME NEW a \in Requests, RequestStep(a) \/ AbandonRequest(a)
      PROVE  [Promise!Next]_(Promise!vars)
  <2>1. CASE CommitCancel(a)
    BY <2>1, CancelStops DEF Promise!Next
  <2> QED
    BY <1>2, <2>1, RequestInvisible, InvisibleStutters DEF RequestStep
<1>3. ASSUME \/ EnqueueDueCampaigns
             \/ \E r \in Recipients : Suppress(r)
             \/ SenderChanges \/ UNCHANGED vars
      PROVE  Invisible
  BY <1>3 DEF EnqueueDueCampaigns, Suppress, SenderChanges, vars, Invisible, campaignVars, worldVars
<1> QED
  BY <1>1, <1>2, <1>3, TimeInvisible, RequestInvisible, InvisibleStutters DEF Next

\* Batches, retries, crashes and requests together keep the promise made to each
\* recipient, with any number of them.
THEOREM ImplementsPromise == Spec => KeepsPromise
<1>1. Init => Promise!Init
  BY InitKeepsPromise
<1>2. IInv /\ IInv' /\ [Next]_vars => [Promise!Next]_(Promise!vars)
  BY StepKeepsPromise
<1> QED
  BY <1>1, <1>2, Invariance, PTL DEF Spec, KeepsPromise, Promise!Spec

-----------------------------------------------------------------------------
(* The daily limit, for one worker *)

SentToday == {r \in today : row[r].msg = "sent"}

\* What a batch may still claim, or has claimed, fits into the limit next to what is recorded.
LimitInv ==
    /\ Cardinality(SentToday) <= DailyLimit
    /\ \A w \in Workers :
          /\ pc[w] = "claim" => Cardinality(SentToday) + allowance[w] <= DailyLimit
          /\ pc[w] \in {"batch", "account", "commit"}
                => Cardinality(SentToday \cup held[w]) <= DailyLimit

LEMMA FewerRecipients ==
    ASSUME NEW T, T \subseteq Recipients, NEW S, S \subseteq T
    PROVE  /\ IsFiniteSet(S) /\ IsFiniteSet(T)
           /\ Cardinality(S) \in Nat /\ Cardinality(T) \in Nat
           /\ Cardinality(S) <= Cardinality(T)
BY DeliveryAssumption, FS_Subset, FS_CardinalityType

\* Steps that record nothing, and leave what the workers have claimed as it is or give it up.
LEMMA LimitFrame ==
    ASSUME IInv, LimitInv, SentToday' \subseteq SentToday,
           \A w \in Workers :
              pc'[w] = "claim" => pc[w] = "claim" /\ allowance'[w] = allowance[w],
           \A w \in Workers :
              pc'[w] \in {"batch", "account", "commit"} =>
                 pc[w] \in {"batch", "account", "commit"} /\ held'[w] = held[w]
    PROVE  LimitInv'
<1>1. SentToday \subseteq Recipients /\ DailyLimit \in Nat
      /\ \A w \in Workers : w \in Txns /\ held[w] \subseteq Recipients /\ allowance[w] \in Nat
  BY DeliveryAssumption DEF SentToday, IInv, TypeOK, Txns
<1>2. /\ Cardinality(SentToday) \in Nat /\ Cardinality(SentToday') \in Nat
      /\ Cardinality(SentToday') <= Cardinality(SentToday)
  BY <1>1, FewerRecipients
<1>3. Cardinality(SentToday') <= DailyLimit
  BY <1>1, <1>2 DEF LimitInv
<1>4. ASSUME NEW w \in Workers, pc'[w] = "claim"
      PROVE  Cardinality(SentToday') + allowance'[w] <= DailyLimit
  <2>1. Cardinality(SentToday) + allowance[w] <= DailyLimit /\ allowance'[w] = allowance[w]
    BY <1>4 DEF LimitInv
  <2> QED
    BY <1>1, <1>2, <2>1
<1>5. ASSUME NEW w \in Workers, pc'[w] \in {"batch", "account", "commit"}
      PROVE  Cardinality(SentToday' \cup held'[w]) <= DailyLimit
  <2>1. Cardinality(SentToday \cup held[w]) <= DailyLimit /\ held'[w] = held[w]
    BY <1>5 DEF LimitInv
  <2>2. /\ SentToday \cup held[w] \subseteq Recipients
        /\ SentToday' \cup held'[w] \subseteq SentToday \cup held[w]
    BY <1>1, <2>1
  <2>3. /\ Cardinality(SentToday \cup held[w]) \in Nat
        /\ Cardinality(SentToday' \cup held'[w]) \in Nat
        /\ Cardinality(SentToday' \cup held'[w]) <= Cardinality(SentToday \cup held[w])
    BY <2>2, FewerRecipients
  <2> QED
    BY <1>1, <2>1, <2>3
<1> QED
  BY <1>3, <1>4, <1>5 DEF LimitInv

\* The rows keep what their messages say, and nothing is recorded.
SameMessages ==
    /\ \A r \in Recipients : row'[r].msg = row[r].msg
    /\ today' \subseteq today

LEMMA SameMessagesSent ==
    ASSUME IInv, SameMessages PROVE SentToday' \subseteq SentToday
BY DEF SameMessages, SentToday, IInv, TypeOK

LEMMA WaitKeepsMessages ==
    ASSUME IInv,
           \/ \E w \in Workers : DeferDueRecipients(w)
           \/ \E r \in Recipients : BackoffEnds(r)
           \/ Midnight
    PROVE  SameMessages
<1>1. \A r \in Recipients : row[r] \in Row
  BY DEF IInv, TypeOK
<1>2. \A x \in Row, d \in {"now", "tomorrow"} : [x EXCEPT !.wait = d].msg = x.msg
  BY DEF Row
<1>3. ASSUME NEW r \in Recipients
      PROVE  row'[r] \in {row[r], [row[r] EXCEPT !.wait = "now"],
                          [row[r] EXCEPT !.wait = "tomorrow"]}
  BY DEF DeferDueRecipients, BackoffEnds, Midnight, IInv, TypeOK
<1>4. today' \subseteq today
  BY DEF DeferDueRecipients, BackoffEnds, Midnight
<1> QED
  BY <1>1, <1>2, <1>3, <1>4 DEF SameMessages

LEMMA CancelKeepsMessages ==
    ASSUME IInv, NEW a \in Requests, CommitCancel(a)
    PROVE  SameMessages
<1>1. \A r \in Recipients : row'[r] \in {row[r], MarkSkipped(row[r])} /\ row[r] \in Row
  BY DEF CommitCancel, IInv, TypeOK
<1>2. \A x \in Row : MarkSkipped(x).msg = x.msg
  BY DEF MarkSkipped, Row
<1>3. today' = today
  BY DEF CommitCancel
<1> QED
  BY <1>1, <1>2, <1>3 DEF SameMessages

\* A batch may claim what the limit leaves.
LEMMA LimitOfCheck ==
    ASSUME IInv, LimitInv, NEW w \in Workers, CheckLimits(w)
    PROVE  LimitInv'
<1>1. /\ pc[w] = "limits" /\ allowance' = [allowance EXCEPT ![w] = BatchLimit]
      /\ pc' = [pc EXCEPT ![w] = "defer"] \/ pc' = [pc EXCEPT ![w] = "claim"]
      /\ UNCHANGED <<row, today, held>>
  BY DEF CheckLimits, LimitsAllow, campaignVars, lockVars
<1>2. SentToday' = SentToday /\ SentToday \subseteq Recipients
  BY <1>1 DEF SentToday, IInv, TypeOK
<1>3. Cardinality(SentToday) \in Nat /\ DailyLimit \in Nat /\ BatchSize \in Nat
  BY <1>2, FewerRecipients, DeliveryAssumption
<1>4. Cardinality(SentToday) + BatchLimit <= DailyLimit
  <2> DEFINE n == Cardinality(SentToday)
  <2>1. DailyRemaining = IF n < DailyLimit THEN DailyLimit - n ELSE 0
    BY DEF DailyRemaining, SentToday
  <2>2. n <= DailyLimit /\ n \in Nat
    BY <1>3 DEF LimitInv
  <2> HIDE DEF n
  <2>3. n + BatchLimit <= DailyLimit
    BY <1>3, <2>1, <2>2, AllowanceNat DEF IInv
  <2> QED
    BY <2>3 DEF n
<1>5. /\ allowance \in [Workers -> Nat] /\ held' = held
      /\ pc \in [Workers -> {"idle", "launch", "limits", "defer", "claim", "batch",
                             "account", "commit"}]
  BY <1>1 DEF IInv, TypeOK
<1>6. /\ allowance'[w] = BatchLimit /\ pc'[w] \in {"defer", "claim"}
      /\ \A v \in Workers : v # w => pc'[v] = pc[v] /\ allowance'[v] = allowance[v]
  BY <1>1, <1>5
<1> QED
  BY <1>2, <1>4, <1>5, <1>6 DEF LimitInv

LEMMA LimitOfClaim ==
    ASSUME IInv, LimitInv, NEW w \in Workers, Claim(w)
    PROVE  LimitInv'
<1>1. PICK S \in ListDueRecipients(w) : held' = [held EXCEPT ![w] = S]
  BY DEF Claim
<1>2. /\ pc[w] = "claim" /\ pc' = [pc EXCEPT ![w] = "batch"]
      /\ UNCHANGED <<row, today, allowance>>
  BY DEF Claim, campaignVars
<1>3. SentToday' = SentToday /\ SentToday \subseteq Recipients /\ allowance[w] \in Nat
  BY <1>2 DEF SentToday, IInv, TypeOK
<1> DEFINE free == {r \in Recipients : Due(r) /\ ~LockedByOthers(w, r)}
<1>4. S \subseteq free /\ Cardinality(S) = Min2(allowance[w], Cardinality(free))
  BY <1>1 DEF ListDueRecipients
<1>5. free \subseteq Recipients
  OBVIOUS
<1>6. /\ IsFiniteSet(S) /\ IsFiniteSet(SentToday) /\ Cardinality(S) \in Nat
      /\ Cardinality(free) \in Nat /\ Cardinality(SentToday) \in Nat
  BY <1>3, <1>4, <1>5, FewerRecipients
<1>7. Cardinality(S) <= allowance[w]
  <2> HIDE DEF free
  <2> QED
    BY <1>3, <1>4, <1>6 DEF Min2
<1>8. Cardinality(SentToday \cup S) <= Cardinality(SentToday) + Cardinality(S)
  <2>1. Cardinality(SentToday \cup S)
          = Cardinality(SentToday) + Cardinality(S) - Cardinality(SentToday \cap S)
    BY <1>6, FS_Union
  <2>2. Cardinality(SentToday \cap S) \in Nat
    <3>1. SentToday \cap S \subseteq SentToday
      OBVIOUS
    <3> QED
      BY <1>3, <3>1, FewerRecipients
  <2> QED
    BY <1>6, <2>1, <2>2
<1>9. Cardinality(SentToday \cup S) <= DailyLimit
  <2>1. Cardinality(SentToday) + allowance[w] <= DailyLimit
    BY <1>2 DEF LimitInv
  <2>2. Cardinality(SentToday \cup S) \in Nat /\ DailyLimit \in Nat
    <3>1. SentToday \cup S \subseteq Recipients
      BY <1>3, <1>4, <1>5
    <3> QED
      BY <3>1, FewerRecipients, DeliveryAssumption
  <2> HIDE DEF free
  <2> QED
    BY <1>3, <1>6, <1>7, <1>8, <2>1, <2>2
<1>10. /\ pc'[w] = "batch" /\ held'[w] = S
       /\ \A v \in Workers : v # w => pc'[v] = pc[v] /\ held'[v] = held[v]
  BY <1>1, <1>2 DEF IInv, TypeOK, Txns
<1> QED
  BY <1>2, <1>3, <1>9, <1>10 DEF LimitInv

\* What a batch records today are rows it holds.
LEMMA LimitOfAccepted ==
    ASSUME IInv, LimitInv, \A u, v \in Workers : u = v,
           NEW w \in Workers, NEW r \in Recipients, CallAccepted(w, r)
    PROVE  LimitInv'
<1>1. /\ pc[w] = "batch" /\ pc' = [pc EXCEPT ![w] = "account"] /\ r \in todo[w]
      /\ UNCHANGED <<row, allowance, held>> /\ today' = today \cup {r}
  BY DEF CallAccepted, NeedsCall, lockVars
<1>2. r \in held[w] /\ held[w] \subseteq Recipients
  BY <1>1 DEF IInv, TypeOK, Ownership, Txns
<1>3. SentToday' \subseteq SentToday \cup held[w] /\ SentToday \subseteq Recipients
  BY <1>1, <1>2 DEF SentToday, IInv, TypeOK
<1>4. Cardinality(SentToday \cup held[w]) <= DailyLimit /\ DailyLimit \in Nat
  BY <1>1, DeliveryAssumption DEF LimitInv
<1>5. ASSUME NEW T, T \subseteq SentToday \cup held[w] PROVE Cardinality(T) <= DailyLimit
  <2>1. /\ Cardinality(T) \in Nat /\ Cardinality(SentToday \cup held[w]) \in Nat
        /\ Cardinality(T) <= Cardinality(SentToday \cup held[w])
    BY <1>2, <1>3, <1>5, FewerRecipients
  <2> QED
    BY <1>4, <2>1
<1>6. pc'[w] = "account" /\ \A v \in Workers : v = w
  BY <1>1 DEF IInv, TypeOK
<1>7. Cardinality(SentToday') <= DailyLimit /\ Cardinality(SentToday' \cup held[w]) <= DailyLimit
  BY <1>3, <1>5
<1> QED
  BY <1>1, <1>6, <1>7 DEF LimitInv

LEMMA LimitOfCommit ==
    ASSUME IInv, LimitInv, \A u, v \in Workers : u = v, NEW w \in Workers, Commit(w)
    PROVE  LimitInv'
<1>1. /\ pc[w] = "commit" /\ pc' = [pc EXCEPT ![w] = "idle"]
      /\ row' = [r \in Recipients |-> View(w, r)] /\ today' = today
  BY DEF Commit, EndTxn
<1>2. SentToday' \subseteq SentToday \cup held[w]
  BY <1>1 DEF SentToday, View, IInv, TypeOK
<1>3. SentToday \subseteq Recipients /\ held[w] \subseteq Recipients
  BY DEF SentToday, IInv, TypeOK, Txns
<1>4. Cardinality(SentToday \cup held[w]) <= DailyLimit /\ DailyLimit \in Nat
  BY <1>1, DeliveryAssumption DEF LimitInv
<1>5. Cardinality(SentToday') <= DailyLimit
  <2>1. /\ Cardinality(SentToday') \in Nat /\ Cardinality(SentToday \cup held[w]) \in Nat
        /\ Cardinality(SentToday') <= Cardinality(SentToday \cup held[w])
    BY <1>2, <1>3, FewerRecipients
  <2> QED
    BY <1>4, <2>1
<1>6. pc'[w] = "idle" /\ \A v \in Workers : v = w
  BY <1>1 DEF IInv, TypeOK
<1> QED
  BY <1>5, <1>6 DEF LimitInv

\* The other steps of a batch.
LEMMA LimitOfBatch ==
    ASSUME IInv, LimitInv, NEW w \in Workers,
           \/ Begin(w) \/ LaunchCampaign(w) \/ RecordSent(w) \/ RefreshCounters(w)
           \/ DeferDueRecipients(w) \/ Rollback(w) \/ RefuseBatch(w)
           \/ \E r \in Recipients : SettleWithoutCall(w, r) \/ CallFailed(w, r)
    PROVE  LimitInv'
<1>1. SameMessages
  <2>1. CASE DeferDueRecipients(w)
    BY <2>1, WaitKeepsMessages
  <2>2. CASE ~DeferDueRecipients(w)
    <3>1. row' = row /\ today' \subseteq today
      BY <2>2 DEF Begin, LaunchCampaign, RecordSent, RefreshCounters, Rollback, RefuseBatch,
         SettleWithoutCall, CallFailed, campaignVars
    <3> QED
      BY <3>1 DEF SameMessages
  <2> QED
    BY <2>1, <2>2
<1>2. /\ pc \in [Workers -> {"idle", "launch", "limits", "defer", "claim", "batch",
                             "account", "commit"}]
      /\ held \in [Txns -> SUBSET Recipients] /\ allowance \in [Workers -> Nat] /\ w \in Txns
      /\ Workers \subseteq Txns
  BY DEF IInv, TypeOK, Txns
<1>3. ASSUME NEW v \in Workers
      PROVE  /\ pc'[v] = "claim" => pc[v] = "claim" /\ allowance'[v] = allowance[v]
             /\ pc'[v] \in {"batch", "account", "commit"} =>
                   pc[v] \in {"batch", "account", "commit"} /\ held'[v] = held[v]
  <2>1. CASE DeferDueRecipients(w) \/ Rollback(w) \/ RefuseBatch(w)
    <3>1. EndTxn(w)
      BY <2>1 DEF DeferDueRecipients, Rollback, RefuseBatch
    <3> QED
      BY <1>2, <3>1 DEF EndTxn
  <2>2. CASE Begin(w) \/ LaunchCampaign(w) \/ RecordSent(w) \/ RefreshCounters(w)
    BY <1>2, <2>2 DEF Begin, LaunchCampaign, RecordSent, RefreshCounters, workerVars, lockVars
  <2>3. CASE \E r \in Recipients : SettleWithoutCall(w, r) \/ CallFailed(w, r)
    BY <1>2, <2>3 DEF SettleWithoutCall, CallFailed, workerVars, lockVars
  <2> QED
    BY <2>1, <2>2, <2>3
<1> QED
  BY <1>1, <1>3, SameMessagesSent, LimitFrame

LEMMA LimitOfRequest ==
    ASSUME IInv, LimitInv, NEW a \in Requests,
           \/ RequestStep(a) \/ AbandonRequest(a) \/ \E op \in ApiOps : Submit(a, op)
    PROVE  LimitInv'
<1>1. SameMessages
  <2>1. CASE CommitCancel(a)
    BY <2>1, CancelKeepsMessages
  <2>2. CASE ~CommitCancel(a)
    <3>1. row' = row /\ today' = today
      BY <2>2 DEF RequestStep, PauseCampaign, ResumeCampaign, WriteStatus, CancelCampaign,
         AbandonRequest, LockForCancel, Submit, campaignVars
    <3> QED
      BY <3>1 DEF SameMessages
  <2> QED
    BY <2>1, <2>2
<1>2. /\ UNCHANGED <<pc, allowance>>
      /\ held' = held \/ \E S : held' = [held EXCEPT ![a] = S]
  BY DEF RequestStep, PauseCampaign, ResumeCampaign, WriteStatus, CancelCampaign,
     AbandonRequest, LockForCancel, CommitCancel, Submit, workerVars, lockVars
<1>3. \A v \in Workers : held'[v] = held[v]
  BY <1>2, DeliveryAssumption DEF IInv, TypeOK, Txns
<1> QED
  BY <1>1, <1>2, <1>3, SameMessagesSent, LimitFrame

\* Batches that do not overlap record at most daily_limit mails as sent in one local day, through
\* any number of crashes, midnights and requests.
THEOREM DailyLimitIsKept ==
    ASSUME \A u, v \in Workers : u = v
    PROVE  Spec => []WithinDailyLimit
<1>1. Init => LimitInv
  <2> SUFFICES ASSUME Init PROVE LimitInv
    OBVIOUS
  <2>1. SentToday = {}
    BY DEF Init, SentToday
  <2>2. Cardinality(SentToday) = 0
    BY <2>1, FS_EmptySet
  <2> QED
    BY <2>2, DeliveryAssumption DEF Init, LimitInv
<1>2. IInv /\ LimitInv /\ [Next]_vars => LimitInv'
  <2> SUFFICES ASSUME IInv, LimitInv, [Next]_vars PROVE LimitInv'
    OBVIOUS
  <2>1. ASSUME NEW w \in Workers, WorkerStep(w) \/ Rollback(w) PROVE LimitInv'
    BY <2>1, LimitOfCheck, LimitOfClaim, LimitOfAccepted, LimitOfCommit, LimitOfBatch
       DEF WorkerStep
  <2>2. ASSUME NEW a \in Requests,
               \/ RequestStep(a) \/ AbandonRequest(a) \/ \E op \in ApiOps : Submit(a, op)
        PROVE  LimitInv'
    BY <2>2, LimitOfRequest
  <2>3. CASE (\E r \in Recipients : BackoffEnds(r)) \/ Midnight
    <3>1. SameMessages
      BY <2>3, WaitKeepsMessages
    <3>2. UNCHANGED <<pc, allowance, held>>
      BY <2>3 DEF BackoffEnds, Midnight, workerVars, lockVars
    <3> QED
      BY <3>1, <3>2, SameMessagesSent, LimitFrame
  <2>4. CASE \/ EnqueueDueCampaigns \/ SenderChanges \/ UNCHANGED vars
             \/ \E r \in Recipients : Suppress(r)
    <3>1. UNCHANGED <<row, today, pc, allowance, held>>
      BY <2>4 DEF EnqueueDueCampaigns, SenderChanges, Suppress, vars, campaignVars, workerVars,
                  lockVars
    <3> QED
      BY <3>1, SameMessagesSent, LimitFrame DEF SameMessages
  <2> QED
    BY <2>1, <2>2, <2>3, <2>4 DEF Next
<1>3. LimitInv => WithinDailyLimit
  BY DEF LimitInv, SentToday, WithinDailyLimit
<1> QED
  BY <1>1, <1>2, <1>3, Invariance, PTL DEF Spec

====
