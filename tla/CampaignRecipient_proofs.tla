---------------------- MODULE CampaignRecipient_proofs ----------------------
(***************************************************************************)
(* Proofs about CampaignRecipient, for every sequence of steps, every set  *)
(* of events and any number of concurrent requests.                        *)
(***************************************************************************)
EXTENDS CampaignRecipient, WellFoundedInduction, FiniteSetTheorems, TLAPS

-----------------------------------------------------------------------------
(* Steps *)

LEMMA StepsAreNumbered ==
    /\ Len(Steps) \in Nat
    /\ EmailSteps \subseteq 1..Len(Steps)
    /\ EmailSteps # {}
BY RecipientAssumption DEF EmailSteps

\* A set of natural numbers that is not empty has a smallest element.
LEMMA Smallest ==
    ASSUME NEW T, T \subseteq Nat, T # {}
    PROVE  \E m \in T : \A n \in T : m <= n
<1>1. PICK m \in T : \A n \in T : <<n, m>> \notin OpToRel(<, Nat)
  BY NatLessThanWellFounded, WFMin
<1>2. \A n \in T : ~(n < m)
  BY <1>1 DEF OpToRel
<1> QED
  BY <1>2

\* The newest message is that of the last email step.
LEMMA NewestIsLast ==
    NewestMessage \in EmailSteps /\ \A e \in EmailSteps : e <= NewestMessage
<1> DEFINE T == {Len(Steps) - e : e \in EmailSteps}
<1>0. \A e \in EmailSteps : e \in Int /\ Len(Steps) - e \in Nat
  BY StepsAreNumbered
<1>1. T \subseteq Nat /\ T # {}
  BY <1>0, StepsAreNumbered
<1>2. PICK m \in T : \A n \in T : m <= n
  BY <1>1, Smallest
<1>3. PICK s \in EmailSteps : m = Len(Steps) - s
  BY <1>2
<1>4. ASSUME NEW e \in EmailSteps PROVE e <= s
  <2>1. m <= Len(Steps) - e
    BY <1>2
  <2> QED
    BY <2>1, <1>0, <1>3, StepsAreNumbered
<1> QED
  BY <1>4 DEF NewestMessage

-----------------------------------------------------------------------------
(* Shape of the rows *)

\* A row as far as the proofs need it: the numbers are not bounded.
AnyRow == [status : {"pending", "sent", "delivered", "opened", "clicked", "replied",
                     "bounced", "failed", "unsubscribed", "skipped", "stopped"},
           step   : Nat,
           tries  : Nat,
           wait   : Int,
           err    : {"none", "send", "uncertain", "reconciled"}]

Shape ==
    /\ row \in AnyRow
    /\ draft \in AnyRow
    /\ seen \in [Reporters \cup Operators -> AnyRow]
    /\ report \in [Reporters -> Events \cup {"none"}]
    /\ fix \in [Operators -> {"none", "read", "sent", "retry", "failed"}]
    /\ regrants \in Nat

LEMMA FreshRowShape == FreshRow \in AnyRow /\ FreshRow.status = "pending"
BY DEF FreshRow, AnyRow

LEMMA NeverIsInt == Never \in Int
<1> DEFINE delays == DOMAIN Steps \ EmailSteps
<1>1. DOMAIN Steps = 1..Len(Steps) /\ Len(Steps) \in Nat
  BY RecipientAssumption
<1>2. IsFiniteSet(delays)
  <2>1. IsFiniteSet(1..Len(Steps))
    BY <1>1, FS_Interval
  <2> QED
    BY <2>1, <1>1, FS_Subset, delays \subseteq 1..Len(Steps)
<1>3. Cardinality(delays) \in Nat
  BY <1>2, FS_CardinalityType
<1> QED
  BY <1>3 DEF Never, MaxWait

\* The updates of a row that the code makes.
LEMMA UpdateShape ==
    ASSUME NEW x \in AnyRow, NEW n \in Int, NEW k \in Nat,
           NEW v \in {"pending", "sent", "failed"},
           NEW c \in {"none", "send", "uncertain", "reconciled"}
    PROVE  /\ [x EXCEPT !.err = c, !.wait = n] \in AnyRow
           /\ [x EXCEPT !.err = c, !.tries = k] \in AnyRow
           /\ [x EXCEPT !.err = c, !.status = v, !.wait = n] \in AnyRow
           /\ [x EXCEPT !.status = v, !.err = c, !.wait = n] \in AnyRow
           /\ [x EXCEPT !.status = v, !.err = c, !.wait = n].status = v
           /\ [x EXCEPT !.status = v, !.tries = k, !.err = c, !.wait = n] \in AnyRow
BY DEF AnyRow

\* A sequence advances to a later email step, or ends.
LEMMA AdvanceShape ==
    ASSUME NEW x \in AnyRow, NEW s \in Nat
    PROVE  /\ AdvanceAfterStep(x, s) \in AnyRow
           /\ (\A e \in EmailSteps : e <= s) => AdvanceAfterStep(x, s).status = "sent"
<1> DEFINE later == {e \in EmailSteps : e > s}
<1>1. CASE later = {}
  <2>1. AdvanceAfterStep(x, s) = [x EXCEPT !.status = "sent", !.step = Len(Steps) + 1,
                                           !.wait = Never]
    BY <1>1 DEF AdvanceAfterStep
  <2> QED
    <3>1. PICK k \in Nat : k = Len(Steps) + 1
      BY StepsAreNumbered
    <3>2. AdvanceAfterStep(x, s) = [x EXCEPT !.status = "sent", !.step = k, !.wait = Never]
      BY <2>1, <3>1
    <3> QED
      BY <3>2, NeverIsInt DEF AnyRow
<1>2. CASE later # {}
  <2> DEFINE e == CHOOSE e \in later : \A f \in later : e <= f
  <2>1. later \subseteq Nat
    <3>1. 1..Len(Steps) \subseteq Nat
      OBVIOUS
    <3> QED
      BY <3>1, StepsAreNumbered
  <2>2. e \in later
    BY <2>1, <1>2, Smallest
  <2>3. AdvanceAfterStep(x, s) = [x EXCEPT !.status = "pending", !.step = e,
                                           !.wait = e - s - 1]
    BY <1>2 DEF AdvanceAfterStep
  <2>4. e \in Nat /\ e > s /\ e \in EmailSteps
    BY <2>1, <2>2
  <2>5. ~(\A f \in EmailSteps : f <= s)
    BY <2>4
  <2> HIDE DEF e
  <2> QED
    <3>1. PICK n \in Int : n = e - s - 1
      BY <2>4
    <3>2. AdvanceAfterStep(x, s) = [x EXCEPT !.status = "pending", !.step = e, !.wait = n]
      BY <2>3, <3>1
    <3> QED
      BY <2>4, <2>5, <3>2 DEF AnyRow
<1> QED
  BY <1>1, <1>2

LEMMA SentShape ==
    ASSUME NEW x \in AnyRow, NEW s \in Nat
    PROVE  /\ Sent(x, s) \in AnyRow
           /\ (\A e \in EmailSteps : e <= s) => Sent(x, s).status = "sent"
<1>1. [x EXCEPT !.err = "none", !.tries = 0] \in AnyRow
  BY DEF AnyRow
<1> QED
  BY <1>1, AdvanceShape DEF Sent

LEMMA FailureShape ==
    ASSUME NEW x \in AnyRow
    PROVE  RecordSendFailure(x) \in AnyRow /\ Uncertain(x) \in AnyRow
<1>1. 1 \in Int
  OBVIOUS
<1> QED
  BY <1>1, NeverIsInt, UpdateShape DEF RecordSendFailure, Uncertain

LEMMA MergeShape ==
    ASSUME NEW base \in AnyRow, NEW old \in AnyRow, NEW new \in AnyRow
    PROVE  /\ Merge(base, old, new) \in AnyRow
           /\ Merge(base, old, new).status
                = IF new.status # old.status THEN new.status ELSE base.status
BY DEF Merge, AnyRow

LEMMA EventShape ==
    ASSUME NEW x \in AnyRow, NEW e \in Events
    PROVE  /\ AfterEvent(e, x) \in AnyRow
           /\ AfterEvent(e, x).status = EventStatus(e, x)
           /\ x.status # "pending" => EventStatus(e, x) # "pending"
           /\ e \in StopOn => EventStatus(e, x) # "pending"
<1>1. /\ EventStatus(e, x) \in {"pending", "sent", "delivered", "opened", "clicked",
                  "replied", "bounced", "failed", "unsubscribed", "skipped", "stopped"}
      /\ x.status # "pending" => EventStatus(e, x) # "pending"
      /\ e \in StopOn => EventStatus(e, x) # "pending"
  BY RecipientAssumption DEF EventStatus, ActiveSequence, AnyRow, EventKinds
<1> QED
  BY <1>1, NeverIsInt DEF AfterEvent, AnyRow

\* Only a retry makes a finished recipient pending again.
LEMMA ReconcileShape ==
    ASSUME NEW x \in AnyRow, NEW outcome \in {"sent", "retry", "failed"}
    PROVE  /\ AfterReconcile(outcome, x) \in AnyRow
           /\ outcome # "retry" => AfterReconcile(outcome, x).status # "pending"
<1>1. NewestMessage \in Nat
  BY NewestIsLast, StepsAreNumbered
<1>2. Sent(x, NewestMessage) \in AnyRow /\ Sent(x, NewestMessage).status = "sent"
  BY <1>1, NewestIsLast, SentShape
<1> QED
  <2>1. 0 \in Int /\ 0 \in Nat
    OBVIOUS
  <2>2. CASE outcome = "sent"
    BY <1>2, <2>2 DEF AfterReconcile
  <2>3. CASE outcome = "retry"
    BY <2>1, <2>3, UpdateShape DEF AfterReconcile
  <2>4. CASE outcome = "failed"
    BY <2>4, NeverIsInt, UpdateShape DEF AfterReconcile
  <2> QED
    BY <2>2, <2>3, <2>4

-----------------------------------------------------------------------------
(* The shape is kept *)

LEMMA FinishShape ==
    ASSUME Shape, NEW x \in AnyRow, NEW m, Finish(x, m)
    PROVE  Shape'
BY DEF Shape, Finish, requestVars

LEMMA ProcessShape == Shape /\ Process => Shape'
<1> SUFFICES ASSUME Shape, Process PROVE Shape'
  OBVIOUS
<1>1. draft \in AnyRow /\ draft.step \in Nat
  BY DEF Shape, AnyRow
<1>2. CASE ProcessWithoutCall
  <2>1. [draft EXCEPT !.status = "sent", !.wait = Never] \in AnyRow
    BY <1>1, NeverIsInt DEF AnyRow
  <2>2. AdvanceAfterStep(draft, draft.step) \in AnyRow /\ Uncertain(draft) \in AnyRow
    BY <1>1, AdvanceShape, FailureShape
  <2> QED
    BY <1>2, <2>1, <2>2, FinishShape DEF ProcessWithoutCall
<1>3. ASSUME NEW s \in EmailSteps, CallAccepted(s) PROVE Shape'
  <2>1. s \in Nat
    BY StepsAreNumbered
  <2> QED
    BY <1>1, <1>3, <2>1, SentShape, FinishShape DEF CallAccepted
<1>4. ASSUME NEW s \in EmailSteps, CallFailed(s) PROVE Shape'
  <2>1. Uncertain(draft) \in AnyRow /\ RecordSendFailure(draft) \in AnyRow
    BY <1>1, FailureShape
  <2> QED
    BY <1>4, <2>1, FinishShape DEF CallFailed
<1> QED
  BY <1>2, <1>3, <1>4 DEF Process

LEMMA RequestShape ==
    ASSUME Shape
    PROVE  /\ \A a \in Reporters : RecordEvent(a) => Shape'
           /\ \A a \in Operators : Reconcile(a) => Shape'
<1>1. ASSUME NEW a \in Reporters, RecordEvent(a) PROVE Shape'
  <2>1. seen[a] \in AnyRow /\ report[a] \in Events /\ row \in AnyRow
    BY <1>1 DEF Shape, RecordEvent
  <2>2. Merge(row, seen[a], AfterEvent(report[a], seen[a])) \in AnyRow
    BY <2>1, EventShape, MergeShape
  <2>3. row' \in AnyRow
    BY <1>1, <2>1, <2>2 DEF RecordEvent
  <2> QED
    BY <1>1, <2>3, FreshRowShape DEF Shape, RecordEvent, batchVars, worldVars
<1>2. ASSUME NEW a \in Operators, Reconcile(a) PROVE Shape'
  <2> DEFINE merged == Merge(row, seen[a], AfterReconcile(fix[a], seen[a]))
  <2>1. seen[a] \in AnyRow /\ fix[a] \in {"sent", "retry", "failed"} /\ row \in AnyRow
    BY <1>2 DEF Shape, Reconcile
  <2>2. merged \in AnyRow
    BY <2>1, ReconcileShape, MergeShape
  <2>3. [merged EXCEPT !.wait = IF fix[a] = "retry" THEN 0 ELSE @] \in AnyRow
    <3> HIDE DEF merged
    <3> QED
      BY <2>2 DEF AnyRow
  <2>4. row' \in AnyRow
    BY <1>2, <2>3 DEF Reconcile
  <2>5. regrants' \in Nat
    BY <1>2 DEF Reconcile, Shape
  <2> QED
    BY <1>2, <2>4, <2>5, FreshRowShape DEF Shape, Reconcile, batchVars
<1> QED
  BY <1>1, <1>2

THEOREM ShapeKept == Spec => []Shape
<1>1. Init => Shape
  BY FreshRowShape DEF Init, Shape
<1>2. Shape /\ [Next]_vars => Shape'
  <2> SUFFICES ASSUME Shape, [Next]_vars PROVE Shape'
    OBVIOUS
  <2>1. CASE LoadCampaign \/ OthersFinish \/ Suppress
    BY <2>1 DEF Shape, LoadCampaign, OthersFinish, Suppress, requestVars, worldVars, batchVars
  <2>2. CASE Claim
    <3>1. [row EXCEPT !.tries = @ + 1] \in AnyRow
      BY DEF Shape, AnyRow
    <3>2. [row EXCEPT !.status = "skipped", !.wait = Never] \in AnyRow
      BY NeverIsInt DEF Shape, AnyRow
    <3>3. draft' \in AnyRow
      BY <2>2, <3>1, <3>2, FreshRowShape DEF Claim, EndBatch
    <3> QED
      BY <2>2, <3>3 DEF Shape, Claim, requestVars, worldVars
  <2>3. CASE Process
    BY <2>3, ProcessShape
  <2>4. CASE Commit \/ Rollback
    BY <2>4, FreshRowShape DEF Shape, Commit, Rollback, EndBatch, requestVars, worldVars
  <2>5. ASSUME NEW a \in Reporters,
               RecordEvent(a) \/ AbandonEvent(a) \/ \E e \in Events : ReadForEvent(a, e)
        PROVE  Shape'
    BY <2>5, RequestShape, FreshRowShape
       DEF Shape, AbandonEvent, ReadForEvent, batchVars, worldVars
  <2>6. ASSUME NEW a \in Operators,
               \/ Reconcile(a) \/ AbandonReconcile(a) \/ ReadForReconcile(a)
               \/ \E o \in {"sent", "retry", "failed"} : CheckUncertain(a, o)
        PROVE  Shape'
    BY <2>6, RequestShape, FreshRowShape
       DEF Shape, AbandonReconcile, ReadForReconcile, CheckUncertain, batchVars, worldVars
  <2>7. CASE Tick
    <3>1. row' \in AnyRow
      BY <2>7 DEF Tick, Shape, AnyRow
    <3> QED
      BY <2>7, <3>1 DEF Tick, Shape, batchVars, requestVars
  <2>8. CASE UNCHANGED vars
    BY <2>8 DEF Shape, vars, batchVars, requestVars, worldVars
  <2> QED
    BY <2>1, <2>2, <2>3, <2>4, <2>5, <2>6, <2>7, <2>8 DEF Next
<1> QED
  BY <1>1, <1>2, PTL DEF Spec

-----------------------------------------------------------------------------
(* Suppressed recipients *)

\* A bounce or unsubscribe is recorded together with its suppression, and not
\* while a batch that has checked the suppression list holds the row.
SilentInv ==
    /\ recorded \cap {"unsubscribed", "bounced"} # {} => suppressed
    /\ batch = "claimed" => recorded \cap {"unsubscribed", "bounced"} = {}

LEMMA SilentInvariant == Spec => []SilentInv
<1>1. Init => SilentInv
  BY DEF Init, SilentInv
<1>2. SilentInv /\ [Next]_vars => SilentInv'
  <2> SUFFICES ASSUME SilentInv, [Next]_vars PROVE SilentInv'
    OBVIOUS
  <2>1. CASE LoadCampaign \/ Claim \/ Commit \/ Rollback
    BY <2>1 DEF SilentInv, LoadCampaign, Claim, Commit, Rollback, EndBatch
  <2>2. CASE Process
    BY <2>2 DEF SilentInv, Process, ProcessWithoutCall, CallAccepted, CallFailed, Finish
  <2>3. ASSUME NEW a \in Reporters, RecordEvent(a) PROVE SilentInv'
    BY <2>3 DEF SilentInv, RecordEvent, RowLocked, batchVars
  <2>4. ASSUME NEW a \in Reporters,
               AbandonEvent(a) \/ \E e \in Events : ReadForEvent(a, e)
        PROVE  SilentInv'
    BY <2>4 DEF SilentInv, AbandonEvent, ReadForEvent, batchVars
  <2>5. ASSUME NEW a \in Operators,
               \/ Reconcile(a) \/ AbandonReconcile(a) \/ ReadForReconcile(a)
               \/ \E o \in {"sent", "retry", "failed"} : CheckUncertain(a, o)
        PROVE  SilentInv'
    BY <2>5 DEF SilentInv, Reconcile, AbandonReconcile, ReadForReconcile, CheckUncertain,
       batchVars
  <2>6. CASE OthersFinish \/ Suppress \/ Tick \/ UNCHANGED vars
    BY <2>6 DEF SilentInv, OthersFinish, Suppress, Tick, vars, batchVars
  <2> QED
    BY <2>1, <2>2, <2>3, <2>4, <2>5, <2>6 DEF Next
<1> QED
  BY <1>1, <1>2, PTL DEF Spec

\* Only a batch that has claimed the row makes a provider call.
LEMMA MailsNeedClaim ==
    ASSUME [Next]_vars, batch # "claimed"
    PROVE  inbox' = inbox
<1>1. ~Process
  BY DEF Process, ProcessWithoutCall, CallAccepted, CallFailed, NeedsCall
<1>2. CASE LoadCampaign \/ Claim \/ Commit \/ Rollback \/ OthersFinish \/ Suppress
           \/ Tick \/ UNCHANGED vars
  BY <1>2 DEF LoadCampaign, Claim, Commit, Rollback, OthersFinish, Suppress, Tick, vars,
     worldVars
<1>3. ASSUME NEW a \in Reporters,
             RecordEvent(a) \/ AbandonEvent(a) \/ \E e \in Events : ReadForEvent(a, e)
      PROVE  inbox' = inbox
  BY <1>3 DEF RecordEvent, AbandonEvent, ReadForEvent, worldVars
<1>4. ASSUME NEW a \in Operators,
             \/ Reconcile(a) \/ AbandonReconcile(a) \/ ReadForReconcile(a)
             \/ \E o \in {"sent", "retry", "failed"} : CheckUncertain(a, o)
      PROVE  inbox' = inbox
  BY <1>4 DEF Reconcile, AbandonReconcile, ReadForReconcile, CheckUncertain, worldVars
<1> QED
  BY <1>1, <1>2, <1>3, <1>4 DEF Next

\* Nothing is mailed after a recorded bounce or unsubscribe, whatever operators do.
THEOREM SuppressionSilences == Spec => SuppressedStaysSilent
<1>1. SilentInv /\ [Next]_vars
        => (recorded \cap {"unsubscribed", "bounced"} # {} => inbox' = inbox)
  BY MailsNeedClaim DEF SilentInv
<1> QED
  BY <1>1, SilentInvariant, PTL DEF Spec, SuppressedStaysSilent

-----------------------------------------------------------------------------
(* Stop events *)

\* As long as no operator has asked for a retry: a batch only holds a recipient
\* that is pending, a pending recipient has seen no stop event, and no request has
\* read a finished recipient that is pending again.
StopInv ==
    regrants = 0 =>
        /\ RowLocked => row.status = "pending"
        /\ row.status = "pending" => recorded \cap StopOn = {}
        /\ \A a \in Reporters \cup Operators :
              seen[a].status # "pending" => row.status # "pending"

LEMMA StopEvent ==
    ASSUME Shape, StopInv, NEW a \in Reporters, RecordEvent(a)
    PROVE  StopInv'
<1> SUFFICES ASSUME regrants = 0
             PROVE  /\ ~RowLocked'
                    /\ row'.status = "pending" => recorded' \cap StopOn = {}
                    /\ \A b \in Reporters \cup Operators :
                          seen'[b].status # "pending" => row'.status # "pending"
  BY DEF StopInv, RecordEvent, worldVars
<1> DEFINE e == report[a]
           after == Merge(row, seen[a], AfterEvent(e, seen[a]))
<1>1. seen[a] \in AnyRow /\ e \in Events /\ row \in AnyRow
  BY DEF Shape, RecordEvent
<1>2. after.status = IF EventStatus(e, seen[a]) # seen[a].status
                     THEN EventStatus(e, seen[a]) ELSE row.status
  BY <1>1, EventShape, MergeShape
<1>3. row.status # "pending" => after.status # "pending"
  BY <1>1, <1>2, EventShape
<1>4. after.status = "pending" => e \notin StopOn
  BY <1>1, <1>2, <1>3, EventShape DEF StopInv
<1>5. /\ row.status # "pending" => row'.status # "pending"
      /\ row'.status = "pending" => recorded' \cap StopOn = {}
  <2> HIDE DEF after, e
  <2>1. \/ row' = row /\ recorded' = recorded
        \/ row' = after /\ recorded' = recorded \cup {e}
    BY DEF RecordEvent, after, e
  <2> QED
    BY <2>1, <1>3, <1>4 DEF StopInv
<1>6. ASSUME NEW b \in Reporters \cup Operators, seen'[b].status # "pending"
      PROVE  row'.status # "pending"
  <2>1. seen' = [seen EXCEPT ![a] = FreshRow]
    BY DEF RecordEvent
  <2>2. seen[b].status # "pending"
    BY <2>1, <1>6, FreshRowShape DEF Shape
  <2> QED
    BY <2>2, <1>5 DEF StopInv
<1> QED
  BY <1>5, <1>6 DEF RecordEvent, RowLocked, batchVars

LEMMA StopReconcile ==
    ASSUME Shape, StopInv, NEW a \in Operators, Reconcile(a)
    PROVE  StopInv'
<1> DEFINE merged == Merge(row, seen[a], AfterReconcile(fix[a], seen[a]))
<1>1. CASE fix[a] = "retry"
  <2>1. regrants' # 0
    BY <1>1 DEF Reconcile, Shape
  <2> QED
    BY <2>1 DEF StopInv
<1>2. CASE fix[a] # "retry"
  <2>1. seen[a] \in AnyRow /\ fix[a] \in {"sent", "retry", "failed"} /\ row \in AnyRow
    BY DEF Shape, Reconcile
  <2>2. AfterReconcile(fix[a], seen[a]) \in AnyRow
        /\ AfterReconcile(fix[a], seen[a]).status # "pending"
    BY <2>1, <1>2, ReconcileShape
  <2>3. /\ merged \in AnyRow
        /\ merged.status = IF AfterReconcile(fix[a], seen[a]).status # seen[a].status
                           THEN AfterReconcile(fix[a], seen[a]).status ELSE row.status
    BY <2>1, <2>2, MergeShape
  <2>4. regrants = 0 => merged.status # "pending"
    BY <2>2, <2>3 DEF StopInv
  <2>5. row'.status = merged.status
    <3> HIDE DEF merged
    <3>1. row' = [merged EXCEPT !.wait = IF fix[a] = "retry" THEN 0 ELSE @]
      BY DEF Reconcile, merged
    <3> QED
      BY <3>1, <2>3 DEF AnyRow
  <2>6. regrants' = regrants
    BY <1>2 DEF Reconcile
  <2>7. ~RowLocked'
    BY DEF Reconcile, RowLocked, batchVars
  <2> QED
    BY <2>4, <2>5, <2>6, <2>7 DEF StopInv
<1> QED
  BY <1>1, <1>2

LEMMA StopInvariant == Spec => []StopInv
<1>1. Init => StopInv
  BY FreshRowShape DEF Init, StopInv, RowLocked
<1>2. Shape /\ StopInv /\ [Next]_vars => StopInv'
  <2> SUFFICES ASSUME Shape, StopInv, [Next]_vars PROVE StopInv'
    OBVIOUS
  <2>1. CASE LoadCampaign \/ OthersFinish \/ Suppress \/ Rollback
    BY <2>1 DEF StopInv, RowLocked, LoadCampaign, OthersFinish, Suppress, Rollback, EndBatch,
       requestVars, worldVars, batchVars
  <2>2. CASE Claim
    BY <2>2 DEF StopInv, RowLocked, Claim, EndBatch, requestVars, worldVars
  <2>3. CASE Process
    BY <2>3 DEF StopInv, RowLocked, Process, ProcessWithoutCall, CallAccepted, CallFailed,
       NeedsCall, Finish, requestVars
  <2>4. CASE Commit
    BY <2>4 DEF StopInv, RowLocked, Commit, EndBatch, requestVars, worldVars
  <2>5. ASSUME NEW a \in Reporters, AbandonEvent(a) PROVE StopInv'
    BY <2>5, FreshRowShape DEF StopInv, RowLocked, Shape, AbandonEvent, batchVars, worldVars
  <2>6. ASSUME NEW a \in Reporters, NEW e \in Events, ReadForEvent(a, e) PROVE StopInv'
    BY <2>6 DEF StopInv, RowLocked, Shape, ReadForEvent, batchVars, worldVars
  <2>7. ASSUME NEW a \in Operators,
               \/ AbandonReconcile(a) \/ ReadForReconcile(a)
               \/ \E o \in {"sent", "retry", "failed"} : CheckUncertain(a, o)
        PROVE  StopInv'
    BY <2>7, FreshRowShape DEF StopInv, RowLocked, Shape, AbandonReconcile,
       ReadForReconcile, CheckUncertain, batchVars, worldVars
  <2>8. CASE Tick
    <3>1. row'.status = row.status
      BY <2>8 DEF Tick, Shape, AnyRow
    <3> QED
      BY <2>8, <3>1 DEF StopInv, RowLocked, Tick, batchVars, requestVars
  <2>9. CASE UNCHANGED vars
    BY <2>9 DEF StopInv, RowLocked, vars, batchVars, requestVars, worldVars
  <2> QED
    BY <2>1, <2>2, <2>3, <2>4, <2>5, <2>6, <2>7, <2>8, <2>9, StopEvent, StopReconcile
       DEF Next
<1> QED
  BY <1>1, <1>2, ShapeKept, PTL DEF Spec

\* A recorded stop event ends the sequence, unless an operator asks for a retry.
THEOREM StopEventsStop == Spec => StopEventStops
<1>1. StopInv /\ [Next]_vars
        => (recorded \cap StopOn # {} /\ regrants = 0 => inbox' = inbox)
  BY MailsNeedClaim DEF StopInv, RowLocked
<1> QED
  BY <1>1, StopInvariant, PTL DEF Spec, StopEventStops

-----------------------------------------------------------------------------
(* What the steps do to the row, column by column *)

\* A sequence advances to the next email step, or ends.
Advanced(x, s, a) ==
    /\ a \in AnyRow /\ a.tries = x.tries /\ a.err = x.err
    /\ \/ /\ \A e \in EmailSteps : e <= s
          /\ a.status = "sent" /\ a.step = Len(Steps) + 1 /\ a.wait = Never
       \/ /\ a.step \in EmailSteps /\ a.step > s
          /\ \A e \in EmailSteps : e > s => a.step <= e
          /\ a.status = "pending" /\ a.wait = a.step - s - 1

LEMMA AdvanceEffect ==
    ASSUME NEW x \in AnyRow, NEW s \in Nat
    PROVE  Advanced(x, s, AdvanceAfterStep(x, s))
<1> DEFINE later == {e \in EmailSteps : e > s}
<1>0. EmailSteps \subseteq Nat /\ Len(Steps) \in Nat
  BY StepsAreNumbered
<1>1. CASE later = {}
  <2>1. AdvanceAfterStep(x, s) = [x EXCEPT !.status = "sent", !.step = Len(Steps) + 1,
                                           !.wait = Never]
    BY <1>1 DEF AdvanceAfterStep
  <2>2. \A e \in EmailSteps : e <= s
    BY <1>0, <1>1
  <2>3. Len(Steps) + 1 \in Nat
    BY <1>0
  <2> QED
    BY <2>1, <2>2, <2>3, NeverIsInt DEF Advanced, AnyRow
<1>2. CASE later # {}
  <2> DEFINE e == CHOOSE e \in later : \A f \in later : e <= f
  <2>1. later \subseteq Nat
    BY <1>0
  <2>2. e \in later /\ \A f \in later : e <= f
    BY <2>1, <1>2, Smallest
  <2>3. AdvanceAfterStep(x, s) = [x EXCEPT !.status = "pending", !.step = e,
                                           !.wait = e - s - 1]
    BY <1>2 DEF AdvanceAfterStep
  <2>4. e \in Nat /\ e \in EmailSteps /\ e > s /\ \A f \in EmailSteps : f > s => e <= f
    BY <2>1, <2>2
  <2> HIDE DEF e
  <2>5. e - s - 1 \in Int
    BY <2>4
  <2> QED
    BY <2>3, <2>4, <2>5 DEF Advanced, AnyRow
<1> QED
  BY <1>1, <1>2

LEMMA SentEffect ==
    ASSUME NEW x \in AnyRow, NEW s \in Nat
    PROVE  Advanced([x EXCEPT !.err = "none", !.tries = 0], s, Sent(x, s))
<1>1. [x EXCEPT !.err = "none", !.tries = 0] \in AnyRow
  BY DEF AnyRow
<1> QED
  BY <1>1, AdvanceEffect DEF Sent

LEMMA FailureEffect ==
    ASSUME NEW x \in AnyRow
    PROVE  /\ LET f == RecordSendFailure(x) IN
              /\ f \in AnyRow /\ f.step = x.step /\ f.tries = x.tries /\ f.err = "send"
              /\ x.tries < MaxAttempts => f.status = x.status /\ f.wait = 1
              /\ ~(x.tries < MaxAttempts) => f.status = "failed"
           /\ LET u == Uncertain(x) IN
              /\ u \in AnyRow /\ u.step = x.step /\ u.tries = x.tries
              /\ u.err = "uncertain" /\ u.status = "failed"
<1>1. RecordSendFailure(x) \in AnyRow /\ Uncertain(x) \in AnyRow
  BY FailureShape
<1> QED
  BY <1>1, NeverIsInt DEF RecordSendFailure, Uncertain, AnyRow

LEMMA MergeEffect ==
    ASSUME NEW base \in AnyRow, NEW old \in AnyRow, NEW new \in AnyRow
    PROVE  LET m == Merge(base, old, new) IN
           /\ m \in AnyRow
           /\ m.status = IF new.status # old.status THEN new.status ELSE base.status
           /\ m.step = IF new.step # old.step THEN new.step ELSE base.step
           /\ m.tries = IF new.tries # old.tries THEN new.tries ELSE base.tries
           /\ m.wait = IF new.wait # old.wait THEN new.wait ELSE base.wait
           /\ m.err = IF new.err # old.err THEN new.err ELSE base.err
BY DEF Merge, AnyRow

LEMMA EventEffect ==
    ASSUME NEW x \in AnyRow, NEW e \in Events
    PROVE  LET a == AfterEvent(e, x) IN
           /\ a \in AnyRow /\ a.step = x.step /\ a.tries = x.tries /\ a.err = x.err
           /\ a.status \in {"pending", "failed"} => a.status = x.status
           /\ a.status = x.status => a.wait = x.wait
<1>1. AfterEvent(e, x) \in AnyRow /\ AfterEvent(e, x).status = EventStatus(e, x)
  BY EventShape
<1>2. EventStatus(e, x) \in {"pending", "failed"} => EventStatus(e, x) = x.status
  BY RecipientAssumption DEF EventStatus, ActiveSequence, EventKinds, AnyRow
<1> QED
  BY <1>1, <1>2, NeverIsInt DEF AfterEvent, ActiveSequence, AnyRow

\* An event ends a sequence or leaves it alone.
LEMMA RecordEffect ==
    ASSUME Shape, NEW a \in Reporters, RecordEvent(a)
    PROVE  /\ ~RowLocked /\ row' \in AnyRow
           /\ UNCHANGED <<msg, batch, draft, draftMsg, fresh, fix, inbox, doubt, tried, age,
                          regrants>>
           /\ row'.step = row.step /\ row'.tries = row.tries /\ row'.err = row.err
           /\ row'.status \in {"pending", "failed"} => row'.status = row.status
           /\ row'.status = "pending" => row'.wait = row.wait
           /\ seen' = [seen EXCEPT ![a] = FreshRow]
<1>1. seen[a] \in AnyRow /\ report[a] \in Events /\ row \in AnyRow
  BY DEF Shape, RecordEvent
<1> DEFINE new == AfterEvent(report[a], seen[a])
           after == Merge(row, seen[a], new)
<1>2. /\ new \in AnyRow /\ new.step = seen[a].step /\ new.tries = seen[a].tries
      /\ new.err = seen[a].err
      /\ new.status \in {"pending", "failed"} => new.status = seen[a].status
      /\ new.status = seen[a].status => new.wait = seen[a].wait
  BY <1>1, EventEffect
<1> HIDE DEF new
<1>3. /\ after \in AnyRow /\ after.step = row.step /\ after.tries = row.tries
      /\ after.err = row.err
      /\ after.status \in {"pending", "failed"} => after.status = row.status
      /\ after.status = "pending" => after.wait = row.wait
  BY <1>1, <1>2, MergeEffect
<1>4. row' = row \/ row' = after
  BY DEF RecordEvent, new
<1> HIDE DEF after
<1> QED
  BY <1>1, <1>3, <1>4 DEF RecordEvent, batchVars, worldVars

\* What the outcome an operator enters makes of the row he has read.
LEMMA ReconcileEffect ==
    ASSUME NEW x \in AnyRow, NEW outcome \in {"sent", "retry", "failed"}
    PROVE  LET a == AfterReconcile(outcome, x) IN
           /\ a \in AnyRow
           /\ outcome = "sent" => /\ a.status = "sent" /\ a.step = Len(Steps) + 1
                                  /\ a.tries = 0 /\ a.wait = Never /\ a.err = "none"
           /\ outcome = "retry" => /\ a.status = "pending" /\ a.step = x.step
                                   /\ a.tries = 0 /\ a.wait = 0 /\ a.err = "none"
           /\ outcome = "failed" => /\ a.status = "failed" /\ a.step = x.step
                                    /\ a.tries = x.tries /\ a.wait = Never
                                    /\ a.err = "reconciled"
<1>1. CASE outcome = "sent"
  <2>1. NewestMessage \in Nat /\ \A e \in EmailSteps : ~(e > NewestMessage)
    BY NewestIsLast, StepsAreNumbered
  <2> DEFINE y == [x EXCEPT !.err = "none", !.tries = 0]
  <2>2. Advanced(y, NewestMessage, Sent(x, NewestMessage)) /\ y.err = "none" /\ y.tries = 0
    BY <2>1, SentEffect DEF AnyRow
  <2>3. AfterReconcile(outcome, x) = Sent(x, NewestMessage)
    BY <1>1 DEF AfterReconcile
  <2> HIDE DEF y
  <2> QED
    BY <1>1, <2>1, <2>2, <2>3 DEF Advanced
<1>2. CASE outcome = "retry"
  <2>1. AfterReconcile(outcome, x) = [x EXCEPT !.status = "pending", !.tries = 0,
                                               !.err = "none", !.wait = 0]
    BY <1>2 DEF AfterReconcile
  <2> DEFINE a == AfterReconcile(outcome, x)
  <2>2. a \in AnyRow
    BY ReconcileShape
  <2>3. a.status = "pending" /\ a.tries = 0 /\ a.err = "none" /\ a.wait = 0
    BY <2>1 DEF AnyRow
  <2>4. a.step = x.step
    BY <2>1 DEF AnyRow
  <2> QED
    BY <1>2, <2>2, <2>3, <2>4
<1>3. CASE outcome = "failed"
  BY <1>3, NeverIsInt DEF AfterReconcile, AnyRow
<1> QED
  BY <1>1, <1>2, <1>3

\* A reconciliation writes the columns it has changed, and a retry the present date.
LEMMA FixEffect ==
    ASSUME Shape, NEW a \in Operators, Reconcile(a)
    PROVE  LET s == seen[a]
               new == AfterReconcile(fix[a], s)
           IN  /\ ~RowLocked /\ s \in AnyRow /\ new \in AnyRow /\ row' \in AnyRow
               /\ fix[a] \in {"sent", "retry", "failed"}
               /\ row'.status = IF new.status # s.status THEN new.status ELSE row.status
               /\ row'.step = IF new.step # s.step THEN new.step ELSE row.step
               /\ row'.tries = IF new.tries # s.tries THEN new.tries ELSE row.tries
               /\ row'.err = IF new.err # s.err THEN new.err ELSE row.err
               /\ row'.wait = IF fix[a] = "retry" THEN 0
                              ELSE IF new.wait # s.wait THEN new.wait ELSE row.wait
               /\ UNCHANGED <<batch, draft, draftMsg, fresh, inbox, doubt, tried, age>>
               /\ regrants' = IF fix[a] = "retry" THEN regrants + 1 ELSE regrants
               /\ msg' = [msg EXCEPT ![NewestMessage] = IF fix[a] = "sent" THEN "sent"
                                                        ELSE "failed"]
               /\ fix' = [fix EXCEPT ![a] = "none"] /\ seen' = [seen EXCEPT ![a] = FreshRow]
<1> DEFINE s == seen[a]
           new == AfterReconcile(fix[a], s)
           merged == Merge(row, s, new)
<1>1. s \in AnyRow /\ fix[a] \in {"sent", "retry", "failed"} /\ row \in AnyRow
  BY DEF Shape, Reconcile
<1>2. new \in AnyRow
  BY <1>1, ReconcileEffect
<1>3. row' = [merged EXCEPT !.wait = IF fix[a] = "retry" THEN 0 ELSE @]
  BY DEF Reconcile
<1> HIDE DEF new
<1>4. /\ merged \in AnyRow
      /\ merged.status = IF new.status # s.status THEN new.status ELSE row.status
      /\ merged.step = IF new.step # s.step THEN new.step ELSE row.step
      /\ merged.tries = IF new.tries # s.tries THEN new.tries ELSE row.tries
      /\ merged.wait = IF new.wait # s.wait THEN new.wait ELSE row.wait
      /\ merged.err = IF new.err # s.err THEN new.err ELSE row.err
  BY <1>1, <1>2, MergeEffect
<1> HIDE DEF merged
<1>5. /\ row' \in AnyRow /\ row'.status = merged.status /\ row'.step = merged.step
      /\ row'.tries = merged.tries /\ row'.err = merged.err
      /\ row'.wait = IF fix[a] = "retry" THEN 0 ELSE merged.wait
  BY <1>3, <1>4 DEF AnyRow
<1> QED
  BY <1>1, <1>2, <1>4, <1>5 DEF Reconcile, batchVars, new

\* Time passes for the row.
LEMMA TickEffect ==
    ASSUME Shape, Tick
    PROVE  /\ row' \in AnyRow
           /\ row'.status = row.status /\ row'.step = row.step /\ row'.tries = row.tries
           /\ row'.err = row.err
           /\ row'.wait = IF row.wait \in 1..MaxWait THEN row.wait - 1 ELSE row.wait
           /\ age' = Min2(age + 1, MaxWait)
           /\ UNCHANGED <<msg, batch, draft, draftMsg, fresh, report, fix, seen, inbox, doubt,
                          tried, regrants>>
BY DEF Tick, Shape, AnyRow, batchVars, requestVars

\* A claim takes the committed row, counts the attempt, and does not touch it before.
LEMMA ClaimEffect ==
    ASSUME Shape, Claim
    PROVE  /\ \/ /\ row.status = "pending" /\ row.wait = 0
                 /\ draftMsg' = msg /\ fresh' = {}
                 /\ draft'.step = row.step /\ draft'.err = row.err
                 /\ \/ batch' = "processed" /\ draft'.status = "skipped"
                    \/ /\ batch' = "claimed" /\ draft'.status = "pending"
                       /\ draft'.tries = row.tries + 1
              \/ /\ batch' = "idle" /\ draft' = FreshRow /\ draftMsg' = FreshMsg /\ fresh' = {}
           /\ UNCHANGED <<row, msg, report, fix, seen, inbox, doubt, tried, age, regrants>>
<1>1. CASE row.status = "pending" /\ row.wait = 0
  <2>1. row \in AnyRow
    BY DEF Shape
  <2>2. /\ [row EXCEPT !.status = "skipped", !.wait = Never].status = "skipped"
        /\ [row EXCEPT !.status = "skipped", !.wait = Never].step = row.step
        /\ [row EXCEPT !.status = "skipped", !.wait = Never].err = row.err
        /\ [row EXCEPT !.tries = @ + 1].status = row.status
        /\ [row EXCEPT !.tries = @ + 1].step = row.step
        /\ [row EXCEPT !.tries = @ + 1].err = row.err
        /\ [row EXCEPT !.tries = @ + 1].tries = row.tries + 1
    BY <2>1 DEF AnyRow
  <2> QED
    BY <1>1, <2>2 DEF Claim, requestVars, worldVars
<1>2. CASE ~(row.status = "pending" /\ row.wait = 0)
  BY <1>2 DEF Claim, EndBatch, requestVars, worldVars
<1> QED
  BY <1>1, <1>2

\* What a batch makes of the row it has claimed.
LEMMA ProcessEffect ==
    ASSUME Shape, ProcessWithoutCall
    PROVE  LET s == draft.step IN
           /\ batch = "claimed" /\ batch' = "processed" /\ s \in Nat /\ draft' \in AnyRow
           /\ \/ /\ s > Len(Steps) /\ draft'.status = "sent" /\ draft'.step = s
                 /\ draftMsg' = draftMsg
              \/ /\ s \in DOMAIN Steps /\ (s \in EmailSteps => draftMsg[s] = "sent")
                 /\ Advanced(draft, s, draft') /\ draftMsg' = draftMsg
              \/ /\ s \in EmailSteps /\ draftMsg[s] \in {"sending", "uncertain"}
                 /\ draft'.status = "failed" /\ draft'.err = "uncertain" /\ draft'.step = s
                 /\ draftMsg' = [draftMsg EXCEPT ![s] = "uncertain"]
           /\ UNCHANGED <<row, msg, fresh, report, fix, seen, inbox, doubt, tried, age, regrants>>
<1> DEFINE s == draft.step
<1>1. draft \in AnyRow /\ s \in Nat
  BY DEF Shape, AnyRow
<1>2. /\ [draft EXCEPT !.status = "sent", !.wait = Never] \in AnyRow
      /\ [draft EXCEPT !.status = "sent", !.wait = Never].status = "sent"
      /\ [draft EXCEPT !.status = "sent", !.wait = Never].step = s
  BY <1>1, NeverIsInt DEF AnyRow
<1>3. Advanced(draft, s, AdvanceAfterStep(draft, s))
  BY <1>1, AdvanceEffect
<1>4. /\ Uncertain(draft) \in AnyRow /\ Uncertain(draft).step = s
      /\ Uncertain(draft).err = "uncertain" /\ Uncertain(draft).status = "failed"
  BY <1>1, FailureEffect
<1>5. /\ batch = "claimed" /\ batch' = "processed"
      /\ UNCHANGED <<row, msg, fresh, report, fix, seen, inbox, doubt, tried, age, regrants>>
  BY DEF ProcessWithoutCall, Finish, requestVars
<1>6. CASE s > Len(Steps) /\ Finish([draft EXCEPT !.status = "sent", !.wait = Never], draftMsg)
  BY <1>1, <1>2, <1>5, <1>6 DEF Finish
<1>7. CASE /\ s \in DOMAIN Steps /\ (s \in EmailSteps => draftMsg[s] = "sent")
           /\ Finish(AdvanceAfterStep(draft, s), draftMsg)
  BY <1>1, <1>3, <1>5, <1>7 DEF Finish, Advanced
<1>8. CASE /\ s \in EmailSteps /\ draftMsg[s] \in {"sending", "uncertain"}
           /\ Finish(Uncertain(draft), [draftMsg EXCEPT ![s] = "uncertain"])
  BY <1>1, <1>4, <1>5, <1>8 DEF Finish
<1> QED
  BY <1>6, <1>7, <1>8 DEF ProcessWithoutCall

LEMMA AcceptedEffect ==
    ASSUME Shape, NEW s \in EmailSteps, CallAccepted(s)
    PROVE  /\ batch = "claimed" /\ batch' = "processed" /\ s = draft.step /\ s \in Nat
           /\ draftMsg[s] \in {"pending", "failed"}
           /\ Advanced([draft EXCEPT !.err = "none", !.tries = 0], s, draft')
           /\ draft'.tries = 0 /\ draft'.err = "none"
           /\ draftMsg' = [draftMsg EXCEPT ![s] = "sent"]
           /\ inbox' = [inbox EXCEPT ![s] = @ + 1] /\ fresh' = {s}
           /\ UNCHANGED <<row, msg, report, fix, seen, doubt, tried, age, regrants>>
<1> DEFINE y == [draft EXCEPT !.err = "none", !.tries = 0]
<1>1. s \in Nat /\ draft \in AnyRow
  BY StepsAreNumbered DEF Shape
<1>2. Advanced(y, s, Sent(draft, s)) /\ y.tries = 0 /\ y.err = "none"
  BY <1>1, SentEffect DEF AnyRow
<1>3. draft' = Sent(draft, s)
  BY DEF CallAccepted, Finish
<1> HIDE DEF y
<1>4. Advanced(y, s, draft') /\ draft'.tries = 0 /\ draft'.err = "none"
  BY <1>2, <1>3 DEF Advanced
<1> QED
  BY <1>1, <1>4 DEF CallAccepted, NeedsCall, Finish, requestVars, y

LEMMA FailedEffect ==
    ASSUME Shape, NEW s \in EmailSteps, CallFailed(s)
    PROVE  /\ batch = "claimed" /\ batch' = "processed" /\ s = draft.step /\ s \in Nat
           /\ draftMsg[s] \in {"pending", "failed"} /\ draft' \in AnyRow
           /\ draft'.step = s /\ draft'.tries = draft.tries
           /\ \/ draft'.status = "failed" /\ draft'.err = "uncertain"
              \/ /\ draft'.err = "send"
                 /\ draft.tries < MaxAttempts => draft'.status = draft.status /\ draft'.wait = 1
                 /\ ~(draft.tries < MaxAttempts) => draft'.status = "failed"
           /\ \E m \in {"pending", "failed", "sending", "uncertain"} :
                 draftMsg' = [draftMsg EXCEPT ![s] = m]
           /\ \E reached \in {0, 1} : /\ inbox' = [inbox EXCEPT ![s] = @ + reached]
                                      /\ doubt' = [doubt EXCEPT ![s] = @ + reached]
           /\ tried' = [tried EXCEPT ![s] = Min2(@ + 1, MaxAttempts)]
           /\ UNCHANGED <<row, msg, fresh, report, fix, seen, age, regrants>>
<1>1. s \in Nat /\ draft \in AnyRow
  BY StepsAreNumbered DEF Shape
<1>2. /\ s = draft.step /\ batch = "claimed" /\ draftMsg[s] \in {"pending", "failed"}
      /\ tried' = [tried EXCEPT ![s] = Min2(@ + 1, MaxAttempts)] /\ UNCHANGED fresh
  BY DEF CallFailed, NeedsCall
<1>3. PICK o \in Outcomes \ {"accepted"} :
        /\ Finish(IF o = "uncertain" THEN Uncertain(draft) ELSE RecordSendFailure(draft),
                  [draftMsg EXCEPT ![s] = FailedMsg(o, @)])
        /\ \E reached \in (IF o = "timeout" THEN {1}
                           ELSE IF o = "uncertain" THEN {0, 1} ELSE {0}) :
             /\ inbox' = [inbox EXCEPT ![s] = @ + reached]
             /\ doubt' = [doubt EXCEPT ![s] = @ + reached]
  BY DEF CallFailed
<1>4. /\ batch' = "processed"
      /\ draft' = IF o = "uncertain" THEN Uncertain(draft) ELSE RecordSendFailure(draft)
      /\ draftMsg' = [draftMsg EXCEPT ![s] = FailedMsg(o, draftMsg[s])]
      /\ UNCHANGED <<row, msg, report, fix, seen, age, regrants>>
  BY <1>3 DEF Finish, requestVars
<1>5. FailedMsg(o, draftMsg[s]) \in {"pending", "failed", "sending", "uncertain"}
  BY <1>2 DEF FailedMsg
<1>6. \E reached \in {0, 1} : /\ inbox' = [inbox EXCEPT ![s] = @ + reached]
                              /\ doubt' = [doubt EXCEPT ![s] = @ + reached]
  BY <1>3
<1>7. /\ draft' \in AnyRow /\ draft'.step = draft.step /\ draft'.tries = draft.tries
      /\ \/ draft'.status = "failed" /\ draft'.err = "uncertain"
         \/ /\ draft'.err = "send"
            /\ draft.tries < MaxAttempts => draft'.status = draft.status /\ draft'.wait = 1
            /\ ~(draft.tries < MaxAttempts) => draft'.status = "failed"
  BY <1>1, <1>4, FailureEffect
<1> QED
  BY <1>1, <1>2, <1>4, <1>5, <1>6, <1>7

\* A step that only reads: a request takes what it finds, or decides on it.
Quiet ==
    /\ UNCHANGED <<row, msg, draft, draftMsg, fresh, inbox, doubt, tried, age, regrants>>
    /\ batch' = batch \/ (batch = "idle" /\ batch' = "loaded")
    /\ \A a \in Reporters \cup Operators : seen'[a] \in {seen[a], row, FreshRow}
    /\ \A a \in Operators :
          \/ fix'[a] = fix[a] /\ seen'[a] = seen[a]
          \/ fix'[a] = "none"
          \/ fix'[a] = "read" /\ seen'[a] = row
          \/ fix[a] = "read" /\ msg[NewestMessage] = "uncertain" /\ seen'[a] = seen[a]

\* Every step is one of those above, or quiet.
LEMMA StepCases ==
    ASSUME Shape, [Next]_vars
    PROVE  \/ Claim \/ ProcessWithoutCall \/ Commit \/ Rollback \/ Tick \/ Quiet
           \/ \E s \in EmailSteps : CallAccepted(s) \/ CallFailed(s)
           \/ \E a \in Reporters : RecordEvent(a)
           \/ \E a \in Operators : Reconcile(a)
<1>1. CASE LoadCampaign \/ OthersFinish \/ Suppress \/ UNCHANGED vars
  <2>1. Quiet
    BY <1>1 DEF Quiet, LoadCampaign, OthersFinish, Suppress, vars, batchVars, requestVars,
       worldVars
  <2> QED
    BY <2>1
<1>2. ASSUME NEW a \in Reporters, AbandonEvent(a) \/ \E e \in Events : ReadForEvent(a, e)
      PROVE  Quiet
  <2>1. \A b \in Reporters \cup Operators : seen'[b] \in {seen[b], row, FreshRow}
    BY <1>2 DEF AbandonEvent, ReadForEvent, Shape
  <2>2. \A b \in Operators : fix'[b] = fix[b] /\ seen'[b] = seen[b]
    BY <1>2, RecipientAssumption DEF AbandonEvent, ReadForEvent, Shape
  <2> QED
    BY <1>2, <2>1, <2>2 DEF Quiet, AbandonEvent, ReadForEvent, batchVars, worldVars
<1>3. ASSUME NEW a \in Operators, AbandonReconcile(a) \/ ReadForReconcile(a)
      PROVE  Quiet
  <2>1. \A b \in Reporters \cup Operators : seen'[b] \in {seen[b], row, FreshRow}
    BY <1>3 DEF AbandonReconcile, ReadForReconcile, Shape
  <2>2. \A b \in Operators :
          \/ fix'[b] = fix[b] /\ seen'[b] = seen[b]
          \/ fix'[b] = "none"
          \/ fix'[b] = "read" /\ seen'[b] = row
    BY <1>3 DEF AbandonReconcile, ReadForReconcile, Shape
  <2> QED
    BY <1>3, <2>1, <2>2 DEF Quiet, AbandonReconcile, ReadForReconcile, batchVars, worldVars
<1>4. ASSUME NEW a \in Operators, NEW o \in {"sent", "retry", "failed"}, CheckUncertain(a, o)
      PROVE  Quiet
  <2>1. \A b \in Operators :
          \/ fix'[b] = fix[b] /\ seen'[b] = seen[b]
          \/ fix[b] = "read" /\ msg[NewestMessage] = "uncertain" /\ seen'[b] = seen[b]
    BY <1>4 DEF CheckUncertain, Shape
  <2> QED
    BY <1>4, <2>1 DEF Quiet, CheckUncertain, batchVars, worldVars
<1> QED
  BY <1>1, <1>2, <1>3, <1>4 DEF Next, Process

-----------------------------------------------------------------------------
(* The row lock *)

\* A batch holds a pending row, and works on what it has claimed.
LockInv ==
    /\ RowLocked => row.status = "pending"
    /\ batch = "claimed" => /\ draft.step = row.step /\ draft.tries = row.tries + 1
                            /\ draft.status = "pending" /\ draft.err = row.err
                            /\ draftMsg = msg
    /\ batch = "processed" => draft.step >= row.step
    /\ fresh # {} => batch = "processed"

LEMMA LockInvariant == Spec => []LockInv
<1>1. Init => LockInv
  BY DEF Init, LockInv, RowLocked
<1>2. Shape /\ LockInv /\ [Next]_vars => LockInv'
  <2> SUFFICES ASSUME Shape, LockInv, [Next]_vars PROVE LockInv'
    OBVIOUS
  <2>0. row \in AnyRow /\ row.step \in Nat /\ draft.step \in Nat
    BY DEF Shape, AnyRow
  <2>1. CASE Claim
    BY <2>0, <2>1, ClaimEffect DEF LockInv, RowLocked
  <2>2. CASE ProcessWithoutCall
    <3>1. draft'.step >= draft.step
      BY <2>0, <2>2, ProcessEffect, StepsAreNumbered DEF Advanced
    <3> QED
      BY <2>0, <2>2, <3>1, ProcessEffect DEF LockInv, RowLocked
  <2>3. ASSUME NEW s \in EmailSteps, CallAccepted(s) PROVE LockInv'
    <3>1. draft'.step >= draft.step
      <4>1. draft.step <= Len(Steps)
        BY <2>0, <2>3, AcceptedEffect, StepsAreNumbered
      <4> QED
        BY <2>0, <2>3, <4>1, AcceptedEffect, StepsAreNumbered DEF Advanced
    <3> QED
      BY <2>0, <2>3, <3>1, AcceptedEffect DEF LockInv, RowLocked
  <2>4. ASSUME NEW s \in EmailSteps, CallFailed(s) PROVE LockInv'
    BY <2>0, <2>4, FailedEffect DEF LockInv, RowLocked
  <2>5. CASE Commit \/ Rollback
    BY <2>5 DEF LockInv, RowLocked, Commit, Rollback, EndBatch
  <2>6. ASSUME NEW a \in Reporters, RecordEvent(a) PROVE LockInv'
    BY <2>6, RecordEffect DEF LockInv, RowLocked
  <2>7. ASSUME NEW a \in Operators, Reconcile(a) PROVE LockInv'
    BY <2>7, FixEffect DEF LockInv, RowLocked
  <2>8. CASE Tick
    BY <2>8, TickEffect DEF LockInv, RowLocked
  <2>9. CASE Quiet
    BY <2>9 DEF Quiet, LockInv, RowLocked
  <2> QED
    BY <2>1, <2>2, <2>3, <2>4, <2>5, <2>6, <2>7, <2>8, <2>9, StepCases
<1> QED
  BY <1>1, <1>2, ShapeKept, PTL DEF Spec

-----------------------------------------------------------------------------
(* The order of the steps *)

\* Every email step before k was mailed.  The newest message is left out: an operator may
\* declare it sent.
MailedBefore(k) == \A p \in EmailSteps : p < k /\ p # NewestMessage => inbox[p] > 0

\* An operator has found the newest message uncertain.
Decided(a) == fix[a] \in {"sent", "retry", "failed"}

OrderInv ==
    /\ inbox \in [EmailSteps -> Nat]
    /\ msg \in [EmailSteps -> {"pending", "sending", "sent", "failed", "uncertain"}]
    /\ draftMsg \in [EmailSteps -> {"pending", "sending", "sent", "failed", "uncertain"}]
    /\ \A s \in EmailSteps : inbox[s] > 0 => MailedBefore(s)
    /\ MailedBefore(row.step) /\ MailedBefore(draft.step)
    /\ \A a \in Reporters \cup Operators : MailedBefore(seen[a].step)
    /\ \A s \in EmailSteps :
          s # NewestMessage /\ "sent" \in {msg[s], draftMsg[s]} => inbox[s] > 0
    /\ \/ "uncertain" \in {msg[NewestMessage], draftMsg[NewestMessage]}
       \/ \E a \in Operators : Decided(a)
       => MailedBefore(NewestMessage)

\* What was mailed before a step, and the step itself, was mailed before the next one.
LEMMA AdvancedOrder ==
    ASSUME NEW x, NEW s \in Nat, NEW a, Advanced(x, s, a), MailedBefore(s),
           s \in EmailSteps /\ s # NewestMessage => inbox[s] > 0
    PROVE  MailedBefore(a.step)
<1> SUFFICES ASSUME NEW p \in EmailSteps, p < a.step, p # NewestMessage PROVE inbox[p] > 0
  BY DEF MailedBefore
<1>1. p \in Nat
  BY StepsAreNumbered
<1>2. p <= s
  BY <1>1, StepsAreNumbered DEF Advanced
<1> QED
  BY <1>1, <1>2 DEF MailedBefore

LEMMA OrderOfReconcile ==
    ASSUME Shape, OrderInv, NEW a \in Operators, Reconcile(a)
    PROVE  OrderInv'
<1> DEFINE N == NewestMessage
           s == seen[a]
           new == AfterReconcile(fix[a], s)
<1>1. /\ s \in AnyRow /\ fix[a] \in {"sent", "retry", "failed"} /\ inbox' = inbox
      /\ row'.step = IF new.step # s.step THEN new.step ELSE row.step
      /\ msg' = [msg EXCEPT ![N] = IF fix[a] = "sent" THEN "sent" ELSE "failed"]
      /\ fix' = [fix EXCEPT ![a] = "none"] /\ seen' = [seen EXCEPT ![a] = FreshRow]
      /\ draft' = draft /\ draftMsg' = draftMsg
  BY FixEffect
<1>2. new.step = s.step \/ new.step = Len(Steps) + 1
  BY <1>1, ReconcileEffect
<1> HIDE DEF new
<1>3. N \in EmailSteps /\ \A e \in EmailSteps : e <= N
  BY NewestIsLast
<1>4. MailedBefore(N)
  BY <1>1 DEF OrderInv, Decided
<1>5. MailedBefore(Len(Steps) + 1)
  <2> SUFFICES ASSUME NEW p \in EmailSteps, p # N PROVE inbox[p] > 0
    BY DEF MailedBefore
  <2>1. p < N
    BY <1>3, StepsAreNumbered
  <2> QED
    BY <2>1, <1>4 DEF MailedBefore
<1>6. MailedBefore(row'.step)
  BY <1>1, <1>2, <1>5 DEF OrderInv
<1>7. MailedBefore(1)
  BY StepsAreNumbered DEF MailedBefore
<1>8. \A b \in Reporters \cup Operators : MailedBefore(seen'[b].step)
  BY <1>1, <1>7 DEF OrderInv, Shape, FreshRow
<1>9. \A q \in EmailSteps : q # N => msg'[q] = msg[q]
  BY <1>1 DEF OrderInv
<1>10. msg' \in [EmailSteps -> {"pending", "sending", "sent", "failed", "uncertain"}]
  BY <1>1 DEF OrderInv
<1> QED
  BY <1>1, <1>4, <1>6, <1>8, <1>9, <1>10 DEF OrderInv, MailedBefore

LEMMA OrderOfProcess ==
    ASSUME Shape, LockInv, OrderInv, ProcessWithoutCall
    PROVE  OrderInv'
<1> DEFINE N == NewestMessage
           s == draft.step
<1>1. /\ batch = "claimed" /\ s \in Nat
      /\ \/ /\ s > Len(Steps) /\ draft'.status = "sent" /\ draft'.step = s
            /\ draftMsg' = draftMsg
         \/ /\ s \in DOMAIN Steps /\ (s \in EmailSteps => draftMsg[s] = "sent")
            /\ Advanced(draft, s, draft') /\ draftMsg' = draftMsg
         \/ /\ s \in EmailSteps /\ draftMsg[s] \in {"sending", "uncertain"}
            /\ draft'.status = "failed" /\ draft'.err = "uncertain" /\ draft'.step = s
            /\ draftMsg' = [draftMsg EXCEPT ![s] = "uncertain"]
      /\ UNCHANGED <<row, msg, fix, seen, inbox>>
  BY ProcessEffect
<1>2. MailedBefore(s)
  BY DEF OrderInv
<1>3. s \in EmailSteps /\ s # N /\ draftMsg[s] = "sent" => inbox[s] > 0
  BY DEF OrderInv
<1>4. MailedBefore(draft'.step)
  BY <1>1, <1>2, <1>3, AdvancedOrder
<1>5. /\ draftMsg' \in [EmailSteps -> {"pending", "sending", "sent", "failed", "uncertain"}]
      /\ \A q \in EmailSteps : draftMsg'[q] = "sent" => draftMsg[q] = "sent"
      /\ "uncertain" = draftMsg'[N] => "uncertain" = draftMsg[N] \/ s = N
  BY <1>1, NewestIsLast DEF OrderInv
<1> QED
  BY <1>1, <1>2, <1>4, <1>5 DEF OrderInv, MailedBefore, Decided

LEMMA OrderOfAccepted ==
    ASSUME Shape, LockInv, OrderInv, NEW s \in EmailSteps, CallAccepted(s)
    PROVE  OrderInv'
<1> DEFINE N == NewestMessage
           y == [draft EXCEPT !.err = "none", !.tries = 0]
<1>1. /\ s = draft.step /\ s \in Nat
      /\ Advanced(y, s, draft')
      /\ draftMsg' = [draftMsg EXCEPT ![s] = "sent"]
      /\ inbox' = [inbox EXCEPT ![s] = @ + 1]
      /\ UNCHANGED <<row, msg, fix, seen>>
  BY AcceptedEffect
<1>2. MailedBefore(s)
  BY <1>1 DEF OrderInv
<1>3. /\ inbox' \in [EmailSteps -> Nat] /\ inbox'[s] > 0
      /\ \A p \in EmailSteps : inbox'[p] >= inbox[p] /\ (p # s => inbox'[p] = inbox[p])
  BY <1>1 DEF OrderInv
<1>4. \A p \in EmailSteps : p <= s /\ p # N => inbox'[p] > 0
  <2> SUFFICES ASSUME NEW p \in EmailSteps, p <= s, p # N PROVE inbox'[p] > 0
    OBVIOUS
  <2>1. CASE p = s
    BY <1>3, <2>1
  <2>2. CASE p # s
    <3>1. p < s /\ p \in Nat
      BY <1>1, <2>2, StepsAreNumbered
    <3> QED
      BY <1>2, <1>3, <2>2, <3>1 DEF MailedBefore
  <2> QED
    BY <2>1, <2>2
<1>5. \A p \in EmailSteps : p < draft'.step /\ p # N => inbox'[p] > 0
  <2> SUFFICES ASSUME NEW p \in EmailSteps, p < draft'.step, p # N PROVE inbox'[p] > 0
    OBVIOUS
  <2>1. p <= s
    BY <1>1, StepsAreNumbered DEF Advanced
  <2> QED
    BY <1>4, <2>1
<1>6. /\ draftMsg' \in [EmailSteps -> {"pending", "sending", "sent", "failed", "uncertain"}]
      /\ \A q \in EmailSteps : draftMsg'[q] = "sent" => draftMsg[q] = "sent" \/ q = s
      /\ "uncertain" = draftMsg'[N] => "uncertain" = draftMsg[N]
  BY <1>1, NewestIsLast DEF OrderInv
<1>7. \A k : MailedBefore(k) => \A p \in EmailSteps : p < k /\ p # N => inbox'[p] > 0
  BY <1>3 DEF MailedBefore, OrderInv
<1> HIDE DEF y
<1>8. \A q \in EmailSteps : inbox'[q] > 0 =>
         \A p \in EmailSteps : p < q /\ p # N => inbox'[p] > 0
  BY <1>2, <1>3, <1>7 DEF OrderInv
<1>9. \A q \in EmailSteps : q # N /\ "sent" \in {msg'[q], draftMsg'[q]} => inbox'[q] > 0
  BY <1>1, <1>3, <1>6 DEF OrderInv
<1> QED
  BY <1>1, <1>3, <1>5, <1>6, <1>7, <1>8, <1>9 DEF OrderInv, MailedBefore, Decided

LEMMA OrderOfFailed ==
    ASSUME Shape, LockInv, OrderInv, NEW s \in EmailSteps, CallFailed(s)
    PROVE  OrderInv'
<1> DEFINE N == NewestMessage
<1>1. /\ s = draft.step /\ s \in Nat /\ draft'.step = s
      /\ \E m \in {"pending", "failed", "sending", "uncertain"} :
            draftMsg' = [draftMsg EXCEPT ![s] = m]
      /\ \E reached \in {0, 1} : inbox' = [inbox EXCEPT ![s] = @ + reached]
      /\ UNCHANGED <<row, msg, fix, seen>>
  BY FailedEffect
<1>2. MailedBefore(s)
  BY <1>1 DEF OrderInv
<1>3. /\ inbox' \in [EmailSteps -> Nat]
      /\ \A p \in EmailSteps : inbox'[p] >= inbox[p] /\ (p # s => inbox'[p] = inbox[p])
  BY <1>1 DEF OrderInv
<1>4. /\ draftMsg' \in [EmailSteps -> {"pending", "sending", "sent", "failed", "uncertain"}]
      /\ \A q \in EmailSteps : draftMsg'[q] = "sent" => draftMsg[q] = "sent"
      /\ "uncertain" = draftMsg'[N] => "uncertain" = draftMsg[N] \/ s = N
  BY <1>1, NewestIsLast DEF OrderInv
<1>5. \A k : MailedBefore(k) => \A p \in EmailSteps : p < k /\ p # N => inbox'[p] > 0
  BY <1>3 DEF MailedBefore, OrderInv
<1>6. \A q \in EmailSteps : inbox'[q] > 0 =>
         \A p \in EmailSteps : p < q /\ p # N => inbox'[p] > 0
  BY <1>2, <1>3, <1>5 DEF OrderInv
<1>7. \A q \in EmailSteps : q # N /\ "sent" \in {msg'[q], draftMsg'[q]} => inbox'[q] > 0
  BY <1>1, <1>3, <1>4 DEF OrderInv
<1> QED
  BY <1>1, <1>2, <1>3, <1>4, <1>5, <1>6, <1>7 DEF OrderInv, MailedBefore, Decided

LEMMA OrderInvariant == Spec => []OrderInv
<1>0. MailedBefore(1) /\ FreshRow.step = 1
  BY StepsAreNumbered DEF MailedBefore, FreshRow
<1>1. Init => OrderInv
  BY <1>0, NewestIsLast DEF Init, OrderInv, FreshMsg, MailedBefore, Decided
<1>2. Shape /\ LockInv /\ OrderInv /\ [Next]_vars => OrderInv'
  <2> SUFFICES ASSUME Shape, LockInv, OrderInv, [Next]_vars PROVE OrderInv'
    OBVIOUS
  <2>1. CASE Claim
    BY <2>1, <1>0, NewestIsLast, ClaimEffect DEF OrderInv, MailedBefore, Decided, FreshMsg
  <2>2. CASE ProcessWithoutCall
    BY <2>2, OrderOfProcess
  <2>3. ASSUME NEW s \in EmailSteps, CallAccepted(s) \/ CallFailed(s) PROVE OrderInv'
    BY <2>3, OrderOfAccepted, OrderOfFailed
  <2>4. CASE Commit \/ Rollback
    BY <2>4, <1>0, NewestIsLast
       DEF OrderInv, MailedBefore, Decided, FreshMsg, Commit, Rollback, EndBatch, requestVars,
           worldVars
  <2>5. ASSUME NEW a \in Reporters, RecordEvent(a) PROVE OrderInv'
    <3>1. \A b \in Reporters \cup Operators : seen'[b] \in {seen[b], FreshRow}
      BY <2>5, RecordEffect DEF Shape
    <3> QED
      BY <2>5, <3>1, <1>0, RecordEffect DEF OrderInv, MailedBefore, Decided
  <2>6. ASSUME NEW a \in Operators, Reconcile(a) PROVE OrderInv'
    BY <2>6, OrderOfReconcile
  <2>7. CASE Tick
    BY <2>7, TickEffect DEF OrderInv, MailedBefore, Decided
  <2>8. CASE Quiet
    BY <2>8, <1>0 DEF Quiet, OrderInv, MailedBefore, Decided
  <2> QED
    BY <2>1, <2>2, <2>3, <2>4, <2>5, <2>6, <2>7, <2>8, StepCases
<1> QED
  BY <1>1, <1>2, ShapeKept, LockInvariant, PTL DEF Spec

\* No step is mailed before every earlier email step was, whatever fails, is reconciled or is
\* reported in between.
THEOREM SequenceIsInOrder == Spec => []StepsInOrder
<1>1. OrderInv => StepsInOrder
  <2> SUFFICES ASSUME OrderInv, NEW s \in EmailSteps, inbox[s] > 0,
                      NEW p \in EmailSteps, p < s
               PROVE  inbox[p] > 0
    BY DEF StepsInOrder
  <2>1. p # NewestMessage
    BY NewestIsLast, StepsAreNumbered
  <2> QED
    BY <2>1 DEF OrderInv, MailedBefore
<1> QED
  BY <1>1, OrderInvariant, PTL

-----------------------------------------------------------------------------
(* Completion *)

\* Without a retry no request makes a finished recipient pending again.
LEMMA FinishedStays ==
    ASSUME Shape, StopInv, regrants' = 0,
           \/ \E a \in Reporters : RecordEvent(a)
           \/ \E a \in Operators : Reconcile(a)
    PROVE  /\ ~RowLocked /\ regrants = 0
           /\ row.status # "pending" => row'.status # "pending"
           /\ cstatus' \in {cstatus, IF row'.status # "pending" /\ ~othersOpen
                                     THEN "completed" ELSE cstatus}
<1>1. ASSUME NEW a \in Reporters, RecordEvent(a)
      PROVE  /\ ~RowLocked /\ regrants = 0
             /\ row.status # "pending" => row'.status # "pending"
             /\ cstatus' \in {cstatus, IF row'.status # "pending" /\ ~othersOpen
                                       THEN "completed" ELSE cstatus}
  BY <1>1, RecordEffect DEF RecordEvent, CompletedBy, Terminal
<1>2. ASSUME NEW a \in Operators, Reconcile(a)
      PROVE  /\ ~RowLocked /\ regrants = 0
             /\ row.status # "pending" => row'.status # "pending"
             /\ cstatus' \in {cstatus, IF row'.status # "pending" /\ ~othersOpen
                                       THEN "completed" ELSE cstatus}
  <2> DEFINE new == AfterReconcile(fix[a], seen[a])
  <2>1. /\ ~RowLocked /\ fix[a] \in {"sent", "retry", "failed"} /\ seen[a] \in AnyRow
        /\ row'.status = IF new.status # seen[a].status THEN new.status ELSE row.status
        /\ regrants' = IF fix[a] = "retry" THEN regrants + 1 ELSE regrants
    BY <1>2, FixEffect
  <2>2. fix[a] # "retry" /\ regrants = 0
    BY <2>1 DEF Shape
  <2>3. new.status # "pending"
    BY <2>1, <2>2, ReconcileShape
  <2>4. cstatus' = IF row'.status # "pending" /\ ~othersOpen THEN "completed" ELSE cstatus
    BY <1>2 DEF Reconcile, CompletedBy, Terminal
  <2> HIDE DEF new
  <2> QED
    BY <2>1, <2>2, <2>3, <2>4
<1> QED
  BY <1>1, <1>2

\* A campaign is not completed while a recipient may still be mailed.
THEOREM CompletionIsFinal == Spec => []CompletedMeansTerminal
<1>1. Init => CompletedMeansTerminal
  BY DEF Init, CompletedMeansTerminal
<1>2. Shape /\ StopInv /\ CompletedMeansTerminal /\ [Next]_vars => CompletedMeansTerminal'
  <2> SUFFICES ASSUME Shape, StopInv, CompletedMeansTerminal, [Next]_vars
               PROVE  CompletedMeansTerminal'
    OBVIOUS
  <2>1. CASE LoadCampaign \/ Claim \/ Rollback \/ Suppress \/ UNCHANGED vars
    BY <2>1 DEF CompletedMeansTerminal, Terminal, LoadCampaign, Claim, Rollback, Suppress,
       vars, worldVars
  <2>2. CASE Process
    BY <2>2 DEF CompletedMeansTerminal, Terminal, Process, ProcessWithoutCall, CallAccepted,
       CallFailed, Finish
  <2>3. CASE Commit
    BY <2>3 DEF CompletedMeansTerminal, Terminal, Commit, CompletedBy, StopInv, RowLocked,
       worldVars
  <2>4. CASE OthersFinish
    BY <2>4 DEF CompletedMeansTerminal, Terminal, OthersFinish, worldVars
  <2>5. CASE Tick
    <3>1. row'.status = row.status /\ regrants' = regrants
      BY <2>5, TickEffect
    <3> QED
      BY <2>5, <3>1 DEF CompletedMeansTerminal, Terminal, Tick
  <2>6. ASSUME NEW a \in Reporters,
               AbandonEvent(a) \/ \E e \in Events : ReadForEvent(a, e)
        PROVE  CompletedMeansTerminal'
    BY <2>6 DEF CompletedMeansTerminal, Terminal, AbandonEvent, ReadForEvent, worldVars
  <2>7. ASSUME NEW a \in Operators,
               \/ AbandonReconcile(a) \/ ReadForReconcile(a)
               \/ \E o \in {"sent", "retry", "failed"} : CheckUncertain(a, o)
        PROVE  CompletedMeansTerminal'
    BY <2>7 DEF CompletedMeansTerminal, Terminal, AbandonReconcile, ReadForReconcile,
       CheckUncertain, worldVars
  <2>8. ASSUME \/ \E a \in Reporters : RecordEvent(a)
               \/ \E a \in Operators : Reconcile(a)
        PROVE  CompletedMeansTerminal'
    BY <2>8, FinishedStays DEF CompletedMeansTerminal, Terminal
  <2> QED
    BY <2>1, <2>2, <2>3, <2>4, <2>5, <2>6, <2>7, <2>8 DEF Next
<1> QED
  BY <1>1, <1>2, ShapeKept, StopInvariant, PTL DEF Spec

-----------------------------------------------------------------------------
(* Operators and the newest message *)

\* Only a recipient that has come to the newest message is reconciled.
NewestInv ==
    /\ msg[NewestMessage] = "uncertain" => row.step >= NewestMessage
    /\ RowLocked /\ draftMsg[NewestMessage] = "uncertain" => draft.step >= NewestMessage
    /\ \A a \in Operators : Decided(a) => row.step >= NewestMessage

LEMMA NewestInvariant == Spec => []NewestInv
<1>0. NewestMessage \in EmailSteps /\ NewestMessage \in Nat /\ NewestMessage <= Len(Steps)
      /\ Len(Steps) \in Nat
  BY NewestIsLast, StepsAreNumbered
<1>1. Init => NewestInv
  BY <1>0 DEF Init, NewestInv, RowLocked, FreshMsg, Decided
<1>2. Shape /\ LockInv /\ OrderInv /\ NewestInv /\ [Next]_vars => NewestInv'
  <2> SUFFICES ASSUME Shape, LockInv, OrderInv, NewestInv, [Next]_vars PROVE NewestInv'
    OBVIOUS
  <2>0. row.step \in Nat /\ draft.step \in Nat
    BY DEF Shape, AnyRow
  <2>1. CASE Claim
    BY <2>0, <2>1, ClaimEffect DEF NewestInv, RowLocked, Decided
  <2>2. CASE ProcessWithoutCall
    <3>1. draft'.step \in Nat /\ draft'.step >= draft.step
      BY <2>0, <2>2, ProcessEffect, StepsAreNumbered DEF Advanced, AnyRow
    <3>2. draftMsg'[NewestMessage] = "uncertain"
            => draftMsg[NewestMessage] = "uncertain" \/ draft'.step = NewestMessage
      BY <1>0, <2>2, ProcessEffect DEF OrderInv
    <3>3. /\ batch = "claimed" /\ UNCHANGED <<row, msg, fix>>
      BY <2>2, ProcessEffect
    <3> QED
      BY <1>0, <2>0, <3>1, <3>2, <3>3 DEF NewestInv, RowLocked, Decided
  <2>3. ASSUME NEW s \in EmailSteps, CallAccepted(s) PROVE NewestInv'
    <3>1. draft'.step \in Nat /\ draft'.step >= draft.step
      <4>1. draft.step <= Len(Steps)
        BY <2>0, <2>3, AcceptedEffect, StepsAreNumbered
      <4> QED
        BY <2>0, <2>3, <4>1, AcceptedEffect, StepsAreNumbered DEF Advanced, AnyRow
    <3>2. draftMsg'[NewestMessage] = "uncertain" => draftMsg[NewestMessage] = "uncertain"
      BY <1>0, <2>3, AcceptedEffect DEF OrderInv
    <3>3. /\ batch = "claimed" /\ UNCHANGED <<row, msg, fix>>
      BY <2>3, AcceptedEffect
    <3> QED
      BY <1>0, <2>0, <3>1, <3>2, <3>3 DEF NewestInv, RowLocked, Decided
  <2>4. ASSUME NEW s \in EmailSteps, CallFailed(s) PROVE NewestInv'
    <3>1. draft'.step = draft.step /\ s = draft.step
          /\ batch = "claimed" /\ UNCHANGED <<row, msg, fix>>
      BY <2>4, FailedEffect
    <3>2. draftMsg'[NewestMessage] = "uncertain"
            => draftMsg[NewestMessage] = "uncertain" \/ s = NewestMessage
      BY <1>0, <2>4, FailedEffect DEF OrderInv
    <3> QED
      BY <1>0, <2>0, <3>1, <3>2 DEF NewestInv, RowLocked, Decided
  <2>5. CASE Commit \/ Rollback
    BY <1>0, <2>0, <2>5 DEF NewestInv, LockInv, RowLocked, Decided, Commit, Rollback, EndBatch,
       requestVars
  <2>6. ASSUME NEW a \in Reporters, RecordEvent(a) PROVE NewestInv'
    BY <2>6, RecordEffect DEF NewestInv, RowLocked, Decided
  <2>7. ASSUME NEW a \in Operators, Reconcile(a) PROVE NewestInv'
    <3>1. row.step >= NewestMessage /\ ~RowLocked' /\ ~RowLocked
      BY <2>7, FixEffect DEF NewestInv, Decided, RowLocked
    <3>2. row'.step = row.step \/ row'.step = Len(Steps) + 1
      BY <2>7, FixEffect, ReconcileEffect
    <3>3. row'.step >= NewestMessage
      BY <1>0, <2>0, <3>1, <3>2
    <3>4. msg'[NewestMessage] # "uncertain"
      BY <1>0, <2>7, FixEffect DEF OrderInv
    <3> QED
      BY <3>1, <3>3, <3>4 DEF NewestInv
  <2>8. CASE Tick
    BY <2>8, TickEffect DEF NewestInv, RowLocked, Decided
  <2>9. CASE Quiet
    BY <2>9 DEF Quiet, NewestInv, RowLocked, Decided
  <2> QED
    BY <2>1, <2>2, <2>3, <2>4, <2>5, <2>6, <2>7, <2>8, <2>9, StepCases
<1> QED
  BY <1>1, <1>2, ShapeKept, LockInvariant, OrderInvariant, PTL DEF Spec

-----------------------------------------------------------------------------
(* Resent mails *)

\* Resends of step s that are explained by now.
Owed(s) == doubt[s] + (IF s = NewestMessage THEN regrants ELSE 0)

\* A recipient whose turn it is for step s has had every mail of it explained; an accepted
\* mail that is not committed yet takes its turn away.
ResendInv ==
    /\ doubt \in [EmailSteps -> Nat]
    /\ \A s \in EmailSteps :
          /\ inbox[s] <= Owed(s) + 1
          /\ row.status = "pending" /\ row.step <= s /\ s \notin fresh => inbox[s] <= Owed(s)
          /\ s \in fresh => ~(draft.status = "pending" /\ draft.step <= s)

LEMMA ResendOfAccepted ==
    ASSUME Shape, LockInv, OrderInv, ResendInv, NEW s \in EmailSteps, CallAccepted(s)
    PROVE  ResendInv'
<1> DEFINE y == [draft EXCEPT !.err = "none", !.tries = 0]
<1>1. /\ s = draft.step /\ s \in Nat /\ batch = "claimed" /\ fresh' = {s}
      /\ Advanced(y, s, draft') /\ inbox' = [inbox EXCEPT ![s] = @ + 1]
      /\ UNCHANGED <<row, doubt, regrants>>
  BY AcceptedEffect
<1>2. row.status = "pending" /\ row.step = s /\ fresh = {}
  BY <1>1 DEF LockInv, RowLocked
<1>3. ~(draft'.status = "pending" /\ draft'.step <= s)
  BY <1>1, StepsAreNumbered DEF Advanced
<1>4. inbox[s] \in Nat /\ inbox[s] <= Owed(s)
  BY <1>1, <1>2 DEF ResendInv, OrderInv
<1>5. \A q \in EmailSteps : Owed(q)' = Owed(q) /\ Owed(q) \in Nat
  BY <1>1 DEF Owed, ResendInv, Shape
<1>6. inbox'[s] = inbox[s] + 1 /\ \A q \in EmailSteps : q # s => inbox'[q] = inbox[q]
  BY <1>1 DEF OrderInv
<1> HIDE DEF y
<1>7. doubt' \in [EmailSteps -> Nat]
  BY <1>1 DEF ResendInv
<1> QED
  BY <1>1, <1>2, <1>3, <1>4, <1>5, <1>6, <1>7 DEF ResendInv

LEMMA ResendOfFailed ==
    ASSUME Shape, LockInv, OrderInv, ResendInv, NEW s \in EmailSteps, CallFailed(s)
    PROVE  ResendInv'
<1>1. /\ batch = "claimed" /\ UNCHANGED <<row, fresh, regrants>>
      /\ \E reached \in {0, 1} : /\ inbox' = [inbox EXCEPT ![s] = @ + reached]
                                 /\ doubt' = [doubt EXCEPT ![s] = @ + reached]
  BY FailedEffect
<1>2. fresh = {}
  BY <1>1 DEF LockInv
<1>3. PICK r \in {0, 1} : /\ inbox' = [inbox EXCEPT ![s] = @ + r]
                          /\ doubt' = [doubt EXCEPT ![s] = @ + r]
  BY <1>1
<1>4. /\ doubt' \in [EmailSteps -> Nat]
      /\ \A q \in EmailSteps : /\ inbox[q] \in Nat /\ doubt[q] \in Nat
                               /\ inbox'[q] = IF q = s THEN inbox[q] + r ELSE inbox[q]
                               /\ doubt'[q] = IF q = s THEN doubt[q] + r ELSE doubt[q]
  BY <1>3 DEF OrderInv, ResendInv
<1> QED
  BY <1>1, <1>2, <1>4 DEF ResendInv, Owed, Shape

LEMMA ResendOfReconcile ==
    ASSUME Shape, LockInv, OrderInv, NewestInv, ResendInv, NEW a \in Operators, Reconcile(a)
    PROVE  ResendInv'
<1> DEFINE N == NewestMessage
           s == seen[a]
           new == AfterReconcile(fix[a], s)
<1>1. /\ ~RowLocked /\ fix[a] \in {"sent", "retry", "failed"} /\ s \in AnyRow
      /\ row'.status = IF new.status # s.status THEN new.status ELSE row.status
      /\ row'.step = IF new.step # s.step THEN new.step ELSE row.step
      /\ UNCHANGED <<draft, fresh, inbox, doubt>>
      /\ regrants' = IF fix[a] = "retry" THEN regrants + 1 ELSE regrants
  BY FixEffect
<1>2. fresh = {} /\ row.step >= N
  BY <1>1 DEF LockInv, RowLocked, NewestInv, Decided
<1>3. /\ fix[a] = "retry" => new.step = s.step
      /\ fix[a] # "retry" => /\ new.status # "pending"
                             /\ new.step = s.step \/ new.step = Len(Steps) + 1
  BY <1>1, ReconcileEffect
<1> HIDE DEF new
<1>4. /\ N \in Nat /\ Len(Steps) \in Nat /\ row.step \in Nat
      /\ \A q \in EmailSteps : q \in Nat /\ q <= N /\ q <= Len(Steps) /\ inbox[q] \in Nat
                               /\ doubt[q] \in Nat
  BY NewestIsLast, StepsAreNumbered DEF Shape, AnyRow, OrderInv, ResendInv
<1>5. CASE fix[a] = "retry"
  <2>1. \A q \in EmailSteps : row'.step <= q => q = N
    BY <1>1, <1>2, <1>3, <1>4, <1>5
  <2>2. regrants' = regrants + 1 /\ regrants \in Nat
    BY <1>1, <1>5 DEF Shape
  <2> QED
    BY <1>1, <1>2, <1>4, <2>1, <2>2 DEF ResendInv, Owed
<1>6. CASE fix[a] # "retry"
  <2>1. \A q \in EmailSteps : row'.status = "pending" /\ row'.step <= q
                                 => row.status = "pending" /\ row.step <= q
    BY <1>1, <1>3, <1>4, <1>6
  <2> QED
    BY <1>1, <1>2, <1>6, <2>1 DEF ResendInv, Owed
<1> QED
  BY <1>5, <1>6

LEMMA ResendInvariant == Spec => []ResendInv
<1>1. Init => ResendInv
  BY DEF Init, ResendInv, Owed
<1>2. Shape /\ LockInv /\ OrderInv /\ NewestInv /\ ResendInv /\ [Next]_vars => ResendInv'
  <2> SUFFICES ASSUME Shape, LockInv, OrderInv, NewestInv, ResendInv, [Next]_vars
               PROVE  ResendInv'
    OBVIOUS
  <2>0. /\ row.step \in Nat /\ draft.step \in Nat /\ regrants \in Nat
        /\ \A s \in EmailSteps : s \in Nat /\ inbox[s] \in Nat /\ doubt[s] \in Nat
    BY StepsAreNumbered DEF Shape, AnyRow, OrderInv, ResendInv
  <2>1. CASE Claim
    <3>1. fresh = {} /\ fresh' = {}
      BY <2>1, ClaimEffect DEF LockInv, Claim
    <3> QED
      BY <2>1, <3>1, ClaimEffect DEF ResendInv, Owed
  <2>2. CASE ProcessWithoutCall
    <3>1. fresh = {} /\ fresh' = {}
      BY <2>2, ProcessEffect DEF LockInv
    <3> QED
      BY <2>2, <3>1, ProcessEffect DEF ResendInv, Owed
  <2>3. ASSUME NEW s \in EmailSteps, CallAccepted(s) \/ CallFailed(s) PROVE ResendInv'
    BY <2>3, ResendOfAccepted, ResendOfFailed
  <2>4. CASE Commit
    <3>1. /\ row.status = "pending" /\ draft.step >= row.step /\ row' = draft /\ fresh' = {}
          /\ UNCHANGED <<inbox, doubt, regrants>>
      BY <2>4 DEF Commit, EndBatch, LockInv, RowLocked, worldVars
    <3>2. \A s \in EmailSteps : row'.step <= s => row.step <= s
      BY <2>0, <3>1
    <3> QED
      BY <3>1, <3>2 DEF ResendInv, Owed
  <2>5. CASE Rollback
    <3>1. /\ UNCHANGED <<row, inbox, regrants>> /\ fresh' = {}
          /\ \A s \in EmailSteps : doubt'[s] = IF s \in fresh THEN doubt[s] + 1 ELSE doubt[s]
      BY <2>5 DEF Rollback, EndBatch
    <3>2. doubt' \in [EmailSteps -> Nat]
      BY <2>0, <2>5 DEF Rollback
    <3> QED
      BY <2>0, <3>1, <3>2 DEF ResendInv, Owed
  <2>6. ASSUME NEW a \in Reporters, RecordEvent(a) PROVE ResendInv'
    BY <2>6, RecordEffect DEF ResendInv, Owed
  <2>7. ASSUME NEW a \in Operators, Reconcile(a) PROVE ResendInv'
    BY <2>7, ResendOfReconcile
  <2>8. CASE Tick
    BY <2>8, TickEffect DEF ResendInv, Owed
  <2>9. CASE Quiet
    BY <2>9 DEF Quiet, ResendInv, Owed
  <2> QED
    BY <2>1, <2>2, <2>3, <2>4, <2>5, <2>6, <2>7, <2>8, <2>9, StepCases
<1> QED
  BY <1>1, <1>2, ShapeKept, LockInvariant, OrderInvariant, NewestInvariant, PTL DEF Spec

\* Every mail of a step beyond the first is explained, whatever operators and reporters do.
THEOREM ResendsAreExplained == Spec => []ResendsExplained
<1>1. Shape /\ OrderInv /\ ResendInv => ResendsExplained
  <2> SUFFICES ASSUME Shape, OrderInv, ResendInv, NEW s \in EmailSteps
               PROVE  inbox[s] <= 1 + doubt[s] + (IF s = NewestMessage THEN regrants ELSE 0)
    BY DEF ResendsExplained
  <2>1. inbox[s] \in Nat /\ doubt[s] \in Nat /\ regrants \in Nat
    BY DEF Shape, OrderInv, ResendInv
  <2> QED
    BY <2>1 DEF ResendInv, Owed
<1> QED
  BY <1>1, ShapeKept, OrderInvariant, ResendInvariant, PTL

-----------------------------------------------------------------------------
(* Delays *)

\* The delay steps that have to pass before the mail of step s: not those before the first mail.
DelaysBefore(s) ==
    {d \in DOMAIN Steps : Steps[d] = "delay" /\ d < s /\ \E e \in EmailSteps : e < d}

Delay(s) == Cardinality(DelaysBefore(s))

LEMMA DelaysAreCounted ==
    /\ MaxWait \in Nat /\ MaxWait > 0 /\ Never = MaxWait + 1
    /\ \A s : IsFiniteSet(DelaysBefore(s)) /\ Delay(s) \in Nat /\ Delay(s) <= MaxWait
<1> DEFINE delays == DOMAIN Steps \ EmailSteps
<1>1. DOMAIN Steps = 1..Len(Steps) /\ Len(Steps) \in Nat
  BY RecipientAssumption
<1>2. IsFiniteSet(delays)
  <2>1. IsFiniteSet(1..Len(Steps))
    BY <1>1, FS_Interval
  <2> QED
    BY <2>1, <1>1, FS_Subset, delays \subseteq 1..Len(Steps)
<1>3. Cardinality(delays) \in Nat /\ (Cardinality(delays) = 0 <=> delays = {})
  BY <1>2, FS_CardinalityType, FS_EmptySet
<1>4. MaxWait \in Nat /\ MaxWait > 0 /\ Cardinality(delays) <= MaxWait
  BY <1>3 DEF MaxWait
<1>5. ASSUME NEW s
      PROVE  IsFiniteSet(DelaysBefore(s)) /\ Delay(s) \in Nat /\ Delay(s) <= MaxWait
  <2>1. DelaysBefore(s) \subseteq delays
    BY DEF DelaysBefore, EmailSteps
  <2>2. IsFiniteSet(DelaysBefore(s)) /\ Delay(s) <= Cardinality(delays)
    BY <1>2, <2>1, FS_Subset DEF Delay
  <2>3. Delay(s) \in Nat
    BY <2>2, FS_CardinalityType DEF Delay
  <2> QED
    BY <1>3, <1>4, <2>2, <2>3
<1> QED
  BY <1>4, <1>5 DEF Never

\* The steps between an email and the next one are delays.
LEMMA DelaysBetween ==
    ASSUME NEW s \in EmailSteps, NEW e \in EmailSteps, s < e,
           \A f \in EmailSteps : f > s => e <= f
    PROVE  Delay(e) <= Delay(s) + (e - s - 1)
<1>1. s \in Nat /\ e \in Nat /\ e <= Len(Steps) /\ Len(Steps) \in Nat
  BY StepsAreNumbered
<1>2. DelaysBefore(e) \subseteq DelaysBefore(s) \cup ((s + 1)..(e - 1))
  <2> SUFFICES ASSUME NEW d \in DelaysBefore(e)
               PROVE  d \in DelaysBefore(s) \/ d \in (s + 1)..(e - 1)
    OBVIOUS
  <2>1. /\ d \in DOMAIN Steps /\ Steps[d] = "delay" /\ d < e
        /\ \E f \in EmailSteps : f < d
    BY DEF DelaysBefore
  <2>2. d \in Nat
    BY <2>1, RecipientAssumption
  <2>3. d # s
    BY <2>1 DEF EmailSteps
  <2> QED
    BY <1>1, <2>1, <2>2, <2>3 DEF DelaysBefore
<1>3. /\ IsFiniteSet((s + 1)..(e - 1))
      /\ Cardinality((s + 1)..(e - 1)) = e - s - 1
  <2>1. PICK i \in Int, j \in Int : i = s + 1 /\ j = e - 1
    BY <1>1
  <2>2. IsFiniteSet(i..j) /\ Cardinality(i..j) = IF i > j THEN 0 ELSE j - i + 1
    BY FS_Interval
  <2> QED
    BY <1>1, <2>1, <2>2
<1>4. IsFiniteSet(DelaysBefore(s)) /\ Delay(s) \in Nat
  BY DelaysAreCounted
<1> DEFINE U == DelaysBefore(s) \cup ((s + 1)..(e - 1))
           I == DelaysBefore(s) \cap ((s + 1)..(e - 1))
<1>5. IsFiniteSet(U) /\ Cardinality(U) = Delay(s) + (e - s - 1) - Cardinality(I)
  BY <1>3, <1>4, FS_Union DEF Delay
<1>6. Cardinality(I) \in Nat
  BY <1>4, FS_Subset, FS_CardinalityType, I \subseteq DelaysBefore(s)
<1>7. Delay(e) <= Cardinality(U) /\ Delay(e) \in Nat
  BY <1>2, <1>5, FS_Subset, DelaysAreCounted DEF Delay
<1> QED
  BY <1>1, <1>4, <1>5, <1>6, <1>7

\* Nothing has to pass before the first mail.
LEMMA NoDelayFirst ==
    ASSUME NEW e \in EmailSteps, \A f \in EmailSteps : e <= f
    PROVE  Delay(e) = 0
<1>1. DelaysBefore(e) = {}
  <2> SUFFICES ASSUME NEW d \in DelaysBefore(e) PROVE FALSE
    OBVIOUS
  <2>1. d \in Nat /\ d < e /\ \E f \in EmailSteps : f < d
    BY RecipientAssumption DEF DelaysBefore
  <2> QED
    BY <2>1, StepsAreNumbered
<1> QED
  BY <1>1, FS_EmptySet DEF Delay

\* A recipient is at an email step, at the end, or at a delay the sequence starts with.
AtStep(x) == x.step \in EmailSteps \cup {1, Len(Steps) + 1}

\* By the time x is due, the delays before its step have passed.
Ready(x) ==
    x.status = "pending" /\ x.step \in EmailSteps /\ x.wait # Never
        => age + x.wait >= Delay(x.step)

\* A recipient is only due after its delays; so are those an operator can reconcile.
DelayInv ==
    /\ age \in 0..MaxWait
    /\ AtStep(row) /\ AtStep(draft)
    /\ Ready(row)
    /\ batch = "claimed" /\ draft.step \in EmailSteps => age >= Delay(draft.step)
    /\ batch = "processed" => Ready(draft)
    /\ \/ msg[NewestMessage] = "uncertain"
       \/ RowLocked /\ draftMsg[NewestMessage] = "uncertain"
       \/ \E a \in Operators : Decided(a)
       => age >= Delay(NewestMessage)

\* The next step is due after the delays between.
LEMMA AdvancedDelay ==
    ASSUME NEW x \in AnyRow, NEW s \in Nat, NEW a, Advanced(x, s, a), age \in 0..MaxWait,
           s \in EmailSteps => age >= Delay(s),
           s \notin EmailSteps => s = 1
    PROVE  AtStep(a) /\ Ready(a)
<1>1. AtStep(a)
  BY DEF Advanced, AtStep
<1>2. ASSUME a.status = "pending", a.step \in EmailSteps
      PROVE  age + a.wait >= Delay(a.step)
  <2>1. /\ a.step > s /\ \A e \in EmailSteps : e > s => a.step <= e
        /\ a.wait = a.step - s - 1
    BY <1>2 DEF Advanced
  <2>2. age \in Nat /\ a.step \in Nat /\ Delay(a.step) \in Nat /\ Delay(s) \in Nat
    <3>1. age \in Nat
      OBVIOUS
    <3>2. Delay(a.step) \in Nat /\ Delay(s) \in Nat
      BY DelaysAreCounted
    <3>3. a.step \in Nat
      <4>1. PICK e \in EmailSteps : e = a.step
        BY <1>2
      <4>2. e \in Nat
        BY StepsAreNumbered
      <4> QED
        BY <4>1, <4>2
    <3> QED
      BY <3>1, <3>2, <3>3
  <2>3. CASE s \in EmailSteps
    <3>1. Delay(a.step) <= Delay(s) + (a.step - s - 1)
      BY <1>2, <2>1, <2>2, <2>3, DelaysBetween
    <3> QED
      BY <2>1, <2>2, <2>3, <3>1
  <2>4. CASE s \notin EmailSteps
    <3>1. \A e \in EmailSteps : a.step <= e
      <4> SUFFICES ASSUME NEW e \in EmailSteps PROVE a.step <= e
        OBVIOUS
      <4>1. e \in Nat /\ e >= 1 /\ e # s
        BY <2>4, StepsAreNumbered
      <4> QED
        BY <2>1, <2>4, <4>1
    <3>2. Delay(a.step) = 0
      BY <1>2, <3>1, NoDelayFirst
    <3> QED
      BY <2>1, <2>2, <3>2
  <2> QED
    BY <2>3, <2>4
<1> QED
  BY <1>1, <1>2 DEF Ready

LEMMA DelayOfTick ==
    ASSUME Shape, DelayInv, Tick
    PROVE  DelayInv'
<1>1. /\ row'.status = row.status /\ row'.step = row.step
      /\ row'.wait = IF row.wait \in 1..MaxWait THEN row.wait - 1 ELSE row.wait
      /\ age' = Min2(age + 1, MaxWait) /\ row.wait \in Int
      /\ UNCHANGED <<msg, batch, draft, draftMsg, fix>>
  BY TickEffect DEF Shape, AnyRow
<1>2. MaxWait \in Nat /\ MaxWait > 0 /\ Never = MaxWait + 1 /\ age \in 0..MaxWait
  BY DelaysAreCounted DEF DelayInv
<1>3. /\ age \in Nat /\ age' \in 0..MaxWait /\ age' >= age
      /\ age' = age + 1 \/ age' = MaxWait
  BY <1>1, <1>2 DEF Min2
<1>4. ASSUME NEW n \in Nat, age >= n PROVE age' >= n
  BY <1>2, <1>3, <1>4
<1>5. Ready(row)'
  <2> SUFFICES ASSUME row'.status = "pending", row'.step \in EmailSteps, row'.wait # Never
               PROVE  age' + row'.wait >= Delay(row'.step)
    BY DEF Ready
  <2> DEFINE n == Delay(row.step)
  <2>1. n \in Nat /\ n <= MaxWait
    BY DelaysAreCounted
  <2>2. row.wait # Never
    BY <1>1, <1>2
  <2>3. age + row.wait >= n
    BY <1>1, <2>2 DEF DelayInv, Ready
  <2> HIDE DEF n
  <2>4. age' + row'.wait >= n
    BY <1>1, <1>2, <1>3, <2>1, <2>3
  <2> QED
    BY <1>1, <2>4 DEF n
<1>6. ASSUME Ready(draft) PROVE Ready(draft)'
  <2> SUFFICES ASSUME draft.status = "pending", draft.step \in EmailSteps, draft.wait # Never
               PROVE  age' + draft.wait >= Delay(draft.step)
    BY <1>1 DEF Ready
  <2>1. Delay(draft.step) \in Nat /\ draft.wait \in Int
    BY DelaysAreCounted DEF Shape, AnyRow
  <2>2. age + draft.wait >= Delay(draft.step)
    BY <1>6 DEF Ready
  <2> QED
    BY <1>2, <1>3, <2>1, <2>2
<1>7. batch = "claimed" /\ draft.step \in EmailSteps => age' >= Delay(draft.step)
  BY <1>4, DelaysAreCounted DEF DelayInv
<1>8. age >= Delay(NewestMessage) => age' >= Delay(NewestMessage)
  BY <1>4, DelaysAreCounted
<1> QED
  BY <1>1, <1>3, <1>5, <1>6, <1>7, <1>8 DEF DelayInv, AtStep, RowLocked, Decided

LEMMA DelayOfClaim ==
    ASSUME Shape, DelayInv, Claim
    PROVE  DelayInv'
<1>1. FreshRow.step = 1 /\ FreshMsg[NewestMessage] = "pending"
  BY NewestIsLast DEF FreshRow, FreshMsg
<1>2. 0 # Never
  BY DelaysAreCounted
<1>3. CASE ~(row.status = "pending" /\ row.wait = 0)
  <2>1. batch' = "idle" /\ draft' = FreshRow /\ UNCHANGED <<row, msg, fix, age>>
    BY <1>3, ClaimEffect
  <2> QED
    BY <1>1, <2>1 DEF DelayInv, AtStep, Ready, RowLocked, Decided
<1>4. CASE row.status = "pending" /\ row.wait = 0
  <2>1. /\ draftMsg' = msg /\ draft'.step = row.step
        /\ \/ batch' = "processed" /\ draft'.status = "skipped"
           \/ batch' = "claimed"
        /\ UNCHANGED <<row, msg, fix, age>>
    <3>1. batch' # "idle"
      BY <1>4 DEF Claim
    <3> QED
      BY <3>1, ClaimEffect
  <2>2. row.step \in EmailSteps => age >= Delay(row.step)
    BY <1>2, <1>4 DEF DelayInv, Ready
  <2> QED
    BY <2>1, <2>2 DEF DelayInv, AtStep, Ready, RowLocked, Decided
<1> QED
  BY <1>3, <1>4

LEMMA DelayOfProcess ==
    ASSUME Shape, LockInv, OrderInv, DelayInv, ProcessWithoutCall
    PROVE  DelayInv'
<1> DEFINE N == NewestMessage
           s == draft.step
<1>1. /\ batch = "claimed" /\ batch' = "processed" /\ s \in Nat /\ draft \in AnyRow
      /\ UNCHANGED <<row, msg, fix, age>>
  BY ProcessEffect DEF Shape
<1>2. AtStep(draft) /\ (s \in EmailSteps => age >= Delay(s)) /\ age \in 0..MaxWait
  BY <1>1 DEF DelayInv
<1>3. CASE s > Len(Steps) /\ draft'.status = "sent" /\ draft'.step = s /\ draftMsg' = draftMsg
  BY <1>1, <1>2, <1>3 DEF DelayInv, AtStep, Ready, RowLocked, Decided
<1>4. CASE s \in DOMAIN Steps /\ Advanced(draft, s, draft') /\ draftMsg' = draftMsg
  <2>1. s \notin EmailSteps => s = 1
    <3>1. s # Len(Steps) + 1
      BY <1>4, RecipientAssumption
    <3> QED
      BY <3>1, <1>2 DEF AtStep
  <2>2. AtStep(draft') /\ Ready(draft')
    BY <1>1, <1>2, <1>4, <2>1, AdvancedDelay
  <2> QED
    BY <1>1, <1>2, <1>4, <2>2 DEF DelayInv, AtStep, Ready, RowLocked, Decided
<1>5. CASE /\ s \in EmailSteps /\ draft'.status = "failed" /\ draft'.step = s
           /\ draftMsg' = [draftMsg EXCEPT ![s] = "uncertain"]
  <2>1. draftMsg'[N] = "uncertain" => draftMsg[N] = "uncertain" \/ s = N
    BY <1>5, NewestIsLast DEF OrderInv
  <2>2. draftMsg'[N] = "uncertain" => age >= Delay(N)
    BY <1>1, <1>2, <1>5, <2>1 DEF DelayInv, RowLocked
  <2> QED
    BY <1>1, <1>2, <1>5, <2>2 DEF DelayInv, AtStep, Ready, RowLocked, Decided
<1> QED
  BY <1>3, <1>4, <1>5, ProcessEffect

LEMMA DelayOfCall ==
    ASSUME Shape, LockInv, OrderInv, DelayInv, NEW s \in EmailSteps,
           CallAccepted(s) \/ CallFailed(s)
    PROVE  DelayInv'
<1> DEFINE N == NewestMessage
<1>1. /\ batch = "claimed" /\ batch' = "processed" /\ s = draft.step /\ s \in Nat
      /\ draft \in AnyRow /\ UNCHANGED <<row, msg, fix, age>>
  BY AcceptedEffect, FailedEffect DEF Shape
<1>2. age >= Delay(s) /\ age \in 0..MaxWait
  BY <1>1 DEF DelayInv
<1>3. draftMsg'[N] = "uncertain" => draftMsg[N] = "uncertain" \/ s = N
  BY NewestIsLast, AcceptedEffect, FailedEffect DEF OrderInv
<1>4. AtStep(draft') /\ Ready(draft')
  <2>1. CASE CallAccepted(s)
    <3> DEFINE y == [draft EXCEPT !.err = "none", !.tries = 0]
    <3>1. y \in AnyRow
      BY <1>1 DEF AnyRow
    <3>2. Advanced(y, s, draft')
      BY <2>1, AcceptedEffect
    <3> HIDE DEF y
    <3> QED
      BY <1>1, <1>2, <3>1, <3>2, AdvancedDelay
  <2>2. CASE CallFailed(s)
    <3>1. /\ draft'.step = s
          /\ draft'.status = "pending" => draft'.wait = 1
      BY <1>1, <2>2, FailedEffect DEF LockInv
    <3>2. age \in Nat /\ Delay(s) \in Nat
      BY <1>2, DelaysAreCounted
    <3>3. age + 1 >= Delay(s)
      BY <1>2, <3>2
    <3> QED
      BY <3>1, <3>3 DEF AtStep, Ready
  <2> QED
    BY <2>1, <2>2
<1>5. draftMsg'[N] = "uncertain" => age >= Delay(N)
  BY <1>1, <1>2, <1>3 DEF DelayInv, RowLocked
<1> QED
  BY <1>1, <1>2, <1>4, <1>5 DEF DelayInv, AtStep, Ready, RowLocked, Decided

LEMMA DelayOfReconcile ==
    ASSUME Shape, OrderInv, NewestInv, DelayInv, NEW a \in Operators, Reconcile(a)
    PROVE  DelayInv'
<1> DEFINE N == NewestMessage
           s == seen[a]
           new == AfterReconcile(fix[a], s)
<1>1. /\ ~RowLocked /\ fix[a] \in {"sent", "retry", "failed"} /\ s \in AnyRow
      /\ row'.status = IF new.status # s.status THEN new.status ELSE row.status
      /\ row'.step = IF new.step # s.step THEN new.step ELSE row.step
      /\ row'.wait = IF fix[a] = "retry" THEN 0
                     ELSE IF new.wait # s.wait THEN new.wait ELSE row.wait
      /\ UNCHANGED <<batch, draft, draftMsg, age>>
      /\ fix' = [fix EXCEPT ![a] = "none"]
  BY FixEffect
<1>2. /\ fix[a] = "retry" => new.step = s.step
      /\ fix[a] # "retry" => /\ new.status # "pending" /\ new.wait = Never
                             /\ new.step = s.step \/ new.step = Len(Steps) + 1
  BY <1>1, ReconcileEffect
<1>3. row.step >= N /\ age >= Delay(N) /\ age \in 0..MaxWait
  BY <1>1 DEF NewestInv, DelayInv, Decided
<1> HIDE DEF new
<1>4. AtStep(row')
  BY <1>1, <1>2 DEF DelayInv, AtStep
<1>5. Ready(row')
  <2> SUFFICES ASSUME row'.status = "pending", row'.step \in EmailSteps, row'.wait # Never
               PROVE  age + row'.wait >= Delay(row'.step)
    BY DEF Ready
  <2>0. row'.step # Len(Steps) + 1
    BY StepsAreNumbered
  <2>1. CASE fix[a] = "retry"
    <3>1. row'.step = row.step /\ row'.wait = 0
      BY <1>1, <1>2, <2>1
    <3>2. row'.step = N
      <4>1. row'.step <= N
        BY NewestIsLast
      <4>2. N \in Nat /\ row.step \in Nat
        BY NewestIsLast, StepsAreNumbered DEF Shape, AnyRow
      <4> QED
        BY <1>3, <3>1, <4>1, <4>2
    <3>3. age \in Nat
      BY <1>3, DelaysAreCounted
    <3> QED
      BY <1>3, <3>1, <3>2, <3>3
  <2>2. CASE fix[a] # "retry"
    <3>1. row.status = "pending" /\ row'.step = row.step /\ row'.wait = row.wait
      BY <1>1, <1>2, <2>0, <2>2
    <3> QED
      BY <3>1 DEF DelayInv, Ready
  <2> QED
    BY <2>1, <2>2
<1>6. UNCHANGED RowLocked /\ \A b \in Operators : Decided(b)' => Decided(b)
  BY <1>1 DEF RowLocked, Decided, Shape
<1> QED
  BY <1>1, <1>3, <1>4, <1>5, <1>6 DEF DelayInv, AtStep, Ready, RowLocked

LEMMA DelayInvariant == Spec => []DelayInv
<1>0. FreshRow.step = 1 /\ FreshMsg[NewestMessage] = "pending" /\ FreshRow.wait = 0
      /\ MaxWait \in Nat
  BY NewestIsLast, DelaysAreCounted DEF FreshRow, FreshMsg
<1>1. Init => DelayInv
  <2> SUFFICES ASSUME Init PROVE DelayInv
    OBVIOUS
  <2>1. Ready(row)
    <3> SUFFICES ASSUME 1 \in EmailSteps PROVE 0 + 0 >= Delay(1)
      BY <1>0 DEF Init, Ready
    <3>1. \A f \in EmailSteps : 1 <= f
      BY StepsAreNumbered
    <3> QED
      BY <3>1, NoDelayFirst
  <2> QED
    BY <1>0, <2>1 DEF Init, DelayInv, AtStep, RowLocked, Decided
<1>2. Shape /\ LockInv /\ OrderInv /\ NewestInv /\ DelayInv /\ [Next]_vars => DelayInv'
  <2> SUFFICES ASSUME Shape, LockInv, OrderInv, NewestInv, DelayInv, [Next]_vars
               PROVE  DelayInv'
    OBVIOUS
  <2>1. CASE Claim
    BY <2>1, DelayOfClaim
  <2>2. CASE ProcessWithoutCall
    BY <2>2, DelayOfProcess
  <2>3. ASSUME NEW s \in EmailSteps, CallAccepted(s) \/ CallFailed(s) PROVE DelayInv'
    BY <2>3, DelayOfCall
  <2>4. CASE Commit \/ Rollback
    BY <1>0, <2>4
       DEF DelayInv, AtStep, Ready, RowLocked, Decided, Commit, Rollback, EndBatch,
           requestVars, worldVars
  <2>5. ASSUME NEW a \in Reporters, RecordEvent(a) PROVE DelayInv'
    BY <2>5, RecordEffect DEF DelayInv, AtStep, Ready, RowLocked, Decided
  <2>6. ASSUME NEW a \in Operators, Reconcile(a) PROVE DelayInv'
    BY <2>6, DelayOfReconcile
  <2>7. CASE Tick
    BY <2>7, DelayOfTick
  <2>8. CASE Quiet
    BY <2>8 DEF Quiet, DelayInv, AtStep, Ready, RowLocked, Decided
  <2> QED
    BY <2>1, <2>2, <2>3, <2>4, <2>5, <2>6, <2>7, <2>8, StepCases
<1> QED
  BY <1>1, <1>2, ShapeKept, LockInvariant, OrderInvariant, NewestInvariant, PTL DEF Spec

\* The mail of a step leaves after all delays between the first mail and it, also after
\* retries and reconciliations.
THEOREM DelaysPassFirst == Spec => DelaysAreKept
<1>1. ASSUME Shape, OrderInv, DelayInv, [Next]_vars, NEW s \in EmailSteps,
             inbox'[s] # inbox[s]
      PROVE  age >= Delay(s)
  <2>1. ASSUME NEW q \in EmailSteps, CallAccepted(q) \/ CallFailed(q) PROVE age >= Delay(s)
    <3>1. batch = "claimed" /\ q = draft.step /\ (s # q => inbox'[s] = inbox[s])
      BY <1>1, <2>1, AcceptedEffect, FailedEffect DEF OrderInv
    <3> QED
      BY <1>1, <3>1 DEF DelayInv
  <2>2. batch = "claimed"
    BY <1>1, MailsNeedClaim
  <2>3. inbox' # inbox
    BY <1>1
  <2>4. ~(Claim \/ ProcessWithoutCall \/ Commit \/ Rollback \/ Tick \/ Quiet)
    BY <2>3, <2>2 DEF Claim, ProcessWithoutCall, Commit, Rollback, Tick, Quiet, worldVars
  <2>5. ~(\E a \in Reporters : RecordEvent(a)) /\ ~(\E a \in Operators : Reconcile(a))
    BY <2>2 DEF RecordEvent, Reconcile, RowLocked
  <2> QED
    BY <1>1, <2>1, <2>4, <2>5, StepCases
<1>2. Shape /\ OrderInv /\ DelayInv /\ [Next]_vars
        => \A s \in EmailSteps : inbox'[s] # inbox[s] =>
              age >= Cardinality({d \in DOMAIN Steps : Steps[d] = "delay" /\ d < s
                                     /\ \E e \in EmailSteps : e < d})
  BY <1>1 DEF Delay, DelaysBefore
<1> QED
  BY <1>2, ShapeKept, OrderInvariant, DelayInvariant, PTL DEF Spec, DelaysAreKept

-----------------------------------------------------------------------------
(* Attempts *)

\* A message that is sent lies behind the recipient; only the newest one may be declared sent.
SentInv ==
    \A s \in EmailSteps \ {NewestMessage} :
       /\ msg[s] = "sent" => row.step > s
       /\ batch = "processed" /\ draftMsg[s] = "sent" => draft.step > s

LEMMA SentInvariant == Spec => []SentInv
<1>0. /\ NewestMessage \in EmailSteps /\ Len(Steps) \in Nat
      /\ \A s \in EmailSteps : s \in Nat /\ s <= Len(Steps)
  BY NewestIsLast, StepsAreNumbered
<1>1. Init => SentInv
  BY DEF Init, SentInv, FreshMsg
<1>2. Shape /\ LockInv /\ OrderInv /\ SentInv /\ [Next]_vars => SentInv'
  <2> SUFFICES ASSUME Shape, LockInv, OrderInv, SentInv, [Next]_vars PROVE SentInv'
    OBVIOUS
  <2>0. row.step \in Nat /\ draft.step \in Nat
    BY DEF Shape, AnyRow
  <2>1. CASE Claim
    BY <1>0, <2>0, <2>1, ClaimEffect DEF SentInv
  <2>2. CASE ProcessWithoutCall
    <3>1. draft'.step \in Nat /\ draft'.step >= draft.step
      BY <2>0, <2>2, ProcessEffect, StepsAreNumbered DEF Advanced, AnyRow
    <3>2. \A s \in EmailSteps : draftMsg'[s] = "sent" => draftMsg[s] = "sent"
      BY <2>2, ProcessEffect DEF OrderInv
    <3>3. batch = "claimed" /\ UNCHANGED <<row, msg>>
      BY <2>2, ProcessEffect
    <3>4. draftMsg = msg /\ draft.step = row.step
      BY <3>3 DEF LockInv
    <3> QED
      BY <1>0, <2>0, <3>1, <3>2, <3>3, <3>4 DEF SentInv
  <2>3. ASSUME NEW s \in EmailSteps, CallAccepted(s) PROVE SentInv'
    <3>1. /\ s = draft.step /\ batch = "claimed" /\ UNCHANGED <<row, msg>>
          /\ draftMsg' = [draftMsg EXCEPT ![s] = "sent"]
          /\ draft'.step \in Nat /\ draft'.step > s
      BY <1>0, <2>3, AcceptedEffect DEF Advanced, AnyRow
    <3>2. draftMsg = msg /\ draft.step = row.step
      BY <3>1 DEF LockInv
    <3>3. \A q \in EmailSteps : draftMsg'[q] = "sent" => q = s \/ msg[q] = "sent"
      BY <3>1, <3>2 DEF OrderInv
    <3> QED
      BY <1>0, <2>0, <3>1, <3>2, <3>3 DEF SentInv
  <2>4. ASSUME NEW s \in EmailSteps, CallFailed(s) PROVE SentInv'
    <3>1. batch = "claimed" /\ draft'.step = draft.step /\ UNCHANGED <<row, msg>>
      BY <2>4, FailedEffect
    <3>2. \A q \in EmailSteps : draftMsg'[q] = "sent" => draftMsg[q] = "sent"
      BY <2>4, FailedEffect DEF OrderInv
    <3>3. draftMsg = msg /\ draft.step = row.step
      BY <3>1 DEF LockInv
    <3> QED
      BY <3>1, <3>2, <3>3 DEF SentInv
  <2>5. CASE Commit \/ Rollback
    BY <2>5 DEF SentInv, Commit, Rollback, EndBatch
  <2>6. ASSUME NEW a \in Reporters, RecordEvent(a) PROVE SentInv'
    BY <2>6, RecordEffect DEF SentInv, RowLocked
  <2>7. ASSUME NEW a \in Operators, Reconcile(a) PROVE SentInv'
    <3>1. /\ row'.step = row.step \/ row'.step = Len(Steps) + 1
          /\ batch' # "processed"
          /\ msg' = [msg EXCEPT ![NewestMessage] = IF fix[a] = "sent" THEN "sent" ELSE "failed"]
      BY <2>7, FixEffect, ReconcileEffect DEF RowLocked
    <3>2. \A q \in EmailSteps \ {NewestMessage} : msg'[q] = msg[q]
      BY <3>1 DEF OrderInv
    <3> QED
      BY <1>0, <2>0, <3>1, <3>2 DEF SentInv
  <2>8. CASE Tick
    BY <2>8, TickEffect DEF SentInv
  <2>9. CASE Quiet
    BY <2>9 DEF Quiet, SentInv
  <2> QED
    BY <2>1, <2>2, <2>3, <2>4, <2>5, <2>6, <2>7, <2>8, <2>9, StepCases
<1> QED
  BY <1>1, <1>2, ShapeKept, LockInvariant, OrderInvariant, PTL DEF Spec

\* The attempts counted on the row were failed attempts of the step it is at, and it is only
\* given up when none is left.
Spent(x) ==
    /\ x.status = "pending" /\ x.step \in EmailSteps => x.tries <= tried[x.step]
    /\ x.status = "failed" /\ x.err = "send"
          => x.step \in EmailSteps /\ tried[x.step] = MaxAttempts

\* With one operator: what he reconciles is a recipient nobody else touches.
TriesInv ==
    /\ tried \in [EmailSteps -> 0..MaxAttempts]
    /\ Spent(row) /\ (batch = "processed" => Spent(draft))
    /\ msg[NewestMessage] = "uncertain" => row.status # "pending" /\ row.err = "uncertain"
    /\ batch = "processed" /\ draftMsg[NewestMessage] = "uncertain"
          => draft.status # "pending" /\ draft.err = "uncertain"
    /\ \A a \in Operators : Decided(a) => msg[NewestMessage] = "uncertain"
    /\ \A a \in Operators : seen[a].status # "pending"
                               => row.status # "pending" /\ row.tries = seen[a].tries

\* A call whose outcome is unknown leaves the recipient failed and marked.
LEMMA UncertainCall ==
    ASSUME Shape, OrderInv, NEW s \in EmailSteps, CallFailed(s), draftMsg'[s] = "uncertain"
    PROVE  draft'.status = "failed" /\ draft'.err = "uncertain"
<1>1. draftMsg[s] \in {"pending", "failed"}
  BY DEF CallFailed, NeedsCall
<1>2. PICK o \in Outcomes \ {"accepted"} :
        /\ draft' = (IF o = "uncertain" THEN Uncertain(draft) ELSE RecordSendFailure(draft))
        /\ draftMsg' = [draftMsg EXCEPT ![s] = FailedMsg(o, @)]
  BY DEF CallFailed, Finish
<1>3. o = "uncertain"
  BY <1>1, <1>2 DEF OrderInv, FailedMsg
<1>4. Uncertain(draft).status = "failed" /\ Uncertain(draft).err = "uncertain"
  BY FailureEffect DEF Shape
<1> QED
  BY <1>2, <1>3, <1>4

LEMMA TriesOfProcess ==
    ASSUME Shape, LockInv, OrderInv, SentInv, TriesInv, Steps[1] = "email",
           AtStep(draft), ProcessWithoutCall
    PROVE  TriesInv'
<1> DEFINE N == NewestMessage
           s == draft.step
<1>1. /\ batch = "claimed" /\ batch' = "processed" /\ s \in Nat
      /\ UNCHANGED <<row, msg, fix, seen, tried>>
  BY ProcessEffect
<1>2. draftMsg = msg /\ s = row.step /\ row.status = "pending" /\ draft.status = "pending"
  BY <1>1 DEF LockInv, RowLocked
<1>3. 1 \in EmailSteps /\ s \in EmailSteps \cup {Len(Steps) + 1}
  BY StepsAreNumbered DEF EmailSteps, AtStep
<1>4. CASE s > Len(Steps) /\ draft'.status = "sent" /\ draft'.step = s /\ draftMsg' = draftMsg
  BY <1>1, <1>2, <1>4 DEF TriesInv, Spent, Decided
<1>5. CASE /\ s \in DOMAIN Steps /\ (s \in EmailSteps => draftMsg[s] = "sent")
           /\ Advanced(draft, s, draft') /\ draftMsg' = draftMsg
  <2>1. s \in EmailSteps
    BY <1>3, <1>5, RecipientAssumption
  <2>2. s = N
    BY <1>2, <1>5, <2>1, <1>1 DEF SentInv
  <2>3. draft'.status = "sent"
    <3>1. \A e \in EmailSteps : e \in Nat /\ N \in Nat /\ e <= N
      BY NewestIsLast, StepsAreNumbered
    <3>2. \A e \in EmailSteps : ~(e > s)
      BY <2>2, <3>1
    <3> QED
      BY <1>5, <3>2 DEF Advanced
  <2> QED
    BY <1>1, <1>2, <1>5, <2>3 DEF TriesInv, Spent, Decided
<1>6. CASE /\ s \in EmailSteps /\ draft'.status = "failed" /\ draft'.err = "uncertain"
           /\ draftMsg' = [draftMsg EXCEPT ![s] = "uncertain"]
  BY <1>1, <1>2, <1>6 DEF TriesInv, Spent, Decided
<1> QED
  BY <1>4, <1>5, <1>6, ProcessEffect

LEMMA TriesOfCall ==
    ASSUME Shape, LockInv, OrderInv, TriesInv, NEW s \in EmailSteps,
           CallAccepted(s) \/ CallFailed(s)
    PROVE  TriesInv'
<1> DEFINE N == NewestMessage
<1>1. /\ batch = "claimed" /\ batch' = "processed" /\ s = draft.step
      /\ UNCHANGED <<row, msg, fix, seen>>
  BY AcceptedEffect, FailedEffect
<1>2. /\ draftMsg = msg /\ s = row.step /\ row.status = "pending" /\ draft.status = "pending"
      /\ draft.tries = row.tries + 1 /\ row.tries \in Nat /\ MaxAttempts \in Nat
      /\ row.tries <= tried[s] /\ tried[s] \in 0..MaxAttempts
  BY <1>1, RecipientAssumption DEF LockInv, RowLocked, Shape, AnyRow, TriesInv, Spent
<1>3. msg[N] # "uncertain"
  BY <1>2 DEF TriesInv
<1>4. CASE CallAccepted(s)
  <2>1. /\ draft'.tries = 0 /\ draft'.err = "none" /\ tried' = tried
        /\ draftMsg' = [draftMsg EXCEPT ![s] = "sent"]
    BY <1>4, AcceptedEffect
  <2>2. draftMsg'[N] # "uncertain"
    BY <1>2, <1>3, <2>1, NewestIsLast DEF OrderInv
  <2>3. draft'.step \in EmailSteps => tried[draft'.step] \in 0..MaxAttempts
    BY DEF TriesInv
  <2>4. Spent(draft)'
    BY <2>1, <2>3 DEF Spent
  <2> QED
    BY <1>1, <1>2, <1>3, <2>1, <2>2, <2>4 DEF TriesInv, Spent, Decided
<1>5. CASE CallFailed(s)
  <2>1. /\ draft'.step = s /\ draft'.tries = draft.tries
        /\ \/ draft'.status = "failed" /\ draft'.err = "uncertain"
           \/ /\ draft'.err = "send"
              /\ draft.tries < MaxAttempts => draft'.status = draft.status /\ draft'.wait = 1
              /\ ~(draft.tries < MaxAttempts) => draft'.status = "failed"
        /\ tried' = [tried EXCEPT ![s] = Min2(@ + 1, MaxAttempts)]
    BY <1>5, FailedEffect
  <2>2. /\ tried' \in [EmailSteps -> 0..MaxAttempts]
        /\ tried'[s] = Min2(tried[s] + 1, MaxAttempts)
        /\ \A q \in EmailSteps : q # s => tried'[q] = tried[q]
    BY <1>2, <2>1 DEF TriesInv, Min2
  <2>3. /\ tried'[s] >= tried[s]
        /\ draft.tries < MaxAttempts => draft.tries <= tried'[s]
        /\ ~(draft.tries < MaxAttempts) => tried'[s] = MaxAttempts
    BY <1>2, <2>2 DEF Min2
  <2>4. Spent(draft)'
    BY <1>2, <2>1, <2>3 DEF Spent
  <2>5. Spent(row)'
    BY <1>1, <1>2, <2>2, <2>3 DEF Spent
  <2>6. draftMsg'[N] = "uncertain" => draft'.status # "pending" /\ draft'.err = "uncertain"
    <3>1. draftMsg'[N] = "uncertain" => N = s
      BY <1>2, <1>3, <1>5, FailedEffect, NewestIsLast DEF OrderInv
    <3> QED
      BY <1>5, <3>1, UncertainCall
  <2> QED
    BY <1>1, <1>3, <2>2, <2>4, <2>5, <2>6 DEF TriesInv, Decided
<1> QED
  BY <1>4, <1>5

LEMMA TriesOfReconcile ==
    ASSUME Shape, OrderInv, TriesInv, \A b, c \in Operators : b = c,
           NEW a \in Operators, Reconcile(a)
    PROVE  TriesInv'
<1> DEFINE N == NewestMessage
           s == seen[a]
           new == AfterReconcile(fix[a], s)
<1>1. /\ ~RowLocked /\ fix[a] \in {"sent", "retry", "failed"} /\ s \in AnyRow
      /\ row \in AnyRow
      /\ row'.status = IF new.status # s.status THEN new.status ELSE row.status
      /\ row'.step = IF new.step # s.step THEN new.step ELSE row.step
      /\ row'.tries = IF new.tries # s.tries THEN new.tries ELSE row.tries
      /\ row'.err = IF new.err # s.err THEN new.err ELSE row.err
      /\ UNCHANGED <<batch, tried>>
      /\ msg' = [msg EXCEPT ![N] = IF fix[a] = "sent" THEN "sent" ELSE "failed"]
      /\ fix' = [fix EXCEPT ![a] = "none"] /\ seen' = [seen EXCEPT ![a] = FreshRow]
  BY FixEffect DEF Shape
<1>2. /\ new.err # "send"
      /\ fix[a] = "retry" => new.status = "pending" /\ new.tries = 0 /\ new.step = s.step
      /\ fix[a] # "retry" => new.status # "pending"
  BY <1>1, ReconcileEffect
<1> HIDE DEF new
<1>3. row.status # "pending" /\ row.err = "uncertain"
  BY <1>1 DEF TriesInv, Decided
<1>4. s.status # "pending" => row.tries = s.tries
  BY DEF TriesInv
<1>5. row'.err # "send"
  BY <1>1, <1>2, <1>3
<1>6. row'.status = "pending" => row'.tries = 0
  BY <1>1, <1>2, <1>3, <1>4
<1>7. Spent(row)'
  BY <1>1, <1>5, <1>6 DEF Spent, TriesInv
<1>8. msg'[N] # "uncertain"
  BY <1>1, NewestIsLast DEF OrderInv
<1>9. \A b \in Operators : ~Decided(b)' /\ seen'[b] = FreshRow
  BY <1>1 DEF Decided, Shape
<1> QED
  BY <1>1, <1>7, <1>8, <1>9, FreshRowShape DEF TriesInv, RowLocked

LEMMA TriesInvariant ==
    ASSUME Steps[1] = "email", \A b, c \in Operators : b = c
    PROVE  Spec => []TriesInv
<1>0. FreshRow.status = "pending" /\ FreshRow.tries = 0
  BY DEF FreshRow
<1>1. Init => TriesInv
  BY <1>0, RecipientAssumption, NewestIsLast DEF Init, TriesInv, Spent, FreshMsg, Decided
<1>2. Shape /\ LockInv /\ OrderInv /\ DelayInv /\ SentInv /\ TriesInv /\ [Next]_vars
        => TriesInv'
  <2> SUFFICES ASSUME Shape, LockInv, OrderInv, DelayInv, SentInv, TriesInv, [Next]_vars
               PROVE  TriesInv'
    OBVIOUS
  <2>1. CASE Claim
    BY <2>1, ClaimEffect DEF TriesInv, Spent, Decided
  <2>2. CASE ProcessWithoutCall
    BY <2>2, TriesOfProcess DEF DelayInv
  <2>3. ASSUME NEW s \in EmailSteps, CallAccepted(s) \/ CallFailed(s) PROVE TriesInv'
    BY <2>3, TriesOfCall
  <2>4. CASE Commit
    <3>1. /\ row' = draft /\ msg' = draftMsg /\ batch' = "idle" /\ batch = "processed"
          /\ UNCHANGED <<seen, fix, tried>>
      BY <2>4 DEF Commit, EndBatch, requestVars, worldVars
    <3>2. row.status = "pending"
      BY <3>1 DEF LockInv, RowLocked
    <3> QED
      BY <3>1, <3>2 DEF TriesInv, Spent, Decided
  <2>5. CASE Rollback
    BY <2>5 DEF Rollback, EndBatch, requestVars, TriesInv, Spent, Decided
  <2>6. ASSUME NEW a \in Reporters, RecordEvent(a) PROVE TriesInv'
    <3>1. /\ batch # "processed"
          /\ UNCHANGED <<msg, batch, fix, tried>>
          /\ row'.step = row.step /\ row'.tries = row.tries /\ row'.err = row.err
          /\ row'.status \in {"pending", "failed"} => row'.status = row.status
      BY <2>6, RecordEffect DEF RowLocked
    <3>2. \A b \in Operators : seen'[b] = seen[b]
      BY <2>6, RecordEffect, RecipientAssumption DEF Shape
    <3> QED
      BY <3>1, <3>2 DEF TriesInv, Spent, Decided
  <2>7. ASSUME NEW a \in Operators, Reconcile(a) PROVE TriesInv'
    BY <2>7, TriesOfReconcile
  <2>8. CASE Tick
    BY <2>8, TickEffect DEF TriesInv, Spent, Decided
  <2>9. CASE Quiet
    <3>1. /\ UNCHANGED <<row, msg, draft, draftMsg, tried>>
          /\ batch' = "processed" <=> batch = "processed"
          /\ \A b \in Operators : /\ seen'[b] \in {seen[b], row, FreshRow}
                                  /\ Decided(b)' => Decided(b) \/ msg[NewestMessage] = "uncertain"
      BY <2>9 DEF Quiet, Decided
    <3> QED
      BY <1>0, <3>1 DEF TriesInv, Spent
  <2> QED
    BY <2>1, <2>2, <2>3, <2>4, <2>5, <2>6, <2>7, <2>8, <2>9, StepCases
<1> QED
  BY <1>1, <1>2, ShapeKept, LockInvariant, OrderInvariant, DelayInvariant, SentInvariant, PTL
     DEF Spec

\* A recipient is given up for failed sends only after all attempts were spent on the step it is
\* at.  With a delay before the first mail, or operators who reconcile the same send at once,
\* it need not be so.
THEOREM AllowanceIsFull ==
    ASSUME Steps[1] = "email", \A b, c \in Operators : b = c
    PROVE  Spec => []FullAllowance
<1>1. TriesInv => FullAllowance
  BY DEF TriesInv, Spent, FullAllowance
<1> QED
  BY <1>1, TriesInvariant, PTL

====
