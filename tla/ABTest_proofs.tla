---------------------------- MODULE ABTest_proofs ----------------------------
(***************************************************************************)
(* Proofs about ABTest, for any number of recipients, candidates, batches, *)
(* operators and evaluators.                                               *)
(***************************************************************************)
EXTENDS ABTest, FiniteSetTheorems, TLAPS

-----------------------------------------------------------------------------
(* Types *)

LEMMA ConstantsAreTyped ==
    /\ NoRow \in Row /\ NoTest \in Test /\ Zero \in [Variants -> Nat]
    /\ Batches \subseteq Txns /\ Operators \subseteq Txns
    /\ Evaluators \subseteq Txns /\ Launchers \subseteq Txns
BY ABAssumption DEF NoRow, NoTest, Zero, Row, Test, Txns

\* What a changed column makes of a row.
LEMMA RowColumns ==
    ASSUME NEW x \in Row, NEW n \in 0..MaxAttempts,
           NEW s \in {"none", "pending", "holdout", "sent", "failed", "skipped"}
    PROVE  LET y == [x EXCEPT !.status = s]
               z == [x EXCEPT !.status = s, !.tries = n]
               u == [x EXCEPT !.tries = n]
           IN  /\ y \in Row /\ y.status = s /\ y.variant = x.variant
               /\ y.sampled = x.sampled /\ y.tries = x.tries
               /\ z \in Row /\ z.status = s /\ z.variant = x.variant
               /\ z.sampled = x.sampled /\ z.tries = n
               /\ u \in Row /\ u.status = x.status /\ u.variant = x.variant
               /\ u.sampled = x.sampled /\ u.tries = n
BY DEF Row

\* The rows of a launch: released to the winner, sampled with a candidate, held back.
LEMMA SnapshotRows ==
    ASSUME bucket \in [Recipients -> Variants \cup {NoVariant}],
           NEW winner \in Variants \cup {NoVariant}, NEW r \in Recipients
    PROVE  LET x == Snapshot(winner)[r]
           IN  /\ x \in Row
               /\ winner # NoVariant => /\ x.status = "pending" /\ x.variant = winner
                                        /\ ~x.sampled
               /\ winner = NoVariant /\ r \in Sample =>
                    x.status = "pending" /\ x.variant = bucket[r] /\ x.sampled
               /\ winner = NoVariant /\ r \notin Sample =>
                    x.status = "holdout" /\ x.variant = NoVariant /\ ~x.sampled
<1>1. 0 \in 0..MaxAttempts /\ bucket[r] \in Variants \cup {NoVariant}
  BY ABAssumption
<1>2. CASE winner # NoVariant
  BY <1>1, <1>2 DEF Snapshot, Row
<1>3. CASE winner = NoVariant /\ r \in Sample
  BY <1>1, <1>3 DEF Snapshot, Row
<1>4. CASE winner = NoVariant /\ r \notin Sample
  BY <1>1, <1>4 DEF Snapshot, Row
<1> QED
  BY <1>2, <1>3, <1>4

LEMMA SnapshotIsTyped ==
    ASSUME bucket \in [Recipients -> Variants \cup {NoVariant}],
           NEW winner \in Variants \cup {NoVariant}
    PROVE  Snapshot(winner) \in [Recipients -> Row]
<1>1. \A r \in Recipients : Snapshot(winner)[r] \in Row
  BY SnapshotRows
<1> QED
  BY <1>1 DEF Snapshot

LEMMA ViewIsTyped ==
    ASSUME ABTypeOK, NEW t \in Txns, NEW r \in Recipients
    PROVE  View(t, r) \in Row
BY DEF ABTypeOK, View

LEMMA StartIsTyped == ABInit => ABTypeOK
<1> SUFFICES ASSUME ABInit PROVE ABTypeOK
  OBVIOUS
<1>1. bucket \in [Recipients -> Variants \cup {NoVariant}]
  BY ABAssumption DEF ABInit
<1>2. row \in [Recipients -> Row]
  BY <1>1, SnapshotIsTyped, ConstantsAreTyped DEF ABInit
<1>3. test \in Test
  <2>1. PICK a \in BOOLEAN :
          test = [NoTest EXCEPT !.auto = a,
                                !.status = IF Launchers = {} THEN "running" ELSE "draft"]
    BY DEF ABInit
  <2>2. test = [auto |-> a, status |-> IF Launchers = {} THEN "running" ELSE "draft",
                winner |-> NoVariant]
    BY <2>1 DEF NoTest
  <2> QED
    BY <2>2 DEF Test
<1>4. /\ campaign \in {"ready", "running"} /\ sentCount = Zero /\ elapsed = FALSE
      /\ pc = [t \in Txns |-> "idle"] /\ seen = [t \in Txns |-> NoTest]
      /\ count = [t \in Txns |-> Zero] /\ dirty = [t \in Txns |-> {}]
      /\ bumped = [t \in Txns |-> {}]
      /\ draft = [t \in Txns |-> [r \in Recipients |-> NoRow]]
      /\ todo = [t \in Txns |-> {}] /\ accepted = [t \in Txns |-> {}]
      /\ choice = [t \in Txns |-> NoVariant] /\ closes = [t \in Txns |-> FALSE]
      /\ held = [t \in Txns |-> {}]
      /\ rowLock = [x \in Variants \cup {"test", "account"} |-> Nobody]
      /\ rollbacks = 0 /\ mailed = [r \in Recipients |-> {}] /\ lost = {} /\ chosen = {}
  BY DEF ABInit
<1>5. 0 \in 0..MaxRollbacks
  BY ABAssumption
<1> QED
  BY <1>1, <1>2, <1>3, <1>4, <1>5, ConstantsAreTyped DEF ABTypeOK

\* What the end of a transaction leaves of it.
LEMMA EndTxnIsTyped ==
    ASSUME ABTypeOK, NEW t \in Txns, EndTxn(t)
    PROVE  /\ pc' \in [Txns -> {"idle", "read", "batch", "account", "select", "release",
                                "finish", "launch", "commit", "done"}]
           /\ seen' \in [Txns -> Test]
           /\ count' \in [Txns -> [Variants -> Nat]]
           /\ dirty' \in [Txns -> SUBSET Variants]
           /\ bumped' \in [Txns -> SUBSET Variants]
           /\ draft' \in [Txns -> [Recipients -> Row]]
           /\ todo' \in [Txns -> SUBSET Recipients]
           /\ accepted' \in [Txns -> SUBSET Recipients]
           /\ choice' \in [Txns -> Variants \cup {NoVariant}]
           /\ closes' \in [Txns -> BOOLEAN]
           /\ held' \in [Txns -> SUBSET Recipients]
           /\ rowLock' \in [Variants \cup {"test", "account"} -> Txns \cup {Nobody}]
BY ConstantsAreTyped DEF EndTxn, ABTypeOK

-----------------------------------------------------------------------------
(* Rows and work lists *)

\* Only a recipient of the sample is sampled, with a candidate, and who waits has an
\* attempt left.
SoundRow(r, x) ==
    /\ x.sampled => r \in Sample /\ x.variant \in Variants
    /\ Waiting(x) => x.tries < MaxAttempts

SoundRows ==
    \A r \in Recipients : SoundRow(r, row[r]) /\ \A t \in Txns : SoundRow(r, draft[t][r])

\* What a batch has still to process are pending recipients it has locked, and it has
\* processed them all before it goes on.
WorkLists ==
    \A t \in Txns :
        /\ todo[t] \subseteq held[t]
        /\ \A r \in todo[t] : draft[t][r].status = "pending"
        /\ pc[t] \notin {"read", "batch", "account"} => todo[t] = {}

\* Who is about to release the waiting recipients has a winner to release them to.
ChoiceMade == \A t \in Txns : pc[t] \in {"select", "release"} => choice[t] \in Variants

ABShape == ABTypeOK /\ SoundRows /\ WorkLists /\ ChoiceMade

LEMMA FreshRowSound == \A r : SoundRow(r, NoRow)
BY DEF SoundRow, NoRow, Waiting

LEMMA SnapshotSound ==
    ASSUME bucket \in [Recipients -> Variants \cup {NoVariant}],
           NEW winner \in Variants \cup {NoVariant}, NEW r \in Recipients
    PROVE  SoundRow(r, Snapshot(winner)[r])
<1>1. Snapshot(winner)[r].tries = 0
  BY DEF Snapshot
<1>2. Snapshot(winner)[r].sampled => Snapshot(winner)[r].variant \in Variants /\ r \in Sample
  BY SnapshotRows DEF Sample
<1> QED
  BY <1>1, <1>2, ABAssumption DEF SoundRow

LEMMA StartShape == ABInit => ABShape
<1> SUFFICES ASSUME ABInit PROVE ABShape
  OBVIOUS
<1>1. ABTypeOK
  BY StartIsTyped
<1>2. /\ draft = [t \in Txns |-> [r \in Recipients |-> NoRow]]
      /\ todo = [t \in Txns |-> {}] /\ held = [t \in Txns |-> {}]
      /\ pc = [t \in Txns |-> "idle"]
      /\ row \in {[r \in Recipients |-> NoRow], Snapshot(NoVariant)}
  BY DEF ABInit
<1>3. SoundRows
  BY <1>1, <1>2, FreshRowSound, SnapshotSound DEF SoundRows, ABTypeOK
<1>4. WorkLists /\ ChoiceMade
  BY <1>2 DEF WorkLists, ChoiceMade
<1> QED
  BY <1>1, <1>3, <1>4 DEF ABShape

\* A step that moves on and leaves rows, locks and work lists alone.
LEMMA QuietShape ==
    ASSUME ABShape, ABTypeOK', ChoiceMade', UNCHANGED <<bucket, row, draft, todo, held>>,
           \A t \in Txns : pc'[t] \notin {"read", "batch", "account"} =>
                            \/ pc[t] \notin {"read", "batch", "account"}
                            \/ todo[t] = {}
    PROVE  ABShape'
BY DEF ABShape, SoundRows, SoundRow, WorkLists, Sample, Waiting

LEMMA ReadTestShape == ASSUME ABShape, NEW w \in Batches, ReadTest(w) PROVE ABShape'
<1> USE ConstantsAreTyped DEF ReadTest, dataVars, lockVars, worldVars
<1>1. ABTypeOK'
  BY DEF ABTypeOK, ABShape
<1>2. ChoiceMade'
  BY DEF ABShape, ABTypeOK, ChoiceMade
<1> QED
  BY <1>1, <1>2, QuietShape DEF ABShape, ABTypeOK

LEMMA FlushShape == ASSUME ABShape, NEW w \in Batches, FlushVariants(w) PROVE ABShape'
<1> USE ConstantsAreTyped DEF FlushVariants, dataVars, txnVars, worldVars
<1>1. ABTypeOK'
  BY DEF ABTypeOK, ABShape
<1>2. ChoiceMade'
  BY DEF ABShape, ABTypeOK, ChoiceMade
<1> QED
  BY <1>1, <1>2, QuietShape DEF ABShape, ABTypeOK

LEMMA CallAcceptedShape ==
    ASSUME ABShape, NEW w \in Batches, NEW r \in Recipients, CallAccepted(w, r)
    PROVE  ABShape'
<1> USE ConstantsAreTyped DEF CallAccepted, dataVars, lockVars
<1>0. draft[w][r].variant \in Variants \cup {NoVariant}
  BY DEF ABTypeOK, ABShape, Row
<1>1. ABTypeOK'
  BY <1>0 DEF ABTypeOK, ABShape
<1>2. ChoiceMade'
  BY DEF ABShape, ABTypeOK, ChoiceMade
<1> QED
  BY <1>1, <1>2, QuietShape DEF ABShape, ABTypeOK

LEMMA RefreshCountersShape ==
    ASSUME ABShape, NEW w \in Batches, RefreshCounters(w)
    PROVE  ABShape'
<1> USE ConstantsAreTyped
<1> DEFINE done == \A r \in Recipients : Terminal(View(w, r))
<1>0. done \in BOOLEAN
  OBVIOUS
<1> HIDE DEF done
<1>1. /\ todo[w] = {}
      /\ closes' = [closes EXCEPT ![w] = done]
      /\ \/ /\ pc' = [pc EXCEPT ![w] = "select"]
            /\ \E v \in Variants : choice' = [choice EXCEPT ![w] = v]
         \/ /\ pc' = [pc EXCEPT ![w] = "finish"] \/ pc' = [pc EXCEPT ![w] = "commit"]
            /\ choice' = choice
  BY DEF RefreshCounters, done
<1>u. UNCHANGED <<dataVars, seen, count, dirty, bumped, draft, todo, accepted, lockVars,
                  worldVars>>
  BY DEF RefreshCounters
<1>2. ABTypeOK'
  <2>1. closes \in [Txns -> BOOLEAN]
    BY DEF ABTypeOK, ABShape
  <2>2. closes' \in [Txns -> BOOLEAN]
    BY <1>0, <1>1, <2>1
  <2>3. pc' \in [Txns -> {"idle", "read", "batch", "account", "select", "release",
                          "finish", "launch", "commit", "done"}]
    BY <1>1 DEF ABTypeOK, ABShape
  <2>4. choice' \in [Txns -> Variants \cup {NoVariant}]
    <3>1. choice \in [Txns -> Variants \cup {NoVariant}]
      BY DEF ABTypeOK, ABShape
    <3> QED
      BY <1>1, <3>1
  <2> QED
    BY <1>u, <2>2, <2>3, <2>4 DEF ABTypeOK, ABShape, dataVars, lockVars, worldVars
<1>3. ChoiceMade'
  BY <1>1 DEF ABShape, ABTypeOK, ChoiceMade
<1> QED
  BY <1>1, <1>u, <1>2, <1>3, QuietShape DEF ABShape, ABTypeOK, dataVars, lockVars

LEMMA FinishTestShape == ASSUME ABShape, NEW w \in Batches, FinishTest(w) PROVE ABShape'
<1> USE ConstantsAreTyped DEF FinishTest, dataVars, worldVars
<1>1. ABTypeOK'
  BY DEF ABTypeOK, ABShape
<1>2. ChoiceMade'
  BY DEF ABShape, ABTypeOK, ChoiceMade
<1> QED
  BY <1>1, <1>2, QuietShape DEF ABShape, ABTypeOK

LEMMA ChooseShape ==
    ASSUME ABShape, NEW o \in Operators, NEW v \in Variants, ChooseManually(o, v)
    PROVE  ABShape'
<1> USE ConstantsAreTyped DEF ChooseManually, dataVars, lockVars, worldVars
<1>1. ABTypeOK'
  BY DEF ABTypeOK, ABShape
<1>2. ChoiceMade'
  BY DEF ABShape, ABTypeOK, ChoiceMade
<1> QED
  BY <1>1, <1>2, QuietShape DEF ABShape, ABTypeOK

LEMMA EvaluateShape == ASSUME ABShape, NEW e \in Evaluators, EvaluateWinner(e) PROVE ABShape'
<1> USE ConstantsAreTyped DEF dataVars, lockVars, worldVars
<1>0. PICK v \in Variants :
        /\ pc[e] = "idle"
        /\ pc' = [pc EXCEPT ![e] = "select"]
        /\ choice' = [choice EXCEPT ![e] = v]
        /\ UNCHANGED <<dataVars, seen, count, dirty, bumped, draft, todo, accepted, closes,
                       lockVars, worldVars>>
  BY DEF EvaluateWinner
<1>1. ABTypeOK'
  BY <1>0 DEF ABTypeOK, ABShape
<1>2. ChoiceMade'
  BY <1>0 DEF ABShape, ABTypeOK, ChoiceMade
<1> QED
  BY <1>0, <1>1, <1>2, QuietShape DEF ABShape, ABTypeOK

LEMMA LockTestShape == ASSUME ABShape, NEW t \in Txns, LockTest(t) PROVE ABShape'
<1> USE ConstantsAreTyped DEF LockTest, dataVars, worldVars
<1>1. ABTypeOK'
  BY DEF ABTypeOK, ABShape
<1>2. ChoiceMade'
  BY DEF ABShape, ABTypeOK, ChoiceMade
<1> QED
  BY <1>1, <1>2, QuietShape DEF ABShape, ABTypeOK

LEMMA ElapseShape == ASSUME ABShape, TestElapses PROVE ABShape'
<1> USE DEF TestElapses, txnVars, lockVars, worldVars
<1>1. ABTypeOK'
  BY DEF ABTypeOK, ABShape
<1>2. ChoiceMade'
  BY DEF ABShape, ABTypeOK, ChoiceMade
<1> QED
  BY <1>1, <1>2, QuietShape DEF ABShape, ABTypeOK

\* What every transaction has besides the locked and listed rows is its own: a step of
\* transaction t keeps the shape when what it makes of t's own is in shape.
LEMMA OwnShape ==
    ASSUME ABShape, ABTypeOK', NEW t \in Txns, UNCHANGED <<bucket, row>>,
           \A u \in Txns \ {t} : /\ draft'[u] = draft[u] /\ todo'[u] = todo[u]
                                 /\ held'[u] = held[u] /\ pc'[u] = pc[u]
                                 /\ choice'[u] = choice[u],
           \A r \in Recipients : SoundRow(r, draft'[t][r]),
           todo'[t] \subseteq held'[t],
           \A r \in todo'[t] : draft'[t][r].status = "pending",
           pc'[t] \notin {"read", "batch", "account"} => todo'[t] = {},
           pc'[t] \in {"select", "release"} => choice'[t] \in Variants
    PROVE  ABShape'
<1> USE DEF ABShape
<1>1. Sample' = Sample /\ \A r, x : SoundRow(r, x)' <=> SoundRow(r, x)
  BY DEF Sample, SoundRow
<1>2. SoundRows'
  BY <1>1 DEF SoundRows, SoundRow, Sample
<1>3. WorkLists'
  BY DEF WorkLists
<1>4. ChoiceMade'
  BY DEF ChoiceMade
<1> QED
  BY <1>2, <1>3, <1>4

LEMMA LoadLaunchShape == ASSUME ABShape, NEW l \in Launchers, LoadLaunch(l) PROVE ABShape'
<1> USE ConstantsAreTyped DEF ABShape
<1>1. test.winner \in Variants \cup {NoVariant} /\ l \in Txns
  BY DEF ABTypeOK, Test
<1>2. Snapshot(test.winner) \in [Recipients -> Row]
  BY <1>1, SnapshotIsTyped DEF ABTypeOK
<1>3. ABTypeOK'
  BY <1>2 DEF LoadLaunch, ABTypeOK, dataVars, lockVars, worldVars
<1>4. \A r \in Recipients : SoundRow(r, Snapshot(test.winner)[r])
  BY <1>1, SnapshotSound DEF ABTypeOK
<1>5. todo[l] = {}
  BY <1>1 DEF LoadLaunch, WorkLists
<1> QED
  BY <1>1, <1>3, <1>4, <1>5, OwnShape DEF LoadLaunch, ABTypeOK, dataVars, lockVars

LEMMA ClaimShape == ASSUME ABShape, NEW w \in Batches, Claim(w) PROVE ABShape'
<1> USE ConstantsAreTyped DEF ABShape
<1>1. PICK S \in ListDueRecipients(w) :
        /\ held' = [held EXCEPT ![w] = S]
        /\ todo' = [todo EXCEPT ![w] = S]
        /\ draft' = [draft EXCEPT ![w] = [r \in Recipients |->
                                            IF r \in S THEN row[r] ELSE NoRow]]
  BY DEF Claim
<1>2. /\ pc' = [pc EXCEPT ![w] = "read"]
      /\ UNCHANGED <<dataVars, seen, count, dirty, bumped, accepted, choice, closes, rowLock,
                     worldVars>>
  BY DEF Claim
<1>3. /\ S \subseteq Recipients
      /\ \A r \in S : row[r].status = "pending"
  BY <1>1 DEF ListDueRecipients
<1>4. [r \in Recipients |-> IF r \in S THEN row[r] ELSE NoRow] \in [Recipients -> Row]
  BY DEF ABTypeOK
<1>5. ABTypeOK'
  BY <1>1, <1>2, <1>3, <1>4 DEF ABTypeOK, dataVars, worldVars
<1>6. \A r \in Recipients : SoundRow(r, draft'[w][r])
  <2>1. \A r \in Recipients : draft'[w][r] = IF r \in S THEN row[r] ELSE NoRow
    BY <1>1 DEF ABTypeOK
  <2> QED
    BY <2>1, FreshRowSound DEF SoundRows
<1>7. /\ held'[w] = S /\ todo'[w] = S /\ pc'[w] = "read"
      /\ \A r \in S : draft'[w][r].status = "pending"
  BY <1>1, <1>2, <1>3 DEF ABTypeOK
<1> QED
  BY <1>1, <1>2, <1>5, <1>6, <1>7, OwnShape DEF ABTypeOK, dataVars

\* Settling a recipient keeps the types when the row it ends up as has one.
LEMMA SettleTypes ==
    ASSUME ABTypeOK, NEW w \in Txns, NEW r \in Recipients, NEW x \in Row,
           NEW vs \in SUBSET Variants, Settle(w, r, x, vs)
    PROVE  /\ draft' \in [Txns -> [Recipients -> Row]]
           /\ todo' \in [Txns -> SUBSET Recipients]
           /\ dirty' \in [Txns -> SUBSET Variants]
BY DEF Settle, ABTypeOK

\* Recipient r of batch w is settled as a sound row, or waits for another attempt.
LEMMA SettleShape ==
    ASSUME ABShape, NEW w \in Batches, NEW r \in Recipients, NEW x \in Row, SoundRow(r, x),
           NEW vs, Settle(w, r, x, vs), ABTypeOK', pc'[w] \in {"batch", "account"},
           \A u \in Txns \ {w} : pc'[u] = pc[u],
           UNCHANGED <<bucket, row, held, choice>>
    PROVE  ABShape'
<1> USE ConstantsAreTyped DEF ABShape
<1>1. /\ draft' = [draft EXCEPT ![w][r] = x]
      /\ todo' = [todo EXCEPT ![w] = @ \ {r}]
  BY DEF Settle
<1>2. /\ \A u \in Txns \ {w} : draft'[u] = draft[u] /\ todo'[u] = todo[u]
      /\ draft'[w][r] = x /\ todo'[w] = todo[w] \ {r}
      /\ \A q \in Recipients \ {r} : draft'[w][q] = draft[w][q]
  BY <1>1 DEF ABTypeOK
<1>3. \A q \in Recipients : SoundRow(q, draft'[w][q])
  BY <1>2 DEF SoundRows
<1>4. /\ todo'[w] \subseteq held'[w]
      /\ \A q \in todo'[w] : draft'[w][q].status = "pending"
  BY <1>2 DEF WorkLists, ABTypeOK
<1> QED
  BY <1>2, <1>3, <1>4, OwnShape

LEMMA SkipShape ==
    ASSUME ABShape, NEW w \in Batches, NEW r \in Recipients, SkipRecipient(w, r)
    PROVE  ABShape'
<1> USE ConstantsAreTyped DEF ABShape
<1> DEFINE x == [draft[w][r] EXCEPT !.status = "skipped"]
<1>0. draft[w][r] \in Row
  BY DEF ABTypeOK
<1>1. x \in Row /\ x.sampled = draft[w][r].sampled /\ x.variant = draft[w][r].variant
      /\ x.status = "skipped"
  BY <1>0 DEF Row
<1>2. SoundRow(r, x)
  BY <1>1 DEF SoundRows, SoundRow, Waiting
<1>3. /\ Settle(w, r, x, {}) /\ pc[w] = "batch"
      /\ UNCHANGED <<dataVars, pc, seen, count, bumped, accepted, choice, closes, lockVars,
                     worldVars>>
  BY DEF SkipRecipient, NextRecipient
<1> HIDE DEF x
<1>4. /\ draft' \in [Txns -> [Recipients -> Row]]
      /\ todo' \in [Txns -> SUBSET Recipients]
      /\ dirty' \in [Txns -> SUBSET Variants]
  BY <1>1, <1>3, SettleTypes
<1>5. ABTypeOK'
  BY <1>3, <1>4 DEF ABTypeOK, dataVars, lockVars, worldVars
<1> QED
  BY <1>1, <1>2, <1>3, <1>5, SettleShape DEF dataVars, lockVars

\* What is counted of a sound row are candidates.
LEMMA CountedTyped ==
    ASSUME NEW r, NEW x, SoundRow(r, x)
    PROVE  Counted(x) \in SUBSET Variants
BY DEF SoundRow, Counted

LEMMA RecordSentShape == ASSUME ABShape, NEW w \in Batches, RecordSent(w) PROVE ABShape'
<1> USE ConstantsAreTyped DEF ABShape
<1>1. PICK r \in accepted[w] \cap todo[w] :
        LET x == draft[w][r] IN
        /\ Settle(w, r, [x EXCEPT !.status = "sent", !.tries = @ + 1], Counted(x))
        /\ count' = [count EXCEPT ![w] = [v \in Variants |->
                        IF v \in Counted(x) THEN @[v] + 1 ELSE @[v]]]
        /\ bumped' = [bumped EXCEPT ![w] = @ \cup Counted(x)]
  BY DEF RecordSent
<1>2. /\ pc[w] = "account" /\ pc' = [pc EXCEPT ![w] = "batch"]
      /\ rowLock' = [rowLock EXCEPT !["account"] = w]
      /\ UNCHANGED <<dataVars, seen, accepted, choice, closes, held, worldVars>>
  BY DEF RecordSent
<1> DEFINE x == draft[w][r]
           y == [x EXCEPT !.status = "sent", !.tries = @ + 1]
<1>3. /\ r \in Recipients /\ x \in Row /\ x.status = "pending" /\ SoundRow(r, x)
  BY <1>1 DEF ABTypeOK, WorkLists, SoundRows
<1>4. x.tries + 1 \in 0..MaxAttempts
  BY <1>3, ABAssumption DEF SoundRow, Waiting, Row
<1>5. /\ y \in Row /\ y.sampled = x.sampled /\ y.variant = x.variant /\ y.status = "sent"
  BY <1>3, <1>4 DEF Row
<1>6. SoundRow(r, y)
  BY <1>3, <1>5 DEF SoundRow, Waiting
<1>7. Counted(x) \in SUBSET Variants
  BY <1>3, CountedTyped
<1>8. Settle(w, r, y, Counted(x))
  BY <1>1
<1>c. /\ count' = [count EXCEPT ![w] = [v \in Variants |->
                        IF v \in Counted(x) THEN count[w][v] + 1 ELSE count[w][v]]]
      /\ bumped' = [bumped EXCEPT ![w] = @ \cup Counted(x)]
  BY <1>1 DEF ABTypeOK
<1> HIDE DEF x, y
<1>9. /\ draft' \in [Txns -> [Recipients -> Row]]
      /\ todo' \in [Txns -> SUBSET Recipients]
      /\ dirty' \in [Txns -> SUBSET Variants]
  BY <1>3, <1>5, <1>7, <1>8, SettleTypes
<1>10. /\ count' \in [Txns -> [Variants -> Nat]]
       /\ bumped' \in [Txns -> SUBSET Variants]
  BY <1>7, <1>c DEF ABTypeOK
<1>11. ABTypeOK'
  BY <1>2, <1>9, <1>10 DEF ABTypeOK, dataVars, worldVars
<1> QED
  BY <1>2, <1>3, <1>5, <1>6, <1>8, <1>11, SettleShape DEF dataVars, ABTypeOK

\* A failed attempt leaves a sound row.
LEMMA FailureRows ==
    ASSUME NEW r, NEW x \in Row, SoundRow(r, x), x.status = "pending"
    PROVE  LET y == [x EXCEPT !.tries = @ + 1] IN
           /\ AfterFailure(y) \in Row /\ SoundRow(r, AfterFailure(y))
           /\ AfterDoubt(y) \in Row /\ SoundRow(r, AfterDoubt(y))
           /\ AfterFailure(y).status \in {"pending", "failed"}
           /\ AfterDoubt(y).status = "failed"
           /\ AfterFailure(y).variant = x.variant /\ AfterFailure(y).sampled = x.sampled
           /\ AfterDoubt(y).variant = x.variant /\ AfterDoubt(y).sampled = x.sampled
           /\ Counted(y) = Counted(x) /\ y.variant = x.variant
<1> DEFINE y == [x EXCEPT !.tries = @ + 1]
<1>1. x.tries + 1 \in 0..MaxAttempts
  BY ABAssumption DEF SoundRow, Waiting, Row
<1>2. /\ y \in Row /\ y.sampled = x.sampled /\ y.variant = x.variant
      /\ y.status = "pending" /\ y.tries = x.tries + 1
  BY <1>1 DEF Row
<1> HIDE DEF y
<1>3. LET z == [y EXCEPT !.status = "failed"] IN
      z \in Row /\ z.sampled = y.sampled /\ z.variant = y.variant /\ z.status = "failed"
  BY <1>2 DEF Row
<1>4. /\ AfterDoubt(y) \in Row /\ AfterDoubt(y).sampled = x.sampled
      /\ AfterDoubt(y).variant = x.variant /\ AfterDoubt(y).status = "failed"
  BY <1>2, <1>3 DEF AfterDoubt
<1>5. /\ AfterFailure(y) \in Row /\ AfterFailure(y).sampled = x.sampled
      /\ AfterFailure(y).variant = x.variant
      /\ AfterFailure(y).status \in {"pending", "failed"}
      /\ AfterFailure(y).status = "pending" => AfterFailure(y).tries < MaxAttempts
  BY <1>2, <1>3 DEF AfterFailure
<1>6. SoundRow(r, AfterDoubt(y)) /\ SoundRow(r, AfterFailure(y))
  BY <1>4, <1>5 DEF SoundRow, Waiting
<1>7. Counted(y) = Counted(x)
  BY <1>2 DEF Counted
<1> QED
  BY <1>2, <1>4, <1>5, <1>6, <1>7 DEF y

LEMMA CallFailedShape ==
    ASSUME ABShape, NEW w \in Batches, NEW r \in Recipients, CallFailed(w, r)
    PROVE  ABShape'
<1> USE ConstantsAreTyped DEF ABShape
<1> DEFINE x == draft[w][r]
           y == [x EXCEPT !.tries = @ + 1]
<1>1. /\ NextRecipient(w, r)
      /\ \/ /\ Settle(w, r, AfterFailure(y),
                      IF Terminal(AfterFailure(y)) THEN Counted(y) ELSE {})
            /\ UNCHANGED <<mailed, accepted>>
         \/ /\ Settle(w, r, AfterDoubt(y), {})
            /\ \/ UNCHANGED <<mailed, accepted>>
               \/ /\ mailed' = [mailed EXCEPT ![r] = @ \cup {y.variant}]
                  /\ accepted' = [accepted EXCEPT ![w] = @ \cup {r}]
      /\ UNCHANGED <<dataVars, pc, seen, count, bumped, choice, closes, lockVars,
                     rollbacks, lost, chosen>>
  BY DEF CallFailed
<1>2. x \in Row /\ x.status = "pending" /\ SoundRow(r, x)
  BY <1>1 DEF NextRecipient, ABTypeOK, WorkLists, SoundRows
<1>3. /\ AfterFailure(y) \in Row /\ SoundRow(r, AfterFailure(y))
      /\ AfterDoubt(y) \in Row /\ SoundRow(r, AfterDoubt(y))
      /\ Counted(y) \in SUBSET Variants /\ y.variant \in Variants \cup {NoVariant}
  <2>1. x.variant \in Variants \cup {NoVariant} /\ Counted(x) \in SUBSET Variants
    BY <1>2, CountedTyped DEF Row
  <2> QED
    BY <1>2, <2>1, FailureRows
<1> HIDE DEF x, y
<1>4. PICK z \in {AfterFailure(y), AfterDoubt(y)}, vs \in SUBSET Variants : Settle(w, r, z, vs)
  BY <1>1, <1>3
<1>5. z \in Row /\ SoundRow(r, z)
  BY <1>3
<1>6. /\ draft' \in [Txns -> [Recipients -> Row]]
      /\ todo' \in [Txns -> SUBSET Recipients]
      /\ dirty' \in [Txns -> SUBSET Variants]
  BY <1>4, <1>5, SettleTypes
<1>7. /\ mailed' \in [Recipients -> SUBSET (Variants \cup {NoVariant})]
      /\ accepted' \in [Txns -> SUBSET Recipients]
  <2>1. /\ mailed \in [Recipients -> SUBSET (Variants \cup {NoVariant})]
        /\ accepted \in [Txns -> SUBSET Recipients]
    BY DEF ABTypeOK
  <2>2. \/ UNCHANGED <<mailed, accepted>>
        \/ /\ mailed' = [mailed EXCEPT ![r] = @ \cup {y.variant}]
           /\ accepted' = [accepted EXCEPT ![w] = @ \cup {r}]
    BY <1>1
  <2> QED
    BY <1>3, <2>1, <2>2
<1>8. UNCHANGED <<dataVars, pc, seen, count, bumped, choice, closes, lockVars,
                  rollbacks, lost, chosen>>
  BY <1>1
<1>9. ABTypeOK'
  BY <1>6, <1>7, <1>8 DEF ABTypeOK, dataVars, lockVars
<1> QED
  BY <1>1, <1>4, <1>5, <1>8, <1>9, SettleShape DEF dataVars, lockVars, NextRecipient

LEMMA LockForReleaseShape ==
    ASSUME ABShape, NEW t \in Txns, NEW r \in Recipients, LockForRelease(t, r)
    PROVE  ABShape'
<1> USE ConstantsAreTyped DEF ABShape
<1>1. /\ pc[t] = "release" /\ r \notin held[t]
      /\ held' = [held EXCEPT ![t] = @ \cup {r}]
      /\ draft' = [draft EXCEPT ![t][r] = row[r]]
      /\ UNCHANGED <<dataVars, pc, seen, count, dirty, bumped, todo, accepted, choice, closes,
                     rowLock, worldVars>>
  BY DEF LockForRelease
<1>2. ABTypeOK'
  BY <1>1 DEF ABTypeOK, dataVars, worldVars
<1>3. todo[t] = {} /\ choice[t] \in Variants
  BY <1>1 DEF WorkLists, ChoiceMade
<1>4. \A q \in Recipients : SoundRow(q, draft'[t][q])
  <2>1. \A q \in Recipients : draft'[t][q] = IF q = r THEN row[r] ELSE draft[t][q]
    BY <1>1 DEF ABTypeOK
  <2> QED
    BY <2>1 DEF SoundRows
<1>5. \A u \in Txns \ {t} : draft'[u] = draft[u] /\ held'[u] = held[u]
  BY <1>1 DEF ABTypeOK
<1> QED
  BY <1>1, <1>2, <1>3, <1>4, <1>5, OwnShape DEF dataVars

\* The statement gives every waiting row it has locked to the winner.
LEMMA AssignedRows ==
    ASSUME ABShape, NEW t \in Txns, AssignPending(t), NEW r \in Recipients
    PROVE  LET x == draft'[t][r] IN
           /\ x \in Row /\ SoundRow(r, x)
           /\ r \in held[t] /\ Waiting(draft[t][r]) =>
                x.status = "pending" /\ x.variant = choice[t] /\ ~x.sampled
           /\ ~(r \in held[t] /\ Waiting(draft[t][r])) => x = draft[t][r]
<1> USE DEF ABShape
<1>1. /\ choice[t] \in Variants /\ draft[t][r] \in Row /\ SoundRow(r, draft[t][r])
  BY DEF AssignPending, ChoiceMade, ABTypeOK, SoundRows
<1>2. draft'[t][r] = IF r \in held[t] /\ Waiting(draft[t][r])
                     THEN [status |-> "pending", variant |-> choice[t], sampled |-> FALSE,
                           tries |-> draft[t][r].tries]
                     ELSE draft[t][r]
  BY DEF AssignPending, ABTypeOK
<1>3. CASE r \in held[t] /\ Waiting(draft[t][r])
  BY <1>1, <1>2, <1>3 DEF Row, SoundRow, Waiting
<1>4. CASE ~(r \in held[t] /\ Waiting(draft[t][r]))
  BY <1>1, <1>2, <1>4
<1> QED
  BY <1>3, <1>4

LEMMA AssignPendingShape == ASSUME ABShape, NEW t \in Txns, AssignPending(t) PROVE ABShape'
<1> USE ConstantsAreTyped DEF ABShape
<1> DEFINE given == [r \in Recipients |->
                      IF r \in held[t] /\ Waiting(draft[t][r])
                      THEN [status |-> "pending", variant |-> choice[t], sampled |-> FALSE,
                            tries |-> draft[t][r].tries]
                      ELSE draft[t][r]]
<1>1. /\ draft' = [draft EXCEPT ![t] = given]
      /\ pc[t] = "release" /\ pc' = [pc EXCEPT ![t] = "commit"]
      /\ UNCHANGED <<dataVars, seen, count, dirty, bumped, todo, accepted, choice, closes,
                     lockVars, worldVars>>
  BY DEF AssignPending
<1>2. draft'[t] = given /\ \A u \in Txns \ {t} : draft'[u] = draft[u] /\ pc'[u] = pc[u]
  BY <1>1 DEF ABTypeOK
<1>3. \A r \in Recipients : draft'[t][r] \in Row /\ SoundRow(r, draft'[t][r])
  BY AssignedRows
<1>4. given \in [Recipients -> Row]
  BY <1>2, <1>3
<1> HIDE DEF given
<1>5. draft' \in [Txns -> [Recipients -> Row]]
  BY <1>1, <1>4 DEF ABTypeOK
<1>6. ABTypeOK'
  BY <1>1, <1>5 DEF ABTypeOK, dataVars, lockVars, worldVars
<1>7. todo[t] = {} /\ pc'[t] = "commit"
  BY <1>1 DEF WorkLists, ABTypeOK
<1> QED
  BY <1>1, <1>2, <1>3, <1>6, <1>7, OwnShape DEF dataVars, lockVars

\* Nothing is left of a transaction that has ended.
LEMMA EndTxnShape ==
    ASSUME ABShape, ABTypeOK', NEW t \in Txns, EndTxn(t), bucket' = bucket,
           \A r \in Recipients : SoundRow(r, row'[r])
    PROVE  ABShape'
<1> USE DEF ABShape
<1>1. /\ \A u \in Txns : /\ draft'[u] = IF u = t THEN [r \in Recipients |-> NoRow] ELSE draft[u]
                         /\ todo'[u] = IF u = t THEN {} ELSE todo[u]
                         /\ held'[u] = IF u = t THEN {} ELSE held[u]
                         /\ choice'[u] = IF u = t THEN NoVariant ELSE choice[u]
      /\ \A u \in Txns \ {t} : pc'[u] = pc[u]
      /\ pc'[t] \in {"idle", "done"}
  BY DEF EndTxn, ABTypeOK
<1>2. SoundRows'
  BY <1>1, FreshRowSound DEF SoundRows, SoundRow, Sample
<1>3. WorkLists'
  BY <1>1 DEF WorkLists
<1>4. ChoiceMade'
  BY <1>1 DEF ChoiceMade
<1> QED
  BY <1>2, <1>3, <1>4

LEMMA LaunchShape == ASSUME ABShape, NEW l \in Launchers, LaunchCampaign(l) PROVE ABShape'
<1> USE ConstantsAreTyped DEF ABShape
<1>1. test' \in Test
  BY DEF LaunchCampaign, ABTypeOK, Test
<1>2. ABTypeOK'
  BY <1>1, EndTxnIsTyped DEF LaunchCampaign, ABTypeOK, worldVars
<1>3. \A r \in Recipients : SoundRow(r, row'[r])
  BY DEF LaunchCampaign, SoundRows
<1> QED
  BY <1>2, <1>3, EndTxnShape DEF LaunchCampaign

LEMMA CommitShape == ASSUME ABShape, NEW t \in Txns, Commit(t) PROVE ABShape'
<1> USE ConstantsAreTyped DEF ABShape
<1>1. /\ row' = [r \in Recipients |-> View(t, r)]
      /\ sentCount' = [v \in Variants |-> IF v \in bumped[t] THEN count[t][v] ELSE sentCount[v]]
      /\ campaign' = IF closes[t] THEN "completed" ELSE campaign
      /\ test' = IF rowLock["test"] # t THEN test
                 ELSE IF choice[t] = NoVariant THEN [test EXCEPT !.status = "completed"]
                 ELSE [test EXCEPT !.status = "winner_selected", !.winner = choice[t]]
      /\ chosen' = chosen \cup ({choice[t]} \ {NoVariant})
      /\ EndTxn(t)
      /\ UNCHANGED <<bucket, elapsed, rollbacks, mailed, lost>>
  BY DEF Commit
<1>2. row' \in [Recipients -> Row]
  BY <1>1, ViewIsTyped
<1>3. sentCount' \in [Variants -> Nat]
  BY <1>1 DEF ABTypeOK
<1>4. test' \in Test
  <2>1. test \in Test /\ choice[t] \in Variants \cup {NoVariant}
    BY DEF ABTypeOK
  <2>2. [test EXCEPT !.status = "completed"] \in Test
    BY <2>1 DEF Test
  <2>3. [test EXCEPT !.status = "winner_selected", !.winner = choice[t]] \in Test
    BY <2>1 DEF Test
  <2> QED
    BY <1>1, <2>1, <2>2, <2>3
<1>5. campaign' \in {"ready", "running", "completed"} /\ chosen' \in SUBSET Variants
  BY <1>1 DEF ABTypeOK
<1>6. ABTypeOK'
  BY <1>1, <1>2, <1>3, <1>4, <1>5, EndTxnIsTyped DEF ABTypeOK
<1>7. \A r \in Recipients : SoundRow(r, row'[r])
  BY <1>1 DEF View, SoundRows
<1> QED
  BY <1>1, <1>6, <1>7, EndTxnShape

LEMMA RollbackShape == ASSUME ABShape, NEW t \in Txns, Rollback(t) PROVE ABShape'
<1> USE ConstantsAreTyped DEF ABShape
<1>1. /\ rollbacks' = IF rollbacks < MaxRollbacks THEN rollbacks + 1 ELSE rollbacks
      /\ lost' = lost \cup accepted[t]
      /\ EndTxn(t)
      /\ UNCHANGED <<dataVars, mailed, chosen>>
  BY DEF Rollback
<1>2. rollbacks' \in 0..MaxRollbacks /\ lost' \in SUBSET Recipients
  BY <1>1, ABAssumption DEF ABTypeOK
<1>3. ABTypeOK'
  BY <1>1, <1>2, EndTxnIsTyped DEF ABTypeOK, dataVars
<1>4. \A r \in Recipients : SoundRow(r, row'[r])
  BY <1>1 DEF SoundRows, dataVars
<1> QED
  BY <1>1, <1>3, <1>4, EndTxnShape DEF dataVars

LEMMA StepShape == ABShape /\ [ABNext]_abVars => ABShape'
<1> SUFFICES ASSUME ABShape, [ABNext]_abVars PROVE ABShape'
  OBVIOUS
<1> USE ConstantsAreTyped
<1>1. ASSUME NEW t \in Txns, ReleaseStep(t) PROVE ABShape'
  BY <1>1, LockTestShape, LockForReleaseShape, AssignPendingShape, CommitShape DEF ReleaseStep
<1>2. ASSUME NEW w \in Batches, BatchStep(w) PROVE ABShape'
  BY <1>1, <1>2, ReadTestShape, FlushShape, SkipShape, CallAcceptedShape, CallFailedShape,
     RecordSentShape, RefreshCountersShape, FinishTestShape DEF BatchStep
<1>3. CASE UNCHANGED abVars
  BY <1>3 DEF abVars, dataVars, txnVars, lockVars, worldVars, ABShape, ABTypeOK, SoundRows,
     SoundRow, WorkLists, ChoiceMade, Sample, Waiting
<1> QED
  BY <1>1, <1>2, <1>3, LoadLaunchShape, LaunchShape, ClaimShape, ChooseShape, EvaluateShape,
     RollbackShape, ElapseShape DEF ABNext

THEOREM ABTypesAreKept == ABSpec => []ABTypeOK
<1>1. ABShape => ABTypeOK
  BY DEF ABShape
<1> QED
  BY <1>1, StartShape, StepShape, PTL DEF ABSpec

-----------------------------------------------------------------------------
(* Held-back recipients *)

\* A recipient outside the sample is pending for one of the candidates in C only.
PendingFor(C, r, x) == r \notin Sample /\ x.status = "pending" => x.variant \in C

\* The winners a transaction may release recipients to: the committed ones, and once the
\* recipients are assigned the one it is about to commit.
Winners(t) == chosen \cup (IF pc[t] = "commit" THEN {choice[t]} \ {NoVariant} ELSE {})

\* Rows and drafts keep the promise the mails are sent from.
HeldBackInv ==
    /\ test.winner # NoVariant => test.winner \in chosen
    /\ \A r \in Recipients : PendingFor(chosen, r, row[r])
    /\ \A t \in Txns, r \in Recipients : PendingFor(Winners(t), r, draft[t][r])
    /\ HeldBackGetWinner

LEMMA StartHeldBack == ABInit => HeldBackInv
<1> SUFFICES ASSUME ABInit PROVE HeldBackInv
  OBVIOUS
<1>1. ABTypeOK
  BY StartIsTyped
<1>2. /\ draft = [t \in Txns |-> [r \in Recipients |-> NoRow]]
      /\ mailed = [r \in Recipients |-> {}]
      /\ row \in {[r \in Recipients |-> NoRow], Snapshot(NoVariant)}
  BY DEF ABInit
<1>3. test.winner = NoVariant
  <2>1. PICK a \in BOOLEAN :
          test = [NoTest EXCEPT !.auto = a,
                                !.status = IF Launchers = {} THEN "running" ELSE "draft"]
    BY DEF ABInit
  <2> QED
    BY <2>1 DEF NoTest
<1>4. \A r \in Recipients : PendingFor(chosen, r, row[r])
  BY <1>1, <1>2, SnapshotRows DEF PendingFor, NoRow, ABTypeOK
<1>5. \A t \in Txns, r \in Recipients : PendingFor(Winners(t), r, draft[t][r])
  BY <1>2 DEF PendingFor, NoRow
<1>6. HeldBackGetWinner
  BY <1>2 DEF HeldBackGetWinner, Sample
<1> QED
  BY <1>3, <1>4, <1>5, <1>6 DEF HeldBackInv

\* A step that writes no row and sends no mail.
LEMMA QuietHeldBack ==
    ASSUME HeldBackInv, UNCHANGED <<bucket, test, row, draft, mailed, chosen>>,
           \A t \in Txns : pc[t] = "commit" => pc'[t] = "commit" /\ choice'[t] = choice[t]
    PROVE  HeldBackInv'
<1>1. \A t \in Txns : Winners(t) \subseteq Winners(t)'
  BY DEF Winners
<1> QED
  BY <1>1 DEF HeldBackInv, PendingFor, HeldBackGetWinner, Sample

\* A step of one transaction that is not at its end, changes its drafts only and mails
\* what it has drafted.
LEMMA DraftHeldBack ==
    ASSUME HeldBackInv, NEW t \in Txns, UNCHANGED <<bucket, test, row, chosen>>,
           \A u \in Txns \ {t} : /\ draft'[u] = draft[u] /\ pc'[u] = pc[u]
                                 /\ choice'[u] = choice[u],
           \A r \in Recipients : PendingFor(Winners(t), r, draft[t][r])',
           \A r \in Recipients \ Sample : mailed'[r] \subseteq chosen
    PROVE  HeldBackInv'
<1>1. \A u \in Txns \ {t} : Winners(u)' = Winners(u)
  BY DEF Winners
<1> QED
  BY <1>1 DEF HeldBackInv, PendingFor, HeldBackGetWinner, Sample

\* The end of a transaction leaves the promise to the rows and the winners it committed.
LEMMA EndHeldBack ==
    ASSUME ABTypeOK, HeldBackInv, NEW t \in Txns, EndTxn(t), UNCHANGED <<bucket, mailed>>,
           chosen \subseteq chosen', test'.winner # NoVariant => test'.winner \in chosen',
           \A r \in Recipients : PendingFor(chosen', r, row'[r])
    PROVE  HeldBackInv'
<1>1. \A u \in Txns : /\ draft'[u] = IF u = t THEN [r \in Recipients |-> NoRow] ELSE draft[u]
                      /\ choice'[u] = IF u = t THEN NoVariant ELSE choice[u]
                      /\ u # t => pc'[u] = pc[u]
  BY DEF EndTxn, ABTypeOK
<1>2. \A u \in Txns \ {t} : Winners(u) \subseteq Winners(u)'
  BY <1>1 DEF Winners
<1>3. \A u \in Txns, r \in Recipients : PendingFor(Winners(u), r, draft[u][r])'
  BY <1>1, <1>2 DEF HeldBackInv, PendingFor, NoRow, Sample
<1> QED
  BY <1>3 DEF HeldBackInv, PendingFor, HeldBackGetWinner, Sample

LEMMA LoadLaunchHeldBack ==
    ASSUME ABTypeOK, HeldBackInv, NEW l \in Launchers, LoadLaunch(l)
    PROVE  HeldBackInv'
<1>1. /\ draft' = [draft EXCEPT ![l] = Snapshot(test.winner)]
      /\ pc' = [pc EXCEPT ![l] = "launch"]
      /\ UNCHANGED <<dataVars, choice, worldVars>>
  BY DEF LoadLaunch
<1>2. test.winner \in Variants \cup {NoVariant} /\ l \in Txns
  BY ConstantsAreTyped DEF ABTypeOK, Test
<1>3. \A r \in Recipients : PendingFor(chosen, r, Snapshot(test.winner)[r])
  <2> TAKE r \in Recipients
  <2>1. CASE test.winner # NoVariant
    BY <1>2, <2>1, SnapshotRows DEF PendingFor, HeldBackInv, ABTypeOK
  <2>2. CASE test.winner = NoVariant
    BY <1>2, <2>2, SnapshotRows DEF PendingFor, ABTypeOK
  <2> QED
    BY <2>1, <2>2
<1>4. \A r \in Recipients : PendingFor(Winners(l), r, draft[l][r])'
  BY <1>1, <1>2, <1>3 DEF PendingFor, Winners, Sample, ABTypeOK, dataVars, worldVars
<1>5. \A r \in Recipients \ Sample : mailed'[r] \subseteq chosen
  BY <1>1 DEF HeldBackInv, HeldBackGetWinner, worldVars
<1> QED
  BY <1>1, <1>2, <1>4, <1>5, DraftHeldBack DEF ABTypeOK, dataVars, worldVars

LEMMA LaunchHeldBack ==
    ASSUME ABTypeOK, HeldBackInv, NEW l \in Launchers, LaunchCampaign(l)
    PROVE  HeldBackInv'
<1>1. /\ pc[l] = "launch" /\ row' = draft[l] /\ l \in Txns
      /\ test' = [test EXCEPT !.status = "running"]
      /\ EndTxn(l) /\ UNCHANGED <<bucket, worldVars>>
  BY ConstantsAreTyped DEF LaunchCampaign
<1>2. test'.winner = test.winner
  BY <1>1 DEF ABTypeOK, Test
<1>3. \A r \in Recipients : PendingFor(chosen, r, row'[r])
  BY <1>1 DEF HeldBackInv, Winners
<1> QED
  BY <1>1, <1>2, <1>3, EndHeldBack DEF HeldBackInv, worldVars

LEMMA ClaimHeldBack ==
    ASSUME ABTypeOK, HeldBackInv, NEW w \in Batches, Claim(w)
    PROVE  HeldBackInv'
<1>1. PICK S \in ListDueRecipients(w) :
        draft' = [draft EXCEPT ![w] = [r \in Recipients |-> IF r \in S THEN row[r] ELSE NoRow]]
  BY DEF Claim
<1>2. /\ pc' = [pc EXCEPT ![w] = "read"] /\ w \in Txns
      /\ UNCHANGED <<dataVars, choice, worldVars>>
  BY ConstantsAreTyped DEF Claim
<1>3. \A r \in Recipients : draft'[w][r] = IF r \in S THEN row[r] ELSE NoRow
  BY <1>1, <1>2 DEF ABTypeOK
<1>4. \A r \in Recipients : PendingFor(Winners(w), r, draft[w][r])'
  <2>1. \A r \in Recipients : PendingFor(chosen, r, draft'[w][r])
    BY <1>3 DEF HeldBackInv, PendingFor, NoRow
  <2> QED
    BY <1>2, <2>1 DEF PendingFor, Winners, Sample, dataVars, worldVars
<1>5. \A r \in Recipients \ Sample : mailed'[r] \subseteq chosen
  BY <1>2 DEF HeldBackInv, HeldBackGetWinner, worldVars
<1>6. \A u \in Txns \ {w} : draft'[u] = draft[u] /\ pc'[u] = pc[u]
  BY <1>1, <1>2 DEF ABTypeOK
<1> QED
  BY <1>2, <1>4, <1>5, <1>6, DraftHeldBack DEF dataVars, worldVars

\* A batch settles a recipient as a row that is pending for the same candidate, if at all.
LEMMA SettleHeldBack ==
    ASSUME ABTypeOK, HeldBackInv, NEW w \in Batches, NEW r \in Recipients, NEW x, NEW vs,
           Settle(w, r, x, vs), x.status = "pending" => x.variant = draft[w][r].variant,
           draft[w][r].status = "pending", pc[w] \in {"batch", "account"},
           pc'[w] = "batch", \A u \in Txns \ {w} : pc'[u] = pc[u],
           UNCHANGED <<bucket, test, row, chosen, choice>>,
           \A q \in Recipients \ Sample : mailed'[q] \subseteq chosen
    PROVE  HeldBackInv'
<1>1. draft' = [draft EXCEPT ![w][r] = x] /\ w \in Txns
  BY ConstantsAreTyped DEF Settle
<1>2. /\ \A u \in Txns \ {w} : draft'[u] = draft[u]
      /\ \A q \in Recipients : draft'[w][q] = IF q = r THEN x ELSE draft[w][q]
  BY <1>1 DEF ABTypeOK
<1>3. \A q \in Recipients : PendingFor(chosen, q, draft[w][q])
  BY <1>1 DEF HeldBackInv, Winners
<1>4. \A q \in Recipients : PendingFor(Winners(w), q, draft[w][q])'
  BY <1>2, <1>3 DEF PendingFor, Winners, Sample
<1> QED
  BY <1>1, <1>2, <1>4, DraftHeldBack

LEMMA SkipHeldBack ==
    ASSUME ABShape, HeldBackInv, NEW w \in Batches, NEW r \in Recipients, SkipRecipient(w, r)
    PROVE  HeldBackInv'
<1> DEFINE x == [draft[w][r] EXCEPT !.status = "skipped"]
<1>1. /\ Settle(w, r, x, {}) /\ pc[w] = "batch" /\ r \in todo[w] /\ w \in Txns
      /\ UNCHANGED <<dataVars, pc, choice, worldVars>>
  BY ConstantsAreTyped DEF SkipRecipient, NextRecipient
<1>2. draft[w][r].status = "pending" /\ draft[w][r] \in Row
  BY <1>1 DEF ABShape, WorkLists, ABTypeOK
<1>3. x.status = "skipped"
  BY <1>2 DEF Row
<1> HIDE DEF x
<1> QED
  BY <1>1, <1>2, <1>3, SettleHeldBack
  DEF ABShape, HeldBackInv, HeldBackGetWinner, dataVars, worldVars

LEMMA CallAcceptedHeldBack ==
    ASSUME ABShape, HeldBackInv, NEW w \in Batches, NEW r \in Recipients, CallAccepted(w, r)
    PROVE  HeldBackInv'
<1>1. /\ pc[w] = "batch" /\ r \in todo[w] /\ w \in Txns
      /\ mailed' = [mailed EXCEPT ![r] = @ \cup {draft[w][r].variant}]
      /\ pc' = [pc EXCEPT ![w] = "account"]
      /\ UNCHANGED <<dataVars, draft, choice, chosen>>
  BY ConstantsAreTyped DEF CallAccepted, NextRecipient
<1>2. r \notin Sample => draft[w][r].variant \in chosen
  BY <1>1 DEF HeldBackInv, PendingFor, Winners, ABShape, WorkLists
<1>3. \A q \in Recipients \ Sample : mailed'[q] \subseteq chosen
  BY <1>1, <1>2 DEF HeldBackInv, HeldBackGetWinner, ABShape, ABTypeOK
<1>4. \A q \in Recipients : PendingFor(Winners(w), q, draft[w][q])'
  BY <1>1 DEF HeldBackInv, PendingFor, Winners, Sample, ABShape, ABTypeOK, dataVars
<1> QED
  BY <1>1, <1>3, <1>4, DraftHeldBack DEF dataVars, ABShape, ABTypeOK

LEMMA RecordSentHeldBack ==
    ASSUME ABShape, HeldBackInv, NEW w \in Batches, RecordSent(w)
    PROVE  HeldBackInv'
<1>1. PICK r \in accepted[w] \cap todo[w] :
        LET x == draft[w][r] IN
        Settle(w, r, [x EXCEPT !.status = "sent", !.tries = @ + 1], Counted(x))
  BY DEF RecordSent
<1>2. /\ pc[w] = "account" /\ pc' = [pc EXCEPT ![w] = "batch"] /\ w \in Txns
      /\ UNCHANGED <<dataVars, choice, worldVars>>
  BY ConstantsAreTyped DEF RecordSent
<1> DEFINE x == draft[w][r]
           y == [x EXCEPT !.status = "sent", !.tries = @ + 1]
<1>3. r \in Recipients /\ x \in Row /\ x.status = "pending"
  BY <1>1, <1>2 DEF ABShape, ABTypeOK, WorkLists
<1>4. y.status = "sent"
  BY <1>3 DEF Row
<1>5. Settle(w, r, y, Counted(x))
  BY <1>1
<1> HIDE DEF y
<1> QED
  BY <1>2, <1>3, <1>4, <1>5, SettleHeldBack
  DEF ABShape, ABTypeOK, HeldBackInv, HeldBackGetWinner, dataVars, worldVars

LEMMA CallFailedHeldBack ==
    ASSUME ABShape, HeldBackInv, NEW w \in Batches, NEW r \in Recipients, CallFailed(w, r)
    PROVE  HeldBackInv'
<1> DEFINE x == draft[w][r]
           y == [x EXCEPT !.tries = @ + 1]
<1>1. /\ NextRecipient(w, r)
      /\ \/ /\ Settle(w, r, AfterFailure(y),
                      IF Terminal(AfterFailure(y)) THEN Counted(y) ELSE {})
            /\ UNCHANGED <<mailed, accepted>>
         \/ /\ Settle(w, r, AfterDoubt(y), {})
            /\ \/ UNCHANGED <<mailed, accepted>>
               \/ /\ mailed' = [mailed EXCEPT ![r] = @ \cup {y.variant}]
                  /\ accepted' = [accepted EXCEPT ![w] = @ \cup {r}]
      /\ UNCHANGED <<dataVars, pc, choice, chosen>>
  BY DEF CallFailed
<1>2. /\ pc[w] = "batch" /\ r \in todo[w] /\ w \in Txns
      /\ x \in Row /\ x.status = "pending" /\ SoundRow(r, x)
  BY <1>1, ConstantsAreTyped DEF NextRecipient, ABShape, ABTypeOK, WorkLists, SoundRows
<1>3. /\ AfterFailure(y).variant = x.variant /\ AfterDoubt(y).status = "failed"
      /\ y.variant = x.variant
  BY <1>2, FailureRows
<1>4. r \notin Sample => x.variant \in chosen
  BY <1>2 DEF HeldBackInv, PendingFor, Winners
<1> HIDE DEF y
<1>5. \A q \in Recipients \ Sample : mailed'[q] \subseteq chosen
  <2>1. mailed' = mailed \/ mailed' = [mailed EXCEPT ![r] = @ \cup {x.variant}]
    BY <1>1, <1>3
  <2>2. /\ mailed \in [Recipients -> SUBSET (Variants \cup {NoVariant})]
        /\ \A q \in Recipients \ Sample : mailed[q] \subseteq chosen
    BY DEF HeldBackInv, HeldBackGetWinner, ABShape, ABTypeOK
  <2> QED
    BY <1>4, <2>1, <2>2
<1>6. PICK z \in {AfterFailure(y), AfterDoubt(y)} : \E vs : Settle(w, r, z, vs)
  BY <1>1
<1>7. z.status = "pending" => z.variant = x.variant
  BY <1>3
<1> QED
  BY <1>1, <1>2, <1>5, <1>6, <1>7, SettleHeldBack DEF ABShape, dataVars

LEMMA LockForReleaseHeldBack ==
    ASSUME ABShape, HeldBackInv, NEW t \in Txns, NEW r \in Recipients, LockForRelease(t, r)
    PROVE  HeldBackInv'
<1>1. /\ draft' = [draft EXCEPT ![t][r] = row[r]]
      /\ UNCHANGED <<dataVars, pc, choice, worldVars>>
  BY DEF LockForRelease
<1>2. /\ \A u \in Txns \ {t} : draft'[u] = draft[u]
      /\ \A q \in Recipients : draft'[t][q] = IF q = r THEN row[r] ELSE draft[t][q]
  BY <1>1 DEF ABShape, ABTypeOK
<1>3. \A q \in Recipients : PendingFor(Winners(t), q, draft[t][q])'
  BY <1>1, <1>2 DEF HeldBackInv, PendingFor, Winners, Sample, dataVars, worldVars
<1> QED
  BY <1>1, <1>2, <1>3, DraftHeldBack DEF dataVars, worldVars, HeldBackInv, HeldBackGetWinner

LEMMA AssignPendingHeldBack ==
    ASSUME ABShape, HeldBackInv, NEW t \in Txns, AssignPending(t)
    PROVE  HeldBackInv'
<1>1. /\ pc[t] = "release" /\ pc' = [pc EXCEPT ![t] = "commit"]
      /\ UNCHANGED <<dataVars, choice, worldVars>>
      /\ \A u \in Txns \ {t} : draft'[u] = draft[u]
  BY DEF AssignPending, ABShape, ABTypeOK
<1>2. choice[t] \in Variants /\ choice[t] # NoVariant
  BY <1>1, ABAssumption DEF ABShape, ChoiceMade
<1>3. Winners(t)' = chosen \cup {choice[t]} /\ Winners(t) = chosen
  BY <1>1, <1>2 DEF Winners, ABShape, ABTypeOK, worldVars
<1>4. \A q \in Recipients : PendingFor(Winners(t), q, draft[t][q])'
  <2> TAKE q \in Recipients
  <2>1. CASE q \in held[t] /\ Waiting(draft[t][q])
    BY <1>3, <2>1, AssignedRows DEF PendingFor
  <2>2. CASE ~(q \in held[t] /\ Waiting(draft[t][q]))
    BY <1>1, <1>3, <2>2, AssignedRows DEF PendingFor, HeldBackInv, Sample, dataVars
  <2> QED
    BY <2>1, <2>2
<1> QED
  BY <1>1, <1>4, DraftHeldBack
  DEF dataVars, worldVars, HeldBackInv, HeldBackGetWinner, ABShape, ABTypeOK

LEMMA CommitHeldBack ==
    ASSUME ABShape, HeldBackInv, NEW t \in Txns, Commit(t)
    PROVE  HeldBackInv'
<1>1. /\ row' = [r \in Recipients |-> View(t, r)] /\ pc[t] = "commit"
      /\ test' = IF rowLock["test"] # t THEN test
                 ELSE IF choice[t] = NoVariant THEN [test EXCEPT !.status = "completed"]
                 ELSE [test EXCEPT !.status = "winner_selected", !.winner = choice[t]]
      /\ chosen' = chosen \cup ({choice[t]} \ {NoVariant})
      /\ EndTxn(t)
      /\ UNCHANGED <<bucket, mailed>>
  BY DEF Commit
<1>2. test'.winner \in {test.winner, choice[t]}
  <2>1. test \in Test
    BY DEF ABShape, ABTypeOK
  <2>2. [test EXCEPT !.status = "completed"].winner = test.winner
    BY <2>1 DEF Test
  <2>3. [test EXCEPT !.status = "winner_selected", !.winner = choice[t]].winner = choice[t]
    BY <2>1 DEF Test
  <2> QED
    BY <1>1, <2>2, <2>3
<1>3. test'.winner # NoVariant => test'.winner \in chosen'
  BY <1>1, <1>2 DEF HeldBackInv
<1>4. \A r \in Recipients : PendingFor(chosen', r, row'[r])
  BY <1>1 DEF HeldBackInv, PendingFor, Winners, View
<1> QED
  BY <1>1, <1>3, <1>4, EndHeldBack DEF ABShape

LEMMA RollbackHeldBack ==
    ASSUME ABShape, HeldBackInv, NEW t \in Txns, Rollback(t)
    PROVE  HeldBackInv'
<1>1. EndTxn(t) /\ UNCHANGED <<dataVars, mailed, chosen>>
  BY DEF Rollback
<1> QED
  BY <1>1, EndHeldBack DEF ABShape, HeldBackInv, dataVars

LEMMA StepHeldBack == ABShape /\ HeldBackInv /\ [ABNext]_abVars => HeldBackInv'
<1> SUFFICES ASSUME ABShape, HeldBackInv, [ABNext]_abVars PROVE HeldBackInv'
  OBVIOUS
<1> USE ConstantsAreTyped
<1>0. ABTypeOK
  BY DEF ABShape
<1>1. ASSUME NEW t \in Txns, ReleaseStep(t) PROVE HeldBackInv'
  <2>1. CASE LockTest(t)
    BY <2>1, QuietHeldBack DEF LockTest, dataVars, worldVars, ABShape, ABTypeOK
  <2> QED
    BY <1>1, <2>1, LockForReleaseHeldBack, AssignPendingHeldBack, CommitHeldBack DEF ReleaseStep
<1>2. ASSUME NEW w \in Batches, BatchStep(w) PROVE HeldBackInv'
  <2>1. CASE ReadTest(w)
    BY <2>1, QuietHeldBack DEF ReadTest, dataVars, worldVars, ABShape, ABTypeOK
  <2>2. CASE FlushVariants(w)
    BY <2>2, QuietHeldBack DEF FlushVariants, dataVars, txnVars, worldVars
  <2>3. CASE RefreshCounters(w)
    <3>1. /\ pc[w] = "batch" /\ \A u \in Txns \ {w} : pc'[u] = pc[u] /\ choice'[u] = choice[u]
          /\ UNCHANGED <<dataVars, draft, worldVars>>
      BY <2>3 DEF RefreshCounters, ABShape, ABTypeOK
    <3> QED
      BY <3>1, QuietHeldBack DEF dataVars, worldVars
  <2>4. CASE FinishTest(w)
    BY <2>4, QuietHeldBack DEF FinishTest, dataVars, worldVars, ABShape, ABTypeOK
  <2> QED
    BY <1>1, <1>2, <2>1, <2>2, <2>3, <2>4, SkipHeldBack, CallAcceptedHeldBack,
       CallFailedHeldBack, RecordSentHeldBack DEF BatchStep
<1>3. ASSUME NEW o \in Operators, NEW v \in Variants, ChooseManually(o, v) PROVE HeldBackInv'
  BY <1>3, QuietHeldBack DEF ChooseManually, dataVars, worldVars, ABShape, ABTypeOK
<1>4. ASSUME NEW e \in Evaluators, EvaluateWinner(e) PROVE HeldBackInv'
  <2>1. /\ pc[e] = "idle" /\ \A u \in Txns \ {e} : pc'[u] = pc[u] /\ choice'[u] = choice[u]
        /\ UNCHANGED <<dataVars, draft, worldVars>>
    BY <1>4 DEF EvaluateWinner, ABShape, ABTypeOK
  <2> QED
    BY <2>1, QuietHeldBack DEF dataVars, worldVars
<1>5. CASE TestElapses
  BY <1>5, QuietHeldBack DEF TestElapses, txnVars, worldVars
<1>6. CASE UNCHANGED abVars
  BY <1>6, QuietHeldBack DEF abVars, dataVars, txnVars, worldVars
<1> QED
  BY <1>0, <1>1, <1>2, <1>3, <1>4, <1>5, <1>6, LoadLaunchHeldBack, LaunchHeldBack,
     ClaimHeldBack, RollbackHeldBack DEF ABNext

\* Whoever is held back for the winner is mailed nothing but a winner that was committed
\* before, however many batches, choosers and launches there are and whatever is rolled
\* back (select_ab_winner, assign_pending_recipients_to_variant, list_due_recipients).
THEOREM HeldBackIsForTheWinner == ABSpec => []HeldBackGetWinner
<1>1. HeldBackInv => HeldBackGetWinner
  BY DEF HeldBackInv
<1> QED
  BY <1>1, StartShape, StepShape, StartHeldBack, StepHeldBack, PTL DEF ABSpec

-----------------------------------------------------------------------------
(* Locks *)

\* What is proved from here on is about campaigns that are launched once: two launches at
\* a time overwrite each other (CampaignLifecycle says when they meet).
LaunchedOnce == \A l, m \in Launchers : l = m

\* Before its launch a campaign has no recipients, and nobody works on them.
NothingBeforeLaunch ==
    /\ \A t \in Txns : pc[t] = "launch" => t \in Launchers /\ campaign = "ready"
    /\ campaign = "ready" =>
        /\ \A r \in Recipients : row[r] = NoRow /\ mailed[r] = {}
        /\ sentCount = Zero
        /\ \A t \in Txns : /\ held[t] = {} /\ bumped[t] = {} /\ ~closes[t]
                           /\ pc[t] \notin {"read", "batch", "account", "finish"}

\* A recipient is locked by one transaction, while it waits.
LockedRows ==
    /\ \A t, u \in Txns : t # u => held[t] \cap held[u] = {}
    /\ \A t \in Txns : \A r \in held[t] : Waiting(row[r])
    /\ \A t \in Txns : pc[t] \in {"idle", "done", "launch"} => held[t] = {}

LockInv == NothingBeforeLaunch /\ LockedRows

LEMMA StartLocks == ABInit => LockInv
<1> SUFFICES ASSUME ABInit PROVE LockInv
  OBVIOUS
<1>1. /\ campaign = "ready" => row = [r \in Recipients |-> NoRow]
      /\ sentCount = Zero /\ mailed = [r \in Recipients |-> {}]
      /\ pc = [t \in Txns |-> "idle"] /\ held = [t \in Txns |-> {}]
      /\ bumped = [t \in Txns |-> {}] /\ closes = [t \in Txns |-> FALSE]
  BY DEF ABInit
<1>2. NothingBeforeLaunch
  BY <1>1 DEF NothingBeforeLaunch
<1>3. LockedRows
  BY <1>1 DEF LockedRows
<1> QED
  BY <1>2, <1>3 DEF LockInv

\* Nobody works on a campaign that is not launched, so there is nothing to process.
LEMMA NothingToProcess ==
    ASSUME ABShape, LockInv, NEW t \in Txns, campaign = "ready"
    PROVE  held[t] = {} /\ todo[t] = {} /\ \A r \in Recipients : ~Waiting(row[r])
BY DEF LockInv, NothingBeforeLaunch, ABShape, WorkLists, Waiting, NoRow

\* A step of transaction t that writes no row and takes no lock.
LEMMA QuietLocks ==
    ASSUME LockInv, NEW t \in Txns,
           UNCHANGED <<campaign, row, sentCount, held>>,
           \A u \in Txns \ {t} : /\ pc'[u] = pc[u] /\ bumped'[u] = bumped[u]
                                 /\ closes'[u] = closes[u],
           campaign = "ready" => /\ UNCHANGED mailed
                                 /\ bumped'[t] = {} /\ ~closes'[t]
                                 /\ pc'[t] \notin {"read", "batch", "account", "finish"},
           pc'[t] \in {"idle", "done", "launch"} => held[t] = {},
           pc'[t] = "launch" => t \in Launchers /\ campaign = "ready"
    PROVE  LockInv'
<1>1. NothingBeforeLaunch'
  BY DEF LockInv, NothingBeforeLaunch
<1>2. LockedRows'
  BY DEF LockInv, LockedRows
<1> QED
  BY <1>1, <1>2 DEF LockInv

\* Transaction t locks the recipients in S, who wait for nobody else's lock.
LEMMA LockMore ==
    ASSUME LockInv, NEW t \in Txns, NEW S \in SUBSET Recipients,
           held' = [held EXCEPT ![t] = S], held \in [Txns -> SUBSET Recipients],
           \A r \in S \ held[t] : Waiting(row[r]) /\ ~LockedByOthers(t, r),
           campaign # "ready", UNCHANGED <<campaign, row>>,
           \A u \in Txns \ {t} : pc'[u] = pc[u],
           pc'[t] \notin {"idle", "done", "launch"}
    PROVE  LockInv'
<1>1. NothingBeforeLaunch'
  BY DEF LockInv, NothingBeforeLaunch
<1>2. \A r \in S : Waiting(row[r]) /\ \A u \in Txns \ {t} : r \notin held[u]
  BY DEF LockInv, LockedRows, LockedByOthers
<1>3. LockedRows'
  BY <1>2 DEF LockInv, LockedRows, Waiting
<1> QED
  BY <1>1, <1>3 DEF LockInv

\* A transaction that ends frees its rows; it wrote none but those.
LEMMA EndLocks ==
    ASSUME ABTypeOK, LockInv, NEW t \in Txns, EndTxn(t),
           \A r \in Recipients : row'[r] # row[r] => r \in held[t],
           campaign' = campaign, campaign = "ready" => UNCHANGED <<sentCount, mailed>>
    PROVE  LockInv'
<1>1. /\ \A u \in Txns : /\ held'[u] = IF u = t THEN {} ELSE held[u]
                         /\ bumped'[u] = IF u = t THEN {} ELSE bumped[u]
                         /\ closes'[u] = IF u = t THEN FALSE ELSE closes[u]
                         /\ u # t => pc'[u] = pc[u]
      /\ pc'[t] \in {"idle", "done"}
  BY DEF EndTxn, ABTypeOK
<1>2. NothingBeforeLaunch'
  BY <1>1 DEF LockInv, NothingBeforeLaunch
<1>3. LockedRows'
  <2>1. \A u \in Txns : \A r \in held'[u] : r \in Recipients /\ row'[r] = row[r]
    BY <1>1 DEF LockInv, LockedRows, ABTypeOK
  <2> QED
    BY <1>1, <2>1 DEF LockInv, LockedRows, Waiting
<1> QED
  BY <1>2, <1>3 DEF LockInv

LEMMA LaunchLocks ==
    ASSUME LaunchedOnce, ABShape, LockInv, NEW l \in Launchers, LaunchCampaign(l)
    PROVE  LockInv'
<1>1. /\ pc[l] = "launch" /\ campaign = "ready" /\ l \in Txns /\ campaign' = "running"
      /\ EndTxn(l)
  BY ConstantsAreTyped DEF LaunchCampaign, LockInv, NothingBeforeLaunch
<1>2. /\ \A u \in Txns : /\ held'[u] = IF u = l THEN {} ELSE held[u]
                         /\ u # l => pc'[u] = pc[u]
      /\ pc'[l] \in {"idle", "done"}
  BY <1>1 DEF EndTxn, ABShape, ABTypeOK
<1>3. \A t \in Txns : held'[t] = {}
  BY <1>1, <1>2, NothingToProcess
<1>4. \A t \in Txns : pc'[t] # "launch"
  BY <1>1, <1>2 DEF LaunchedOnce, LockInv, NothingBeforeLaunch
<1> QED
  BY <1>1, <1>3, <1>4 DEF LockInv, NothingBeforeLaunch, LockedRows

LEMMA CommitLocks ==
    ASSUME ABShape, LockInv, NEW t \in Txns, Commit(t)
    PROVE  LockInv'
<1>1. /\ row' = [r \in Recipients |-> View(t, r)] /\ pc[t] = "commit"
      /\ sentCount' = [v \in Variants |-> IF v \in bumped[t] THEN count[t][v] ELSE sentCount[v]]
      /\ campaign' = IF closes[t] THEN "completed" ELSE campaign
      /\ EndTxn(t) /\ UNCHANGED mailed
  BY DEF Commit
<1>2. \A r \in Recipients : row'[r] # row[r] => r \in held[t]
  BY <1>1 DEF View
<1>3. CASE campaign' = campaign
  <2>1. campaign = "ready" => sentCount' = sentCount
    BY <1>1 DEF LockInv, NothingBeforeLaunch, ABShape, ABTypeOK
  <2> QED
    BY <1>1, <1>2, <1>3, <2>1, EndLocks DEF ABShape
<1>4. CASE campaign' # campaign
  <2>1. campaign' = "completed" /\ campaign # "ready"
    BY <1>1, <1>4 DEF LockInv, NothingBeforeLaunch
  <2>2. /\ \A u \in Txns : /\ held'[u] = IF u = t THEN {} ELSE held[u]
                           /\ u # t => pc'[u] = pc[u]
        /\ pc'[t] \in {"idle", "done"}
    BY <1>1 DEF EndTxn, ABShape, ABTypeOK
  <2>3. \A u \in Txns : \A r \in held'[u] : r \in Recipients /\ row'[r] = row[r]
    BY <1>2, <2>2 DEF LockInv, LockedRows, ABShape, ABTypeOK
  <2>4. LockedRows'
    BY <2>2, <2>3 DEF LockInv, LockedRows, Waiting
  <2>5. NothingBeforeLaunch'
    BY <2>1, <2>2 DEF LockInv, NothingBeforeLaunch
  <2> QED
    BY <2>4, <2>5 DEF LockInv
<1> QED
  BY <1>3, <1>4

LEMMA StepLocks ==
    ASSUME LaunchedOnce
    PROVE  ABShape /\ LockInv /\ [ABNext]_abVars => LockInv'
<1> SUFFICES ASSUME ABShape, LockInv, [ABNext]_abVars PROVE LockInv'
  OBVIOUS
<1> USE ConstantsAreTyped
<1>0. /\ ABTypeOK /\ pc \in [Txns -> {"idle", "read", "batch", "account", "select", "release",
                                      "finish", "launch", "commit", "done"}]
      /\ held \in [Txns -> SUBSET Recipients]
      /\ bumped \in [Txns -> SUBSET Variants] /\ closes \in [Txns -> BOOLEAN]
  BY DEF ABShape, ABTypeOK
<1>1. ASSUME NEW l \in Launchers, LoadLaunch(l) PROVE LockInv'
  BY <1>0, <1>1, QuietLocks
  DEF LoadLaunch, LockInv, LockedRows, NothingBeforeLaunch, dataVars, lockVars, worldVars
<1>2. ASSUME NEW w \in Batches, Claim(w) PROVE LockInv'
  <2>1. PICK S \in SUBSET {r \in Recipients : row[r].status = "pending" /\ ~LockedByOthers(w, r)} :
          held' = [held EXCEPT ![w] = S]
    BY <1>2 DEF Claim, ListDueRecipients
  <2>2. /\ campaign = "running" /\ UNCHANGED <<campaign, row>>
        /\ pc' = [pc EXCEPT ![w] = "read"]
    BY <1>2 DEF Claim, dataVars
  <2>3. S \in SUBSET Recipients /\ \A r \in S : Waiting(row[r]) /\ ~LockedByOthers(w, r)
    BY <2>1 DEF Waiting
  <2> QED
    BY <1>0, <2>1, <2>2, <2>3, LockMore
<1>3. ASSUME NEW t \in Txns, ReleaseStep(t) PROVE LockInv'
  <2>1. CASE LockTest(t)
    BY <1>0, <2>1, QuietLocks
    DEF LockTest, LockInv, NothingBeforeLaunch, dataVars, worldVars
  <2>2. ASSUME NEW r \in Recipients, LockForRelease(t, r) PROVE LockInv'
    <3>1. /\ held' = [held EXCEPT ![t] = held[t] \cup {r}] /\ pc[t] = "release"
          /\ Waiting(row[r]) /\ ~LockedByOthers(t, r) /\ UNCHANGED <<campaign, row, pc>>
      BY <1>0, <2>2 DEF LockForRelease, dataVars
    <3>2. campaign # "ready"
      BY <3>1, NothingToProcess
    <3>3. held[t] \cup {r} \in SUBSET Recipients
      BY <1>0
    <3> QED
      BY <1>0, <3>1, <3>2, <3>3, LockMore
  <2>3. CASE AssignPending(t)
    BY <1>0, <2>3, QuietLocks
    DEF AssignPending, LockInv, NothingBeforeLaunch, dataVars, lockVars, worldVars
  <2> QED
    BY <1>3, <2>1, <2>2, <2>3, CommitLocks DEF ReleaseStep
<1>4. ASSUME NEW w \in Batches, BatchStep(w) PROVE LockInv'
  <2>1. CASE ReadTest(w)
    BY <1>0, <2>1, QuietLocks
    DEF ReadTest, LockInv, NothingBeforeLaunch, dataVars, lockVars, worldVars
  <2>2. CASE FlushVariants(w)
    BY <1>0, <2>2, QuietLocks
    DEF FlushVariants, LockInv, NothingBeforeLaunch, LockedRows, dataVars, txnVars, worldVars
  <2>3. ASSUME NEW r \in Recipients, SkipRecipient(w, r) PROVE LockInv'
    BY <1>0, <2>3, QuietLocks
    DEF SkipRecipient, NextRecipient, LockInv, NothingBeforeLaunch, LockedRows, dataVars,
        lockVars, worldVars
  <2>4. ASSUME NEW r \in Recipients, CallAccepted(w, r) PROVE LockInv'
    <3>1. /\ pc[w] = "batch" /\ pc' = [pc EXCEPT ![w] = "account"]
          /\ UNCHANGED <<campaign, row, sentCount, held, bumped, closes>>
      BY <2>4 DEF CallAccepted, NextRecipient, dataVars, lockVars
    <3>2. campaign # "ready"
      BY <3>1 DEF LockInv, NothingBeforeLaunch
    <3> QED
      BY <1>0, <3>1, <3>2, QuietLocks
  <2>5. ASSUME NEW r \in Recipients, CallFailed(w, r) PROVE LockInv'
    <3>1. /\ pc[w] = "batch" /\ UNCHANGED <<pc, campaign, row, sentCount, held, bumped, closes>>
      BY <2>5 DEF CallFailed, NextRecipient, dataVars, lockVars
    <3>2. campaign # "ready"
      BY <3>1 DEF LockInv, NothingBeforeLaunch
    <3> QED
      BY <1>0, <3>1, <3>2, QuietLocks
  <2>6. CASE RecordSent(w)
    <3>1. /\ pc[w] = "account" /\ pc' = [pc EXCEPT ![w] = "batch"]
          /\ UNCHANGED <<campaign, row, sentCount, held, closes>>
          /\ \E S : bumped' = [bumped EXCEPT ![w] = S]
      BY <2>6 DEF RecordSent, dataVars
    <3>2. campaign # "ready"
      BY <3>1 DEF LockInv, NothingBeforeLaunch
    <3> QED
      BY <1>0, <3>1, <3>2, QuietLocks
  <2>7. CASE RefreshCounters(w)
    <3>1. /\ pc[w] = "batch" /\ UNCHANGED <<campaign, row, sentCount, held, bumped>>
          /\ \A u \in Txns \ {w} : pc'[u] = pc[u] /\ closes'[u] = closes[u]
          /\ pc'[w] \in {"select", "finish", "commit"}
      BY <1>0, <2>7 DEF RefreshCounters, dataVars, lockVars
    <3>2. campaign # "ready"
      BY <3>1 DEF LockInv, NothingBeforeLaunch
    <3> QED
      BY <1>0, <3>1, <3>2, QuietLocks
  <2>8. CASE FinishTest(w)
    BY <1>0, <2>8, QuietLocks
    DEF FinishTest, LockInv, NothingBeforeLaunch, dataVars, worldVars
  <2> QED
    BY <1>3, <1>4, <2>1, <2>2, <2>3, <2>4, <2>5, <2>6, <2>7, <2>8 DEF BatchStep
<1>5. ASSUME NEW o \in Operators, NEW v \in Variants, ChooseManually(o, v) PROVE LockInv'
  BY <1>0, <1>5, QuietLocks
  DEF ChooseManually, LockInv, NothingBeforeLaunch, LockedRows, dataVars, lockVars, worldVars
<1>6. ASSUME NEW e \in Evaluators, EvaluateWinner(e) PROVE LockInv'
  <2>1. /\ pc[e] = "idle" /\ pc' = [pc EXCEPT ![e] = "select"]
        /\ UNCHANGED <<campaign, row, sentCount, held, bumped, closes, mailed>>
    BY <1>6 DEF EvaluateWinner, dataVars, lockVars, worldVars
  <2> QED
    BY <1>0, <2>1, QuietLocks DEF LockInv, NothingBeforeLaunch, LockedRows
<1>7. ASSUME NEW t \in Txns, Rollback(t) PROVE LockInv'
  <2>1. EndTxn(t) /\ UNCHANGED <<row, campaign, sentCount, mailed>>
    BY <1>7 DEF Rollback, dataVars
  <2> QED
    BY <1>0, <2>1, EndLocks
<1>8. CASE TestElapses
  BY <1>8 DEF TestElapses, txnVars, lockVars, worldVars, LockInv, LockedRows,
     NothingBeforeLaunch, Waiting
<1>9. CASE UNCHANGED abVars
  BY <1>9 DEF abVars, dataVars, txnVars, lockVars, worldVars, LockInv, LockedRows,
     NothingBeforeLaunch, Waiting
<1> QED
  BY <1>1, <1>2, <1>3, <1>4, <1>5, <1>6, <1>7, <1>8, <1>9, LaunchLocks DEF ABNext

-----------------------------------------------------------------------------
(* The release *)

ReleasedTo(x, v) == x.status = "pending" /\ x.variant = v /\ ~x.sampled

\* Transaction t is about to commit winner choice[t]: it holds the test and every
\* waiting recipient, and has assigned them.
Announces(t) == pc[t] = "commit" /\ choice[t] \in Variants

ReleaseReady(t) ==
    /\ rowLock["test"] = t
    /\ \A r \in Recipients : Waiting(row[r]) =>
            r \in held[t] /\ (Waiting(draft[t][r]) => ReleasedTo(draft[t][r], choice[t]))

\* A choice is made by who releases, not before the launch.
Choosers ==
    /\ \A t \in Txns : choice[t] \in Variants => pc[t] \in {"select", "release", "commit"}
    /\ \A t \in Txns : pc[t] = "release" => rowLock["test"] = t
    /\ campaign = "ready" =>
        /\ test.winner = NoVariant /\ test.status = "draft"
        /\ \A t \in Txns : choice[t] = NoVariant /\ rowLock["test"] # t

\* With a winner committed, everything that waits in a draft waits for it, too.
DraftsReleased ==
    test.winner # NoVariant =>
        \A t \in Txns : \A r \in held[t] :
            Waiting(draft[t][r]) => ReleasedTo(draft[t][r], test.winner) \/ Announces(t)

ReleaseInv ==
    /\ Choosers
    /\ \A t \in Txns : Announces(t) => ReleaseReady(t)
    /\ DraftsReleased
    /\ ReleasedTogether

LEMMA StartRelease == ABInit => ReleaseInv
<1> SUFFICES ASSUME ABInit PROVE ReleaseInv
  OBVIOUS
<1>1. /\ pc = [t \in Txns |-> "idle"] /\ choice = [t \in Txns |-> NoVariant]
      /\ rowLock = [x \in Variants \cup {"test", "account"} |-> Nobody]
      /\ campaign = "ready" => Launchers # {}
  BY DEF ABInit
<1>2. test.winner = NoVariant /\ (Launchers # {} => test.status = "draft")
  <2>1. PICK a \in BOOLEAN :
          test = [NoTest EXCEPT !.auto = a,
                                !.status = IF Launchers = {} THEN "running" ELSE "draft"]
    BY DEF ABInit
  <2> QED
    BY <2>1 DEF NoTest
<1>3. Choosers
  BY <1>1, <1>2, ABAssumption DEF Choosers
<1>4. \A t \in Txns : ~Announces(t)
  BY <1>1 DEF Announces
<1> QED
  BY <1>2, <1>3, <1>4 DEF ReleaseInv, DraftsReleased, ReleasedTogether

\* A step that leaves the test, rows, drafts and recipient locks alone and announces nothing.
LEMMA QuietRelease ==
    ASSUME ReleaseInv, Choosers', UNCHANGED <<test, row, draft, held>>,
           \A t \in Txns : Announces(t)' <=> Announces(t),
           \A t \in Txns : Announces(t) => choice'[t] = choice[t] /\ rowLock'["test"] = t
    PROVE  ReleaseInv'
<1>1. \A t \in Txns : Announces(t)' => ReleaseReady(t)'
  BY DEF ReleaseInv, ReleaseReady, Waiting, ReleasedTo
<1>2. DraftsReleased'
  BY DEF ReleaseInv, DraftsReleased, Waiting, ReleasedTo
<1>3. ReleasedTogether'
  BY DEF ReleaseInv, ReleasedTogether, Waiting
<1> QED
  BY <1>1, <1>2, <1>3 DEF ReleaseInv

\* A step of one transaction, which announces nothing, on its own drafts and locks.
LEMMA DraftRelease ==
    ASSUME ReleaseInv, Choosers', NEW t \in Txns, UNCHANGED <<test, row>>,
           \A u \in Txns \ {t} : /\ draft'[u] = draft[u] /\ held'[u] = held[u]
                                 /\ pc'[u] = pc[u] /\ choice'[u] = choice[u]
                                 /\ Announces(u) => rowLock'["test"] = u,
           ~Announces(t)',
           test.winner # NoVariant =>
             \A r \in held'[t] : Waiting(draft'[t][r]) => ReleasedTo(draft'[t][r], test.winner)
    PROVE  ReleaseInv'
<1>1. \A u \in Txns \ {t} : Announces(u)' <=> Announces(u)
  BY DEF Announces
<1>2. \A u \in Txns : Announces(u)' => ReleaseReady(u)'
  BY <1>1 DEF ReleaseInv, ReleaseReady, Waiting, ReleasedTo
<1>3. DraftsReleased'
  BY <1>1 DEF ReleaseInv, DraftsReleased, Waiting, ReleasedTo
<1>4. ReleasedTogether'
  BY DEF ReleaseInv, ReleasedTogether, Waiting
<1> QED
  BY <1>2, <1>3, <1>4 DEF ReleaseInv

\* What a batch makes of a row it processes waits for the same candidate, if at all.
LEMMA SettleRelease ==
    ASSUME ABShape, ReleaseInv, Choosers', NEW w \in Batches, NEW r \in Recipients,
           NEW x, NEW vs, Settle(w, r, x, vs), r \in todo[w],
           Waiting(x) => /\ x.status = "pending" /\ x.variant = draft[w][r].variant
                         /\ x.sampled = draft[w][r].sampled,
           pc[w] \in {"batch", "account"}, pc'[w] = "batch",
           \A u \in Txns \ {w} : pc'[u] = pc[u],
           rowLock'["test"] = rowLock["test"],
           UNCHANGED <<test, row, held, choice>>
    PROVE  ReleaseInv'
<1>1. draft' = [draft EXCEPT ![w][r] = x] /\ w \in Txns
  BY ConstantsAreTyped DEF Settle
<1>2. /\ \A u \in Txns \ {w} : draft'[u] = draft[u]
      /\ \A q \in Recipients : draft'[w][q] = IF q = r THEN x ELSE draft[w][q]
  BY <1>1 DEF ABShape, ABTypeOK
<1>3. ~Announces(w) /\ ~Announces(w)'
  BY DEF Announces
<1>4. test.winner # NoVariant =>
        \A q \in held[w] : Waiting(draft'[w][q]) => ReleasedTo(draft'[w][q], test.winner)
  <2> SUFFICES ASSUME test.winner # NoVariant, NEW q \in held[w], Waiting(draft'[w][q])
               PROVE  ReleasedTo(draft'[w][q], test.winner)
    OBVIOUS
  <2>1. q \in Recipients /\ r \in held[w] /\ draft[w][r].status = "pending"
    BY <1>1 DEF ABShape, ABTypeOK, WorkLists
  <2>2. \A p \in held[w] : Waiting(draft[w][p]) => ReleasedTo(draft[w][p], test.winner)
    BY <1>1, <1>3 DEF ReleaseInv, DraftsReleased
  <2>3. CASE q = r
    BY <1>2, <2>1, <2>2, <2>3 DEF ReleasedTo, Waiting
  <2>4. CASE q # r
    BY <1>2, <2>1, <2>2, <2>4
  <2> QED
    BY <2>3, <2>4
<1>5. \A u \in Txns \ {w} : Announces(u) => rowLock'["test"] = u
  BY DEF ReleaseInv, ReleaseReady
<1> QED
  BY <1>1, <1>2, <1>3, <1>4, <1>5, DraftRelease

\* The locks and choices of everybody else when transaction t ends.
LEMMA EndChoosers ==
    ASSUME ABTypeOK, ReleaseInv, NEW t \in Txns, EndTxn(t),
           campaign' = "ready" => campaign = "ready" /\ UNCHANGED test
    PROVE  /\ Choosers'
           /\ \A u \in Txns : Announces(u)' <=> u # t /\ Announces(u)
           /\ \A u \in Txns : Announces(u)' => rowLock'["test"] = u
           /\ \A u \in Txns : /\ draft'[u] = IF u = t THEN [r \in Recipients |-> NoRow]
                                                      ELSE draft[u]
                              /\ held'[u] = IF u = t THEN {} ELSE held[u]
                              /\ choice'[u] = IF u = t THEN NoVariant ELSE choice[u]
<1>1. /\ \A u \in Txns : /\ draft'[u] = IF u = t THEN [r \in Recipients |-> NoRow]
                                                 ELSE draft[u]
                         /\ held'[u] = IF u = t THEN {} ELSE held[u]
                         /\ choice'[u] = IF u = t THEN NoVariant ELSE choice[u]
                         /\ u # t => pc'[u] = pc[u]
      /\ pc'[t] \in {"idle", "done"}
      /\ rowLock'["test"] = IF rowLock["test"] = t THEN Nobody ELSE rowLock["test"]
  BY DEF EndTxn, ABTypeOK
<1>2. \A u \in Txns : Announces(u)' <=> u # t /\ Announces(u)
  BY <1>1 DEF Announces
<1>3. \A u \in Txns : Announces(u)' => rowLock'["test"] = u
  BY <1>1, <1>2 DEF ReleaseInv, ReleaseReady
<1>4. Choosers'
  BY <1>1, ABAssumption DEF ReleaseInv, Choosers
<1> QED
  BY <1>1, <1>2, <1>3, <1>4

LEMMA LaunchRelease ==
    ASSUME LaunchedOnce, ABShape, LockInv, ReleaseInv, NEW l \in Launchers, LaunchCampaign(l)
    PROVE  ReleaseInv'
<1>1. /\ pc[l] = "launch" /\ campaign = "ready" /\ l \in Txns /\ campaign' = "running"
      /\ test' = [test EXCEPT !.status = "running"] /\ EndTxn(l)
  BY ConstantsAreTyped DEF LaunchCampaign, LockInv, NothingBeforeLaunch
<1>2. test'.winner = NoVariant
  <2>1. test.winner = NoVariant /\ test \in Test
    BY <1>1 DEF ReleaseInv, Choosers, ABShape, ABTypeOK
  <2> QED
    BY <1>1, <2>1 DEF Test
<1>3. Choosers' /\ \A u \in Txns : Announces(u)' <=> u # l /\ Announces(u)
  BY <1>1, EndChoosers DEF ABShape
<1>4. \A u \in Txns : ~Announces(u)
  BY <1>1, ABAssumption DEF ReleaseInv, Choosers, Announces
<1> QED
  BY <1>2, <1>3, <1>4 DEF ReleaseInv, DraftsReleased, ReleasedTogether

\* Nobody but the announcing transaction holds a recipient.
LEMMA AnnouncerHoldsAll ==
    ASSUME LockInv, ReleaseInv, ABTypeOK, NEW t \in Txns, Announces(t),
           NEW u \in Txns, u # t
    PROVE  held[u] = {}
<1>1. \A r \in held[u] : r \in Recipients /\ Waiting(row[r]) /\ r \notin held[t]
  BY DEF LockInv, LockedRows, ABTypeOK
<1> QED
  BY <1>1 DEF ReleaseInv, ReleaseReady

LEMMA CommitRelease ==
    ASSUME ABShape, LockInv, ReleaseInv, NEW t \in Txns, Commit(t)
    PROVE  ReleaseInv'
<1>1. /\ row' = [r \in Recipients |-> View(t, r)] /\ pc[t] = "commit"
      /\ campaign' = IF closes[t] THEN "completed" ELSE campaign
      /\ test' = IF rowLock["test"] # t THEN test
                 ELSE IF choice[t] = NoVariant THEN [test EXCEPT !.status = "completed"]
                 ELSE [test EXCEPT !.status = "winner_selected", !.winner = choice[t]]
      /\ EndTxn(t) /\ ABTypeOK
  BY DEF Commit, ABShape
<1>2. test \in Test /\ choice[t] \in Variants \cup {NoVariant}
  BY DEF ABShape, ABTypeOK
<1>3. campaign' = "ready" => campaign = "ready" /\ UNCHANGED test
  BY <1>1 DEF ReleaseInv, Choosers
<1>4. /\ Choosers'
      /\ \A u \in Txns : Announces(u)' <=> u # t /\ Announces(u)
      /\ \A u \in Txns : Announces(u)' => rowLock'["test"] = u
      /\ \A u \in Txns : /\ draft'[u] = IF u = t THEN [r \in Recipients |-> NoRow] ELSE draft[u]
                         /\ held'[u] = IF u = t THEN {} ELSE held[u]
                         /\ choice'[u] = IF u = t THEN NoVariant ELSE choice[u]
  BY <1>1, <1>3, EndChoosers
<1>5. \A r \in Recipients : row'[r] = IF r \in held[t] THEN draft[t][r] ELSE row[r]
  BY <1>1 DEF View
<1>6. CASE Announces(t)
  <2>1. choice[t] \in Variants /\ choice[t] # NoVariant /\ ReleaseReady(t)
    BY <1>6, ABAssumption DEF Announces, ReleaseInv
  <2>2. test'.winner = choice[t]
    <3>1. [test EXCEPT !.status = "winner_selected", !.winner = choice[t]].winner = choice[t]
      BY <1>2 DEF Test
    <3> QED
      BY <1>1, <2>1, <3>1 DEF ReleaseReady
  <2>3. \A u \in Txns : held'[u] = {}
    BY <1>1, <1>4, <1>6, AnnouncerHoldsAll
  <2>4. \A u \in Txns : ~Announces(u)'
    BY <1>4, <2>1 DEF ReleaseInv, ReleaseReady
  <2>5. ASSUME NEW r \in Recipients, Waiting(row'[r]) PROVE ReleasedTo(row'[r], choice[t])
    <3>1. CASE r \in held[t]
      <4>1. row'[r] = draft[t][r] /\ Waiting(draft[t][r])
        BY <1>5, <2>5, <3>1
      <4>2. Waiting(row[r])
        BY <3>1 DEF LockInv, LockedRows
      <4> QED
        BY <2>1, <3>1, <4>1, <4>2 DEF ReleaseReady
    <3>2. CASE r \notin held[t]
      <4>1. row'[r] = row[r]
        BY <1>5, <3>2
      <4> QED
        BY <2>1, <2>5, <3>2, <4>1 DEF ReleaseReady
    <3> QED
      BY <3>1, <3>2
  <2>6. ReleasedTogether'
    BY <2>2, <2>5 DEF ReleasedTogether, ReleasedTo, Waiting
  <2>7. DraftsReleased'
    BY <2>3 DEF DraftsReleased
  <2> QED
    BY <1>4, <2>4, <2>6, <2>7 DEF ReleaseInv
<1>7. CASE ~Announces(t)
  <2>1. test'.winner = test.winner
    <3>1. choice[t] = NoVariant
      BY <1>1, <1>2, <1>7 DEF Announces
    <3>2. [test EXCEPT !.status = "completed"].winner = test.winner
      BY <1>2 DEF Test
    <3> QED
      BY <1>1, <3>1, <3>2
  <2>2. test.winner # NoVariant => \A r \in held[t] :
          Waiting(draft[t][r]) => ReleasedTo(draft[t][r], test.winner)
    BY <1>7 DEF ReleaseInv, DraftsReleased
  <2>3. ReleasedTogether'
    BY <1>5, <2>1, <2>2 DEF ReleaseInv, ReleasedTogether, ReleasedTo, Waiting
  <2>4. DraftsReleased'
    BY <1>4, <2>1 DEF ReleaseInv, DraftsReleased, ReleasedTo, Waiting
  <2>5. ASSUME NEW u \in Txns, Announces(u)' PROVE ReleaseReady(u)'
    <3>1. u # t /\ Announces(u) /\ ReleaseReady(u) /\ rowLock'["test"] = u
      BY <1>4, <2>5 DEF ReleaseInv
    <3>2. held[t] = {}
      BY <1>1, <3>1, AnnouncerHoldsAll
    <3>3. \A r \in Recipients : row'[r] = row[r]
      BY <1>5, <3>2
    <3> QED
      BY <1>4, <3>1, <3>3 DEF ReleaseReady, Waiting, ReleasedTo
  <2> QED
    BY <1>4, <2>3, <2>4, <2>5 DEF ReleaseInv
<1> QED
  BY <1>6, <1>7

LEMMA RollbackRelease ==
    ASSUME ABShape, LockInv, ReleaseInv, NEW t \in Txns, Rollback(t)
    PROVE  ReleaseInv'
<1>1. EndTxn(t) /\ UNCHANGED <<test, row, campaign>> /\ ABTypeOK
  BY DEF Rollback, dataVars, ABShape
<1>2. /\ Choosers'
      /\ \A u \in Txns : Announces(u)' <=> u # t /\ Announces(u)
      /\ \A u \in Txns : Announces(u)' => rowLock'["test"] = u
      /\ \A u \in Txns : /\ draft'[u] = IF u = t THEN [r \in Recipients |-> NoRow] ELSE draft[u]
                         /\ held'[u] = IF u = t THEN {} ELSE held[u]
                         /\ choice'[u] = IF u = t THEN NoVariant ELSE choice[u]
  BY <1>1, EndChoosers
<1>3. \A u \in Txns : Announces(u)' => ReleaseReady(u)'
  BY <1>1, <1>2 DEF ReleaseInv, ReleaseReady, Waiting, ReleasedTo
<1>4. DraftsReleased'
  BY <1>1, <1>2 DEF ReleaseInv, DraftsReleased, ReleasedTo, Waiting
<1>5. ReleasedTogether'
  BY <1>1 DEF ReleaseInv, ReleasedTogether, Waiting
<1> QED
  BY <1>2, <1>3, <1>4, <1>5 DEF ReleaseInv

LEMMA LoadLaunchRelease ==
    ASSUME ABShape, LockInv, ReleaseInv, NEW l \in Launchers, LoadLaunch(l)
    PROVE  ReleaseInv'
<1>1. /\ pc[l] = "idle" /\ pc' = [pc EXCEPT ![l] = "launch"] /\ l \in Txns
      /\ draft' = [draft EXCEPT ![l] = Snapshot(test.winner)]
      /\ UNCHANGED <<campaign, test, row, choice, held, rowLock>>
  BY ConstantsAreTyped DEF LoadLaunch, dataVars, lockVars
<1>2. held[l] = {}
  BY <1>1 DEF LockInv, LockedRows
<1>3. /\ \A u \in Txns \ {l} : draft'[u] = draft[u] /\ pc'[u] = pc[u]
      /\ pc'[l] = "launch"
  BY <1>1 DEF ABShape, ABTypeOK
<1>4. Choosers'
  BY <1>1, <1>3 DEF ReleaseInv, Choosers
<1>5. \A u \in Txns \ {l} : Announces(u) => rowLock'["test"] = u
  BY <1>1 DEF ReleaseInv, ReleaseReady
<1> QED
  BY <1>1, <1>2, <1>3, <1>4, <1>5, DraftRelease DEF Announces

LEMMA ClaimRelease ==
    ASSUME ABShape, LockInv, ReleaseInv, NEW w \in Batches, Claim(w)
    PROVE  ReleaseInv'
<1>1. PICK S \in ListDueRecipients(w) :
        /\ held' = [held EXCEPT ![w] = S]
        /\ draft' = [draft EXCEPT ![w] = [r \in Recipients |-> IF r \in S THEN row[r] ELSE NoRow]]
  BY DEF Claim
<1>2. /\ pc[w] = "idle" /\ pc' = [pc EXCEPT ![w] = "read"] /\ w \in Txns
      /\ UNCHANGED <<campaign, test, row, choice, rowLock>>
  BY ConstantsAreTyped DEF Claim, dataVars
<1>3. /\ \A u \in Txns \ {w} : draft'[u] = draft[u] /\ pc'[u] = pc[u] /\ held'[u] = held[u]
      /\ pc'[w] = "read" /\ held'[w] = S /\ S \subseteq Recipients
      /\ \A r \in S : draft'[w][r] = row[r]
  BY <1>1, <1>2 DEF ABShape, ABTypeOK, ListDueRecipients
<1>4. Choosers'
  BY <1>2, <1>3, ABAssumption DEF ReleaseInv, Choosers
<1>5. \A u \in Txns \ {w} : Announces(u) => rowLock'["test"] = u
  BY <1>2 DEF ReleaseInv, ReleaseReady
<1>6. test.winner # NoVariant =>
        \A r \in held'[w] : Waiting(draft'[w][r]) => ReleasedTo(draft'[w][r], test.winner)
  BY <1>3 DEF ReleaseInv, ReleasedTogether, ReleasedTo, Waiting
<1> QED
  BY <1>2, <1>3, <1>4, <1>5, <1>6, DraftRelease DEF Announces

LEMMA LockForReleaseRelease ==
    ASSUME ABShape, LockInv, ReleaseInv, NEW t \in Txns, NEW r \in Recipients,
           LockForRelease(t, r)
    PROVE  ReleaseInv'
<1>1. /\ pc[t] = "release" /\ Waiting(row[r])
      /\ held' = [held EXCEPT ![t] = held[t] \cup {r}]
      /\ draft' = [draft EXCEPT ![t][r] = row[r]]
      /\ UNCHANGED <<campaign, test, row, pc, choice, rowLock>>
  BY DEF LockForRelease, dataVars, ABShape, ABTypeOK
<1>2. /\ \A u \in Txns \ {t} : draft'[u] = draft[u] /\ held'[u] = held[u]
      /\ held'[t] = held[t] \cup {r} /\ held[t] \subseteq Recipients
      /\ \A q \in Recipients : draft'[t][q] = IF q = r THEN row[r] ELSE draft[t][q]
  BY <1>1 DEF ABShape, ABTypeOK
<1>3. Choosers' /\ ~Announces(t) /\ ~Announces(t)'
  BY <1>1 DEF ReleaseInv, Choosers, Announces
<1>4. \A u \in Txns \ {t} : Announces(u) => rowLock'["test"] = u
  BY <1>1 DEF ReleaseInv, ReleaseReady
<1>5. test.winner # NoVariant =>
        \A q \in held'[t] : Waiting(draft'[t][q]) => ReleasedTo(draft'[t][q], test.winner)
  <2>1. test.winner # NoVariant =>
          \A q \in held[t] : Waiting(draft[t][q]) => ReleasedTo(draft[t][q], test.winner)
    BY <1>3 DEF ReleaseInv, DraftsReleased
  <2>2. test.winner # NoVariant => ReleasedTo(row[r], test.winner)
    BY <1>1 DEF ReleaseInv, ReleasedTogether, ReleasedTo
  <2> QED
    BY <1>2, <2>1, <2>2
<1> QED
  BY <1>1, <1>2, <1>3, <1>4, <1>5, DraftRelease

LEMMA AssignPendingRelease ==
    ASSUME ABShape, LockInv, ReleaseInv, NEW t \in Txns, AssignPending(t)
    PROVE  ReleaseInv'
<1>1. /\ pc[t] = "release" /\ pc' = [pc EXCEPT ![t] = "commit"] /\ ToRelease(t) = {}
      /\ UNCHANGED <<campaign, test, row, choice, held, rowLock>>
      /\ \A u \in Txns \ {t} : draft'[u] = draft[u]
  BY DEF AssignPending, dataVars, lockVars, ABShape, ABTypeOK
<1>2. choice[t] \in Variants /\ rowLock["test"] = t
  BY <1>1 DEF ABShape, ChoiceMade, ReleaseInv, Choosers
<1>3. \A u \in Txns \ {t} : pc'[u] = pc[u]
  BY <1>1 DEF ABShape, ABTypeOK
<1>4. pc'[t] = "commit"
  BY <1>1 DEF ABShape, ABTypeOK
<1>5. Choosers'
  BY <1>1, <1>2, <1>3, <1>4 DEF ReleaseInv, Choosers
<1>6. Announces(t)' /\ \A u \in Txns \ {t} : Announces(u)' <=> Announces(u)
  BY <1>1, <1>2, <1>3, <1>4 DEF Announces
<1>7. \A r \in Recipients : Waiting(row[r]) => r \in held[t]
  BY <1>1 DEF ToRelease
<1>8. \A r \in held[t] : r \in Recipients /\
        (Waiting(draft'[t][r]) => ReleasedTo(draft'[t][r], choice[t]))
  <2> TAKE r \in held[t]
  <2>1. r \in Recipients
    BY DEF ABShape, ABTypeOK
  <2>2. CASE Waiting(draft[t][r])
    BY <2>1, <2>2, AssignedRows DEF ReleasedTo
  <2>3. CASE ~Waiting(draft[t][r])
    BY <2>1, <2>3, AssignedRows
  <2> QED
    BY <2>1, <2>2, <2>3
<1>9. ReleaseReady(t)'
  BY <1>1, <1>2, <1>7, <1>8 DEF ReleaseReady, Waiting, ReleasedTo
<1>10. \A u \in Txns \ {t} : Announces(u)' => ReleaseReady(u)'
  BY <1>1, <1>6 DEF ReleaseInv, ReleaseReady, Waiting, ReleasedTo
<1>11. DraftsReleased'
  BY <1>1, <1>6 DEF ReleaseInv, DraftsReleased, Waiting, ReleasedTo
<1>12. ReleasedTogether'
  BY <1>1 DEF ReleaseInv, ReleasedTogether, Waiting
<1> QED
  BY <1>5, <1>9, <1>10, <1>11, <1>12 DEF ReleaseInv

LEMMA BatchSettlesRelease ==
    ASSUME ABShape, LockInv, ReleaseInv, NEW w \in Batches,
           RecordSent(w) \/ \E r \in Recipients : SkipRecipient(w, r) \/ CallFailed(w, r)
    PROVE  ReleaseInv'
<1> USE ConstantsAreTyped
<1>1. \A p, q \in Row : /\ [p EXCEPT !.status = "skipped"].status = "skipped"
                        /\ [p EXCEPT !.status = "sent", !.tries = @ + 1].status = "sent"
  BY DEF Row
<1>2. w \in Txns /\ rowLock \in [Variants \cup {"test", "account"} -> Txns \cup {Nobody}]
      /\ pc \in [Txns -> {"idle", "read", "batch", "account", "select", "release",
                          "finish", "launch", "commit", "done"}]
  BY DEF ABShape, ABTypeOK
<1>3. ASSUME NEW r \in Recipients, SkipRecipient(w, r) PROVE ReleaseInv'
  <2>1. /\ Settle(w, r, [draft[w][r] EXCEPT !.status = "skipped"], {})
        /\ pc[w] = "batch" /\ r \in todo[w]
        /\ UNCHANGED <<campaign, test, row, held, choice, pc, rowLock>>
    BY <1>3 DEF SkipRecipient, NextRecipient, dataVars, lockVars
  <2>2. [draft[w][r] EXCEPT !.status = "skipped"].status = "skipped"
    BY <1>1, <1>2 DEF ABShape, ABTypeOK
  <2>3. Choosers'
    BY <2>1 DEF ReleaseInv, Choosers
  <2> QED
    BY <2>1, <2>2, <2>3, SettleRelease DEF Waiting
<1>4. ASSUME NEW r \in Recipients, CallFailed(w, r) PROVE ReleaseInv'
  <2> DEFINE y == [draft[w][r] EXCEPT !.tries = @ + 1]
  <2>1. /\ \/ \E vs : Settle(w, r, AfterFailure(y), vs)
           \/ \E vs : Settle(w, r, AfterDoubt(y), vs)
        /\ pc[w] = "batch" /\ r \in todo[w]
        /\ UNCHANGED <<campaign, test, row, held, choice, pc, rowLock>>
    BY <1>4 DEF CallFailed, NextRecipient, dataVars, lockVars
  <2>2. draft[w][r] \in Row /\ draft[w][r].status = "pending" /\ SoundRow(r, draft[w][r])
    BY <1>2, <2>1 DEF ABShape, ABTypeOK, WorkLists, SoundRows
  <2>3. /\ AfterFailure(y).status \in {"pending", "failed"} /\ AfterDoubt(y).status = "failed"
        /\ AfterFailure(y).variant = draft[w][r].variant
        /\ AfterFailure(y).sampled = draft[w][r].sampled
    BY <2>2, FailureRows
  <2>4. Choosers'
    BY <2>1 DEF ReleaseInv, Choosers
  <2> HIDE DEF y
  <2>5. PICK z \in {AfterFailure(y), AfterDoubt(y)} : \E vs : Settle(w, r, z, vs)
    BY <2>1
  <2>6. Waiting(z) => z.status = "pending" /\ z.variant = draft[w][r].variant
                      /\ z.sampled = draft[w][r].sampled
    BY <2>3 DEF Waiting
  <2> QED
    BY <2>1, <2>4, <2>5, <2>6, SettleRelease
<1>5. CASE RecordSent(w)
  <2>1. PICK r \in accepted[w] \cap todo[w] :
          LET x == draft[w][r] IN
          Settle(w, r, [x EXCEPT !.status = "sent", !.tries = @ + 1], Counted(x))
    BY <1>5 DEF RecordSent
  <2>2. /\ pc[w] = "account" /\ pc' = [pc EXCEPT ![w] = "batch"]
        /\ rowLock' = [rowLock EXCEPT !["account"] = w]
        /\ UNCHANGED <<campaign, test, row, held, choice>>
    BY <1>5 DEF RecordSent, dataVars
  <2> DEFINE z == [draft[w][r] EXCEPT !.status = "sent", !.tries = @ + 1]
  <2>3. r \in Recipients /\ r \in todo[w] /\ Settle(w, r, z, Counted(draft[w][r]))
    BY <1>2, <2>1 DEF ABShape, ABTypeOK
  <2>4. z.status = "sent"
    BY <1>1, <1>2, <2>3 DEF ABShape, ABTypeOK
  <2> HIDE DEF z
  <2>5. rowLock'["test"] = rowLock["test"]
    BY <1>2, <2>2
  <2>6. Choosers'
    BY <1>2, <2>2, <2>5 DEF ReleaseInv, Choosers
  <2> QED
    BY <1>2, <2>2, <2>3, <2>4, <2>5, <2>6, SettleRelease DEF Waiting
<1> QED
  BY <1>3, <1>4, <1>5

LEMMA StepRelease ==
    ASSUME LaunchedOnce, EarlyChoice = FALSE
    PROVE  ABShape /\ LockInv /\ ReleaseInv /\ [ABNext]_abVars => ReleaseInv'
<1> SUFFICES ASSUME ABShape, LockInv, ReleaseInv, [ABNext]_abVars PROVE ReleaseInv'
  OBVIOUS
<1> USE ConstantsAreTyped
<1>0. /\ ABTypeOK /\ pc \in [Txns -> {"idle", "read", "batch", "account", "select", "release",
                                      "finish", "launch", "commit", "done"}]
      /\ rowLock \in [Variants \cup {"test", "account"} -> Txns \cup {Nobody}]
      /\ choice \in [Txns -> Variants \cup {NoVariant}] /\ dirty \in [Txns -> SUBSET Variants]
  BY DEF ABShape, ABTypeOK
<1>1. ASSUME NEW t \in Txns, LockTest(t) PROVE ReleaseInv'
  <2>1. /\ pc[t] = "select" /\ pc' = [pc EXCEPT ![t] = "release"]
        /\ rowLock["test"] \in {Nobody, t} /\ rowLock' = [rowLock EXCEPT !["test"] = t]
        /\ UNCHANGED <<campaign, test, row, draft, held, choice>>
    BY <1>1 DEF LockTest, Free, dataVars
  <2>2. choice[t] \in Variants
    BY <2>1 DEF ABShape, ChoiceMade
  <2>3. rowLock'["test"] = t
    BY <1>0, <2>1
  <2>4. Choosers'
    BY <1>0, <2>1, <2>2, <2>3, ABAssumption DEF ReleaseInv, Choosers
  <2>5. \A u \in Txns : /\ Announces(u)' <=> Announces(u)
                        /\ Announces(u) => rowLock'["test"] = u
    <3>1. \A u \in Txns : Announces(u)' <=> Announces(u)
      BY <1>0, <2>1 DEF Announces
    <3>2. \A u \in Txns : Announces(u) => rowLock["test"] = u /\ u # t
      BY <2>1 DEF ReleaseInv, ReleaseReady, Announces
    <3> QED
      BY <2>1, <3>1, <3>2, ABAssumption
  <2> QED
    BY <2>1, <2>4, <2>5, QuietRelease
<1>2. ASSUME NEW t \in Txns, ReleaseStep(t) PROVE ReleaseInv'
  BY <1>1, <1>2, LockForReleaseRelease, AssignPendingRelease, CommitRelease DEF ReleaseStep
<1>3. ASSUME NEW w \in Batches, BatchStep(w) PROVE ReleaseInv'
  <2>1. CASE ReadTest(w)
    <3>1. /\ pc[w] = "read" /\ pc' = [pc EXCEPT ![w] = "batch"]
          /\ UNCHANGED <<campaign, test, row, draft, held, choice, rowLock>>
      BY <2>1 DEF ReadTest, dataVars, lockVars
    <3>2. Choosers'
      BY <1>0, <3>1 DEF ReleaseInv, Choosers
    <3>3. \A u \in Txns : Announces(u)' <=> Announces(u)
      BY <1>0, <3>1 DEF Announces
    <3> QED
      BY <3>1, <3>2, <3>3, QuietRelease DEF ReleaseInv, ReleaseReady
  <2>2. CASE FlushVariants(w)
    <3>1. /\ rowLock' = [x \in DOMAIN rowLock |-> IF x \in dirty[w] THEN w ELSE rowLock[x]]
          /\ UNCHANGED <<campaign, test, row, draft, held, choice, pc>>
      BY <2>2 DEF FlushVariants, dataVars, txnVars
    <3>2. rowLock'["test"] = rowLock["test"]
      BY <1>0, <3>1, ABAssumption
    <3>3. Choosers'
      BY <3>1, <3>2 DEF ReleaseInv, Choosers
    <3>4. \A u \in Txns : Announces(u)' <=> Announces(u)
      BY <3>1 DEF Announces
    <3> QED
      BY <3>1, <3>2, <3>3, <3>4, QuietRelease DEF ReleaseInv, ReleaseReady
  <2>3. ASSUME NEW r \in Recipients, CallAccepted(w, r) PROVE ReleaseInv'
    <3>1. /\ pc[w] = "batch" /\ pc' = [pc EXCEPT ![w] = "account"]
          /\ UNCHANGED <<campaign, test, row, draft, held, choice, rowLock>>
      BY <2>3 DEF CallAccepted, NextRecipient, dataVars, lockVars
    <3>2. Choosers'
      BY <1>0, <3>1 DEF ReleaseInv, Choosers
    <3>3. \A u \in Txns : Announces(u)' <=> Announces(u)
      BY <1>0, <3>1 DEF Announces
    <3> QED
      BY <3>1, <3>2, <3>3, QuietRelease DEF ReleaseInv, ReleaseReady
  <2>4. CASE RefreshCounters(w)
    <3>1. /\ pc[w] = "batch" /\ campaign # "ready" /\ choice[w] = NoVariant
      BY <1>0, <2>4 DEF RefreshCounters, LockInv, NothingBeforeLaunch, ReleaseInv, Choosers
    <3>2. /\ UNCHANGED <<campaign, test, row, draft, held, rowLock>>
          /\ \A u \in Txns \ {w} : pc'[u] = pc[u] /\ choice'[u] = choice[u]
          /\ \/ pc'[w] = "select"
             \/ pc'[w] \in {"finish", "commit"} /\ choice' = choice
      BY <1>0, <2>4 DEF RefreshCounters, dataVars, lockVars
    <3>3. Choosers'
      BY <3>1, <3>2, ABAssumption DEF ReleaseInv, Choosers
    <3>4. \A u \in Txns : Announces(u)' <=> Announces(u)
      BY <3>1, <3>2, ABAssumption DEF Announces
    <3>5. \A u \in Txns : Announces(u) => u # w
      BY <3>1 DEF Announces
    <3> QED
      BY <3>2, <3>3, <3>4, <3>5, QuietRelease DEF ReleaseInv, ReleaseReady
  <2>5. CASE FinishTest(w)
    <3>1. /\ pc[w] = "finish" /\ pc' = [pc EXCEPT ![w] = "commit"]
          /\ rowLock["test"] \in {Nobody, w} /\ rowLock' = [rowLock EXCEPT !["test"] = w]
          /\ UNCHANGED <<campaign, test, row, draft, held, choice>>
      BY <2>5 DEF FinishTest, Free, dataVars
    <3>2. choice[w] = NoVariant /\ campaign # "ready" /\ rowLock'["test"] = w
      BY <1>0, <3>1 DEF ReleaseInv, Choosers, LockInv, NothingBeforeLaunch
    <3>3. \A u \in Txns \ {w} : rowLock["test"] # u
      BY <3>1, ABAssumption
    <3>4. Choosers'
      BY <1>0, <3>1, <3>2, <3>3, ABAssumption DEF ReleaseInv, Choosers
    <3>5. \A u \in Txns : Announces(u)' <=> Announces(u)
      BY <1>0, <3>1, <3>2, ABAssumption DEF Announces
    <3>6. \A u \in Txns : ~Announces(u)
      BY <3>1, <3>3 DEF ReleaseInv, ReleaseReady, Announces
    <3> QED
      BY <3>1, <3>4, <3>5, <3>6, QuietRelease
  <2> QED
    BY <1>2, <1>3, <2>1, <2>2, <2>3, <2>4, <2>5, BatchSettlesRelease DEF BatchStep
<1>4. ASSUME NEW o \in Operators, NEW v \in Variants, ChooseManually(o, v) PROVE ReleaseInv'
  <2>1. /\ pc[o] = "idle" /\ pc' = [pc EXCEPT ![o] = "select"] /\ test.status # "draft"
        /\ choice' = [choice EXCEPT ![o] = v]
        /\ UNCHANGED <<campaign, test, row, draft, held, rowLock>>
    BY <1>4 DEF ChooseManually, dataVars, lockVars
  <2>2. Choosers'
    BY <1>0, <2>1 DEF ReleaseInv, Choosers
  <2>3. \A u \in Txns : (Announces(u)' <=> Announces(u)) /\ (Announces(u) => u # o)
    BY <1>0, <2>1 DEF Announces
  <2> QED
    BY <1>0, <2>1, <2>2, <2>3, QuietRelease DEF ReleaseInv, ReleaseReady
<1>5. ASSUME NEW e \in Evaluators, EvaluateWinner(e) PROVE ReleaseInv'
  <2>1. PICK v \in Variants :
          /\ pc[e] = "idle" /\ pc' = [pc EXCEPT ![e] = "select"] /\ test.status = "running"
          /\ choice' = [choice EXCEPT ![e] = v]
          /\ UNCHANGED <<campaign, test, row, draft, held, rowLock>>
    BY <1>5 DEF EvaluateWinner, Undecided, dataVars, lockVars
  <2>2. Choosers'
    BY <1>0, <2>1 DEF ReleaseInv, Choosers
  <2>3. \A u \in Txns : (Announces(u)' <=> Announces(u)) /\ (Announces(u) => u # e)
    BY <1>0, <2>1 DEF Announces
  <2> QED
    BY <1>0, <2>1, <2>2, <2>3, QuietRelease DEF ReleaseInv, ReleaseReady
<1>6. CASE TestElapses \/ UNCHANGED abVars
  <2>1. UNCHANGED <<campaign, test, row, draft, held, choice, rowLock, pc>>
    BY <1>6 DEF TestElapses, abVars, dataVars, txnVars, lockVars
  <2>2. Choosers'
    BY <2>1 DEF ReleaseInv, Choosers
  <2>3. \A u \in Txns : Announces(u)' <=> Announces(u)
    BY <2>1 DEF Announces
  <2> QED
    BY <2>1, <2>2, <2>3, QuietRelease DEF ReleaseInv, ReleaseReady
<1> QED
  BY <1>2, <1>3, <1>4, <1>5, <1>6, LoadLaunchRelease, LaunchRelease, ClaimRelease,
     RollbackRelease DEF ABNext

\* Once a winner is committed nobody is left behind, whatever batches are open when it is
\* chosen and however often: a choice waits for the rows of every batch, and no recipient
\* goes back to waiting for another candidate (select_ab_winner,
\* assign_pending_recipients_to_variant).  Choices made while the campaign is being
\* launched are excluded: they do leave recipients behind.
THEOREM ReleaseIsComplete ==
    ASSUME LaunchedOnce, EarlyChoice = FALSE
    PROVE  ABSpec => []ReleasedTogether
<1>1. ReleaseInv => ReleasedTogether
  BY DEF ReleaseInv
<1>2. ABShape /\ LockInv /\ ReleaseInv /\ [ABNext]_abVars => ABShape' /\ LockInv' /\ ReleaseInv'
  BY StepShape, StepLocks, StepRelease
<1> QED
  BY <1>1, <1>2, StartShape, StartLocks, StartRelease, PTL DEF ABSpec

-----------------------------------------------------------------------------
(* Mails *)

\* Mails a batch knows of are those of recipients it has locked: of one it is just
\* recording, and of those it has finished.
AcceptedMails ==
    \A t \in Txns : \A r \in accepted[t] :
        /\ r \in held[t]
        /\ r \in todo[t] => /\ pc[t] = "account" /\ draft[t][r].variant \in mailed[r]
                            /\ \A q \in accepted[t] \cap todo[t] : q = r
        /\ r \notin todo[t] => Terminal(draft[t][r])

\* Who was mailed is finished, or the batch that mailed him is open; unless it was lost.
MailedOneCandidate ==
    \A r \in Recipients \ lost :
        \/ mailed[r] = {}
        \/ /\ \E v \in Variants \cup {NoVariant} : mailed[r] = {v}
           /\ Terminal(row[r]) \/ \E t \in Txns : r \in accepted[t]

MailInv == AcceptedMails /\ MailedOneCandidate

LEMMA StartMails == ABInit => MailInv
BY DEF ABInit, MailInv, AcceptedMails, MailedOneCandidate

\* Nothing is accepted of a batch that is not waiting for the account but what it has
\* finished.
LEMMA NoneOpen ==
    ASSUME MailInv, NEW t \in Txns, pc[t] # "account"
    PROVE  accepted[t] \cap todo[t] = {}
BY DEF MailInv, AcceptedMails

\* A step of transaction t that mails nobody: the mails it knows of stay recorded.
LEMMA OwnMails ==
    ASSUME MailInv, NEW t \in Txns, UNCHANGED <<row, lost, mailed, accepted>>,
           \A u \in Txns \ {t} : /\ held'[u] = held[u] /\ todo'[u] = todo[u]
                                 /\ pc'[u] = pc[u] /\ draft'[u] = draft[u],
           \A r \in accepted[t] :
                /\ r \in held'[t]
                /\ r \in todo'[t] => /\ r \in todo[t] /\ pc'[t] = "account"
                                     /\ draft'[t][r] = draft[t][r]
                /\ r \notin todo'[t] => Terminal(draft'[t][r])
    PROVE  MailInv'
<1>1. AcceptedMails'
  <2>1. ASSUME NEW r \in accepted[t]
        PROVE  /\ r \in held'[t]
               /\ r \in todo'[t] => /\ pc'[t] = "account" /\ draft'[t][r].variant \in mailed[r]
                                    /\ \A q \in accepted[t] \cap todo'[t] : q = r
               /\ r \notin todo'[t] => Terminal(draft'[t][r])
    BY <2>1 DEF MailInv, AcceptedMails
  <2> QED
    BY <2>1 DEF MailInv, AcceptedMails, Terminal
<1>2. MailedOneCandidate'
  BY DEF MailInv, MailedOneCandidate, Terminal
<1> QED
  BY <1>1, <1>2 DEF MailInv

\* A batch mails a recipient it has claimed: nobody has mailed him before and kept it.
LEMMA MoreMails ==
    ASSUME ABShape, LockInv, MailInv, NEW t \in Txns, NEW r \in todo[t], NEW v,
           pc[t] = "batch", v = draft[t][r].variant,
           UNCHANGED <<row, lost, held>>,
           mailed' = [mailed EXCEPT ![r] = @ \cup {v}],
           accepted' = [accepted EXCEPT ![t] = @ \cup {r}],
           \A u \in Txns \ {t} : todo'[u] = todo[u] /\ pc'[u] = pc[u] /\ draft'[u] = draft[u],
           \A q \in accepted[t] : /\ q \notin todo[t] => q \notin todo'[t]
                                  /\ draft'[t][q] = draft[t][q],
           \/ /\ r \in todo'[t] /\ pc'[t] = "account" /\ draft'[t][r] = draft[t][r]
           \/ r \notin todo'[t] /\ Terminal(draft'[t][r])
    PROVE  MailInv'
<1>1. /\ r \in held[t] /\ r \in Recipients /\ r \notin accepted[t]
      /\ \A u \in Txns \ {t} : r \notin held[u] /\ r \notin accepted[u]
      /\ accepted[t] \cap todo[t] = {}
      /\ v \in Variants \cup {NoVariant}
  BY NoneOpen DEF ABShape, ABTypeOK, WorkLists, LockInv, LockedRows, MailInv, AcceptedMails, Row
<1>2. Waiting(row[r]) /\ ~Terminal(row[r])
  BY <1>1 DEF LockInv, LockedRows, Waiting, Terminal
<1>3. r \notin lost => mailed[r] = {}
  BY <1>1, <1>2 DEF MailInv, MailedOneCandidate
<1>4. /\ \A u \in Txns : accepted'[u] = IF u = t THEN accepted[t] \cup {r} ELSE accepted[u]
      /\ \A q \in Recipients : mailed'[q] = IF q = r THEN mailed[r] \cup {v} ELSE mailed[q]
  BY <1>1 DEF ABShape, ABTypeOK
<1>5. AcceptedMails'
  <2>1. ASSUME NEW u \in Txns \ {t}, NEW q \in accepted[u]
        PROVE  q # r /\ q \in Recipients /\ mailed'[q] = mailed[q]
    BY <1>1, <1>4, <2>1 DEF ABShape, ABTypeOK
  <2>2. ASSUME NEW q \in accepted[t]
        PROVE  /\ q \in held'[t] /\ q \notin todo'[t] /\ Terminal(draft'[t][q])
               /\ q # r
    BY <1>1, <2>2 DEF MailInv, AcceptedMails
  <2>3. ASSUME NEW q \in accepted'[t]
        PROVE  /\ q \in held'[t]
               /\ q \in todo'[t] => /\ pc'[t] = "account" /\ draft'[t][q].variant \in mailed'[q]
                                    /\ \A p \in accepted'[t] \cap todo'[t] : p = q
               /\ q \notin todo'[t] => Terminal(draft'[t][q])
    BY <1>1, <1>4, <2>2, <2>3
  <2>4. ASSUME NEW u \in Txns \ {t}, NEW q \in accepted'[u]
        PROVE  /\ q \in held'[u]
               /\ q \in todo'[u] => /\ pc'[u] = "account" /\ draft'[u][q].variant \in mailed'[q]
                                    /\ \A p \in accepted'[u] \cap todo'[u] : p = q
               /\ q \notin todo'[u] => Terminal(draft'[u][q])
    <3>1. q \in accepted[u] /\ accepted'[u] = accepted[u]
      BY <1>4, <2>4
    <3> QED
      BY <2>1, <2>4, <3>1 DEF MailInv, AcceptedMails
  <2> QED
    BY <2>3, <2>4 DEF AcceptedMails, Terminal
<1>6. MailedOneCandidate'
  <2>1. ASSUME NEW q \in Recipients \ lost, q # r
        PROVE  \/ mailed'[q] = {}
               \/ /\ \E x \in Variants \cup {NoVariant} : mailed'[q] = {x}
                  /\ Terminal(row[q]) \/ \E u \in Txns : q \in accepted'[u]
    <3>1. mailed'[q] = mailed[q] /\ \A u \in Txns : q \in accepted[u] => q \in accepted'[u]
      BY <1>4, <2>1
    <3> QED
      BY <2>1, <3>1 DEF MailInv, MailedOneCandidate
  <2>2. r \notin lost => mailed'[r] = {v} /\ r \in accepted'[t]
    BY <1>1, <1>3, <1>4
  <2> QED
    BY <1>1, <2>1, <2>2 DEF MailedOneCandidate, Terminal
<1> QED
  BY <1>5, <1>6 DEF MailInv

\* The end of transaction t: its mails are written as finished, or lost.
LEMMA EndMails ==
    ASSUME ABShape, LockInv, MailInv, NEW t \in Txns, EndTxn(t), UNCHANGED mailed,
           \A r \in Recipients \ held[t] : row'[r] = row[r],
           lost \subseteq lost',
           \A r \in accepted[t] : r \in lost' \/ Terminal(row'[r])
    PROVE  MailInv'
<1>1. \A u \in Txns : /\ accepted'[u] = IF u = t THEN {} ELSE accepted[u]
                      /\ u # t => /\ held'[u] = held[u] /\ todo'[u] = todo[u]
                                  /\ pc'[u] = pc[u] /\ draft'[u] = draft[u]
  BY DEF EndTxn, ABShape, ABTypeOK
<1>2. AcceptedMails'
  <2>1. ASSUME NEW u \in Txns, NEW q \in accepted'[u]
        PROVE  u # t /\ q \in accepted[u] /\ accepted'[u] = accepted[u]
    BY <1>1, <2>1
  <2>2. ASSUME NEW u \in Txns, NEW q \in accepted'[u]
        PROVE  /\ q \in held'[u]
               /\ q \in todo'[u] => /\ pc'[u] = "account" /\ draft'[u][q].variant \in mailed'[q]
                                    /\ \A p \in accepted'[u] \cap todo'[u] : p = q
               /\ q \notin todo'[u] => Terminal(draft'[u][q])
    BY <1>1, <2>1, <2>2 DEF MailInv, AcceptedMails
  <2> QED
    BY <2>2 DEF AcceptedMails, Terminal
<1>3. MailedOneCandidate'
  <2>1. \A r \in Recipients : Terminal(row[r]) => Terminal(row'[r])
    BY DEF LockInv, LockedRows, Waiting, Terminal
  <2>2. ASSUME NEW r \in Recipients \ lost',
               \E u \in Txns : r \in accepted[u]
        PROVE  Terminal(row'[r]) \/ \E u \in Txns : r \in accepted'[u]
    BY <1>1, <2>2
  <2> QED
    BY <2>1, <2>2 DEF MailInv, MailedOneCandidate, Terminal
<1> QED
  BY <1>2, <1>3 DEF MailInv

LEMMA RecordSentMails ==
    ASSUME ABShape, LockInv, MailInv, NEW w \in Batches, RecordSent(w)
    PROVE  MailInv'
<1> USE ConstantsAreTyped
<1>1. PICK r \in accepted[w] \cap todo[w] :
        LET x == draft[w][r] IN
        Settle(w, r, [x EXCEPT !.status = "sent", !.tries = @ + 1], Counted(x))
  BY DEF RecordSent
<1>2. /\ pc' = [pc EXCEPT ![w] = "batch"]
      /\ UNCHANGED <<row, lost, mailed, accepted, held>>
  BY DEF RecordSent, dataVars, worldVars
<1> DEFINE y == [draft[w][r] EXCEPT !.status = "sent", !.tries = @ + 1]
<1>3. r \in Recipients /\ draft[w][r] \in Row
  BY <1>1 DEF ABShape, ABTypeOK
<1>4. y.status = "sent"
  BY <1>3 DEF Row
<1> HIDE DEF y
<1>5. /\ draft' = [draft EXCEPT ![w][r] = y] /\ todo' = [todo EXCEPT ![w] = @ \ {r}]
  BY <1>1 DEF Settle, y
<1>6. /\ draft'[w][r] = y /\ \A q \in Recipients \ {r} : draft'[w][q] = draft[w][q]
      /\ todo'[w] = todo[w] \ {r}
      /\ \A u \in Txns \ {w} : /\ draft'[u] = draft[u] /\ todo'[u] = todo[u]
                               /\ pc'[u] = pc[u] /\ held'[u] = held[u]
  BY <1>2, <1>3, <1>5 DEF ABShape, ABTypeOK
<1>7. ASSUME NEW q \in accepted[w]
      PROVE  q \in held'[w] /\ q \notin todo'[w] /\ Terminal(draft'[w][q])
  <2>1. q \in Recipients /\ q \in held[w]
    BY DEF ABShape, ABTypeOK, MailInv, AcceptedMails
  <2>2. CASE q = r
    BY <1>2, <1>4, <1>6, <2>1, <2>2 DEF Terminal
  <2>3. CASE q # r
    BY <1>1, <1>2, <1>6, <2>1, <2>3 DEF MailInv, AcceptedMails
  <2> QED
    BY <2>2, <2>3
<1> QED
  BY <1>2, <1>6, <1>7, OwnMails

LEMMA CallFailedMails ==
    ASSUME ABShape, LockInv, MailInv, NEW w \in Batches, NEW r \in Recipients, CallFailed(w, r)
    PROVE  MailInv'
<1> USE ConstantsAreTyped
<1> DEFINE y == [draft[w][r] EXCEPT !.tries = @ + 1]
<1>1. /\ pc[w] = "batch" /\ r \in todo[w]
      /\ UNCHANGED <<pc, row, held, lost>>
      /\ \/ /\ \E vs : Settle(w, r, AfterFailure(y), vs)
            /\ UNCHANGED <<mailed, accepted>>
         \/ /\ Settle(w, r, AfterDoubt(y), {})
            /\ \/ UNCHANGED <<mailed, accepted>>
               \/ /\ mailed' = [mailed EXCEPT ![r] = @ \cup {y.variant}]
                  /\ accepted' = [accepted EXCEPT ![w] = @ \cup {r}]
  BY DEF CallFailed, NextRecipient, dataVars, lockVars
<1>2. draft[w][r] \in Row /\ draft[w][r].status = "pending" /\ SoundRow(r, draft[w][r])
  BY <1>1 DEF ABShape, ABTypeOK, WorkLists, SoundRows
<1>3. AfterDoubt(y).status = "failed" /\ y.variant = draft[w][r].variant
  BY <1>2, FailureRows
<1> HIDE DEF y
<1>4. \E z, vs : Settle(w, r, z, vs)
  BY <1>1
<1>5. /\ todo'[w] = todo[w] \ {r}
      /\ \A q \in Recipients \ {r} : draft'[w][q] = draft[w][q]
      /\ \A u \in Txns \ {w} : draft'[u] = draft[u] /\ todo'[u] = todo[u]
  BY <1>4 DEF Settle, ABShape, ABTypeOK
<1>6. \A q \in accepted[w] : /\ q \in Recipients /\ q # r /\ q \in held[w]
                             /\ q \notin todo[w] /\ Terminal(draft[w][q])
  BY <1>1, NoneOpen DEF ABShape, ABTypeOK, MailInv, AcceptedMails
<1>7. CASE UNCHANGED <<mailed, accepted>>
  <2>1. \A q \in accepted[w] : q \in held'[w] /\ q \notin todo'[w] /\ Terminal(draft'[w][q])
    BY <1>1, <1>5, <1>6 DEF Terminal
  <2> QED
    BY <1>1, <1>5, <1>7, <2>1, OwnMails
<1>8. CASE ~UNCHANGED <<mailed, accepted>>
  <2>1. /\ mailed' = [mailed EXCEPT ![r] = @ \cup {y.variant}]
        /\ accepted' = [accepted EXCEPT ![w] = @ \cup {r}]
        /\ draft' = [draft EXCEPT ![w][r] = AfterDoubt(y)]
    BY <1>1, <1>8 DEF Settle
  <2>2. Terminal(draft'[w][r])
    BY <1>3, <2>1 DEF Terminal, ABShape, ABTypeOK
  <2> QED
    BY <1>1, <1>3, <1>5, <1>6, <2>1, <2>2, MoreMails
<1> QED
  BY <1>7, <1>8

LEMMA BatchMails ==
    ASSUME ABShape, LockInv, MailInv, NEW w \in Batches, NEW r \in Recipients,
           SkipRecipient(w, r) \/ CallAccepted(w, r)
    PROVE  MailInv'
<1> USE ConstantsAreTyped
<1>0. /\ pc[w] = "batch" /\ r \in todo[w] /\ UNCHANGED <<row, lost, held>>
      /\ \A q \in accepted[w] : /\ q \in Recipients /\ q \in held[w] /\ q \notin todo[w]
                                /\ Terminal(draft[w][q])
  <2>1. pc[w] = "batch" /\ r \in todo[w] /\ UNCHANGED <<row, lost, held>>
    BY DEF SkipRecipient, CallAccepted, NextRecipient, dataVars, lockVars, worldVars
  <2> QED
    BY <2>1, NoneOpen DEF ABShape, ABTypeOK, MailInv, AcceptedMails
<1>1. CASE SkipRecipient(w, r)
  <2>1. /\ \E z, vs : Settle(w, r, z, vs)
        /\ UNCHANGED <<pc, mailed, accepted>>
    BY <1>1 DEF SkipRecipient, worldVars
  <2>2. /\ todo'[w] = todo[w] \ {r}
        /\ \A q \in Recipients \ {r} : draft'[w][q] = draft[w][q]
        /\ \A u \in Txns \ {w} : draft'[u] = draft[u] /\ todo'[u] = todo[u]
    BY <2>1 DEF Settle, ABShape, ABTypeOK
  <2>3. \A q \in accepted[w] : q \in held'[w] /\ q \notin todo'[w] /\ Terminal(draft'[w][q])
    BY <1>0, <2>2 DEF Terminal
  <2> QED
    BY <1>0, <2>1, <2>2, <2>3, OwnMails
<1>2. CASE CallAccepted(w, r)
  <2>1. /\ mailed' = [mailed EXCEPT ![r] = @ \cup {draft[w][r].variant}]
        /\ accepted' = [accepted EXCEPT ![w] = @ \cup {r}]
        /\ pc' = [pc EXCEPT ![w] = "account"]
        /\ UNCHANGED <<draft, todo>>
    BY <1>2 DEF CallAccepted
  <2>2. pc'[w] = "account" /\ \A u \in Txns \ {w} : pc'[u] = pc[u]
    BY <2>1 DEF ABShape, ABTypeOK
  <2> QED
    BY <1>0, <2>1, <2>2, MoreMails
<1> QED
  BY <1>1, <1>2

LEMMA EndsMails ==
    ASSUME ABShape, LockInv, MailInv, NEW t \in Txns, Commit(t) \/ Rollback(t)
    PROVE  MailInv'
<1>1. CASE Commit(t)
  <2>1. /\ pc[t] = "commit" /\ row' = [r \in Recipients |-> View(t, r)] /\ EndTxn(t)
        /\ UNCHANGED <<mailed, lost>>
    BY <1>1 DEF Commit
  <2>2. \A r \in Recipients : row'[r] = IF r \in held[t] THEN draft[t][r] ELSE row[r]
    BY <2>1 DEF View
  <2>3. \A r \in accepted[t] : /\ r \in Recipients /\ r \in held[t]
                               /\ Terminal(draft[t][r])
    BY <2>1 DEF ABShape, ABTypeOK, WorkLists, MailInv, AcceptedMails
  <2> QED
    BY <2>1, <2>2, <2>3, EndMails DEF Terminal
<1>2. CASE Rollback(t)
  <2>1. EndTxn(t) /\ lost' = lost \cup accepted[t] /\ UNCHANGED <<row, mailed>>
    BY <1>2 DEF Rollback, dataVars
  <2> QED
    BY <2>1, EndMails
<1> QED
  BY <1>1, <1>2

\* A transaction with nothing accepted, or that lets its finished mails be.
LEMMA FinishedMails ==
    ASSUME MailInv, NEW t \in Txns, UNCHANGED <<row, lost, mailed, accepted>>,
           \A u \in Txns \ {t} : /\ held'[u] = held[u] /\ todo'[u] = todo[u]
                                 /\ pc'[u] = pc[u] /\ draft'[u] = draft[u],
           pc[t] # "account", held[t] \subseteq held'[t],
           todo'[t] \subseteq todo[t] \/ held[t] = {},
           \A r \in held[t] : Terminal(draft[t][r]) => draft'[t][r] = draft[t][r]
    PROVE  MailInv'
<1>1. \A r \in accepted[t] : r \in held'[t] /\ r \notin todo'[t] /\ Terminal(draft'[t][r])
  BY NoneOpen DEF MailInv, AcceptedMails, Terminal
<1> QED
  BY <1>1, OwnMails

LEMMA StepMails ==
    ASSUME LaunchedOnce
    PROVE  ABShape /\ LockInv /\ MailInv /\ [ABNext]_abVars => MailInv'
<1> SUFFICES ASSUME ABShape, LockInv, MailInv, [ABNext]_abVars PROVE MailInv'
  OBVIOUS
<1> USE ConstantsAreTyped
<1>0. /\ ABTypeOK /\ pc \in [Txns -> {"idle", "read", "batch", "account", "select", "release",
                                      "finish", "launch", "commit", "done"}]
      /\ held \in [Txns -> SUBSET Recipients] /\ todo \in [Txns -> SUBSET Recipients]
      /\ draft \in [Txns -> [Recipients -> Row]]
  BY DEF ABShape, ABTypeOK
<1>1. ASSUME NEW l \in Launchers, LoadLaunch(l) PROVE MailInv'
  <2>1. /\ pc[l] = "idle" /\ held[l] = {} /\ pc' = [pc EXCEPT ![l] = "launch"]
        /\ draft' = [draft EXCEPT ![l] = Snapshot(test.winner)]
        /\ UNCHANGED <<row, lost, mailed, accepted, held, todo>>
    BY <1>1 DEF LoadLaunch, LockInv, LockedRows, dataVars, lockVars, worldVars
  <2> QED
    BY <1>0, <2>1, FinishedMails
<1>2. ASSUME NEW l \in Launchers, LaunchCampaign(l) PROVE MailInv'
  <2>1. /\ pc[l] = "launch" /\ campaign = "ready" /\ EndTxn(l) /\ UNCHANGED <<mailed, lost>>
    BY <1>2 DEF LaunchCampaign, LockInv, NothingBeforeLaunch, worldVars
  <2>2. \A r \in Recipients : mailed[r] = {}
    BY <2>1 DEF LockInv, NothingBeforeLaunch
  <2>3. \A u \in Txns : held[u] = {} /\ accepted[u] = {}
    BY <2>1, NothingToProcess DEF MailInv, AcceptedMails
  <2>4. \A u \in Txns : accepted'[u] = {}
    BY <2>1, <2>3 DEF EndTxn, ABShape, ABTypeOK
  <2> QED
    BY <2>1, <2>2, <2>4 DEF MailInv, AcceptedMails, MailedOneCandidate
<1>3. ASSUME NEW w \in Batches, Claim(w) PROVE MailInv'
  <2>1. /\ pc[w] = "idle" /\ held[w] = {} /\ pc' = [pc EXCEPT ![w] = "read"]
        /\ UNCHANGED <<row, lost, mailed, accepted>>
    BY <1>3 DEF Claim, LockInv, LockedRows, dataVars, worldVars
  <2>2. \A u \in Txns \ {w} : held'[u] = held[u] /\ todo'[u] = todo[u] /\ draft'[u] = draft[u]
    BY <1>0, <1>3 DEF Claim
  <2> QED
    BY <1>0, <2>1, <2>2, FinishedMails
<1>4. ASSUME NEW t \in Txns, ReleaseStep(t) PROVE MailInv'
  <2>1. CASE LockTest(t)
    BY <1>0, <2>1, FinishedMails DEF LockTest, dataVars, worldVars
  <2>2. ASSUME NEW r \in Recipients, LockForRelease(t, r) PROVE MailInv'
    <3>1. /\ pc[t] = "release" /\ r \notin held[t]
          /\ held' = [held EXCEPT ![t] = held[t] \cup {r}]
          /\ draft' = [draft EXCEPT ![t][r] = row[r]]
          /\ UNCHANGED <<row, lost, mailed, accepted, todo, pc>>
      BY <1>0, <2>2 DEF LockForRelease, dataVars, worldVars
    <3>2. \A q \in held[t] : draft'[t][q] = draft[t][q] /\ q \in held'[t]
      BY <1>0, <3>1
    <3>3. \A u \in Txns \ {t} : held'[u] = held[u] /\ draft'[u] = draft[u]
      BY <1>0, <3>1
    <3> QED
      BY <3>1, <3>2, <3>3, FinishedMails
  <2>3. CASE AssignPending(t)
    <3>1. /\ pc[t] = "release" /\ pc' = [pc EXCEPT ![t] = "commit"]
          /\ UNCHANGED <<row, lost, mailed, accepted, todo, held>>
      BY <2>3 DEF AssignPending, dataVars, lockVars, worldVars
    <3>2. \A r \in Recipients : Terminal(draft[t][r]) => draft'[t][r] = draft[t][r]
      BY <1>0, <2>3 DEF AssignPending, Terminal, Waiting
    <3>3. \A u \in Txns \ {t} : pc'[u] = pc[u] /\ draft'[u] = draft[u]
      BY <1>0, <2>3, <3>1 DEF AssignPending
    <3> QED
      BY <1>0, <3>1, <3>2, <3>3, FinishedMails
  <2> QED
    BY <1>4, <2>1, <2>2, <2>3, EndsMails DEF ReleaseStep
<1>5. ASSUME NEW w \in Batches, BatchStep(w) PROVE MailInv'
  <2>1. CASE ReadTest(w)
    BY <1>0, <2>1, FinishedMails DEF ReadTest, dataVars, lockVars, worldVars
  <2>2. CASE FlushVariants(w)
    BY <1>0, <2>2, FinishedMails DEF FlushVariants, dataVars, txnVars, worldVars
  <2>3. CASE RefreshCounters(w)
    <3>1. /\ pc[w] = "batch" /\ \A u \in Txns \ {w} : pc'[u] = pc[u]
          /\ UNCHANGED <<row, lost, mailed, accepted, todo, held, draft>>
      BY <1>0, <2>3 DEF RefreshCounters, dataVars, lockVars, worldVars
    <3> QED
      BY <3>1, FinishedMails
  <2>4. CASE FinishTest(w)
    BY <1>0, <2>4, FinishedMails DEF FinishTest, dataVars, worldVars
  <2> QED
    BY <1>4, <1>5, <2>1, <2>2, <2>3, <2>4, BatchMails, CallFailedMails, RecordSentMails
    DEF BatchStep
<1>6. ASSUME NEW o \in Operators, NEW v \in Variants, ChooseManually(o, v) PROVE MailInv'
  BY <1>0, <1>6, FinishedMails DEF ChooseManually, dataVars, lockVars, worldVars
<1>7. ASSUME NEW e \in Evaluators, EvaluateWinner(e) PROVE MailInv'
  <2>1. /\ pc[e] = "idle" /\ pc' = [pc EXCEPT ![e] = "select"]
        /\ UNCHANGED <<row, lost, mailed, accepted, todo, held, draft>>
    BY <1>7 DEF EvaluateWinner, dataVars, lockVars, worldVars
  <2> QED
    BY <1>0, <2>1, FinishedMails
<1>8. CASE TestElapses \/ UNCHANGED abVars
  <2>1. UNCHANGED <<row, lost, mailed, accepted, todo, held, draft, pc>>
    BY <1>8 DEF TestElapses, abVars, dataVars, txnVars, lockVars, worldVars
  <2> QED
    BY <2>1 DEF MailInv, AcceptedMails, MailedOneCandidate, Terminal
<1> QED
  BY <1>1, <1>2, <1>3, <1>4, <1>5, <1>6, <1>7, <1>8, EndsMails DEF ABNext

\* Nobody gets two candidates, however often a mail fails and whoever chooses a winner
\* meanwhile, unless a transaction was rolled back after the provider had taken his mail
\* (_process_single_recipient, list_due_recipients).
THEOREM OneCandidateEach ==
    ASSUME LaunchedOnce
    PROVE  ABSpec => []OneCandidate
<1>1. MailInv => OneCandidate
  <2> SUFFICES ASSUME MailInv, NEW r \in Recipients \ lost PROVE Cardinality(mailed[r]) <= 1
    BY DEF OneCandidate
  <2>1. CASE mailed[r] = {}
    <3>1. Cardinality(mailed[r]) = 0
      BY <2>1, FS_EmptySet
    <3> QED
      BY <3>1
  <2>2. CASE mailed[r] # {}
    <3>1. PICK v : mailed[r] = {v}
      BY <2>2 DEF MailInv, MailedOneCandidate
    <3>2. Cardinality(mailed[r]) = 1
      BY <3>1, FS_Singleton
    <3> QED
      BY <3>2
  <2> QED
    BY <2>1, <2>2
<1>2. ABShape /\ LockInv /\ MailInv /\ [ABNext]_abVars => ABShape' /\ LockInv' /\ MailInv'
  BY StepShape, StepLocks, StepMails
<1> QED
  BY <1>1, <1>2, StartShape, StartLocks, StartMails, PTL DEF ABSpec

-----------------------------------------------------------------------------
(* The metric *)

\* The recipients of the sample who were mailed candidate v and are finished, in the
\* database and as transaction t sees it.
SettledRows(v) == {r \in Sample : v \in mailed[r] /\ Terminal(row[r])}

Settled(v, t) == {r \in Sample : v \in mailed[r] /\ Terminal(View(t, r))}

MetricInv ==
    \A v \in Variants :
        /\ sentCount[v] <= Cardinality(SettledRows(v))
        /\ \A t \in Txns : count[t][v] <= Cardinality(Settled(v, t))

LEMMA MetricSets ==
    ASSUME NEW v \in Variants
    PROVE  /\ IsFiniteSet(Sample) /\ IsFiniteSet(SettledRows(v))
           /\ Cardinality(SettledRows(v)) \in Nat
           /\ \A t : IsFiniteSet(Settled(v, t)) /\ Cardinality(Settled(v, t)) \in Nat
<1>1. IsFiniteSet(Sample)
  BY ABAssumption, FS_Subset DEF Sample
<1>2. SettledRows(v) \subseteq Sample /\ \A t : Settled(v, t) \subseteq Sample
  BY DEF SettledRows, Settled
<1>3. IsFiniteSet(SettledRows(v)) /\ \A t : IsFiniteSet(Settled(v, t))
  BY <1>1, <1>2, FS_Subset
<1> QED
  BY <1>1, <1>3, FS_CardinalityType

LEMMA StartMetric == ABInit => MetricInv
<1> SUFFICES ASSUME ABInit, NEW v \in Variants
             PROVE  /\ sentCount[v] <= Cardinality(SettledRows(v))
                    /\ \A t \in Txns : count[t][v] <= Cardinality(Settled(v, t))
  BY DEF MetricInv
<1>1. sentCount[v] = 0 /\ \A t \in Txns : count[t][v] = 0
  BY DEF ABInit, Zero
<1> QED
  BY <1>1, MetricSets

\* Who is finished stays finished, for the database and for every open transaction whose
\* counters are not forgotten; the counters are as they were.
LEMMA KeepsMetric ==
    ASSUME ABTypeOK, ABTypeOK', MetricInv, UNCHANGED bucket,
           \A r \in Recipients : /\ mailed[r] \subseteq mailed'[r]
                                 /\ Terminal(row[r]) => Terminal(row'[r]),
           UNCHANGED sentCount,
           \A t \in Txns : \/ count'[t] = Zero
                           \/ /\ count'[t] = count[t]
                              /\ \A r \in Recipients : Terminal(View(t, r)) => Terminal(View(t, r)')
    PROVE  MetricInv'
<1> SUFFICES ASSUME NEW v \in Variants
             PROVE  /\ sentCount'[v] <= Cardinality(SettledRows(v)')
                    /\ \A t \in Txns : count'[t][v] <= Cardinality(Settled(v, t)')
  BY DEF MetricInv
<1>1. Sample' = Sample
  BY DEF Sample
<1>2. ASSUME NEW t \in Txns
      PROVE  /\ IsFiniteSet(SettledRows(v)') /\ IsFiniteSet(Settled(v, t)')
             /\ Cardinality(SettledRows(v)') \in Nat /\ Cardinality(Settled(v, t)') \in Nat
  <2>1. IsFiniteSet(Sample)
    BY <1>2, MetricSets
  <2>2. SettledRows(v)' \subseteq Sample /\ Settled(v, t)' \subseteq Sample
    BY <1>1 DEF SettledRows, Settled
  <2>3. IsFiniteSet(SettledRows(v)') /\ IsFiniteSet(Settled(v, t)')
    BY <2>1, <2>2, FS_Subset
  <2> QED
    BY <2>3, FS_CardinalityType
<1>3. SettledRows(v) \subseteq SettledRows(v)'
  BY <1>1 DEF SettledRows, Sample, Terminal
<1>4. sentCount'[v] <= Cardinality(SettledRows(v)')
  <2>1. IsFiniteSet(SettledRows(v)')
    <3>1. IsFiniteSet(Sample)
      BY ABAssumption, FS_Subset DEF Sample
    <3>2. SettledRows(v)' \subseteq Sample
      BY <1>1 DEF SettledRows
    <3> QED
      BY <3>1, <3>2, FS_Subset
  <2>2. /\ Cardinality(SettledRows(v)) <= Cardinality(SettledRows(v)')
        /\ Cardinality(SettledRows(v)) \in Nat /\ Cardinality(SettledRows(v)') \in Nat
    BY <1>3, <2>1, FS_Subset, FS_CardinalityType
  <2> QED
    BY <2>2 DEF MetricInv, ABTypeOK
<1>5. ASSUME NEW t \in Txns PROVE count'[t][v] <= Cardinality(Settled(v, t)')
  <2>1. CASE count'[t] = Zero
    BY <1>2, <2>1 DEF Zero
  <2>2. CASE count'[t] # Zero
    <3>1. Settled(v, t) \subseteq Settled(v, t)'
      BY <1>1, <2>2 DEF Settled, Sample
    <3>2. /\ Cardinality(Settled(v, t)) <= Cardinality(Settled(v, t)')
          /\ Cardinality(Settled(v, t)) \in Nat /\ Cardinality(Settled(v, t)') \in Nat
      BY <1>2, <3>1, FS_Subset, FS_CardinalityType
    <3> QED
      BY <2>2, <3>2 DEF MetricInv, ABTypeOK
  <2> QED
    BY <2>1, <2>2
<1> QED
  BY <1>4, <1>5

\* A step of transaction t that commits nothing and counts nothing.
LEMMA OwnMetric ==
    ASSUME ABTypeOK, ABTypeOK', MetricInv, NEW t \in Txns,
           UNCHANGED <<bucket, row, sentCount, count>>,
           \A r \in Recipients : mailed[r] \subseteq mailed'[r],
           \A u \in Txns \ {t} : held'[u] = held[u] /\ draft'[u] = draft[u],
           \A r \in Recipients : Terminal(View(t, r)) => Terminal(View(t, r)')
    PROVE  MetricInv'
<1>1. \A u \in Txns \ {t} : \A r \in Recipients : Terminal(View(u, r)) => Terminal(View(u, r)')
  BY DEF View, Terminal
<1>2. \A r \in Recipients : Terminal(row[r]) => Terminal(row'[r])
  BY DEF Terminal
<1>3. \A u \in Txns : \A r \in Recipients : Terminal(View(u, r)) => Terminal(View(u, r)')
  BY <1>1
<1> QED
  BY <1>2, <1>3, KeepsMetric

\* Recipient r of batch w is settled, or stays pending.
LEMMA SettleMetric ==
    ASSUME ABShape, ABTypeOK', MetricInv, NEW w \in Txns, NEW r \in todo[w], NEW z, NEW vs,
           Settle(w, r, z, vs), UNCHANGED <<bucket, row, sentCount, count, held>>,
           \A q \in Recipients : mailed[q] \subseteq mailed'[q]
    PROVE  MetricInv'
<1>1. /\ r \in held[w] /\ r \in Recipients /\ draft[w][r].status = "pending"
  BY DEF ABShape, WorkLists, ABTypeOK
<1>2. /\ \A u \in Txns \ {w} : draft'[u] = draft[u]
      /\ \A q \in Recipients \ {r} : draft'[w][q] = draft[w][q]
  BY DEF Settle, ABShape, ABTypeOK
<1>3. ~Terminal(View(w, r))
  BY <1>1 DEF View, Terminal
<1>4. \A q \in Recipients : Terminal(View(w, q)) => Terminal(View(w, q)')
  BY <1>2, <1>3 DEF View, Terminal
<1> QED
  BY <1>2, <1>4, OwnMetric DEF ABShape

\* The batch reads counters that the finished recipients of the database justify: none of
\* them is among those it has locked.
LEMMA ReadTestMetric ==
    ASSUME ABShape, ABTypeOK', LockInv, MetricInv, NEW w \in Batches, ReadTest(w)
    PROVE  MetricInv'
<1> USE ConstantsAreTyped
<1>1. /\ count' = [count EXCEPT ![w] = sentCount]
      /\ UNCHANGED <<bucket, row, sentCount, mailed, held, draft>>
  BY DEF ReadTest, dataVars, lockVars, worldVars
<1>2. /\ count'[w] = sentCount /\ \A u \in Txns \ {w} : count'[u] = count[u]
  BY <1>1 DEF ABShape, ABTypeOK
<1>3. \A v \in Variants : /\ SettledRows(v)' = SettledRows(v)
                          /\ \A u \in Txns : Settled(v, u)' = Settled(v, u)
  BY <1>1 DEF SettledRows, Settled, Sample, View, Terminal
<1>4. ASSUME NEW v \in Variants PROVE sentCount[v] <= Cardinality(Settled(v, w))
  <2>1. \A r \in Recipients : Terminal(row[r]) => Terminal(View(w, r))
    BY DEF LockInv, LockedRows, View, Waiting, Terminal
  <2>2. SettledRows(v) \subseteq Settled(v, w)
    BY <2>1 DEF SettledRows, Settled, Sample
  <2>3. /\ Cardinality(SettledRows(v)) <= Cardinality(Settled(v, w))
        /\ Cardinality(SettledRows(v)) \in Nat /\ Cardinality(Settled(v, w)) \in Nat
    BY <2>2, MetricSets, FS_Subset
  <2> QED
    BY <2>3 DEF MetricInv, ABShape, ABTypeOK
<1>5. ASSUME NEW v \in Variants
      PROVE  /\ sentCount'[v] <= Cardinality(SettledRows(v)')
             /\ \A u \in Txns : count'[u][v] <= Cardinality(Settled(v, u)')
  BY <1>1, <1>2, <1>3, <1>4 DEF MetricInv
<1> QED
  BY <1>5 DEF MetricInv

\* One more mail is counted for one more recipient who is finished.
LEMMA RecordSentMetric ==
    ASSUME ABShape, ABTypeOK', MailInv, MetricInv, NEW w \in Batches, RecordSent(w)
    PROVE  MetricInv'
<1> USE ConstantsAreTyped DEF ABShape
<1>1. PICK r \in accepted[w] \cap todo[w] :
        LET x == draft[w][r] IN
        /\ Settle(w, r, [x EXCEPT !.status = "sent", !.tries = @ + 1], Counted(x))
        /\ count' = [count EXCEPT ![w] = [v \in Variants |->
                        IF v \in Counted(x) THEN @[v] + 1 ELSE @[v]]]
  BY DEF RecordSent
<1>2. UNCHANGED <<bucket, row, sentCount, mailed, held>>
  BY DEF RecordSent, dataVars, worldVars
<1> DEFINE x == draft[w][r]
           y == [x EXCEPT !.status = "sent", !.tries = @ + 1]
<1>3. /\ r \in Recipients /\ r \in held[w] /\ x \in Row /\ x.status = "pending"
      /\ SoundRow(r, x) /\ x.variant \in mailed[r]
  BY <1>1 DEF ABTypeOK, WorkLists, SoundRows, MailInv, AcceptedMails
<1>4. y.status = "sent"
  BY <1>3 DEF Row
<1>5. /\ draft'[w][r] = y /\ \A q \in Recipients \ {r} : draft'[w][q] = draft[w][q]
      /\ \A u \in Txns \ {w} : draft'[u] = draft[u]
  BY <1>1, <1>3 DEF Settle, ABTypeOK
<1>6. /\ \A u \in Txns \ {w} : count'[u] = count[u]
      /\ \A v \in Variants : count'[w][v] = IF v \in Counted(x) THEN count[w][v] + 1
                                           ELSE count[w][v]
  BY <1>1 DEF ABTypeOK
<1>7. \A v \in Counted(x) : r \in Sample /\ v \in mailed[r]
  BY <1>3 DEF Counted, SoundRow
<1> HIDE DEF x, y
<1>8. /\ View(w, r)' = y /\ View(w, r) = x
      /\ \A q \in Recipients \ {r} : View(w, q)' = View(w, q)
      /\ \A u \in Txns \ {w} : \A q \in Recipients : View(u, q)' = View(u, q)
  BY <1>2, <1>3, <1>5 DEF View, x
<1>9. ASSUME NEW v \in Variants
      PROVE  /\ SettledRows(v)' = SettledRows(v)
             /\ \A u \in Txns \ {w} : Settled(v, u)' = Settled(v, u)
             /\ Settled(v, w) \subseteq Settled(v, w)' /\ Settled(v, w)' \subseteq Sample
             /\ v \in Counted(x) => Settled(v, w)' = Settled(v, w) \cup {r}
             /\ r \notin Settled(v, w)
  <2>1. ~Terminal(View(w, r)) /\ Terminal(View(w, r)')
    BY <1>3, <1>4, <1>8 DEF Terminal
  <2>2. \A q \in Recipients : q # r => (Terminal(View(w, q)') <=> Terminal(View(w, q)))
    BY <1>8 DEF Terminal
  <2>3. SettledRows(v)' = SettledRows(v)
    BY <1>2 DEF SettledRows, Sample, Terminal
  <2>4. \A u \in Txns \ {w} : Settled(v, u)' = Settled(v, u)
    BY <1>2, <1>8 DEF Settled, Sample, Terminal
  <2>5. \A q \in Sample' : q \in Recipients /\ q \in Sample
    BY <1>2 DEF Sample
  <2>6. Settled(v, w) \subseteq Settled(v, w)' /\ Settled(v, w)' \subseteq Sample
    BY <1>2, <2>1, <2>2, <2>5 DEF Settled, Sample
  <2>7. r \notin Settled(v, w)
    BY <2>1 DEF Settled
  <2>8. ASSUME v \in Counted(x) PROVE Settled(v, w)' = Settled(v, w) \cup {r}
    <3>1. r \in Settled(v, w)'
      BY <1>2, <1>7, <2>1, <2>8 DEF Settled, Sample
    <3>2. \A q : q # r => (q \in Settled(v, w)' <=> q \in Settled(v, w))
      BY <1>2, <2>2, <2>5 DEF Settled, Sample
    <3> QED
      BY <3>1, <3>2
  <2> QED
    BY <2>3, <2>4, <2>6, <2>7, <2>8
<1>10. ASSUME NEW v \in Variants PROVE count'[w][v] <= Cardinality(Settled(v, w)')
  <2>1. /\ IsFiniteSet(Settled(v, w)) /\ Cardinality(Settled(v, w)) \in Nat
        /\ IsFiniteSet(Settled(v, w)')
    BY <1>9, MetricSets, FS_Subset
  <2>2. count[w][v] <= Cardinality(Settled(v, w)) /\ count[w][v] \in Nat
    BY DEF MetricInv, ABTypeOK
  <2>3. CASE v \in Counted(x)
    <3>1. Cardinality(Settled(v, w)') = Cardinality(Settled(v, w)) + 1
      BY <1>9, <2>1, <2>3, FS_AddElement
    <3> QED
      BY <1>6, <2>1, <2>2, <2>3, <3>1
  <2>4. CASE v \notin Counted(x)
    <3>1. /\ Cardinality(Settled(v, w)) <= Cardinality(Settled(v, w)')
          /\ Cardinality(Settled(v, w)') \in Nat
      BY <1>9, <2>1, FS_Subset, FS_CardinalityType
    <3> QED
      BY <1>6, <2>1, <2>2, <2>4, <3>1
  <2> QED
    BY <2>3, <2>4
<1>11. ASSUME NEW v \in Variants
       PROVE  /\ sentCount'[v] <= Cardinality(SettledRows(v)')
              /\ \A u \in Txns : count'[u][v] <= Cardinality(Settled(v, u)')
  BY <1>2, <1>6, <1>9, <1>10 DEF MetricInv
<1> QED
  BY <1>11 DEF MetricInv

\* The end of transaction t, and what it is for the counters of the others.
LEMMA EndViews ==
    ASSUME ABShape, LockInv, NEW t \in Txns, EndTxn(t), UNCHANGED bucket,
           \A r \in Recipients \ held[t] : row'[r] = row[r]
    PROVE  /\ count'[t] = Zero
           /\ \A u \in Txns \ {t} :
                /\ count'[u] = count[u]
                /\ \A r \in Recipients : Terminal(View(u, r)) => Terminal(View(u, r)')
           /\ \A r \in Recipients : Terminal(row[r]) => Terminal(row'[r])
<1>1. \A u \in Txns : /\ count'[u] = IF u = t THEN Zero ELSE count[u]
                      /\ u # t => held'[u] = held[u] /\ draft'[u] = draft[u]
  BY DEF EndTxn, ABShape, ABTypeOK
<1>2. \A r \in held[t] : ~Terminal(row[r]) /\ \A u \in Txns \ {t} : r \notin held[u]
  BY DEF LockInv, LockedRows, Waiting, Terminal
<1>3. ASSUME NEW u \in Txns \ {t}, NEW r \in Recipients, Terminal(View(u, r))
      PROVE  Terminal(View(u, r)')
  BY <1>1, <1>2, <1>3 DEF View, Terminal
<1>4. \A r \in Recipients : Terminal(row[r]) => Terminal(row'[r])
  BY <1>2 DEF Terminal
<1> QED
  BY <1>1, <1>3, <1>4

\* What a batch commits are counters its own recipients justify.
LEMMA CommitMetric ==
    ASSUME ABShape, ABTypeOK', LockInv, MetricInv, NEW t \in Txns, Commit(t)
    PROVE  MetricInv'
<1>1. /\ row' = [r \in Recipients |-> View(t, r)]
      /\ sentCount' = [v \in Variants |-> IF v \in bumped[t] THEN count[t][v] ELSE sentCount[v]]
      /\ EndTxn(t) /\ UNCHANGED <<bucket, mailed>>
  BY DEF Commit
<1>2. \A r \in Recipients \ held[t] : row'[r] = row[r]
  BY <1>1 DEF View
<1>3. /\ count'[t] = Zero
      /\ \A u \in Txns \ {t} :
           /\ count'[u] = count[u]
           /\ \A r \in Recipients : Terminal(View(u, r)) => Terminal(View(u, r)')
      /\ \A r \in Recipients : Terminal(row[r]) => Terminal(row'[r])
  BY <1>1, <1>2, EndViews
<1>4. Sample' = Sample
  BY <1>1 DEF Sample
<1>5. ASSUME NEW v \in Variants PROVE sentCount'[v] <= Cardinality(SettledRows(v)')
  <2>1. SettledRows(v)' = Settled(v, t)
    BY <1>1, <1>4 DEF SettledRows, Settled, Sample, Terminal
  <2>2. SettledRows(v) \subseteq SettledRows(v)'
    BY <1>1, <1>3, <1>4 DEF SettledRows, Sample
  <2>3. /\ Cardinality(SettledRows(v)) <= Cardinality(Settled(v, t))
        /\ Cardinality(SettledRows(v)) \in Nat /\ Cardinality(Settled(v, t)) \in Nat
    BY <2>1, <2>2, MetricSets, FS_Subset
  <2>4. /\ sentCount[v] <= Cardinality(SettledRows(v)) /\ sentCount[v] \in Nat
        /\ count[t][v] <= Cardinality(Settled(v, t))
    BY DEF MetricInv, ABShape, ABTypeOK
  <2>5. sentCount'[v] <= Cardinality(Settled(v, t))
    BY <1>1, <2>3, <2>4
  <2> QED
    BY <2>1, <2>5
<1>6. ASSUME NEW v \in Variants, NEW u \in Txns PROVE count'[u][v] <= Cardinality(Settled(v, u)')
  <2>1. Settled(v, u)' \subseteq Sample
    BY <1>4 DEF Settled
  <2>2. IsFiniteSet(Settled(v, u)') /\ Cardinality(Settled(v, u)') \in Nat
    BY <2>1, MetricSets, FS_Subset, FS_CardinalityType
  <2>3. CASE u = t
    BY <1>3, <2>2, <2>3 DEF Zero
  <2>4. CASE u # t
    <3>1. Settled(v, u) \subseteq Settled(v, u)'
      BY <1>1, <1>3, <1>4, <2>4 DEF Settled, Sample
    <3>2. /\ Cardinality(Settled(v, u)) <= Cardinality(Settled(v, u)')
          /\ Cardinality(Settled(v, u)) \in Nat
      BY <2>2, <3>1, MetricSets, FS_Subset
    <3>3. /\ count'[u][v] = count[u][v] /\ count[u][v] \in Nat
          /\ count[u][v] <= Cardinality(Settled(v, u))
      BY <1>3, <2>4 DEF MetricInv, ABShape, ABTypeOK
    <3> QED
      BY <2>2, <3>2, <3>3
  <2> QED
    BY <2>3, <2>4
<1> QED
  BY <1>5, <1>6 DEF MetricInv

LEMMA EndsMetric ==
    ASSUME ABShape, ABTypeOK', LockInv, MetricInv, NEW t \in Txns,
           Rollback(t) \/ (t \in Launchers /\ LaunchCampaign(t))
    PROVE  MetricInv'
<1>1. CASE Rollback(t)
  <2>1. EndTxn(t) /\ UNCHANGED <<bucket, row, sentCount, mailed>>
    BY <1>1 DEF Rollback, dataVars
  <2>2. /\ count'[t] = Zero
        /\ \A u \in Txns \ {t} :
             /\ count'[u] = count[u]
             /\ \A r \in Recipients : Terminal(View(u, r)) => Terminal(View(u, r)')
        /\ \A r \in Recipients : Terminal(row[r]) => Terminal(row'[r])
    BY <2>1, EndViews
  <2> QED
    BY <2>1, <2>2, KeepsMetric DEF ABShape
<1>2. CASE t \in Launchers /\ LaunchCampaign(t)
  <2>1. /\ pc[t] = "launch" /\ campaign = "ready" /\ EndTxn(t)
        /\ UNCHANGED <<bucket, sentCount, mailed>>
    BY <1>2 DEF LaunchCampaign, LockInv, NothingBeforeLaunch, worldVars
  <2>2. /\ \A r \in Recipients : row[r] = NoRow
        /\ \A u \in Txns : held[u] = {}
    BY <2>1 DEF LockInv, NothingBeforeLaunch
  <2>3. \A u \in Txns : \A r \in Recipients : ~Terminal(View(u, r)) /\ ~Terminal(row[r])
    BY <2>2 DEF View, NoRow, Terminal
  <2>4. \A u \in Txns : count'[u] = IF u = t THEN Zero ELSE count[u]
    BY <2>1 DEF EndTxn, ABShape, ABTypeOK
  <2>5. \A u \in Txns : count'[u] = Zero \/ count'[u] = count[u]
    BY <2>4
  <2>6. \A r \in Recipients : mailed[r] \subseteq mailed'[r]
    BY <2>1
  <2>7. \A u \in Txns : \A r \in Recipients : Terminal(View(u, r)) => Terminal(View(u, r)')
    BY <2>3
  <2> QED
    BY <2>1, <2>3, <2>5, <2>6, <2>7, KeepsMetric DEF ABShape
<1> QED
  BY <1>1, <1>2

LEMMA StepMetric ==
    ASSUME LaunchedOnce
    PROVE  ABShape /\ ABShape' /\ LockInv /\ MailInv /\ MetricInv /\ [ABNext]_abVars => MetricInv'
<1> SUFFICES ASSUME ABShape, ABTypeOK', LockInv, MailInv, MetricInv, [ABNext]_abVars
             PROVE  MetricInv'
  BY DEF ABShape
<1> USE ConstantsAreTyped
<1>0. /\ ABTypeOK /\ held \in [Txns -> SUBSET Recipients] /\ draft \in [Txns -> [Recipients -> Row]]
      /\ mailed \in [Recipients -> SUBSET (Variants \cup {NoVariant})]
  BY DEF ABShape, ABTypeOK
<1>1. ASSUME NEW t \in Txns, UNCHANGED <<bucket, row, sentCount, count, mailed, held, draft>>
      PROVE  MetricInv'
  <2>1. \A r \in Recipients : mailed[r] \subseteq mailed'[r]
    BY <1>1
  <2>2. \A r \in Recipients : Terminal(View(t, r)) => Terminal(View(t, r)')
    BY <1>1 DEF View, Terminal
  <2> QED
    BY <1>0, <1>1, <2>1, <2>2, OwnMetric
<1>2. ASSUME NEW l \in Launchers, LoadLaunch(l) PROVE MetricInv'
  <2>1. /\ held[l] = {} /\ draft' = [draft EXCEPT ![l] = Snapshot(test.winner)]
        /\ UNCHANGED <<bucket, row, sentCount, count, mailed, held>>
    BY <1>2 DEF LoadLaunch, LockInv, LockedRows, dataVars, lockVars, worldVars
  <2>2. \A u \in Txns \ {l} : held'[u] = held[u] /\ draft'[u] = draft[u]
    BY <1>0, <2>1
  <2>3. \A r \in Recipients : Terminal(View(l, r)) => Terminal(View(l, r)')
    BY <2>1 DEF View, Terminal
  <2> QED
    BY <1>0, <2>1, <2>2, <2>3, OwnMetric
<1>3. ASSUME NEW w \in Batches, Claim(w) PROVE MetricInv'
  <2>1. /\ held[w] = {} /\ UNCHANGED <<bucket, row, sentCount, count, mailed>>
        /\ \E S \in SUBSET Recipients :
            /\ held' = [held EXCEPT ![w] = S]
            /\ draft' = [draft EXCEPT ![w] = [r \in Recipients |->
                                                IF r \in S THEN row[r] ELSE NoRow]]
    BY <1>3 DEF Claim, ListDueRecipients, LockInv, LockedRows, dataVars, worldVars
  <2>2. \A u \in Txns \ {w} : held'[u] = held[u] /\ draft'[u] = draft[u]
    BY <1>0, <2>1
  <2>3. \A r \in Recipients : r \in held'[w] => draft'[w][r] = row[r]
    BY <1>0, <2>1
  <2>4. \A r \in Recipients : Terminal(View(w, r)) => Terminal(View(w, r)')
    BY <2>1, <2>3 DEF View, Terminal
  <2> QED
    BY <1>0, <2>1, <2>2, <2>4, OwnMetric
<1>4. ASSUME NEW t \in Txns, ReleaseStep(t) PROVE MetricInv'
  <2>1. CASE LockTest(t)
    BY <1>1, <2>1 DEF LockTest, dataVars, worldVars
  <2>2. ASSUME NEW r \in Recipients, LockForRelease(t, r) PROVE MetricInv'
    <3>1. /\ r \notin held[t] /\ held' = [held EXCEPT ![t] = held[t] \cup {r}]
          /\ draft' = [draft EXCEPT ![t][r] = row[r]]
          /\ UNCHANGED <<bucket, row, sentCount, count, mailed>>
      BY <1>0, <2>2 DEF LockForRelease, dataVars, worldVars
    <3>2. \A u \in Txns \ {t} : held'[u] = held[u] /\ draft'[u] = draft[u]
      BY <1>0, <3>1
    <3>3. /\ held'[t] = held[t] \cup {r} /\ draft'[t][r] = row[r]
          /\ \A q \in Recipients \ {r} : draft'[t][q] = draft[t][q]
      BY <1>0, <3>1
    <3>4. \A q \in Recipients : Terminal(View(t, q)) => Terminal(View(t, q)')
      BY <3>1, <3>3 DEF View, Terminal
    <3> QED
      BY <1>0, <3>1, <3>2, <3>4, OwnMetric
  <2>3. CASE AssignPending(t)
    <3>1. UNCHANGED <<bucket, row, sentCount, count, mailed, held>>
      BY <2>3 DEF AssignPending, dataVars, lockVars, worldVars
    <3>2. /\ \A u \in Txns \ {t} : held'[u] = held[u] /\ draft'[u] = draft[u]
          /\ \A r \in Recipients : Terminal(draft[t][r]) => draft'[t][r] = draft[t][r]
      BY <1>0, <2>3, <3>1 DEF AssignPending, Terminal, Waiting
    <3>3. \A r \in Recipients : Terminal(View(t, r)) => Terminal(View(t, r)')
      BY <3>1, <3>2 DEF View, Terminal
    <3> QED
      BY <1>0, <3>1, <3>2, <3>3, OwnMetric
  <2> QED
    BY <1>4, <2>1, <2>2, <2>3, CommitMetric DEF ReleaseStep
<1>5. ASSUME NEW w \in Batches, BatchStep(w) PROVE MetricInv'
  <2>1. CASE FlushVariants(w)
    BY <1>1, <2>1 DEF FlushVariants, dataVars, txnVars, worldVars
  <2>2. ASSUME NEW r \in Recipients, SkipRecipient(w, r) PROVE MetricInv'
    BY <2>2, SettleMetric
    DEF SkipRecipient, NextRecipient, dataVars, lockVars, worldVars
  <2>3. ASSUME NEW r \in Recipients, CallAccepted(w, r) PROVE MetricInv'
    <3>1. /\ mailed' = [mailed EXCEPT ![r] = @ \cup {draft[w][r].variant}]
          /\ UNCHANGED <<bucket, row, sentCount, count, held, draft>>
      BY <2>3 DEF CallAccepted, dataVars, lockVars
    <3>2. \A q \in Recipients : mailed[q] \subseteq mailed'[q]
      BY <1>0, <3>1
    <3>3. \A q \in Recipients : Terminal(View(w, q)) => Terminal(View(w, q)')
      BY <3>1 DEF View, Terminal
    <3> QED
      BY <1>0, <3>1, <3>2, <3>3, OwnMetric
  <2>4. ASSUME NEW r \in Recipients, CallFailed(w, r) PROVE MetricInv'
    <3>1. /\ r \in todo[w] /\ UNCHANGED <<bucket, row, sentCount, count, held>>
          /\ \E z, vs : Settle(w, r, z, vs)
          /\ mailed' = mailed \/ \E v : mailed' = [mailed EXCEPT ![r] = @ \cup {v}]
      BY <2>4 DEF CallFailed, NextRecipient, dataVars, lockVars
    <3>2. \A q \in Recipients : mailed[q] \subseteq mailed'[q]
      BY <1>0, <3>1
    <3> QED
      BY <3>1, <3>2, SettleMetric
  <2>5. CASE RefreshCounters(w)
    <3>1. UNCHANGED <<bucket, row, sentCount, count, mailed, held, draft>>
      BY <2>5 DEF RefreshCounters, dataVars, lockVars, worldVars
    <3> QED
      BY <1>1, <3>1
  <2>6. CASE FinishTest(w)
    BY <1>1, <2>6 DEF FinishTest, dataVars, worldVars
  <2> QED
    BY <1>4, <1>5, <2>1, <2>2, <2>3, <2>4, <2>5, <2>6, ReadTestMetric, RecordSentMetric
    DEF BatchStep
<1>6. ASSUME NEW o \in Operators, NEW v \in Variants, ChooseManually(o, v) PROVE MetricInv'
  BY <1>1, <1>6 DEF ChooseManually, dataVars, lockVars, worldVars
<1>7. ASSUME NEW e \in Evaluators, EvaluateWinner(e) PROVE MetricInv'
  <2>1. UNCHANGED <<bucket, row, sentCount, count, mailed, held, draft>>
    BY <1>7 DEF EvaluateWinner, dataVars, lockVars, worldVars
  <2> QED
    BY <1>1, <2>1
<1>8. CASE TestElapses \/ UNCHANGED abVars
  <2>1. UNCHANGED <<bucket, row, sentCount, count, mailed, held, draft>>
    BY <1>8 DEF TestElapses, abVars, dataVars, txnVars, lockVars, worldVars
  <2>2. \A t \in Txns : \A r \in Recipients : Terminal(View(t, r)) => Terminal(View(t, r)')
    BY <2>1 DEF View, Terminal
  <2> QED
    BY <1>0, <2>1, <2>2, KeepsMetric
<1>9. ASSUME NEW l \in Launchers, LaunchCampaign(l) PROVE MetricInv'
  BY <1>9, EndsMetric
<1>10. ASSUME NEW t \in Txns, Rollback(t) PROVE MetricInv'
  BY <1>10, EndsMetric
<1> QED
  BY <1>2, <1>3, <1>4, <1>5, <1>6, <1>7, <1>8, <1>9, <1>10 DEF ABNext

\* The metric that decides the test never counts more mails of a candidate than recipients
\* of the sample were mailed it, although a batch reads the counters once and writes them
\* back absolute (_process_single_recipient, _refresh_counters).
THEOREM MetricCountsTheSample ==
    ASSUME LaunchedOnce
    PROVE  ABSpec => []MetricsOfSample
<1>1. ABTypeOK /\ MetricInv => MetricsOfSample
  <2> SUFFICES ASSUME ABTypeOK, MetricInv, NEW v \in Variants
               PROVE  sentCount[v] <= Cardinality({r \in Sample : v \in mailed[r]})
    BY DEF MetricsOfSample
  <2> DEFINE M == {r \in Sample : v \in mailed[r]}
  <2>1. SettledRows(v) \subseteq M /\ M \subseteq Sample
    BY DEF SettledRows
  <2> HIDE DEF M
  <2>2. /\ IsFiniteSet(M) /\ Cardinality(SettledRows(v)) <= Cardinality(M)
        /\ Cardinality(SettledRows(v)) \in Nat /\ Cardinality(M) \in Nat
    BY <2>1, MetricSets, FS_Subset, FS_CardinalityType
  <2>3. sentCount[v] <= Cardinality(SettledRows(v)) /\ sentCount[v] \in Nat
    BY DEF MetricInv, ABTypeOK
  <2>4. sentCount[v] <= Cardinality(M)
    BY <2>2, <2>3
  <2> QED
    BY <2>4 DEF M
<1>2. ABShape => ABTypeOK
  BY DEF ABShape
<1>3. ABShape /\ LockInv /\ MailInv /\ MetricInv /\ [ABNext]_abVars
        => ABShape' /\ LockInv' /\ MailInv' /\ MetricInv'
  BY StepShape, StepLocks, StepMails, StepMetric
<1> QED
  BY <1>1, <1>2, <1>3, StartShape, StartLocks, StartMails, StartMetric, PTL DEF ABSpec

=============================================================================
