----------------------- MODULE CampaignContent_proofs -----------------------
(***************************************************************************)
(* Proofs about a campaign's life and content, for any number of contacts, *)
(* lists, templates and transactions.                                      *)
(*                                                                         *)
(* First CampaignLifecycle alone: types are kept whether transactions      *)
(* overlap or not; what the campaign promises about its audience is proved *)
(* where each operation has the campaign for itself, which is where it     *)
(* holds.  Then the composition: it implements CampaignLifecycle, so all   *)
(* of this holds of it, too; what it adds is about the template a campaign *)
(* depends on and the text of its mails.                                   *)
(***************************************************************************)
EXTENDS CampaignContent, TLAPS

-----------------------------------------------------------------------------
(* Operations *)

\* Some contact list exists, so an idle transaction is well formed.
LEMMA NoJobIsTyped ==
    ASSUME NEW l \in Lists
    PROVE  NoJob \in [op : Ops \cup {"idle"}, seen : Campaign, new : Campaign,
                      audience : SUBSET People]
BY DEF NoJob, Created, Campaign, Statuses

\* A campaign, or one in the middle of its launch.
Launching ==
    [status : Statuses \cup {"launching"}, list : Lists, counted : BOOLEAN,
     launched : BOOLEAN, completed : BOOLEAN, cancelled : BOOLEAN, deleted : BOOLEAN]

LEMMA CampaignIsLaunching ==
    /\ Campaign \subseteq Launching
    /\ \A c \in Launching : c.status \in Statuses => c \in Campaign
BY DEF Campaign, Launching

\* What a status change does to each column; neither list nor count is touched.
LEMMA MoveMoves ==
    ASSUME NEW c \in Launching, NEW to \in Statuses \cup {"launching"}
    PROVE  /\ Move(c, to) \in Launching
           /\ Move(c, to).status = to
           /\ Move(c, to).list = c.list
           /\ Move(c, to).counted = c.counted
           /\ c.status # to =>
                 /\ Move(c, to).launched <=> (c.launched \/ to = "running")
                 /\ Move(c, to).completed <=> (c.completed \/ to = "completed")
                 /\ Move(c, to).cancelled <=> (c.cancelled \/ to = "cancelled")
                 /\ Move(c, to).deleted <=> (c.deleted /\ to # "archived")
           /\ c.status = to => Move(c, to) = c
<1>1. CASE c.status = to
  BY <1>1 DEF Move
<1>2. CASE c.status # to
  <2> DEFINE m == [c EXCEPT !.status = to,
                   !.launched = @ \/ to = "running",
                   !.completed = @ \/ to = "completed",
                   !.cancelled = @ \/ to = "cancelled",
                   !.deleted = @ /\ to # "archived"]
  <2>1. Move(c, to) = m
    BY <1>2 DEF Move
  <2>2. /\ m.status = to /\ m.list = c.list /\ m.counted = c.counted
        /\ m.launched = (c.launched \/ to = "running")
        /\ m.completed = (c.completed \/ to = "completed")
        /\ m.cancelled = (c.cancelled \/ to = "cancelled")
        /\ m.deleted = (c.deleted /\ to # "archived")
    BY DEF Launching
  <2>3. m \in Launching
    BY DEF Launching
  <2> QED
    BY <2>1, <2>2, <2>3, <1>2
<1> QED
  BY <1>1, <1>2

\* The checks at the head of an operation, without the look at the audience, which may
\* have changed since.
Checked(op, c) ==
    /\ ~c.deleted
    /\ op \in {"edit", "limits"} => c.status \in {"draft", "ready"}
    /\ op \in {"schedule", "launch"} => c.status \in {"draft", "ready", "scheduled"}
    /\ op = "process" => c.status \in {"running", "scheduled"}
    /\ op = "pause" => c.status = "running"
    /\ op = "resume" => c.status = "paused"
    /\ op = "cancel" => c.status \notin {"completed", "cancelled", "archived"}
    /\ op = "archive" => c.status \notin {"running", "paused"}
    /\ op = "restore" => c.status = "archived"
    /\ op = "delete" => c.status # "running"

LEMMA MayRunIsChecked ==
    ASSUME NEW c \in Campaign, NEW op \in Ops, MayRun(op, c)
    PROVE  Checked(op, c)
<1>1. op \in {"edit", "limits"} => c.status \in {"draft", "ready"}
  BY DEF MayRun, Editable, Campaign, Statuses
<1>2. ASSUME op = "schedule" PROVE c.status \in {"draft", "ready", "scheduled"}
  <2>1. MayMove(AfterReview(c), "scheduled")
    BY <1>2 DEF MayRun
  <2>2. CASE c.status = "draft"
    BY <2>2
  <2>3. CASE c.status # "draft"
    <3>1. AfterReview(c) = c
      BY <2>3 DEF AfterReview, Campaign, Statuses
    <3>2. c.status = "scheduled" \/ "scheduled" \in Allowed(c.status)
      BY <2>1, <3>1 DEF MayMove
    <3> QED
      BY <3>2 DEF Allowed, AllowedIfPaused, Campaign, Statuses
  <2> QED
    BY <2>2, <2>3
<1>3. op = "launch" => c.status \in {"draft", "ready", "scheduled"}
  BY DEF MayRun, Editable, Campaign, Statuses
<1>4. ASSUME op = "archive" PROVE c.status \notin {"running", "paused"}
  BY <1>4 DEF MayRun, MayMove, Allowed, AllowedIfPaused
<1>5. /\ op = "process" => c.status \in {"running", "scheduled"}
      /\ op = "pause" => c.status = "running"
      /\ op = "resume" => c.status = "paused"
      /\ op = "restore" => c.status = "archived"
      /\ op = "delete" => c.status # "running"
  BY DEF MayRun
<1>6. op = "cancel" => c.status \notin {"completed", "cancelled", "archived"}
  BY DEF MayRun
<1>7. ~c.deleted
  BY DEF MayRun
<1> QED
  BY <1>1, <1>2, <1>3, <1>4, <1>5, <1>6, <1>7 DEF Checked

-----------------------------------------------------------------------------
(* What the timestamps say of the status *)

\* A launched campaign is past its drafts for good; what ended stays ended, and an
\* archived campaign that was launched has ended.
StampsTellStatus(c) ==
    /\ c.launched => c.status \in {"running", "paused", "completed", "cancelled", "archived"}
    /\ c.status \in {"running", "paused", "completed"} => c.launched
    /\ c.launched /\ c.status = "archived" => c.completed \/ c.cancelled
    /\ c.completed => c.launched /\ c.status \in {"completed", "archived"}
    /\ c.cancelled => c.status \in {"cancelled", "archived"}
    /\ c.status = "completed" => c.completed
    /\ c.status = "cancelled" => c.cancelled
    /\ ~(c.completed /\ c.cancelled)

LEMMA ReviewKeepsStamps ==
    ASSUME NEW c \in Campaign, StampsTellStatus(c)
    PROVE  /\ AfterReview(c) \in Campaign
           /\ StampsTellStatus(AfterReview(c))
           /\ AfterReview(c).list = c.list
           /\ AfterReview(c).status \in {c.status, "ready"}
           /\ c.status = "draft" => AfterReview(c).status = "ready"
           /\ AfterReview(c).deleted <=> c.deleted
           /\ AfterReview(c).launched <=> c.launched
           /\ AfterReview(c).cancelled <=> c.cancelled
           /\ AfterReview(c).completed <=> c.completed
<1>1. CASE c.status = "draft"
  <2>1. AfterReview(c) = Move(c, "ready")
    BY <1>1 DEF AfterReview
  <2>2. c \in Launching
    BY CampaignIsLaunching
  <2>3. /\ Move(c, "ready") \in Launching
        /\ Move(c, "ready").status = "ready"
        /\ Move(c, "ready").list = c.list
        /\ Move(c, "ready").launched <=> c.launched
        /\ Move(c, "ready").completed <=> c.completed
        /\ Move(c, "ready").cancelled <=> c.cancelled
        /\ Move(c, "ready").deleted <=> c.deleted
    BY <1>1, <2>2, MoveMoves DEF Statuses, Launching
  <2>4. Move(c, "ready") \in Campaign
    BY <2>3, CampaignIsLaunching DEF Statuses
  <2> QED
    BY <1>1, <2>1, <2>3, <2>4 DEF StampsTellStatus
<1>2. CASE c.status # "draft"
  BY <1>2 DEF AfterReview, Campaign, Statuses
<1> QED
  BY <1>1, <1>2

LEMMA MoveKeepsStamps ==
    ASSUME NEW c \in Campaign, StampsTellStatus(c), NEW to \in Statuses,
           \/ c.status = to
           \/ c.status \in {"ready", "scheduled"} /\ to \in {"draft", "scheduled", "running"}
           \/ c.status \in {"draft", "ready", "scheduled"} /\ to \in {"archived", "cancelled"}
           \/ c.status = "running" /\ to \in {"paused", "completed", "cancelled"}
           \/ c.status = "paused" /\ to \in {"running", "cancelled"}
           \/ c.status \in {"completed", "cancelled"} /\ to = "archived"
    PROVE  Move(c, to) \in Campaign /\ StampsTellStatus(Move(c, to))
<1>1. CASE c.status = to
  BY <1>1 DEF Move
<1>2. CASE c.status # to
  <2>1. c \in Launching
    BY CampaignIsLaunching
  <2>2. /\ Move(c, to) \in Launching
        /\ Move(c, to).status = to
        /\ Move(c, to).launched <=> (c.launched \/ to = "running")
        /\ Move(c, to).completed <=> (c.completed \/ to = "completed")
        /\ Move(c, to).cancelled <=> (c.cancelled \/ to = "cancelled")
    BY <1>2, <2>1, MoveMoves
  <2>3. Move(c, to) \in Campaign
    BY <2>2, CampaignIsLaunching
  <2>4. StampsTellStatus(Move(c, to))
    BY <1>2, <2>2 DEF StampsTellStatus
  <2> QED
    BY <2>3, <2>4
<1> QED
  BY <1>1, <1>2

\* A launch moves through "launching" within one transaction.
LEMMA LaunchKeepsStamps ==
    ASSUME NEW c \in Campaign, StampsTellStatus(c),
           c.status \in {"draft", "ready", "scheduled"}
    PROVE  /\ Launched(c) \in Campaign
           /\ StampsTellStatus(Launched(c))
           /\ Launched(c).list = c.list
           /\ Launched(c).status = "running"
<1> DEFINE r == AfterReview(c)
           l == Move(r, "launching")
<1>1. /\ r \in Launching /\ StampsTellStatus(r)
      /\ r.status \in {"ready", "scheduled"}
      /\ r.list = c.list
  BY ReviewKeepsStamps, CampaignIsLaunching
<1>2. /\ l \in Launching /\ l.status = "launching" /\ l.list = c.list
      /\ ~l.launched /\ ~l.completed /\ ~l.cancelled
  BY <1>1, MoveMoves DEF StampsTellStatus
<1>3. /\ Move(l, "running") \in Launching
      /\ Move(l, "running").status = "running"
      /\ Move(l, "running").list = c.list
      /\ Move(l, "running").launched
      /\ ~Move(l, "running").completed /\ ~Move(l, "running").cancelled
  BY <1>2, MoveMoves DEF Statuses
<1>4. Launched(c) = Move(l, "running")
  BY DEF Launched
<1>5. Launched(c) \in Campaign
  BY <1>3, <1>4, CampaignIsLaunching DEF Statuses
<1> QED
  BY <1>3, <1>4, <1>5 DEF StampsTellStatus

\* Restoring goes by the timestamps, and they are right.
LEMMA RestoreKeepsStamps ==
    ASSUME NEW c \in Campaign, StampsTellStatus(c), c.status = "archived"
    PROVE  /\ Restored(c) \in Campaign
           /\ StampsTellStatus(Restored(c))
           /\ Restored(c).list = c.list
<1>1. CASE c.completed
  <2>1. Restored(c) = [c EXCEPT !.status = "completed"]
    BY <1>1 DEF Restored
  <2> QED
    BY <1>1, <2>1 DEF StampsTellStatus, Campaign, Statuses
<1>2. CASE ~c.completed /\ c.cancelled
  <2>1. Restored(c) = [c EXCEPT !.status = "cancelled"]
    BY <1>2 DEF Restored
  <2> QED
    BY <1>2, <2>1 DEF StampsTellStatus, Campaign, Statuses
<1>3. CASE ~c.completed /\ ~c.cancelled
  <2>1. Restored(c) = [c EXCEPT !.status = "draft"]
    BY <1>3 DEF Restored
  <2> QED
    BY <1>3, <2>1 DEF StampsTellStatus, Campaign, Statuses
<1> QED
  BY <1>1, <1>2, <1>3

\* Choosing a list, counting the audience and deleting the campaign are no business of
\* the timestamps.
LEMMA OtherColumns ==
    ASSUME NEW c \in Campaign, StampsTellStatus(c), NEW l \in Lists
    PROVE  /\ LET e == [c EXCEPT !.list = l, !.counted = FALSE] IN
              e \in Campaign /\ StampsTellStatus(e) /\ e.status = c.status /\ e.list = l
           /\ LET e == [c EXCEPT !.counted = TRUE] IN
              e \in Campaign /\ StampsTellStatus(e) /\ e.status = c.status /\ e.list = c.list
           /\ LET e == [c EXCEPT !.deleted = TRUE] IN
              e \in Campaign /\ StampsTellStatus(e) /\ e.status = c.status /\ e.list = c.list
BY DEF StampsTellStatus, Campaign

\* Every operation that may run leaves a campaign whose timestamps are right; only an
\* edit names another list.
LEMMA OperationsKeepStamps ==
    ASSUME NEW c \in Campaign, StampsTellStatus(c), NEW op \in Ops, Checked(op, c),
           NEW l \in Lists
    PROVE  /\ AfterOp(op, c, l) \in Campaign
           /\ StampsTellStatus(AfterOp(op, c, l))
           /\ op # "edit" => AfterOp(op, c, l).list = c.list
<1>0. c \in Launching
  BY CampaignIsLaunching
<1>1. CASE op = "edit"
  <2> DEFINE e == [c EXCEPT !.list = l, !.counted = FALSE]
  <2>1. e \in Campaign /\ StampsTellStatus(e) /\ e.status \in {"draft", "ready"}
    BY <1>1, OtherColumns DEF Checked
  <2>2. Move(e, "draft") \in Campaign /\ StampsTellStatus(Move(e, "draft"))
    BY <2>1, MoveKeepsStamps DEF Statuses
  <2>3. AfterOp(op, c, l) = Move(e, "draft")
    BY <1>1 DEF AfterOp
  <2> QED
    BY <1>1, <2>2, <2>3
<1>2. CASE op = "limits"
  <2>1. c.status \in {"draft", "ready"}
    BY <1>2 DEF Checked
  <2>2. /\ Move(c, "draft") \in Campaign /\ StampsTellStatus(Move(c, "draft"))
        /\ Move(c, "draft").list = c.list
    BY <1>0, <2>1, MoveKeepsStamps, MoveMoves DEF Statuses
  <2>3. AfterOp(op, c, l) = Move(c, "draft")
    BY <1>2 DEF AfterOp
  <2> QED
    BY <2>2, <2>3
<1>3. CASE op = "review"
  <2>1. AfterOp(op, c, l) = AfterReview(c)
    BY <1>3 DEF AfterOp
  <2> QED
    BY <2>1, ReviewKeepsStamps
<1>4. CASE op = "schedule"
  <2> DEFINE r == AfterReview(c)
             m == Move(r, "scheduled")
  <2>1. c.status \in {"draft", "ready", "scheduled"}
    BY <1>4 DEF Checked
  <2>2. /\ r \in Campaign /\ StampsTellStatus(r) /\ r.list = c.list
        /\ r.status \in {"ready", "scheduled"}
    BY <2>1, ReviewKeepsStamps
  <2>3. m \in Campaign /\ StampsTellStatus(m) /\ m.list = c.list
    BY <2>2, MoveKeepsStamps, MoveMoves, CampaignIsLaunching DEF Statuses
  <2>4. AfterOp(op, c, l) = [m EXCEPT !.counted = TRUE]
    BY <1>4 DEF AfterOp
  <2> QED
    BY <2>3, <2>4, OtherColumns
<1>5. CASE op = "launch"
  <2>1. /\ Launched(c) \in Campaign /\ StampsTellStatus(Launched(c))
        /\ Launched(c).list = c.list
    BY <1>5, LaunchKeepsStamps DEF Checked
  <2>2. AfterOp(op, c, l) = [Launched(c) EXCEPT !.counted = TRUE]
    BY <1>5 DEF AfterOp
  <2> QED
    BY <2>1, <2>2, OtherColumns
<1>6. CASE op = "process"
  <2>1. AfterOp(op, c, l) = IF c.status = "scheduled" THEN Launched(c) ELSE c
    BY <1>6 DEF AfterOp
  <2> QED
    BY <2>1, LaunchKeepsStamps
<1>7. CASE op = "pause"
  <2>1. AfterOp(op, c, l) = Move(c, "paused") /\ c.status = "running"
    BY <1>7 DEF AfterOp, Checked
  <2> QED
    BY <1>0, <2>1, MoveKeepsStamps, MoveMoves DEF Statuses
<1>8. CASE op = "resume"
  <2>1. AfterOp(op, c, l) = Move(c, "running") /\ c.status = "paused"
    BY <1>8 DEF AfterOp, Checked
  <2> QED
    BY <1>0, <2>1, MoveKeepsStamps, MoveMoves DEF Statuses
<1>9. CASE op = "cancel"
  <2>1. AfterOp(op, c, l) = Move(c, "cancelled")
    BY <1>9 DEF AfterOp
  <2>2. c.status \in {"draft", "ready", "scheduled", "running", "paused"}
    BY <1>9 DEF Checked, Campaign, Statuses
  <2> QED
    BY <1>0, <2>1, <2>2, MoveKeepsStamps, MoveMoves DEF Statuses
<1>10. CASE op = "archive"
  <2>1. AfterOp(op, c, l) = Move(c, "archived")
    BY <1>10 DEF AfterOp
  <2>2. c.status \in {"draft", "ready", "scheduled", "completed", "cancelled", "archived"}
    BY <1>10 DEF Checked, Campaign, Statuses
  <2> QED
    BY <1>0, <2>1, <2>2, MoveKeepsStamps, MoveMoves DEF Statuses
<1>11. CASE op = "restore"
  <2>1. AfterOp(op, c, l) = Restored(c) /\ c.status = "archived"
    BY <1>11 DEF AfterOp, Checked
  <2> QED
    BY <2>1, RestoreKeepsStamps
<1>12. CASE op = "delete"
  <2> DEFINE m == IF c.status = "scheduled" THEN Move(c, "cancelled") ELSE c
  <2>1. m \in Campaign /\ StampsTellStatus(m) /\ m.list = c.list
    BY <1>0, MoveKeepsStamps, MoveMoves DEF Statuses
  <2>2. AfterOp(op, c, l) = [m EXCEPT !.deleted = TRUE]
    BY <1>12 DEF AfterOp
  <2> HIDE DEF m
  <2> QED
    BY <1>12, <2>1, <2>2, OtherColumns
<1> QED
  BY <1>1, <1>2, <1>3, <1>4, <1>5, <1>6, <1>7, <1>8, <1>9, <1>10, <1>11, <1>12 DEF Ops

-----------------------------------------------------------------------------
(* Types, whether transactions overlap or not *)

\* A write of the changed columns makes a campaign; over what was read, it is the write.
LEMMA MergeIsTyped ==
    ASSUME NEW old \in Campaign, NEW new \in Campaign, NEW current \in Campaign
    PROVE  MergeColumns(old, new, current) \in Campaign
BY DEF MergeColumns, Campaign

LEMMA MergeUndisturbed ==
    ASSUME NEW old \in Campaign, NEW new \in Campaign
    PROVE  MergeColumns(old, new, old) = new
BY DEF MergeColumns, Campaign

LEMMA MoveIsTyped ==
    ASSUME NEW c \in Launching, NEW to \in Statuses
    PROVE  Move(c, to) \in Campaign
BY MoveMoves, CampaignIsLaunching

LEMMA ReviewIsTyped ==
    ASSUME NEW c \in Campaign
    PROVE  AfterReview(c) \in Campaign
BY MoveIsTyped, CampaignIsLaunching DEF AfterReview, Statuses

LEMMA LaunchIsTyped ==
    ASSUME NEW c \in Campaign
    PROVE  Launched(c) \in Campaign
<1>1. Move(AfterReview(c), "launching") \in Launching
  BY ReviewIsTyped, CampaignIsLaunching, MoveMoves
<1> QED
  BY <1>1, MoveIsTyped DEF Launched, Statuses

LEMMA OperationsAreTyped ==
    ASSUME NEW c \in Campaign, NEW op \in Ops, NEW l \in Lists
    PROVE  AfterOp(op, c, l) \in Campaign
<1>0. /\ c \in Launching
      /\ \A d \in Campaign : [d EXCEPT !.counted = TRUE] \in Campaign
      /\ \A d \in Campaign : [d EXCEPT !.deleted = TRUE] \in Campaign
      /\ [c EXCEPT !.list = l, !.counted = FALSE] \in Launching
  BY CampaignIsLaunching DEF Campaign
<1>1. CASE op = "edit"
  BY <1>0, <1>1, MoveIsTyped DEF AfterOp, Statuses
<1>2. CASE op = "schedule"
  <2>1. Move(AfterReview(c), "scheduled") \in Campaign
    BY ReviewIsTyped, MoveIsTyped, CampaignIsLaunching DEF Statuses
  <2> QED
    BY <1>0, <1>2, <2>1 DEF AfterOp
<1>3. CASE op = "launch"
  BY <1>0, <1>3, LaunchIsTyped DEF AfterOp
<1>4. CASE op = "process"
  <2>1. AfterOp(op, c, l) = IF c.status = "scheduled" THEN Launched(c) ELSE c
    BY <1>4 DEF AfterOp
  <2> QED
    BY <2>1, LaunchIsTyped
<1>5. CASE op = "restore"
  <2>1. AfterOp(op, c, l) = Restored(c)
    BY <1>5 DEF AfterOp
  <2> DEFINE s == IF c.completed THEN "completed" ELSE IF c.cancelled THEN "cancelled" ELSE "draft"
  <2>2. s \in Statuses
    BY DEF Statuses
  <2>3. Restored(c) = [c EXCEPT !.status = s]
    BY DEF Restored
  <2> HIDE DEF s
  <2> QED
    BY <2>1, <2>2, <2>3 DEF Campaign
<1>6. CASE op = "delete"
  <2> DEFINE m == IF c.status = "scheduled" THEN Move(c, "cancelled") ELSE c
  <2>1. m \in Campaign
    BY <1>0, MoveIsTyped DEF Statuses
  <2>2. AfterOp(op, c, l) = [m EXCEPT !.deleted = TRUE]
    BY <1>6 DEF AfterOp
  <2> HIDE DEF m
  <2> QED
    BY <1>0, <2>1, <2>2
<1>7. CASE op = "review"
  BY <1>7, ReviewIsTyped DEF AfterOp
<1>8. CASE op \in {"limits", "pause", "resume", "cancel", "archive"}
  <2>1. \E to \in Statuses : AfterOp(op, c, l) = Move(c, to)
    BY <1>8 DEF AfterOp, Statuses
  <2> QED
    BY <1>0, <2>1, MoveIsTyped
<1> QED
  BY <1>1, <1>2, <1>3, <1>4, <1>5, <1>6, <1>7, <1>8 DEF Ops

LEMMA CommitIsTyped ==
    ASSUME LifecycleTypeOK, NEW t \in Txns, NEW c \in Campaign,
           NEW rs \in [People -> {"none", "pending", "sent", "skipped"}],
           NEW l \in Lists \cup {NoList}, CommitWith(t, c, rs, l),
           mailed' \in [People -> 0..MaxMails], lost' \in [People -> 0..MaxLost]
    PROVE  LifecycleTypeOK'
<1>1. campaign' \in Campaign
  BY MergeIsTyped DEF CommitWith, LifecycleTypeOK
<1>2. /\ rows' = rs /\ origin' = l /\ members' = members
      /\ job' = [job EXCEPT ![t] = NoJob]
  BY DEF CommitWith
<1>3. NoJob \in [op : Ops \cup {"idle"}, seen : Campaign, new : Campaign,
                 audience : SUBSET People]
  <2>1. PICK k \in Lists : TRUE
    BY DEF LifecycleTypeOK, Campaign
  <2> QED
    BY <2>1, NoJobIsTyped
<1> QED
  BY <1>1, <1>2, <1>3 DEF LifecycleTypeOK

\* The counts stay in their bounds.
LEMMA MailsAreTyped ==
    ASSUME LifecycleTypeOK, NEW sent \in SUBSET Waiting, NEW gone \in SUBSET Waiting,
           MailsLeave(sent, gone)
    PROVE  mailed' \in [People -> 0..MaxMails] /\ lost' \in [People -> 0..MaxLost]
<1>1. mailed' \in [People -> 0..MaxMails]
  BY LifecycleAssumption DEF LifecycleTypeOK, MailsLeave
<1>2. ASSUME NEW p \in gone PROVE lost[p] + 1 \in 0..MaxLost
  BY LifecycleAssumption DEF LifecycleTypeOK, MailsLeave, Waiting
<1>3. lost' \in [People -> 0..MaxLost]
  BY <1>2 DEF LifecycleTypeOK, MailsLeave
<1> QED
  BY <1>1, <1>3

LEMMA TypesStart == LifeInit => LifecycleTypeOK
<1> SUFFICES ASSUME LifeInit PROVE LifecycleTypeOK
  OBVIOUS
<1>1. PICK l \in Lists : campaign = Created(l)
  BY DEF LifeInit
<1>2. campaign \in Campaign
  BY <1>1 DEF Created, Campaign, Statuses
<1>3. mailed \in [People -> 0..MaxMails] /\ lost \in [People -> 0..MaxLost]
  BY LifecycleAssumption DEF LifeInit
<1> QED
  BY <1>1, <1>2, <1>3, NoJobIsTyped DEF LifeInit, LifecycleTypeOK

LEMMA TypesStep == LifecycleTypeOK /\ [LifeNext]_lifeVars => LifecycleTypeOK'
<1> SUFFICES ASSUME LifecycleTypeOK, [LifeNext]_lifeVars PROVE LifecycleTypeOK'
  OBVIOUS
<1>1. ASSUME NEW t \in Txns, NEW op \in Ops, NEW l \in Lists, Begin(t, op, l)
      PROVE LifecycleTypeOK'
  <2>1. AfterOp(op, campaign, l) \in Campaign
    BY OperationsAreTyped DEF LifecycleTypeOK
  <2>2. members[campaign.list] \in SUBSET People
    BY DEF LifecycleTypeOK, Campaign
  <2> QED
    BY <1>1, <2>1, <2>2 DEF Begin, LifecycleTypeOK, mailVars
<1>2. ASSUME NEW t \in Txns, CommitRequest(t) PROVE LifecycleTypeOK'
  <2>1. /\ job[t].new \in Campaign /\ job[t].seen.list \in Lists
        /\ [p \in People |-> IF p \in job[t].audience THEN "pending" ELSE "none"]
              \in [People -> {"none", "pending", "sent", "skipped"}]
        /\ [p \in People |-> "none"] \in [People -> {"none", "pending", "sent", "skipped"}]
        /\ rows \in [People -> {"none", "pending", "sent", "skipped"}]
        /\ origin \in Lists \cup {NoList} /\ NoList \in Lists \cup {NoList}
        /\ mailed' \in [People -> 0..MaxMails] /\ lost' \in [People -> 0..MaxLost]
    BY <1>2 DEF CommitRequest, LifecycleTypeOK, Campaign, mailVars
  <2>2. \E rs \in [People -> {"none", "pending", "sent", "skipped"}], l \in Lists \cup {NoList} :
           CommitWith(t, job[t].new, rs, l)
    <3>1. CASE Snapshots(job[t].op, job[t].seen)
      BY <1>2, <2>1, <3>1 DEF CommitRequest
    <3>2. CASE ~Snapshots(job[t].op, job[t].seen) /\ Deletes(job[t].op)
      BY <1>2, <2>1, <3>2 DEF CommitRequest
    <3>3. CASE ~Snapshots(job[t].op, job[t].seen) /\ ~Deletes(job[t].op)
      BY <1>2, <2>1, <3>3 DEF CommitRequest
    <3> QED
      BY <3>1, <3>2, <3>3
  <2> QED
    BY <2>1, <2>2, CommitIsTyped
<1>3. ASSUME NEW t \in Txns, CommitCancel(t) PROVE LifecycleTypeOK'
  <2>1. [p \in People |-> IF rows[p] = "pending" THEN "skipped" ELSE rows[p]]
           \in [People -> {"none", "pending", "sent", "skipped"}]
    BY DEF LifecycleTypeOK
  <2>2. /\ job[t].new \in Campaign
        /\ mailed' \in [People -> 0..MaxMails] /\ lost' \in [People -> 0..MaxLost]
    BY <1>3 DEF CommitCancel, LifecycleTypeOK, mailVars
  <2> QED
    BY <1>3, <2>1, <2>2, CommitIsTyped DEF CommitCancel, LifecycleTypeOK
<1>4. ASSUME NEW t \in Txns, CommitBatch(t) PROVE LifecycleTypeOK'
  <2>1. PICK sent \in SUBSET Waiting, skipped \in SUBSET Waiting, gone \in SUBSET Waiting,
             done \in BOOLEAN :
          /\ CommitWith(t, IF done /\ job[t].new.counted
                           THEN Move(job[t].new, "completed") ELSE job[t].new,
                        AfterBatch(sent, skipped), origin)
          /\ MailsLeave(sent, gone)
    BY <1>4 DEF CommitBatch
  <2>2. AfterBatch(sent, skipped) \in [People -> {"none", "pending", "sent", "skipped"}]
    BY DEF AfterBatch, LifecycleTypeOK
  <2>3. mailed' \in [People -> 0..MaxMails] /\ lost' \in [People -> 0..MaxLost]
    BY <2>1, MailsAreTyped
  <2> DEFINE c == IF done /\ job[t].new.counted
                  THEN Move(job[t].new, "completed") ELSE job[t].new
  <2>4. c \in Campaign
    BY MoveIsTyped, CampaignIsLaunching DEF LifecycleTypeOK, Statuses
  <2>5. CommitWith(t, c, AfterBatch(sent, skipped), origin)
    BY <2>1
  <2> HIDE DEF c
  <2> QED
    BY <2>2, <2>3, <2>4, <2>5, CommitIsTyped DEF LifecycleTypeOK
<1>5. ASSUME NEW t \in Txns, Abandon(t) \/ LoseBatch(t) PROVE LifecycleTypeOK'
  <2>1. PICK k \in Lists : TRUE
    BY DEF LifecycleTypeOK, Campaign
  <2>2. /\ job' = [job EXCEPT ![t] = NoJob]
        /\ UNCHANGED <<campaign, rows, origin, members>>
    BY <1>5 DEF Abandon, LoseBatch
  <2>3. mailed' \in [People -> 0..MaxMails] /\ lost' \in [People -> 0..MaxLost]
    <3>1. CASE Abandon(t)
      BY <3>1 DEF Abandon, mailVars, LifecycleTypeOK
    <3>2. CASE LoseBatch(t)
      <4>1. PICK gone \in SUBSET Waiting : MailsLeave({}, gone)
        BY <3>2 DEF LoseBatch
      <4> QED
        BY <4>1, MailsAreTyped
    <3> QED
      BY <1>5, <3>1, <3>2
  <2> QED
    BY <2>1, <2>2, <2>3, NoJobIsTyped DEF LifecycleTypeOK
<1>6. ASSUME NEW l \in Lists, NEW p \in People, ChangeList(l, p) PROVE LifecycleTypeOK'
  BY <1>6 DEF ChangeList, LifecycleTypeOK, mailVars
<1>7. CASE UNCHANGED lifeVars
  BY <1>7 DEF lifeVars, mailVars, LifecycleTypeOK
<1> QED
  BY <1>1, <1>2, <1>3, <1>4, <1>5, <1>6, <1>7 DEF LifeNext

\* Every column, job and counter keeps its type, with any number of transactions, whether
\* they overlap or not.
THEOREM TypesAreKept == LifeSpec => []LifecycleTypeOK
BY TypesStart, TypesStep, PTL DEF LifeSpec

-----------------------------------------------------------------------------
(* One operation at a time *)

OneAtATime ==
    \A t, u \in Txns : job[t].op # "idle" /\ job[u].op # "idle" => t = u

\* What an open operation has read is still what is committed.
ReadsAreFresh ==
    \A t \in Txns : job[t].op # "idle" =>
        /\ job[t].seen = campaign
        /\ Checked(job[t].op, campaign)
        /\ \E l \in Lists : job[t].new = AfterOp(job[t].op, campaign, l)

\* Of m mails n are lost; one more is on record, in a row of status s of a campaign that
\* was launched.
OnRecord(m, n, s, launched) == m <= n \/ (m = n + 1 /\ s = "sent" /\ launched)

\* Who was mailed is marked as sent, in a campaign that was launched, unless that was lost.
MailsAreRecorded ==
    \A p \in People : OnRecord(mailed[p], lost[p], rows[p], campaign.launched)

\* A batch changes the counts of those who waited only.
LEMMA MailsLeaveRecords ==
    ASSUME LifecycleTypeOK, MailsAreRecorded, NEW sent \in SUBSET Waiting,
           NEW gone \in SUBSET Waiting, gone \cap sent = {}, MailsLeave(sent, gone), NEW p \in People
    PROVE  /\ p \in sent => mailed'[p] <= lost'[p] + 1
           /\ p \in gone => mailed'[p] <= lost'[p]
           /\ p \notin sent \cup gone => mailed'[p] = mailed[p] /\ lost'[p] = lost[p]
           /\ mailed'[p] \in Nat /\ lost'[p] \in Nat
<1>1. mailed[p] \in Nat /\ lost[p] \in Nat
  BY LifecycleAssumption DEF LifecycleTypeOK
<1>2. /\ mailed'[p] = IF p \in sent \cup gone /\ mailed[p] < MaxMails
                      THEN mailed[p] + 1 ELSE mailed[p]
      /\ lost'[p] = IF p \in gone THEN lost[p] + 1 ELSE lost[p]
  BY DEF MailsLeave
<1>3. p \in sent \cup gone => mailed[p] <= lost[p]
  BY DEF MailsAreRecorded, OnRecord, Waiting
<1> QED
  BY <1>1, <1>2, <1>3, LifecycleAssumption

\* The strengthening: the properties themselves say nothing of the open operations and of
\* the way archived campaigns are restored.
SerialInv ==
    /\ LifecycleTypeOK
    /\ StampsTellStatus(campaign)
    /\ OneAtATime
    /\ ReadsAreFresh
    /\ AudienceOfTheList
    /\ MailsAreRecorded

\* A commit leaves the campaign as the operation wrote it, and no operation open.
LEMMA CommitAlone ==
    ASSUME SerialInv, NEW t \in Txns, job[t].op # "idle", NEW c \in Campaign,
           NEW rs, NEW l, CommitWith(t, c, rs, l)
    PROVE  /\ campaign' = c /\ rows' = rs /\ origin' = l
           /\ \A u \in Txns : job'[u].op = "idle"
<1>1. job[t].seen = campaign /\ campaign \in Campaign
  BY DEF SerialInv, ReadsAreFresh, LifecycleTypeOK
<1>2. campaign' = c
  BY <1>1, MergeUndisturbed DEF CommitWith
<1>3. job' = [job EXCEPT ![t] = NoJob] /\ NoJob.op = "idle"
  BY DEF CommitWith, NoJob
<1>4. ASSUME NEW u \in Txns PROVE job'[u].op = "idle"
  BY <1>3 DEF SerialInv, LifecycleTypeOK, OneAtATime
<1> QED
  BY <1>2, <1>4 DEF CommitWith

\* What the operation an open transaction has under way leaves.
LEMMA OpenOperation ==
    ASSUME SerialInv, NEW t \in Txns, job[t].op # "idle"
    PROVE  /\ job[t].seen = campaign /\ campaign \in Campaign
           /\ job[t].op \in Ops /\ Checked(job[t].op, campaign)
           /\ job[t].new \in Campaign
           /\ StampsTellStatus(job[t].new)
           /\ job[t].op # "edit" => job[t].new.list = campaign.list
<1>1. /\ job[t].seen = campaign /\ campaign \in Campaign
      /\ job[t].op \in Ops /\ Checked(job[t].op, campaign)
      /\ StampsTellStatus(campaign)
  BY DEF SerialInv, LifecycleTypeOK, ReadsAreFresh
<1>2. PICK l \in Lists : job[t].new = AfterOp(job[t].op, campaign, l)
  BY DEF SerialInv, ReadsAreFresh
<1> QED
  BY <1>1, <1>2, OperationsKeepStamps

\* Nothing takes back a launch.
LEMMA LaunchLasts ==
    ASSUME NEW c \in Campaign, StampsTellStatus(c), NEW op \in Ops, Checked(op, c),
           NEW l \in Lists, c.launched
    PROVE  /\ op \notin {"edit", "limits", "schedule", "launch"}
           /\ AfterOp(op, c, l).launched
           /\ op = "process" => c.status = "running"
<1>1. /\ c \in Launching
      /\ c.status \in {"running", "paused", "completed", "cancelled", "archived"}
  BY CampaignIsLaunching DEF StampsTellStatus
<1>2. op \notin {"edit", "limits", "schedule", "launch"}
  BY <1>1 DEF Checked
<1>3. \A to \in Statuses : Move(c, to).launched
  BY <1>1, MoveMoves
<1>4. op = "process" => c.status = "running"
  BY <1>1 DEF Checked
<1>5. CASE op \in {"pause", "resume", "cancel", "archive"}
  <2>1. \E to \in Statuses : AfterOp(op, c, l) = Move(c, to)
    BY <1>5 DEF AfterOp, Statuses
  <2> QED
    BY <1>2, <1>3, <1>4, <2>1
<1>6. CASE op = "review"
  <2>1. AfterOp(op, c, l) = AfterReview(c)
    BY <1>6 DEF AfterOp
  <2> QED
    BY <1>2, <1>4, <2>1, ReviewKeepsStamps
<1>7. CASE op = "process"
  <2>1. AfterOp(op, c, l) = IF c.status = "scheduled" THEN Launched(c) ELSE c
    BY <1>7 DEF AfterOp
  <2> QED
    BY <1>1, <1>2, <1>4, <2>1
<1>8. CASE op = "restore"
  <2>1. AfterOp(op, c, l) = Restored(c)
    BY <1>8 DEF AfterOp
  <2>2. Restored(c).launched = c.launched
    BY DEF Restored, Campaign
  <2> QED
    BY <1>2, <1>4, <2>1, <2>2
<1>9. CASE op = "delete"
  <2>1. c.status # "scheduled"
    BY <1>1
  <2>2. AfterOp(op, c, l) = [c EXCEPT !.deleted = TRUE]
    BY <1>9, <2>1 DEF AfterOp
  <2> QED
    BY <1>2, <1>4, <2>2 DEF Campaign
<1> QED
  BY <1>2, <1>5, <1>6, <1>7, <1>8, <1>9 DEF Ops

LEMMA SerialInvStarts == LifeInit => SerialInv
<1> SUFFICES ASSUME LifeInit PROVE SerialInv
  OBVIOUS
<1>1. LifecycleTypeOK
  BY TypesStart
<1>2. PICK l \in Lists : campaign = Created(l)
  BY DEF LifeInit
<1>3. StampsTellStatus(campaign)
  BY <1>2 DEF Created, StampsTellStatus
<1>4. \A t \in Txns : job[t].op = "idle"
  BY DEF LifeInit, NoJob
<1> QED
  BY <1>1, <1>3, <1>4 DEF SerialInv, LifeInit, OneAtATime, ReadsAreFresh, AudienceOfTheList,
                          MailsAreRecorded, OnRecord

\* The end of operation t, which leaves recipients rs of list l.
LEMMA CommitKeepsInv ==
    ASSUME SerialInv, LifecycleTypeOK', NEW t \in Txns, job[t].op # "idle",
           NEW c \in Campaign, StampsTellStatus(c), NEW rs, NEW l \in {c.list, NoList},
           CommitWith(t, c, rs, l),
           \A p \in People : OnRecord(mailed'[p], lost'[p], rs[p], c.launched)
    PROVE  SerialInv'
<1>1. /\ campaign' = c /\ rows' = rs /\ origin' = l
      /\ \A u \in Txns : job'[u].op = "idle"
  BY CommitAlone
<1> QED
  BY <1>1 DEF SerialInv, OneAtATime, ReadsAreFresh, AudienceOfTheList, MailsAreRecorded,
              StampsTellStatus

LEMMA SerialInvStep ==
    ASSUME Overlap = FALSE, SerialInv, [LifeNext]_lifeVars
    PROVE  SerialInv'
<1>0. LifecycleTypeOK'
  BY TypesStep DEF SerialInv
<1>1. ASSUME NEW t \in Txns, NEW op \in Ops, NEW l \in Lists, Begin(t, op, l)
      PROVE SerialInv'
  <2>1. /\ \A u \in Txns : job[u].op = "idle"
        /\ MayRun(op, campaign)
        /\ job' = [job EXCEPT ![t] = [op |-> op, seen |-> campaign,
                                      new |-> AfterOp(op, campaign, l),
                                      audience |-> IF Snapshots(op, campaign)
                                                   THEN members[campaign.list] ELSE {}]]
        /\ UNCHANGED <<campaign, rows, origin, members, mailed, lost>>
    BY <1>1 DEF Begin, mailVars
  <2>2. Checked(op, campaign)
    BY <2>1, MayRunIsChecked DEF SerialInv, LifecycleTypeOK
  <2>3. /\ job'[t].op = op /\ job'[t].seen = campaign
        /\ job'[t].new = AfterOp(op, campaign, l)
        /\ \A u \in Txns \ {t} : job'[u].op = "idle"
    BY <2>1 DEF SerialInv, LifecycleTypeOK
  <2>4. OneAtATime'
    BY <2>3 DEF OneAtATime
  <2>5. ReadsAreFresh'
    <3> SUFFICES ASSUME NEW u \in Txns, job'[u].op # "idle"
                 PROVE  /\ job'[u].seen = campaign'
                        /\ Checked(job'[u].op, campaign')
                        /\ \E k \in Lists : job'[u].new = AfterOp(job'[u].op, campaign', k)
      BY DEF ReadsAreFresh
    <3>1. u = t /\ campaign' = campaign
      BY <2>1, <2>3
    <3> QED
      BY <2>2, <2>3, <3>1
  <2> QED
    BY <1>0, <2>1, <2>4, <2>5 DEF SerialInv, StampsTellStatus, AudienceOfTheList,
                                   MailsAreRecorded
<1>2. ASSUME NEW t \in Txns, CommitRequest(t) PROVE SerialInv'
  <2>1. /\ job[t].op # "idle" /\ job[t].op # "process"
        /\ mailed' = mailed /\ lost' = lost
    BY <1>2 DEF CommitRequest, mailVars
  <2> DEFINE j == job[t]
  <2>2. /\ j.seen = campaign /\ campaign \in Campaign
        /\ j.op \in Ops /\ Checked(j.op, campaign)
        /\ j.new \in Campaign /\ StampsTellStatus(j.new)
        /\ j.op # "edit" => j.new.list = campaign.list
    BY <2>1, OpenOperation
  <2>3. /\ campaign.launched => j.op \notin {"edit", "schedule", "launch"}
        /\ campaign.launched => j.new.launched
    <3>1. PICK l \in Lists : j.new = AfterOp(j.op, campaign, l)
      BY <2>1 DEF SerialInv, ReadsAreFresh
    <3> QED
      BY <2>2, <3>1, LaunchLasts DEF SerialInv
  <2>4. CASE Snapshots(j.op, j.seen)
    <3> DEFINE rs == [p \in People |-> IF p \in j.audience THEN "pending" ELSE "none"]
    <3>1. CommitWith(t, j.new, rs, campaign.list)
      BY <1>2, <2>2, <2>4 DEF CommitRequest
    <3>2. j.op \in {"schedule", "launch"}
      BY <2>4 DEF Snapshots
    <3>3. \A p \in People : OnRecord(mailed'[p], lost'[p], rs[p], j.new.launched)
      BY <2>1, <2>3, <3>2 DEF SerialInv, MailsAreRecorded, OnRecord
    <3>4. campaign.list \in {j.new.list, NoList}
      BY <2>2, <3>2
    <3> HIDE DEF rs
    <3> QED
      BY <1>0, <2>1, <2>2, <3>1, <3>3, <3>4, CommitKeepsInv
  <2>5. CASE ~Snapshots(j.op, j.seen) /\ Deletes(j.op)
    <3> DEFINE rs == [p \in People |-> "none"]
    <3>1. CommitWith(t, j.new, rs, NoList)
      BY <1>2, <2>5 DEF CommitRequest
    <3>2. \A p \in People : OnRecord(mailed'[p], lost'[p], rs[p], j.new.launched)
      BY <2>1, <2>3, <2>5 DEF Deletes, SerialInv, MailsAreRecorded, OnRecord
    <3> HIDE DEF rs
    <3> QED
      BY <1>0, <2>1, <2>2, <3>1, <3>2, CommitKeepsInv
  <2>6. CASE ~Snapshots(j.op, j.seen) /\ ~Deletes(j.op)
    <3>1. CommitWith(t, j.new, rows, origin)
      BY <1>2, <2>6 DEF CommitRequest
    <3>2. \A p \in People : OnRecord(mailed'[p], lost'[p], rows[p], j.new.launched)
      BY <2>1, <2>3 DEF SerialInv, MailsAreRecorded, OnRecord
    <3>3. origin \in {j.new.list, NoList}
      BY <2>2, <2>6 DEF Deletes, SerialInv, AudienceOfTheList
    <3> QED
      BY <1>0, <2>1, <2>2, <3>1, <3>2, <3>3, CommitKeepsInv
  <2> QED
    BY <2>4, <2>5, <2>6
<1>3. ASSUME NEW t \in Txns, CommitCancel(t) PROVE SerialInv'
  <2> DEFINE rs == [p \in People |-> IF rows[p] = "pending" THEN "skipped" ELSE rows[p]]
  <2>1. /\ job[t].op = "cancel" /\ mailed' = mailed /\ lost' = lost
        /\ CommitWith(t, job[t].new, rs, origin)
    BY <1>3 DEF CommitCancel, mailVars
  <2>2. /\ campaign \in Campaign /\ job[t].op \in Ops /\ Checked(job[t].op, campaign)
        /\ job[t].new \in Campaign /\ StampsTellStatus(job[t].new)
        /\ job[t].new.list = campaign.list
    BY <2>1, OpenOperation
  <2>3. campaign.launched => job[t].new.launched
    <3>1. PICK l \in Lists : job[t].new = AfterOp(job[t].op, campaign, l)
      BY <2>1 DEF SerialInv, ReadsAreFresh
    <3> QED
      BY <2>2, <3>1, LaunchLasts DEF SerialInv
  <2>4. \A p \in People : OnRecord(mailed'[p], lost'[p], rs[p], job[t].new.launched)
    BY <2>1, <2>3 DEF SerialInv, MailsAreRecorded, OnRecord
  <2>5. origin \in {job[t].new.list, NoList}
    BY <2>2 DEF SerialInv, AudienceOfTheList
  <2> HIDE DEF rs
  <2> QED
    BY <1>0, <2>1, <2>2, <2>4, <2>5, CommitKeepsInv
<1>4. ASSUME NEW t \in Txns, CommitBatch(t) PROVE SerialInv'
  <2>1. PICK sent \in SUBSET Waiting, skipped \in SUBSET Waiting, gone \in SUBSET Waiting,
             done \in BOOLEAN :
          /\ gone \cap sent = {}
          /\ CommitWith(t, IF done /\ job[t].new.counted
                           THEN Move(job[t].new, "completed") ELSE job[t].new,
                        AfterBatch(sent, skipped), origin)
          /\ MailsLeave(sent, gone)
    BY <1>4 DEF CommitBatch
  <2>2. job[t].op = "process"
    BY <1>4 DEF CommitBatch
  <2>3. /\ campaign \in Campaign /\ Checked("process", campaign)
        /\ job[t].new \in Campaign /\ StampsTellStatus(job[t].new)
        /\ job[t].new.list = campaign.list
    BY <2>2, OpenOperation
  <2>4. job[t].new.status = "running"
    <3>1. PICK l \in Lists : job[t].new = AfterOp("process", campaign, l)
      BY <2>2 DEF SerialInv, ReadsAreFresh
    <3>2. job[t].new = IF campaign.status = "scheduled" THEN Launched(campaign) ELSE campaign
      BY <3>1 DEF AfterOp
    <3> QED
      BY <2>3, <3>2, LaunchKeepsStamps DEF Checked, SerialInv
  <2> DEFINE c == IF done /\ job[t].new.counted
                  THEN Move(job[t].new, "completed") ELSE job[t].new
             rs == AfterBatch(sent, skipped)
  <2>5. c \in Campaign /\ StampsTellStatus(c) /\ c.list = campaign.list /\ c.launched
    <3>1. job[t].new \in Launching /\ job[t].new.launched
      BY <2>3, <2>4, CampaignIsLaunching DEF StampsTellStatus
    <3>2. /\ Move(job[t].new, "completed") \in Campaign
          /\ StampsTellStatus(Move(job[t].new, "completed"))
          /\ Move(job[t].new, "completed").list = campaign.list
          /\ Move(job[t].new, "completed").launched
      BY <2>3, <2>4, <3>1, MoveKeepsStamps, MoveMoves DEF Statuses
    <3> QED
      BY <2>3, <3>1, <3>2
  <2>6. \A p \in People : OnRecord(mailed'[p], lost'[p], rs[p], c.launched)
    <3> SUFFICES ASSUME NEW p \in People PROVE OnRecord(mailed'[p], lost'[p], rs[p], TRUE)
      BY <2>5
    <3>1. /\ p \in sent => mailed'[p] <= lost'[p] + 1
          /\ p \in gone => mailed'[p] <= lost'[p]
          /\ p \notin sent \cup gone => mailed'[p] = mailed[p] /\ lost'[p] = lost[p]
          /\ mailed'[p] \in Nat /\ lost'[p] \in Nat
      BY <2>1, MailsLeaveRecords DEF SerialInv
    <3>2. CASE p \in sent
      BY <3>1, <3>2 DEF AfterBatch, OnRecord
    <3>3. CASE p \in gone
      BY <3>1, <3>3 DEF OnRecord
    <3>4. CASE p \notin sent \cup gone
      <4>1. mailed[p] <= lost[p] \/ (mailed[p] = lost[p] + 1 /\ rows[p] = "sent")
        BY DEF SerialInv, MailsAreRecorded, OnRecord
      <4>2. rows[p] = "sent" => p \notin skipped
        BY <2>1 DEF Waiting
      <4>3. rows[p] = "sent" => rs[p] = "sent"
        BY <4>2 DEF AfterBatch
      <4> QED
        BY <3>1, <3>4, <4>1, <4>3 DEF OnRecord
    <3> QED
      BY <3>2, <3>3, <3>4
  <2>7. CommitWith(t, c, rs, origin) /\ origin \in {c.list, NoList}
    BY <2>1, <2>5 DEF SerialInv, AudienceOfTheList
  <2> HIDE DEF c, rs
  <2> QED
    BY <1>0, <2>2, <2>5, <2>6, <2>7, CommitKeepsInv
<1>5. ASSUME NEW t \in Txns, Abandon(t) \/ LoseBatch(t) PROVE SerialInv'
  <2>1. /\ job' = [job EXCEPT ![t] = NoJob]
        /\ UNCHANGED <<campaign, rows, origin, members>>
    BY <1>5 DEF Abandon, LoseBatch
  <2>2. job'[t].op = "idle" /\ \A u \in Txns \ {t} : job'[u] = job[u]
    BY <2>1 DEF NoJob, SerialInv, LifecycleTypeOK
  <2>3. MailsAreRecorded'
    <3>1. CASE Abandon(t)
      BY <2>1, <3>1 DEF Abandon, mailVars, SerialInv, MailsAreRecorded
    <3>2. CASE LoseBatch(t)
      <4>1. PICK gone \in SUBSET Waiting : MailsLeave({}, gone)
        BY <3>2 DEF LoseBatch
      <4>2. ASSUME NEW p \in People
            PROVE  OnRecord(mailed'[p], lost'[p], rows[p], campaign.launched)
        <5>1. /\ p \in gone => mailed'[p] <= lost'[p]
              /\ p \notin gone => mailed'[p] = mailed[p] /\ lost'[p] = lost[p]
          BY <4>1, MailsLeaveRecords DEF SerialInv
        <5> QED
          BY <5>1 DEF SerialInv, MailsAreRecorded, OnRecord
      <4> QED
        BY <2>1, <4>2 DEF MailsAreRecorded
    <3> QED
      BY <1>5, <3>1, <3>2
  <2> QED
    BY <1>0, <2>1, <2>2, <2>3 DEF SerialInv, OneAtATime, ReadsAreFresh, AudienceOfTheList,
                                  StampsTellStatus
<1>6. ASSUME NEW l \in Lists, NEW p \in People, ChangeList(l, p) PROVE SerialInv'
  BY <1>0, <1>6 DEF ChangeList, mailVars, SerialInv, OneAtATime, ReadsAreFresh,
                    AudienceOfTheList, MailsAreRecorded, StampsTellStatus
<1>7. CASE UNCHANGED lifeVars
  BY <1>0, <1>7 DEF lifeVars, mailVars, SerialInv, OneAtATime, ReadsAreFresh,
                    AudienceOfTheList, MailsAreRecorded, StampsTellStatus
<1> QED
  BY <1>1, <1>2, <1>3, <1>4, <1>5, <1>6, <1>7 DEF LifeNext

\* The strengthened invariant, of every campaign whose operations do not overlap.
THEOREM SerialInvHolds == ASSUME Overlap = FALSE PROVE LifeSpec => []SerialInv
BY SerialInvStarts, SerialInvStep, PTL DEF LifeSpec

\* One operation at a time, the recipients are always of the list the campaign names,
\* through any number of edits, schedules, launches, archives and restores.
THEOREM AudienceIsOfTheList ==
    ASSUME Overlap = FALSE PROVE LifeSpec => []AudienceOfTheList
<1>1. SerialInv => AudienceOfTheList
  BY DEF SerialInv
<1> QED
  BY <1>1, SerialInvHolds, PTL

\* One operation at a time, nobody gets more than one mail of a campaign besides those whose
\* record a rollback or a lost answer took, however often it is edited, restored and launched.
THEOREM NobodyIsMailedTwice == ASSUME Overlap = FALSE PROVE LifeSpec => []MailedOnce
<1>1. SerialInv => MailedOnce
  <2> SUFFICES ASSUME SerialInv, NEW p \in People PROVE mailed[p] <= 1 + lost[p]
    BY DEF MailedOnce
  <2>1. mailed[p] \in Nat /\ lost[p] \in Nat
    BY LifecycleAssumption DEF SerialInv, LifecycleTypeOK
  <2>2. mailed[p] <= lost[p] \/ mailed[p] = lost[p] + 1
    BY DEF SerialInv, MailsAreRecorded, OnRecord
  <2> QED
    BY <2>1, <2>2
<1> QED
  BY <1>1, SerialInvHolds, PTL

\* One operation at a time, a campaign that was cancelled, completed or deleted sends
\* nothing any more, also after it was archived and restored.
THEOREM EndedCampaignsAreSilent ==
    ASSUME Overlap = FALSE PROVE LifeSpec => SilentAfterTheEnd
<1>1. ASSUME SerialInv, [LifeNext]_lifeVars,
             campaign.cancelled \/ campaign.completed \/ campaign.deleted
      PROVE  mailed' = mailed
  <2>1. ASSUME NEW t \in Txns, CommitBatch(t) \/ LoseBatch(t) PROVE FALSE
    <3>1. job[t].op = "process"
      BY <2>1 DEF CommitBatch, LoseBatch
    <3>2. Checked("process", campaign) /\ StampsTellStatus(campaign)
      BY <1>1, <3>1 DEF SerialInv, ReadsAreFresh
    <3> QED
      BY <1>1, <3>2 DEF Checked, StampsTellStatus
  <2> QED
    BY <1>1, <2>1 DEF LifeNext, Begin, CommitRequest, CommitCancel, Abandon, ChangeList,
                      lifeVars, mailVars
<1>2. SerialInv /\ [LifeNext]_lifeVars =>
        [campaign.cancelled \/ campaign.completed \/ campaign.deleted => mailed' = mailed]_lifeVars
  BY <1>1
<1> QED
  BY <1>2, SerialInvHolds, PTL DEF LifeSpec, SilentAfterTheEnd

\* One operation at a time, the audience of a launched campaign is immutable.
THEOREM LaunchedAudienceIsImmutable ==
    ASSUME Overlap = FALSE PROVE LifeSpec => ImmutableAudience
<1> DEFINE Kept == \A p \in People : rows'[p] = rows[p] \/ (rows[p] = "pending" /\ rows'[p] # "none")
<1>1. ASSUME SerialInv, [LifeNext]_lifeVars, campaign.launched PROVE Kept
  <2>1. ASSUME NEW t \in Txns, CommitRequest(t) PROVE Kept
    <3>1. job[t].op # "idle"
      BY <2>1 DEF CommitRequest
    <3>2. /\ campaign \in Campaign /\ job[t].op \in Ops /\ Checked(job[t].op, campaign)
          /\ StampsTellStatus(campaign)
      BY <1>1, <3>1, OpenOperation DEF SerialInv
    <3>3. \E l \in Lists : job[t].new = AfterOp(job[t].op, campaign, l)
      BY <1>1, <3>1 DEF SerialInv, ReadsAreFresh
    <3>4. job[t].op \notin {"edit", "schedule", "launch"}
      BY <1>1, <3>2, <3>3, LaunchLasts
    <3>5. ~Snapshots(job[t].op, job[t].seen) /\ ~Deletes(job[t].op)
      BY <3>4 DEF Snapshots, Deletes
    <3> QED
      BY <2>1, <3>5 DEF CommitRequest, CommitWith
  <2>2. ASSUME NEW t \in Txns, CommitCancel(t) PROVE Kept
    BY <2>2 DEF CommitCancel, CommitWith
  <2>3. ASSUME NEW t \in Txns, CommitBatch(t) PROVE Kept
    <3>1. PICK sent \in SUBSET Waiting, skipped \in SUBSET Waiting :
             rows' = AfterBatch(sent, skipped)
      BY <2>3 DEF CommitBatch, CommitWith
    <3> QED
      BY <3>1 DEF AfterBatch, Waiting
  <2>4. ASSUME UNCHANGED rows PROVE Kept
    BY <2>4
  <2> QED
    BY <1>1, <2>1, <2>2, <2>3, <2>4 DEF LifeNext, Begin, LoseBatch, Abandon, ChangeList, lifeVars
<1>2. SerialInv /\ [LifeNext]_lifeVars => [campaign.launched => Kept]_lifeVars
  BY <1>1
<1> QED
  BY <1>2, SerialInvHolds, PTL DEF LifeSpec, ImmutableAudience

-----------------------------------------------------------------------------
(* The composition *)

\* Every step of the composition is an operation of the campaign's life, or leaves the
\* campaign, its recipients and its contacts alone.
LEMMA ContentStepIsLifeStep == [ContentNext]_contentAllVars => [LifeNext]_lifeVars
<1> SUFFICES ASSUME [ContentNext]_contentAllVars PROVE [LifeNext]_lifeVars
  OBVIOUS
<1>1. ASSUME NEW t \in Txns, NEW op \in Ops, NEW l \in Lists, BeginOperation(t, op, l)
      PROVE  LifeNext
  BY <1>1 DEF BeginOperation, LifeNext
<1>2. ASSUME NEW t \in Txns, CommitOperation(t) PROVE LifeNext
  BY <1>2 DEF CommitOperation, CommitContent, CommitMails, LoseMails, LifeNext
<1>3. ASSUME NEW l \in Lists, NEW p \in People, ContactsChange(l, p) PROVE LifeNext
  BY <1>3 DEF ContactsChange, LifeNext
<1>4. ASSUME NEW x \in Tmpls, NEW row, Request(x, row) PROVE UNCHANGED lifeVars
  BY <1>4 DEF Request
<1> QED
  BY <1>1, <1>2, <1>3, <1>4
  DEF ContentNext, contentAllVars, CreateTemplate, EditTemplate, Write, DuplicateTemplate,
      PublishTemplate, ArchiveTemplate, RestoreTemplate, DeleteTemplate, SetStatus

\* A campaign that mails templates lives the life of CampaignLifecycle: what is proved of
\* that life holds of the composition.
THEOREM ContentImplementsLife == ContentSpec => LifeSpec
<1>1. ContentInit => LifeInit
  BY DEF ContentInit
<1> QED
  BY <1>1, ContentStepIsLifeStep, PTL DEF ContentSpec, LifeSpec

-----------------------------------------------------------------------------
(* The template of a launched campaign *)

Active == {"scheduled", "running", "paused"}

\* What a review saw stays so until the operation ends.
ReviewedTemplate ==
    \A t \in Txns : job[t].op # "idle" /\ Reviews(job[t].op) => Usable(chosen)

\* The strengthening: an operation under way may be about to launch the campaign.
TemplateInv ==
    /\ SerialInv
    /\ ContentTypeOK
    /\ ReviewedTemplate
    /\ LaunchedKeepsTemplate

\* An operation leaves an active campaign only if it reviewed it or found it active.
LEMMA ActiveIsReviewed ==
    ASSUME NEW c \in Campaign, NEW op \in Ops, NEW l \in Lists, Checked(op, c),
           AfterOp(op, c, l).status \in Active, ~AfterOp(op, c, l).deleted
    PROVE  /\ op # "edit"
           /\ \/ op \in {"review", "schedule", "launch", "resume"}
              \/ op = "process" /\ c.status = "scheduled"
              \/ c.status \in Active /\ ~c.deleted
<1>0. c \in Launching /\ [c EXCEPT !.list = l, !.counted = FALSE] \in Launching
  BY CampaignIsLaunching DEF Campaign
<1>1. op # "edit"
  <2>1. op = "edit" => AfterOp(op, c, l) = Move([c EXCEPT !.list = l, !.counted = FALSE], "draft")
    BY DEF AfterOp
  <2> QED
    BY <1>0, <2>1, MoveMoves DEF Active, Statuses
<1>2. ASSUME op \in {"limits", "cancel", "archive"} PROVE FALSE
  <2>1. \E to \in {"draft", "cancelled", "archived"} : AfterOp(op, c, l) = Move(c, to)
    BY <1>2 DEF AfterOp
  <2> QED
    BY <1>0, <2>1, MoveMoves DEF Active, Statuses
<1>3. op # "restore"
  <2>1. op = "restore" => AfterOp(op, c, l) = Restored(c)
    BY DEF AfterOp
  <2>2. Restored(c).status \in {"completed", "cancelled", "draft"}
    BY DEF Restored, Campaign
  <2> QED
    BY <2>1, <2>2 DEF Active
<1>4. op # "delete"
  <2> DEFINE m == IF c.status = "scheduled" THEN Move(c, "cancelled") ELSE c
  <2>1. m \in Campaign
    BY <1>0, MoveIsTyped DEF Statuses
  <2>2. op = "delete" => AfterOp(op, c, l) = [m EXCEPT !.deleted = TRUE]
    BY DEF AfterOp
  <2> HIDE DEF m
  <2> QED
    BY <2>1, <2>2 DEF Campaign
<1>5. op \in {"pause", "process"} => c.status \in {"running", "scheduled"}
  BY DEF Checked
<1> QED
  BY <1>1, <1>2, <1>3, <1>4, <1>5 DEF Ops, Active, Checked

\* The end of an operation that leaves the campaign c, in which nothing changes about the
\* templates.
LEMMA CommitKeepsTemplate ==
    ASSUME TemplateInv, SerialInv', ContentTypeOK', NEW t \in Txns, job[t].op # "idle",
           \A u \in Txns : job'[u].op = "idle", tmpl' = tmpl, regular' = regular,
           chosen' = chosen \/ job[t].op = "edit",
           \/ campaign' = job[t].new
           \/ campaign'.status = "completed"
    PROVE  TemplateInv'
<1>1. ReviewedTemplate'
  BY DEF ReviewedTemplate
<1>2. LaunchedKeepsTemplate'
  <2> SUFFICES ASSUME campaign'.status \in Active, ~campaign'.deleted PROVE Usable(chosen)'
    BY DEF LaunchedKeepsTemplate, Active
  <2>1. /\ campaign' = job[t].new
        /\ campaign \in Campaign /\ job[t].op \in Ops /\ Checked(job[t].op, campaign)
    BY OpenOperation DEF TemplateInv, Active
  <2>2. PICK l \in Lists : job[t].new = AfterOp(job[t].op, campaign, l)
    BY DEF TemplateInv, SerialInv, ReadsAreFresh
  <2>3. /\ job[t].op # "edit"
        /\ Reviews(job[t].op) \/ (campaign.status \in Active /\ ~campaign.deleted)
    BY <2>1, <2>2, ActiveIsReviewed DEF Reviews
  <2>4. Usable(chosen)
    BY <2>3 DEF TemplateInv, ReviewedTemplate, LaunchedKeepsTemplate, Active
  <2> QED
    BY <2>3, <2>4 DEF Usable, Live
<1> QED
  BY <1>1, <1>2 DEF TemplateInv

LEMMA ContentStarts == ContentInit => ContentTypeOK /\ ReviewedTemplate /\ LaunchedKeepsTemplate
<1> SUFFICES ASSUME ContentInit
             PROVE  ContentTypeOK /\ ReviewedTemplate /\ LaunchedKeepsTemplate
  OBVIOUS
<1>1. ContentTypeOK
  BY ContentAssumption DEF ContentInit, ContentTypeOK, NoRow, NoCopy, Template, Content
<1>2. ReviewedTemplate
  BY DEF ContentInit, LifeInit, NoJob, ReviewedTemplate
<1>3. LaunchedKeepsTemplate
  BY DEF ContentInit, LifeInit, Created, LaunchedKeepsTemplate
<1> QED
  BY <1>1, <1>2, <1>3

\* Copies are made of a template that is there, and so are mails.
LEMMA CopyIsTyped ==
    ASSUME ContentTypeOK, chosen \in Tmpls
    PROVE  Current \in Content /\ Letter \in Content
<1>1. tmpl[chosen] \in Template
  BY DEF ContentTypeOK
<1>2. Current \in Content
  BY <1>1 DEF Current, Content, Template
<1>3. Letter \in Content
  BY DEF Letter, ContentTypeOK
<1> QED
  BY <1>2, <1>3

\* A request on a template while no operation on the campaign is open: a template in use
\* stays usable.
LEMMA RequestKeepsTemplate ==
    ASSUME TemplateInv, SerialInv', NEW x \in Tmpls, NEW row \in Template, Request(x, row),
           texts' \in 0..MaxTexts,
           row.status \in {"draft", "published"} \/ ~Used(x)
    PROVE  TemplateInv'
<1>1. /\ tmpl' = [tmpl EXCEPT ![x] = row]
      /\ \A t \in Txns : job[t].op = "idle"
      /\ UNCHANGED <<campaign, job, regular, chosen, copy, letters>>
  BY DEF Request, lifeVars
<1>2. ContentTypeOK'
  BY <1>1 DEF TemplateInv, ContentTypeOK
<1>3. ReviewedTemplate'
  BY <1>1 DEF ReviewedTemplate
<1>4. LaunchedKeepsTemplate'
  <2> SUFFICES ASSUME campaign.status \in Active, ~campaign.deleted PROVE Usable(chosen)'
    BY <1>1 DEF LaunchedKeepsTemplate, Active
  <2>1. Usable(chosen)
    BY DEF TemplateInv, LaunchedKeepsTemplate, Active
  <2>2. tmpl'[chosen] = IF chosen = x THEN row ELSE tmpl[chosen]
    BY <1>1, <2>1 DEF TemplateInv, ContentTypeOK, Usable, Live
  <2>3. chosen = x => row.status \in {"draft", "published"}
    BY DEF Used, Active
  <2> QED
    BY <1>1, <2>1, <2>2, <2>3 DEF Usable, Live
<1> QED
  BY <1>2, <1>3, <1>4 DEF TemplateInv

LEMMA TemplateInvStep ==
    ASSUME Overlap = FALSE, TemplateInv, [ContentNext]_contentAllVars
    PROVE  TemplateInv'
<1>0. SerialInv'
  BY ContentStepIsLifeStep, SerialInvStep DEF TemplateInv
<1>1. ASSUME NEW t \in Txns, NEW op \in Ops, NEW l \in Lists, BeginOperation(t, op, l)
      PROVE  TemplateInv'
  <2>1. /\ \A u \in Txns : job[u].op = "idle"
        /\ job' = [job EXCEPT ![t] = [op |-> op, seen |-> campaign,
                                      new |-> AfterOp(op, campaign, l),
                                      audience |-> IF Snapshots(op, campaign)
                                                   THEN members[campaign.list] ELSE {}]]
        /\ UNCHANGED campaign
        /\ UNCHANGED <<regular, tmpl, chosen, copy, texts, letters>>
        /\ Reviews(op) => Usable(chosen)
    BY <1>1 DEF BeginOperation, Begin, contentVars
  <2>2. job'[t].op = op /\ \A u \in Txns \ {t} : job'[u].op = "idle"
    BY <2>1 DEF TemplateInv, SerialInv, LifecycleTypeOK
  <2>3. ReviewedTemplate'
    BY <2>1, <2>2 DEF ReviewedTemplate, Reviews, Usable, Live
  <2>4. ContentTypeOK' /\ LaunchedKeepsTemplate'
    BY <2>1 DEF TemplateInv, ContentTypeOK, LaunchedKeepsTemplate, Usable, Live
  <2> QED
    BY <1>0, <2>3, <2>4 DEF TemplateInv
<1>2. ASSUME NEW t \in Txns, CommitContent(t) PROVE TemplateInv'
  <2>1. /\ job[t].op \notin {"idle", "process"} /\ CommitRequest(t)
        /\ UNCHANGED <<regular, tmpl, texts, letters>>
        /\ chosen' = chosen \/ job[t].op = "edit"
        /\ chosen' \in Tmpls \cup {NoTemplate, chosen}
        /\ copy' \in {Current, NoCopy, copy}
        /\ copy' = Current => Snapshots(job[t].op, job[t].seen) \/ copy' \in {NoCopy, copy}
    BY <1>2 DEF CommitContent, CommitRequest
  <2>2. /\ job[t].new \in Campaign
        /\ \E rs, l : CommitWith(t, job[t].new, rs, l)
    BY <2>1, OpenOperation DEF CommitRequest, TemplateInv
  <2>3. campaign' = job[t].new /\ \A u \in Txns : job'[u].op = "idle"
    BY <2>1, <2>2, CommitAlone DEF TemplateInv
  <2>4. Snapshots(job[t].op, job[t].seen) => chosen \in Tmpls
    BY <1>2 DEF CommitContent, Live
  <2>5. NoCopy \in Content
    BY ContentAssumption DEF NoCopy, Content
  <2>6. ContentTypeOK'
    BY <2>1, <2>4, <2>5, CopyIsTyped DEF TemplateInv, ContentTypeOK
  <2> QED
    BY <1>0, <2>1, <2>3, <2>6, CommitKeepsTemplate
<1>3. ASSUME NEW t \in Txns, CommitMails(t) PROVE TemplateInv'
  <2>1. /\ CommitBatch(t) /\ job[t].op = "process"
        /\ UNCHANGED <<regular, tmpl, chosen, copy, texts>>
        /\ letters' = letters \/ (Live(chosen) /\ letters' = letters \cup {Letter})
    BY <1>3 DEF CommitMails, MailLetters, CommitBatch
  <2>2. PICK c, rs : CommitWith(t, c, rs, origin) /\ c \in {job[t].new, Move(job[t].new, "completed")}
    BY <2>1 DEF CommitBatch
  <2>3. job[t].new \in Campaign
    BY <2>1, OpenOperation DEF TemplateInv
  <2>4. /\ Move(job[t].new, "completed") \in Campaign
        /\ Move(job[t].new, "completed").status = "completed"
    <3>1. job[t].new \in Launching /\ "completed" \in Statuses
      BY <2>3, CampaignIsLaunching DEF Statuses
    <3> QED
      BY <3>1, MoveIsTyped, MoveMoves
  <2>5. campaign' = c /\ \A u \in Txns : job'[u].op = "idle"
    BY <2>1, <2>2, <2>3, <2>4, CommitAlone DEF TemplateInv
  <2>6. ContentTypeOK'
    BY <2>1, CopyIsTyped DEF TemplateInv, ContentTypeOK, Live
  <2> QED
    BY <1>0, <2>1, <2>2, <2>4, <2>5, <2>6, CommitKeepsTemplate
<1>4. ASSUME NEW t \in Txns, CommitCancel(t), UNCHANGED contentVars PROVE TemplateInv'
  <2>1. job[t].op = "cancel" /\ \E rs, l : CommitWith(t, job[t].new, rs, l)
    BY <1>4 DEF CommitCancel
  <2>2. job[t].new \in Campaign
    BY <2>1, OpenOperation DEF TemplateInv
  <2>3. campaign' = job[t].new /\ \A u \in Txns : job'[u].op = "idle"
    BY <2>1, <2>2, CommitAlone DEF TemplateInv
  <2>4. ContentTypeOK' /\ UNCHANGED <<regular, tmpl, chosen>>
    BY <1>4 DEF contentVars, TemplateInv, ContentTypeOK
  <2> QED
    BY <1>0, <2>1, <2>3, <2>4, CommitKeepsTemplate
<1>5. ASSUME NEW t \in Txns, Abandon(t), UNCHANGED contentVars PROVE TemplateInv'
  <2>1. /\ job' = [job EXCEPT ![t] = NoJob] /\ UNCHANGED campaign
        /\ UNCHANGED <<regular, tmpl, chosen, copy, texts, letters>>
    BY <1>5 DEF Abandon, contentVars
  <2>2. job'[t].op = "idle" /\ \A u \in Txns \ {t} : job'[u] = job[u]
    BY <2>1 DEF NoJob, TemplateInv, SerialInv, LifecycleTypeOK
  <2> QED
    BY <1>0, <2>1, <2>2 DEF TemplateInv, ContentTypeOK, ReviewedTemplate,
                            LaunchedKeepsTemplate, Reviews, Usable, Live
<1>6. ASSUME UNCHANGED <<campaign, job, regular, tmpl, chosen, copy, texts, letters>>
      PROVE  TemplateInv'
  BY <1>0, <1>6 DEF TemplateInv, ContentTypeOK, ReviewedTemplate, LaunchedKeepsTemplate,
                    Reviews, Usable, Live
<1>7. ASSUME NEW x \in Tmpls, Write(x) PROVE TemplateInv'
  <2>1. Request(x, [status |-> "draft", text |-> texts + 1])
    BY <1>7 DEF Write
  <2>2. texts + 1 \in 0..MaxTexts /\ texts' = texts + 1
    BY <1>7, ContentAssumption DEF Write, TemplateInv, ContentTypeOK
  <2>3. [status |-> "draft", text |-> texts + 1] \in Template
    BY <2>2, ContentAssumption DEF Template
  <2> QED
    BY <1>0, <2>1, <2>2, <2>3, RequestKeepsTemplate
<1>8. ASSUME NEW x \in Tmpls, NEW s \in {"draft", "published", "archived", "deleted"},
             SetStatus(x, s), s \in {"draft", "published"} \/ ~Used(x)
      PROVE  TemplateInv'
  <2> DEFINE row == [tmpl[x] EXCEPT !.status = s]
  <2>1. row \in Template /\ row.status = s
    BY DEF TemplateInv, ContentTypeOK, Template
  <2>2. Request(x, row) /\ texts' \in 0..MaxTexts
    BY <1>8 DEF SetStatus, TemplateInv, ContentTypeOK
  <2> HIDE DEF row
  <2> QED
    BY <1>0, <1>8, <2>1, <2>2, RequestKeepsTemplate
<1>9. ASSUME NEW x \in Tmpls, NEW y \in Tmpls, DuplicateTemplate(x, y) PROVE TemplateInv'
  <2> DEFINE row == [tmpl[x] EXCEPT !.status = "draft"]
  <2>1. row \in Template /\ row.status = "draft"
    BY DEF TemplateInv, ContentTypeOK, Template
  <2>2. Request(y, row) /\ texts' \in 0..MaxTexts
    BY <1>9 DEF DuplicateTemplate, TemplateInv, ContentTypeOK
  <2> HIDE DEF row
  <2> QED
    BY <1>0, <2>1, <2>2, RequestKeepsTemplate
<1>10. ASSUME NEW x \in Tmpls,
              \/ CreateTemplate(x) \/ EditTemplate(x) \/ PublishTemplate(x)
              \/ ArchiveTemplate(x) \/ RestoreTemplate(x) \/ DeleteTemplate(x)
       PROVE  TemplateInv'
  BY <1>7, <1>8, <1>10 DEF CreateTemplate, EditTemplate, PublishTemplate, ArchiveTemplate,
                           RestoreTemplate, DeleteTemplate
<1>11. ASSUME NEW t \in Txns, LoseMails(t) PROVE TemplateInv'
  <2>1. /\ job' = [job EXCEPT ![t] = NoJob] /\ UNCHANGED campaign
        /\ UNCHANGED <<regular, tmpl, chosen, copy, texts>>
        /\ letters' = letters \/ (Live(chosen) /\ letters' = letters \cup {Letter})
    BY <1>11 DEF LoseMails, LoseBatch, MailLetters
  <2>2. job'[t].op = "idle" /\ \A u \in Txns \ {t} : job'[u] = job[u]
    BY <2>1 DEF NoJob, TemplateInv, SerialInv, LifecycleTypeOK
  <2>3. ContentTypeOK'
    BY <2>1, CopyIsTyped DEF TemplateInv, ContentTypeOK, Live
  <2> QED
    BY <1>0, <2>1, <2>2, <2>3 DEF TemplateInv, ReviewedTemplate, LaunchedKeepsTemplate,
                                  Reviews, Usable, Live
<1>12. ASSUME NEW t \in Txns, CommitOperation(t) PROVE TemplateInv'
  BY <1>2, <1>3, <1>4, <1>5, <1>11, <1>12 DEF CommitOperation
<1>13. ASSUME NEW l \in Lists, NEW p \in People, ContactsChange(l, p) PROVE TemplateInv'
  BY <1>6, <1>13 DEF ContactsChange, ChangeList, contentVars
<1>14. CASE UNCHANGED contentAllVars
  BY <1>6, <1>14 DEF contentAllVars, contentVars, lifeVars
<1> QED
  BY <1>1, <1>9, <1>10, <1>12, <1>13, <1>14 DEF ContentNext

\* A campaign that is scheduled, running or paused has a template that is not archived, nor
\* deleted if the campaign names it itself, through any number of reviews, archives, restores
\* and requests on templates.
THEOREM TemplatesAreKept ==
    ASSUME Overlap = FALSE PROVE ContentSpec => []LaunchedKeepsTemplate
<1>1. Overlap = FALSE
  OBVIOUS
<1>2. ContentInit => TemplateInv
  BY ContentStarts, SerialInvStarts DEF ContentInit, TemplateInv
<1>3. TemplateInv /\ [ContentNext]_contentAllVars => TemplateInv'
  BY <1>1, TemplateInvStep
<1>4. TemplateInv => LaunchedKeepsTemplate
  BY DEF TemplateInv
<1> QED
  BY <1>2, <1>3, <1>4, PTL DEF ContentSpec

-----------------------------------------------------------------------------
(* The text of the mails *)

\* The copies of those who wait are of the chosen template, and every letter that was sent
\* is the present copy: letters are of a launched campaign only, which keeps its template and
\* its recipients.
LettersInv ==
    /\ letters # {} => campaign.launched
    /\ (\E p \in People : rows[p] = "pending") => copy.of = chosen
    /\ \A a \in letters : a.of = chosen /\ a.of = copy.of /\ a.text = copy.text

\* A launch is never taken back.
LEMMA LaunchStays ==
    ASSUME Overlap = FALSE, SerialInv, [LifeNext]_lifeVars, campaign.launched
    PROVE  campaign'.launched
<1>1. ASSUME NEW t \in Txns, job[t].op # "idle", job[t].new.launched,
             NEW c \in {job[t].new, Move(job[t].new, "completed")},
             NEW rs, NEW l, CommitWith(t, c, rs, l)
      PROVE  campaign'.launched
  <2>1. job[t].new \in Launching /\ job[t].new \in Campaign /\ "completed" \in Statuses
    BY <1>1, OpenOperation, CampaignIsLaunching DEF Statuses
  <2>2. c \in Campaign /\ c.launched
    BY <1>1, <2>1, MoveIsTyped, MoveMoves
  <2> QED
    BY <1>1, <2>2, CommitAlone
<1>2. ASSUME NEW t \in Txns, job[t].op # "idle" PROVE job[t].new.launched
  <2>1. /\ campaign \in Campaign /\ job[t].op \in Ops /\ Checked(job[t].op, campaign)
        /\ StampsTellStatus(campaign)
    BY <1>2, OpenOperation DEF SerialInv
  <2>2. \E l \in Lists : job[t].new = AfterOp(job[t].op, campaign, l)
    BY <1>2 DEF SerialInv, ReadsAreFresh
  <2> QED
    BY <2>1, <2>2, LaunchLasts
<1>3. ASSUME NEW t \in Txns, CommitRequest(t) \/ CommitCancel(t) \/ CommitBatch(t)
      PROVE  campaign'.launched
  <2>1. /\ job[t].op # "idle"
        /\ \E c \in {job[t].new, Move(job[t].new, "completed")} : \E rs, l :
              CommitWith(t, c, rs, l)
    BY <1>3 DEF CommitRequest, CommitCancel, CommitBatch
  <2> QED
    BY <1>1, <1>2, <2>1
<1> QED
  BY <1>3 DEF LifeNext, Begin, LoseBatch, Abandon, ChangeList, lifeVars

\* A batch that mails somebody found him waiting.
LEMMA MailedWaited ==
    ASSUME SerialInv, NEW t \in Txns, CommitBatch(t) \/ LoseBatch(t), mailed' # mailed
    PROVE  \E p \in People : rows[p] = "pending"
<1>1. mailed \in [People -> 0..MaxMails]
  BY DEF SerialInv, LifecycleTypeOK
<1>2. PICK out \in SUBSET Waiting :
           mailed' = [p \in People |-> IF p \in out /\ mailed[p] < MaxMails
                                       THEN mailed[p] + 1 ELSE mailed[p]]
  <2>1. PICK sent \in SUBSET Waiting, gone \in SUBSET Waiting : MailsLeave(sent, gone)
    BY DEF CommitBatch, LoseBatch
  <2>2. sent \cup gone \in SUBSET Waiting
    OBVIOUS
  <2> QED
    BY <2>1, <2>2 DEF MailsLeave
<1>3. PICK p \in People : mailed'[p] # mailed[p]
  BY <1>1, <1>2
<1> QED
  BY <1>2, <1>3 DEF Waiting

LEMMA LettersStep ==
    ASSUME Overlap = FALSE, TemplateInv, LettersInv, [ContentNext]_contentAllVars
    PROVE  LettersInv'
<1>1. SerialInv /\ [LifeNext]_lifeVars
  BY ContentStepIsLifeStep DEF TemplateInv
<1>2. ASSUME UNCHANGED <<chosen, copy, letters>>,
             \A p \in People : rows'[p] = "pending" => rows[p] = "pending"
      PROVE  LettersInv'
  BY <1>1, <1>2, LaunchStays DEF LettersInv
<1>3. ASSUME NEW t \in Txns, CommitContent(t) PROVE LettersInv'
  <2>1. /\ CommitRequest(t) /\ job[t].op # "idle" /\ letters' = letters
        /\ job[t].op # "edit" => chosen' = chosen
        /\ copy' = IF Snapshots(job[t].op, job[t].seen) THEN Current
                   ELSE IF Deletes(job[t].op) THEN NoCopy ELSE copy
    BY <1>3 DEF CommitContent, CommitRequest
  <2>2. letters # {} => job[t].op \notin {"edit", "schedule", "launch"}
    <3>1. letters # {} => campaign.launched
      BY DEF LettersInv
    <3>2. /\ campaign \in Campaign /\ job[t].op \in Ops /\ Checked(job[t].op, campaign)
          /\ StampsTellStatus(campaign)
      BY <1>1, <2>1, OpenOperation DEF SerialInv
    <3>3. \E l \in Lists : job[t].new = AfterOp(job[t].op, campaign, l)
      BY <1>1, <2>1 DEF SerialInv, ReadsAreFresh
    <3> QED
      BY <3>1, <3>2, <3>3, LaunchLasts
  <2>3. CASE Snapshots(job[t].op, job[t].seen)
    <3>1. job[t].op \in {"schedule", "launch"} /\ letters' = {}
      BY <2>1, <2>2, <2>3 DEF Snapshots
    <3>2. copy'.of = chosen'
      BY <2>1, <2>3, <3>1 DEF Current
    <3> QED
      BY <3>1, <3>2 DEF LettersInv
  <2>4. CASE ~Snapshots(job[t].op, job[t].seen) /\ Deletes(job[t].op)
    <3>1. letters' = {}
      BY <2>1, <2>2, <2>4 DEF Deletes
    <3>2. rows' = [p \in People |-> "none"]
      BY <2>1, <2>4 DEF CommitRequest, CommitWith
    <3> QED
      BY <3>1, <3>2 DEF LettersInv
  <2>5. CASE ~Snapshots(job[t].op, job[t].seen) /\ ~Deletes(job[t].op)
    <3>1. UNCHANGED <<chosen, copy, letters>>
      BY <2>1, <2>5 DEF Deletes
    <3>2. rows' = rows
      BY <2>1, <2>5 DEF CommitRequest, CommitWith
    <3> QED
      BY <1>2, <3>1, <3>2
  <2> QED
    BY <2>3, <2>4, <2>5
<1>4. ASSUME NEW t \in Txns, CommitMails(t) \/ LoseMails(t) PROVE LettersInv'
  <2>1. /\ CommitBatch(t) \/ LoseBatch(t)
        /\ UNCHANGED <<chosen, copy>>
        /\ letters' = IF mailed' # mailed /\ campaign'.launched THEN letters \cup {Letter}
                      ELSE letters
    BY <1>4 DEF CommitMails, LoseMails, MailLetters
  <2>2. \A p \in People : rows'[p] = "pending" => rows[p] = "pending"
    BY <2>1 DEF CommitBatch, LoseBatch, CommitWith, AfterBatch
  <2>3. CASE mailed' # mailed /\ campaign'.launched
    <3>1. copy.of = chosen
      BY <1>1, <2>1, <2>3, MailedWaited DEF LettersInv
    <3> QED
      BY <2>1, <2>2, <2>3, <3>1 DEF LettersInv, Letter
  <2>4. CASE ~(mailed' # mailed /\ campaign'.launched)
    BY <1>2, <2>1, <2>2, <2>4
  <2> QED
    BY <2>3, <2>4
<1>5. ASSUME NEW t \in Txns, CommitCancel(t), UNCHANGED contentVars PROVE LettersInv'
  <2>1. \A p \in People : rows'[p] = "pending" => rows[p] = "pending"
    BY <1>5 DEF CommitCancel, CommitWith
  <2> QED
    BY <1>2, <1>5, <2>1 DEF contentVars
<1>6. ASSUME NEW x \in Tmpls, NEW row, Request(x, row) PROVE LettersInv'
  BY <1>2, <1>6 DEF Request, lifeVars
<1>7. ASSUME NEW t \in Txns, CommitOperation(t) PROVE LettersInv'
  BY <1>2, <1>3, <1>4, <1>5, <1>7 DEF CommitOperation, Abandon, contentVars
<1>8. ASSUME UNCHANGED contentVars, UNCHANGED rows PROVE LettersInv'
  BY <1>2, <1>8 DEF contentVars
<1> QED
  BY <1>6, <1>7, <1>8
  DEF ContentNext, contentAllVars, lifeVars, BeginOperation, Begin, ContactsChange, ChangeList,
      CreateTemplate, EditTemplate, Write, DuplicateTemplate, PublishTemplate, ArchiveTemplate,
      RestoreTemplate, DeleteTemplate, SetStatus

\* All mails of a campaign since its launch was committed carry one text, of the template the
\* campaign names, whatever is written, published, archived, deleted, chosen or rolled back
\* meanwhile.
THEOREM OneTextIsMailed ==
    ASSUME Overlap = FALSE PROVE ContentSpec => []OneText
<1>1. Overlap = FALSE
  OBVIOUS
<1>2. ContentInit => TemplateInv /\ LettersInv
  BY ContentStarts, SerialInvStarts DEF ContentInit, LifeInit, TemplateInv, LettersInv
<1>3. TemplateInv /\ LettersInv /\ [ContentNext]_contentAllVars => TemplateInv' /\ LettersInv'
  BY <1>1, TemplateInvStep, LettersStep
<1>4. LettersInv => OneText
  BY DEF LettersInv, OneText
<1> QED
  BY <1>2, <1>3, <1>4, PTL DEF ContentSpec

=============================================================================
