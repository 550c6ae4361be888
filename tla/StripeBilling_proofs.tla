------------------------- MODULE StripeBilling_proofs -------------------------
(***************************************************************************)
(* Proofs about StripeBilling, for any plans, any number of requests and   *)
(* deliveries that are open at once, and any number of subscriptions and   *)
(* events.                                                                 *)
(***************************************************************************)
EXTENDS StripeBilling, SequenceTheorems, TLAPS

-----------------------------------------------------------------------------
(* Shape *)

\* The subscriptions Stripe knows, the events it emitted and those the ledger has.
Books ==
    /\ remote \in Seq(Remote) /\ Len(remote) <= MaxSubs
    /\ events \in Seq(Event) /\ Len(events) <= MaxEvents
    /\ ledger \subseteq 1..Len(events)
    /\ row \in Subscription /\ row.provider <= Len(remote)
    /\ excuse \in {"none", "passing", "lasting"}
    /\ \A i \in 1..Len(events) : events[i].sub <= Len(remote)
    /\ Len(remote) = 0 => Len(events) = 0

\* What an open request or delivery has read, and what it was answered.  No event but the
\* second of a failed payment comes right after another one.
SoundJob(j) ==
    /\ j.seen.provider <= Len(remote)
    /\ j.step = "hook" => j.event \in 1..Len(events)
    /\ j.step \in {"call", "write"} => j.seen.provider # 0
    /\ j.step = "write" => /\ j.mark <= Len(events)
                           /\ j.wish \in Plans => j.answer.plan = j.wish
                           /\ j.mark < Len(events) => events[j.mark + 1].type # "failed"

SoundReplies ==
    \A k \in replies :
        /\ k \in [sub : 0..Len(remote), wish : Plans \cup {"cancel", "resume"}, answer : Remote]
        /\ k.sub # 0 /\ k.wish \in Plans => k.answer.plan = k.wish

BillingShape ==
    /\ Books
    /\ job \in [Requests \cup Hooks -> Job] /\ \A x \in Requests \cup Hooks : SoundJob(job[x])
    /\ carts \subseteq Plans
    /\ SoundReplies

LEMMA ConstantsAreTyped ==
    /\ FreshSubscription \in Subscription /\ FreshRemote \in Remote /\ NoJob \in Job
    /\ NoJob.step = "idle" /\ NoJob.seen.provider = 0
BY BillingAssumption DEF FreshSubscription, FreshRemote, NoJob, Subscription, Remote, Job, Status

\* A write of the changed columns, column by column.
LEMMA MergedRow ==
    ASSUME NEW old \in Subscription, NEW new \in Subscription, NEW current \in Subscription
    PROVE  LET m == MergeColumns(old, new, current) IN
           /\ m \in Subscription
           /\ m.provider = IF new.provider = old.provider THEN current.provider ELSE new.provider
           /\ m.plan = IF new.plan = old.plan THEN current.plan ELSE new.plan
           /\ m.status = IF new.status = old.status THEN current.status ELSE new.status
           /\ m.cancel = IF new.cancel = old.cancel THEN current.cancel ELSE new.cancel
BY DEF MergeColumns, Subscription

\* What an event writes.
LEMMA EventRow ==
    ASSUME NEW e \in Event, NEW s \in Subscription
    PROVE  LET a == AfterEvent(e, s) IN
           /\ a \in Subscription
           /\ e.type # "failed" => a.provider = e.sub /\ a.plan = e.plan
           /\ e.type = "snapshot" => a.status = e.status /\ a.cancel = e.cancel
           /\ e.type = "checkout" => a.status = "active" /\ a.cancel = FALSE
           /\ e.type = "failed" => /\ a.provider = s.provider /\ a.plan = s.plan
                                   /\ a.cancel = s.cancel /\ a.status = "past_due"
<1>1. e.type \in {"snapshot", "checkout", "failed"} /\ e.sub \in 0..MaxSubs
  BY DEF Event
<1>2. CASE e.type = "snapshot"
  BY <1>1, <1>2 DEF AfterEvent, AfterSnapshot, Event, Subscription
<1>3. CASE e.type = "checkout"
  BY <1>1, <1>3 DEF AfterEvent, AfterCheckout, Event, Subscription, Status
<1>4. CASE e.type = "failed"
  BY <1>1, <1>4 DEF AfterEvent, AfterFailure, Event, Subscription, Status
<1> QED
  BY <1>1, <1>2, <1>3, <1>4

\* What the answer to a request writes.
LEMMA RequestRow ==
    ASSUME NEW s \in Subscription, NEW w \in Plans \cup {"cancel", "resume"},
           NEW answer \in Remote
    PROVE  LET a == AfterRequest(s, w, answer) IN
           /\ a \in Subscription /\ a.provider = s.provider /\ a.cancel = answer.cancel
           /\ w \in Plans => a.plan = w /\ a.status = answer.status
           /\ w \notin Plans => a.plan = s.plan /\ a.status = s.status
BY DEF AfterRequest, Subscription, Remote

\* What Stripe makes of a request.
LEMMA GrantedRemote ==
    ASSUME NEW s \in Remote, NEW w \in Plans \cup {"cancel", "resume"}
    PROVE  Granted(s, w) \in Remote /\ (w \in Plans => Granted(s, w).plan = w)
<1>1. CASE w = "cancel"
  BY <1>1, BillingAssumption DEF Granted, Remote
<1>2. CASE w = "resume"
  BY <1>2, BillingAssumption DEF Granted, Remote
<1>3. CASE w # "cancel" /\ w # "resume"
  BY <1>3 DEF Granted, Remote
<1> QED
  BY <1>1, <1>2, <1>3

\* What Stripe reports.
LEMMA Notices ==
    ASSUME NEW n \in 1..MaxSubs, NEW s \in Remote,
           NEW type \in {"checkout", "failed"}
    PROVE  /\ Snapshot(n, s) \in Event /\ Notice(type, n, s) \in Event
           /\ Snapshot(n, s).type = "snapshot" /\ Notice(type, n, s).type = type
           /\ Snapshot(n, s).sub = n /\ Notice(type, n, s).sub = n
           /\ Snapshot(n, s).plan = s.plan /\ Notice(type, n, s).plan = s.plan
           /\ Snapshot(n, s).status = s.status /\ Notice(type, n, s).status = s.status
           /\ Snapshot(n, s).cancel = s.cancel /\ Notice(type, n, s).cancel = s.cancel
BY DEF Snapshot, Notice, Event, Remote

LEMMA StartShape == BillingInit => BillingShape
<1> SUFFICES ASSUME BillingInit PROVE BillingShape
  OBVIOUS
<1> USE ConstantsAreTyped
<1>1. /\ remote = <<>> \/ remote = <<FreshRemote>>
      /\ row = [FreshSubscription EXCEPT !.provider = Len(remote)]
      /\ events = <<>> /\ ledger = {} /\ carts = {} /\ replies = {} /\ excuse = "none"
      /\ job = [j \in Requests \cup Hooks |-> NoJob]
  BY DEF BillingInit
<1>2. /\ remote \in Seq(Remote) /\ Len(remote) \in 0..1 /\ Len(remote) <= MaxSubs
      /\ events \in Seq(Event) /\ Len(events) = 0
  <2>1. CASE remote = <<>>
    BY <1>1, <2>1, EmptySeq, BillingAssumption
  <2>2. CASE remote = <<FreshRemote>>
    <3>1. <<FreshRemote>> \in Seq(Remote) /\ Len(<<FreshRemote>>) = 1
      OBVIOUS
    <3> QED
      BY <1>1, <2>2, <3>1, EmptySeq, BillingAssumption
  <2> QED
    BY <1>1, <2>1, <2>2
<1>3. row \in Subscription /\ row.provider = Len(remote)
  <2>1. row = [provider |-> Len(remote), plan |-> DefaultPlan, status |-> "active",
               cancel |-> FALSE]
    BY <1>1 DEF FreshSubscription
  <2>2. Len(remote) \in 0..MaxSubs
    BY <1>2, BillingAssumption
  <2> QED
    BY <2>1, <2>2, BillingAssumption DEF Subscription, Status
<1>4. Books
  BY <1>1, <1>2, <1>3, BillingAssumption DEF Books
<1>5. ASSUME NEW x \in Requests \cup Hooks PROVE SoundJob(job[x])
  BY <1>1, <1>2, <1>5 DEF SoundJob
<1>6. job \in [Requests \cup Hooks -> Job]
  BY <1>1
<1> QED
  BY <1>1, <1>4, <1>5, <1>6 DEF BillingShape, SoundReplies

\* The books only get longer, and a report of Stripe starts with no second event.
Grows ==
    /\ Len(events) <= Len(events') /\ \A i \in 1..Len(events) : events'[i] = events[i]
    /\ Len(events') > Len(events) => events'[Len(events) + 1].type # "failed"
    /\ Len(remote) <= Len(remote')

LEMMA QuietGrows == ASSUME Books, UNCHANGED <<events, remote>> PROVE Grows
<1>1. Len(events) \in Nat /\ Len(remote) \in Nat
  BY LenProperties DEF Books
<1> QED
  BY <1>1 DEF Grows

LEMMA JobStays ==
    ASSUME BillingShape, Books', Grows, NEW x \in Requests \cup Hooks, job'[x] = job[x]
    PROVE  SoundJob(job[x])'
<1>1. SoundJob(job[x]) /\ job[x] \in Job
  BY DEF BillingShape
<1>2. /\ Len(events) \in Nat /\ Len(events') \in Nat /\ Len(remote) \in Nat /\ Len(remote') \in Nat
      /\ job[x].mark \in Nat /\ job[x].seen.provider \in Nat /\ job[x].event \in Nat
  BY <1>1, LenProperties DEF BillingShape, Books, Job, Subscription
<1>3. job[x].step = "hook" => job[x].event \in 1..Len(events')
  BY <1>1, <1>2 DEF SoundJob, Grows
<1>4. job[x].seen.provider <= Len(remote')
  BY <1>1, <1>2 DEF SoundJob, Grows
<1>5. ASSUME job[x].step = "write"
      PROVE  /\ job[x].mark <= Len(events')
             /\ job[x].mark < Len(events') => events'[job[x].mark + 1].type # "failed"
  <2>1. /\ job[x].mark <= Len(events)
        /\ job[x].mark < Len(events) => events[job[x].mark + 1].type # "failed"
    BY <1>1, <1>5 DEF SoundJob
  <2>2. CASE job[x].mark < Len(events)
    <3>1. job[x].mark + 1 \in 1..Len(events)
      BY <1>2, <2>2
    <3> QED
      BY <1>2, <2>1, <2>2, <3>1 DEF Grows
  <2>3. CASE job[x].mark = Len(events)
    BY <1>2, <2>3 DEF Grows
  <2> QED
    BY <1>2, <2>1, <2>2, <2>3
<1> QED
  BY <1>1, <1>3, <1>4, <1>5 DEF SoundJob

\* A step that opens or ends at most one job.
LEMMA ShapeStep ==
    ASSUME BillingShape, Books', Grows, carts' \subseteq Plans, SoundReplies',
           NEW x \in Requests \cup Hooks, NEW j \in Job, job' = [job EXCEPT ![x] = j],
           SoundJob(job[x])'
    PROVE  BillingShape'
<1>1. job' \in [Requests \cup Hooks -> Job]
  BY DEF BillingShape
<1>2. ASSUME NEW y \in Requests \cup Hooks PROVE SoundJob(job[y])'
  <2>1. CASE y = x
    BY <2>1
  <2>2. CASE y # x
    <3>1. job'[y] = job[y]
      BY <2>2 DEF BillingShape
    <3> QED
      BY <3>1, JobStays
  <2> QED
    BY <2>1, <2>2
<1> QED
  BY <1>1, <1>2 DEF BillingShape

LEMMA ShapeKept ==
    ASSUME BillingShape, Books', Grows, carts' \subseteq Plans, SoundReplies', UNCHANGED job
    PROVE  BillingShape'
<1>1. job' \in [Requests \cup Hooks -> Job]
  BY DEF BillingShape
<1>2. ASSUME NEW y \in Requests \cup Hooks PROVE SoundJob(job[y])'
  BY JobStays
<1> QED
  BY <1>1, <1>2 DEF BillingShape

\* Stripe changes subscription n to s and reports t.
Reported(n, s, t) ==
    /\ n \in 1..Len(remote) /\ s \in Remote /\ t \in Seq(Event)
    /\ \A k \in 1..Len(t) : t[k].sub = n
    /\ Len(t) > 0 => t[1].type # "failed"
    /\ Len(events) + Len(t) <= MaxEvents
    /\ Emit(n, s, t)

LEMMA EmitGrows ==
    ASSUME Books, NEW n, NEW s, NEW t, Reported(n, s, t)
    PROVE  /\ Grows /\ remote' \in Seq(Remote) /\ Len(remote') = Len(remote)
           /\ \A m \in 1..Len(remote) : remote'[m] = IF m = n THEN s ELSE remote[m]
           /\ events' \in Seq(Event) /\ Len(events') = Len(events) + Len(t)
           /\ \A i \in 1..Len(events) : events'[i] = events[i]
           /\ \A k \in 1..Len(t) : events'[Len(events) + k] = t[k]
<1>1. /\ n \in 1..Len(remote) /\ s \in Remote /\ t \in Seq(Event)
      /\ remote' = [remote EXCEPT ![n] = s] /\ events' = events \o t
      /\ remote \in Seq(Remote) /\ events \in Seq(Event)
  BY DEF Books, Reported, Emit
<1>2. /\ remote' \in Seq(Remote) /\ Len(remote') = Len(remote)
      /\ \A m \in 1..Len(remote) : remote'[m] = IF m = n THEN s ELSE remote[m]
  BY <1>1, ExceptSeq
<1>3. /\ events' \in Seq(Event) /\ Len(events') = Len(events) + Len(t)
      /\ \A i \in 1..(Len(events) + Len(t)) :
            events'[i] = IF i <= Len(events) THEN events[i] ELSE t[i - Len(events)]
  BY <1>1, ConcatProperties
<1>4. Len(events) \in Nat /\ Len(t) \in Nat /\ Len(remote) \in Nat
  BY <1>1, LenProperties
<1>5. \A i \in 1..Len(events) : events'[i] = events[i]
  BY <1>3, <1>4
<1>6. ASSUME NEW k \in 1..Len(t) PROVE events'[Len(events) + k] = t[k]
  <2>1. /\ Len(events) + k \in 1..(Len(events) + Len(t)) /\ ~(Len(events) + k <= Len(events))
        /\ Len(events) + k - Len(events) = k
    BY <1>4
  <2> QED
    BY <1>3, <2>1
<1>7. Len(events') > Len(events) => events'[Len(events) + 1].type # "failed"
  BY <1>3, <1>4, <1>6 DEF Reported
<1> QED
  BY <1>2, <1>3, <1>4, <1>5, <1>6, <1>7 DEF Grows

LEMMA EmitBooks ==
    ASSUME Books, NEW n, NEW s, NEW t, Reported(n, s, t), UNCHANGED <<row, ledger, excuse>>
    PROVE  Books' /\ Grows
<1>1. /\ Grows /\ remote' \in Seq(Remote) /\ Len(remote') = Len(remote)
      /\ events' \in Seq(Event) /\ Len(events') = Len(events) + Len(t)
      /\ \A i \in 1..Len(events) : events'[i] = events[i]
      /\ \A k \in 1..Len(t) : events'[Len(events) + k] = t[k]
  BY EmitGrows
<1>2. Len(events) \in Nat /\ Len(t) \in Nat /\ Len(remote) \in Nat
  BY LenProperties DEF Books, Reported
<1>3. ASSUME NEW i \in 1..Len(events') PROVE events'[i].sub <= Len(remote')
  <2>1. CASE i <= Len(events)
    BY <1>1, <1>2, <2>1 DEF Books
  <2>2. CASE i > Len(events)
    <3>1. i - Len(events) \in 1..Len(t) /\ Len(events) + (i - Len(events)) = i
      BY <1>1, <1>2, <2>2
    <3>2. events'[i] = t[i - Len(events)]
      BY <1>1, <3>1
    <3> QED
      BY <1>1, <1>2, <3>1, <3>2 DEF Reported
  <2> QED
    BY <1>1, <1>2, <2>1, <2>2
<1>4. ledger' \subseteq 1..Len(events')
  BY <1>1, <1>2 DEF Books
<1>5. Len(remote) # 0
  BY <1>2 DEF Reported
<1> QED
  BY <1>1, <1>2, <1>3, <1>4, <1>5 DEF Books, Reported

\* Reports of Stripe: a change, alone or with the notice of a failed payment or a checkout.
Told(n, s, t) ==
    \/ t = <<Snapshot(n, s)>>
    \/ t = <<Snapshot(n, s), Notice("failed", n, s)>> /\ s.status = "past_due"
    \/ /\ t = <<Snapshot(n, s), Notice("checkout", n, s)>>
       /\ s.status = "active" /\ s.cancel = FALSE

\* They tell one state of one subscription.
AboutOne(n, s, t) ==
    /\ t \in Seq(Event) /\ Len(t) \in 1..2 /\ t[1].type = "snapshot"
    /\ \A k \in 1..Len(t) :
         /\ t[k].sub = n /\ t[k].plan = s.plan /\ t[k].status = s.status
         /\ t[k].cancel = s.cancel
         /\ t[k].type = "checkout" => s.status = "active" /\ s.cancel = FALSE
         /\ t[k].type = "failed" => k = 2 /\ s.status = "past_due"

LEMMA ToldEvents ==
    ASSUME NEW n \in 1..MaxSubs, NEW s \in Remote, NEW t, Told(n, s, t)
    PROVE  AboutOne(n, s, t)
<1> DEFINE a == Snapshot(n, s)
           f == Notice("failed", n, s)
           c == Notice("checkout", n, s)
<1>1. /\ a \in Event /\ a.type = "snapshot" /\ a.sub = n /\ a.plan = s.plan
      /\ a.status = s.status /\ a.cancel = s.cancel
      /\ f \in Event /\ f.type = "failed" /\ f.sub = n /\ f.plan = s.plan
      /\ f.status = s.status /\ f.cancel = s.cancel
      /\ c \in Event /\ c.type = "checkout" /\ c.sub = n /\ c.plan = s.plan
      /\ c.status = s.status /\ c.cancel = s.cancel
  BY Notices
<1>2. \/ t = <<a>>
      \/ t = <<a, f>> /\ s.status = "past_due"
      \/ t = <<a, c>> /\ s.status = "active" /\ s.cancel = FALSE
  BY DEF Told
<1> HIDE DEF a, f, c
<1>3. /\ <<a>> \in Seq(Event) /\ Len(<<a>>) = 1 /\ <<a>>[1] = a
      /\ <<a, f>> \in Seq(Event) /\ Len(<<a, f>>) = 2 /\ <<a, f>>[1] = a /\ <<a, f>>[2] = f
      /\ <<a, c>> \in Seq(Event) /\ Len(<<a, c>>) = 2 /\ <<a, c>>[1] = a /\ <<a, c>>[2] = c
  BY <1>1
<1>4. CASE t = <<a>>
  BY <1>1, <1>3, <1>4 DEF AboutOne
<1>5. CASE t = <<a, f>> /\ s.status = "past_due"
  BY <1>1, <1>3, <1>5 DEF AboutOne
<1>6. CASE t = <<a, c>> /\ s.status = "active" /\ s.cancel = FALSE
  BY <1>1, <1>3, <1>6 DEF AboutOne
<1> QED
  BY <1>2, <1>4, <1>5, <1>6

\* What Stripe does on its own is reported.
LEMMA StripeActs ==
    ASSUME Books, NEW n \in DOMAIN remote,
           PaymentFails(n) \/ PaymentRecovers(n) \/ SubscriptionEnds(n)
    PROVE  \E s, t : Told(n, s, t) /\ Reported(n, s, t)
<1>1. n \in 1..Len(remote) /\ remote[n] \in Remote /\ Len(remote) \in Nat /\ n \in 1..MaxSubs
  BY LenProperties, BillingAssumption DEF Books
<1>2. ASSUME NEW s \in Remote, NEW t, Told(n, s, t), Emit(n, s, t),
             Len(events) + Len(t) <= MaxEvents
      PROVE  Reported(n, s, t)
  <2>1. AboutOne(n, s, t)
    BY <1>1, <1>2, ToldEvents
  <2> QED
    BY <1>1, <1>2, <2>1 DEF AboutOne, Reported
<1>3. CASE PaymentFails(n)
  <2> DEFINE s == [remote[n] EXCEPT !.status = "past_due"]
             t == <<Snapshot(n, s), Notice("failed", n, s)>>
  <2>1. s \in Remote /\ s.status = "past_due"
    BY <1>1 DEF Remote, Status
  <2>2. Emit(n, s, t) /\ Len(events) + 2 <= MaxEvents /\ Len(t) = 2
    BY <1>3 DEF PaymentFails, Room
  <2>3. Told(n, s, t)
    BY <2>1 DEF Told
  <2> HIDE DEF s, t
  <2> QED
    BY <1>2, <2>1, <2>2, <2>3
<1>4. CASE PaymentRecovers(n)
  <2> DEFINE s == [remote[n] EXCEPT !.status = "active"]
             t == <<Snapshot(n, s)>>
  <2>1. s \in Remote
    BY <1>1 DEF Remote, Status
  <2>2. Emit(n, s, t) /\ Len(events) + 1 <= MaxEvents /\ Len(t) = 1
    BY <1>4 DEF PaymentRecovers, Room
  <2>3. Told(n, s, t)
    BY DEF Told
  <2> HIDE DEF s, t
  <2> QED
    BY <1>2, <2>1, <2>2, <2>3
<1>5. CASE SubscriptionEnds(n)
  <2> DEFINE s == [remote[n] EXCEPT !.status = "canceled"]
             t == <<Snapshot(n, s)>>
  <2>1. s \in Remote
    BY <1>1 DEF Remote, Status
  <2>2. Emit(n, s, t) /\ Len(events) + 1 <= MaxEvents /\ Len(t) = 1
    BY <1>5 DEF SubscriptionEnds, Room
  <2>3. Told(n, s, t)
    BY DEF Told
  <2> HIDE DEF s, t
  <2> QED
    BY <1>2, <2>1, <2>2, <2>3
<1> QED
  BY <1>3, <1>4, <1>5

\* What a request makes of Stripe: a report, or nothing at all.
LEMMA CallEffect ==
    ASSUME BillingShape, NEW r \in Requests, CallStripe(r)
    PROVE  LET n == job[r].seen.provider
               s == Granted(remote[n], job[r].wish)
           IN  /\ n \in 1..Len(remote) /\ s \in Remote
               /\ job[r].wish \in Plans => s.plan = job[r].wish
               /\ \/ s = remote[n] /\ Reported(n, s, <<>>) /\ UNCHANGED <<remote, events>>
                  \/ \E t : Told(n, s, t) /\ Reported(n, s, t)
<1> DEFINE n == job[r].seen.provider
           w == job[r].wish
           s == Granted(remote[n], w)
           t == IF s = remote[n] THEN <<>> ELSE <<Snapshot(n, s)>>
<1>1. job[r].step = "call" /\ Emit(n, s, t) /\ Len(events) + 1 <= MaxEvents
  BY DEF CallStripe, Room
<1>2. job[r] \in Job /\ SoundJob(job[r])
  BY DEF BillingShape
<1>3. n \in 1..Len(remote) /\ Len(remote) \in Nat /\ n \in 1..MaxSubs
  BY <1>1, <1>2, LenProperties, BillingAssumption DEF SoundJob, BillingShape, Books, Job, Subscription
<1>4. remote[n] \in Remote /\ w \in Plans \cup {"cancel", "resume"}
  BY <1>2, <1>3, ElementOfSeq DEF BillingShape, Books, Job
<1>5. s \in Remote /\ (w \in Plans => s.plan = w)
  BY <1>4, GrantedRemote
<1> HIDE DEF n, w, s
<1>6. CASE s = remote[n]
  <2>1. t = <<>> /\ t \in Seq(Event) /\ Len(t) = 0
    BY <1>6, EmptySeq
  <2>2. remote' = [remote EXCEPT ![n] = s] /\ events' = events \o <<>>
    BY <1>1, <2>1 DEF Emit
  <2>3. events' = events
    BY <2>2, ConcatEmptySeq DEF BillingShape, Books
  <2>4. remote' = remote
    <3>1. remote \in [1..Len(remote) -> Remote]
      BY LenProperties DEF BillingShape, Books
    <3> QED
      BY <1>3, <1>6, <2>2, <3>1
  <2>5. Reported(n, s, <<>>)
    <3>1. Len(events) \in Nat
      BY LenProperties DEF BillingShape, Books
    <3> QED
      BY <1>1, <1>3, <1>5, <2>1, <3>1, BillingAssumption DEF Reported
  <2> QED
    BY <1>3, <1>5, <1>6, <2>3, <2>4, <2>5 DEF n, w, s
<1>7. CASE s # remote[n]
  <2>1. t = <<Snapshot(n, s)>> /\ Len(t) = 1
    BY <1>7
  <2>2. Told(n, s, t)
    BY <2>1 DEF Told
  <2> HIDE DEF t
  <2>3. AboutOne(n, s, t)
    BY <1>3, <1>5, <2>2, ToldEvents
  <2>4. Reported(n, s, t)
    BY <1>1, <1>3, <1>5, <2>1, <2>3 DEF AboutOne, Reported
  <2> QED
    BY <1>3, <1>5, <2>2, <2>4 DEF n, w, s
<1> QED
  BY <1>6, <1>7

\* A checkout adds a subscription and reports it.
LEMMA PayEffect ==
    ASSUME BillingShape, NEW p \in carts, PayCart(p)
    PROVE  \E s, t :
             /\ Told(Len(remote) + 1, s, t) /\ s \in Remote
             /\ AboutOne(Len(remote) + 1, s, t)
             /\ remote' = Append(remote, s) /\ remote' \in Seq(Remote)
             /\ Len(remote') = Len(remote) + 1 /\ remote'[Len(remote) + 1] = s
             /\ Len(remote) + 1 \in 1..MaxSubs
             /\ events' \in Seq(Event) /\ Len(events') = Len(events) + Len(t)
             /\ Len(events') <= MaxEvents
             /\ \A i \in 1..Len(events) : events'[i] = events[i]
             /\ \A k \in 1..Len(t) : events'[Len(events) + k] = t[k]
<1> DEFINE n == Len(remote) + 1
           s == [FreshRemote EXCEPT !.plan = p]
           t == <<Snapshot(n, s), Notice("checkout", n, s)>>
<1>1. /\ n <= MaxSubs /\ Len(events) + 2 <= MaxEvents
      /\ remote' = Append(remote, s) /\ events' = events \o t
  BY DEF PayCart, Room
<1>2. s \in Remote /\ s.status = "active" /\ s.cancel = FALSE
  BY ConstantsAreTyped DEF BillingShape, FreshRemote, Remote, Status
<1>3. Len(remote) \in Nat /\ Len(events) \in Nat /\ n \in 1..MaxSubs
  BY <1>1, LenProperties, BillingAssumption DEF BillingShape, Books
<1>4. Told(n, s, t) /\ Len(t) = 2
  BY <1>2 DEF Told
<1> HIDE DEF n, s, t
<1>5. AboutOne(n, s, t)
  BY <1>2, <1>3, <1>4, ToldEvents
<1>6. t \in Seq(Event) /\ events \in Seq(Event) /\ remote \in Seq(Remote)
  BY <1>5 DEF AboutOne, BillingShape, Books
<1>7. remote' \in Seq(Remote) /\ Len(remote') = n /\ remote'[n] = s
  BY <1>1, <1>2, <1>6, AppendProperties DEF n
<1>8. /\ events' \in Seq(Event) /\ Len(events') = Len(events) + Len(t)
      /\ \A i \in 1..(Len(events) + Len(t)) :
            events'[i] = IF i <= Len(events) THEN events[i] ELSE t[i - Len(events)]
  BY <1>1, <1>6, ConcatProperties
<1>9. \A i \in 1..Len(events) : events'[i] = events[i]
  BY <1>3, <1>4, <1>8
<1>10. ASSUME NEW k \in 1..Len(t) PROVE events'[Len(events) + k] = t[k]
  <2>1. /\ Len(events) + k \in 1..(Len(events) + Len(t)) /\ ~(Len(events) + k <= Len(events))
        /\ Len(events) + k - Len(events) = k
    BY <1>3, <1>4
  <2> QED
    BY <1>8, <2>1
<1> QED
  BY <1>1, <1>2, <1>3, <1>4, <1>5, <1>7, <1>8, <1>9, <1>10 DEF n

LEMMA PayShape == ASSUME BillingShape, NEW p \in carts, PayCart(p) PROVE BillingShape'
<1>1. PICK s, t :
        /\ s \in Remote /\ AboutOne(Len(remote) + 1, s, t)
        /\ remote' \in Seq(Remote)
        /\ Len(remote') = Len(remote) + 1 /\ remote'[Len(remote) + 1] = s
        /\ Len(remote) + 1 \in 1..MaxSubs
        /\ events' \in Seq(Event) /\ Len(events') = Len(events) + Len(t)
        /\ Len(events') <= MaxEvents
        /\ \A i \in 1..Len(events) : events'[i] = events[i]
        /\ \A k \in 1..Len(t) : events'[Len(events) + k] = t[k]
  BY PayEffect
<1>2. /\ carts' = carts \ {p} /\ UNCHANGED <<row, ledger, job, replies>>
      /\ excuse' \in {"lasting", excuse}
  BY DEF PayCart
<1>3. /\ Len(remote) \in Nat /\ Len(events) \in Nat /\ Len(t) \in 1..2
      /\ t[1].type = "snapshot" /\ \A k \in 1..Len(t) : t[k].sub = Len(remote) + 1
  BY <1>1, LenProperties DEF BillingShape, Books, AboutOne
<1>4. Grows
  <2>1. 1 \in 1..Len(t)
    BY <1>3
  <2>2. events'[Len(events) + 1] = t[1]
    BY <1>1, <2>1
  <2> QED
    BY <1>1, <1>3, <2>2 DEF Grows
<1>5. Books'
  <2>1. ASSUME NEW i \in 1..Len(events') PROVE events'[i].sub <= Len(remote')
    <3>1. CASE i <= Len(events)
      <4>0. i \in 1..Len(events) /\ events \in Seq(Event)
        BY <1>1, <1>3, <3>1 DEF BillingShape, Books
      <4>1. events'[i] = events[i] /\ events[i].sub <= Len(remote) /\ events[i] \in Event
        BY <1>1, <4>0, ElementOfSeq DEF BillingShape, Books
      <4>2. events[i].sub \in Nat
        BY <4>1, BillingAssumption DEF Event
      <4> QED
        BY <1>1, <1>3, <4>1, <4>2
    <3>2. CASE i > Len(events)
      <4>1. i - Len(events) \in 1..Len(t) /\ Len(events) + (i - Len(events)) = i
        BY <1>1, <1>3, <3>2
      <4>2. events'[i] = t[i - Len(events)]
        BY <1>1, <4>1
      <4> QED
        BY <1>1, <1>3, <4>1, <4>2
    <3> QED
      BY <1>1, <1>3, <3>1, <3>2
  <2>2. ledger' \subseteq 1..Len(events')
    BY <1>1, <1>2, <1>3 DEF BillingShape, Books
  <2>3. row' \in Subscription /\ row'.provider <= Len(remote')
    <3>1. row.provider \in Nat /\ row.provider <= Len(remote) /\ row \in Subscription
      BY BillingAssumption DEF BillingShape, Books, Subscription
    <3> QED
      BY <1>1, <1>2, <1>3, <3>1
  <2>4. excuse' \in {"none", "passing", "lasting"} /\ Len(remote') <= MaxSubs /\ Len(remote') # 0
    BY <1>1, <1>2, <1>3 DEF BillingShape, Books
  <2> QED
    BY <1>1, <2>1, <2>2, <2>3, <2>4 DEF Books
<1>6. SoundReplies'
  <2>1. 0..Len(remote) \subseteq 0..Len(remote')
    BY <1>1, <1>3
  <2> QED
    BY <1>2, <2>1 DEF BillingShape, SoundReplies
<1>7. carts' \subseteq Plans
  BY <1>2 DEF BillingShape
<1> QED
  BY <1>2, <1>4, <1>5, <1>6, <1>7, ShapeKept

LEMMA StripeActsShape ==
    ASSUME BillingShape, NEW n \in DOMAIN remote,
           PaymentFails(n) \/ PaymentRecovers(n) \/ SubscriptionEnds(n)
    PROVE  BillingShape'
<1>1. PICK s, t : Reported(n, s, t)
  BY StripeActs DEF BillingShape
<1>2. UNCHANGED <<row, ledger, job, carts, replies, excuse>>
  BY DEF PaymentFails, PaymentRecovers, SubscriptionEnds
<1>3. Books' /\ Grows
  BY <1>1, <1>2, EmitBooks DEF BillingShape
<1>4. Len(remote') = Len(remote)
  BY <1>1, EmitGrows DEF BillingShape
<1>5. SoundReplies' /\ carts' \subseteq Plans
  BY <1>2, <1>4 DEF BillingShape, SoundReplies
<1> QED
  BY <1>2, <1>3, <1>5, ShapeKept

\* Stripe's answer is kept, for the request and for those who repeat it.
LEMMA CallShape == ASSUME BillingShape, NEW r \in Requests, CallStripe(r) PROVE BillingShape'
<1> DEFINE n == job[r].seen.provider
           w == job[r].wish
           s == Granted(remote[n], w)
           j == [job[r] EXCEPT !.step = "write", !.answer = s, !.mark = Len(events')]
<1>1. /\ job[r].step = "call"
      /\ replies' = replies \cup {[sub |-> n, wish |-> w, answer |-> s]}
      /\ UNCHANGED <<row, ledger, carts, excuse>>
  BY DEF CallStripe
<1>2. /\ n \in 1..Len(remote) /\ s \in Remote
      /\ w \in Plans => s.plan = w
      /\ \E t : Reported(n, s, t)
  BY CallEffect
<1>3. job' = [job EXCEPT ![r] = j]
  BY DEF CallStripe, Answered
<1>4. job[r] \in Job /\ SoundJob(job[r]) /\ w \in Plans \cup {"cancel", "resume"}
  BY DEF BillingShape, Job
<1> HIDE DEF n, s
<1>5. PICK t : Reported(n, s, t)
  BY <1>2
<1>6. Books' /\ Grows
  BY <1>1, <1>5, EmitBooks DEF BillingShape
<1>7. Len(remote') = Len(remote)
  BY <1>5, EmitGrows DEF BillingShape
<1>8. Len(events') \in 0..MaxEvents /\ Len(events') \in Nat
  BY <1>6, LenProperties DEF Books
<1>9. /\ j \in Job /\ j.step = "write" /\ j.answer = s /\ j.mark = Len(events')
      /\ j.wish = w /\ j.seen = job[r].seen
  BY <1>2, <1>4, <1>8 DEF Job
<1> HIDE DEF j
<1>10. job'[r] = j
  BY <1>3 DEF BillingShape
<1>11. SoundJob(job[r])'
  BY <1>1, <1>2, <1>4, <1>7, <1>8, <1>9, <1>10 DEF SoundJob
<1>12. SoundReplies'
  <2>1. SoundReplies /\ n \in 0..Len(remote)
    BY <1>2 DEF BillingShape
  <2> DEFINE new == [sub |-> n, wish |-> w, answer |-> s]
  <2>2. /\ new.sub = n /\ new.wish = w /\ new.answer = s
        /\ new \in [sub : 0..Len(remote), wish : Plans \cup {"cancel", "resume"}, answer : Remote]
    <3>1. n \in 0..Len(remote) /\ s \in Remote
      BY <1>2
    <3> QED
      BY <1>4, <3>1
  <2> HIDE DEF new, w
  <2>3. replies' = replies \cup {new}
    BY <1>1 DEF new, w
  <2>4. w \in Plans \cup {"cancel", "resume"} /\ (w \in Plans => s.plan = w)
    BY <1>2, <1>4 DEF w
  <2> QED
    BY <1>2, <1>7, <2>1, <2>2, <2>3, <2>4 DEF SoundReplies
<1>13. carts' \subseteq Plans
  BY <1>1 DEF BillingShape
<1> QED
  BY <1>3, <1>6, <1>9, <1>11, <1>12, <1>13, ShapeStep

\* A step that moves a job and leaves the books alone.
LEMMA JobMoves ==
    ASSUME BillingShape, NEW x \in Requests \cup Hooks, NEW j \in Job,
           job' = [job EXCEPT ![x] = j], UNCHANGED <<row, remote, events, ledger, carts, replies>>,
           excuse' \in {"none", "passing", "lasting"}, SoundJob(job[x])'
    PROVE  BillingShape'
<1>1. Books' /\ Grows
  BY QuietGrows DEF BillingShape, Books
<1>2. SoundReplies' /\ carts' \subseteq Plans
  BY DEF BillingShape, SoundReplies
<1> QED
  BY <1>1, <1>2, ShapeStep

LEMMA IdleIsSound ==
    ASSUME BillingShape, Len(remote') \in Nat, NEW x \in Requests \cup Hooks,
           job' = [job EXCEPT ![x] = NoJob]
    PROVE  SoundJob(job[x])'
<1>1. job'[x] = NoJob
  BY DEF BillingShape
<1> QED
  BY <1>1, ConstantsAreTyped DEF SoundJob

LEMMA OpenShape ==
    ASSUME BillingShape, NEW x \in Requests \cup Hooks,
           (x \in Requests /\ \E w \in Wishes : LoadSubscription(x, w))
             \/ (x \in Hooks /\ \E i \in Undelivered : ReceiveEvent(x, i))
    PROVE  BillingShape'
<1>1. row \in Subscription /\ row.provider <= Len(remote) /\ Len(events) <= MaxEvents
  BY DEF BillingShape, Books
<1>2. ASSUME NEW w \in Wishes, LoadSubscription(x, w) PROVE BillingShape'
  <2> DEFINE j == [NoJob EXCEPT !.step = "call", !.wish = w, !.seen = row]
  <2>1. /\ row.provider # 0 /\ job' = [job EXCEPT ![x] = j]
        /\ UNCHANGED <<row, remote, events, ledger, carts, replies, excuse>>
    BY <1>2 DEF LoadSubscription
  <2>2. j \in Job /\ j.step = "call" /\ j.seen = row
    <3>1. w \in Plans \cup {"cancel", "resume"}
      BY BillingAssumption
    <3>2. NoJob \in Job
      BY ConstantsAreTyped
    <3> QED
      BY <1>1, <3>1, <3>2 DEF Job
  <2> HIDE DEF j
  <2>3. job'[x] = j
    BY <2>1 DEF BillingShape
  <2>4. SoundJob(job[x])'
    BY <1>1, <2>1, <2>2, <2>3 DEF SoundJob
  <2>5. excuse' \in {"none", "passing", "lasting"}
    BY <2>1 DEF BillingShape, Books
  <2> QED
    BY <2>1, <2>2, <2>4, <2>5, JobMoves
<1>3. ASSUME NEW i \in Undelivered, ReceiveEvent(x, i) PROVE BillingShape'
  <2> DEFINE j == [NoJob EXCEPT !.step = "hook", !.event = i, !.seen = row]
  <2>1. /\ job' = [job EXCEPT ![x] = j]
        /\ UNCHANGED <<row, remote, events, ledger, carts, replies, excuse>>
    BY <1>3 DEF ReceiveEvent
  <2>2. i \in 1..Len(events) /\ i \in 0..MaxEvents
    <3>1. Len(events) \in Nat
      BY LenProperties DEF BillingShape, Books
    <3> QED
      BY <1>1, <3>1, BillingAssumption DEF Undelivered
  <2>3. j \in Job /\ j.step = "hook" /\ j.seen = row /\ j.event = i
    <3>1. NoJob \in Job
      BY ConstantsAreTyped
    <3> QED
      BY <1>1, <2>2, <3>1 DEF Job
  <2> HIDE DEF j
  <2>4. job'[x] = j
    BY <2>1 DEF BillingShape
  <2>5. SoundJob(job[x])'
    BY <1>1, <2>1, <2>2, <2>3, <2>4 DEF SoundJob
  <2>6. excuse' \in {"none", "passing", "lasting"}
    BY <2>1 DEF BillingShape, Books
  <2> QED
    BY <2>1, <2>3, <2>5, <2>6, JobMoves
<1> QED
  BY <1>2, <1>3

LEMMA RepeatedShape ==
    ASSUME BillingShape, NEW r \in Requests, CallRepeated(r)
    PROVE  BillingShape'
<1>1. PICK k \in replies :
        /\ k.sub = job[r].seen.provider /\ k.wish = job[r].wish
        /\ Answered(r, k.answer, Len(events))
        /\ ExcusedIf(k.answer # remote[k.sub])
  BY DEF CallRepeated
<1>2. job[r].step = "call" /\ UNCHANGED <<row, remote, events, ledger, carts, replies>>
  BY DEF CallRepeated
<1> DEFINE j == [job[r] EXCEPT !.step = "write", !.answer = k.answer, !.mark = Len(events)]
<1>3. job' = [job EXCEPT ![r] = j]
  BY <1>1 DEF Answered
<1>4. job[r] \in Job /\ SoundJob(job[r])
  BY DEF BillingShape
<1>5. k.answer \in Remote /\ (k.sub # 0 /\ k.wish \in Plans => k.answer.plan = k.wish)
  BY DEF BillingShape, SoundReplies
<1>6. Len(events) \in Nat /\ Len(events) \in 0..MaxEvents
  BY LenProperties, BillingAssumption DEF BillingShape, Books
<1>7. /\ j \in Job /\ j.step = "write" /\ j.answer = k.answer /\ j.mark = Len(events)
      /\ j.wish = job[r].wish /\ j.seen = job[r].seen
  BY <1>4, <1>5, <1>6 DEF Job
<1> HIDE DEF j
<1>8. job'[r] = j
  BY <1>3 DEF BillingShape
<1>9. SoundJob(job[r])'
  BY <1>1, <1>2, <1>4, <1>5, <1>6, <1>7, <1>8 DEF SoundJob
<1>10. excuse' \in {"none", "passing", "lasting"}
  BY <1>1 DEF ExcusedIf, BillingShape, Books
<1> QED
  BY <1>2, <1>3, <1>7, <1>9, <1>10, JobMoves

\* The row a commit leaves.
LEMMA WriteEffect ==
    ASSUME BillingShape, NEW r \in Requests, WriteAnswer(r)
    PROVE  LET j == job[r] IN
           /\ row' \in Subscription /\ row'.provider = row.provider
           /\ row'.plan \in {row.plan, j.answer.plan}
           /\ row'.status \in {row.status, j.answer.status}
           /\ row'.cancel \in {row.cancel, j.answer.cancel}
<1> DEFINE j == job[r]
           new == AfterRequest(j.seen, j.wish, j.answer)
<1>1. j.step = "write" /\ row' = MergeColumns(j.seen, new, row)
  BY DEF WriteAnswer
<1>2. j \in Job /\ SoundJob(j) /\ row \in Subscription
  BY DEF BillingShape, Books
<1>3. /\ j.seen \in Subscription /\ j.wish \in Plans \cup {"cancel", "resume"}
      /\ j.answer \in Remote /\ (j.wish \in Plans => j.answer.plan = j.wish)
  BY <1>1, <1>2 DEF Job, SoundJob
<1>4. /\ new \in Subscription /\ new.provider = j.seen.provider /\ new.cancel = j.answer.cancel
      /\ j.wish \in Plans => new.plan = j.wish /\ new.status = j.answer.status
      /\ j.wish \notin Plans => new.plan = j.seen.plan /\ new.status = j.seen.status
  BY <1>3, RequestRow
<1> HIDE DEF new
<1> DEFINE m == MergeColumns(j.seen, new, row)
<1>5. /\ m \in Subscription
      /\ m.provider = IF new.provider = j.seen.provider THEN row.provider ELSE new.provider
      /\ m.plan = IF new.plan = j.seen.plan THEN row.plan ELSE new.plan
      /\ m.status = IF new.status = j.seen.status THEN row.status ELSE new.status
      /\ m.cancel = IF new.cancel = j.seen.cancel THEN row.cancel ELSE new.cancel
  BY <1>2, <1>3, <1>4, MergedRow
<1> HIDE DEF m
<1>6. row' = m
  BY <1>1 DEF m
<1> QED
  BY <1>3, <1>4, <1>5, <1>6

LEMMA ApplyEffect ==
    ASSUME BillingShape, NEW h \in Hooks, ApplyEvent(h)
    PROVE  LET j == job[h]
               e == events[j.event]
               new == AfterEvent(e, j.seen)
           IN  /\ j.event \in 1..Len(events) /\ e \in Event /\ j.seen \in Subscription
               /\ new \in Subscription /\ row' \in Subscription
               /\ row'.provider = IF new.provider = j.seen.provider THEN row.provider
                                  ELSE new.provider
               /\ row = j.seen => row' = new
<1> DEFINE j == job[h]
           e == events[j.event]
           new == AfterEvent(e, j.seen)
<1>1. j.step = "hook" /\ row' = MergeColumns(j.seen, new, row)
  BY DEF ApplyEvent
<1>2. j \in Job /\ SoundJob(j) /\ row \in Subscription
  BY DEF BillingShape, Books
<1>3. j.event \in 1..Len(events) /\ j.seen \in Subscription
  BY <1>1, <1>2 DEF Job, SoundJob
<1>4. e \in Event
  BY <1>3, ElementOfSeq DEF BillingShape, Books
<1>5. new \in Subscription
  BY <1>3, <1>4, EventRow
<1> HIDE DEF new
<1>6. /\ row' \in Subscription
      /\ row'.provider = IF new.provider = j.seen.provider THEN row.provider ELSE new.provider
  BY <1>1, <1>2, <1>3, <1>5, MergedRow
<1>7. ASSUME row = j.seen PROVE row' = new
  BY <1>1, <1>3, <1>5, <1>7 DEF MergeColumns, Subscription
<1> QED
  BY <1>3, <1>4, <1>5, <1>6, <1>7 DEF new

\* The commit of a request leaves the books in shape ...
LEMMA WriteShape == ASSUME BillingShape, NEW r \in Requests, WriteAnswer(r) PROVE BillingShape'
<1>1. /\ job' = [job EXCEPT ![r] = NoJob] /\ UNCHANGED <<remote, events, ledger, carts, replies>>
      /\ ExcusedIf(\E i \in ledger : i > job[r].mark)
  BY DEF WriteAnswer, EndJob
<1>2. row' \in Subscription /\ row'.provider = row.provider
  BY WriteEffect
<1>3. excuse' \in {"none", "passing", "lasting"}
  BY <1>1 DEF ExcusedIf, BillingShape, Books
<1>4. Books' /\ Grows
  BY <1>1, <1>2, <1>3, QuietGrows DEF BillingShape, Books
<1>5. Len(remote') \in Nat
  BY <1>4, LenProperties DEF Books
<1>6. SoundJob(job[r])'
  BY <1>1, <1>5, IdleIsSound
<1>7. SoundReplies' /\ carts' \subseteq Plans
  BY <1>1 DEF BillingShape, SoundReplies
<1> QED
  BY <1>1, <1>4, <1>6, <1>7, ConstantsAreTyped, ShapeStep

\* ... and so does that of a delivery.
LEMMA ApplyShape == ASSUME BillingShape, NEW h \in Hooks, ApplyEvent(h) PROVE BillingShape'
<1> DEFINE j == job[h]
           e == events[j.event]
           new == AfterEvent(e, j.seen)
<1>1. /\ job' = [job EXCEPT ![h] = NoJob] /\ UNCHANGED <<remote, events, carts, replies>>
      /\ ledger' = ledger \cup {j.event}
      /\ excuse' \in {"none", "passing", excuse}
  BY DEF ApplyEvent, EndJob, ExcusedIf
<1>2. /\ j.event \in 1..Len(events) /\ e \in Event /\ j.seen \in Subscription
      /\ new \in Subscription /\ row' \in Subscription
      /\ row'.provider \in {row.provider, new.provider}
  BY ApplyEffect
<1>3. new.provider \in {e.sub, j.seen.provider}
  <2>1. e.type \in {"snapshot", "checkout", "failed"}
    BY <1>2 DEF Event
  <2> QED
    BY <1>2, <2>1, EventRow
<1>4. e.sub <= Len(remote) /\ j.seen.provider <= Len(remote) /\ row.provider <= Len(remote)
  BY <1>2 DEF BillingShape, Books, SoundJob
<1> HIDE DEF j, e, new
<1>5. row'.provider <= Len(remote')
  BY <1>1, <1>2, <1>3, <1>4
<1>6. Books' /\ Grows
  BY <1>1, <1>2, <1>5, QuietGrows DEF BillingShape, Books
<1>7. Len(remote') \in Nat
  BY <1>6, LenProperties DEF Books
<1>8. SoundJob(job[h])'
  BY <1>1, <1>7, IdleIsSound
<1>9. SoundReplies' /\ carts' \subseteq Plans
  BY <1>1 DEF BillingShape, SoundReplies
<1> QED
  BY <1>1, <1>6, <1>8, <1>9, ConstantsAreTyped, ShapeStep

\* What ends without a commit.
LEMMA EndShape ==
    ASSUME BillingShape, NEW x \in Requests \cup Hooks,
           (x \in Requests /\ CallRefused(x)) \/ (x \in Hooks /\ RefuseTwin(x))
             \/ LoseTransaction(x)
    PROVE  BillingShape'
<1>1. /\ job' = [job EXCEPT ![x] = NoJob]
      /\ UNCHANGED <<row, remote, events, ledger, carts, replies, excuse>>
  BY DEF CallRefused, RefuseTwin, LoseTransaction, EndJob
<1>2. Len(remote') \in Nat /\ excuse' \in {"none", "passing", "lasting"}
  BY <1>1, LenProperties DEF BillingShape, Books
<1>3. SoundJob(job[x])'
  BY <1>1, <1>2, IdleIsSound
<1> QED
  BY <1>1, <1>2, <1>3, ConstantsAreTyped, JobMoves

LEMMA CartShape ==
    ASSUME BillingShape, (\E p \in Plans : CreateCheckout(p)) \/ NextPeriod
    PROVE  BillingShape'
<1>1. UNCHANGED <<row, remote, events, ledger, job, excuse>>
  BY DEF CreateCheckout, NextPeriod
<1>2. Books' /\ Grows
  BY <1>1, QuietGrows DEF BillingShape, Books
<1>3. CASE NextPeriod
  <2>1. SoundReplies' /\ carts' \subseteq Plans
    BY <1>3 DEF NextPeriod, SoundReplies, BillingShape
  <2> QED
    BY <1>1, <1>2, <2>1, ShapeKept
<1>4. ASSUME NEW p \in Plans, CreateCheckout(p) PROVE BillingShape'
  <2> DEFINE key == [sub |-> 0, wish |-> p, answer |-> FreshRemote]
  <2>1. carts' = carts \cup {p} /\ replies' = replies \cup {key}
    BY <1>4 DEF CreateCheckout
  <2>2. 0 \in 0..Len(remote) /\ Len(remote') = Len(remote)
    BY <1>1, LenProperties DEF BillingShape, Books
  <2>3. /\ key.sub = 0
        /\ key \in [sub : 0..Len(remote), wish : Plans \cup {"cancel", "resume"}, answer : Remote]
    BY <2>2, ConstantsAreTyped
  <2> HIDE DEF key
  <2>4. SoundReplies' /\ carts' \subseteq Plans
    BY <2>1, <2>2, <2>3 DEF SoundReplies, BillingShape
  <2> QED
    BY <1>1, <1>2, <2>4, ShapeKept
<1> QED
  BY <1>3, <1>4

LEMMA StepShape == BillingShape /\ [BillingNext]_billingVars => BillingShape'
<1> SUFFICES ASSUME BillingShape, [BillingNext]_billingVars PROVE BillingShape'
  OBVIOUS
<1>1. CASE UNCHANGED billingVars
  <2>1. Books' /\ Grows /\ SoundReplies' /\ carts' \subseteq Plans
    BY <1>1, QuietGrows DEF billingVars, BillingShape, Books, SoundReplies
  <2> QED
    BY <1>1, <2>1, ShapeKept DEF billingVars
<1>2. CASE (\E p \in Plans : CreateCheckout(p)) \/ NextPeriod
  BY <1>2, CartShape
<1>3. ASSUME NEW p \in carts, PayCart(p) PROVE BillingShape'
  BY <1>3, PayShape
<1>4. ASSUME NEW r \in Requests, NEW w \in Wishes, LoadSubscription(r, w) PROVE BillingShape'
  BY <1>4, OpenShape
<1>5. ASSUME NEW r \in Requests,
             CallStripe(r) \/ CallRepeated(r) \/ CallRefused(r) \/ WriteAnswer(r)
      PROVE  BillingShape'
  BY <1>5, CallShape, RepeatedShape, EndShape, WriteShape
<1>6. ASSUME NEW h \in Hooks, NEW i \in Undelivered, ReceiveEvent(h, i) PROVE BillingShape'
  BY <1>6, OpenShape
<1>7. ASSUME NEW h \in Hooks, ApplyEvent(h) \/ RefuseTwin(h) PROVE BillingShape'
  BY <1>7, ApplyShape, EndShape
<1>8. ASSUME NEW x \in Requests \cup Hooks, LoseTransaction(x) PROVE BillingShape'
  BY <1>8, EndShape
<1>9. ASSUME NEW n \in DOMAIN remote,
             PaymentFails(n) \/ PaymentRecovers(n) \/ SubscriptionEnds(n)
      PROVE  BillingShape'
  BY <1>9, StripeActsShape
<1> QED
  BY <1>1, <1>2, <1>3, <1>4, <1>5, <1>6, <1>7, <1>8, <1>9 DEF BillingNext

\* Type correctness: the row and every open request or delivery name subscriptions Stripe
\* knows, and the ledger holds events Stripe emitted.
THEOREM BillingTypesAreKept == BillingSpec => []BillingTypeOK
<1>1. BillingShape => BillingTypeOK
  <2> SUFFICES ASSUME BillingShape PROVE BillingTypeOK
    OBVIOUS
  <2>1. /\ \A n \in DOMAIN remote : remote[n] \in Remote
        /\ \A i \in DOMAIN events : events[i] \in Event
        /\ DOMAIN events = 1..Len(events)
    BY ElementOfSeq, LenProperties DEF BillingShape, Books
  <2>2. replies \subseteq [sub : 0..Len(remote), wish : Plans \cup {"cancel", "resume"},
                           answer : Remote]
    BY DEF BillingShape, SoundReplies
  <2> QED
    BY <2>1, <2>2 DEF BillingTypeOK, BillingShape, Books
<1> QED
  BY <1>1, StartShape, StepShape, PTL DEF BillingSpec

-----------------------------------------------------------------------------
(* The workspace learns of its first subscription *)

\* The row is linked, or the event that links it is still to come.
Linked ==
    /\ \A x \in Requests \cup Hooks : job[x].seen.provider # 0 => row.provider # 0
    /\ Len(remote) # 0 /\ row.provider = 0 =>
          Len(events) > 0 /\ events[1].type # "failed" /\ 1 \notin ledger

\* While the books are not changed but in length, and the row stays linked.
LEMMA LinkedStays ==
    ASSUME BillingShape, Linked, Grows, Len(remote) = Len(remote'), UNCHANGED ledger,
           row.provider # 0 => row'.provider # 0,
           \A x \in Requests \cup Hooks : job'[x].seen.provider # 0 =>
               job[x].seen.provider # 0 \/ row.provider # 0
    PROVE  Linked'
<1>1. Len(events) \in Nat /\ Len(events') \in Nat
  BY LenProperties DEF BillingShape, Books, Grows
<1>2. ASSUME Len(remote') # 0, row'.provider = 0
      PROVE  Len(events') > 0 /\ events'[1].type # "failed" /\ 1 \notin ledger'
  <2>1. Len(events) > 0 /\ events[1].type # "failed" /\ 1 \notin ledger
    BY <1>2 DEF Linked
  <2>2. 1 \in 1..Len(events)
    BY <1>1, <2>1
  <2> QED
    BY <1>1, <2>1, <2>2 DEF Grows
<1> QED
  BY <1>2 DEF Linked

\* A delivery of the linking event links the row.
LEMMA ApplyLinks == ASSUME BillingShape, Linked, NEW h \in Hooks, ApplyEvent(h) PROVE Linked'
<1> DEFINE j == job[h]
           e == events[j.event]
           new == AfterEvent(e, j.seen)
<1>1. /\ job' = [job EXCEPT ![h] = NoJob] /\ UNCHANGED <<remote, events>>
      /\ ledger' = ledger \cup {j.event}
  BY DEF ApplyEvent, EndJob
<1>2. /\ j.event \in 1..Len(events) /\ e \in Event /\ j.seen \in Subscription
      /\ row'.provider = IF new.provider = j.seen.provider THEN row.provider ELSE new.provider
  BY ApplyEffect
<1>3. /\ e.type # "failed" => new.provider = e.sub
      /\ e.type = "failed" => new.provider = j.seen.provider
  <2>1. e.type \in {"snapshot", "checkout", "failed"}
    BY <1>2 DEF Event
  <2> QED
    BY <1>2, <2>1, EventRow
<1>4. e.sub # 0 /\ (j.seen.provider # 0 => row.provider # 0)
  BY <1>2, BillingAssumption DEF Event, Linked
<1>5. row.provider # 0 => row'.provider # 0
  BY <1>2, <1>3, <1>4
<1>6. e.type # "failed" => row'.provider # 0
  BY <1>2, <1>3, <1>4
<1> HIDE DEF new, e
<1>7. ASSUME NEW x \in Requests \cup Hooks, job'[x].seen.provider # 0 PROVE row'.provider # 0
  <2>1. job'[x] = job[x]
    BY <1>1, <1>7, ConstantsAreTyped DEF BillingShape
  <2> QED
    BY <1>5, <1>7, <2>1 DEF Linked
<1>8. ASSUME Len(remote') # 0, row'.provider = 0
      PROVE  Len(events') > 0 /\ events'[1].type # "failed" /\ 1 \notin ledger'
  <2>1. Len(events) > 0 /\ events[1].type # "failed" /\ 1 \notin ledger
    BY <1>1, <1>5, <1>8 DEF Linked
  <2>2. j.event # 1
    BY <1>6, <1>8, <2>1 DEF e
  <2> QED
    BY <1>1, <2>1, <2>2
<1> QED
  BY <1>7, <1>8 DEF Linked

\* A first purchase emits the linking event.
LEMMA PayLinks == ASSUME BillingShape, Linked, NEW p \in carts, PayCart(p) PROVE Linked'
<1>1. PICK s, t :
        /\ AboutOne(Len(remote) + 1, s, t)
        /\ events' \in Seq(Event) /\ Len(events') = Len(events) + Len(t)
        /\ \A i \in 1..Len(events) : events'[i] = events[i]
        /\ \A k \in 1..Len(t) : events'[Len(events) + k] = t[k]
  BY PayEffect
<1>2. UNCHANGED <<row, ledger, job>>
  BY DEF PayCart
<1>3. Len(events) \in Nat /\ Len(t) \in 1..2 /\ t[1].type = "snapshot" /\ Len(remote) \in Nat
  BY <1>1, LenProperties DEF BillingShape, Books, AboutOne
<1>4. ASSUME row.provider = 0
      PROVE  Len(events') > 0 /\ events'[1].type # "failed" /\ 1 \notin ledger
  <2>1. CASE Len(remote) = 0
    <3>1. Len(events) = 0 /\ ledger = {}
      BY <1>3, <2>1 DEF BillingShape, Books
    <3>2. 1 \in 1..Len(t) /\ Len(events) + 1 = 1
      BY <1>3, <3>1
    <3>3. events'[1] = t[1]
      BY <1>1, <3>2
    <3> QED
      BY <1>1, <1>3, <3>1, <3>3
  <2>2. CASE Len(remote) # 0
    <3>1. Len(events) > 0 /\ events[1].type # "failed" /\ 1 \notin ledger
      BY <1>4, <2>2 DEF Linked
    <3>2. 1 \in 1..Len(events)
      BY <1>3, <3>1
    <3> QED
      BY <1>1, <1>3, <3>1, <3>2
  <2> QED
    BY <2>1, <2>2
<1> QED
  BY <1>2, <1>4 DEF Linked

\* What is opened has read the row.
LEMMA OpenLinks ==
    ASSUME BillingShape, Linked, NEW x \in Requests \cup Hooks,
           (\E w \in Wishes : LoadSubscription(x, w)) \/ (\E i \in Undelivered : ReceiveEvent(x, i))
    PROVE  Linked'
<1>1. /\ UNCHANGED <<row, remote, events, ledger>>
      /\ \E j \in {[NoJob EXCEPT !.step = "call", !.wish = w, !.seen = row] : w \in Wishes}
               \cup {[NoJob EXCEPT !.step = "hook", !.event = i, !.seen = row] : i \in Undelivered} :
             job' = [job EXCEPT ![x] = j]
  BY DEF LoadSubscription, ReceiveEvent
<1>2. PICK j : job' = [job EXCEPT ![x] = j] /\ j.seen = row
  BY <1>1 DEF NoJob
<1>3. Grows
  BY <1>1, QuietGrows DEF BillingShape
<1>4. \A y \in Requests \cup Hooks : job'[y].seen.provider # 0 =>
               job[y].seen.provider # 0 \/ row.provider # 0
  BY <1>2 DEF BillingShape
<1> QED
  BY <1>1, <1>3, <1>4, LinkedStays

\* A step that keeps the books and what jobs have seen.
LEMMA QuietLinks ==
    ASSUME BillingShape, Linked, UNCHANGED <<remote, events, ledger>>,
           row'.provider = row.provider,
           \A x \in Requests \cup Hooks : job'[x].seen.provider \in {0, job[x].seen.provider}
    PROVE  Linked'
<1>1. Grows
  BY QuietGrows DEF BillingShape
<1> QED
  BY <1>1, LinkedStays

LEMMA EndLinks ==
    ASSUME BillingShape, NEW x \in Requests \cup Hooks, job' = [job EXCEPT ![x] = NoJob]
    PROVE  \A y \in Requests \cup Hooks : job'[y].seen.provider \in {0, job[y].seen.provider}
BY ConstantsAreTyped DEF BillingShape

\* An answer comes to who has read the row before.
LEMMA AnswerLinks ==
    ASSUME BillingShape, NEW x \in Requests \cup Hooks, NEW answer, NEW mark,
           Answered(x, answer, mark)
    PROVE  \A y \in Requests \cup Hooks : job'[y].seen.provider \in {0, job[y].seen.provider}
<1>1. job' = [job EXCEPT ![x] = [job[x] EXCEPT !.step = "write", !.answer = answer, !.mark = mark]]
  BY DEF Answered
<1>2. [job[x] EXCEPT !.step = "write", !.answer = answer, !.mark = mark].seen = job[x].seen
  BY DEF BillingShape, Job
<1> QED
  BY <1>1, <1>2 DEF BillingShape

LEMMA LinkedStep == BillingShape /\ Linked /\ [BillingNext]_billingVars => Linked'
<1> SUFFICES ASSUME BillingShape, Linked, [BillingNext]_billingVars PROVE Linked'
  OBVIOUS
<1>1. CASE UNCHANGED billingVars
  BY <1>1 DEF billingVars, Linked
<1>2. CASE (\E p \in Plans : CreateCheckout(p)) \/ NextPeriod
  BY <1>2, QuietLinks DEF CreateCheckout, NextPeriod
<1>3. ASSUME NEW p \in carts, PayCart(p) PROVE Linked'
  BY <1>3, PayLinks
<1>4. ASSUME NEW r \in Requests, NEW w \in Wishes, LoadSubscription(r, w) PROVE Linked'
  BY <1>4, OpenLinks
<1>5. ASSUME NEW r \in Requests, CallStripe(r) PROVE Linked'
  <2>1. PICK n, s, t : Reported(n, s, t)
    BY <1>5, CallEffect
  <2>2. Grows /\ Len(remote') = Len(remote)
    BY <2>1, EmitGrows DEF BillingShape
  <2>3. \E s2, m : Answered(r, s2, m)
    BY <1>5 DEF CallStripe
  <2>4. UNCHANGED <<row, ledger>>
    BY <1>5 DEF CallStripe
  <2> QED
    BY <2>2, <2>3, <2>4, AnswerLinks, LinkedStays
<1>6. ASSUME NEW r \in Requests, CallRepeated(r) PROVE Linked'
  <2>1. \E s2, m : Answered(r, s2, m)
    BY <1>6 DEF CallRepeated
  <2>2. UNCHANGED <<row, remote, events, ledger>>
    BY <1>6 DEF CallRepeated
  <2> QED
    BY <2>1, <2>2, AnswerLinks, QuietLinks
<1>7. ASSUME NEW r \in Requests, WriteAnswer(r) PROVE Linked'
  <2>1. row'.provider = row.provider
    BY <1>7, WriteEffect
  <2> QED
    BY <1>7, <2>1, EndLinks, QuietLinks DEF WriteAnswer, EndJob
<1>8. ASSUME NEW h \in Hooks, NEW i \in Undelivered, ReceiveEvent(h, i) PROVE Linked'
  BY <1>8, OpenLinks
<1>9. ASSUME NEW h \in Hooks, ApplyEvent(h) PROVE Linked'
  BY <1>9, ApplyLinks
<1>10. ASSUME NEW x \in Requests \cup Hooks, CallRefused(x) \/ RefuseTwin(x) \/ LoseTransaction(x)
       PROVE  Linked'
  <2>1. job' = [job EXCEPT ![x] = NoJob] /\ UNCHANGED <<row, remote, events, ledger>>
    BY <1>10 DEF CallRefused, RefuseTwin, LoseTransaction, EndJob
  <2> QED
    BY <2>1, EndLinks, QuietLinks
<1>11. ASSUME NEW n \in DOMAIN remote,
              PaymentFails(n) \/ PaymentRecovers(n) \/ SubscriptionEnds(n)
       PROVE  Linked'
  <2>1. PICK s, t : Reported(n, s, t)
    BY <1>11, StripeActs DEF BillingShape
  <2>2. Grows /\ Len(remote') = Len(remote)
    BY <2>1, EmitGrows DEF BillingShape
  <2>3. UNCHANGED <<row, ledger, job>>
    BY <1>11 DEF PaymentFails, PaymentRecovers, SubscriptionEnds
  <2> QED
    BY <2>2, <2>3, LinkedStays
<1> QED
  BY <1>1, <1>2, <1>3, <1>4, <1>5, <1>6, <1>7, <1>8, <1>9, <1>10, <1>11 DEF BillingNext

\* The customer pays for the subscription the workspace has: with one subscription and
\* everything delivered, the row knows it, whatever was lost, repeated or out of order.
THEOREM FirstSubscriptionIsKnown == BillingSpec => []NoUnknownSubscription
<1>1. BillingInit => BillingShape /\ Linked
  <2> SUFFICES ASSUME BillingInit PROVE Linked
    BY StartShape
  <2>1. row.provider = Len(remote) /\ \A x \in Requests \cup Hooks : job[x] = NoJob
    BY DEF BillingInit, FreshSubscription
  <2> QED
    BY <2>1, ConstantsAreTyped DEF Linked
<1>2. BillingShape /\ Linked /\ [BillingNext]_billingVars => (BillingShape /\ Linked)'
  BY StepShape, LinkedStep
<1>3. BillingShape /\ Linked => NoUnknownSubscription
  <2> SUFFICES ASSUME BillingShape, Linked, Synchronised, Len(remote) = 1,
                      NEW n \in DOMAIN remote
               PROVE  row.provider = n
    BY DEF NoUnknownSubscription
  <2>1. n = 1 /\ Len(events) \in Nat
    BY LenProperties DEF BillingShape, Books
  <2>2. row.provider \in 0..1
    BY BillingAssumption DEF BillingShape, Books, Subscription
  <2>3. row.provider # 0
    <3> SUFFICES ASSUME row.provider = 0 PROVE FALSE
      OBVIOUS
    <3>1. Len(events) > 0 /\ 1 \notin ledger
      BY DEF Linked
    <3> QED
      BY <2>1, <3>1 DEF Synchronised, Undelivered
  <2> QED
    BY <2>1, <2>2, <2>3
<1> QED
  BY <1>1, <1>2, <1>3, PTL DEF BillingSpec

-----------------------------------------------------------------------------
(* The row agrees with Stripe *)

\* Event i says of its subscription what s is.
Tells(i, s) ==
    events[i].plan = s.plan /\ events[i].status = s.status /\ events[i].cancel = s.cancel

\* A failed payment is reported after its change, and the last event tells what Stripe has.
ReportOK(i) ==
    /\ events[i].type = "checkout" => events[i].status = "active" /\ events[i].cancel = FALSE
    /\ events[i].type = "failed" =>
          /\ i > 1 /\ events[i].status = "past_due"
          /\ events[i - 1].type = "snapshot"
          /\ events[i - 1].plan = events[i].plan /\ events[i - 1].cancel = events[i].cancel

Reports ==
    /\ \A i \in 1..Len(events) : ReportOK(i)
    /\ Len(remote) = 1 /\ Len(events) > 0 => Tells(Len(events), remote[1])

LEMMA FirstAndLast == ASSUME NEW k \in 1..2 PROVE 1 \in 1..k /\ k \in 1..k
OBVIOUS

LEMMA OnlyOne == ASSUME NEW m \in Nat, NEW k \in 1..m, ~(m > 1) PROVE m = 1 /\ k = 1
OBVIOUS

LEMMA NoneOrOne == ASSUME NEW m \in Nat, ~(m > 1) PROVE m = 0 \/ m = 1
OBVIOUS

LEMMA FailureFollowsChange ==
    ASSUME Reports, NEW k, NEW m \in 1..Len(events), m - 1 = k, events[m].type = "failed"
    PROVE  /\ events[k].type = "snapshot"
           /\ events[k].plan = events[m].plan /\ events[k].cancel = events[m].cancel
BY DEF Reports, ReportOK

\* New reports about one subscription are in good order.
LEMMA NewReports ==
    ASSUME Books, Reports, NEW n, NEW s, NEW t, AboutOne(n, s, t),
           Len(events') = Len(events) + Len(t),
           \A i \in 1..Len(events) : events'[i] = events[i],
           \A k \in 1..Len(t) : events'[Len(events) + k] = t[k],
           Len(remote') = 1 => remote'[1] = s
    PROVE  Reports'
<1>1. Len(events) \in Nat /\ Len(t) \in 1..2
  BY LenProperties DEF Books, AboutOne
<1>2. ASSUME NEW k \in 1..Len(t)
      PROVE  /\ events'[Len(events) + k] = t[k]
             /\ t[k].plan = s.plan /\ t[k].status = s.status /\ t[k].cancel = s.cancel
             /\ t[k].type = "checkout" => s.status = "active" /\ s.cancel = FALSE
             /\ t[k].type = "failed" => k = 2 /\ s.status = "past_due"
  BY DEF AboutOne
<1>3. events'[Len(events) + 1] = t[1] /\ t[1].type = "snapshot"
      /\ t[1].plan = s.plan /\ t[1].cancel = s.cancel
  <2>1. 1 \in 1..Len(t)
    BY <1>1, FirstAndLast
  <2> QED
    BY <1>2, <2>1 DEF AboutOne
<1>4. ASSUME NEW i \in 1..Len(events') PROVE ReportOK(i)'
  <2>1. CASE i <= Len(events)
    <3>1. i \in 1..Len(events) /\ (i > 1 => i - 1 \in 1..Len(events))
      BY <1>1, <2>1
    <3>2. ReportOK(i) /\ events'[i] = events[i] /\ (i > 1 => events'[i - 1] = events[i - 1])
      BY <3>1 DEF Reports
    <3> QED
      BY <3>2 DEF ReportOK
  <2>2. CASE i = Len(events) + 1
    <3>1. 1 \in 1..Len(t)
      BY <1>1, FirstAndLast
    <3>2. events'[i] = t[1] /\ t[1].type = "snapshot"
      BY <1>3, <2>2
    <3> QED
      BY <3>2 DEF ReportOK
  <2>3. CASE i = Len(events) + 2
    <3>1. 2 \in 1..Len(t) /\ i - 1 = Len(events) + 1 /\ i > 1
      BY <1>1, <2>3
    <3>2. events'[i] = t[2] /\ events'[i - 1] = t[1]
      BY <1>2, <1>3, <2>3, <3>1
    <3> QED
      BY <1>2, <1>3, <3>1, <3>2 DEF ReportOK
  <2>4. i <= Len(events) + 2
    BY <1>1
  <2> QED
    BY <1>1, <2>1, <2>2, <2>3, <2>4
<1>5. Len(remote') = 1 => Tells(Len(events), remote[1])'
  <2>1. Len(t) \in 1..Len(t)
    BY <1>1, FirstAndLast
  <2>2. events'[Len(events')] = t[Len(t)]
    BY <1>2, <2>1
  <2>3. LET e == t[Len(t)] IN e.plan = s.plan /\ e.status = s.status /\ e.cancel = s.cancel
    BY <1>2, <2>1
  <2> QED
    BY <2>2, <2>3 DEF Tells
<1> QED
  BY <1>4, <1>5 DEF Reports

LEMMA SameReports == ASSUME Reports, UNCHANGED <<events, remote>> PROVE Reports'
<1>1. Len(events') = Len(events) /\ Len(remote') = Len(remote)
  OBVIOUS
<1> QED
  BY <1>1 DEF Reports, ReportOK, Tells

\* What a report of Stripe does to the books, for the invariants below.
Announced ==
    /\ Len(events') > Len(events)
    /\ events'[Len(events) + 1].type # "failed"
    /\ \A i \in 1..Len(events) : events'[i] = events[i]
    /\ Reports'

LEMMA ReportedAnnounces ==
    ASSUME Books, Reports, NEW n \in 1..MaxSubs, NEW s, NEW t, Told(n, s, t), Reported(n, s, t)
    PROVE  Announced /\ Len(remote') = Len(remote) /\ remote'[n] = s
<1>1. AboutOne(n, s, t)
  BY ToldEvents DEF Reported
<1>2. /\ Len(remote') = Len(remote)
      /\ \A m \in 1..Len(remote) : remote'[m] = IF m = n THEN s ELSE remote[m]
      /\ Len(events') = Len(events) + Len(t)
      /\ \A i \in 1..Len(events) : events'[i] = events[i]
      /\ \A k \in 1..Len(t) : events'[Len(events) + k] = t[k]
  BY EmitGrows
<1>3. n \in 1..Len(remote) /\ remote'[n] = s
  BY <1>2 DEF Reported
<1>4. Len(remote') = 1 => remote'[1] = s
  BY <1>2, <1>3
<1>5. Reports'
  BY <1>1, <1>2, <1>4, NewReports
<1>6. Len(events) \in Nat /\ Len(t) \in 1..2 /\ t[1].type = "snapshot"
  BY <1>1, LenProperties DEF Books, AboutOne
<1>7. 1 \in 1..Len(t)
  BY <1>6
<1> QED
  BY <1>2, <1>3, <1>5, <1>6, <1>7 DEF Announced

LEMMA PayAnnounces ==
    ASSUME BillingShape, Reports, NEW p \in carts, PayCart(p)
    PROVE  Announced /\ Len(remote') = Len(remote) + 1
<1>1. PICK s, t :
        /\ AboutOne(Len(remote) + 1, s, t)
        /\ Len(remote') = Len(remote) + 1 /\ remote'[Len(remote) + 1] = s
        /\ Len(events') = Len(events) + Len(t)
        /\ \A i \in 1..Len(events) : events'[i] = events[i]
        /\ \A k \in 1..Len(t) : events'[Len(events) + k] = t[k]
  BY PayEffect
<1>2. Len(remote') = 1 => remote'[1] = s
  BY <1>1, LenProperties DEF BillingShape, Books
<1>3. Reports'
  BY <1>1, <1>2, NewReports DEF BillingShape
<1>4. Len(events) \in Nat /\ Len(t) \in 1..2 /\ t[1].type = "snapshot"
  BY <1>1, LenProperties DEF BillingShape, Books, AboutOne
<1>5. 1 \in 1..Len(t)
  BY <1>4
<1> QED
  BY <1>1, <1>3, <1>4, <1>5 DEF Announced

\* A second subscription is an excuse for good; the answer to an open request is what
\* Stripe has while nothing else happens.
Answers ==
    /\ Len(remote) > 1 => excuse = "lasting"
    /\ excuse = "none" =>
          \A r \in Requests :
             job[r].step = "write" /\ job[r].mark = Len(events) => job[r].answer = remote[1]

\* No event was applied before an older one.
InOrder == \A i \in ledger : 1..i \subseteq ledger

\* The row is what Stripe has, but for what an event to come writes.
Agreement ==
    Len(remote) # 0 /\ excuse = "none" /\ InOrder =>
        \/ \E i \in Undelivered : events[i].type # "failed"
        \/ /\ row.plan = remote[1].plan /\ row.cancel = remote[1].cancel
           /\ Undelivered = {} => row.status = remote[1].status

Agreed == Reports /\ Answers /\ Agreement

AgreementInv == BillingShape /\ Agreed

\* After a report there is something to write.
LEMMA AnnouncedAgrees ==
    ASSUME BillingShape, Announced, UNCHANGED ledger
    PROVE  Agreement'
<1>1. Len(events) \in Nat /\ ledger \subseteq 1..Len(events) /\ Len(events') \in Nat
  BY LenProperties DEF BillingShape, Books, Announced
<1>2. Len(events) + 1 \in Undelivered'
  BY <1>1 DEF Undelivered, Announced
<1> QED
  BY <1>2 DEF Agreement, Announced

\* A step that opens or ends jobs, and gives no new answer.
LEMMA QuietAgrees ==
    ASSUME AgreementInv, UNCHANGED <<row, remote, events, ledger>>,
           excuse' \in {excuse, "passing"}, excuse = "lasting" => excuse' = "lasting",
           \A r \in Requests : job'[r].step = "write" => job'[r] = job[r]
    PROVE  Agreed'
<1>1. Reports'
  BY SameReports DEF AgreementInv, Agreed
<1>2. Answers'
  BY DEF AgreementInv, Agreed, Answers
<1>3. Agreement'
  BY DEF AgreementInv, Agreed, Agreement, InOrder, Undelivered
<1> QED
  BY <1>1, <1>2, <1>3 DEF Agreed

\* A request called Stripe: its answer is what Stripe has from now on.
LEMMA CallAgrees ==
    ASSUME AgreementInv, NEW r \in Requests, CallStripe(r)
    PROVE  Agreed'
<1> DEFINE n == job[r].seen.provider
           s == Granted(remote[n], job[r].wish)
           j == [job[r] EXCEPT !.step = "write", !.answer = s, !.mark = Len(events')]
<1>1. UNCHANGED <<row, ledger, excuse>> /\ job' = [job EXCEPT ![r] = j]
  BY DEF CallStripe, Answered
<1>2. BillingShape /\ Reports /\ Answers /\ Agreement
  BY DEF AgreementInv, Agreed
<1>3. /\ n \in 1..Len(remote) /\ Len(remote) \in Nat /\ n \in 1..MaxSubs
      /\ \/ s = remote[n] /\ UNCHANGED <<remote, events>>
         \/ \E t : Told(n, s, t) /\ Reported(n, s, t)
  BY <1>2, CallEffect, LenProperties, BillingAssumption DEF BillingShape, Books
<1>4. j.answer = s
  BY <1>2 DEF BillingShape, Job
<1> HIDE DEF j, s, n
<1>5. ASSUME NEW t, Told(n, s, t), Reported(n, s, t)
      PROVE  Announced /\ Len(remote') = Len(remote) /\ remote'[n] = s
  BY <1>2, <1>3, <1>5, ReportedAnnounces DEF BillingShape
<1>6. Len(remote') = Len(remote) /\ remote'[n] = s
  BY <1>3, <1>5
<1>7. Reports'
  BY <1>2, <1>3, <1>5, SameReports DEF Announced
<1>8. Agreement'
  <2>1. CASE UNCHANGED <<remote, events>>
    BY <1>1, <1>2, <2>1 DEF Agreement, InOrder, Undelivered
  <2>2. CASE Announced
    BY <1>1, <1>2, <2>2, AnnouncedAgrees
  <2> QED
    BY <1>3, <1>5, <2>1, <2>2
<1>9. ASSUME excuse' = "none", NEW q \in Requests, job'[q].step = "write",
             job'[q].mark = Len(events')
      PROVE  job'[q].answer = remote'[1]
  <2>1. Len(remote) = 1 /\ n = 1
    <3>1. ~(Len(remote) > 1)
      BY <1>1, <1>2, <1>9 DEF Answers
    <3>2. n \in 1..Len(remote) /\ Len(remote) \in Nat
      BY <1>3
    <3> QED
      BY <3>1, <3>2, OnlyOne
  <2>2. CASE q = r
    BY <1>1, <1>4, <1>6, <2>1, <2>2, <1>2 DEF BillingShape
  <2>3. CASE q # r
    <3>1. job'[q] = job[q] /\ job[q].mark <= Len(events)
      BY <1>1, <1>2, <1>9, <2>3 DEF BillingShape, SoundJob
    <3>2. ~(Len(events') > Len(events))
      <4>1. job[q].mark \in Nat /\ Len(events) \in Nat
        BY <1>2, <1>9, <3>1, LenProperties DEF BillingShape, Books, Job
      <4> QED
        BY <1>9, <3>1, <4>1
    <3>3. UNCHANGED <<remote, events>>
      BY <1>3, <1>5, <3>2 DEF Announced
    <3> QED
      BY <1>1, <1>2, <1>9, <3>1, <3>3 DEF Answers
  <2> QED
    BY <2>2, <2>3
<1>10. Answers'
  BY <1>1, <1>2, <1>6, <1>9 DEF Answers
<1> QED
  BY <1>7, <1>8, <1>10 DEF Agreed

\* A repeated answer is what Stripe has, or an excuse.
LEMMA RepeatAgrees ==
    ASSUME AgreementInv, NEW r \in Requests, CallRepeated(r)
    PROVE  Agreed'
<1>1. PICK k \in replies :
        /\ k.sub = job[r].seen.provider
        /\ Answered(r, k.answer, Len(events))
        /\ ExcusedIf(k.answer # remote[k.sub])
  BY DEF CallRepeated
<1> DEFINE j == [job[r] EXCEPT !.step = "write", !.answer = k.answer, !.mark = Len(events)]
<1>2. /\ UNCHANGED <<row, remote, events, ledger>> /\ job' = [job EXCEPT ![r] = j]
      /\ job[r].step = "call"
  BY <1>1 DEF CallRepeated, Answered
<1>3. BillingShape /\ Reports /\ Answers /\ Agreement
  BY DEF AgreementInv, Agreed
<1>4. j.answer = k.answer /\ k.sub # 0 /\ k.sub \in 0..Len(remote)
  BY <1>1, <1>2, <1>3 DEF BillingShape, Job, SoundJob, SoundReplies
<1> HIDE DEF j
<1>5. ASSUME excuse' = "none", NEW q \in Requests, job'[q].step = "write",
             job'[q].mark = Len(events')
      PROVE  job'[q].answer = remote'[1]
  <2>1. excuse = "none" /\ k.answer = remote[k.sub]
    BY <1>1, <1>5 DEF ExcusedIf
  <2>2. k.sub = 1
    BY <1>3, <1>4, <2>1, LenProperties DEF Answers, BillingShape, Books
  <2>3. CASE q = r
    BY <1>2, <1>3, <1>4, <2>1, <2>2, <2>3 DEF BillingShape
  <2>4. CASE q # r
    BY <1>2, <1>3, <1>5, <2>1, <2>4 DEF BillingShape, Answers
  <2> QED
    BY <2>3, <2>4
<1>6. excuse = "lasting" => excuse' = "lasting"
  BY <1>1 DEF ExcusedIf
<1>7. Answers'
  BY <1>2, <1>3, <1>5, <1>6 DEF Answers
<1>8. Agreement'
  <2>1. excuse' = "none" => excuse = "none"
    BY <1>1 DEF ExcusedIf
  <2> QED
    BY <1>2, <1>3, <2>1 DEF Agreement, InOrder, Undelivered
<1> QED
  BY <1>2, <1>3, <1>7, <1>8, SameReports DEF Agreed

\* A commit that no event has overtaken writes what Stripe has.
LEMMA WriteAgrees ==
    ASSUME AgreementInv, NEW r \in Requests, WriteAnswer(r)
    PROVE  Agreed'
<1> DEFINE j == job[r]
<1>1. /\ UNCHANGED <<remote, events, ledger>> /\ job' = [job EXCEPT ![r] = NoJob]
      /\ ExcusedIf(\E i \in ledger : i > j.mark) /\ j.step = "write"
  BY DEF WriteAnswer, EndJob
<1>2. BillingShape /\ Reports /\ Answers /\ Agreement
  BY DEF AgreementInv, Agreed
<1>3. /\ row'.plan \in {row.plan, j.answer.plan}
      /\ row'.status \in {row.status, j.answer.status}
      /\ row'.cancel \in {row.cancel, j.answer.cancel}
  BY <1>2, WriteEffect
<1>4. /\ j.mark \in Nat /\ Len(events) \in Nat /\ j.mark <= Len(events)
      /\ j.mark < Len(events) => events[j.mark + 1].type # "failed"
  <2>1. j \in Job /\ SoundJob(j)
    BY <1>2 DEF BillingShape
  <2> QED
    BY <1>1, <1>2, <2>1, LenProperties, BillingAssumption DEF SoundJob, Job, BillingShape, Books
<1>5. (excuse' = "none" => excuse = "none" /\ ~\E i \in ledger : i > j.mark)
      /\ (excuse = "lasting" => excuse' = "lasting")
  BY <1>1 DEF ExcusedIf
<1>6. Answers'
  <2>1. \A q \in Requests : job'[q].step = "write" => job'[q] = job[q]
    BY <1>1, <1>2, ConstantsAreTyped DEF BillingShape
  <2> QED
    BY <1>1, <1>2, <1>5, <2>1 DEF Answers
<1>7. Agreement'
  <2> SUFFICES ASSUME Len(remote) # 0, excuse = "none", InOrder, ~\E i \in ledger : i > j.mark,
                      ~\E i \in Undelivered : events[i].type # "failed"
               PROVE  /\ row'.plan = remote[1].plan /\ row'.cancel = remote[1].cancel
                      /\ Undelivered = {} => row'.status = remote[1].status
    BY <1>1, <1>5 DEF Agreement, InOrder, Undelivered
  <2>1. /\ row.plan = remote[1].plan /\ row.cancel = remote[1].cancel
        /\ Undelivered = {} => row.status = remote[1].status
    BY <1>2 DEF Agreement
  <2>2. j.mark = Len(events)
    <3> SUFFICES ASSUME j.mark < Len(events) PROVE FALSE
      BY <1>4
    <3>1. j.mark + 1 \in 1..Len(events) /\ j.mark + 1 > j.mark
      BY <1>4
    <3>2. j.mark + 1 \in Undelivered
      BY <3>1 DEF Undelivered
    <3> QED
      BY <1>4, <3>2
  <2>3. j.answer = remote[1]
    BY <1>1, <1>2, <2>2 DEF Answers
  <2> QED
    BY <1>3, <2>1, <2>3
<1> QED
  BY <1>1, <1>2, <1>6, <1>7, SameReports DEF Agreed

\* The last event of all, applied last to the row it has seen, makes the row what Stripe has.
LEMMA LastEventTells ==
    ASSUME BillingShape, Reports, NEW h \in Hooks, ApplyEvent(h), Len(remote) = 1,
           row = job[h].seen, job[h].event = Len(events), events[Len(events)].type # "failed"
    PROVE  row'.plan = remote[1].plan /\ row'.cancel = remote[1].cancel
             /\ row'.status = remote[1].status
<1> DEFINE j == job[h]
           e == events[j.event]
           new == AfterEvent(e, j.seen)
<1>1. j.event \in 1..Len(events) /\ e \in Event /\ j.seen \in Subscription /\ row' = new
  BY ApplyEffect
<1>2. Len(events) > 0
  BY <1>1, LenProperties DEF BillingShape, Books
<1>3. e.plan = remote[1].plan /\ e.status = remote[1].status /\ e.cancel = remote[1].cancel
  BY <1>2 DEF Reports, Tells
<1>4. e.type = "checkout" => e.status = "active" /\ e.cancel = FALSE
  BY <1>1 DEF Reports, ReportOK
<1>5. e.type \in {"snapshot", "checkout"}
  BY <1>1 DEF Event
<1>6. /\ new.plan = e.plan
      /\ e.type = "snapshot" => new.status = e.status /\ new.cancel = e.cancel
      /\ e.type = "checkout" => new.status = "active" /\ new.cancel = FALSE
  BY <1>1, <1>5, EventRow
<1> HIDE DEF e, new
<1> QED
  BY <1>1, <1>3, <1>4, <1>5, <1>6

\* A delivery in good order.
LEMMA OrderlyAgrees ==
    ASSUME AgreementInv, NEW h \in Hooks, ApplyEvent(h), excuse = "none", ~Disorderly(h, job[h].event),
           InOrder', Len(remote) = 1, ~\E i \in Undelivered' : events[i].type # "failed"
    PROVE  /\ row'.plan = remote[1].plan /\ row'.cancel = remote[1].cancel
           /\ Undelivered' = {} => row'.status = remote[1].status
<1> DEFINE j == job[h]
           i == job[h].event
           e == events[i]
           new == AfterEvent(e, j.seen)
<1>1. BillingShape /\ Reports /\ Agreement
  BY DEF AgreementInv, Agreed
<1>2. /\ i \in 1..Len(events) /\ e \in Event /\ j.seen \in Subscription
      /\ row = j.seen => row' = new
  BY <1>1, ApplyEffect
<1>3. row = j.seen /\ row' = new /\ \A k \in ledger : ~(k > i)
  BY <1>2 DEF Disorderly
<1>4. i \notin ledger /\ ledger' = ledger \cup {i} /\ UNCHANGED <<remote, events>>
  BY DEF ApplyEvent
<1>5. Len(events) \in Nat /\ ledger \subseteq 1..Len(events)
  BY <1>1, LenProperties DEF BillingShape, Books
<1>6. 1..i \subseteq ledger'
  BY <1>4 DEF InOrder
<1>7. ledger = 1..(i - 1)
  <2>1. ASSUME NEW k \in ledger PROVE k \in 1..(i - 1)
    <3>1. k # i /\ ~(k > i) /\ k \in 1..Len(events)
      BY <1>3, <1>4, <1>5
    <3> QED
      BY <1>2, <3>1
  <2>2. ASSUME NEW k \in 1..(i - 1) PROVE k \in ledger
    <3>1. k \in 1..i /\ k # i
      BY <1>2
    <3> QED
      BY <1>4, <1>6, <3>1
  <2> QED
    BY <2>1, <2>2
<1>8. Undelivered' = (i + 1)..Len(events)
  BY <1>2, <1>4, <1>5, <1>7 DEF Undelivered
<1>9. e.type \in {"snapshot", "checkout", "failed"}
  BY <1>2 DEF Event
<1>10. /\ e.type # "failed" => new.plan = e.plan
       /\ e.type = "snapshot" => new.cancel = e.cancel
       /\ e.type = "failed" => /\ new.plan = row.plan /\ new.cancel = row.cancel
                               /\ new.status = "past_due"
  BY <1>2, <1>3, <1>9, EventRow
<1> HIDE DEF i, e, new, j
<1>11. CASE i < Len(events)
  <2>1. i + 1 \in Undelivered' /\ i + 1 \in 1..Len(events) /\ i + 1 - 1 = i
    BY <1>2, <1>5, <1>8, <1>11
  <2>2. /\ events[i + 1].type = "failed" /\ e.type = "snapshot"
        /\ e.plan = events[i + 1].plan /\ e.cancel = events[i + 1].cancel
    <3>1. events[i + 1].type = "failed"
      BY <2>1
    <3>2. /\ events[i].type = "snapshot"
          /\ events[i].plan = events[i + 1].plan /\ events[i].cancel = events[i + 1].cancel
      <4> DEFINE m == i + 1
      <4>1. m \in 1..Len(events) /\ m - 1 = i
        BY <1>2, <1>5, <1>11
      <4>2. events[m].type = "failed"
        BY <3>1
      <4> HIDE DEF m
      <4>3. events[i].type = "snapshot" /\ events[i].plan = events[m].plan
              /\ events[i].cancel = events[m].cancel
        BY <1>1, <4>1, <4>2, FailureFollowsChange
      <4> QED
        BY <4>3 DEF m
    <3> QED
      BY <3>1, <3>2 DEF e
  <2>3. i + 1 = Len(events)
    <3> SUFFICES ASSUME i + 1 < Len(events) PROVE FALSE
      BY <1>2, <1>5, <1>11
    <3>1. /\ i + 1 + 1 \in Undelivered' /\ i + 1 + 1 \in 1..Len(events)
          /\ i + 1 + 1 - 1 = i + 1
      BY <1>2, <1>5, <1>8
    <3>2. events[i + 1 + 1].type = "failed"
      BY <3>1
    <3>3. events[i + 1].type = "snapshot"
      <4> DEFINE k == i + 1
                 m == k + 1
      <4>1. m \in 1..Len(events) /\ m - 1 = k
        BY <1>2, <1>5
      <4>2. events[m].type = "failed"
        BY <3>2
      <4> HIDE DEF m, k
      <4>3. events[k].type = "snapshot"
        BY <1>1, <4>1, <4>2, FailureFollowsChange
      <4> QED
        BY <4>3 DEF k
    <3> QED
      BY <2>2, <3>3
  <2>4. events[i + 1].plan = remote[1].plan /\ events[i + 1].cancel = remote[1].cancel
    <3>1. Len(events) > 0
      BY <1>5, <2>1
    <3> QED
      BY <1>1, <2>3, <3>1 DEF Reports, Tells
  <2> QED
    BY <1>3, <1>10, <2>1, <2>2, <2>4
<1>12. CASE i = Len(events) /\ e.type # "failed"
  <2>1. job[h].event = Len(events) /\ row = job[h].seen /\ events[Len(events)].type # "failed"
    BY <1>3, <1>12 DEF i, j, e
  <2> QED
    BY <1>1, <2>1, LastEventTells
<1>13. CASE i = Len(events) /\ e.type = "failed"
  <2>1. Undelivered = {Len(events)}
    BY <1>2, <1>5, <1>7, <1>13 DEF Undelivered
  <2>2. ~\E k \in Undelivered : events[k].type # "failed"
    BY <1>13, <2>1 DEF e
  <2>3. InOrder
    BY <1>2, <1>7 DEF InOrder
  <2>4. row.plan = remote[1].plan /\ row.cancel = remote[1].cancel
    BY <1>1, <2>2, <2>3 DEF Agreement
  <2>5. e.status = "past_due" /\ e.status = remote[1].status
    <3>1. Len(events) > 0
      BY <1>2, <1>5
    <3>2. ReportOK(i) /\ Tells(Len(events), remote[1])
      BY <1>1, <1>2, <3>1 DEF Reports
    <3> QED
      BY <1>13, <3>2 DEF ReportOK, Tells, e
  <2> QED
    BY <1>3, <1>10, <1>13, <2>4, <2>5
<1> QED
  BY <1>2, <1>5, <1>11, <1>12, <1>13

LEMMA ApplyAgrees ==
    ASSUME AgreementInv, NEW h \in Hooks, ApplyEvent(h)
    PROVE  Agreed'
<1> DEFINE i == job[h].event
<1>1. /\ UNCHANGED <<remote, events>> /\ job' = [job EXCEPT ![h] = NoJob]
      /\ ledger' = ledger \cup {i} /\ i \notin ledger
      /\ \/ Repairs(h, i) /\ excuse = "passing" /\ excuse' = "none"
         \/ ExcusedIf(Disorderly(h, i))
  BY DEF ApplyEvent, EndJob
<1>2. BillingShape /\ Reports /\ Answers /\ Agreement
  BY DEF AgreementInv, Agreed
<1>3. Reports'
  BY <1>1, <1>2, SameReports
<1>4. /\ \A q \in Requests : job'[q].step = "write" => job'[q] = job[q] /\ job[q].step = "write"
      /\ Len(remote) \in Nat /\ Len(events) \in Nat
  BY <1>1, <1>2, ConstantsAreTyped, LenProperties DEF BillingShape, Books
<1>5. CASE Repairs(h, i) /\ excuse = "passing" /\ excuse' = "none"
  <2>1. ~(Len(remote) > 1)
    BY <1>2, <1>5 DEF Answers
  <2>2. Answers'
    BY <1>1, <1>4, <1>5, <2>1 DEF Answers, Repairs
  <2>3. Agreement'
    <3> SUFFICES ASSUME Len(remote) = 1
                 PROVE  row'.plan = remote[1].plan /\ row'.cancel = remote[1].cancel
                          /\ row'.status = remote[1].status
      <4>1. Len(remote) = 0 \/ Len(remote) = 1
        BY <1>4, <2>1, NoneOrOne
      <4> QED
        BY <1>1, <4>1 DEF Agreement
    <3>1. row = job[h].seen /\ job[h].event = Len(events) /\ events[Len(events)].type # "failed"
      BY <1>5 DEF Repairs
    <3> QED
      BY <1>2, <3>1, LastEventTells
  <2> QED
    BY <1>3, <2>2, <2>3 DEF Agreed
<1>6. CASE ExcusedIf(Disorderly(h, i))
  <2>1. /\ excuse' = "none" => excuse = "none" /\ ~Disorderly(h, i)
        /\ excuse = "lasting" => excuse' = "lasting"
    BY <1>6 DEF ExcusedIf
  <2>2. Answers'
    BY <1>1, <1>2, <1>4, <2>1 DEF Answers
  <2>3. Agreement'
    <3> SUFFICES ASSUME Len(remote) # 0, excuse = "none", ~Disorderly(h, i), InOrder',
                        ~\E k \in Undelivered' : events[k].type # "failed"
                 PROVE  /\ row'.plan = remote[1].plan /\ row'.cancel = remote[1].cancel
                        /\ Undelivered' = {} => row'.status = remote[1].status
      BY <1>1, <2>1 DEF Agreement
    <3>1. Len(remote) = 1
      <4>1. ~(Len(remote) > 1)
        BY <1>2 DEF Answers
      <4> QED
        BY <1>4, <4>1, NoneOrOne
    <3> QED
      BY <3>1, OrderlyAgrees
  <2> QED
    BY <1>3, <2>2, <2>3 DEF Agreed
<1> QED
  BY <1>1, <1>5, <1>6 DEF Agreed

\* A further checkout has something to write, and a second subscription is an excuse.
LEMMA PayAgrees ==
    ASSUME AgreementInv, NEW p \in carts, PayCart(p)
    PROVE  Agreed'
<1>1. UNCHANGED <<ledger, job>> /\ excuse' = IF Len(remote) + 1 > 1 THEN "lasting" ELSE excuse
  BY DEF PayCart
<1>2. BillingShape /\ Reports /\ Answers
  BY DEF AgreementInv, Agreed
<1>3. Announced /\ Len(remote') = Len(remote) + 1
  BY <1>2, PayAnnounces
<1>4. \A q \in Requests : job[q].step = "write" => job[q].mark <= Len(events) /\ job[q].mark \in Nat
  BY <1>2 DEF BillingShape, SoundJob, Job
<1>5. Len(events) \in Nat /\ Len(events') > Len(events)
  BY <1>2, <1>3, LenProperties DEF BillingShape, Books, Announced
<1>6. ~\E q \in Requests : job'[q].step = "write" /\ job'[q].mark = Len(events')
  BY <1>1, <1>4, <1>5
<1>7. Answers'
  BY <1>1, <1>3, <1>6 DEF Answers
<1>8. Agreement'
  BY <1>1, <1>2, <1>3, AnnouncedAgrees
<1> QED
  BY <1>3, <1>7, <1>8 DEF Announced, Agreed

\* So has what Stripe does on its own.
LEMMA StripeAgrees ==
    ASSUME AgreementInv, NEW n \in DOMAIN remote,
           PaymentFails(n) \/ PaymentRecovers(n) \/ SubscriptionEnds(n)
    PROVE  Agreed'
<1>1. BillingShape /\ Reports /\ Answers
  BY DEF AgreementInv, Agreed
<1>2. PICK s, t : Told(n, s, t) /\ Reported(n, s, t)
  BY <1>1, StripeActs DEF BillingShape
<1>3. n \in 1..MaxSubs
  BY <1>1, LenProperties, BillingAssumption DEF BillingShape, Books
<1>4. Announced /\ Len(remote') = Len(remote)
  BY <1>1, <1>2, <1>3, ReportedAnnounces DEF BillingShape
<1>5. UNCHANGED <<row, ledger, job, excuse>>
  BY DEF PaymentFails, PaymentRecovers, SubscriptionEnds
<1>6. \A q \in Requests : job[q].step = "write" => job[q].mark <= Len(events) /\ job[q].mark \in Nat
  BY <1>1 DEF BillingShape, SoundJob, Job
<1>7. Len(events) \in Nat /\ Len(events') > Len(events)
  BY <1>1, <1>4, LenProperties DEF BillingShape, Books, Announced
<1>8. ~\E q \in Requests : job'[q].step = "write" /\ job'[q].mark = Len(events')
  BY <1>5, <1>6, <1>7
<1>9. Answers'
  BY <1>1, <1>4, <1>5, <1>8 DEF Answers
<1>10. Agreement'
  BY <1>1, <1>4, <1>5, AnnouncedAgrees
<1> QED
  BY <1>4, <1>9, <1>10 DEF Announced, Agreed

LEMMA AgreementStep == AgreementInv /\ [BillingNext]_billingVars => AgreementInv'
<1> SUFFICES ASSUME AgreementInv, [BillingNext]_billingVars PROVE AgreementInv'
  OBVIOUS
<1>1. BillingShape'
  BY StepShape DEF AgreementInv
<1>2. job \in [Requests \cup Hooks -> Job]
  BY DEF AgreementInv, BillingShape
<1>3. ASSUME UNCHANGED <<row, remote, events, ledger, job, excuse>> PROVE Agreed'
  BY <1>3, QuietAgrees
<1>4. ASSUME NEW p \in Plans, CreateCheckout(p) PROVE Agreed'
  <2>1. UNCHANGED <<row, remote, events, ledger, job, excuse>>
    BY <1>4 DEF CreateCheckout
  <2> QED
    BY <1>3, <2>1
<1>5. ASSUME NEW p \in carts, PayCart(p) PROVE Agreed'
  BY <1>5, PayAgrees
<1>6. ASSUME NEW x \in Requests \cup Hooks,
             (\E w \in Wishes : LoadSubscription(x, w)) \/ (\E i \in Undelivered : ReceiveEvent(x, i))
      PROVE  Agreed'
  <2>1. /\ UNCHANGED <<row, remote, events, ledger, excuse>>
        /\ \E j \in {[NoJob EXCEPT !.step = "call", !.wish = w, !.seen = row] : w \in Wishes}
                 \cup {[NoJob EXCEPT !.step = "hook", !.event = i, !.seen = row] : i \in Undelivered} :
               job' = [job EXCEPT ![x] = j]
    BY <1>6 DEF LoadSubscription, ReceiveEvent
  <2>2. PICK j : job' = [job EXCEPT ![x] = j] /\ j.step # "write"
    BY <2>1 DEF NoJob
  <2>3. \A r \in Requests : job'[r].step = "write" => job'[r] = job[r]
    BY <1>2, <2>2
  <2> QED
    BY <2>1, <2>3, QuietAgrees
<1>7. ASSUME NEW r \in Requests, CallStripe(r) \/ CallRepeated(r) \/ WriteAnswer(r) PROVE Agreed'
  BY <1>7, CallAgrees, RepeatAgrees, WriteAgrees
<1>8. ASSUME NEW h \in Hooks, ApplyEvent(h) PROVE Agreed'
  BY <1>8, ApplyAgrees
<1>9. ASSUME NEW x \in Requests \cup Hooks, CallRefused(x) \/ RefuseTwin(x) \/ LoseTransaction(x)
      PROVE  Agreed'
  <2>1. job' = [job EXCEPT ![x] = NoJob] /\ UNCHANGED <<row, remote, events, ledger, excuse>>
    BY <1>9 DEF CallRefused, RefuseTwin, LoseTransaction, EndJob
  <2>2. \A r \in Requests : job'[r].step = "write" => job'[r] = job[r]
    BY <1>2, <2>1, ConstantsAreTyped
  <2> QED
    BY <2>1, <2>2, QuietAgrees
<1>10. ASSUME NEW n \in DOMAIN remote,
              PaymentFails(n) \/ PaymentRecovers(n) \/ SubscriptionEnds(n)
       PROVE  Agreed'
  BY <1>10, StripeAgrees
<1>11. ASSUME UNCHANGED billingVars \/ NextPeriod PROVE Agreed'
  <2>1. UNCHANGED <<row, remote, events, ledger, job, excuse>>
    BY <1>11 DEF billingVars, NextPeriod
  <2> QED
    BY <1>3, <2>1
<1>12. ASSUME NEW r \in Requests, \/ \E w \in Wishes : LoadSubscription(r, w)
                                 \/ CallStripe(r) \/ CallRepeated(r) \/ CallRefused(r)
                                 \/ WriteAnswer(r)
       PROVE  Agreed'
  BY <1>6, <1>7, <1>9, <1>12
<1>13. ASSUME NEW h \in Hooks, \/ \E i \in Undelivered : ReceiveEvent(h, i)
                              \/ ApplyEvent(h) \/ RefuseTwin(h)
       PROVE  Agreed'
  BY <1>6, <1>8, <1>9, <1>13
<1>14. ASSUME NEW x \in Requests \cup Hooks, LoseTransaction(x) PROVE Agreed'
  BY <1>9, <1>14
<1>15. Agreed'
  BY <1>4, <1>5, <1>10, <1>11, <1>12, <1>13, <1>14 DEF BillingNext
<1> QED
  BY <1>1, <1>15 DEF AgreementInv

LEMMA AgreementStart == BillingInit => AgreementInv
<1> SUFFICES ASSUME BillingInit PROVE AgreementInv
  OBVIOUS
<1>1. /\ remote = <<>> \/ remote = <<FreshRemote>>
      /\ row.plan = DefaultPlan /\ row.status = "active" /\ row.cancel = FALSE
      /\ events = <<>> /\ ledger = {} /\ excuse = "none"
      /\ \A x \in Requests \cup Hooks : job[x].step = "idle"
  BY ConstantsAreTyped DEF BillingInit, FreshSubscription
<1>2. Len(events) = 0 /\ ~(Len(remote) > 1) /\ (Len(remote) # 0 => remote[1] = FreshRemote)
  <2>1. CASE remote = <<>>
    BY <1>1, <2>1, EmptySeq
  <2>2. CASE remote = <<FreshRemote>>
    BY <1>1, <2>2, EmptySeq
  <2> QED
    BY <1>1, <2>1, <2>2
<1>3. Reports
  BY <1>2 DEF Reports
<1>4. Answers
  BY <1>1, <1>2 DEF Answers
<1>5. FreshRemote.plan = DefaultPlan /\ FreshRemote.status = "active" /\ FreshRemote.cancel = FALSE
  BY DEF FreshRemote
<1>6. Agreement
  BY <1>1, <1>2, <1>5 DEF Agreement
<1> QED
  BY <1>3, <1>4, <1>6, StartShape DEF AgreementInv, Agreed

\* Once every webhook is applied and no request is open, the row is what Stripe has, unless
\* a second subscription was bought, an idempotency key was reused, a request was overtaken
\* by a webhook, or webhooks were applied out of order or at once; the next webhook in good
\* order repairs all of it but the first.
THEOREM RowFollowsStripe == BillingSpec => []DisagreementExplained
<1>1. AgreementInv => DisagreementExplained
  <2> SUFFICES ASSUME AgreementInv, Synchronised, excuse = "none", row.provider # 0
               PROVE  /\ row.plan = remote[row.provider].plan
                      /\ row.status = remote[row.provider].status
                      /\ row.cancel = remote[row.provider].cancel
    BY DEF DisagreementExplained, SameAsStripe
  <2>1. BillingShape /\ Answers /\ Agreement /\ Undelivered = {}
    BY DEF AgreementInv, Agreed, Synchronised
  <2>2. /\ row.provider \in Nat /\ row.provider <= Len(remote) /\ Len(remote) \in Nat
        /\ Len(events) \in Nat /\ ledger \subseteq 1..Len(events)
    BY <2>1, LenProperties, BillingAssumption DEF BillingShape, Books, Subscription
  <2>3. ~(Len(remote) > 1)
    BY <2>1 DEF Answers
  <2>4. row.provider = 1 /\ Len(remote) # 0
    BY <2>2, <2>3
  <2>5. InOrder
    <3>1. ledger = 1..Len(events)
      BY <2>1, <2>2 DEF Undelivered
    <3> QED
      BY <2>2, <3>1 DEF InOrder
  <2> QED
    BY <2>1, <2>4, <2>5 DEF Agreement
<1> QED
  BY <1>1, AgreementStart, AgreementStep, PTL DEF BillingSpec

=============================================================================
