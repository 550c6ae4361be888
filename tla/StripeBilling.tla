---------------------------- MODULE StripeBilling ----------------------------
(***************************************************************************)
(* The Stripe subscription of one workspace: the local row, the state      *)
(* Stripe keeps, and the two ways the row follows it.  API requests read   *)
(* the row, call Stripe and write what Stripe answered; webhooks carry a   *)
(* snapshot, arrive in any order and more than once, and are recorded in a *)
(* ledger with a unique event id.  Both are database transactions that     *)
(* read without a lock and update only the columns they changed.           *)
(*                                                                         *)
(* Stripe executes a request with a known idempotency key by repeating its *)
(* earlier answer; the keys contain the current period of five minutes.    *)
(***************************************************************************)
EXTENDS Integers, Sequences, FiniteSets

CONSTANTS
    Plans,          \* purchasable prices, a plan with its billing cycle
    DefaultPlan,    \* the plan of a new workspace
    Wishes,         \* changes users ask for: a plan, to cancel, to resume
    Requests,       \* API requests that may be open at once
    Hooks,          \* webhook deliveries that may be open at once
    MaxSubs,        \* bound: subscriptions the customer ever buys
    MaxEvents       \* bound: events Stripe ever emits

ASSUME BillingAssumption ==
    /\ DefaultPlan \in Plans
    /\ {"cancel", "resume"} \cap Plans = {}
    /\ Wishes \subseteq Plans \cup {"cancel", "resume"}
    /\ Requests \cap Hooks = {}
    /\ MaxSubs \in Nat \ {0} /\ MaxEvents \in Nat

VARIABLES
    row,      \* the committed billing_subscriptions row
    remote,   \* Stripe: its subscriptions, by number
    events,   \* Stripe: the events emitted, in order
    ledger,   \* committed stripe_webhook_events, by number of the event
    job,      \* what each open request or delivery is doing
    carts,    \* open checkout sessions, by plan
    replies,  \* Stripe: answers kept under the idempotency keys of the period
    excuse    \* whether row and remote may differ (observed, not stored)

billingVars == <<row, remote, events, ledger, job, carts, replies,
                 excuse>>

Status == {"active", "past_due", "canceled"}

Remote == [plan : Plans, status : Status, cancel : BOOLEAN]

Subscription == [provider : 0..MaxSubs, plan : Plans, status : Status, cancel : BOOLEAN]

Event == [type : {"snapshot", "checkout", "failed"}, sub : 1..MaxSubs,
          plan : Plans, status : Status, cancel : BOOLEAN]

Job == [step : {"idle", "hook", "call", "write"}, event : 0..MaxEvents,
        wish : Plans \cup {"cancel", "resume"}, seen : Subscription, answer : Remote, mark : 0..MaxEvents]

\* The row of a workspace that never bought anything.
FreshSubscription ==
    [provider |-> 0, plan |-> DefaultPlan, status |-> "active", cancel |-> FALSE]

FreshRemote == [plan |-> DefaultPlan, status |-> "active", cancel |-> FALSE]

NoJob == [step |-> "idle", event |-> 0, wish |-> "cancel",
          seen |-> FreshSubscription, answer |-> FreshRemote, mark |-> 0]

\* A workspace that never bought anything, or one whose purchase is long settled.
BillingInit ==
    /\ remote \in {<<>>, <<FreshRemote>>}
    /\ row = [FreshSubscription EXCEPT !.provider = Len(remote)]
    /\ events = <<>>
    /\ ledger = {}
    /\ job = [j \in Requests \cup Hooks |-> NoJob]
    /\ carts = {}
    /\ replies = {}
    /\ excuse = "none"

-----------------------------------------------------------------------------
(* Helpers. *)

\* Mutant: the whole row is written, with the columns that were read.
WriteWholeRow(old, new, current) == new

\* What an UPDATE of the columns changed since `old` was read makes of `current`.
MergeColumns(old, new, current) ==
    [c \in DOMAIN current |-> IF new[c] = old[c] THEN current[c] ELSE new[c]]

Snapshot(n, s) ==
    [type |-> "snapshot", sub |-> n, plan |-> s.plan, status |-> s.status, cancel |-> s.cancel]

Notice(type, n, s) == [Snapshot(n, s) EXCEPT !.type = type]

Room(k) == Len(events) + k <= MaxEvents

\* Events Stripe still delivers: it repeats a delivery until it is answered with success.
Undelivered == (1..Len(events)) \ ledger

\* Stripe changes subscription n to s and reports it.
Emit(n, s, notices) ==
    /\ remote' = [remote EXCEPT ![n] = s]
    /\ events' = events \o notices

\* From now on, until the next event in good order, the two sides may differ.
ExcusedIf(trouble) ==
    excuse' = IF trouble /\ excuse = "none" THEN "passing" ELSE excuse

EndJob(j) == job' = [job EXCEPT ![j] = NoJob]

-----------------------------------------------------------------------------
(* Checkout. *)

\* create_checkout: refused once the row knows a Stripe subscription.  The session is
\* created under a key of its plan, so asking again within the period opens no other.
CreateCheckout(p) ==
    LET key == [sub |-> 0, wish |-> p, answer |-> FreshRemote] IN
    /\ row.provider = 0
    /\ key \notin replies
    /\ carts' = carts \cup {p}
    /\ replies' = replies \cup {key}
    /\ UNCHANGED <<row, remote, events, ledger, job, excuse>>

\* The customer completes a session he was given: a new subscription, whatever the row
\* says by now.
PayCart(p) ==
    LET s == [FreshRemote EXCEPT !.plan = p]
        n == Len(remote) + 1
    IN  /\ p \in carts
        /\ n <= MaxSubs
        /\ Room(2)
        /\ carts' = carts \ {p}
        /\ remote' = Append(remote, s)
        /\ events' = events \o <<Snapshot(n, s), Notice("checkout", n, s)>>
        /\ excuse' = IF n > 1 THEN "lasting" ELSE excuse
        /\ UNCHANGED <<row, ledger, job, replies>>

-----------------------------------------------------------------------------
(* Requests that change the subscription. *)

\* change_subscription_plan and _set_cancellation up to the call of Stripe.
LoadSubscription(r, w) ==
    /\ job[r].step = "idle"
    /\ row.provider # 0
    /\ w # row.plan
    /\ job' = [job EXCEPT ![r] = [NoJob EXCEPT !.step = "call", !.wish = w, !.seen = row]]
    /\ UNCHANGED <<row, remote, events, ledger, carts, replies, excuse>>

\* What Stripe makes of a request; a plan change also withdraws a cancellation.
Granted(s, w) ==
    CASE w = "cancel" -> [s EXCEPT !.cancel = TRUE]
      [] w = "resume" -> [s EXCEPT !.cancel = FALSE]
      [] OTHER        -> [s EXCEPT !.plan = w, !.cancel = FALSE]

Answered(r, answer, mark) ==
    job' = [job EXCEPT ![r].step = "write", ![r].answer = answer, ![r].mark = mark]

\* Stripe executes the request, reports a change and keeps the answer under its key.
CallStripe(r) ==
    LET n == job[r].seen.provider
        w == job[r].wish
        s == Granted(remote[n], w)
    IN  /\ job[r].step = "call"
        /\ ~\E k \in replies : k.sub = n /\ k.wish = w
        /\ remote[n].status # "canceled"
        /\ Room(1)
        /\ Emit(n, s, IF s = remote[n] THEN <<>> ELSE <<Snapshot(n, s)>>)
        /\ replies' = replies \cup {[sub |-> n, wish |-> w, answer |-> s]}
        /\ Answered(r, s, Len(events'))
        /\ UNCHANGED <<row, ledger, carts, excuse>>

\* The key was used before in this period: Stripe repeats the answer and does nothing.
CallRepeated(r) ==
    /\ job[r].step = "call"
    /\ \E k \in replies :
          /\ k.sub = job[r].seen.provider /\ k.wish = job[r].wish
          /\ Answered(r, k.answer, Len(events))
          /\ ExcusedIf(k.answer # remote[k.sub])
    /\ UNCHANGED <<row, remote, events, ledger, carts, replies>>

\* Stripe refuses to change a subscription that has ended.
CallRefused(r) ==
    /\ job[r].step = "call"
    /\ remote[job[r].seen.provider].status = "canceled"
    /\ EndJob(r)
    /\ UNCHANGED <<row, remote, events, ledger, carts, replies, excuse>>

\* The columns the request sets from the answer.
AfterRequest(seen, w, answer) ==
    IF w \in Plans
    THEN [seen EXCEPT !.plan = w, !.status = answer.status, !.cancel = answer.cancel]
    ELSE [seen EXCEPT !.cancel = answer.cancel]

\* The commit.  A webhook of something that happened after the call may have been
\* applied already.
WriteAnswer(r) ==
    /\ job[r].step = "write"
    /\ row' = MergeColumns(job[r].seen, AfterRequest(job[r].seen, job[r].wish, job[r].answer), row)
    /\ ExcusedIf(\E i \in ledger : i > job[r].mark)
    /\ EndJob(r)
    /\ UNCHANGED <<remote, events, ledger, carts, replies>>

-----------------------------------------------------------------------------
(* Webhooks. *)

\* Mutant: an event of a subscription the row does not know yet is refused.
ReceiveKnownEvent(h, i) ==
    /\ job[h].step = "idle"
    /\ i \in Undelivered
    /\ row.provider # 0
    /\ job' = [job EXCEPT ![h] = [NoJob EXCEPT !.step = "hook", !.event = i, !.seen = row]]
    /\ UNCHANGED <<row, remote, events, ledger, carts, replies, excuse>>

\* stripe_webhook up to its writes: the event is not in the ledger, the row is read.
ReceiveEvent(h, i) ==
    /\ job[h].step = "idle"
    /\ i \in Undelivered
    /\ job' = [job EXCEPT ![h] = [NoJob EXCEPT !.step = "hook", !.event = i, !.seen = row]]
    /\ UNCHANGED <<row, remote, events, ledger, carts, replies, excuse>>

\* checkout.session.completed: the workspace is named in the session.
AfterCheckout(e, seen) ==
    [seen EXCEPT !.provider = e.sub, !.plan = e.plan, !.status = "active", !.cancel = FALSE]

\* customer.subscription.*: the row is found by subscription or by workspace.
AfterSnapshot(e, seen) ==
    [seen EXCEPT !.provider = e.sub, !.plan = e.plan, !.status = e.status, !.cancel = e.cancel]

\* invoice.payment_failed: the row is found by customer.
AfterFailure(seen) == [seen EXCEPT !.status = "past_due"]

\* Mutant: every event finds the row by customer, and no event links the subscription.
AfterEventByCustomer(e, seen) ==
    CASE e.type = "snapshot" -> [AfterSnapshot(e, seen) EXCEPT !.provider = seen.provider]
      [] e.type = "checkout" -> [AfterCheckout(e, seen) EXCEPT !.provider = seen.provider]
      [] e.type = "failed"   -> AfterFailure(seen)

AfterEvent(e, seen) ==
    CASE e.type = "snapshot" -> AfterSnapshot(e, seen)
      [] e.type = "checkout" -> AfterCheckout(e, seen)
      [] e.type = "failed"   -> AfterFailure(seen)

\* The newest event, applied to an up-to-date row with nothing else under way, leaves the
\* row as Stripe described it: what went wrong before is repaired.
Repairs(h, i) ==
    /\ events[i].type = "snapshot"
    /\ ledger = 1..(Len(events) - 1)
    /\ i = Len(events)
    /\ row = job[h].seen
    /\ \A r \in Requests : job[r].step # "write"

\* It is older than what was applied, or the row has changed since it was read.
Disorderly(h, i) == (\E k \in ledger : k > i) \/ row # job[h].seen

\* The commit of a delivery, with the row of the ledger.
ApplyEvent(h) ==
    LET i == job[h].event IN
    /\ job[h].step = "hook"
    /\ i \notin ledger
    /\ row' = MergeColumns(job[h].seen, AfterEvent(events[i], job[h].seen), row)
    /\ ledger' = ledger \cup {i}
    /\ IF Repairs(h, i) /\ excuse = "passing" THEN excuse' = "none"
                                            ELSE ExcusedIf(Disorderly(h, i))
    /\ EndJob(h)
    /\ UNCHANGED <<remote, events, carts, replies>>

\* The unique event id refuses a delivery whose twin was faster.
RefuseTwin(h) ==
    /\ job[h].step = "hook"
    /\ job[h].event \in ledger
    /\ EndJob(h)
    /\ UNCHANGED <<row, remote, events, ledger, carts, replies, excuse>>

\* A transaction ends without its commit: Stripe did not answer in time, the process or
\* the database failed.  A delivery will be repeated; what Stripe did remains done.
LoseTransaction(j) ==
    /\ job[j].step # "idle"
    /\ EndJob(j)
    /\ UNCHANGED <<row, remote, events, ledger, carts, replies, excuse>>

-----------------------------------------------------------------------------
(* Stripe on its own. *)

\* A renewal cannot be charged.
PaymentFails(n) ==
    LET s == [remote[n] EXCEPT !.status = "past_due"] IN
    /\ remote[n].status = "active"
    /\ Room(2)
    /\ Emit(n, s, <<Snapshot(n, s), Notice("failed", n, s)>>)
    /\ UNCHANGED <<row, ledger, job, carts, replies, excuse>>

PaymentRecovers(n) ==
    LET s == [remote[n] EXCEPT !.status = "active"] IN
    /\ remote[n].status = "past_due"
    /\ Room(1)
    /\ Emit(n, s, <<Snapshot(n, s)>>)
    /\ UNCHANGED <<row, ledger, job, carts, replies, excuse>>

\* The paid period of a cancelled subscription ends, or Stripe gives up charging.
SubscriptionEnds(n) ==
    LET s == [remote[n] EXCEPT !.status = "canceled"] IN
    /\ remote[n].cancel \/ remote[n].status = "past_due"
    /\ remote[n].status # "canceled"
    /\ Room(1)
    /\ Emit(n, s, <<Snapshot(n, s)>>)
    /\ UNCHANGED <<row, ledger, job, carts, replies, excuse>>

\* Five minutes pass: new requests get new keys.
NextPeriod ==
    /\ replies # {}
    /\ replies' = {}
    /\ UNCHANGED <<row, remote, events, ledger, job, carts, excuse>>

-----------------------------------------------------------------------------

BillingNext ==
    \/ \E p \in Plans : CreateCheckout(p)
    \/ \E p \in carts : PayCart(p)
    \/ \E r \in Requests :
          \/ \E w \in Wishes : LoadSubscription(r, w)
          \/ CallStripe(r) \/ CallRepeated(r) \/ CallRefused(r) \/ WriteAnswer(r)
    \/ \E h \in Hooks :
          \/ \E i \in Undelivered : ReceiveEvent(h, i)
          \/ ApplyEvent(h) \/ RefuseTwin(h)
    \/ \E j \in Requests \cup Hooks : LoseTransaction(j)
    \/ \E n \in DOMAIN remote : PaymentFails(n) \/ PaymentRecovers(n) \/ SubscriptionEnds(n)
    \/ NextPeriod

\* Stripe repeats deliveries, and not every one of them is lost.
BillingFairness ==
    \A h \in Hooks :
       /\ WF_billingVars(\E i \in Undelivered : ReceiveEvent(h, i))
       /\ SF_billingVars(ApplyEvent(h))
       /\ WF_billingVars(RefuseTwin(h))

BillingSpec == BillingInit /\ [][BillingNext]_billingVars /\ BillingFairness

-----------------------------------------------------------------------------
(* Properties. *)

BillingTypeOK ==
    /\ row \in Subscription
    /\ Len(remote) <= MaxSubs /\ \A n \in DOMAIN remote : remote[n] \in Remote
    /\ Len(events) <= MaxEvents /\ \A i \in DOMAIN events : events[i] \in Event
    /\ ledger \subseteq DOMAIN events
    /\ job \in [Requests \cup Hooks -> Job]
    /\ carts \subseteq Plans
    /\ replies \subseteq [sub : 0..Len(remote), wish : Plans \cup {"cancel", "resume"},
                    answer : Remote]
    /\ excuse \in {"none", "passing", "lasting"}

\* Nothing is under way between the two sides.
Synchronised ==
    /\ Undelivered = {}
    /\ \A j \in Requests \cup Hooks : job[j].step = "idle"

SameAsStripe ==
    row.provider # 0 =>
        LET s == remote[row.provider] IN
        row.plan = s.plan /\ row.status = s.status /\ row.cancel = s.cancel

\* Once every webhook is applied and no request is open, the row is what Stripe has, unless
\* a second subscription was bought, an idempotency key was reused, a request was overtaken
\* by a webhook, or webhooks were applied out of order or at once; and the next webhook in
\* good order repairs all of it but the first (billing_routers: create_checkout,
\* change_subscription_plan, _set_cancellation, stripe_webhook).
DisagreementExplained == Synchronised /\ excuse = "none" => SameAsStripe

\* The customer pays for the subscription the workspace has: when everything is delivered,
\* no live subscription is unknown to the row unless two checkouts were completed.
NoUnknownSubscription ==
    Synchronised /\ Len(remote) = 1 =>
        \A n \in DOMAIN remote : remote[n].status # "canceled" => row.provider = n

\* Every event Stripe emits is applied some day, whatever deliveries fail, repeat or race.
EventsProcessed == []<>(Undelivered = {})

=============================================================================
