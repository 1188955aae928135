------------------------------- MODULE Billing -------------------------------
(***************************************************************************)
(* One person's subscription: the checkout that opens it                   *)
(* (src/app/api/billing/checkout/route.ts), Stripe's own record of it, the *)
(* webhook that projects it (src/app/api/billing/webhook/route.ts and      *)
(* src/lib/billing/sync.ts) and the row the projection is kept in          *)
(* (src/supabase/migrations/0048_billing_subscriptions.sql).               *)
(*                                                                         *)
(* Stripe is outside the code: it keeps a state per subscription, stamps   *)
(* an event with the second of each change, delivers it at least once, in  *)
(* any order and to any number of handlers at once, and delivers it again  *)
(* until it is answered 200.                                               *)
(***************************************************************************)
EXTENDS Naturals

CONSTANTS
  Checkouts,     \* requests to subscribe; each may create a customer and a subscription
  Outside,       \* subscriptions made in Stripe's dashboard
  Handlers,      \* webhook requests that may run at once
  MaxClock,      \* bound: no change is later than this second
  MaxEvents,     \* bound: changes of the subscriptions
  MaxFaults,     \* bound: calls that fail, answers that are lost, deliveries repeated
  Null

Subs == Checkouts \cup Outside

ASSUME KindAssumption  == Checkouts \cap Outside = {}
ASSUME BoundAssumption == MaxClock \in Nat /\ MaxEvents \in Nat /\ MaxFaults \in Nat

VARIABLES
  checkout,   \* per request: the step it is at and the customer it has
  stripe,     \* per subscription: Stripe's record of it, Null before it exists
  queue,      \* events not answered 200 yet
  done,       \* events answered 200
  handler,    \* per handler: the delivery it is working on, or Null
  row,        \* billing_subscriptions: the person's row, or Null
  clock,      \* the second of the last change
  changes, faults

stripeVars == <<stripe, clock, changes>>
hookVars   == <<queue, done, handler>>
vars       == <<checkout, stripeVars, hookVars, row, faults>>

Statuses  == {"incomplete", "active", "past_due", "canceled"}

\* Each customer is named after the checkout or the subscription it was made for.
\* `meta`: the subscription carries the person's user id in its metadata.  `change`
\* numbers the changes of all subscriptions: no two states are the same.
Records == [cust : Subs, meta : BOOLEAN, status : Statuses, change : Nat]
Events  == [sub : Subs, created : Nat, change : Nat]
Steps   == [step : {"idle", "create", "attach", "session", "subscribed"},
            cust : Subs \cup {Null}]
\* `readAt` is history: the second the subscription was read back at.
Works   == [step : {"received"}, event : Events]
           \cup [step : {"read", "resolved"}, event : Events, val : Records, readAt : Nat]
\* `former` is history: the customers the row was bound to before.
Rows    == [cust : Subs, sub : Subs \cup {Null}, status : Statuses, change : Nat,
            stamp : Nat, readAt : Nat, former : SUBSET Subs]
ASSUME NullAssumption == Null \notin Subs \cup Records \cup Works \cup Rows

Init ==
  /\ checkout = [c \in Checkouts |-> [step |-> "idle", cust |-> Null]]
  /\ stripe = [s \in Subs |-> Null] /\ queue = {} /\ done = {}
  /\ handler = [h \in Handlers |-> Null] /\ row = Null
  /\ clock = 0 /\ changes = 0 /\ faults = 0

Fault == faults < MaxFaults /\ faults' = faults + 1

-----------------------------------------------------------------------------
(* POST /api/billing/checkout.                                             *)

Go(c, step, cust) == checkout' = [checkout EXCEPT ![c] = [step |-> step, cust |-> cust]]

readSubscriptionByUser(c) ==
  /\ checkout[c].step = "idle"
  /\ IF row = Null THEN Go(c, "create", Null) ELSE Go(c, "session", row.cust)
  /\ UNCHANGED <<stripeVars, hookVars, row, faults>>

CreateCustomer(c) ==
  /\ checkout[c].step = "create" /\ Go(c, "attach", c)
  /\ UNCHANGED <<stripeVars, hookVars, row, faults>>

NewRow(cust) == [cust |-> cust, sub |-> Null, status |-> "incomplete", change |-> 0,
                 stamp |-> 0, readAt |-> 0, former |-> {}]

\* Mutant: the row starts without a change time.
BoundUnstamped(cust) == row' = IF row = Null THEN [NewRow(cust) EXCEPT !.stamp = Null] ELSE row

\* insert ... on conflict (user_id) do nothing.
Bound(cust) == row' = IF row = Null THEN NewRow(cust) ELSE row

\* Mutant: the customer just made is used, whichever was bound.
AttachOwn(c) ==
  /\ checkout[c].step = "attach" /\ Bound(checkout[c].cust)
  /\ Go(c, "session", checkout[c].cust) /\ UNCHANGED faults
  /\ UNCHANGED <<stripeVars, hookVars>>

\* The customer that won is the one to go on with; or the answer is lost.
attach_stripe_customer(c) ==
  /\ checkout[c].step = "attach" /\ Bound(checkout[c].cust)
  /\ \/ Go(c, "session", row'.cust) /\ UNCHANGED faults
     \/ Go(c, "idle", Null) /\ Fault
  /\ UNCHANGED <<stripeVars, hookVars>>

\* Any call fails: the request ends, a customer it made stays unused.  A new click
\* starts again.
CheckoutFails(c) ==
  /\ checkout[c].step \notin {"idle", "subscribed"} /\ Fault
  /\ Go(c, "idle", Null)
  /\ UNCHANGED <<stripeVars, hookVars, row>>

-----------------------------------------------------------------------------
(* Stripe.                                                                 *)

\* A change of subscription s, in this second or the next, and the event of it.
Changes(s, cust, meta, status) ==
  /\ changes < MaxEvents /\ changes' = changes + 1
  /\ \E t \in {clock, clock + 1} :
       /\ 0 < t /\ t <= MaxClock /\ clock' = t
       /\ queue' = queue \cup {[sub |-> s, created |-> t, change |-> changes']}
  /\ stripe' = [stripe EXCEPT ![s] = [cust |-> cust, meta |-> meta, status |-> status,
                                     change |-> changes']]

\* The session, which names the user, is created, opened and paid.
Subscribe(c) ==
  /\ checkout[c].step = "session" /\ Go(c, "subscribed", checkout[c].cust)
  /\ Changes(c, checkout[c].cust, TRUE, "incomplete")
  /\ UNCHANGED <<done, handler, row, faults>>

\* In the dashboard: for the customer the person is bound to, or for another one, with
\* or without the person's user id.
SubscribeOutside(s) ==
  /\ s \in Outside /\ stripe[s] = Null
  /\ \E cust \in {s} \cup (IF row = Null THEN {} ELSE {row.cust}), meta \in BOOLEAN :
       Changes(s, cust, meta, "active")
  /\ UNCHANGED <<checkout, done, handler, row, faults>>

Follows(old) ==
  CASE old = "incomplete" -> {"active"}
    [] old = "active"     -> {"past_due", "canceled"}
    [] old = "past_due"   -> {"active", "canceled"}
    [] old = "canceled"   -> {}

ChangeStatus(s) ==
  /\ stripe[s] # Null
  /\ \E status \in Follows(stripe[s].status) : Changes(s, stripe[s].cust, stripe[s].meta, status)
  /\ UNCHANGED <<checkout, done, handler, row, faults>>

-----------------------------------------------------------------------------
(* POST /api/billing/webhook: handleStripeEvent.                           *)

Work(h, w)   == handler' = [handler EXCEPT ![h] = w]
Answer200(h) == queue' = queue \ {handler[h].event} /\ done' = done \cup {handler[h].event}

\* A delivery; one that was answered may be repeated.
Deliver(h) ==
  /\ handler[h] = Null
  /\ \/ \E e \in queue : Work(h, [step |-> "received", event |-> e]) /\ UNCHANGED faults
     \/ \E e \in done  : Work(h, [step |-> "received", event |-> e]) /\ Fault
  /\ UNCHANGED <<checkout, stripeVars, queue, done, row>>

\* subscriptions.retrieve: what Stripe says now.
Retrieve(h) ==
  /\ handler[h] # Null /\ handler[h].step = "received"
  /\ LET e == handler[h].event
     IN  Work(h, [step |-> "read", event |-> e, val |-> stripe[e.sub], readAt |-> clock])
  /\ UNCHANGED <<checkout, stripeVars, queue, done, row, faults>>

\* readUserIdByCustomer, then the metadata.
KnownUser(val) == (row # Null /\ row.cust = val.cust) \/ val.meta

\* Mutant: an event for nobody is refused, and so delivered again.
ResolveRefuses(h) ==
  /\ handler[h] # Null /\ handler[h].step = "read"
  /\ Work(h, IF KnownUser(handler[h].val)
             THEN [handler[h] EXCEPT !.step = "resolved"] ELSE Null)
  /\ UNCHANGED <<checkout, stripeVars, queue, done, row, faults>>

resolveUserId(h) ==
  /\ handler[h] # Null /\ handler[h].step = "read"
  /\ \/ /\ KnownUser(handler[h].val)
        /\ Work(h, [handler[h] EXCEPT !.step = "resolved"])
        /\ UNCHANGED <<queue, done>>
     \/ /\ ~KnownUser(handler[h].val)
        /\ Answer200(h) /\ Work(h, Null)
  /\ UNCHANGED <<checkout, stripeVars, row, faults>>

Former(cust) ==
  IF row = Null THEN {} ELSE IF row.cust = cust THEN row.former ELSE row.former \cup {row.cust}

\* What a delivery makes of the row: the subscription's customer takes the place of
\* the one that was bound.
Projection(w) ==
  [cust |-> w.val.cust, sub |-> w.event.sub, status |-> w.val.status,
   change |-> w.val.change, stamp |-> w.event.created, readAt |-> w.readAt,
   former |-> Former(w.val.cust)]

\* Mutant: the newest delivery wins, whatever its event's second.
ApplyAlways(w) == row' = Projection(w)

\* insert ... on conflict (user_id) do update ... where last_event_at <= excluded.
apply_stripe_subscription(w) ==
  row' = IF row # Null /\ row.stamp > w.event.created THEN row ELSE Projection(w)

\* The write, then 200; the answer may not reach Stripe.
Apply(h) ==
  /\ handler[h] # Null /\ handler[h].step = "resolved"
  /\ apply_stripe_subscription(handler[h])
  /\ \/ Answer200(h) /\ UNCHANGED faults
     \/ Fault /\ UNCHANGED <<queue, done>>
  /\ Work(h, Null)
  /\ UNCHANGED <<checkout, stripeVars>>

\* Stripe or the store cannot be reached: 500, and Stripe tries again.
HandlerFails(h) ==
  /\ handler[h] # Null /\ Fault /\ Work(h, Null)
  /\ UNCHANGED <<checkout, stripeVars, queue, done, row>>

Checkout(c) ==
  \/ readSubscriptionByUser(c) \/ CreateCustomer(c) \/ attach_stripe_customer(c)
  \/ CheckoutFails(c) \/ Subscribe(c)

Handle(h) == Retrieve(h) \/ resolveUserId(h) \/ Apply(h)

Next ==
  \/ \E c \in Checkouts : Checkout(c)
  \/ \E s \in Subs : SubscribeOutside(s) \/ ChangeStatus(s)
  \/ \E h \in Handlers : Deliver(h) \/ Handle(h) \/ HandlerFails(h)

Spec == Init /\ [][Next]_vars

\* Stripe goes on delivering what was not answered, and a request that was begun ends.
FairSpec ==
  /\ Spec
  /\ WF_vars(\E h \in Handlers : Deliver(h))
  /\ \A h \in Handlers : WF_vars(Handle(h))

-----------------------------------------------------------------------------
(* Correctness.                                                            *)

\* Every variable stays in its type.
TypeOK ==
  /\ checkout \in [Checkouts -> Steps] /\ stripe \in [Subs -> Records \cup {Null}]
  /\ queue \subseteq Events /\ done \subseteq Events
  /\ handler \in [Handlers -> Works \cup {Null}] /\ row \in Rows \cup {Null}
  /\ clock \in Nat /\ changes \in Nat /\ faults \in Nat

AtRest == queue = {} /\ \A h \in Handlers : handler[h] = Null

\* The last change of s shares its second with no other.
AloneInSecond(s) ==
  \A e, f \in queue \cup done :
    e.sub = s /\ e.change = stripe[s].change /\ f.created = e.created => f = e

\* The person is found for s by its metadata, or by a customer bound for good so far.
Findable(s) ==
  stripe[s].meta \/ (row # Null /\ row.former = {} /\ row.cust = stripe[s].cust)

\* Once every delivery is answered the row holds the present state of its subscription,
\* and nothing newer is missed, in whatever order, how often and how slowly the events
\* came (sync.ts: "so ordering stops mattering for correctness").  Only a last change
\* that shares its second with another can be missed: the guard cannot tell their
\* deliveries apart.
SettledIsCurrent ==
  AtRest => \A s \in Subs : stripe[s] # Null /\ Findable(s) /\ AloneInSecond(s) =>
    /\ row # Null /\ row.sub # Null /\ stripe[s].change <= row.change
    /\ row.sub = s => row.change = stripe[s].change

\* A subscription with our metadata made in the dashboard on a customer of its own.
MadeElsewhere ==
  \E s \in Outside : stripe[s] # Null /\ stripe[s].meta /\ stripe[s].cust = s

\* However many checkouts run at once, everything they sell is on the customer the
\* person's row is bound to (store.ts: two customers and "a subscription on the one
\* nobody looks at"), or was bound to before; and it takes a subscription made
\* elsewhere to bind it to another.
OneCustomer ==
  /\ \A c \in Checkouts :
       /\ stripe[c] # Null =>
            row # Null /\ stripe[c].cust \in {row.cust} \cup row.former
       /\ checkout[c].step \in {"session", "subscribed"} =>
            row # Null /\ checkout[c].cust \in {row.cust} \cup row.former
  /\ row # Null /\ row.former # {} => MadeElsewhere

\* The row is a copy of Stripe that is never older than the newest event applied:
\* the second of that event only moves forward, and Stripe was read back no earlier.
RowFloor == IF row = Null THEN 0 ELSE row.stamp
RowRead  == IF row = Null THEN 0 ELSE row.readAt
Copy     == INSTANCE FreshCopy WITH truth <- clock, floor <- RowFloor, copy <- RowRead
IsFreshCopy == Copy!Spec

\* Deliveries come to an end: an event nobody can use is answered too, and not
\* delivered for ever.
DeliveriesEnd == []<>AtRest
=============================================================================
