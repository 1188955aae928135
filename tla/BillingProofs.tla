---------------------------- MODULE BillingProofs ----------------------------
(***************************************************************************)
(* Theorems about Billing, for any number of checkouts, handlers and       *)
(* changes, in the same second or not: types, the one customer, that the   *)
(* row is a fresh copy, and that it is the present state once every        *)
(* delivery is answered.                                                   *)
(***************************************************************************)
EXTENDS Billing, TLAPS

\* What types rest on: a request that reached the bank has its customer, and an event
\* is about a subscription that exists.
HasCustomer ==
  \A c \in Checkouts :
    checkout[c].step \in {"attach", "session", "subscribed"} => checkout[c].cust \in Subs

EventExists(e) == stripe[e.sub] # Null /\ e.created <= clock
EventsExist ==
  /\ \A e \in queue \cup done : EventExists(e)
  /\ \A h \in Handlers : handler[h] # Null => EventExists(handler[h].event)

TypeInv == TypeOK /\ HasCustomer /\ EventsExist

-----------------------------------------------------------------------------
(* Types.                                                                  *)

LEMMA TypeInit == Init => TypeInv
  BY DEF Init, TypeInv, TypeOK, HasCustomer, EventsExist, EventExists, Steps

\* The parts of a delivery a handler works on.
LEMMA WorkParts ==
  ASSUME TypeOK, NEW h \in Handlers, handler[h] # Null
  PROVE  /\ handler[h] \in Works /\ handler[h].event \in Events
         /\ handler[h].step \in {"read", "resolved"} =>
              handler[h].val \in Records /\ handler[h].readAt \in Nat
  BY DEF TypeOK, Works

LEMMA GoType ==
  ASSUME TypeOK, NEW c \in Checkouts,
         NEW step \in {"idle", "create", "attach", "session", "subscribed"},
         NEW cust \in Subs \cup {Null}, Go(c, step, cust),
         HasCustomer, step \in {"attach", "session", "subscribed"} => cust \in Subs
  PROVE  checkout' \in [Checkouts -> Steps] /\ HasCustomer'
  BY DEF TypeOK, Go, Steps, HasCustomer

LEMMA ChangesType ==
  ASSUME TypeInv, NEW s \in Subs, NEW cust \in Subs, NEW meta \in BOOLEAN,
         NEW status \in Statuses, Changes(s, cust, meta, status),
         UNCHANGED <<done, handler, row>>
  PROVE  /\ stripe' \in [Subs -> Records \cup {Null}] /\ queue' \subseteq Events
         /\ clock' \in Nat /\ changes' \in Nat /\ EventsExist'
         /\ clock' >= clock
  <1>. USE DEF TypeInv, TypeOK
  <1>1. changes' \in Nat /\ clock' \in Nat /\ clock' >= clock
    BY DEF Changes
  <1>2. queue' = queue \cup {[sub |-> s, created |-> clock', change |-> changes']}
    BY DEF Changes
  <1>3. stripe' = [stripe EXCEPT ![s] = [cust |-> cust, meta |-> meta, status |-> status,
                                         change |-> changes']]
    BY DEF Changes
  <1>4. [cust |-> cust, meta |-> meta, status |-> status, change |-> changes'] \in Records
    BY <1>1 DEF Records
  <1>5. queue' \subseteq Events
    BY <1>1, <1>2 DEF Events
  <1>6. ASSUME NEW e \in Events, EventExists(e) PROVE EventExists(e)'
    <2>1. e.sub \in Subs /\ e.created \in Nat
      BY DEF Events
    <2>. QED  BY <1>1, <1>3, <1>4, <1>6, <2>1, NullAssumption DEF EventExists
  <1>7. ASSUME NEW e \in queue' \cup done' PROVE EventExists(e)'
    <2>1. CASE e \in queue \cup done
      BY <2>1, <1>6 DEF EventsExist
    <2>2. CASE e = [sub |-> s, created |-> clock', change |-> changes']
      BY <2>2, <1>1, <1>3, <1>4, NullAssumption DEF EventExists
    <2>. QED  BY <1>2, <2>1, <2>2
  <1>8. ASSUME NEW h \in Handlers, handler'[h] # Null PROVE EventExists(handler[h].event)'
    BY <1>6, <1>8, WorkParts DEF EventsExist
  <1>9. EventsExist'
    BY <1>7, <1>8 DEF EventsExist
  <1>. QED  BY <1>1, <1>3, <1>4, <1>5, <1>9

\* A handler turns to a delivery, or puts it down.
LEMMA WorkType ==
  ASSUME TypeInv, NEW h \in Handlers, NEW w \in Works \cup {Null}, Work(h, w),
         w # Null => EventExists(w.event),
         UNCHANGED stripeVars,
         queue' \subseteq Events, done' \subseteq Events,
         \A e \in queue' \cup done' : EventExists(e)
  PROVE  /\ handler' \in [Handlers -> Works \cup {Null}]
         /\ EventsExist'
  <1>. USE DEF TypeInv, TypeOK
  <1>1. handler' \in [Handlers -> Works \cup {Null}]
    BY DEF Work
  <1>2. \A e \in queue' \cup done' : EventExists(e)'
    BY DEF EventsExist, EventExists, stripeVars
  <1>3. ASSUME NEW g \in Handlers, handler'[g] # Null PROVE EventExists(handler[g].event)'
    <2>1. CASE g = h
      BY <1>3, <2>1 DEF Work, EventExists, stripeVars
    <2>2. CASE g # h
      BY <1>3, <2>2 DEF Work, EventsExist, EventExists, stripeVars
    <2>. QED  BY <2>1, <2>2
  <1>. QED  BY <1>1, <1>2, <1>3 DEF EventsExist

LEMMA AnswerKeeps ==
  ASSUME TypeInv, NEW h \in Handlers, handler[h] # Null, Answer200(h)
  PROVE  /\ queue' \subseteq Events /\ done' \subseteq Events
         /\ \A e \in queue' \cup done' : EventExists(e)
  BY WorkParts DEF TypeInv, TypeOK, Answer200, EventsExist

LEMMA ResolvedType ==
  ASSUME TypeInv, NEW h \in Handlers, handler[h] # Null, handler[h].step = "read"
  PROVE  [handler[h] EXCEPT !.step = "resolved"] \in Works
  BY DEF TypeInv, TypeOK, Works

LEMMA ProjectionType ==
  ASSUME TypeInv, NEW w \in Works, w.step = "resolved"
  PROVE  Projection(w) \in Rows /\ Projection(w) # Null
  <1>1. w.event \in Events /\ w.val \in Records /\ w.readAt \in Nat
    BY DEF Works
  <1>2. row # Null => row \in Rows
    BY DEF TypeInv, TypeOK
  <1>3. Former(w.val.cust) \in SUBSET Subs
    BY <1>1, <1>2 DEF Former, Records, Rows
  <1>4. Projection(w) \in Rows
    BY <1>1, <1>3 DEF Projection, Events, Records, Rows
  <1>. QED  BY <1>4, NullAssumption

LEMMA RowType ==
  ASSUME TypeInv, NEW w \in Works, w.step = "resolved", apply_stripe_subscription(w)
  PROVE  row' \in Rows /\ row' # Null
  BY ProjectionType, NullAssumption DEF TypeInv, TypeOK, apply_stripe_subscription

LEMMA NewRowType ==
  ASSUME NEW cust \in Subs
  PROVE  NewRow(cust) \in Rows /\ NewRow(cust) # Null
  <1>1. NewRow(cust) \in Rows
    BY DEF NewRow, Rows, Statuses
  <1>. QED  BY <1>1, NullAssumption

LEMMA CheckoutTypes ==
  ASSUME TypeInv, NEW c \in Checkouts, Checkout(c)
  PROVE  TypeInv'
  <1>. USE DEF TypeInv, TypeOK, hookVars
  <1>0. c \in Subs
    BY DEF Subs
  <1>1. CASE readSubscriptionByUser(c)
    <2>1. row # Null => row.cust \in Subs
      BY DEF Rows
    <2>2. checkout' \in [Checkouts -> Steps] /\ HasCustomer'
      BY <1>1, <2>1, GoType DEF readSubscriptionByUser
    <2>. QED  BY <1>1, <2>2 DEF readSubscriptionByUser, stripeVars, EventsExist, EventExists
  <1>2. CASE CreateCustomer(c)
    <2>1. checkout' \in [Checkouts -> Steps] /\ HasCustomer'
      BY <1>0, <1>2, GoType DEF CreateCustomer
    <2>. QED  BY <1>2, <2>1 DEF CreateCustomer, stripeVars, EventsExist, EventExists
  <1>3. CASE attach_stripe_customer(c)
    <2>1. checkout[c].cust \in Subs
      BY <1>3 DEF attach_stripe_customer, HasCustomer
    <2>2. row' \in Rows /\ row'.cust \in Subs
      <3>1. row' \in Rows
        BY <1>3, <2>1, NewRowType DEF attach_stripe_customer, Bound
      <3>. QED  BY <3>1 DEF Rows
    <2>3. checkout' \in [Checkouts -> Steps] /\ HasCustomer'
      <3>1. CASE Go(c, "session", row'.cust)
        BY <2>2, <3>1, GoType
      <3>2. CASE Go(c, "idle", Null)
        BY <3>2, GoType
      <3>. QED  BY <1>3, <3>1, <3>2 DEF attach_stripe_customer
    <2>. QED  BY <1>3, <2>2, <2>3
         DEF attach_stripe_customer, stripeVars, EventsExist, EventExists, Fault
  <1>4. CASE CheckoutFails(c)
    <2>1. checkout' \in [Checkouts -> Steps] /\ HasCustomer'
      BY <1>4, GoType DEF CheckoutFails
    <2>. QED  BY <1>4, <2>1 DEF CheckoutFails, stripeVars, EventsExist, EventExists, Fault
  <1>5. CASE Subscribe(c)
    <2>1. checkout[c].cust \in Subs
      BY <1>5 DEF Subscribe, HasCustomer
    <2>2. checkout' \in [Checkouts -> Steps] /\ HasCustomer'
      BY <1>5, <2>1, GoType DEF Subscribe
    <2>3. /\ Changes(c, checkout[c].cust, TRUE, "incomplete") /\ "incomplete" \in Statuses
          /\ UNCHANGED <<done, handler, row, faults>>
      BY <1>5 DEF Subscribe, Statuses
    <2>. QED  BY <1>0, <2>1, <2>2, <2>3, ChangesType
  <1>. QED  BY <1>1, <1>2, <1>3, <1>4, <1>5 DEF Checkout

LEMMA StripeTypes ==
  ASSUME TypeInv, NEW s \in Subs, SubscribeOutside(s) \/ ChangeStatus(s)
  PROVE  TypeInv'
  <1>. USE DEF TypeInv, TypeOK
  <1>1. PICK cust \in Subs, meta \in BOOLEAN, status \in Statuses :
          Changes(s, cust, meta, status)
    <2>1. CASE SubscribeOutside(s)
      <3>1. {s} \cup (IF row = Null THEN {} ELSE {row.cust}) \subseteq Subs
            /\ "active" \in Statuses
        BY DEF Rows, Statuses
      <3>. QED  BY <2>1, <3>1 DEF SubscribeOutside
    <2>2. CASE ChangeStatus(s)
      <3>1. /\ stripe[s] \in Records /\ stripe[s].cust \in Subs /\ stripe[s].meta \in BOOLEAN
            /\ stripe[s].status \in Statuses
        BY <2>2 DEF ChangeStatus, Records
      <3>2. Follows(stripe[s].status) \subseteq Statuses
        BY <3>1 DEF Follows, Statuses
      <3>. QED  BY <2>2, <3>1, <3>2 DEF ChangeStatus
    <2>. QED  BY <2>1, <2>2
  <1>2. UNCHANGED <<checkout, done, handler, row, faults>>
    BY DEF SubscribeOutside, ChangeStatus
  <1>. QED  BY <1>1, <1>2, ChangesType DEF HasCustomer

LEMMA HandlerTypes ==
  ASSUME TypeInv, NEW h \in Handlers, Deliver(h) \/ Handle(h) \/ HandlerFails(h)
  PROVE  TypeInv'
  <1>. USE DEF TypeInv, TypeOK
  <1>0. \A e \in queue \cup done : EventExists(e)
    BY DEF EventsExist
  <1>1. CASE Deliver(h)
    <2>1. PICK e \in queue \cup done : Work(h, [step |-> "received", event |-> e])
      BY <1>1 DEF Deliver
    <2>2. e \in Events /\ [step |-> "received", event |-> e] \in Works
      BY DEF Works
    <2>3. /\ handler' \in [Handlers -> Works \cup {Null}] /\ EventsExist'
      BY <1>0, <1>1, <2>1, <2>2, WorkType DEF Deliver
    <2>4. faults' \in Nat
      <3>1. faults' = faults \/ faults' = faults + 1
        BY <1>1 DEF Deliver, Fault
      <3>. QED  BY <3>1
    <2>5. UNCHANGED <<checkout, stripe, clock, changes, queue, done, row>>
      BY <1>1 DEF Deliver, stripeVars
    <2>. QED  BY <2>3, <2>4, <2>5 DEF HasCustomer
  <1>2. CASE Retrieve(h)
    <2>. DEFINE e == handler[h].event
                w == [step |-> "read", event |-> e, val |-> stripe[e.sub], readAt |-> clock]
    <2>1. handler[h] # Null /\ Work(h, w)
      BY <1>2 DEF Retrieve
    <2>2. e \in Events /\ EventExists(e)
      BY <2>1, WorkParts DEF EventsExist
    <2>3. e.sub \in Subs /\ stripe[e.sub] \in Records
      BY <2>2 DEF Events, EventExists
    <2>4. w \in Works /\ w.event = e
      BY <2>2, <2>3 DEF Works
    <2>5. UNCHANGED stripeVars /\ queue' = queue /\ done' = done
      BY <1>2 DEF Retrieve
    <2>6. /\ handler' \in [Handlers -> Works \cup {Null}] /\ EventsExist'
      <3>. HIDE DEF w, e
      <3>. QED  BY <1>0, <2>1, <2>2, <2>4, <2>5, WorkType
    <2>. QED  BY <1>2, <2>6 DEF Retrieve, stripeVars, HasCustomer
  <1>3. CASE resolveUserId(h)
    <2>1. handler[h] # Null /\ handler[h].step = "read" /\ EventExists(handler[h].event)
      BY <1>3 DEF resolveUserId, EventsExist
    <2>2. CASE Work(h, [handler[h] EXCEPT !.step = "resolved"]) /\ UNCHANGED <<queue, done>>
      <3>1. [handler[h] EXCEPT !.step = "resolved"].event = handler[h].event
        BY <2>1 DEF Works
      <3>2. handler' \in [Handlers -> Works \cup {Null}] /\ EventsExist'
        BY <1>0, <1>3, <2>1, <2>2, <3>1, ResolvedType, WorkType DEF resolveUserId
      <3>. QED  BY <1>3, <2>2, <3>2 DEF resolveUserId, stripeVars, HasCustomer
    <2>3. CASE Answer200(h) /\ Work(h, Null)
      <3>1. handler' \in [Handlers -> Works \cup {Null}] /\ EventsExist'
        BY <1>3, <2>1, <2>3, AnswerKeeps, WorkType DEF resolveUserId
      <3>. QED  BY <1>3, <2>1, <2>3, <3>1, AnswerKeeps DEF resolveUserId, stripeVars, HasCustomer
    <2>. QED  BY <1>3, <2>2, <2>3 DEF resolveUserId
  <1>4. CASE Apply(h)
    <2>1. handler[h] # Null /\ handler[h] \in Works /\ row' \in Rows \cup {Null}
      BY <1>4, WorkParts, RowType DEF Apply
    <2>2. /\ queue' \subseteq Events /\ done' \subseteq Events
          /\ \A e \in queue' \cup done' : EventExists(e)
      BY <1>0, <1>4, <2>1, AnswerKeeps DEF Apply
    <2>3. handler' \in [Handlers -> Works \cup {Null}] /\ EventsExist'
      BY <1>4, <2>2, WorkType DEF Apply
    <2>. QED  BY <1>4, <2>1, <2>2, <2>3 DEF Apply, stripeVars, Fault, HasCustomer
  <1>5. CASE HandlerFails(h)
    <2>1. handler' \in [Handlers -> Works \cup {Null}] /\ EventsExist'
      BY <1>0, <1>5, WorkType DEF HandlerFails
    <2>. QED  BY <1>5, <2>1 DEF HandlerFails, stripeVars, Fault, HasCustomer
  <1>. QED  BY <1>1, <1>2, <1>3, <1>4, <1>5 DEF Handle

LEMMA TypeStep == TypeInv /\ [Next]_vars => TypeInv'
  <1>. SUFFICES ASSUME TypeInv, [Next]_vars PROVE TypeInv'
    OBVIOUS
  <1>1. CASE UNCHANGED vars
    BY <1>1 DEF vars, stripeVars, hookVars, TypeInv, TypeOK, HasCustomer, EventsExist, EventExists
  <1>2. CASE Next
    BY <1>2, CheckoutTypes, StripeTypes, HandlerTypes DEF Next
  <1>. QED  BY <1>1, <1>2

\* Every variable stays in its type, an event is always about a subscription Stripe
\* has, and a request never reaches the row or the session without a customer.
LEMMA TypesHold == Spec => []TypeInv
  BY TypeInit, TypeStep, PTL DEF Spec

\* Every reachable state is well typed, because the facts above come with the types.
THEOREM TypeCorrect == Spec => []TypeOK
  <1>1. TypeInv => TypeOK
    BY DEF TypeInv
  <1>. QED  BY TypesHold, <1>1, PTL

-----------------------------------------------------------------------------
(* One customer.                                                           *)

\* A subscription keeps its customer and its metadata, a row keeps the customers it has.
SubsKept == \A s \in Subs : stripe[s] # Null =>
  stripe'[s] # Null /\ stripe'[s].cust = stripe[s].cust /\ stripe'[s].meta = stripe[s].meta
Bindings == {row.cust} \cup row.former
RowKept  == row # Null => row' # Null /\ Bindings \subseteq Bindings'

LEMMA ChangesKeep ==
  ASSUME TypeInv, NEW s \in Subs, NEW cust \in Subs, NEW meta \in BOOLEAN,
         NEW status \in Statuses, Changes(s, cust, meta, status),
         stripe[s] # Null => cust = stripe[s].cust /\ meta = stripe[s].meta
  PROVE  /\ SubsKept /\ \A t \in Subs \ {s} : stripe'[t] = stripe[t]
         /\ stripe'[s] # Null /\ stripe'[s].cust = cust /\ stripe'[s].meta = meta
         /\ stripe'[s].change = changes'
  <1>1. /\ stripe' = [stripe EXCEPT ![s] = [cust |-> cust, meta |-> meta, status |-> status,
                                           change |-> changes']]
        /\ changes' \in Nat
    BY DEF Changes, TypeInv, TypeOK
  <1>2. [cust |-> cust, meta |-> meta, status |-> status, change |-> changes'] \in Records
    BY <1>1 DEF Records
  <1>. QED  BY <1>1, <1>2, NullAssumption DEF TypeInv, TypeOK, SubsKept

\* The checkouts and the dashboard as far as subscriptions are concerned.
LEMMA SubscribeKeeps ==
  ASSUME TypeInv, NEW c \in Checkouts, Subscribe(c), stripe[c] = Null \/
           (stripe[c].cust = checkout[c].cust /\ stripe[c].meta)
  PROVE  /\ SubsKept /\ \A t \in Subs \ {c} : stripe'[t] = stripe[t]
         /\ stripe'[c] # Null /\ stripe'[c].cust = checkout[c].cust /\ stripe'[c].meta
  <1>1. /\ checkout[c].cust \in Subs /\ c \in Subs /\ TRUE \in BOOLEAN /\ "incomplete" \in Statuses
        /\ Changes(c, checkout[c].cust, TRUE, "incomplete")
    BY DEF Subscribe, TypeInv, HasCustomer, Subs, Statuses
  <1>2. stripe[c] # Null => stripe[c].meta = TRUE
    BY <1>1 DEF TypeInv, TypeOK, Records
  <1>. QED  BY <1>1, <1>2, ChangesKeep

LEMMA StripeKeeps ==
  ASSUME TypeInv, NEW s \in Subs, SubscribeOutside(s) \/ ChangeStatus(s)
  PROVE  /\ SubsKept /\ \A t \in Subs \ {s} : stripe'[t] = stripe[t]
         /\ \/ stripe[s] # Null
            \/ s \in Outside /\ stripe'[s].cust \in {s} \cup (IF row = Null THEN {} ELSE {row.cust})
  <1>0. \A t \in Subs : stripe[t] # Null =>
          /\ stripe[t].cust \in Subs /\ stripe[t].meta \in BOOLEAN /\ stripe[t].status \in Statuses
    BY DEF TypeInv, TypeOK, Records
  <1>1. CASE SubscribeOutside(s)
    <2>1. {s} \cup (IF row = Null THEN {} ELSE {row.cust}) \subseteq Subs /\ "active" \in Statuses
      BY DEF TypeInv, TypeOK, Rows, Statuses
    <2>. QED  BY <1>1, <2>1, ChangesKeep DEF SubscribeOutside
  <1>2. CASE ChangeStatus(s)
    <2>1. Follows(stripe[s].status) \subseteq Statuses
      BY <1>0, <1>2 DEF ChangeStatus, Follows, Statuses
    <2>. QED  BY <1>0, <1>2, <2>1, ChangesKeep DEF ChangeStatus
  <1>. QED  BY <1>1, <1>2

\* A handler read the customer and the metadata its subscription still has.
ReadsSame ==
  \A h \in Handlers : handler[h] # Null /\ handler[h].step \in {"read", "resolved"} =>
    /\ handler[h].val.cust = stripe[handler[h].event.sub].cust
    /\ handler[h].val.meta = stripe[handler[h].event.sub].meta

\* A subscription of ours is found by its metadata.
OursNamed == \A c \in Checkouts : stripe[c] # Null => stripe[c].meta

\* Once it knows the person, that is the row's customer, unless one was made elsewhere.
ResolvedBound ==
  \A h \in Handlers : handler[h] # Null /\ handler[h].step = "resolved" =>
    MadeElsewhere \/ (row # Null /\ handler[h].val.cust = row.cust)

\* A subscription made in the dashboard has its own customer, or one the row has had.
OutsideBound ==
  \A s \in Outside : stripe[s] # Null =>
    stripe[s].cust = s \/ (row # Null /\ stripe[s].cust \in Bindings)

\* A checkout has one subscription, on the customer it went to the bank with.
SoldOnce == \A c \in Checkouts : stripe[c] # Null =>
              checkout[c].step = "subscribed" /\ stripe[c].cust = checkout[c].cust

CustomerInv ==
  TypeInv /\ OneCustomer /\ ReadsSame /\ OursNamed /\ ResolvedBound /\ OutsideBound /\ SoldOnce

LEMMA CustomerInit == Init => CustomerInv
  <1>. SUFFICES ASSUME Init PROVE CustomerInv
    OBVIOUS
  <1>1. /\ row = Null /\ \A s \in Subs : stripe[s] = Null
        /\ \A h \in Handlers : handler[h] = Null
        /\ \A c \in Checkouts : checkout[c].step = "idle"
    BY DEF Init
  <1>. QED  BY <1>1, TypeInit
       DEF CustomerInv, OneCustomer, ReadsSame, OursNamed, ResolvedBound, OutsideBound, SoldOnce,
           Subs

\* What was read, and what was made elsewhere, stays so.
LEMMA SameReads ==
  ASSUME CustomerInv, SubsKept
  PROVE  /\ MadeElsewhere => MadeElsewhere'
         /\ \A h \in Handlers : handler[h] # Null /\ handler[h].step \in {"read", "resolved"} =>
              /\ handler[h].event.sub \in Subs /\ stripe[handler[h].event.sub] # Null
              /\ handler[h].val.cust = stripe'[handler[h].event.sub].cust
              /\ handler[h].val.meta = stripe'[handler[h].event.sub].meta
  <1>1. MadeElsewhere => MadeElsewhere'
    BY DEF SubsKept, MadeElsewhere, Subs
  <1>2. ASSUME NEW h \in Handlers, handler[h] # Null
        PROVE  handler[h].event.sub \in Subs /\ stripe[handler[h].event.sub] # Null
    BY <1>2, WorkParts DEF CustomerInv, TypeInv, EventsExist, EventExists, Events
  <1>. QED  BY <1>1, <1>2 DEF CustomerInv, ReadsSame, SubsKept

LEMMA CheckoutCustomer ==
  ASSUME CustomerInv, TypeInv', NEW c \in Checkouts, Checkout(c)
  PROVE  CustomerInv'
  <1>. USE DEF CustomerInv
  <1>0. TypeOK /\ HasCustomer /\ c \in Subs
    BY DEF TypeInv, Subs
  <1>1. CASE readSubscriptionByUser(c) \/ CreateCustomer(c) \/ CheckoutFails(c)
    <2>1. UNCHANGED <<stripe, handler, row>>
      BY <1>1 DEF readSubscriptionByUser, CreateCustomer, CheckoutFails, stripeVars, hookVars
    <2>2. /\ checkout[c].step # "subscribed"
          /\ \E step \in {"create", "attach", "idle", "session"}, cust \in Subs \cup {Null} :
               Go(c, step, cust) /\ (step = "session" => row # Null /\ cust = row.cust)
      BY <1>0, <1>1 DEF readSubscriptionByUser, CreateCustomer, CheckoutFails, TypeOK, Rows
    <2>3. OneCustomer' /\ SoldOnce'
      BY <1>0, <2>1, <2>2 DEF Go, TypeOK, Steps, OneCustomer, SoldOnce, MadeElsewhere
    <2>. QED  BY <2>1, <2>3
         DEF ReadsSame, OursNamed, ResolvedBound, OutsideBound, MadeElsewhere, Bindings
  <1>2. CASE attach_stripe_customer(c)
    <2>1. UNCHANGED <<stripe, handler>> /\ checkout[c].step = "attach"
      BY <1>2 DEF attach_stripe_customer, stripeVars, hookVars
    <2>2. /\ row' # Null /\ (row # Null => row' = row)
          /\ (row = Null => row'.former = {})
      <3>1. checkout[c].cust \in Subs
        BY <1>0, <2>1 DEF HasCustomer
      <3>2. CASE row # Null
        BY <1>2, <3>2 DEF attach_stripe_customer, Bound
      <3>3. CASE row = Null
        <4>1. row' = NewRow(checkout[c].cust) /\ row' # Null
          BY <1>2, <3>1, <3>3, NewRowType DEF attach_stripe_customer, Bound
        <4>. QED  BY <3>3, <4>1 DEF NewRow
      <3>. QED  BY <3>2, <3>3
    <2>3. Go(c, "session", row'.cust) \/ Go(c, "idle", Null)
      BY <1>2 DEF attach_stripe_customer
    <2>4. OneCustomer' /\ SoldOnce'
      BY <1>0, <2>1, <2>2, <2>3 DEF Go, TypeOK, Steps, OneCustomer, SoldOnce, MadeElsewhere
    <2>5. OutsideBound' /\ ResolvedBound'
      BY <2>1, <2>2 DEF OutsideBound, ResolvedBound, MadeElsewhere, Bindings
    <2>. QED  BY <2>1, <2>4, <2>5 DEF ReadsSame, OursNamed
  <1>3. CASE Subscribe(c)
    <2>1. /\ checkout[c].step = "session" /\ stripe[c] = Null
          /\ row # Null /\ checkout[c].cust \in Bindings
      BY <1>3 DEF Subscribe, SoldOnce, OneCustomer, Bindings
    <2>2. UNCHANGED <<row, handler>> /\ Go(c, "subscribed", checkout[c].cust)
      BY <1>3 DEF Subscribe
    <2>3. /\ SubsKept /\ \A t \in Subs \ {c} : stripe'[t] = stripe[t]
          /\ stripe'[c] # Null /\ stripe'[c].cust = checkout[c].cust /\ stripe'[c].meta
      BY <1>3, <2>1, SubscribeKeeps
    <2>4. MadeElsewhere => MadeElsewhere'
      BY <2>3, SameReads
    <2>5. OneCustomer' /\ SoldOnce'
      BY <1>0, <2>1, <2>2, <2>3, <2>4
      DEF Go, TypeOK, Steps, OneCustomer, SoldOnce, Bindings, Subs
    <2>6. ReadsSame' /\ ResolvedBound'
      BY <2>2, <2>3, <2>4, SameReads DEF ReadsSame, ResolvedBound
    <2>7. OursNamed'
      BY <2>3 DEF OursNamed, Subs
    <2>8. OutsideBound'
      BY <2>2, <2>3, KindAssumption DEF OutsideBound, Bindings, Subs
    <2>. QED  BY <2>5, <2>6, <2>7, <2>8
  <1>. QED  BY <1>1, <1>2, <1>3 DEF Checkout

LEMMA StripeCustomer ==
  ASSUME CustomerInv, TypeInv', NEW s \in Subs, SubscribeOutside(s) \/ ChangeStatus(s)
  PROVE  CustomerInv'
  <1>. USE DEF CustomerInv
  <1>1. UNCHANGED <<checkout, handler, row>>
    BY DEF SubscribeOutside, ChangeStatus
  <1>2. /\ SubsKept /\ \A t \in Subs \ {s} : stripe'[t] = stripe[t]
        /\ \/ stripe[s] # Null
           \/ s \in Outside /\ stripe'[s].cust \in {s} \cup (IF row = Null THEN {} ELSE {row.cust})
    BY StripeKeeps
  <1>3. \A c \in Checkouts : stripe'[c] # Null => stripe[c] # Null /\ c \in Subs
    BY <1>2, KindAssumption DEF Subs
  <1>4. OneCustomer' /\ SoldOnce' /\ OursNamed'
    BY <1>1, <1>2, <1>3, SameReads DEF SubsKept, OneCustomer, SoldOnce, OursNamed
  <1>5. ReadsSame' /\ ResolvedBound'
    BY <1>1, <1>2, SameReads DEF ReadsSame, ResolvedBound
  <1>6. OutsideBound'
    BY <1>1, <1>2 DEF SubsKept, OutsideBound, Bindings, Subs
  <1>. QED  BY <1>4, <1>5, <1>6

\* A delivery binds the row to the customer of its subscription.
LEMMA ApplyBinds ==
  ASSUME TypeInv, NEW w \in Works, w.step = "resolved", apply_stripe_subscription(w)
  PROVE  /\ row' # Null /\ RowKept
         /\ row # Null => \/ row'.cust = row.cust /\ row'.former = row.former
                          \/ row'.cust # row.cust /\ row'.cust = w.val.cust
         /\ row = Null => row'.former = {} /\ row'.cust = w.val.cust
  <1>1. row' # Null
    BY RowType
  <1>2. \/ row # Null /\ row' = row
        \/ row' = Projection(w)
    BY DEF apply_stripe_subscription
  <1>3. CASE row' = Projection(w)
    <2>1. row'.cust = w.val.cust /\ row'.former = Former(w.val.cust)
      BY <1>3 DEF Projection
    <2>. QED  BY <1>1, <2>1 DEF Former, RowKept, Bindings
  <1>. QED  BY <1>1, <1>2, <1>3 DEF RowKept, Bindings

LEMMA HandlerCustomer ==
  ASSUME CustomerInv, TypeInv', NEW h \in Handlers, Deliver(h) \/ Handle(h) \/ HandlerFails(h)
  PROVE  CustomerInv'
  <1>. USE DEF CustomerInv
  <1>0. TypeOK /\ UNCHANGED <<checkout, stripe>>
    BY DEF TypeInv, Deliver, Handle, Retrieve, resolveUserId, Apply, HandlerFails, stripeVars
  <1>1. OursNamed' /\ SoldOnce' /\ (MadeElsewhere <=> MadeElsewhere')
    BY <1>0 DEF OursNamed, SoldOnce, MadeElsewhere
  <1>2. ASSUME row' = row, NEW w, Work(h, w),
               w # Null /\ w.step \in {"read", "resolved"} =>
                 w.val.cust = stripe[w.event.sub].cust /\ w.val.meta = stripe[w.event.sub].meta,
               w # Null /\ w.step = "resolved" =>
                 MadeElsewhere \/ (row # Null /\ w.val.cust = row.cust)
        PROVE  CustomerInv'
    <2>1. handler'[h] = w /\ \A g \in Handlers \ {h} : handler'[g] = handler[g]
      BY <1>0, <1>2 DEF Work, TypeOK
    <2>2. OneCustomer' /\ OutsideBound'
      BY <1>0, <1>1, <1>2 DEF OneCustomer, OutsideBound, Bindings
    <2>3. ReadsSame'
      BY <1>0, <1>2, <2>1 DEF ReadsSame
    <2>4. ResolvedBound'
      BY <1>1, <1>2, <2>1 DEF ResolvedBound
    <2>. QED  BY <1>1, <2>2, <2>3, <2>4
  <1>3. CASE Deliver(h)
    <2>1. PICK e : Work(h, [step |-> "received", event |-> e])
      BY <1>3 DEF Deliver
    <2>2. row' = row
      BY <1>3 DEF Deliver
    <2>. QED  BY <1>2, <2>1, <2>2
  <1>4. CASE Retrieve(h)
    <2>1. PICK t : Work(h, [step |-> "read", event |-> handler[h].event,
                            val |-> stripe[handler[h].event.sub], readAt |-> t])
      BY <1>4 DEF Retrieve
    <2>2. row' = row
      BY <1>4 DEF Retrieve
    <2>. QED  BY <1>2, <2>1, <2>2
  <1>5. CASE resolveUserId(h)
    <2>1. row' = row /\ handler[h] # Null /\ handler[h].step = "read"
      BY <1>5 DEF resolveUserId
    <2>2. CASE KnownUser(handler[h].val) /\ Work(h, [handler[h] EXCEPT !.step = "resolved"])
      <3>. DEFINE w == [handler[h] EXCEPT !.step = "resolved"]
                  s == handler[h].event.sub
      <3>1. w.event = handler[h].event /\ w.val = handler[h].val
        BY <1>0, <2>1 DEF TypeOK, Works
      <3>2. /\ s \in Subs /\ stripe[s] # Null
            /\ handler[h].val.cust = stripe[s].cust /\ handler[h].val.meta = stripe[s].meta
        BY <1>0, <2>1, SameReads DEF SubsKept
      <3>3. CASE row # Null /\ row.cust = handler[h].val.cust
        BY <1>2, <2>1, <2>2, <3>1, <3>2, <3>3
      <3>4. CASE handler[h].val.meta /\ ~(row # Null /\ row.cust = handler[h].val.cust)
        <4>1. ASSUME s \in Checkouts PROVE MadeElsewhere
          BY <3>2, <3>4, <4>1 DEF OneCustomer
        <4>2. ASSUME s \in Outside PROVE MadeElsewhere
          BY <3>2, <3>4, <4>2 DEF OneCustomer, OutsideBound, Bindings, MadeElsewhere
        <4>3. MadeElsewhere
          BY <3>2, <4>1, <4>2 DEF Subs
        <4>. QED  BY <1>2, <2>1, <2>2, <3>1, <3>2, <4>3
      <3>. QED  BY <2>2, <3>3, <3>4 DEF KnownUser
    <2>3. CASE Work(h, Null)
      BY <1>2, <2>1, <2>3
    <2>. QED  BY <1>5, <2>2, <2>3 DEF resolveUserId
  <1>6. CASE Apply(h)
    <2>1. /\ handler[h] # Null /\ handler[h].step = "resolved" /\ Work(h, Null)
          /\ apply_stripe_subscription(handler[h]) /\ handler[h] \in Works
      BY <1>0, <1>6, WorkParts DEF Apply
    <2>2. handler'[h] = Null /\ \A g \in Handlers \ {h} : handler'[g] = handler[g]
      BY <1>0, <2>1 DEF Work, TypeOK
    <2>3. /\ row' # Null /\ RowKept
          /\ row # Null => \/ row'.cust = row.cust /\ row'.former = row.former
                           \/ row'.cust # row.cust /\ row'.cust = handler[h].val.cust
          /\ row = Null => row'.former = {} /\ row'.cust = handler[h].val.cust
      BY <2>1, ApplyBinds
    <2>4. MadeElsewhere \/ (row # Null /\ row'.cust = row.cust /\ row'.former = row.former)
      BY <2>1, <2>3 DEF ResolvedBound
    <2>5. OneCustomer'
      BY <1>0, <1>1, <2>3, <2>4 DEF OneCustomer, RowKept, Bindings
    <2>6. OutsideBound' /\ ReadsSame'
      BY <1>0, <2>2, <2>3 DEF OutsideBound, RowKept, ReadsSame
    <2>7. ResolvedBound'
      BY <1>1, <2>2, <2>3, <2>4 DEF ResolvedBound
    <2>. QED  BY <1>1, <2>5, <2>6, <2>7
  <1>7. CASE HandlerFails(h)
    <2>1. row' = row /\ Work(h, Null)
      BY <1>7 DEF HandlerFails
    <2>. QED  BY <1>2, <2>1
  <1>. QED  BY <1>3, <1>4, <1>5, <1>6, <1>7 DEF Handle

LEMMA CustomerStep == CustomerInv /\ [Next]_vars => CustomerInv'
  <1>. SUFFICES ASSUME CustomerInv, [Next]_vars PROVE CustomerInv'
    OBVIOUS
  <1>0. TypeInv'
    BY TypeStep DEF CustomerInv
  <1>1. CASE UNCHANGED vars
    BY <1>0, <1>1 DEF vars, stripeVars, hookVars, CustomerInv, OneCustomer, ReadsSame, OursNamed,
       ResolvedBound, OutsideBound, SoldOnce, MadeElsewhere, Bindings
  <1>2. CASE Next
    BY <1>0, <1>2, CheckoutCustomer, StripeCustomer, HandlerCustomer DEF Next
  <1>. QED  BY <1>1, <1>2

\* Everything our checkouts sell is on a customer the person's row is or was bound to, for
\* any number of clicks at once, failed calls and lost answers, and the row leaves its
\* customer only for a subscription with our metadata that was made elsewhere: what a
\* handler writes was otherwise read from a subscription of that customer.
THEOREM CustomerCorrect == Spec => []OneCustomer
  <1>1. CustomerInv => OneCustomer
    BY DEF CustomerInv
  <1>. QED  BY CustomerInit, CustomerStep, <1>1, PTL DEF Spec

-----------------------------------------------------------------------------
(* A fresh copy.                                                           *)

\* Stripe is read back after the event was stamped, and the row is what was read.
ReadBackLater ==
  /\ \A h \in Handlers :
       handler[h] # Null /\ handler[h].step \in {"read", "resolved"} =>
         handler[h].event.created <= handler[h].readAt /\ handler[h].readAt <= clock
  /\ row # Null => row.stamp <= row.readAt /\ row.readAt <= clock

FreshInv == TypeInv /\ ReadBackLater

LEMMA FreshInit == Init => FreshInv
  BY TypeInit DEF Init, FreshInv, ReadBackLater

\* Everything but a handler's write leaves what the copy shows alone.
LEMMA OthersStutter ==
  ASSUME FreshInv, NEW c \in Checkouts, Checkout(c)
  PROVE  ReadBackLater' /\ [Copy!Next]_<<clock, RowFloor, RowRead>>
  <1>. USE DEF FreshInv
  <1>0. clock \in Nat /\ TypeOK
    BY DEF TypeInv, TypeOK
  <1>1. clock' \in Nat /\ clock' >= clock /\ handler' = handler
    BY <1>0 DEF Checkout, readSubscriptionByUser, CreateCustomer, attach_stripe_customer,
       CheckoutFails, Subscribe, Changes, stripeVars, hookVars
  <1>2. /\ RowFloor' = RowFloor /\ RowRead' = RowRead
        /\ row' # Null => row'.stamp <= row'.readAt /\ row'.readAt <= clock'
    <2>1. CASE attach_stripe_customer(c) /\ row = Null
      <3>1. row'.stamp = 0 /\ row'.readAt = 0
        BY <2>1 DEF attach_stripe_customer, Bound, NewRow
      <3>. QED  BY <1>0, <1>1, <2>1, <3>1 DEF RowFloor, RowRead
    <2>2. CASE row' = row
      <3>1. row # Null => row.stamp \in Nat /\ row.readAt \in Nat
        BY <1>0 DEF TypeOK, Rows
      <3>. QED  BY <1>0, <1>1, <2>2, <3>1 DEF RowFloor, RowRead, ReadBackLater
    <2>. QED  BY <2>1, <2>2 DEF Checkout, readSubscriptionByUser, CreateCustomer,
            attach_stripe_customer, Bound, CheckoutFails, Subscribe
  <1>3. \A h \in Handlers : handler[h] # Null /\ handler[h].step \in {"read", "resolved"} =>
                              handler[h].readAt \in Nat
    BY <1>0, WorkParts
  <1>. QED  BY <1>0, <1>1, <1>2, <1>3 DEF ReadBackLater, Copy!Next, Copy!Advance

LEMMA StripeAdvances ==
  ASSUME FreshInv, NEW s \in Subs, SubscribeOutside(s) \/ ChangeStatus(s)
  PROVE  ReadBackLater' /\ [Copy!Next]_<<clock, RowFloor, RowRead>>
  <1>. USE DEF FreshInv
  <1>0. clock \in Nat /\ TypeOK
    BY DEF TypeInv, TypeOK
  <1>1. clock' \in Nat /\ clock' >= clock /\ UNCHANGED <<handler, row>>
    BY <1>0 DEF SubscribeOutside, ChangeStatus, Changes
  <1>2. row # Null => row.stamp \in Nat /\ row.readAt \in Nat
    BY <1>0 DEF TypeOK, Rows
  <1>3. \A h \in Handlers : handler[h] # Null /\ handler[h].step \in {"read", "resolved"} =>
                              handler[h].readAt \in Nat
    BY <1>0, WorkParts
  <1>. QED  BY <1>0, <1>1, <1>2, <1>3
       DEF ReadBackLater, RowFloor, RowRead, Copy!Next, Copy!Advance

LEMMA HandlerTakesOver ==
  ASSUME FreshInv, NEW h \in Handlers, Deliver(h) \/ Handle(h) \/ HandlerFails(h)
  PROVE  ReadBackLater' /\ [Copy!Next]_<<clock, RowFloor, RowRead>>
  <1>. USE DEF FreshInv
  <1>0. clock \in Nat /\ TypeOK /\ EventsExist
    BY DEF TypeInv, TypeOK
  <1>1. CASE Deliver(h)
    <2>1. PICK e : Work(h, [step |-> "received", event |-> e])
      BY <1>1 DEF Deliver
    <2>2. UNCHANGED <<clock, row>>
      BY <1>1 DEF Deliver, stripeVars
    <2>. QED  BY <1>0, <2>1, <2>2 DEF Work, TypeOK, ReadBackLater, RowFloor, RowRead
  <1>2. CASE Retrieve(h)
    <2>1. UNCHANGED <<clock, row>> /\ handler[h] # Null
      BY <1>2 DEF Retrieve, stripeVars
    <2>2. PICK v : Work(h, [step |-> "read", event |-> handler[h].event,
                            val |-> v, readAt |-> clock])
      BY <1>2 DEF Retrieve
    <2>3. handler[h].event.created <= clock
      BY <2>1 DEF EventsExist, EventExists, TypeInv
    <2>. QED  BY <1>0, <2>1, <2>2, <2>3 DEF Work, TypeOK, ReadBackLater, RowFloor, RowRead
  <1>3. CASE resolveUserId(h)
    <2>1. UNCHANGED <<clock, row>> /\ handler[h] # Null /\ handler[h].step = "read"
      BY <1>3 DEF resolveUserId, stripeVars
    <2>2. /\ [handler[h] EXCEPT !.step = "resolved"].event = handler[h].event
          /\ [handler[h] EXCEPT !.step = "resolved"].readAt = handler[h].readAt
      BY <1>0, <2>1 DEF TypeOK, Works
    <2>3. Work(h, [handler[h] EXCEPT !.step = "resolved"]) \/ Work(h, Null)
      BY <1>3 DEF resolveUserId
    <2>. QED  BY <1>0, <2>1, <2>2, <2>3 DEF Work, TypeOK, ReadBackLater, RowFloor, RowRead
  <1>4. CASE Apply(h)
    <2>1. /\ handler[h] # Null /\ handler[h].step = "resolved" /\ Work(h, Null)
          /\ apply_stripe_subscription(handler[h]) /\ clock' = clock
      BY <1>4 DEF Apply, stripeVars
    <2>2. /\ handler[h].event.created \in Nat /\ handler[h].readAt \in Nat
          /\ handler[h].event.created <= handler[h].readAt /\ handler[h].readAt <= clock
      BY <1>0, <2>1, WorkParts DEF ReadBackLater, Events
    <2>3. \/ row' = row
          \/ /\ row'.stamp = handler[h].event.created /\ row'.readAt = handler[h].readAt
             /\ row = Null \/ ~(row.stamp > handler[h].event.created)
      BY <2>1 DEF apply_stripe_subscription, Projection
    <2>4. CASE row' = row
      BY <1>0, <2>1, <2>4 DEF Work, TypeOK, ReadBackLater, RowFloor, RowRead
    <2>5. CASE row' # row
      <3>1. row' # Null
        BY <1>0, <2>1, WorkParts, RowType
      <3>2. RowFloor' = handler[h].event.created /\ RowRead' = handler[h].readAt
        BY <2>3, <2>5, <3>1 DEF RowFloor, RowRead
      <3>3. RowFloor \in Nat /\ RowFloor' >= RowFloor
        BY <1>0, <2>2, <2>3, <2>5, <3>2 DEF RowFloor, TypeOK, Rows
      <3>4. Copy!TakeOver
        BY <2>1, <2>2, <3>2, <3>3 DEF Copy!TakeOver
      <3>5. ReadBackLater'
        BY <1>0, <2>1, <2>2, <2>3, <2>5 DEF Work, TypeOK, ReadBackLater
      <3>. QED  BY <3>4, <3>5 DEF Copy!Next
    <2>. QED  BY <2>4, <2>5
  <1>5. CASE HandlerFails(h)
    <2>1. UNCHANGED <<clock, row>> /\ Work(h, Null)
      BY <1>5 DEF HandlerFails, stripeVars
    <2>. QED  BY <1>0, <2>1 DEF Work, TypeOK, ReadBackLater, RowFloor, RowRead
  <1>. QED  BY <1>1, <1>2, <1>3, <1>4, <1>5 DEF Handle

LEMMA FreshStep ==
  FreshInv /\ [Next]_vars => FreshInv' /\ [Copy!Next]_<<clock, RowFloor, RowRead>>
  <1>. SUFFICES ASSUME FreshInv, [Next]_vars
                PROVE  ReadBackLater' /\ [Copy!Next]_<<clock, RowFloor, RowRead>>
    BY TypeStep DEF FreshInv
  <1>1. CASE UNCHANGED vars
    BY <1>1 DEF vars, stripeVars, hookVars, FreshInv, ReadBackLater, RowFloor, RowRead
  <1>2. CASE Next
    BY <1>2, OthersStutter, StripeAdvances, HandlerTakesOver DEF Next
  <1>. QED  BY <1>1, <1>2

\* The row implements a fresh copy of Stripe: in whatever order, how often and how
\* slowly deliveries come, the second it is stamped with never goes back and Stripe was
\* read no earlier than it.
THEOREM CopyIsFresh == Spec => IsFreshCopy
  <1>1. Init => Copy!Init
    BY DEF Init, Copy!Init, RowFloor, RowRead
  <1>2. Spec => []FreshInv
    BY FreshInit, FreshStep, PTL DEF Spec
  <1>. QED  BY <1>1, <1>2, FreshStep, PTL DEF Spec, IsFreshCopy, Copy!Spec

-----------------------------------------------------------------------------
(* The present state.                                                      *)

All == queue \cup done

\* Changes are numbered in the order of their seconds.
Stamped(e) == /\ e.created >= 1 /\ e.created <= clock
              /\ e.change >= 1 /\ e.change <= stripe[e.sub].change
Counted ==
  /\ \A s \in Subs : stripe[s] # Null => stripe[s].change \in 1 .. changes
  /\ \A e \in All : Stamped(e)
  /\ \A e, f \in All : e.change < f.change => e.created <= f.created
  /\ \A h \in Handlers : handler[h] # Null => handler[h].event \in All

\* What a handler has read lies between its event and the present, and so does the row.
Reads(val, s, e) == e.change <= val.change /\ val.change <= stripe[s].change
FromEvent(e) == e.sub = row.sub /\ e.created = row.stamp /\ Reads(row, row.sub, e)
ReadsPresent ==
  /\ \A h \in Handlers : handler[h] # Null /\ handler[h].step \in {"read", "resolved"} =>
       Reads(handler[h].val, handler[h].event.sub, handler[h].event)
  /\ row # Null => IF row.sub = Null THEN row.stamp = 0 ELSE \E e \in All : FromEvent(e)

\* Until the person has a row, subscriptions are made in the dashboard only, each for a
\* customer of its own, and a person is found by the metadata.
NobodysRow ==
  row = Null =>
    /\ \A s \in Subs : stripe[s] # Null => s \in Outside /\ stripe[s].cust = s
    /\ \A h \in Handlers : handler[h] # Null /\ handler[h].step = "resolved" =>
         handler[h].val.meta
OwnCustomer ==
  \A c \in Checkouts : checkout[c].step = "attach" => checkout[c].cust \in Checkouts

\* The last change of a subscription whose person can be found is on its way, or its
\* second is in the row's stamp.
OnItsWay(s) == \E e \in queue : e.sub = s /\ e.change = stripe[s].change
TakenOver(s) ==
  /\ row # Null /\ row.sub # Null
  /\ \E e \in All : e.sub = s /\ e.change = stripe[s].change /\ e.created <= row.stamp
LastArrives == \A s \in Subs : stripe[s] # Null /\ Findable(s) => OnItsWay(s) \/ TakenOver(s)

CurrentInv ==
  CustomerInv /\ Counted /\ ReadsPresent /\ NobodysRow /\ OwnCustomer /\ LastArrives

LEMMA CurrentInit == Init => CurrentInv
  <1>. SUFFICES ASSUME Init PROVE CurrentInv
    OBVIOUS
  <1>1. CustomerInv
    BY CustomerInit
  <1>2. /\ queue = {} /\ done = {} /\ row = Null
        /\ \A s \in Subs : stripe[s] = Null
        /\ \A h \in Handlers : handler[h] = Null
        /\ \A c \in Checkouts : checkout[c].step = "idle"
    BY DEF Init
  <1>3. Counted /\ ReadsPresent /\ LastArrives /\ NobodysRow /\ OwnCustomer
    BY <1>2 DEF Counted, ReadsPresent, LastArrives, NobodysRow, OwnCustomer, All
  <1>. QED  BY <1>1, <1>3 DEF CurrentInv

\* What the proofs below use of the types.
LEMMA CurrentTypes ==
  ASSUME CurrentInv
  PROVE  /\ TypeInv /\ TypeOK /\ HasCustomer /\ CustomerInv
         /\ changes \in Nat /\ clock \in Nat
         /\ \A s \in Subs : stripe[s] # Null =>
              stripe[s].change \in Nat /\ stripe[s].meta \in BOOLEAN
         /\ \A e \in All : /\ e.sub \in Subs /\ stripe[e.sub] # Null
                           /\ e.created \in Nat /\ e.change \in Nat
         /\ \A h \in Handlers : handler[h] # Null =>
              /\ handler[h] \in Works /\ handler[h].event \in All
              /\ handler[h].step \in {"read", "resolved"} =>
                   /\ handler[h].val.change \in Nat
                   /\ handler[h].val.cust = stripe[handler[h].event.sub].cust
                   /\ handler[h].val.meta = stripe[handler[h].event.sub].meta
         /\ row # Null => /\ row.stamp \in Nat /\ row.change \in Nat
                          /\ row.sub # Null => row.sub \in Subs
  <1>1. TypeInv /\ TypeOK /\ HasCustomer /\ CustomerInv /\ EventsExist /\ ReadsSame /\ Counted
    BY DEF CurrentInv, CustomerInv, TypeInv
  <1>2. \A s \in Subs : stripe[s] # Null => stripe[s].change \in Nat /\ stripe[s].meta \in BOOLEAN
    BY <1>1 DEF TypeOK, Records
  <1>3. \A e \in All : /\ e.sub \in Subs /\ stripe[e.sub] # Null
                       /\ e.created \in Nat /\ e.change \in Nat
    BY <1>1 DEF TypeOK, Events, EventsExist, EventExists, All
  <1>4. ASSUME NEW h \in Handlers, handler[h] # Null
        PROVE  /\ handler[h] \in Works /\ handler[h].event \in All
               /\ handler[h].step \in {"read", "resolved"} =>
                    /\ handler[h].val.change \in Nat
                    /\ handler[h].val.cust = stripe[handler[h].event.sub].cust
                    /\ handler[h].val.meta = stripe[handler[h].event.sub].meta
    BY <1>1, <1>4, WorkParts DEF Records, Counted, ReadsSame
  <1>5. row # Null => /\ row.stamp \in Nat /\ row.change \in Nat
                      /\ (row.sub # Null => row.sub \in Subs)
    BY <1>1 DEF TypeOK, Rows
  <1>6. changes \in Nat /\ clock \in Nat
    BY <1>1 DEF TypeOK
  <1>. QED  BY <1>1, <1>2, <1>3, <1>4, <1>5, <1>6

\* A change is the newest of all, and its event is on its way.
LEMMA ChangeCurrent ==
  ASSUME CurrentInv, NEW s \in Subs, NEW cust, NEW meta, NEW status,
         Changes(s, cust, meta, status), UNCHANGED <<done, handler, row>>,
         SubsKept, \A t \in Subs \ {s} : stripe'[t] = stripe[t], stripe'[s].change = changes'
  PROVE  Counted' /\ ReadsPresent' /\ LastArrives'
  <1>0. /\ changes \in Nat /\ clock \in Nat /\ Counted /\ ReadsPresent /\ LastArrives
        /\ \A t \in Subs : stripe[t] # Null => stripe[t].change \in 1 .. changes
    BY CurrentTypes DEF CurrentInv, Counted
  <1>a. PICK f : f = [sub |-> s, created |-> clock', change |-> changes']
    OBVIOUS
  <1>1. /\ changes' = changes + 1 /\ clock' \in Nat /\ clock' >= clock /\ clock' >= 1
        /\ queue' = queue \cup {f} /\ All' = All \cup {f}
    BY <1>0, <1>a DEF Changes, All
  <1>2. f.sub = s /\ f.created = clock' /\ f.change = changes'
    BY <1>a
  <1>3. \A t \in Subs : stripe[t] # Null =>
          stripe'[t] # Null /\ stripe[t].change <= stripe'[t].change /\ stripe'[t].change \in Nat
    BY <1>0, <1>1 DEF SubsKept
  <1>4. \A e \in All : Stamped(e)' /\ e.change < changes' /\ e.created <= clock'
    BY <1>0, <1>1, <1>3, CurrentTypes DEF Counted, Stamped
  <1>5. Counted'
    <2>1. Stamped(f)'
      BY <1>0, <1>1, <1>2 DEF Stamped
    <2>2. \A t \in Subs : stripe'[t] # Null => stripe'[t].change \in 1 .. changes'
      BY <1>0, <1>1
    <2>3. \A e, g \in All' : e.change < g.change => e.created <= g.created
      BY <1>0, <1>1, <1>2, <1>4, CurrentTypes DEF Counted
    <2>. QED  BY <1>0, <1>1, <1>4, <2>1, <2>2, <2>3 DEF Counted
  <1>6. ReadsPresent'
    <2>1. ASSUME NEW h \in Handlers, handler[h] # Null, handler[h].step \in {"read", "resolved"}
          PROVE  Reads(handler[h].val, handler[h].event.sub, handler[h].event)'
      BY <1>0, <1>3, <2>1, CurrentTypes DEF ReadsPresent, Reads
    <2>2. ASSUME row # Null, NEW e \in All, FromEvent(e) PROVE FromEvent(e)'
      BY <1>0, <1>3, <2>2, CurrentTypes DEF FromEvent, Reads
    <2>. QED  BY <1>0, <1>1, <2>1, <2>2 DEF ReadsPresent
  <1>7. ASSUME NEW t \in Subs, stripe'[t] # Null, Findable(t)'
        PROVE  OnItsWay(t)' \/ TakenOver(t)'
    <2>1. CASE t = s
      BY <1>1, <1>2, <2>1 DEF OnItsWay
    <2>2. CASE t # s
      <3>1. stripe[t] # Null /\ Findable(t)
        BY <1>7, <2>2 DEF Findable
      <3>. QED  BY <1>0, <1>1, <2>2, <3>1 DEF LastArrives, OnItsWay, TakenOver
    <2>. QED  BY <2>1, <2>2
  <1>. QED  BY <1>5, <1>6, <1>7 DEF LastArrives

\* Binding the row to a customer of ours makes nobody known who was not.
LEMMA CheckoutCurrent ==
  ASSUME CurrentInv, NEW c \in Checkouts, Checkout(c)
  PROVE  Counted' /\ ReadsPresent' /\ NobodysRow' /\ OwnCustomer' /\ LastArrives'
  <1>0. /\ TypeOK /\ HasCustomer /\ CustomerInv /\ OneCustomer /\ SoldOnce /\ c \in Subs
        /\ Counted /\ ReadsPresent /\ NobodysRow /\ OwnCustomer /\ LastArrives
    BY CurrentTypes DEF CurrentInv, CustomerInv, Subs
  <1>1. CASE readSubscriptionByUser(c) \/ CreateCustomer(c) \/ CheckoutFails(c)
    <2>1. UNCHANGED <<stripe, clock, changes, queue, done, handler, row>>
      BY <1>1 DEF readSubscriptionByUser, CreateCustomer, CheckoutFails, stripeVars, hookVars
    <2>2. OwnCustomer'
      BY <1>0, <1>1 DEF readSubscriptionByUser, CreateCustomer, CheckoutFails, Go, TypeOK, Steps,
         OwnCustomer
    <2>. QED  BY <1>0, <2>1, <2>2
         DEF Counted, Stamped, ReadsPresent, FromEvent, Reads, NobodysRow, LastArrives, Findable,
             OnItsWay, TakenOver, All
  <1>2. CASE attach_stripe_customer(c)
    <2>1. UNCHANGED <<stripe, clock, changes, queue, done, handler>>
      BY <1>2 DEF attach_stripe_customer, stripeVars, hookVars
    <2>2. OwnCustomer'
      BY <1>0, <1>2 DEF attach_stripe_customer, Go, TypeOK, Steps, OwnCustomer
    <2>3. Counted' /\ All' = All
      BY <1>0, <2>1 DEF Counted, Stamped, All
    <2>4. CASE row # Null
      <3>1. row' = row
        BY <1>2, <2>4 DEF attach_stripe_customer, Bound
      <3>. QED  BY <1>0, <2>1, <2>2, <2>3, <3>1
           DEF ReadsPresent, FromEvent, Reads, NobodysRow, LastArrives, Findable, OnItsWay,
               TakenOver
    <2>5. CASE row = Null
      <3>1. checkout[c].cust \in Checkouts /\ checkout[c].cust \in Subs
        BY <1>0, <1>2 DEF attach_stripe_customer, OwnCustomer, Subs
      <3>2. /\ row' # Null /\ row'.cust = checkout[c].cust /\ row'.sub = Null /\ row'.stamp = 0
        <4>1. row' = NewRow(checkout[c].cust)
          BY <1>2, <2>5 DEF attach_stripe_customer, Bound
        <4>. QED  BY <3>1, <4>1, NewRowType DEF NewRow
      <3>3. \A s \in Subs : stripe[s] # Null /\ Findable(s)' => Findable(s)
        BY <1>0, <2>1, <2>5, <3>1, <3>2, KindAssumption DEF NobodysRow, Findable
      <3>4. ReadsPresent' /\ NobodysRow'
        BY <1>0, <2>1, <3>2 DEF ReadsPresent, Reads, NobodysRow
      <3>5. LastArrives'
        BY <1>0, <2>1, <2>5, <3>2, <3>3 DEF LastArrives, OnItsWay, TakenOver
      <3>. QED  BY <2>2, <2>3, <3>4, <3>5
    <2>. QED  BY <2>4, <2>5
  <1>3. CASE Subscribe(c)
    <2>1. row # Null /\ stripe[c] = Null
      BY <1>0, <1>3 DEF Subscribe, SoldOnce, OneCustomer
    <2>2. /\ Changes(c, checkout[c].cust, TRUE, "incomplete") /\ UNCHANGED <<done, handler, row>>
          /\ checkout[c].cust \in Subs /\ TRUE \in BOOLEAN /\ "incomplete" \in Statuses
      BY <1>0, <1>3 DEF Subscribe, Statuses, HasCustomer
    <2>3. /\ SubsKept /\ \A t \in Subs \ {c} : stripe'[t] = stripe[t]
          /\ stripe'[c].change = changes'
      BY <1>0, <2>1, <2>2, ChangesKeep DEF CustomerInv
    <2>4. Counted' /\ ReadsPresent' /\ LastArrives'
      BY <1>0, <2>2, <2>3, ChangeCurrent
    <2>5. OwnCustomer' /\ NobodysRow'
      BY <1>0, <1>3, <2>1, <2>2 DEF Subscribe, Go, TypeOK, Steps, OwnCustomer, NobodysRow
    <2>. QED  BY <2>4, <2>5
  <1>. QED  BY <1>1, <1>2, <1>3 DEF Checkout

LEMMA StripeCurrent ==
  ASSUME CurrentInv, NEW s \in Subs, SubscribeOutside(s) \/ ChangeStatus(s)
  PROVE  Counted' /\ ReadsPresent' /\ NobodysRow' /\ OwnCustomer' /\ LastArrives'
  <1>0. TypeInv /\ TypeOK /\ NobodysRow /\ OwnCustomer
    BY CurrentTypes DEF CurrentInv
  <1>1. UNCHANGED <<checkout, done, handler, row>>
    BY DEF SubscribeOutside, ChangeStatus
  <1>2. PICK cust, meta, status :
          Changes(s, cust, meta, status) /\ stripe'[s].change = changes'
    <2>1. PICK cust \in Subs, meta \in BOOLEAN, status \in Statuses :
            /\ Changes(s, cust, meta, status)
            /\ stripe[s] # Null => cust = stripe[s].cust /\ meta = stripe[s].meta
      <3>1. CASE SubscribeOutside(s)
        <4>1. {s} \cup (IF row = Null THEN {} ELSE {row.cust}) \subseteq Subs
              /\ "active" \in Statuses
          BY <1>0 DEF TypeOK, Rows, Statuses
        <4>. QED  BY <3>1, <4>1 DEF SubscribeOutside
      <3>2. CASE ChangeStatus(s)
        <4>1. /\ stripe[s].cust \in Subs /\ stripe[s].meta \in BOOLEAN
              /\ stripe[s].status \in Statuses
          BY <1>0, <3>2 DEF ChangeStatus, TypeOK, Records
        <4>2. Follows(stripe[s].status) \subseteq Statuses
          BY <4>1 DEF Follows, Statuses
        <4>. QED  BY <3>2, <4>1, <4>2 DEF ChangeStatus
      <3>. QED  BY <3>1, <3>2
    <2>. QED  BY <1>0, <2>1, ChangesKeep
  <1>3. /\ SubsKept /\ \A t \in Subs \ {s} : stripe'[t] = stripe[t]
        /\ \/ stripe[s] # Null
           \/ s \in Outside /\ stripe'[s].cust \in {s} \cup (IF row = Null THEN {} ELSE {row.cust})
    BY <1>0, StripeKeeps
  <1>4. Counted' /\ ReadsPresent' /\ LastArrives'
    BY <1>1, <1>2, <1>3, ChangeCurrent
  <1>5. OwnCustomer' /\ NobodysRow'
    BY <1>0, <1>1, <1>3 DEF SubsKept, OwnCustomer, NobodysRow
  <1>. QED  BY <1>4, <1>5

\* A handler that takes up, reads or puts down a delivery leaves the queue to the others.
LEMMA WorkCurrent ==
  ASSUME CurrentInv, NEW h \in Handlers, NEW w, Work(h, w),
         UNCHANGED <<checkout, stripe, clock, changes, queue, done, row>>,
         w # Null => /\ w.event \in All
                     /\ w.step \in {"read", "resolved"} => Reads(w.val, w.event.sub, w.event)
                     /\ w.step = "resolved" /\ row = Null => w.val.meta
  PROVE  Counted' /\ ReadsPresent' /\ NobodysRow' /\ OwnCustomer' /\ LastArrives'
  <1>0. TypeOK /\ Counted /\ ReadsPresent /\ NobodysRow /\ OwnCustomer /\ LastArrives
    BY CurrentTypes DEF CurrentInv
  <1>1. handler'[h] = w /\ \A g \in Handlers \ {h} : handler'[g] = handler[g]
    BY <1>0 DEF Work, TypeOK
  <1>2. Counted' /\ All' = All
    BY <1>0, <1>1 DEF Counted, Stamped, All
  <1>3. ReadsPresent'
    BY <1>0, <1>1, <1>2 DEF ReadsPresent, Reads, FromEvent
  <1>4. NobodysRow' /\ OwnCustomer' /\ LastArrives'
    BY <1>0, <1>1, <1>2 DEF NobodysRow, OwnCustomer, Findable, LastArrives, OnItsWay, TakenOver
  <1>. QED  BY <1>2, <1>3, <1>4

LEMMA DeliveryCurrent ==
  ASSUME CurrentInv, NEW h \in Handlers, Deliver(h) \/ Retrieve(h) \/ HandlerFails(h)
  PROVE  Counted' /\ ReadsPresent' /\ NobodysRow' /\ OwnCustomer' /\ LastArrives'
  <1>1. UNCHANGED <<checkout, stripe, clock, changes, queue, done, row>>
    BY DEF Deliver, Retrieve, HandlerFails, stripeVars
  <1>2. CASE Deliver(h)
    <2>1. PICK e \in All : Work(h, [step |-> "received", event |-> e])
      BY <1>2 DEF Deliver, All
    <2>. QED  BY <1>1, <2>1, WorkCurrent
  <1>3. CASE Retrieve(h)
    <2>. DEFINE e == handler[h].event
                w == [step |-> "read", event |-> e, val |-> stripe[e.sub], readAt |-> clock]
    <2>1. handler[h] # Null /\ Work(h, w)
      BY <1>3 DEF Retrieve
    <2>2. e \in All /\ Stamped(e) /\ stripe[e.sub].change \in Nat
      BY <2>1, CurrentTypes DEF CurrentInv, Counted
    <2>3. Reads(w.val, w.event.sub, w.event)
      BY <2>2 DEF Stamped, Reads
    <2>. QED  BY <1>1, <2>1, <2>2, <2>3, WorkCurrent
  <1>4. CASE HandlerFails(h)
    <2>1. Work(h, Null)
      BY <1>4 DEF HandlerFails
    <2>. QED  BY <1>1, <2>1, WorkCurrent
  <1>. QED  BY <1>2, <1>3, <1>4

\* An event is answered for nobody only when nobody can be found for it.
LEMMA ResolveCurrent ==
  ASSUME CurrentInv, NEW h \in Handlers, resolveUserId(h)
  PROVE  Counted' /\ ReadsPresent' /\ NobodysRow' /\ OwnCustomer' /\ LastArrives'
  <1>0. TypeOK /\ Counted /\ ReadsPresent /\ NobodysRow /\ OwnCustomer /\ LastArrives
    BY CurrentTypes DEF CurrentInv
  <1>1. /\ UNCHANGED <<checkout, stripe, clock, changes, row>>
        /\ handler[h] # Null /\ handler[h].step = "read"
    BY DEF resolveUserId, stripeVars
  <1>. DEFINE e == handler[h].event
  <1>2. /\ Reads(handler[h].val, e.sub, e) /\ e \in All
        /\ handler[h].val.cust = stripe[e.sub].cust /\ handler[h].val.meta = stripe[e.sub].meta
    BY <1>0, <1>1, CurrentTypes DEF ReadsPresent
  <1>3. CASE /\ KnownUser(handler[h].val) /\ UNCHANGED <<queue, done>>
             /\ Work(h, [handler[h] EXCEPT !.step = "resolved"])
    <2>1. /\ [handler[h] EXCEPT !.step = "resolved"].event = e
          /\ [handler[h] EXCEPT !.step = "resolved"].val = handler[h].val
      BY <1>0, <1>1 DEF TypeOK, Works
    <2>2. row = Null => handler[h].val.meta
      BY <1>3 DEF KnownUser
    <2>. QED  BY <1>1, <1>2, <1>3, <2>1, <2>2, WorkCurrent
  <1>4. CASE ~KnownUser(handler[h].val) /\ Answer200(h) /\ Work(h, Null)
    <2>1. /\ queue' = queue \ {e} /\ All' = All /\ handler'[h] = Null
          /\ \A g \in Handlers \ {h} : handler'[g] = handler[g]
      BY <1>0, <1>2, <1>4 DEF Answer200, Work, TypeOK, All
    <2>2. Counted' /\ ReadsPresent' /\ NobodysRow' /\ OwnCustomer'
      BY <1>0, <1>1, <2>1
      DEF Counted, Stamped, ReadsPresent, Reads, FromEvent, NobodysRow, OwnCustomer
    <2>3. ~Findable(e.sub)
      BY <1>2, <1>4 DEF KnownUser, Findable
    <2>4. LastArrives'
      BY <1>0, <1>1, <2>1, <2>3 DEF LastArrives, OnItsWay, TakenOver, Findable
    <2>. QED  BY <2>2, <2>4
  <1>. QED  BY <1>3, <1>4 DEF resolveUserId

\* A row that has left a customer says so.
LEMMA FormerGrows ==
  ASSUME NEW w, row # Null, apply_stripe_subscription(w), row'.former = {}
  PROVE  row'.cust = row.cust
  <1>1. CASE row' = row
    BY <1>1
  <1>2. CASE row' = Projection(w)
    BY <1>2 DEF Projection, Former
  <1>. QED  BY <1>1, <1>2 DEF apply_stripe_subscription

\* An event is answered for somebody only when the row's stamp is at least as late.
LEMMA ApplyCurrent ==
  ASSUME CurrentInv, NEW h \in Handlers, Apply(h)
  PROVE  Counted' /\ ReadsPresent' /\ NobodysRow' /\ OwnCustomer' /\ LastArrives'
  <1>0. TypeOK /\ Counted /\ ReadsPresent /\ NobodysRow /\ OwnCustomer /\ LastArrives
    BY CurrentTypes DEF CurrentInv
  <1>a. PICK w, e : w = handler[h] /\ e = w.event
    OBVIOUS
  <1>1. /\ UNCHANGED <<checkout, stripe, clock, changes>> /\ w # Null /\ w.step = "resolved"
        /\ apply_stripe_subscription(w)
        /\ queue \ {e} \subseteq queue' /\ w \in Works /\ e \in All
        /\ handler'[h] = Null /\ \A g \in Handlers \ {h} : handler'[g] = handler[g]
    BY <1>0, <1>a, CurrentTypes DEF Apply, Answer200, Work, TypeOK, stripeVars
  <1>2. All' = All
    BY <1>a, <1>1 DEF Apply, Answer200, All
  <1>3. /\ Stamped(e) /\ Reads(w.val, e.sub, e) /\ e.sub \in Subs /\ stripe[e.sub] # Null
        /\ e.created \in Nat /\ e.change \in Nat
        /\ w.val.cust = stripe[e.sub].cust /\ w.val.meta = stripe[e.sub].meta
    BY <1>0, <1>a, <1>1, CurrentTypes DEF Counted, ReadsPresent
  <1>4. Counted' /\ OwnCustomer'
    BY <1>0, <1>1, <1>2 DEF Counted, Stamped, OwnCustomer
  <1>5. /\ row' # Null
        /\ row # Null => \/ row'.cust = row.cust /\ row'.former = row.former
                         \/ row'.cust # row.cust /\ row'.cust = w.val.cust
        /\ row = Null => row'.former = {} /\ row'.cust = w.val.cust
    BY <1>1, ApplyBinds, CurrentTypes
  <1>6. \/ row # Null /\ row' = row /\ row.stamp > e.created
        \/ /\ row'.sub = e.sub /\ row'.stamp = e.created /\ row'.change = w.val.change
           /\ row = Null \/ row.stamp <= e.created
    <2>1. row # Null => row.stamp \in Nat
      BY CurrentTypes
    <2>. QED  BY <1>a, <1>1, <1>3, <2>1 DEF apply_stripe_subscription, Projection
  <1>7. /\ row'.sub # Null /\ row'.stamp \in Nat /\ row'.stamp >= e.created
        /\ row # Null => row.stamp \in Nat /\ row'.stamp >= row.stamp
    <2>1. e.sub # Null /\ e.created >= 1 /\ (row # Null => row.stamp \in Nat)
      BY <1>3, NullAssumption, CurrentTypes DEF Stamped
    <2>2. row # Null /\ row.stamp > e.created => row.sub # Null
      BY <1>0, <1>3, <2>1 DEF ReadsPresent
    <2>. QED  BY <1>3, <1>6, <2>1, <2>2
  <1>8. ReadsPresent' /\ NobodysRow'
    <2>1. \A g \in Handlers : handler'[g] # Null => g # h /\ handler'[g] = handler[g]
      BY <1>1
    <2>2. CASE row # Null /\ row' = row
      BY <1>0, <1>1, <1>2, <2>1, <2>2 DEF ReadsPresent, Reads, FromEvent, NobodysRow
    <2>3. CASE row'.sub = e.sub /\ row'.stamp = e.created /\ row'.change = w.val.change
      <3>1. FromEvent(e)'
        BY <1>1, <1>3, <2>3 DEF FromEvent, Reads
      <3>. QED  BY <1>0, <1>1, <1>2, <1>5, <1>7, <2>1, <3>1 DEF ReadsPresent, Reads, NobodysRow
    <2>. QED  BY <1>6, <2>2, <2>3
  <1>9. ASSUME NEW s \in Subs, stripe'[s] # Null, Findable(s)'
        PROVE  OnItsWay(s)' \/ TakenOver(s)'
    <2>1. stripe[s] # Null /\ Findable(s)
      <3>1. CASE stripe[s].meta
        BY <1>1, <1>9, <3>1 DEF Findable
      <3>2. CASE ~stripe[s].meta /\ row # Null
        <4>1. row'.former = {} /\ row'.cust = stripe[s].cust
          BY <1>1, <1>9, <3>2 DEF Findable
        <4>2. row'.cust = row.cust
          BY <1>1, <1>6, <3>2, <4>1, FormerGrows, CurrentTypes
        <4>. QED  BY <1>1, <1>5, <1>9, <3>2, <4>1, <4>2 DEF Findable
      <3>3. CASE ~stripe[s].meta /\ row = Null
        <4>1. stripe[s].cust = s /\ stripe[e.sub].cust = e.sub /\ stripe[e.sub].meta
          BY <1>0, <1>a, <1>1, <1>3, <1>9, <3>3 DEF NobodysRow
        <4>2. stripe[s].cust = stripe[e.sub].cust
          BY <1>1, <1>3, <1>5, <1>9, <3>3 DEF Findable
        <4>. QED  BY <3>3, <4>1, <4>2
      <3>. QED  BY <3>1, <3>2, <3>3
    <2>2. CASE TakenOver(s)
      <3>1. PICK f \in All : f.sub = s /\ f.change = stripe[s].change /\ f.created <= row.stamp
        BY <2>2 DEF TakenOver
      <3>2. row # Null /\ f.created \in Nat
        BY <2>2, CurrentTypes DEF TakenOver
      <3>. QED  BY <1>1, <1>2, <1>5, <1>7, <3>1, <3>2 DEF TakenOver
    <2>3. CASE OnItsWay(s)
      <3>1. PICK f \in queue : f.sub = s /\ f.change = stripe[s].change
        BY <2>3 DEF OnItsWay
      <3>2. CASE f = e
        BY <1>1, <1>2, <1>5, <1>7, <3>1, <3>2 DEF TakenOver
      <3>3. CASE f # e
        BY <1>1, <3>1, <3>3 DEF OnItsWay
      <3>. QED  BY <3>2, <3>3
    <2>. QED  BY <1>0, <2>1, <2>2, <2>3 DEF LastArrives
  <1>. QED  BY <1>4, <1>8, <1>9 DEF LastArrives

LEMMA CurrentStep == CurrentInv /\ [Next]_vars => CurrentInv'
  <1>. SUFFICES ASSUME CurrentInv, [Next]_vars
                PROVE  Counted' /\ ReadsPresent' /\ NobodysRow' /\ OwnCustomer' /\ LastArrives'
    BY CustomerStep DEF CurrentInv
  <1>1. CASE UNCHANGED vars
    BY <1>1 DEF vars, stripeVars, hookVars, CurrentInv, Counted, Stamped, ReadsPresent, Reads,
       FromEvent, NobodysRow, OwnCustomer, LastArrives, Findable, OnItsWay, TakenOver, All
  <1>2. CASE Next
    BY <1>2, CheckoutCurrent, StripeCurrent, DeliveryCurrent, ResolveCurrent, ApplyCurrent
    DEF Next, Handle
  <1>. QED  BY <1>1, <1>2

\* Whenever every delivery is answered, the row shows the present state of its subscription
\* and nothing newer is missed, but for a last change that shares its second with another:
\* the last change of each subscription is on its way or its second is in the row's stamp,
\* and the row was read back after the event that gave it its stamp.
THEOREM SettledCorrect == Spec => []SettledIsCurrent
  <1>1. CurrentInv => SettledIsCurrent
    <2>. SUFFICES ASSUME CurrentInv, AtRest, NEW s \in Subs, stripe[s] # Null, Findable(s),
                         AloneInSecond(s)
                  PROVE  /\ row # Null /\ row.sub # Null /\ stripe[s].change <= row.change
                         /\ row.sub = s => row.change = stripe[s].change
      BY DEF SettledIsCurrent
    <2>1. TakenOver(s)
      BY DEF CurrentInv, LastArrives, OnItsWay, AtRest
    <2>2. PICK e \in All : e.sub = s /\ e.change = stripe[s].change /\ e.created <= row.stamp
      BY <2>1 DEF TakenOver
    <2>3. row # Null /\ row.sub # Null /\ row.sub \in Subs /\ row.change \in Nat
      BY <2>1, CurrentTypes DEF TakenOver
    <2>4. PICK f \in All : FromEvent(f)
      BY <2>3 DEF CurrentInv, ReadsPresent
    <2>5. /\ f.created = row.stamp /\ f.change <= row.change
          /\ row.change <= stripe[row.sub].change
      BY <2>4 DEF FromEvent, Reads
    <2>6. /\ e.created \in Nat /\ f.created \in Nat /\ e.change \in Nat /\ f.change \in Nat
          /\ stripe[s].change \in Nat
      BY CurrentTypes
    <2>7. e.change <= f.change
      <3>1. CASE f.created = e.created
        BY <2>2, <2>6, <3>1 DEF AloneInSecond, All
      <3>2. CASE f.created # e.created
        BY <2>2, <2>5, <2>6, <3>2 DEF CurrentInv, Counted
      <3>. QED  BY <3>1, <3>2
    <2>. QED  BY <2>2, <2>3, <2>5, <2>6, <2>7
  <1>. QED  BY CurrentInit, CurrentStep, <1>1, PTL DEF Spec
=============================================================================
