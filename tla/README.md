# LifeOS: a TLA+ model of its core

LifeOS is a local-first Next.js application. A browser tab keeps the whole
knowledge base (46 arrays, the *domains* of `StoreState`) in memory, writes it to
`localStorage` on every change, and pushes it to a Supabase account later. Around
that core stand a paid boundary fed by Stripe webhooks, an OAuth link to a calendar
provider, a bucket with the originals of read documents, and the store's own rules
about actions that block each other and repeat. This directory models the parts
where the order of things is hard to get right, checks them with TLC, and proves
what matters most with TLAPS.

## 1. Inventory

| Part | State | Operations | Interacts with |
|---|---|---|---|
| Sync engine, `lib/persistence.ts` | `lastSaved`, `lastSyncedState`, `pending`, `timer`, `inFlight`, `adoptionSettled`, `retryTimer`, `retryAttempt`, `failedDomains`, `compat`, `health`, `sessionChain` | save, retry local save, debounce, flush, automatic and manual retry, contract probe, session events, adoption, wipe, online/offline | store (calls), adapter (awaits), browser events (callbacks) |
| Supabase adapter, `lib/adapters/supabaseAdapter.ts` | known row versions per guarded table | push one domain, load the account, load and write tombstones, guarded push, `deleteAll` | the account's tables |
| Adoption, `lib/persistence-reconcile.ts`, `lib/sync/tombstones.ts` | none (pure), and the owner of the local data in `localStorage` | suppress deleted records, merge local-only records, decide by owner | called from `migrateOrAdopt` |
| Schema contract, `lib/sync/contract.ts` | none (pure) | parse, evaluate to a set of gated domains | the flush consults it |
| Conflict store, `lib/sync/conflicts-store.ts` | refused local values | record, resolve, purge | guarded push, conflict notice |
| In-memory store, `lib/mvpStore.ts` | `StoreState` | about 200 mutators, hydrate, replace, reset | every mutator saves |
| Startup and authentication, `initPersistence`, `lib/authStore.ts` | `initialSessionHandled`, the queue of sessions, loading, email | session events, `getSession`, 8 s timeout, apply session | Supabase client (events), sync engine, paid boundary |
| Actions, `lib/actions`, `lib/time/recurrence.ts` | actions, dependencies, completions, current action | status changes alone and in a batch, dependencies, occurrences | store mutators, called by the screens |
| Billing, `lib/billing`, `app/api/billing` | one row per person, and Stripe's own records | checkout, webhook, re-read, guarded write; read by the tab | Stripe (webhooks), the gate |
| Integrations, `lib/integrations` | OAuth states, account rows, sealed tokens | begin, callback, refresh, disconnect | the provider (awaits) |
| Originals, `lib/reading` | pending Files, in-flight set, what a document says of its original, objects and rows | upload, retry, remove | object storage (awaits), `OriginalStatus.tsx` |
| Goals, projects, planning, focus, interview | records of the store | status transitions, sessions | store mutators |
| Capture, AI routes, derived views, UI | none of their own | pure or stateless | the store |

What is hard: everything a flush, an adoption, a callback, a webhook and an upload do
is split by awaits, and edits, timers, session events, other requests and other
devices run in the gaps; calls fail, and answers of calls that succeeded are lost;
pages reload with work under way; deliveries repeat and overtake each other; and the
user is told one word about all of it. What makes each part correct is in section 3.
`PROJECT.json` lists the hazards at their lines, each with the properties that cover
it.

## 2. Modules

| Module | Models | Checked by | Proofs |
|---|---|---|---|
| `SyncEngine` | one tab's queue, flushes, adoptions, health | `MCSyncEngine` | `SyncEngineProofs` |
| `GuardedPush` | one versioned row, many devices | `MCGuardedPush` | `GuardedPushProofs` |
| `SharedText` | what a shared text promises its writers | through `GuardedPush` | through `GuardedPushProofs` |
| `Adoption` | records, the deletion ledger, devices and people | `MCAdoption` | `AdoptionProofs` |
| `SessionGate` | startup, changes of account, the paid boundary | `MCSessionGate` | `SessionGateProofs` |
| `Billing` | checkouts, webhooks, the projected row | `MCBilling` | `BillingProofs` |
| `FreshCopy` | what a re-read projection promises | through `Billing` | through `BillingProofs` |
| `AccountLink` | OAuth states, callbacks, token refresh, disconnect | `MCAccountLink` | `AccountLinkProofs` |
| `OriginalBackup` | upload, retry and removal of one original | `MCOriginalBackup` | `OriginalBackupProofs` |
| `Recurrence` | which day a rule asks for | through `Actions` | |
| `Actions` | the store's operations on actions | `MCActions` | `ActionsProofs` |

How they meet. `SyncEngine` has the control of one tab over whole domains.
`GuardedPush` opens up its guarded write (`PushRefused`, `PushSucceeds`), `Adoption`
its `MigrateOrAdopt` and its row push with more than one record, device and person,
and `SessionGate` the arrival of the sessions it adopts. `Actions` produces what
`Adoption` pushes: the completions whose key wedges it. `Billing` keeps the row that
`SessionGate`'s boundary reads. Names of variables and operators are those of the code
wherever it has one.

### 2.1 `SyncEngine`

**Grain.** One action is the code between two awaits. A flush is `flush` (called by
`TimerFires`, `RetryFires`, `OrphanFires`, `RetrySyncProbed`, `GoOnline`, the end
of an adoption), then one `Push*` action per dirty domain in domain order, then
`FlightHeld`, `FlightSynced` or `FlightPartial`, which is the code after the await
with its `finally` block. An adoption is `HandleSignedIn`, `SessionProbed`,
`AccountLoaded`, `MigrateOrAdopt`. Whatever the code lets run in between is
another action: edits, timers, a second session event, a reload, connectivity.

**Data.** A domain holds one record. Its value is the time of its last change (0:
no record), which is enough to tell older from newer, and every value from every
other. The code finds dirty domains by array *reference* and changed rows by
*content*, so an array is a record `[ref, val]`: an adoption makes new references
with old contents. `Kind` says how the adapter writes a domain: `bulk` (all rows
upserted, nothing ever deleted), `row` (`diffById`: upserts and deletes, with
tombstones), `guarded` (`row`, but the server may refuse a write).

**State and code.** `store` is the state the user sees, `base` is `lastSyncedState`,
`flight` is a running flush (`inFlight` and its locals), `timer` the debounce timer
whose handle the code still has, `orphans` the timers whose handle the `finally` block
has overwritten, `gated` is `compat.gatedDomains`, `adopt` and `sessionQ` are
`sessionChain`, `manual` and `bgProbe` are contract probes in the air, `deleting` is a
running `deleteAll`. `disk`, `online`, `authed`, `supports`, `remote` and `tomb` are the
browser and the account. `confirmed` and `others` are history: what the server has
answered for, and what other devices wrote.

**Environment.** `Env` selects what a run lets happen: removals, another device,
offline, token refreshes, sign-outs, reloads, a wipe, a server upgrade, manual
retries, and the failures: a local write (`disk`), a call that does nothing
(`net`), a call that works and whose answer is lost (`lost`), a table or ledger
that cannot be read (`read`), a probe that fails (`probe`).

### 2.2 `GuardedPush`

**Grain.** A push is `StartPush`, `ensureVersions` when the adapter knows no version,
`ServerReads` and `ServerWrites` (the RPC selects the row first and inserts or
updates it later, so another writer's commit fits in between), then the answer:
`Accepted`, `Refused`, or `LoseCall` at any moment before, with the write done or not.
A request its device has given up may stay in `late` and arrive at any time
(`LateWrite`). A delete is `DeleteRow`, then `writeTombstones`. `SamePushed` is a push of
the row's domain for another row's sake. A push ends with the code after the flush's
await (`Ended`): the baseline takes the snapshot, unless another row of the domain
failed, and the snapshot is queued again if anything failed. A session is `NewSession`
(a new adapter, no versions), `Load`, `Install`; a failed load ends it and releases the
pushes.

**Interleaving.** The person edits, removes and answers notices at any time, also during
the awaits of an adoption, and what is queued then is flushed as it is when the adoption
ends (persistence.ts:820). A session event is handled whatever is queued or in the air
(persistence.ts:797-807): a push that is running goes on with the adapter it started on
(`old`), teaches only that one what it learns, and may land before, while or after the
new adapter loads the account. All that the module leaves to the engine's rules is that
one push runs at a time (`inFlight`), that none starts during an adoption
(`adoptionSettled`), and that session events are handled one after the other
(`sessionChain`). A sign-out is not in the module, nor is the time between a new page and
its first session: what is written then is local, as if written before the reload.

**State and code.** `text` is the record in the store, `base` the record in
`lastSyncedState`, `queued` its value in the snapshot `pending`, `known` the entry of
`versionMap` (0: none), `call` the push in the air, `adopting` the session event,
`conflict` the entry of the conflict store, `row` and `tomb` the account. A text is the
moment it was written. `shown` (what a device has put before its user), `since` (when an
adoption last changed that), `told` (what was handed back), `stored` (what the row has
held) and the fields `by`, `late` and `blind` of `row` are history; no guard reads them.
`blind` marks a version read without its text, by `ensureVersions`; `late` a request that
arrived after its device had given it up, or had made a new adapter.

`SharedText` says what the migration and the conflict store are for, with no versions,
requests or answers: one text (`saved`) that a device replaces knowingly (`informed`)
only if its person has seen it, and not behind a newer text of its own, unless that was
written before the device last took over another text from the account (`since`); what a
device takes to have arrived (`settled`) was saved at some time or was handed back
(`told`); a notice goes only when its writer deals with it, or for the next. A
replacement made blindly, and anything after a deletion (`Deleted`), is allowed, as the
protocol does allow it. `GuardedPush` implements it with `saved <- row.val`,
`informed <- ~row.blind`, `settled <- base`, `notice <-` the refused text in `conflict`,
and the histories as they are.

### 2.3 `Adoption`

**Grain.** A flush is one step (`Flush`: actions, then completions, each domain
upserted before it is deleted, with the first refusal ending its domain); a session
event is `LoadActions`, `LoadCompletions`, `Install`, because the two tables are read
one after the other and other devices write in between.

**Data.** Two tables: actions, and completions of the occurrences of those that
repeat. Every action has one occurrence here; each completion is a row that could
record it, so two of one action have the same unique key. A record is the stamp of its
last change, except that completions have no stamp the tombstone rule could compare.
`account` is the rows, their owners and each person's ledger. `Accepts` is what the
database's constraints let in: a completion only with its action, an occurrence once,
a row only from its owner; deleting an action takes its completions along.

**State and code.** `user` is the session, `migratedFor` the stored owner, `local` the
store and the disk, `base` and `queued` as in the engine, `adoption` the session event.
`Reconciled` is `reconcileAdoption`, `localIsOurs` its owner test, `suppressDeleted`
the ledger with the cascade from actions to completions. History: `author` (who made a
record; "anyone" once a flush that could not know better has put it into another's
account), `had` (values some account has held), `dead` (values deleted from a person's
account with their marker), `settledFor`, `doubts` (why the next flush of a device cannot
know better: its snapshot is older than its adoption, the ledger was unread, a value it
shows was lost without a marker, ...), `torn`. `Informed` collects the exceptions: they
are what section 7 describes.

### 2.4 `SessionGate`

**Grain.** Events of the Supabase client are emitted into a queue and delivered one by
one (`Listener`); `GetSession` and `GivesUp` are the two ends of the explicit read;
`HandleSession` is `applySession` with the start of an adoption, `SessionHandled` its
end. `Effect` is the paid boundary's effect, which React runs before the next timer or
promise that could change the email (`EffectRan`); `GetUser`, `ReadRow`, `ReadFails`
are the shared read of the subscription.

**State and code.** `initialSessionHandled`, `chain` (`sessionChain`), `auth`
(`authStore`), `remote` (for whom the adapter was made), `sub` and `inFlight` of
`subscriptionStore.ts`. `evaluateGate` is `gate.ts` for a deployment that requires a
subscription. Who is entitled is a fact about a person (`Subscribed`).

### 2.5 `Billing` and `FreshCopy`

**Grain.** A checkout is: read the row, create a customer, attach it, create the
session, and the person subscribes. A delivery is: `Deliver`, retrieve the
subscription, resolve the user, write. `HandlerFails` is a failure or a lost answer at
any of them; the event stays in the queue and is delivered again. The two SQL functions
of 0048 are one step each, as a statement is.

**State and code.** Stripe is outside: `stripe` is its record of each subscription,
`queue` and `done` its events, stamped with the second of the change; any two changes may
share a second. `row` is `billing_subscriptions`, with `change` and `readAt` as history
of which state it shows and when that was read, and `former` as history of the customers
it was bound to before. `Outside` are subscriptions made in the dashboard: for the
customer the person is bound to or for another one, with the person's user id in their
metadata (which is what `resolveUserId` falls back to) or without. What the dashboard
makes for the customer of a checkout that has not bound it yet is left out.

`FreshCopy` says what `sync.ts` promises in its header: the copy shows the source as it
was no earlier than a floor, and the floor never goes back. `Billing` implements it with
`truth <- clock`, `floor <-` the stamp in the row, `copy <-` the second the row was read.

### 2.6 `AccountLink`

**Grain.** Every await of `completeLink` is a step: claim, exchange, create the row,
store the credential, write the metadata, and the two undo steps; `getProviderAccessToken`
is load, refresh, replace, or mark the account revoked; `disconnect` is load, revoke,
delete, remove. A reader's and a disconnect's steps interleave with any callback's.

**State and code.** `state`, `row` and `cred` are the three tables of 0042, with the
cascade from a row to its credential and one row per provider account. A consent is a
number, alive until revoked. `link`, `read` and `leave` are the requests in the air.

### 2.7 `OriginalBackup`

**Grain.** An upload is: ask for the backend, upload, insert the row, undo or settle. A
removal is: drop the File, ask for the backend, list, remove objects, delete rows,
delete the reading. A call takes effect, or not, or takes effect and loses its answer;
a reload forgets the File and every call in the air, which may still take effect.

**State and code.** `doc` is the document's provenance, `pending` and `inFlight` the two
collections of `backupManager.ts`, `object` and `rows` the bucket and the table.
`history` holds what a property makes an exception for.

### 2.8 `Recurrence` and `Actions`

`Recurrence` is `recurrence.ts`: the calendar, the rules, the search by day, week,
month and year with its limits, and the walk over occurrences already done. Beside the
search (`nextOccurrenceOnOrAfter`) stands what a rule means day by day (`Occurs`), which
is written from the rule alone and shares only the calendar with it.

`Actions` has one action per operation the screens offer on the store: create, edit,
start, wait, defer, complete, reopen, cancel, delete, alone or in a batch, dependencies,
completing and undoing an occurrence, changing the rule, the current action of a
session, the day passing. A store call is synchronous, so it is a step. Guards that are
not in the store are in the component that calls it, and the map names it. Days are
ordinals; `Skews` is how far the UTC day of `createdAt`, which anchors a rule, may be
from the local day.

## 3. Properties

Each module has one type invariant, `TypeOK`. For `Adoption` it includes the database's
constraints, for `Actions` that nothing names an action that is gone.

Sync engine:

- `BaselineConfirmed`: the baseline never holds a value the server has not answered
  for. Everything that makes a domain count as clean rests on it.
- `SyncedFlushIsConfirmed`: a flush that ends in *Synced* carried nothing the
  server has not answered for, the clean domains it skipped included.
- `UnsentIsVisible`: once something was saved or adopted, unsent work is never
  hidden from the sign-out warning.
- `NeverStranded`: a queued snapshot has a timer to wake it, or the indicator shows
  that not everything arrived. Not with a wipe: the end of `deleteAll` sets
  *Synced* over whatever is queued.
- `AgreesAtRest`: at rest under *Synced*, tab and account hold the same records.
- `PushErasesNothing`: a push takes no record from the account that nobody removed
  here, with another device writing and deleting.
- `AdoptionKeepsLocalOnly`: installing the account keeps what only this tab has, unless
  "Local save failed" is shown: what is merged in is read back from this device's disk.
- `WorkArrivesOrIsReported` (liveness): when changes stop, everything has an answer, or
  the indicator says that something has not.

`SyncCalm` is run under the action constraint `CalmSessions`: session events are handled
while the tab is quiet, and the account can be read. `AgreesAtRest` and
`PushErasesNothing` need it, which is a fact about the code (section 7); `NeverStranded`
and `AdoptionKeepsLocalOnly` do not, as their theorems say.

Guarded row (`NeverDeleted` says that nothing has deleted it so far; a row inserted
again restarts its versions):

- `NothingReplacedUnseen`: a device replaces the row only if its user has had the
  replaced text on screen, in the record or in the conflict notice, except with a
  version read blindly.
- `LevelOrTold`: a device at the row's version with nothing under way shows the row's
  text, or the row's text is the saved one of its notice, or the row holds a text of its
  own that an adoption took off its screen. The last is what an edit during an adoption
  leads to (section 7).
- `IsSharedText`: the refinement of 2.2. Beyond the property above it says that a text
  that enters the baseline was stored or handed back, whatever became of the answer,
  and that no step takes a notice away from a writer who has not dealt with it.
- `OwnWritesInOrder`: no retry, no late request, no stale snapshot and no push that
  outlives its adapter puts a device's older text over its newer one, unless an adoption
  has changed the device's screen since that one was written. What an adoption takes off
  the screen may be pushed behind it, and the account's text goes over it with the next
  save.
- `NoSelfRefusal`: no device is refused because of its own push, unless it had given that
  push up, or a session event had replaced the adapter, before it arrived.

Adoption (each of an *informed* flush, see 2.3):

- `DeletedStaysDeleted`: a value deleted from the account with its marker never comes
  back from a page that knows the account, however it slept, reloaded or failed. (A page
  may not know of a value that was lost without a marker; `lost` is that doubt.)
- `OwnAccountOnly`: what one person made never reaches another's account.
- `PushedHaveActions`: no snapshot is queued with a completion whose action it lacks, on
  a device whose load was not torn.

Startup and gate: `StartupHandledOnce` (the startup session is adopted once),
`SyncIsShown` (the account synchronized is the one shown), `GateIsRight` (at rest the
gate lets in exactly who is entitled), `GateDecides` (liveness: it never loads for ever).

Billing: `SettledIsCurrent` (once all deliveries are answered the row shows the present
state of the subscription that changed last, unless that change shares its second with
another, or nobody could be found for the subscription: it has no metadata, and the row
has left its customer), `OneCustomer` (what is sold is on the customer the row is bound
to, or was bound to before; and only a subscription with our metadata made in the
dashboard, on another customer, can make it leave one), `IsFreshCopy` (the refinement), `DeliveriesEnd` (liveness:
an event nobody can use is answered, too).

Account link: `ConnectedIsWhole` (a row that says connected has a credential),
`NoOrphanSecret` (no credential is left that nothing points at).

Originals: `StoredIsBacked` (*stored* stands for an object and a row),
`RemovedLeavesNothing` (a removal that succeeded leaves neither), `UploadsEnd`
(liveness).

Actions: `Acyclic` (no ring of dependencies, through finished actions or not) and
`NextNeverStarves` (among unfinished actions one is not blocked), both of the store of one
device: an adoption unites the edges of two devices with no cycle check (section 7);
`AsksForFirstOpen` (a
repeating action asks for the first day its rule means, from today on, that is not
done: `AskedIsFirstOpen`; and it asks for none only if there is none as far as the
weekly search looks).

Five definitions are proved (section 6) and not spent a run on; TLC agreed with them
before they were proved: `DiskTrailsOnlyWithAlarm`, `SettledIsShown`, `StateUsedOnce`,
`PermissionKept`, `CanTryAgain`. A sixth, `AskedIsFirstOpen`, is a conjunct of
`AsksForFirstOpen`.

## 4. Runs

| Run | Asks | Instance and bounds |
|---|---|---|
| `SyncSessions` | `UnsentIsVisible` | bulk + guarded domain; token refreshes, sign-outs, reloads (2), a wipe, changes up to time 3, one failure of any kind; 1.4 M states |
| `SyncCalm` | `AgreesAtRest`, `NeverStranded`, `PushErasesNothing`, `AdoptionKeepsLocalOnly` | `Spec` with `ACTION_CONSTRAINT CalmSessions`; row + guarded domain, an old server that is upgraded, another device, offline, manual retries, changes up to time 4, one failure, one session event; 4.8 M states |
| `SyncLive` | `TypeOK`, `BaselineConfirmed`, `SyncedFlushIsConfirmed`, `WorkArrivesOrIsReported` | bulk + guarded domain, the second needing a capability that comes late or never, two failures, lost answers or failed probes, a token refresh, under `FairSpec`; 0.2 M states. No manual retries: a user who presses Retry for ever keeps the indicator at *Syncing* |
| `GuardedDevices` | `TypeOK`, `LevelOrTold`, `IsSharedText`, `NothingReplacedUnseen`, `OwnWritesInOrder`, `NoSelfRefusal` | two devices, two texts over an initial one, one failure, one reload or refresh at any time, everything in `Env`; 0.8 M states |
| `LedgerDevices` | `TypeOK`, `DeletedStaysDeleted`, `OwnAccountOnly`, `PushedHaveActions` | two devices, two people, one action, two rows for its occurrence, changes up to time 3, one failure, two session events; 0.5 M states |
| `SessionStart` | `TypeOK`, `StartupHandledOnce`, `SyncIsShown`, `GateIsRight`, `GateDecides` | two accounts, one entitled; three changes of account, one failed read; 0.2 M states |
| `BillingWebhooks` | `TypeOK`, `SettledIsCurrent`, `OneCustomer`, `IsFreshCopy`, `DeliveriesEnd` | two checkouts, one subscription from the dashboard, two handlers, two changes in the same or in different seconds, two failures; 0.7 M states |
| `AccountLinks` | `TypeOK`, `ConnectedIsWhole`, `NoOrphanSecret` | two states, two callbacks, one reader, a disconnect, two consents, each kind of failure once; 0.9 M states |
| `OriginalFiles` | `TypeOK`, `StoredIsBacked`, `RemovedLeavesNothing`, `UploadsEnd` | two uploads at once, four in all, four things that go wrong, a removal |
| `ActionStore` | `TypeOK`, `Acyclic`, `NextNeverStarves`, `AsksForFirstOpen` | from one of two starts: three plain actions; one repeating action around February 29, 2024, under five rules and three anchors |
| `RetryOverwrites` | violated: `StaleWriteNeverLands` | section 7 |
| `RecompletionWedges` | violated: `QueuedArrives` | section 7 |

All runs stop at their bounds, so deadlock is not checked: a tab with nothing to do
and nobody to change anything really does stop.

Why the bounds are enough. `MaxClock` bounds changes (the first is at time 2, in
`SyncEngine`, `GuardedPush` and `Adoption`), `MaxFaults` failures, `MaxSessions` session
events after the first. `MaxOrphans` stops "Try again" from being pressed while
overwritten timers still run, without which their number is unbounded. Two domains are
enough: a flush distinguishes only succeeded, failed, held and clean, and two domains
give every pair of them; the push order matters only between two. Two changes of one
record are needed for a value to be overtaken in flight, three to also have another
device or a removal. `MaxAutoRetries` is 1 for 5: the counter is compared and reset,
never used otherwise. One failure reaches every failure branch; a second one makes the
retries run out. `SyncCalm` was also run to the end with two failures.

`GuardedDevices` was also run to the end with two failures (9.1 M states), and with changes
up to time 4 and two session events but no failures and no removals; `BillingWebhooks`,
without its liveness property, with three changes, three seconds and one failure (14.2 M
states).

Two devices suffice to be stale, and their texts, roles and people are interchangeable,
so the runs without liveness use symmetry. In `LedgerDevices` two rows of one occurrence
are what the unique key needs to refuse one; it was also run with changes up to time 4
and one person. Two handlers suffice to overtake each other; a third subscription, which
no checkout made, is the one that may have no metadata, or another customer. Two callbacks are two
claims of one state, or a link and a relink. Two uploads overlap; the third and fourth
are retries after one failed and one was cut short.

In `ActionStore`, `Repeating`, `Dated`, `Offered`, `DueDays`, `Ahead` and `MaxDone` bound
what is tried, and the limits of the searches are lowered to what the calendar holds
(`MAX_SEARCH_DAYS` 28 for 2928, `MAX_MONTHS` 15 for 200, `MAX_SKIPS` 4 for 400;
`MAX_YEARS` is the code's 12, `Months` ends the calendar after 62 months): the fortnight
needs 14 days, the longest stretch of a monthly rule here 13 months, and no more than
`MaxDone` occurrences are ever walked over. `WithinReach` says what `AsksForFirstOpen`
needs of these limits, and `MCActions` has TLC check it of this instance (`InstanceReaches`).
`Skews` is {0}: another skew moves the
anchor, which `Anchors` varies anyway.

**Fairness.** Weak fairness of what a running page or a reachable service owes, and
nothing else: in `SyncEngine`, timers that run fire, calls return with success or
failure, queued callbacks run; in `Adoption`, a queued snapshot is pushed again (the
retry timer, and every new save) and a session event is handled; in `SessionGate`, the 8 s timer
fires, promises resume, effects run and a read ends, while neither `getSession` nor
`INITIAL_SESSION` is owed; in `Billing`, Stripe delivers what was not answered and a
request that was begun ends; in `OriginalBackup`, a call returns one way or the other.
None on users, other devices, connectivity, upgrades, or on any call *succeeding*:
failures are bounded by `MaxFaults`, which says that calls do not fail for ever.

## 5. Refinement

`Billing!IsFreshCopy` is `FreshCopy!Spec` under the mapping of 2.5, checked by
`BillingWebhooks` and proved as `CopyIsFresh` for every number of checkouts, handlers
and changes. Every step of `Billing` is an `Advance`, a `TakeOver` or a stutter: only
`apply_stripe_subscription` moves the copy, and its guard on the event's second is what
keeps the floor. It does not say that the copy shows the *newest* state it was ever
given: an older read under a newer event may replace it, which is why `SettledIsCurrent`
is a separate question, and why it needs every event answered.

`GuardedPush!IsSharedText` is `SharedText!Spec` under the mapping of 2.2, checked by
`GuardedDevices` and proved as `SharesText` for every number of devices and failures. It
says that the row changes as if every device looked before it replaced, except by a
write marked as blind and after a deletion, with sessions, stale snapshots and replaced
adapters at any moment. What `RetryOverwrites` finds is such a blind
write: the refinement allows it, and does not hide it.

## 6. Proofs

For every value of the constants, with no assumption beyond those the modules declare
(typing of the constants, `Null` outside what it is not, disjointness of kinds) but in
four theorems that name one: `NeverStrandedUnlessWiped`, `AgreesWhenCalm`,
`FirstOpenCorrect` and `StaleNeverLandsUnforgotten`. Every safety invariant, action
property and refinement of the passing runs is a theorem.

- **Sync engine.** `TypeCorrect`. `BaselineIsConfirmed` and `SyncedFlushCorrect` follow
  from `ConfirmedInv`: `BaselineConfirmed` alone is not inductive, because a landing
  flush copies `flight.snap` into the baseline for the domains in `flight.done`, so it
  needs `FlightConfirmed` (a domain that is done, or skipped as clean, holds a confirmed
  value), and an adoption copies the account, so it needs `AccountConfirmed`.
  `UnsentVisible`, `DiskAlarmCorrect` and `AdoptionKeeps` follow from `SavedInv`, which
  adds that the last saved state is the one shown, and that a load made before the first
  save changes nothing. `NeverStrandedUnlessWiped` follows from `StrandedInv`, assuming
  `"wipe" \notin Env` (section 7 says why).

  Two theorems are about `CalmSpec`, which is `Spec` with `CalmSessions` in every step.
  `PushKeepsWhatIsShown` follows from `QueueInv`: what is queued is what is shown, and so
  is what a flush pushes when nothing is queued. `AgreesWhenCalm` adds `CalmInv`: the
  baseline is the account's state of every domain that is not being pushed
  (`AccountTracks`), a quiet tab shows its baseline (`BaselineTracks`), and both are read
  up to what another device wrote since (`Level`), which needs that nothing is stamped
  later than the clock (`NothingLater`). Without a session a table reads as empty, so
  `AccountTracks` is suspended while a sign-out waits to be handled (`SignOutQueued`).
  The theorem assumes `Converges`: no wipe, no lost answer, no table that reads as
  empty, no bulk domain. Each of the four breaks `AgreesAtRest` alone, as TLC shows on
  the instance of `SyncCalm` with the one added. Failures that report themselves,
  conflicts, upgrades, sign-outs, reloads and other devices do not.
- **Guarded row.** `GuardedTypes`. `VersionsTell` is the inductive invariant of the
  versions: while nothing is deleted no device knows or proposes a version ahead of the
  row, and one that knows the row's own version has had its text on screen, or is about
  to install it. It needs the same of requests given up, which may still arrive, and of
  the row the RPC has selected, which a refusal hands back.
  `NothingReplacedUnseenCorrect` follows. `LevelCorrect`, `NoSelfRefusalCorrect` and
  `OwnOrderCorrect` follow from `HistoryInv`, which adds what a device may have lost track
  of: what was accepted or loaded was stored, and what counts as pushed was stored or
  handed back (`KeptOK`); a device whose push wrote the row knows its version, or none, or
  is about to, unless the push was late or its adapter is gone (`OwnRowOK`); what it has
  queued, in the air or given up is not older than the row it wrote, unless an adoption
  has changed its screen since (`QueueOK`, `OrderOK`, `LateOrderOK`); and level with the
  row it has the row's text in sight (`SightOK`), or something under way that will settle
  it (`UnderWayOK`). `SharesText`, that the protocol implements `SharedText`, rests on the
  same invariant: a write accepted is a `Replace` whose author knows what it replaces
  (`UnseenStep`, `OrderStep`), an answer a `Settle` with a text that was stored or handed
  back (`KeptOK`), an installed account a `TakeOver`, a refusal a `HandBack`; what the
  devices learn, read, lose or give up is a stutter.

  `StaleNeverLandsUnforgotten` says when the guard keeps what the migration promises of
  it without exception, which the run `RetryOverwrites` refutes in general: when no call
  and no load fails, no table reads as empty and nothing is deleted (`NothingForgets`),
  for reloads, refreshes and late requests as they come. Its `InformedInv` says that a
  device that may push knows a version, so that none is ever read without its text. TLC
  finds `StaleWriteNeverLands` violated with any one of the four allowed.
- **Adoption.** `TypeCorrect`: the account keeps the database's constraints.
  `WholeCorrect` from `WholeInv`: edits, cascades, the merge and the suppression by the
  ledger keep a snapshot whole, the ledger because it follows the cascade.
  `OwnCorrect` from `OwnInv`: what a device shows or pushes was made by the person its
  disk is settled for, and what it has loaded by the person who signs in.
  `DeletedCorrect` from `LedgerInv`: nothing is stamped ahead of the clock, a value
  deleted with its marker is still in the ledger (`PastOK`), and on a page without
  doubts what differs from the baseline is something no account has ever had (`Aware`).
- **Billing.** `TypeCorrect`. `CustomerCorrect` from `CustomerInv`: what a handler has read
  names the customer and the metadata of its subscription (`ReadsSame`), what it has
  resolved is of a customer the row has or had, or has our metadata (`ResolvedBound`),
  and a subscription of the dashboard is on a customer of the row or on its own
  (`OutsideBound`); so its write binds the row to another customer only for a
  subscription made elsewhere. `CopyIsFresh`: Stripe is read back after the event was
  stamped (`ReadBackLater`). `SettledCorrect` from `CurrentInv`: the last change of a
  subscription that can be found is on its way, or the row's stamp is not before it
  (`LastArrives`), what was read is at least as new as the event it is written under and
  no newer than the present (`ReadsPresent`), and changes are stamped in their order
  (`Counted`). With equal stamps that leaves the case the property names.
- **Startup and gate.** `TypeCorrect`, `StartupCorrect` and `SyncShownCorrect` from
  `StartupInv` (the flag is claimed in the step that queues the session).
  `SettledCorrect` from `SettledInv`: the last session queued is the client's, unless an
  event that says so is still to be delivered. `GateCorrect` from `GateInv`: while
  nothing on its way shows anybody else, the read that the last change of account started
  is this person's (`OwnReadIsRight`).
- **Account link.** `TypeCorrect`, `PermissionCorrect`, `StateCorrect`. `OrphanCorrect`
  and `WholeCorrect` rest on `LinkInv`: a callback owns the row it creates until it ends
  (`LinksOwn`, `NewIsUnknown`), readers and disconnects work on rows that were named once
  (`ReadsNamed`), and the tables keep their cascade (`TablesHold`). `WholeCorrect` adds
  that a callback about to say *connected* has its credential (`MayConclude`).
- **Originals.** `TypeCorrect`. `StoredCorrect` and `TryAgainCorrect` from `StoredInv`:
  before two uploads overlap one is at work at most (`OneAtATime`), and while no
  overlap has failed, what an upload has reached is still there (`ReachedIsThere`).
  `RemovedCorrect` from `RemovedInv`: what the removal has passed is gone.
- **Actions.** `TypeCorrect`, `AcyclicCorrect`, `NextCorrect`. `Acyclic` quantifies over
  sets of actions, which makes it inductive: if adding an edge closed a ring, the set of
  what the blocked action reaches would hold the blocker, which is what
  `wouldCreateCycle` refuses. `NextNeverStarves` follows from `Acyclic` by the finished
  actions not blocking.

  `AskedCorrect` compares the search with the meaning of the rule on every day of every
  calendar, whatever the limits of the searches. It needs no invariant but the types (a
  rule in use is valid, an anchor is a day); the work is in the operators. The prover
  cannot use induction over a predicate, so the lemmas start from the least element of a
  set of natural numbers: `Induction` says it of a set, and `RecursionExists` that a first
  value and a step make a sequence, which is what the recursive functions `first`
  (the months) and `asked` (the walk) need to be more than a name. On them rest the
  calendar (`FirstDays`, `MonthIs`, `MonthOfIs`: the months tile the days), one lemma per
  frequency that its search gives days the rule means and passes none over
  (`DailySearches`, `WeeklySearches`, `MonthlySearches`, `YearlySearches`), and by
  induction along the walk `CurrentIsFirst`.

  `FirstOpenCorrect` adds that nothing is asked for only if there is nothing, as far as
  the weekly search looks. That is false when the searches give up too early, so it
  assumes `WithinReach`: a month search of `MAX_MONTHS` and a year search of `MAX_YEARS`
  look no less far than `MAX_SEARCH_DAYS`, a month having at least 28 days (the code's
  200, 12 and 2928 meet it); the walk takes more steps than there are days done; and the
  calendar does not end before. The four search lemmas therefore also show that what a
  search leaves out lies beyond its reach (`Reaches`). The walk is a sequence that exists
  by recursion (`WalkExists`) and climbs, so it meets more different days than are done
  and one of them is open, unless it stops for want of a day (`WalkLeavesNothing`, from
  the cardinality of `done`). `ReachInv` bounds today and what is done, and `NoneIsOpen`
  puts the two together.

**What the attempts corrected.** Four properties held on their runs and were false on
larger instances; the proof stopped at the step, and TLC, or a trace written by hand
from it, gave the counterexample.

- `OwnWritesInOrder` needs two session events: a push is abandoned by a reload, lands
  late, a second reload fails to load, and the retry reads the version of the newer text
  and pushes the older one over it. The adoption between them took the newer text off the
  screen, which is the exception the property now has.
- `DeletedStaysDeleted` needs three devices and a half deletion: two devices keep a value
  the account lost without a marker, one brings it back and deletes it properly, the
  other brings it back again. The doubt `lost` names the page that cannot know.
- `OwnAccountOnly` needs a record leaked by a flush that could not know better to be
  deleted, and inserted again by one that could. A leaked record is from then on nobody's
  in particular.
- `AdoptionKeepsLocalOnly` fails when a local write has failed, because the merge reads
  the disk; `CalmSessions` had hidden it. The alarm is now part of the statement, and the
  constraint is no longer needed for it.

Proving `AskedCorrect` also made `MonthOf` total: as a function of the days of the
calendar it said nothing of the days after it, where a search may start all the same.

Only model-checked: liveness (`WorkArrivesOrIsReported`, `GateDecides`, `DeliveriesEnd`,
`UploadsEnd`), which is out of the prover's reach.

## 7. Where the code departs from its documents

Two runs have the behaviour as their counterexample:

- `RetryOverwrites`: after a failed push the adapter forgets the versions, and the
  retry reads the current one without its text. The guard then accepts the push, and a
  text another device stored in the meantime is gone without a refusal, a conflict or
  ever having been shown on the device that replaced it.
- `RecompletionWedges`: an occurrence completed, pushed, undone and completed again
  before the next push is a new row with the key of the old one. The push inserts before
  it deletes, the unique key refuses the insert, the delete is never reached, and every
  retry ends the same way. The domain, with all other completions in it, stays unsynced.

The rest was met while modelling; no run is spent on it, and the properties name the
cases they leave out because of it.

**Sync engine.** An edit made while an adoption awaits leaves a snapshot older than the
account adopted; the flush the gate releases deletes, with a tombstone, what another
device created (persistence.ts:820, against SYNC_INTEGRITY.md:7). An adoption reads the
local state from disk, which is behind memory after a failed write (persistence.ts:851).
A held domain has no timer, and nothing asks the server again after an upgrade
(persistence.ts:484). `deleteAll` does not name every table the adapter writes
(supabaseAdapter.ts:1187), and its end shows *Synced* over a wiped state whose push had
given up. A reload forgets the baseline, and the adoption that follows replaces an
unsent edit of a record the account has (persistence-reconcile.ts:108). A removal in a
bulk domain is never sent (supabaseAdapter.ts:461). *Synced* is shown for the 100 ms
between a flush and the next; the online listener reports it from an empty queue
even after a failed adoption (persistence.ts:585). `hasUnsyncedChanges` is silent from a
reload to the first save or adoption. A domain that needs no capability is stranded with
a held one when it is edited during that flush. A record created by a push whose answer
was lost and removed before the retry stays in the account, because the baseline never
had it: `SyncCalm` therefore has no lost answers.

**Guarded row.** A row inserted again after a deletion restarts at version 1, so a
stale device or a late request can bring back an old text. A refusal may hand back a row
older than the one that refused it, or none, and "Keep the saved version" then writes
that. An edit made while the refused push was in the air is accepted next, with the
version the refusal taught; and when the rest of the domain fails after the refusal (a
delete, a marker), the refused text itself is queued again and goes over the saved one,
with its notice still shown (persistence.ts:517). A second refusal replaces the first refused text, as the
comment at conflicts-store.ts:94 intends. A load that fails, or a table that reads as empty, leads
to the same blind overwrite as a failed push.

An edit made while the account is being loaded disappears from the screen when the
account's text is installed, and is pushed all the same, because the snapshot stays
queued (persistence.ts:820): the tab then shows the account's old text at the version of
a row that holds the edit, with no notice, and the next save puts a text based on the old
one over it. The comment at persistence.ts:849 says of this window that a record made in
it "must survive"; an edit of a record the account has does not. A change of
*another* record during the load does the same to this one: the snapshot pushes this
device's old text over what another device had stored, which is on the screen. The
device knows the version and has shown the text, so the guard accepts it. A session event
during a push makes a new adapter, which may load the row before the push lands: the next
push is then refused because of the device's own write (persistence.ts:799, against
supabaseAdapter.ts:804-808), and the end of the old push sets the baseline back to its
own snapshot after the adoption has set it. A record whose
insert was accepted in a domain that then failed, and which is removed before the retry, is not in the baseline, so that its removal is never pushed; `LevelOrTold`
speaks of devices that show the record.

**Adoption.** Two devices that complete the same occurrence wedge the second one as
above. A snapshot queued before an adoption resurrects what the adoption suppressed
(doubt `early`). A queue kept across a sign-out is released under the next account
(persistence.ts:789 and 825; SYNC_RECOVERY_MATRIX_076.md:221 says otherwise), and so is
what an adoption that failed after a reload or a change of account left open over the old store.
A load torn between the two tables (`torn`) gives a device a completion without its
action. A removal made while signed out, or not pushed before a reload, comes back. A
row deleted whose marker could not be written (doubt `half`) is revived by any device
that still has it. Any marker ends a completion, which has no stamp; and stamps of
different devices are compared as if their clocks agreed, which the model assumes too.

**Startup and gate.** When the 8 s timeout fires after `INITIAL_SESSION` was handled, the
header says that nobody is signed in while the account goes on syncing (`overruled`). A
read in flight is shared across a change of account, so the gate may answer for the
previous person (`shared`). When the startup read fails or times out, health is set to
*disabled* (persistence.ts:750), whatever `SyncEngine`'s queue holds: that line is in
neither module, and `NeverStranded` and `WorkArrivesOrIsReported` do not speak of it. On a change of account the gate decides from the old row
until the new one is read, and may show prices to a subscriber for that moment.

**Billing.** With two changes in one second the stamp of the event does not tell which is
newer, the guard lets both pass, and the delivery that read first may write last: the row
keeps the older state until the next event. sync.ts:30 keeps the guard for just this,
"the narrow race where two deliveries are re-read concurrently and finish out of order",
and it works only across seconds. A subscription made in the dashboard on another
customer, with the person's user id in its metadata, makes `apply_stripe_subscription`
bind the row to that customer (0048:247), also under a checkout that is selling on the
first one, while 0048:170 says that the customer "changes only by a deliberate,
out-of-band decision". From then on a subscription of the first customer is found only by
its metadata; events of one without are answered for nobody (sync.ts:99), and its
changes never reach the row.

**Account link.** The production wiring (`runtime.ts`) supplies stores that refuse, so
no live path reaches this code yet. A metadata write that fails on a reconnect makes the
undo delete the credential of a row that still says connected (link.ts:268, against
13-17): `ConnectedIsWhole` is stated without that failure. A callback cut short leaves a
pending row, sealed credential included, that nothing removes (link.ts:20). A
disconnect cut short between the deletion of the credential (link.ts:325) and that of the
row (327) leaves a connected row without a credential; `ConnectedIsWhole` does not count a
row whose disconnect has begun (`leave`). A refresh
that was refused before a reconnect may mark the new connection revoked, and one that
succeeded may put its older token over the new one.

**Originals.** Retry can be clicked twice while the backend is awaited; if one of the two
inserts fails, its undo removes the object the other has just stored under the same
path. A removal while signed out finds no backend, counts as done, and leaves object
and rows behind a deleted reading; so does an upload in flight at that moment. A backend
missing at the start leaves nothing stored and nothing shown. A removal that fails has
already dropped the File a retry would need.

**Actions.** An edit typed as a capture can defer an action that waits or repeats, which
the replanning controls refuse. Reopening, and the batch operations, keep fields of a
status that has ended; a batch completion keeps the action current in its session. A
rule is anchored at the UTC day of `createdAt` while today is local. A day named in a
capture is recorded as done whether or not the rule gives it. A valid
rule may have no occurrence at all, which no check refuses (the 30th, every 12 months,
anchored in February): the search gives up, where the comment at recurrence.ts:188 expects
that of a yearly February 29 only. An adoption unites the edges of two devices with no cycle check
(persistence-reconcile.ts:98-115), so two edges drawn apart can close a ring: `Acyclic`
and `NextNeverStarves` are about what one device's store does.

## 8. Not modelled, and the plan

Not modelled at all, because they have no state of their own or no order to get wrong:
the user interface apart from the guards the map names, AI prompts and routes, derived
views, capture heuristics, exports and backups. They make up most of the repository's
lines, which is why the map covers a small share of them: a screen, a prompt or
a projection for display is not made clearer by a state machine.

Of the modelled parts: `SyncEngine` has one tab, one account and one record per domain;
`GuardedPush` one row; `Adoption` two of the 46 domains, with a flush as one step;
`SessionGate` no sign-in form; `Billing` one person, no portal, no prices; `AccountLink`
no purge of all of a person's accounts and no sealing; `OriginalBackup` one document and
no semantic index; `Actions` no queue order, templates, history and dormancy.
`PROJECT.json` gives the reason per part.

What the plan has left, in order:

1. Two tabs on one `localStorage` (`lib/security/multi-tab.ts`), composed with the
   engine's `writeLocal` and hydrate.
2. `GuardedPush` with several rows in one push.
3. In `Adoption`, the documents and their citations, which follow the same cascade, as a
   second pair of tables.
4. The three-way merge and the contract's evaluation as operators against a reference
   definition, once a live path calls them.
5. Focus sessions, goals, projects and milestones, whose transitions are those of single
   records, and the interview.
