------------------------------ MODULE SyncEngine ------------------------------
(***************************************************************************)
(* The persistence facade of one browser tab (src/lib/persistence.ts) with *)
(* the parts of its Supabase adapter that decide what a push or a load     *)
(* does to the account (src/lib/adapters/supabaseAdapter.ts).              *)
(*                                                                         *)
(* The facade writes every change to this device at once and to the        *)
(* account later: a save queues a snapshot (`pending`), a debounce timer   *)
(* starts a flush, the flush pushes the domains that differ from the last  *)
(* synced state (`base`), one after the other, and every domain succeeds   *)
(* or fails alone.  A session event makes the tab adopt the account first: *)
(* it loads the account, merges this device's own records in, and installs *)
(* the result.  Everything between two awaits is one action here; whatever *)
(* can run while the code awaits is another action that may come between.  *)
(*                                                                         *)
(* Data.  A domain is an array of records; it is kept here as one record,  *)
(* `val`, the moment of its last change (0: the record is absent), and the *)
(* identity of the array, `ref`: the code finds dirty domains by comparing *)
(* array references, the adapter finds changed rows by comparing contents. *)
(* One account, one tab; the account's other devices are the environment.  *)
(***************************************************************************)
EXTENDS Naturals, Sequences

CONSTANTS
  NDomains,        \* domains 1..NDomains, in the order SYNC_DOMAIN_ORDER pushes them
  Kind,            \* domain -> "bulk" | "row" | "guarded": how the adapter writes it
  Gateable,        \* domains that need a server capability (DOMAIN_CAPABILITY_REQUIREMENTS)
  Wiped,           \* domains whose table deleteAll names
  OldServer,       \* TRUE: the server starts without the capabilities of Gateable
  MaxAutoRetries,  \* MAX_AUTO_RETRIES
  Env,             \* what the environment may do in this model
  MaxClock,        \* bound: no change, here or elsewhere, happens later than this
  MaxFaults,       \* bound: failed calls, failed local writes, connections lost
  MaxSessions,     \* bound: session events after the first
  MaxOrphans,      \* bound: "Try again" is pressed with at most so many orphans running
  Null

Domains == 1 .. NDomains
Arr     == [ref : Nat, val : Nat]
Snapshot == [Domains -> Arr]
Values  == [Domains -> Nat]

EnvKinds == {"remove", "other", "offline", "refresh", "signout", "reload", "wipe",
             "upgrade", "manual", "disk", "net", "lost", "read", "probe"}

ASSUME DomainsAssumption  == NDomains \in Nat
ASSUME KindAssumption     == Kind \in [Domains -> {"bulk", "row", "guarded"}]
ASSUME SubsetsAssumption  == Gateable \subseteq Domains /\ Wiped \subseteq Domains
ASSUME ServerAssumption   == OldServer \in BOOLEAN
ASSUME EnvAssumption      == Env \subseteq EnvKinds
ASSUME BoundsAssumption   == /\ MaxAutoRetries \in Nat /\ MaxClock \in Nat
                             /\ MaxFaults \in Nat /\ MaxSessions \in Nat
                             /\ MaxOrphans \in Nat

VARIABLES
  \* this tab
  store,         \* the in-memory StoreState the user sees
  lastSaved,     \* the last state handed to saveState or saveLocalOnly, Null before the first
  base,          \* lastSyncedState, Null before the first sync
  pending,       \* the snapshot waiting to be pushed, or Null
  flight,        \* the running flush, or Null (inFlight)
  timer,         \* the debounce timer whose handle `timer` holds is running
  orphans,       \* running debounce timers whose handle was overwritten
  retryTimer,    \* the automatic retry timer is running
  retryAttempt,
  failedDomains,
  settled,       \* adoptionSettled
  gated,         \* compat.gatedDomains
  health,        \* health.state
  localError,    \* health.localError is set
  remoteOn,      \* remote # null
  sessionQ,      \* session events not handled yet (sessionChain)
  adopt,         \* the session event being handled
  manual,        \* a retrySync waits for its contract probe
  bgProbe,       \* a probe started by a schema-shaped failure is running
  deleting,      \* a deleteAll is running
  conflict,      \* conflicts-store: the local value a guarded write was refused with
  \* this device, the browser and the account
  disk,          \* localStorage
  online,        \* navigator.onLine
  authed,        \* the browser holds a valid session
  supports,      \* the deployed schema has the capabilities of Gateable
  remote,        \* the account's rows
  tomb,          \* sync_tombstones: when the record was deleted, 0 if never
  \* bounds and history
  clock, faults, sessions,
  confirmed,     \* history: the values the server has answered for, per domain
  others         \* history: the values the account's other devices wrote

pushVars    == <<pending, flight, timer, orphans, retryTimer, retryAttempt, failedDomains>>
localVars   == <<store, lastSaved, base, disk, localError>>
sessionVars == <<remoteOn, sessionQ, adopt, settled, authed, sessions>>
probeVars   == <<gated, manual, bgProbe, supports>>
serverVars  == <<remote, tomb, conflict, confirmed, others, deleting>>
vars == <<pushVars, localVars, sessionVars, probeVars, serverVars, health, online, clock, faults>>

HealthStates == {"disabled", "syncing", "synced", "offline", "retrying", "incomplete", "failed"}
Flights == [snap : Snapshot, base : Snapshot \cup {Null}, todo : SUBSET Domains,
            done : SUBSET Domains, failed : SUBSET Domains, held : SUBSET Domains,
            schema : BOOLEAN]
ASSUME NullAssumption == Null \notin Snapshot /\ Null \notin Flights
Idle     == [phase |-> "idle"]
Adoptions == {Idle} \cup [phase : {"probe", "load"}] \cup [phase : {"tombs"}, loaded : Values]

\* `[]`, the fresh array nextBaseline and the empty state stand in with.
NoArr == [ref |-> 0, val |-> 0]

\* An array of every domain, new in memory, holding the given values.
Arrays(r, values) == [d \in Domains |-> [ref |-> r, val |-> values[d]]]

ValuesOf(snap) == [d \in Domains |-> snap[d].val]
HasData(values) == \E d \in Domains : values[d] # 0
Dirty(next, b) == {d \in Domains : b = Null \/ next[d] # b[d]}

-----------------------------------------------------------------------------
(* What every change does: write this device, then queue the push.         *)

Fault(kind) == kind \in Env /\ faults < MaxFaults /\ faults' = faults + 1

writeLocal(s) ==
  \/ disk' = s /\ localError' = FALSE /\ UNCHANGED faults
  \/ Fault("disk") /\ localError' = TRUE /\ UNCHANGED disk

scheduleRemotePush(s) ==
  \/ ~remoteOn /\ UNCHANGED <<pending, timer, health>>
  \/ remoteOn /\ ~online /\ pending' = s /\ health' = "offline" /\ UNCHANGED timer
  \/ remoteOn /\ online /\ pending' = s /\ health' = "syncing" /\ timer' = TRUE

saveState(s) ==
  /\ store' = s /\ lastSaved' = s
  /\ writeLocal(s)
  /\ scheduleRemotePush(s)

Tick == clock < MaxClock /\ clock' = clock + 1

Change(d, v) ==
  /\ Tick
  /\ saveState([store EXCEPT ![d] = [ref |-> clock + 1, val |-> v]])
  /\ UNCHANGED <<base, flight, orphans, retryTimer, retryAttempt, failedDomains,
                 sessionVars, probeVars, serverVars, online>>

Edit(d)   == Change(d, clock + 1)
Remove(d) == "remove" \in Env /\ store[d].val # 0 /\ Change(d, 0)

RetryLocalSave ==
  /\ lastSaved # Null /\ disk # lastSaved
  /\ writeLocal(lastSaved)
  /\ UNCHANGED <<store, lastSaved, base, pushVars, sessionVars, probeVars, serverVars,
                 health, online, clock>>

-----------------------------------------------------------------------------
(* The flush.  `flush(p, h)` is the call with p pending and h shown; it    *)
(* reads what its caller has just assigned, hence the primes.              *)

flushReturns(p) == ~remoteOn' \/ p = Null \/ ~settled' \/ flight # Null

NewFlight(p) ==
  LET dirty == Dirty(p, base')
      held  == dirty \cap gated'
  IN  [snap |-> p, base |-> base', todo |-> dirty \ held, done |-> {}, failed |-> {},
       held |-> held, schema |-> FALSE]

flush(p, h) ==
  \/ flushReturns(p) /\ pending' = p /\ health' = h /\ UNCHANGED flight
  \/ ~flushReturns(p) /\ ~online' /\ pending' = p /\ health' = "offline" /\ UNCHANGED flight
  \/ ~flushReturns(p) /\ online' /\ pending' = Null /\ health' = h /\ flight' = NewFlight(p)

WakeUnchanged == UNCHANGED <<retryAttempt, failedDomains, localVars, sessionVars, probeVars,
                             serverVars, online, clock, faults>>

TimerFires ==
  /\ timer /\ timer' = FALSE
  /\ WakeUnchanged /\ UNCHANGED <<orphans, retryTimer>>
  /\ flush(pending, health)

OrphanFires ==
  /\ orphans > 0 /\ orphans' = orphans - 1
  /\ WakeUnchanged /\ UNCHANGED <<timer, retryTimer>>
  /\ flush(pending, health)

RetryFires ==
  /\ retryTimer /\ retryTimer' = FALSE
  /\ WakeUnchanged /\ UNCHANGED <<timer, orphans>>
  /\ flush(pending, health)

-----------------------------------------------------------------------------
(* One domain of the running flush: saveStateByDomain, in domain order.    *)

NextDomain(d) == d \in flight.todo /\ \A e \in flight.todo : d <= e
cur(d)   == flight.snap[d].val
prev(d)  == IF flight.base = Null THEN 0 ELSE flight.base[d].val

\* What the adapter sends: a bulk domain upserts all its rows and never deletes;
\* the others upsert what changed and delete what is gone (diffById).
Upserts(d) == cur(d) # 0 /\ (Kind[d] = "bulk" \/ cur(d) # prev(d))
Deletes(d) == cur(d) = 0 /\ Kind[d] # "bulk" /\ prev(d) # 0
Reachable(d) == online /\ authed /\ (d \in Gateable => supports)

Ends(d, ok, schema) ==
  flight' = [flight EXCEPT !.todo = @ \ {d},
                           !.done = IF ok THEN @ \cup {d} ELSE @,
                           !.failed = IF ok THEN @ ELSE @ \cup {d},
                           !.schema = @ \/ schema]

PushUnchanged == UNCHANGED <<pending, timer, orphans, retryTimer, retryAttempt, failedDomains,
                             localVars, sessionVars, probeVars, health, online, clock, others, deleting>>

\* The server holds the row the upsert carried; its response may be lost.
Written(d) ==
  /\ Upserts(d) /\ Reachable(d)
  /\ remote' = [remote EXCEPT ![d] = cur(d)]
  /\ confirmed' = [confirmed EXCEPT ![d] = @ \cup {cur(d)}]
  /\ UNCHANGED <<tomb, conflict>>

\* The row is gone; the deletion marker is stamped with the time of the push.
Erased(d, marked) ==
  /\ Deletes(d) /\ Reachable(d)
  /\ remote' = [remote EXCEPT ![d] = 0]
  /\ tomb' = IF marked THEN [tomb EXCEPT ![d] = clock] ELSE tomb
  /\ UNCHANGED <<conflict, confirmed>>

\* Nothing of this domain differs from the last sync: no call is made.
PushNothing(d) ==
  /\ flight # Null /\ NextDomain(d) /\ ~Upserts(d) /\ ~Deletes(d)
  /\ Ends(d, TRUE, FALSE)
  /\ UNCHANGED <<remote, tomb, conflict, confirmed, faults>> /\ PushUnchanged

PushSucceeds(d) ==
  /\ flight # Null /\ NextDomain(d)
  /\ Written(d) \/ Erased(d, TRUE)
  /\ Ends(d, TRUE, FALSE)
  /\ UNCHANGED faults /\ PushUnchanged

\* The version guard refuses a row another device has moved on; the refused value
\* is kept as a conflict and the domain counts as synced (GuardedPush has the detail).
PushRefused(d) ==
  /\ flight # Null /\ NextDomain(d)
  /\ Kind[d] = "guarded" /\ Upserts(d) /\ Reachable(d)
  /\ remote[d] \in others \ {prev(d)}
  /\ conflict' = [conflict EXCEPT ![d] = cur(d)]
  /\ confirmed' = [confirmed EXCEPT ![d] = @ \cup {cur(d)}]
  /\ Ends(d, TRUE, FALSE)
  /\ UNCHANGED <<remote, tomb, faults>> /\ PushUnchanged

\* Nothing reached the server.
PushFails(d) ==
  /\ flight # Null /\ NextDomain(d) /\ (Upserts(d) \/ Deletes(d))
  /\ \/ ~Reachable(d) /\ UNCHANGED faults
     \/ Fault("net")
  /\ Ends(d, FALSE, d \in Gateable /\ ~supports /\ online)
  /\ UNCHANGED <<remote, tomb, conflict, confirmed>> /\ PushUnchanged

\* The server did it and the client cannot know: the answer was lost, or the
\* deletion landed and its marker did not.
PushAmbiguous(d) ==
  /\ flight # Null /\ NextDomain(d)
  /\ Written(d) \/ Erased(d, TRUE) \/ Erased(d, FALSE)
  /\ Fault("lost")
  /\ Ends(d, FALSE, FALSE) /\ PushUnchanged

-----------------------------------------------------------------------------
(* The end of the flush.                                                   *)

\* Mutant: the baseline takes the newest arrays.
NextBaselineFromStore(b, snap, succeeded) ==
  [d \in Domains |-> IF d \in succeeded THEN store[d]
                     ELSE IF b = Null THEN NoArr ELSE b[d]]

\* The domains that succeeded take the pushed arrays, never newer ones.
nextBaseline(b, snap, succeeded) ==
  [d \in Domains |-> IF d \in succeeded THEN snap[d]
                     ELSE IF b = Null THEN NoArr ELSE b[d]]

\* Mutants: one retry too many; a retry that is announced and never armed.
AutoRetryOnceMore ==
  \/ /\ retryAttempt > MaxAutoRetries
     /\ retryAttempt' = 0 /\ health' = "incomplete" /\ UNCHANGED retryTimer
  \/ /\ retryAttempt <= MaxAutoRetries
     /\ retryAttempt' = retryAttempt + 1 /\ health' = "retrying" /\ retryTimer' = TRUE
AutoRetryNotArmed ==
  \/ /\ retryAttempt >= MaxAutoRetries
     /\ retryAttempt' = 0 /\ health' = "incomplete" /\ UNCHANGED retryTimer
  \/ /\ retryAttempt < MaxAutoRetries
     /\ retryAttempt' = retryAttempt + 1 /\ health' = "retrying" /\ retryTimer' = FALSE

scheduleAutoRetry ==
  \/ /\ retryAttempt >= MaxAutoRetries
     /\ retryAttempt' = 0 /\ health' = "incomplete" /\ UNCHANGED retryTimer
  \/ /\ retryAttempt < MaxAutoRetries
     /\ retryAttempt' = retryAttempt + 1 /\ health' = "retrying" /\ retryTimer' = TRUE

\* Mutant: a failed flush requeues its own snapshot over a newer one.
RequeuedOverNewer == flight.snap

Requeued == IF pending = Null THEN flight.snap ELSE pending

FlightLands ==
  /\ flight # Null /\ flight.todo = {}
  /\ flight' = Null
  /\ base' = nextBaseline(base, flight.snap, flight.done)
  /\ failedDomains' = flight.failed \cup flight.held
  /\ UNCHANGED <<store, lastSaved, disk, localError, sessionVars, manual, supports,
                 serverVars, online, clock, faults>>

\* Some domain waits for a server capability.
FlightHeld ==
  /\ FlightLands /\ flight.held # {}
  /\ pending' = Requeued /\ health' = "incomplete"
  /\ UNCHANGED <<timer, orphans, retryTimer, retryAttempt, gated, bgProbe>>

\* Mutants: one domain that arrived is enough; a state that arrived meanwhile is not woken.
FlightSyncedByAny ==
  /\ FlightLands /\ flight.held = {} /\ (flight.failed = {} \/ flight.done # {})
  /\ health' = "synced" /\ retryAttempt' = 0 /\ retryTimer' = FALSE
  /\ UNCHANGED <<timer, orphans, pending, gated, bgProbe>>
FlightSyncedAsleep ==
  /\ FlightLands /\ flight.held = {} /\ flight.failed = {}
  /\ health' = "synced" /\ retryAttempt' = 0 /\ retryTimer' = FALSE
  /\ UNCHANGED <<timer, orphans, pending, gated, bgProbe>>

FlightSynced ==
  /\ FlightLands /\ flight.held = {} /\ flight.failed = {}
  /\ health' = "synced" /\ retryAttempt' = 0 /\ retryTimer' = FALSE
  /\ timer' = (timer \/ pending # Null)
  /\ orphans' = IF timer /\ pending # Null THEN orphans + 1 ELSE orphans
  /\ UNCHANGED <<pending, gated, bgProbe>>

FlightPartial ==
  /\ FlightLands /\ flight.held = {} /\ flight.failed # {}
  /\ pending' = Requeued
  /\ scheduleAutoRetry
  /\ gated' = IF flight.schema THEN {} ELSE gated
  /\ bgProbe' = (bgProbe \/ flight.schema)
  /\ UNCHANGED <<timer, orphans>>

-----------------------------------------------------------------------------
(* The schema contract (probeCompatibility).  A probe that got an answer   *)
(* holds back what the server cannot take; an unreadable answer holds back *)
(* every domain that needs a capability; offline keeps what was known.     *)

Verdict ==
  \/ online /\ authed /\ gated' = (IF supports THEN {} ELSE Gateable) /\ UNCHANGED faults
  \/ online /\ ~authed /\ gated' = Gateable /\ UNCHANGED faults
  \/ Fault("probe") /\ online /\ gated' = Gateable
  \/ ~online /\ gated' \in {gated, Gateable} /\ UNCHANGED faults

\* "Try again": push the latest local state after asking the server again.
RetrySync ==
  /\ "manual" \in Env /\ ~manual /\ orphans <= MaxOrphans
  /\ remoteOn /\ lastSaved # Null
  /\ pending' = lastSaved
  /\ retryAttempt' = 0 /\ retryTimer' = FALSE /\ health' = "syncing" /\ manual' = TRUE
  /\ UNCHANGED <<flight, timer, orphans, failedDomains, localVars, sessionVars, gated, bgProbe,
                 supports, serverVars, online, clock, faults>>

RetrySyncProbed ==
  /\ manual /\ manual' = FALSE
  /\ \/ remoteOn /\ Verdict
     \/ ~remoteOn /\ gated' = {} /\ UNCHANGED faults
  /\ UNCHANGED <<timer, orphans, retryTimer, retryAttempt, failedDomains, localVars, sessionVars,
                 bgProbe, supports, serverVars, online, clock>>
  /\ flush(pending, health)

BackgroundProbed ==
  /\ bgProbe /\ bgProbe' = FALSE
  /\ \/ remoteOn /\ Verdict
     \/ ~remoteOn /\ gated' = {} /\ UNCHANGED faults
  /\ UNCHANGED <<pushVars, localVars, sessionVars, manual, supports, serverVars,
                 health, online, clock>>

-----------------------------------------------------------------------------
(* Session events are handled one at a time (queueSession, handleSession). *)

SessionUnchanged == UNCHANGED <<localVars, serverVars, online, clock>>

HandleSignedOut ==
  /\ adopt = Idle /\ sessionQ # <<>> /\ Head(sessionQ) = "out"
  /\ sessionQ' = Tail(sessionQ)
  /\ remoteOn' = FALSE /\ gated' = {} /\ health' = "disabled"
  /\ UNCHANGED <<adopt, settled, authed, sessions, pushVars, manual, bgProbe, supports, faults>>
  /\ SessionUnchanged

HandleSignedIn ==
  /\ adopt = Idle /\ sessionQ # <<>> /\ Head(sessionQ) = "in"
  /\ sessionQ' = Tail(sessionQ)
  /\ remoteOn' = TRUE /\ settled' = FALSE /\ gated' = {} /\ health' = "syncing"
  /\ adopt' = [phase |-> "probe"]
  /\ UNCHANGED <<authed, sessions, pushVars, manual, bgProbe, supports, faults>>
  /\ SessionUnchanged

SessionProbed ==
  /\ adopt.phase = "probe" /\ adopt' = [phase |-> "load"]
  /\ Verdict
  /\ UNCHANGED <<remoteOn, sessionQ, settled, authed, sessions, pushVars, manual, bgProbe,
                 supports, health>>
  /\ SessionUnchanged

\* The tables read in one Promise.all fail the load; the later ones read as empty
\* when they fail.  Without a session every table reads as empty.
AccountLoaded ==
  /\ adopt.phase = "load" /\ online
  /\ \E unread \in SUBSET {d \in Domains : Kind[d] # "bulk"} :
       /\ \/ unread = {} /\ UNCHANGED faults
          \/ unread # {} /\ Fault("read")
       /\ adopt' = [phase |-> "tombs",
                    loaded |-> [d \in Domains |-> IF authed /\ d \notin unread
                                                  THEN remote[d] ELSE 0]]
  /\ UNCHANGED <<remoteOn, sessionQ, settled, authed, sessions, pushVars, probeVars, health>>
  /\ SessionUnchanged

AccountLoadFails ==
  /\ adopt.phase = "load" /\ adopt' = Idle
  /\ \/ ~online /\ UNCHANGED faults
     \/ Fault("net")
  /\ settled' = TRUE
  /\ UNCHANGED <<remoteOn, sessionQ, authed, sessions, timer, orphans, retryTimer, retryAttempt,
                 failedDomains, probeVars>>
  /\ SessionUnchanged
  /\ flush(pending, "failed")

-----------------------------------------------------------------------------
(* migrateOrAdopt, from the answer of loadTombstones to the released flush.*)

\* suppressDeleted: a record deleted at or after its last change stays deleted.
Suppressed(values, tombs) == [d \in Domains |-> IF values[d] <= tombs[d] THEN 0 ELSE values[d]]
NoTombs == [d \in Domains |-> 0]

\* Mutants: the account replaces what this device has; this device replaces the account.
MergeReplaced(loaded, local) == IF HasData(loaded) THEN loaded ELSE local
MergeInverted(loaded, local) == IF HasData(local) THEN local ELSE loaded

\* reconcileAdoption for the owner's own data: the account wins for a record it has,
\* a record only this device has is kept.
mergeLocalOnly(loaded, local) == [d \in Domains |-> IF loaded[d] # 0 THEN loaded[d] ELSE local[d]]
LocalOnly(loaded, local) == {d \in Domains : loaded[d] = 0 /\ local[d] # 0}

Adopt(tombs) ==
  LET loaded   == adopt.loaded
      local    == Suppressed(ValuesOf(disk), tombs)
      state    == Arrays(clock + 1, mergeLocalOnly(loaded, local))
      pushes   == LocalOnly(loaded, local) # {}
      baseline == IF HasData(loaded) THEN Arrays(clock + 1, loaded) ELSE [d \in Domains |-> NoArr]
      queued   == IF pushes THEN state ELSE pending
      shown    == CASE pushes /\ online  -> "syncing"
                    [] pushes /\ ~online -> "offline"
                    [] OTHER -> IF pending = Null THEN "synced" ELSE health
  IN  /\ clock' = clock + 1
      /\ adopt' = Idle /\ settled' = TRUE
      /\ store' = state /\ lastSaved' = state
      /\ base' = IF pushes THEN baseline ELSE state
      /\ timer' = (timer \/ (pushes /\ online))
      /\ UNCHANGED <<remoteOn, sessionQ, authed, sessions, orphans, retryTimer, retryAttempt,
                     failedDomains, probeVars, serverVars, online>>
      /\ flush(queued, shown)

\* An unreadable ledger suppresses nothing.
MigrateOrAdopt ==
  /\ adopt.phase = "tombs"
  /\ \/ /\ online
        /\ Adopt(IF authed THEN tomb ELSE NoTombs)
        /\ writeLocal(store')
     \/ /\ ~online
        /\ Adopt(NoTombs)
        /\ writeLocal(store')
     \/ /\ online /\ Fault("read")
        /\ Adopt(NoTombs)
        /\ disk' = store' /\ localError' = FALSE

-----------------------------------------------------------------------------
(* Wiping everything: resetStore = clearState, then saving an empty state. *)

ResetStore ==
  /\ "wipe" \in Env /\ ~deleting /\ Tick
  /\ LET empty == Arrays(clock + 1, NoTombs)
     IN  /\ store' = empty /\ lastSaved' = empty /\ base' = Null
         /\ disk' = empty /\ localError' = FALSE
         /\ scheduleRemotePush(empty)
  /\ deleting' = remoteOn
  /\ conflict' = [d \in Domains |-> 0]
  /\ UNCHANGED <<flight, orphans, retryTimer, retryAttempt, failedDomains, sessionVars, probeVars,
                 remote, tomb, confirmed, others, online, faults>>

\* deleteAll empties the tables it names and the deletion markers.  Only the bulk
\* tables' deletions are checked; the others' may fail unseen.
Emptied(ds) == [d \in Domains |-> IF d \in ds THEN 0 ELSE remote[d]]

DeletionUnchanged == UNCHANGED <<pushVars, localVars, sessionVars, probeVars, conflict, confirmed,
                                 others, online, clock>>

DeleteAllDone ==
  /\ deleting /\ deleting' = FALSE /\ health' = "synced"
  /\ \/ ~authed /\ UNCHANGED <<remote, tomb, faults>>
     \/ /\ online /\ authed
        /\ remote' = Emptied(Wiped) /\ tomb' = NoTombs /\ UNCHANGED faults
     \/ /\ online /\ authed /\ Fault("net")
        /\ \E kept \in SUBSET {d \in Wiped : Kind[d] # "bulk"} : remote' = Emptied(Wiped \ kept)
        /\ tomb' \in {tomb, NoTombs}
  /\ DeletionUnchanged

DeleteAllFails ==
  /\ deleting /\ deleting' = FALSE /\ health' = "failed"
  /\ \/ ~online /\ UNCHANGED <<faults, remote, tomb>>
     \/ /\ Fault("net")
        /\ \E some \in SUBSET Wiped : remote' = Emptied(some)
        /\ tomb' \in {tomb, NoTombs}
  /\ DeletionUnchanged

-----------------------------------------------------------------------------
(* The browser, the session and the account's other devices.               *)

GoOffline ==
  /\ online /\ online' = FALSE /\ Fault("offline")
  /\ health' = IF remoteOn THEN "offline" ELSE health
  /\ UNCHANGED <<pushVars, localVars, sessionVars, probeVars, serverVars, clock>>

GoOnline ==
  /\ ~online /\ online' = TRUE
  /\ UNCHANGED <<timer, orphans, retryTimer, retryAttempt, failedDomains, localVars, sessionVars,
                 probeVars, serverVars, clock, faults>>
  /\ flush(pending, CASE remoteOn /\ pending # Null -> "syncing"
                      [] remoteOn /\ pending = Null -> "synced"
                      [] OTHER -> health)

SessionEvent(kind) ==
  /\ sessions < MaxSessions /\ sessions' = sessions + 1
  /\ sessionQ' = Append(sessionQ, kind)
  /\ UNCHANGED <<remoteOn, adopt, settled, pushVars, localVars, probeVars, serverVars, health,
                 online, clock, faults>>

SignOut == "signout" \in Env /\ authed /\ authed' = FALSE /\ SessionEvent("out")
SignIn  == ~authed /\ authed' = TRUE /\ SessionEvent("in")
\* TOKEN_REFRESHED, or SIGNED_IN again when the tab regains focus.
Refresh == "refresh" \in Env /\ authed /\ UNCHANGED authed /\ SessionEvent("in")

\* The page is closed or crashes and is opened again.
Reload ==
  /\ "reload" \in Env /\ sessions < MaxSessions /\ sessions' = sessions + 1
  /\ store' = disk /\ lastSaved' = Null /\ base' = Null
  /\ pending' = Null /\ flight' = Null /\ timer' = FALSE /\ orphans' = 0
  /\ retryTimer' = FALSE /\ retryAttempt' = 0 /\ failedDomains' = {}
  /\ settled' = TRUE /\ gated' = {} /\ manual' = FALSE /\ bgProbe' = FALSE
  /\ health' = "syncing" /\ localError' = FALSE /\ deleting' = FALSE
  /\ remoteOn' = FALSE /\ adopt' = Idle
  /\ sessionQ' = <<IF authed THEN "in" ELSE "out">>
  /\ UNCHANGED <<authed, disk, supports, remote, tomb, conflict, confirmed, others, online,
                 clock, faults>>

OtherUnchanged == UNCHANGED <<pushVars, localVars, sessionVars, probeVars, conflict, deleting,
                              health, online, faults>>

OtherWrites(d) ==
  /\ "other" \in Env /\ Tick
  /\ remote' = [remote EXCEPT ![d] = clock + 1]
  /\ confirmed' = [confirmed EXCEPT ![d] = @ \cup {clock + 1}]
  /\ others' = others \cup {clock + 1}
  /\ UNCHANGED tomb /\ OtherUnchanged

OtherDeletes(d) ==
  /\ "other" \in Env /\ Tick
  /\ Kind[d] # "bulk" /\ remote[d] # 0
  /\ remote' = [remote EXCEPT ![d] = 0] /\ tomb' = [tomb EXCEPT ![d] = clock + 1]
  /\ UNCHANGED <<confirmed, others>> /\ OtherUnchanged

\* A deployment brings the capabilities this client needs.
ServerUpgrades ==
  /\ "upgrade" \in Env /\ ~supports /\ supports' = TRUE
  /\ UNCHANGED <<pushVars, localVars, sessionVars, gated, manual, bgProbe, serverVars, health,
                 online, clock, faults>>

-----------------------------------------------------------------------------
\* The page has loaded; this device and the account agree on the records in `known`.
Init ==
  \E known \in SUBSET Domains :
    LET values == [d \in Domains |-> IF d \in known THEN 1 ELSE 0]
    IN  /\ store = Arrays(1, values) /\ disk = store /\ remote = values
        /\ confirmed = [d \in Domains |-> IF d \in known THEN {1} ELSE {}]
        /\ lastSaved = Null /\ base = Null /\ localError = FALSE
        /\ pending = Null /\ flight = Null /\ timer = FALSE /\ orphans = 0
        /\ retryTimer = FALSE /\ retryAttempt = 0 /\ failedDomains = {}
        /\ settled = TRUE /\ gated = {} /\ manual = FALSE /\ bgProbe = FALSE
        /\ health = "syncing" /\ deleting = FALSE /\ remoteOn = FALSE /\ adopt = Idle
        /\ authed = TRUE /\ sessionQ = <<"in">> /\ sessions = 0
        /\ supports = ~OldServer /\ online = TRUE
        /\ tomb = NoTombs /\ conflict = NoTombs /\ others = {}
        /\ clock = 1 /\ faults = 0

User        == (\E d \in Domains : Edit(d) \/ Remove(d)) \/ RetryLocalSave \/ RetrySync \/ ResetStore
Timers      == TimerFires \/ OrphanFires \/ RetryFires
Push(d)     == \/ PushNothing(d) \/ PushSucceeds(d) \/ PushRefused(d)
               \/ PushFails(d) \/ PushAmbiguous(d)
Landing     == FlightHeld \/ FlightSynced \/ FlightPartial
Probes      == RetrySyncProbed \/ BackgroundProbed
Session     == \/ HandleSignedOut \/ HandleSignedIn \/ SessionProbed
               \/ AccountLoaded \/ AccountLoadFails \/ MigrateOrAdopt
Deletion    == DeleteAllDone \/ DeleteAllFails
Environment == \/ GoOffline \/ GoOnline \/ SignOut \/ SignIn \/ Refresh \/ Reload \/ ServerUpgrades
               \/ \E d \in Domains : OtherWrites(d) \/ OtherDeletes(d)

Next == \/ User \/ Timers \/ (\E d \in Domains : Push(d)) \/ Landing
        \/ Probes \/ Session \/ Deletion \/ Environment

Spec == Init /\ [][Next]_vars

\* What the browser owes the tab: timers fire, calls return, queued callbacks run.
Fairness ==
  /\ WF_vars(TimerFires) /\ WF_vars(OrphanFires) /\ WF_vars(RetryFires)
  /\ \A d \in Domains : WF_vars(Push(d))
  /\ WF_vars(Landing) /\ WF_vars(RetrySyncProbed) /\ WF_vars(BackgroundProbed)
  /\ WF_vars(Session) /\ WF_vars(Deletion)

FairSpec == Spec /\ Fairness

\* Sessions that change only while the tab is quiet and whose load works: nothing is
\* queued or in flight when a session event is handled, the user changes nothing until
\* the account is installed, and the account is read.
CalmSessions ==
  /\ adopt = Idle /\ adopt' # Idle => pending = Null /\ flight = Null
  /\ remoteOn /\ ~remoteOn' => pending' = Null /\ flight' = Null
  /\ adopt # Idle /\ adopt' = adopt => store' = store /\ pending' = pending
  /\ adopt.phase = "load" => adopt'.phase # "idle"

CalmSpec == Init /\ [][Next /\ CalmSessions]_vars

-----------------------------------------------------------------------------
(* Properties.                                                             *)

TypeOK ==
  /\ store \in Snapshot /\ disk \in Snapshot
  /\ lastSaved \in Snapshot \cup {Null} /\ base \in Snapshot \cup {Null}
  /\ pending \in Snapshot \cup {Null} /\ flight \in Flights \cup {Null}
  /\ timer \in BOOLEAN /\ orphans \in Nat /\ retryTimer \in BOOLEAN
  /\ retryAttempt \in 0 .. MaxAutoRetries /\ failedDomains \subseteq Domains
  /\ settled \in BOOLEAN /\ gated \subseteq Gateable /\ health \in HealthStates
  /\ localError \in BOOLEAN /\ remoteOn \in BOOLEAN
  /\ sessionQ \in Seq({"in", "out"}) /\ adopt \in Adoptions
  /\ manual \in BOOLEAN /\ bgProbe \in BOOLEAN /\ deleting \in BOOLEAN
  /\ conflict \in Values /\ online \in BOOLEAN /\ authed \in BOOLEAN /\ supports \in BOOLEAN
  /\ remote \in Values /\ tomb \in Values
  /\ clock \in Nat /\ faults \in Nat /\ sessions \in Nat
  /\ confirmed \in [Domains -> SUBSET Nat] /\ others \subseteq Nat

\* A value no server answer covers: absent records need none.
Confirmed(d, v) == v = 0 \/ v \in confirmed[d]
Unconfirmed == {d \in Domains : ~Confirmed(d, store[d].val)}

\* The baseline never holds a value the server has not answered for: a domain
\* reads as clean only against something that arrived.  A flush that fails, is
\* overtaken by an edit, an adoption, a wipe or a sign-out must not break it.
BaselineConfirmed == base # Null => \A d \in Domains : Confirmed(d, base[d].val)

\* Mutant: the warning asks the queue only, and a flush has just emptied it.
UnsyncedByQueue == remoteOn /\ (failedDomains # {} \/ pending # Null)

\* hasUnsyncedChanges, the sign-out warning.
hasUnsyncedChanges ==
  /\ remoteOn
  /\ \/ failedDomains # {} \/ pending # Null
     \/ lastSaved # Null /\ Dirty(lastSaved, base) # {}

\* Once something was saved or adopted, work the server never saw is never hidden
\* from the sign-out warning, whatever failed or was retried before.
UnsentIsVisible == remoteOn /\ lastSaved # Null /\ Unconfirmed # {} => hasUnsyncedChanges

\* A queued snapshot with nothing left to wake its push is never left in silence:
\* some timer is running, or the indicator says that not everything arrived.
NeverStranded ==
  /\ pending # Null /\ remoteOn /\ online /\ settled /\ flight = Null /\ ~manual
  => timer \/ orphans > 0 \/ retryTimer \/ health \in {"incomplete", "failed"}

\* Memory runs ahead of this device's disk only while "Local save failed" is shown.
DiskTrailsOnlyWithAlarm == disk # store => localError

\* A flush that ends in "Synced" has had an answer for every record it carried,
\* the clean ones it skipped included.
SyncedFlushIsConfirmed ==
  [][flight # Null /\ flight' = Null /\ health' = "synced"
     => \A d \in Domains : Confirmed(d, flight.snap[d].val)]_vars

\* Nothing is queued, running or waiting, and the indicator reads "Synced".
AtRest ==
  /\ remoteOn /\ authed /\ online /\ sessionQ = <<>> /\ adopt = Idle
  /\ pending = Null /\ flight = Null /\ ~deleting /\ health = "synced"

\* Another device wrote or deleted the record after this one last did.
OtherWroteLast(d) ==
  remote[d] \in others \/ (remote[d] = 0 /\ tomb[d] > store[d].val)

\* At rest, the tab and the account hold the same records: nothing that failed, was
\* retried or was overtaken on the way there left them apart; only what another device
\* wrote or deleted since may differ.
AgreesAtRest ==
  AtRest => \A d \in Domains : store[d].val = remote[d] \/ OtherWroteLast(d)

\* No push takes from the account a record that this tab shows, unless newer work that
\* will bring it back is already queued.
PushErasesNothing ==
  [][flight # Null /\ flight' # flight
     => \A d \in Domains :
          remote[d] # 0 /\ remote'[d] = 0 => store[d].val = 0 \/ pending # Null]_vars

\* Installing the account keeps every record that only this tab has, unless "Local save
\* failed" is shown: what is merged in is read back from this device's disk.
AdoptionKeepsLocalOnly ==
  [][adopt.phase = "tombs" /\ adopt'.phase = "idle" /\ ~localError
     => \A d \in Domains : store[d].val > tomb[d] /\ adopt.loaded[d] = 0
                           => store'[d].val = store[d].val]_vars

\* When changes stop, every one of them has an answer from the account, or the
\* indicator says that some do not.
WorkArrivesOrIsReported == <>[](Unconfirmed = {} \/ health \in {"incomplete", "failed"})
=============================================================================
