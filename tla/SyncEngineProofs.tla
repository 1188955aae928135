--------------------------- MODULE SyncEngineProofs ---------------------------
(***************************************************************************)
(* Theorems about SyncEngine, for every number of domains, every kind of   *)
(* domain and every bound. Behind them stand five inductive invariants:    *)
(* ConfirmedInv (whatever the tab takes for synced stands on an answer of  *)
(* the server), SavedInv (what was saved last is what is shown),           *)
(* StrandedInv (what is queued has something to wake it) and, when         *)
(* sessions change only while the tab is quiet, QueueInv (what is queued   *)
(* is what is shown) and CalmInv (the baseline is the account's state of   *)
(* every domain not being pushed).                                         *)
(***************************************************************************)
EXTENDS SyncEngine, TLAPS

-----------------------------------------------------------------------------
(* Types.                                                                  *)

\* The arrays of a state with given values are a snapshot.
LEMMA ArraysType ==
  ASSUME NEW r \in Nat, NEW values \in Values
  PROVE  Arrays(r, values) \in Snapshot
  BY DEF Arrays, Snapshot, Arr, Values

LEMMA ValuesOfType ==
  ASSUME NEW s \in Snapshot
  PROVE  ValuesOf(s) \in Values
  BY DEF ValuesOf, Snapshot, Arr, Values

LEMMA NoTombsType == NoTombs \in Values
  BY DEF NoTombs, Values

\* A flush starts from a snapshot and pushes or holds domains only.
LEMMA NewFlightType ==
  ASSUME NEW p \in Snapshot, base' \in Snapshot \cup {Null}
  PROVE  NewFlight(p) \in Flights
  BY DEF NewFlight, Flights, Dirty

\* The baseline after a push is a snapshot.
LEMMA NextBaselineType ==
  ASSUME NEW b \in Snapshot \cup {Null}, NEW snap \in Snapshot, NEW done \in SUBSET Domains
  PROVE  nextBaseline(b, snap, done) \in Snapshot
  BY DEF nextBaseline, NoArr, Snapshot, Arr

\* What a call of flush leaves in the variables it assigns.
LEMMA FlushType ==
  ASSUME NEW p \in Snapshot \cup {Null}, NEW h \in HealthStates, flush(p, h),
         flight \in Flights \cup {Null}, base' \in Snapshot \cup {Null}
  PROVE  /\ pending' \in Snapshot \cup {Null}
         /\ flight' \in Flights \cup {Null}
         /\ health' \in HealthStates
  <1>1. CASE flushReturns(p)
    BY <1>1 DEF flush
  <1>2. CASE ~flushReturns(p) /\ ~online'
    BY <1>2 DEF flush, HealthStates
  <1>3. CASE ~flushReturns(p) /\ online'
    <2>1. p \in Snapshot
      BY <1>3 DEF flushReturns
    <2>. QED  BY <1>3, <2>1, NewFlightType DEF flush
  <1>. QED  BY <1>1, <1>2, <1>3

LEMMA EndsType ==
  ASSUME NEW d \in Domains, NEW ok \in BOOLEAN, NEW schema \in BOOLEAN,
         flight \in Flights, Ends(d, ok, schema)
  PROVE  flight' \in Flights
  BY DEF Ends, Flights

LEMMA WriteLocalType ==
  ASSUME NEW s \in Snapshot, writeLocal(s), disk \in Snapshot, localError \in BOOLEAN,
         faults \in Nat
  PROVE  disk' \in Snapshot /\ localError' \in BOOLEAN /\ faults' \in Nat
  <1>1. CASE disk' = s /\ localError' = FALSE /\ UNCHANGED faults
    BY <1>1
  <1>2. CASE Fault("disk") /\ localError' = TRUE /\ UNCHANGED disk
    <2>1. faults' \in Nat
      BY <1>2 DEF Fault
    <2>. QED  BY <1>2, <2>1
  <1>. QED  BY <1>1, <1>2 DEF writeLocal

LEMMA SchedulePushType ==
  ASSUME NEW s \in Snapshot, scheduleRemotePush(s), pending \in Snapshot \cup {Null},
         timer \in BOOLEAN, health \in HealthStates
  PROVE  pending' \in Snapshot \cup {Null} /\ timer' \in BOOLEAN /\ health' \in HealthStates
  BY DEF scheduleRemotePush, HealthStates

LEMMA VerdictType ==
  ASSUME Verdict, gated \in SUBSET Gateable, faults \in Nat
  PROVE  gated' \in SUBSET Gateable /\ faults' \in Nat
  BY DEF Verdict, Fault

LEMMA InitType == Init => TypeOK
  <1>. SUFFICES ASSUME Init PROVE TypeOK
    OBVIOUS
  <1>1. PICK known \in SUBSET Domains :
          LET values == [d \in Domains |-> IF d \in known THEN 1 ELSE 0]
          IN  /\ store = Arrays(1, values) /\ disk = store /\ remote = values
              /\ confirmed = [d \in Domains |-> IF d \in known THEN {1} ELSE {}]
    BY DEF Init
  <1>2. remote \in Values
    BY <1>1 DEF Values
  <1>3. store \in Snapshot /\ disk \in Snapshot
    BY <1>1, <1>2, ArraysType
  <1>4. confirmed \in [Domains -> SUBSET Nat]
    BY <1>1
  <1>5. sessionQ \in Seq({"in", "out"})
    BY DEF Init
  <1>6. adopt \in Adoptions /\ health \in HealthStates
    BY DEF Init, Adoptions, Idle, HealthStates
  <1>7. orphans \in Nat /\ retryAttempt \in 0 .. MaxAutoRetries /\ sessions \in Nat
        /\ clock \in Nat /\ faults \in Nat
    BY BoundsAssumption DEF Init
  <1>8. tomb \in Values /\ conflict \in Values
    BY NoTombsType DEF Init
  <1>9. supports \in BOOLEAN
    BY ServerAssumption DEF Init
  <1>. QED
    BY <1>2, <1>3, <1>4, <1>5, <1>6, <1>7, <1>8, <1>9 DEF Init, TypeOK

\* Each group of actions keeps the types.
LEMMA UserType == TypeOK /\ User => TypeOK'
  <1>. SUFFICES ASSUME TypeOK, User PROVE TypeOK'
    OBVIOUS
  <1>1. ASSUME NEW d \in Domains, NEW v \in Nat, Change(d, v) PROVE TypeOK'
    <2>. DEFINE s == [store EXCEPT ![d] = [ref |-> clock + 1, val |-> v]]
    <2>1. s \in Snapshot
      BY DEF TypeOK, Snapshot, Arr
    <2>2. /\ store' = s /\ lastSaved' = s /\ writeLocal(s) /\ scheduleRemotePush(s)
          /\ clock' \in Nat
      BY <1>1 DEF Change, saveState, Tick, TypeOK
    <2>3. /\ disk' \in Snapshot /\ localError' \in BOOLEAN /\ faults' \in Nat
          /\ pending' \in Snapshot \cup {Null} /\ timer' \in BOOLEAN /\ health' \in HealthStates
      BY <2>1, <2>2, WriteLocalType, SchedulePushType DEF TypeOK
    <2>. QED
      BY <1>1, <2>1, <2>2, <2>3 DEF Change, TypeOK, sessionVars, probeVars, serverVars
  <1>2. ASSUME NEW d \in Domains, Edit(d) PROVE TypeOK'
    BY <1>1, <1>2 DEF Edit, TypeOK
  <1>3. ASSUME NEW d \in Domains, Remove(d) PROVE TypeOK'
    BY <1>1, <1>3 DEF Remove
  <1>4. CASE RetryLocalSave
    <2>1. lastSaved \in Snapshot
      BY <1>4 DEF RetryLocalSave, TypeOK
    <2>2. disk' \in Snapshot /\ localError' \in BOOLEAN /\ faults' \in Nat
      BY <1>4, <2>1, WriteLocalType DEF RetryLocalSave, TypeOK
    <2>. QED
      BY <1>4, <2>2 DEF RetryLocalSave, TypeOK, pushVars, sessionVars, probeVars, serverVars
  <1>5. CASE RetrySync
    <2>1. retryAttempt' \in 0 .. MaxAutoRetries
      BY <1>5, BoundsAssumption DEF RetrySync
    <2>2. pending' \in Snapshot \cup {Null} /\ health' \in HealthStates
      BY <1>5 DEF RetrySync, TypeOK, HealthStates
    <2>. QED
      BY <1>5, <2>1, <2>2 DEF RetrySync, TypeOK, localVars, sessionVars, serverVars
  <1>6. CASE ResetStore
    <2>. DEFINE s == Arrays(clock + 1, NoTombs)
    <2>1. s \in Snapshot
      BY ArraysType, NoTombsType DEF TypeOK
    <2>2. /\ store' = s /\ lastSaved' = s /\ disk' = s /\ scheduleRemotePush(s)
          /\ clock' \in Nat
      BY <1>6 DEF ResetStore, Tick, TypeOK
    <2>3. pending' \in Snapshot \cup {Null} /\ timer' \in BOOLEAN /\ health' \in HealthStates
      BY <2>1, <2>2, SchedulePushType DEF TypeOK
    <2>4. conflict' \in Values
      BY <1>6 DEF ResetStore, Values
    <2>. QED
      BY <1>6, <2>1, <2>2, <2>3, <2>4 DEF ResetStore, TypeOK, sessionVars, probeVars
  <1>. QED  BY <1>2, <1>3, <1>4, <1>5, <1>6 DEF User

LEMMA TimersType == TypeOK /\ Timers => TypeOK'
  <1>. SUFFICES ASSUME TypeOK, Timers PROVE TypeOK'
    OBVIOUS
  <1>1. /\ flush(pending, health) /\ WakeUnchanged
        /\ timer' \in BOOLEAN /\ orphans' \in Nat /\ retryTimer' \in BOOLEAN
    <2>1. CASE TimerFires
      BY <2>1 DEF TimerFires, TypeOK
    <2>2. CASE OrphanFires
      <3>1. orphans' \in Nat
        BY <2>2 DEF OrphanFires, TypeOK
      <3>. QED  BY <2>2, <3>1 DEF OrphanFires, TypeOK
    <2>3. CASE RetryFires
      BY <2>3 DEF RetryFires, TypeOK
    <2>. QED  BY <2>1, <2>2, <2>3 DEF Timers
  <1>2. base' \in Snapshot \cup {Null}
    BY <1>1 DEF WakeUnchanged, localVars, TypeOK
  <1>3. /\ pending' \in Snapshot \cup {Null} /\ flight' \in Flights \cup {Null}
        /\ health' \in HealthStates
    BY <1>1, <1>2, FlushType DEF TypeOK
  <1>. QED
    BY <1>1, <1>3 DEF WakeUnchanged, TypeOK, localVars, sessionVars, probeVars, serverVars

\* What a call of the adapter does to the account.
ServerOK == remote \in Values /\ tomb \in Values /\ conflict \in Values
            /\ confirmed \in [Domains -> SUBSET Nat]

LEMMA CurType ==
  ASSUME flight \in Flights, NEW d \in Domains
  PROVE  cur(d) \in Nat
  BY DEF cur, Flights, Snapshot, Arr

LEMMA WrittenType ==
  ASSUME TypeOK, NEW d \in Domains, flight \in Flights, Written(d)
  PROVE  ServerOK'
  <1>1. cur(d) \in Nat
    BY CurType
  <1>. QED  BY <1>1 DEF Written, ServerOK, TypeOK, Values

LEMMA ErasedType ==
  ASSUME TypeOK, NEW d \in Domains, NEW marked \in BOOLEAN, Erased(d, marked)
  PROVE  ServerOK'
  <1>1. remote' \in Values /\ [tomb EXCEPT ![d] = clock] \in Values
    BY DEF Erased, TypeOK, Values
  <1>. QED  BY <1>1 DEF Erased, ServerOK, TypeOK

LEMMA PushType ==
  ASSUME TypeOK, NEW d \in Domains, Push(d)
  PROVE  TypeOK'
  <1>1. flight \in Flights /\ PushUnchanged
    BY DEF Push, PushNothing, PushSucceeds, PushRefused, PushFails, PushAmbiguous, TypeOK
  <1>2. flight' \in Flights
    <2>1. ASSUME NEW ok \in BOOLEAN, NEW schema \in BOOLEAN, Ends(d, ok, schema)
          PROVE flight' \in Flights
      BY <1>1, <2>1, EndsType
    <2>2. (d \in Gateable /\ ~supports /\ online) \in BOOLEAN
      OBVIOUS
    <2>. QED
      BY <2>1, <2>2 DEF Push, PushNothing, PushSucceeds, PushRefused, PushFails, PushAmbiguous
  <1>3. faults' \in Nat
    <2>1. UNCHANGED faults \/ Fault("net") \/ Fault("lost")
      BY DEF Push, PushNothing, PushSucceeds, PushRefused, PushFails, PushAmbiguous
    <2>. QED  BY <2>1 DEF Fault, TypeOK
  <1>4. ServerOK'
    <2>1. CASE PushRefused(d)
      <3>1. cur(d) \in Nat
        BY <1>1, CurType
      <3>. QED  BY <2>1, <3>1 DEF PushRefused, ServerOK, TypeOK, Values
    <2>2. CASE PushNothing(d) \/ PushFails(d)
      BY <2>2 DEF PushNothing, PushFails, ServerOK, TypeOK
    <2>3. CASE Written(d) \/ Erased(d, TRUE) \/ Erased(d, FALSE)
      BY <1>1, <2>3, WrittenType, ErasedType
    <2>. QED  BY <2>1, <2>2, <2>3 DEF Push, PushSucceeds, PushAmbiguous
  <1>. QED
    BY <1>1, <1>2, <1>3, <1>4
    DEF ServerOK, PushUnchanged, TypeOK, localVars, sessionVars, probeVars

LEMMA LandingType == TypeOK /\ Landing => TypeOK'
  <1>. SUFFICES ASSUME TypeOK, Landing PROVE TypeOK'
    OBVIOUS
  <1>1. FlightLands /\ flight \in Flights
    BY DEF Landing, FlightHeld, FlightSynced, FlightPartial, FlightLands, TypeOK
  <1>2. /\ flight.snap \in Snapshot /\ flight.done \in SUBSET Domains
        /\ flight.failed \in SUBSET Domains /\ flight.held \in SUBSET Domains
    BY <1>1 DEF Flights
  <1>3. base' \in Snapshot /\ failedDomains' \in SUBSET Domains /\ flight' = Null
    BY <1>1, <1>2, NextBaselineType DEF FlightLands, TypeOK
  <1>4. Requeued \in Snapshot
    BY <1>2 DEF Requeued, TypeOK
  <1>5. CASE FlightHeld
    BY <1>3, <1>4, <1>5
    DEF FlightHeld, FlightLands, TypeOK, HealthStates, sessionVars, serverVars
  <1>6. CASE FlightSynced
    <2>1. retryAttempt' \in 0 .. MaxAutoRetries /\ orphans' \in Nat
      BY <1>6, BoundsAssumption DEF FlightSynced, TypeOK
    <2>2. timer' \in BOOLEAN
      BY <1>6 DEF FlightSynced
    <2>. QED
      BY <1>3, <1>6, <2>1, <2>2
      DEF FlightSynced, FlightLands, TypeOK, HealthStates, sessionVars, serverVars
  <1>7. CASE FlightPartial
    <2>1. /\ retryAttempt' \in 0 .. MaxAutoRetries /\ health' \in HealthStates
          /\ pending' \in Snapshot
      BY <1>4, <1>7, BoundsAssumption DEF FlightPartial, scheduleAutoRetry, TypeOK, HealthStates
    <2>2. retryTimer' \in BOOLEAN
      BY <1>7 DEF FlightPartial, scheduleAutoRetry, TypeOK
    <2>3. gated' \in SUBSET Gateable
      BY <1>7 DEF FlightPartial, TypeOK
    <2>4. bgProbe' \in BOOLEAN
      BY <1>7 DEF FlightPartial
    <2>. QED
      BY <1>3, <1>7, <2>1, <2>2, <2>3, <2>4
      DEF FlightPartial, FlightLands, TypeOK, sessionVars, serverVars
  <1>. QED  BY <1>5, <1>6, <1>7 DEF Landing

LEMMA ProbesType == TypeOK /\ Probes => TypeOK'
  <1>. SUFFICES ASSUME TypeOK, Probes PROVE TypeOK'
    OBVIOUS
  <1>1. gated' \subseteq Gateable /\ faults' \in Nat
    <2>1. Verdict \/ (gated' = {} /\ UNCHANGED faults)
      BY DEF Probes, RetrySyncProbed, BackgroundProbed
    <2>. QED  BY <2>1, VerdictType DEF TypeOK
  <1>2. CASE RetrySyncProbed
    <2>1. flush(pending, health) /\ base' \in Snapshot \cup {Null}
      BY <1>2 DEF RetrySyncProbed, localVars, TypeOK
    <2>2. /\ pending' \in Snapshot \cup {Null} /\ flight' \in Flights \cup {Null}
          /\ health' \in HealthStates
      BY <2>1, FlushType DEF TypeOK
    <2>3. /\ manual' \in BOOLEAN
          /\ UNCHANGED <<timer, orphans, retryTimer, retryAttempt, failedDomains, localVars,
                         sessionVars, bgProbe, supports, serverVars, online, clock>>
      BY <1>2 DEF RetrySyncProbed
    <2>. QED  BY <1>1, <2>2, <2>3 DEF TypeOK, localVars, sessionVars, serverVars
  <1>3. CASE BackgroundProbed
    <2>1. /\ bgProbe' \in BOOLEAN
          /\ UNCHANGED <<pushVars, localVars, sessionVars, manual, supports, serverVars,
                         health, online, clock>>
      BY <1>3 DEF BackgroundProbed
    <2>. QED  BY <1>1, <2>1 DEF TypeOK, pushVars, localVars, sessionVars, serverVars
  <1>. QED  BY <1>2, <1>3 DEF Probes

\* Once the account is loaded its values are at hand.
LEMMA LoadedType ==
  ASSUME adopt \in Adoptions, adopt.phase = "tombs"
  PROVE  adopt.loaded \in Values
  BY DEF Adoptions, Idle

\* Merging and suppressing give values of records.
LEMMA MergedType ==
  ASSUME NEW loaded \in Values, NEW s \in Snapshot, NEW tombs \in Values
  PROVE  /\ Suppressed(ValuesOf(s), tombs) \in Values
         /\ mergeLocalOnly(loaded, Suppressed(ValuesOf(s), tombs)) \in Values
  <1>1. Suppressed(ValuesOf(s), tombs) \in Values
    BY ValuesOfType DEF Suppressed, Values
  <1>. QED  BY <1>1 DEF mergeLocalOnly, Values

LEMMA AdoptStoreType ==
  ASSUME TypeOK, adopt.phase = "tombs", NEW tombs \in Values, Adopt(tombs)
  PROVE  store' \in Snapshot
  <1>1. adopt.loaded \in Values
    BY LoadedType DEF TypeOK
  <1>2. Arrays(clock + 1, mergeLocalOnly(adopt.loaded, Suppressed(ValuesOf(disk), tombs)))
          \in Snapshot
    BY <1>1, MergedType, ArraysType DEF TypeOK
  <1>. QED  BY <1>2 DEF Adopt

LEMMA AdoptType ==
  ASSUME TypeOK, adopt.phase = "tombs", NEW tombs \in Values, Adopt(tombs),
         disk' \in Snapshot, localError' \in BOOLEAN, faults' \in Nat
  PROVE  TypeOK'
  <1>. DEFINE local  == Suppressed(ValuesOf(disk), tombs)
              state  == Arrays(clock + 1, mergeLocalOnly(adopt.loaded, local))
              pushes == LocalOnly(adopt.loaded, local) # {}
              baseline == IF HasData(adopt.loaded) THEN Arrays(clock + 1, adopt.loaded)
                          ELSE [d \in Domains |-> NoArr]
              queued == IF pushes THEN state ELSE pending
              shown  == CASE pushes /\ online  -> "syncing"
                          [] pushes /\ ~online -> "offline"
                          [] OTHER -> IF pending = Null THEN "synced" ELSE health
  <1>1. adopt.loaded \in Values
    BY LoadedType DEF TypeOK
  <1>2. state \in Snapshot
    BY <1>1, MergedType, ArraysType DEF TypeOK
  <1>3. baseline \in Snapshot
    <2>1. [d \in Domains |-> NoArr] \in Snapshot
      BY DEF NoArr, Snapshot, Arr
    <2>. QED  BY <1>1, <2>1, ArraysType DEF TypeOK
  <1>4. queued \in Snapshot \cup {Null} /\ shown \in HealthStates
    BY <1>2 DEF TypeOK, HealthStates
  <1>5. /\ clock' = clock + 1 /\ adopt' = Idle /\ settled' = TRUE
        /\ store' = state /\ lastSaved' = state
        /\ base' = (IF pushes THEN baseline ELSE state)
        /\ timer' = (timer \/ (pushes /\ online))
        /\ UNCHANGED <<remoteOn, sessionQ, authed, sessions, orphans, retryTimer, retryAttempt,
                       failedDomains, probeVars, serverVars, online>>
        /\ flush(queued, shown)
    BY DEF Adopt
  <1>6. base' \in Snapshot \cup {Null}
    BY <1>2, <1>3, <1>5
  <1>7. /\ pending' \in Snapshot \cup {Null} /\ flight' \in Flights \cup {Null}
        /\ health' \in HealthStates
    BY <1>4, <1>5, <1>6, FlushType DEF TypeOK
  <1>8. timer' \in BOOLEAN /\ settled' \in BOOLEAN
    BY <1>5
  <1>9. adopt' \in Adoptions /\ clock' \in Nat
    BY <1>5 DEF Adoptions, TypeOK
  <1>10. store' \in Snapshot /\ lastSaved' \in Snapshot \cup {Null}
    BY <1>2, <1>5
  <1>11. UNCHANGED <<remoteOn, sessionQ, authed, sessions, orphans, retryTimer, retryAttempt,
                     failedDomains, probeVars, serverVars, online>>
    BY <1>5
  <1>. QED
    BY <1>6, <1>7, <1>8, <1>9, <1>10, <1>11 DEF TypeOK, probeVars, serverVars

LEMMA SessionType == TypeOK /\ Session => TypeOK'
  <1>. SUFFICES ASSUME TypeOK, Session PROVE TypeOK'
    OBVIOUS
  <1>1. CASE HandleSignedOut
    <2>1. sessionQ' \in Seq({"in", "out"}) /\ health' \in HealthStates
      BY <1>1 DEF HandleSignedOut, TypeOK, HealthStates
    <2>2. remoteOn' \in BOOLEAN /\ gated' \subseteq Gateable
      BY <1>1 DEF HandleSignedOut
    <2>. QED
      BY <1>1, <2>1, <2>2
      DEF HandleSignedOut, SessionUnchanged, TypeOK, pushVars, localVars, serverVars
  <1>2. CASE HandleSignedIn
    <2>1. /\ sessionQ' \in Seq({"in", "out"}) /\ health' \in HealthStates
          /\ adopt' \in Adoptions
      BY <1>2 DEF HandleSignedIn, TypeOK, HealthStates, Adoptions
    <2>2. remoteOn' \in BOOLEAN /\ settled' \in BOOLEAN /\ gated' \subseteq Gateable
      BY <1>2 DEF HandleSignedIn
    <2>. QED
      BY <1>2, <2>1, <2>2
      DEF HandleSignedIn, SessionUnchanged, TypeOK, pushVars, localVars, serverVars
  <1>3. CASE SessionProbed
    <2>1. gated' \subseteq Gateable /\ faults' \in Nat
      BY <1>3, VerdictType DEF SessionProbed, TypeOK
    <2>2. adopt' \in Adoptions
      BY <1>3 DEF SessionProbed, Adoptions
    <2>3. /\ UNCHANGED <<remoteOn, sessionQ, settled, authed, sessions, pushVars, manual,
                         bgProbe, supports, health>>
          /\ SessionUnchanged
      BY <1>3 DEF SessionProbed
    <2>. QED
      BY <2>1, <2>2, <2>3 DEF SessionUnchanged, TypeOK, pushVars, localVars, serverVars
  <1>4. CASE AccountLoaded
    <2>1. adopt' \in Adoptions
      BY <1>4 DEF AccountLoaded, Adoptions, Values, TypeOK
    <2>2. faults' \in Nat
      BY <1>4 DEF AccountLoaded, Fault, TypeOK
    <2>3. /\ UNCHANGED <<remoteOn, sessionQ, settled, authed, sessions, pushVars, probeVars,
                         health>>
          /\ SessionUnchanged
      BY <1>4 DEF AccountLoaded
    <2>. QED
      BY <2>1, <2>2, <2>3
      DEF SessionUnchanged, TypeOK, pushVars, localVars, probeVars, serverVars
  <1>5. CASE AccountLoadFails
    <2>1. /\ flush(pending, "failed") /\ base' \in Snapshot \cup {Null}
          /\ "failed" \in HealthStates
      BY <1>5 DEF AccountLoadFails, SessionUnchanged, localVars, TypeOK, HealthStates
    <2>2. /\ pending' \in Snapshot \cup {Null} /\ flight' \in Flights \cup {Null}
          /\ health' \in HealthStates
      BY <2>1, FlushType DEF TypeOK
    <2>3. adopt' \in Adoptions
      BY <1>5 DEF AccountLoadFails, Adoptions
    <2>4. faults' \in Nat
      BY <1>5 DEF AccountLoadFails, Fault, TypeOK
    <2>5. /\ settled' \in BOOLEAN
          /\ UNCHANGED <<remoteOn, sessionQ, authed, sessions, timer, orphans, retryTimer,
                         retryAttempt, failedDomains, probeVars>>
          /\ SessionUnchanged
      BY <1>5 DEF AccountLoadFails
    <2>. QED
      BY <2>2, <2>3, <2>4, <2>5
      DEF SessionUnchanged, TypeOK, localVars, probeVars, serverVars
  <1>6. CASE MigrateOrAdopt
    <2>1. /\ adopt.phase = "tombs" /\ tomb \in Values /\ NoTombs \in Values
          /\ (IF authed THEN tomb ELSE NoTombs) \in Values
      BY <1>6, NoTombsType DEF MigrateOrAdopt, TypeOK
    <2>2. ASSUME NEW tombs \in Values, Adopt(tombs), writeLocal(store') PROVE TypeOK'
      <3>1. store' \in Snapshot
        BY <2>1, <2>2, AdoptStoreType
      <3>2. disk' \in Snapshot /\ localError' \in BOOLEAN /\ faults' \in Nat
        BY <2>2, <3>1, WriteLocalType DEF TypeOK
      <3>. QED  BY <2>1, <2>2, <3>2, AdoptType
    <2>3. ASSUME Adopt(NoTombs), Fault("read"), disk' = store', localError' = FALSE
          PROVE TypeOK'
      <3>1. store' \in Snapshot
        BY <2>1, <2>3, AdoptStoreType
      <3>2. faults' \in Nat
        BY <2>3 DEF Fault, TypeOK
      <3>. QED  BY <2>1, <2>3, <3>1, <3>2, AdoptType
    <2>. QED  BY <1>6, <2>1, <2>2, <2>3 DEF MigrateOrAdopt
  <1>. QED  BY <1>1, <1>2, <1>3, <1>4, <1>5, <1>6 DEF Session

LEMMA DeletionType == TypeOK /\ Deletion => TypeOK'
  <1>. SUFFICES ASSUME TypeOK, Deletion PROVE TypeOK'
    OBVIOUS
  <1>1. remote' \in Values /\ tomb' \in Values
    <2>1. \/ UNCHANGED remote
          \/ \E some \in SUBSET Domains :
               remote' = [d \in Domains |-> IF d \in some THEN 0 ELSE remote[d]]
      BY SubsetsAssumption DEF Deletion, DeleteAllDone, DeleteAllFails, Emptied
    <2>2. tomb' = NoTombs \/ UNCHANGED tomb
      BY DEF Deletion, DeleteAllDone, DeleteAllFails, DeletionUnchanged
    <2>3. remote' \in Values
      BY <2>1 DEF TypeOK, Values
    <2>. QED  BY <2>2, <2>3, NoTombsType DEF TypeOK
  <1>2. faults' \in Nat
    BY DEF Deletion, DeleteAllDone, DeleteAllFails, DeletionUnchanged, Fault, TypeOK
  <1>3. deleting' \in BOOLEAN /\ health' \in HealthStates
    BY DEF Deletion, DeleteAllDone, DeleteAllFails, DeletionUnchanged, HealthStates
  <1>4. UNCHANGED <<pushVars, localVars, sessionVars, probeVars, conflict, confirmed, others,
                    online, clock>>
    BY DEF Deletion, DeleteAllDone, DeleteAllFails, DeletionUnchanged
  <1>. QED
    BY <1>1, <1>2, <1>3, <1>4 DEF TypeOK, pushVars, localVars, sessionVars, probeVars

LEMMA EnvironmentType == TypeOK /\ Environment => TypeOK'
  <1>. SUFFICES ASSUME TypeOK, Environment PROVE TypeOK'
    OBVIOUS
  <1>1. CASE GoOffline
    <2>1. online' \in BOOLEAN /\ health' \in HealthStates
      BY <1>1 DEF GoOffline, HealthStates, TypeOK
    <2>2. faults' \in Nat
      BY <1>1 DEF GoOffline, Fault, TypeOK
    <2>. QED
      BY <1>1, <2>1, <2>2
      DEF GoOffline, TypeOK, pushVars, localVars, sessionVars, probeVars, serverVars
  <1>2. CASE GoOnline
    <2>. DEFINE h == CASE remoteOn /\ pending # Null -> "syncing"
                       [] remoteOn /\ pending = Null -> "synced"
                       [] OTHER -> health
    <2>1. h \in HealthStates
      BY DEF HealthStates, TypeOK
    <2>2. /\ flush(pending, h) /\ online' \in BOOLEAN
          /\ UNCHANGED <<timer, orphans, retryTimer, retryAttempt, failedDomains, localVars,
                         sessionVars, probeVars, serverVars, clock, faults>>
      BY <1>2 DEF GoOnline
    <2>3. base' \in Snapshot \cup {Null}
      BY <2>2 DEF localVars, TypeOK
    <2>4. /\ pending' \in Snapshot \cup {Null} /\ flight' \in Flights \cup {Null}
          /\ health' \in HealthStates
      BY <2>1, <2>2, <2>3, FlushType DEF TypeOK
    <2>. QED  BY <2>2, <2>4 DEF TypeOK, localVars, sessionVars, probeVars, serverVars
  <1>3. ASSUME NEW kind \in {"in", "out"}, SessionEvent(kind), authed' \in BOOLEAN
        PROVE  TypeOK'
    <2>1. sessionQ' \in Seq({"in", "out"}) /\ sessions' \in Nat
      BY <1>3 DEF SessionEvent, TypeOK
    <2>. QED
      BY <1>3, <2>1
      DEF SessionEvent, TypeOK, pushVars, localVars, probeVars, serverVars
  <1>4. CASE SignOut \/ SignIn \/ Refresh
    <2>1. authed' \in BOOLEAN /\ (SessionEvent("in") \/ SessionEvent("out"))
      BY <1>4 DEF SignOut, SignIn, Refresh, TypeOK
    <2>. QED  BY <1>3, <2>1
  <1>5. CASE Reload
    <2>1. /\ sessionQ' \in Seq({"in", "out"}) /\ sessions' \in Nat /\ adopt' \in Adoptions
          /\ health' \in HealthStates
      BY <1>5 DEF Reload, TypeOK, Adoptions, HealthStates
    <2>2. orphans' \in Nat /\ retryAttempt' \in 0 .. MaxAutoRetries
      BY <1>5, BoundsAssumption DEF Reload
    <2>3. /\ timer' \in BOOLEAN /\ retryTimer' \in BOOLEAN /\ settled' \in BOOLEAN
          /\ manual' \in BOOLEAN /\ bgProbe' \in BOOLEAN /\ localError' \in BOOLEAN
          /\ deleting' \in BOOLEAN /\ remoteOn' \in BOOLEAN
      BY <1>5 DEF Reload
    <2>4. /\ store' = disk /\ lastSaved' = Null /\ base' = Null /\ pending' = Null
          /\ flight' = Null /\ failedDomains' = {} /\ gated' = {}
          /\ UNCHANGED <<authed, disk, supports, remote, tomb, conflict, confirmed, others,
                         online, clock, faults>>
      BY <1>5 DEF Reload
    <2>. QED  BY <2>1, <2>2, <2>3, <2>4 DEF TypeOK
  <1>6. CASE ServerUpgrades
    <2>1. /\ supports' \in BOOLEAN
          /\ UNCHANGED <<pushVars, localVars, sessionVars, gated, manual, bgProbe, serverVars,
                         health, online, clock, faults>>
      BY <1>6 DEF ServerUpgrades
    <2>. QED  BY <2>1 DEF TypeOK, pushVars, localVars, sessionVars, serverVars
  <1>7. ASSUME NEW d \in Domains, OtherWrites(d) \/ OtherDeletes(d) PROVE TypeOK'
    <2>1. clock' = clock + 1 /\ clock' \in Nat
      BY <1>7 DEF OtherWrites, OtherDeletes, Tick, TypeOK
    <2>4. remote' \in Values /\ tomb' \in Values
      BY <1>7, <2>1 DEF OtherWrites, OtherDeletes, TypeOK, Values
    <2>5. others' \subseteq Nat
      BY <1>7, <2>1 DEF OtherWrites, OtherDeletes, TypeOK
    <2>2. confirmed' \in [Domains -> SUBSET Nat]
      BY <1>7 DEF OtherWrites, OtherDeletes, TypeOK
    <2>3. OtherUnchanged
      BY <1>7 DEF OtherWrites, OtherDeletes
    <2>. QED
      BY <2>1, <2>2, <2>3, <2>4, <2>5
      DEF OtherUnchanged, TypeOK, pushVars, localVars, sessionVars, probeVars
  <1>. QED  BY <1>1, <1>2, <1>4, <1>5, <1>6, <1>7 DEF Environment

\* Every step keeps the types.
LEMMA NextType == TypeOK /\ [Next]_vars => TypeOK'
  <1>. SUFFICES ASSUME TypeOK, [Next]_vars PROVE TypeOK'
    OBVIOUS
  <1>1. CASE Next
    BY <1>1, UserType, TimersType, PushType, LandingType, ProbesType, SessionType, DeletionType,
       EnvironmentType DEF Next
  <1>2. CASE UNCHANGED vars
    BY <1>2 DEF vars, TypeOK, pushVars, localVars, sessionVars, probeVars, serverVars
  <1>. QED  BY <1>1, <1>2

\* Every variable keeps its type, whatever the number of domains and the bounds:
\* no flush ever runs without a snapshot, retries never exceed MAX_AUTO_RETRIES.
THEOREM TypeCorrect == Spec => []TypeOK
  <1>. QED  BY InitType, NextType, PTL DEF Spec

-----------------------------------------------------------------------------
(* Safety.  The baseline alone is not inductive: what it becomes is        *)
(* decided when a flush starts, long before it lands, and by the account   *)
(* as it was when it was read.  ConfirmedInv adds both: whatever the tab   *)
(* takes for synced, in the baseline, in the flush it runs or in the       *)
(* account it has loaded, is a value the server answered for.  SavedInv    *)
(* relates what was saved last to memory and to the disk.                  *)

\* The flush started from a sound baseline and is through with a domain only
\* when the value it carries has an answer.
FlightConfirmed ==
  flight # Null =>
    /\ flight.base # Null => \A d \in Domains : Confirmed(d, flight.base[d].val)
    /\ \A d \in Domains :
         d \in flight.done \/ d \notin flight.todo \cup flight.failed \cup flight.held
           => Confirmed(d, flight.snap[d].val)

AccountConfirmed ==
  /\ \A d \in Domains : Confirmed(d, remote[d])
  /\ adopt.phase = "tombs" => \A d \in Domains : Confirmed(d, adopt.loaded[d])

ConfirmedInv == BaselineConfirmed /\ FlightConfirmed /\ AccountConfirmed

-----------------------------------------------------------------------------
\* Answers are never taken back.
ConfirmedGrows == \A d \in Domains : confirmed[d] \subseteq confirmed'[d]

LEMMA PushConfirmedGrows ==
  ASSUME TypeOK, NEW d \in Domains, Push(d)
  PROVE  ConfirmedGrows
  <1>1. \/ UNCHANGED confirmed
        \/ confirmed' = [confirmed EXCEPT ![d] = @ \cup {cur(d)}]
    BY DEF Push, PushNothing, PushSucceeds, PushRefused, PushFails, PushAmbiguous, Written, Erased
  <1>. QED  BY <1>1 DEF ConfirmedGrows, TypeOK

LEMMA Monotone ==
  ASSUME ConfirmedGrows, NEW d \in Domains, NEW v, v = 0 \/ v \in confirmed[d]
  PROVE  v = 0 \/ v \in confirmed'[d]
  BY DEF ConfirmedGrows

\* The parts of the invariant survive a step that does not touch what they speak of.
LEMMA BaselineKept ==
  ASSUME BaselineConfirmed, ConfirmedGrows, UNCHANGED base
  PROVE  BaselineConfirmed'
  BY Monotone DEF BaselineConfirmed, Confirmed

LEMMA FlightKept ==
  ASSUME FlightConfirmed, ConfirmedGrows, UNCHANGED flight
  PROVE  FlightConfirmed'
  BY Monotone DEF FlightConfirmed, Confirmed

LEMMA AccountKept ==
  ASSUME AccountConfirmed, ConfirmedGrows, UNCHANGED remote,
         UNCHANGED adopt \/ adopt'.phase # "tombs"
  PROVE  AccountConfirmed'
  BY Monotone DEF AccountConfirmed, Confirmed

LEMMA AllKept ==
  ASSUME ConfirmedInv, UNCHANGED <<base, flight, remote, adopt, confirmed>>
  PROVE  ConfirmedInv'
  <1>1. ConfirmedGrows
    BY DEF ConfirmedGrows
  <1>. QED  BY <1>1, BaselineKept, FlightKept, AccountKept DEF ConfirmedInv

\* A flush that starts is through only with the domains that equal the baseline.
LEMMA FlushKeepsConfirmed ==
  ASSUME FlightConfirmed, BaselineConfirmed', UNCHANGED confirmed,
         NEW p \in Snapshot \cup {Null}, NEW h, flush(p, h)
  PROVE  FlightConfirmed'
  <1>1. ConfirmedGrows
    BY DEF ConfirmedGrows
  <1>2. CASE UNCHANGED flight
    BY <1>1, <1>2, FlightKept
  <1>3. CASE flight' = NewFlight(p)
    <2>1. (flight.base # Null => \A d \in Domains : Confirmed(d, flight.base[d].val))'
      BY <1>3 DEF NewFlight, BaselineConfirmed, Confirmed
    <2>2. ASSUME NEW d \in Domains,
                 (d \in flight.done \/ d \notin flight.todo \cup flight.failed \cup flight.held)'
          PROVE  Confirmed(d, flight.snap[d].val)'
      <3>1. d \notin Dirty(p, base') /\ flight'.snap = p
        BY <1>3, <2>2 DEF NewFlight, Dirty
      <3>2. base' # Null /\ p[d] = base'[d]
        BY <3>1 DEF Dirty
      <3>. QED  BY <3>1, <3>2 DEF BaselineConfirmed, Confirmed
    <2>. QED  BY <2>1, <2>2 DEF FlightConfirmed
  <1>. QED  BY <1>2, <1>3 DEF flush

-----------------------------------------------------------------------------
(* The groups of actions.                                                  *)

LEMMA InitConfirmed == Init => ConfirmedInv
  BY DEF Init, ConfirmedInv, BaselineConfirmed, FlightConfirmed, AccountConfirmed, Confirmed, Idle

LEMMA UserConfirmed == ConfirmedInv /\ User => ConfirmedInv'
  <1>. SUFFICES ASSUME ConfirmedInv, User PROVE ConfirmedInv'
    OBVIOUS
  <1>1. CASE ResetStore
    <2>1. ConfirmedGrows /\ base' = Null /\ UNCHANGED <<flight, remote, adopt, confirmed>>
      BY <1>1 DEF ResetStore, ConfirmedGrows, sessionVars
    <2>2. BaselineConfirmed'
      BY <2>1 DEF BaselineConfirmed
    <2>. QED  BY <2>1, <2>2, FlightKept, AccountKept DEF ConfirmedInv
  <1>2. CASE ~ResetStore
    <2>1. UNCHANGED <<base, flight, remote, adopt, confirmed>>
      BY <1>2 DEF User, Edit, Remove, Change, saveState, RetryLocalSave, RetrySync,
                  pushVars, localVars, sessionVars, serverVars
    <2>. QED  BY <2>1, AllKept
  <1>. QED  BY <1>1, <1>2

\* The steps that only call flush with what is pending.
LEMMA FlushOnlyConfirmed ==
  ASSUME TypeOK, ConfirmedInv, NEW h, flush(pending, h), UNCHANGED <<base, remote, confirmed>>,
         UNCHANGED adopt \/ adopt'.phase # "tombs"
  PROVE  ConfirmedInv'
  <1>1. ConfirmedGrows
    BY DEF ConfirmedGrows
  <1>2. BaselineConfirmed' /\ AccountConfirmed'
    BY <1>1, BaselineKept, AccountKept DEF ConfirmedInv
  <1>3. FlightConfirmed'
    BY <1>2, FlushKeepsConfirmed DEF ConfirmedInv, TypeOK
  <1>. QED  BY <1>2, <1>3 DEF ConfirmedInv

LEMMA TimersConfirmed == TypeOK /\ ConfirmedInv /\ Timers => ConfirmedInv'
  BY FlushOnlyConfirmed
  DEF Timers, TimerFires, OrphanFires, RetryFires, WakeUnchanged, localVars, sessionVars, serverVars

LEMMA ProbesConfirmed == TypeOK /\ ConfirmedInv /\ Probes => ConfirmedInv'
  <1>. SUFFICES ASSUME TypeOK, ConfirmedInv, Probes PROVE ConfirmedInv'
    OBVIOUS
  <1>1. CASE RetrySyncProbed
    <2>1. flush(pending, health) /\ UNCHANGED <<base, remote, confirmed, adopt>>
      BY <1>1 DEF RetrySyncProbed, localVars, sessionVars, serverVars
    <2>. QED  BY <2>1, FlushOnlyConfirmed
  <1>2. CASE BackgroundProbed
    <2>1. UNCHANGED <<base, flight, remote, adopt, confirmed>>
      BY <1>2 DEF BackgroundProbed, pushVars, localVars, sessionVars, serverVars
    <2>. QED  BY <2>1, AllKept
  <1>. QED  BY <1>1, <1>2 DEF Probes

\* A call moves one domain out of todo: to done with an answer, or to failed.
LEMMA PushConfirmed == TypeOK /\ ConfirmedInv /\ (\E d \in Domains : Push(d)) => ConfirmedInv'
  <1>. SUFFICES ASSUME TypeOK, ConfirmedInv, NEW d \in Domains, Push(d) PROVE ConfirmedInv'
    OBVIOUS
  <1>1. ConfirmedGrows
    BY PushConfirmedGrows
  <1>2. flight # Null /\ flight \in Flights /\ d \in flight.todo /\ UNCHANGED <<base, adopt>>
    BY DEF Push, PushNothing, PushSucceeds, PushRefused, PushFails, PushAmbiguous, NextDomain,
           PushUnchanged, localVars, sessionVars, TypeOK
  <1>3. BaselineConfirmed'
    BY <1>1, <1>2, BaselineKept DEF ConfirmedInv
  <1>4. AccountConfirmed'
    <2>1. \A e \in Domains : Confirmed(e, remote[e])'
      <3>1. CASE Written(d)
        BY <1>1, <3>1, Monotone
        DEF Written, ConfirmedInv, AccountConfirmed, Confirmed, TypeOK, Values
      <3>2. CASE Erased(d, TRUE) \/ Erased(d, FALSE)
        BY <1>1, <3>2, Monotone
        DEF Erased, ConfirmedInv, AccountConfirmed, Confirmed, TypeOK, Values
      <3>3. CASE UNCHANGED remote
        BY <1>1, <3>3, Monotone DEF ConfirmedInv, AccountConfirmed, Confirmed
      <3>. QED
        BY <3>1, <3>2, <3>3
        DEF Push, PushNothing, PushSucceeds, PushRefused, PushFails, PushAmbiguous
    <2>2. (adopt.phase = "tombs" => \A e \in Domains : Confirmed(e, adopt.loaded[e]))'
      BY <1>1, <1>2, Monotone DEF ConfirmedInv, AccountConfirmed, Confirmed
    <2>. QED  BY <2>1, <2>2 DEF AccountConfirmed
  <1>5. FlightConfirmed'
    <2>1. ASSUME NEW ok \in BOOLEAN, NEW schema \in BOOLEAN, Ends(d, ok, schema),
                 ok => Confirmed(d, flight.snap[d].val)'
          PROVE  FlightConfirmed'
      <3>1. /\ flight'.snap = flight.snap /\ flight'.base = flight.base
            /\ flight'.held = flight.held /\ flight'.todo = flight.todo \ {d}
            /\ flight'.done = (IF ok THEN flight.done \cup {d} ELSE flight.done)
            /\ flight'.failed = (IF ok THEN flight.failed ELSE flight.failed \cup {d})
        BY <1>2, <2>1 DEF Ends, Flights
      <3>2. (flight.base # Null => \A e \in Domains : Confirmed(e, flight.base[e].val))'
        BY <1>1, <1>2, <3>1, Monotone DEF ConfirmedInv, FlightConfirmed, Confirmed
      <3>3. ASSUME NEW e \in Domains,
                   (e \in flight.done \/ e \notin flight.todo \cup flight.failed \cup flight.held)'
            PROVE  Confirmed(e, flight.snap[e].val)'
        <4>1. CASE e = d /\ ok
          BY <2>1, <4>1
        <4>2. CASE ~(e = d /\ ok)
          <5>1. e \in flight.done \/ e \notin flight.todo \cup flight.failed \cup flight.held
            BY <3>1, <3>3, <4>2
          <5>. QED
            BY <1>1, <1>2, <3>1, <5>1, Monotone DEF ConfirmedInv, FlightConfirmed, Confirmed
        <4>. QED  BY <4>1, <4>2
      <3>. QED  BY <3>2, <3>3 DEF FlightConfirmed
    <2>2. CASE PushNothing(d)
      <3>1. Confirmed(d, cur(d))
        BY <1>2, <2>2
        DEF PushNothing, Upserts, prev, ConfirmedInv, FlightConfirmed, Confirmed
      <3>2. flight'.snap = flight.snap /\ UNCHANGED confirmed
        BY <1>2, <2>2 DEF PushNothing, Ends, Flights
      <3>3. Confirmed(d, flight.snap[d].val)'
        BY <3>1, <3>2 DEF Confirmed, cur
      <3>. QED  BY <2>1, <2>2, <3>3 DEF PushNothing
    <2>3. CASE PushSucceeds(d) \/ PushRefused(d)
      <3>1. cur(d) = 0 \/ cur(d) \in confirmed'[d]
        BY <2>3 DEF PushSucceeds, PushRefused, Written, Erased, Deletes, TypeOK
      <3>2. flight'.snap = flight.snap
        BY <1>2, <2>3 DEF PushSucceeds, PushRefused, Ends, Flights
      <3>3. Confirmed(d, flight.snap[d].val)'
        BY <3>1, <3>2 DEF Confirmed, cur
      <3>. QED  BY <2>1, <2>3, <3>3 DEF PushSucceeds, PushRefused
    <2>4. CASE PushFails(d) \/ PushAmbiguous(d)
      <3>1. (d \in Gateable /\ ~supports /\ online) \in BOOLEAN
        OBVIOUS
      <3>. QED  BY <2>1, <2>4, <3>1 DEF PushFails, PushAmbiguous
    <2>. QED  BY <2>2, <2>3, <2>4 DEF Push
  <1>. QED  BY <1>3, <1>4, <1>5 DEF ConfirmedInv

\* A flush that lands moves the baseline by the domains it is through with.
LEMMA LandingConfirmed == TypeOK /\ ConfirmedInv /\ Landing => ConfirmedInv'
  <1>. SUFFICES ASSUME TypeOK, ConfirmedInv, Landing PROVE ConfirmedInv'
    OBVIOUS
  <1>1. /\ FlightLands /\ flight # Null /\ flight' = Null
        /\ base' = nextBaseline(base, flight.snap, flight.done)
        /\ UNCHANGED <<remote, adopt, confirmed>>
    BY DEF Landing, FlightHeld, FlightSynced, FlightPartial, FlightLands, sessionVars, serverVars
  <1>2. ConfirmedGrows
    BY <1>1 DEF ConfirmedGrows
  <1>3. AccountConfirmed' /\ FlightConfirmed'
    BY <1>1, <1>2, AccountKept DEF ConfirmedInv, FlightConfirmed
  <1>4. ASSUME NEW d \in Domains PROVE Confirmed(d, base[d].val)'
    <2>1. base'[d] = IF d \in flight.done THEN flight.snap[d]
                     ELSE IF base = Null THEN NoArr ELSE base[d]
      BY <1>1 DEF nextBaseline
    <2>2. CASE d \in flight.done
      BY <1>1, <2>1, <2>2 DEF ConfirmedInv, FlightConfirmed, Confirmed
    <2>3. CASE d \notin flight.done /\ base = Null
      BY <2>1, <2>3 DEF NoArr, Confirmed
    <2>4. CASE d \notin flight.done /\ base # Null
      BY <1>1, <2>1, <2>4 DEF ConfirmedInv, BaselineConfirmed, Confirmed
    <2>. QED  BY <2>2, <2>3, <2>4
  <1>. QED  BY <1>3, <1>4 DEF BaselineConfirmed, ConfirmedInv

\* An adoption installs the account's values, and local ones only beside the baseline.
LEMMA AdoptConfirmed ==
  ASSUME TypeOK, ConfirmedInv, adopt.phase = "tombs", NEW tombs \in Values, Adopt(tombs)
  PROVE  ConfirmedInv'
  <1>. DEFINE loaded == adopt.loaded
              local  == Suppressed(ValuesOf(disk), tombs)
              state  == Arrays(clock + 1, mergeLocalOnly(loaded, local))
              pushes == LocalOnly(loaded, local) # {}
              baseline == IF HasData(loaded) THEN Arrays(clock + 1, loaded)
                          ELSE [d \in Domains |-> NoArr]
              queued == IF pushes THEN state ELSE pending
              shown  == CASE pushes /\ online  -> "syncing"
                          [] pushes /\ ~online -> "offline"
                          [] OTHER -> IF pending = Null THEN "synced" ELSE health
  <1>1. /\ adopt' = Idle /\ flush(queued, shown) /\ UNCHANGED <<remote, confirmed>>
        /\ base' = (IF pushes THEN baseline ELSE state)
    BY DEF Adopt, serverVars
  <1>2. ConfirmedGrows
    BY <1>1 DEF ConfirmedGrows
  <1>3. AccountConfirmed'
    BY <1>1, <1>2, AccountKept DEF ConfirmedInv, Idle
  <1>4. /\ loaded \in Values /\ local \in Values
        /\ \A d \in Domains : loaded[d] = 0 \/ loaded[d] \in confirmed[d]
    BY LoadedType, MergedType DEF TypeOK, ConfirmedInv, AccountConfirmed, Confirmed
  <1>5. ASSUME NEW d \in Domains PROVE Confirmed(d, base[d].val)'
    <2>1. base'[d].val = 0 \/ base'[d].val = loaded[d]
      <3>1. CASE pushes /\ HasData(loaded)
        BY <1>1, <3>1 DEF Arrays
      <3>2. CASE pushes /\ ~HasData(loaded)
        BY <1>1, <3>2 DEF NoArr
      <3>3. CASE ~pushes
        <4>1. loaded[d] # 0 \/ local[d] = 0
          BY <3>3 DEF LocalOnly
        <4>. HIDE DEF local, loaded, pushes
        <4>2. base'[d].val = mergeLocalOnly(loaded, local)[d]
          BY <1>1, <3>3 DEF Arrays
        <4>. QED  BY <4>1, <4>2 DEF mergeLocalOnly
      <3>. QED  BY <3>1, <3>2, <3>3
    <2>. QED  BY <1>1, <1>4, <2>1 DEF Confirmed
  <1>6. BaselineConfirmed'
    BY <1>5 DEF BaselineConfirmed
  <1>7. queued \in Snapshot \cup {Null}
    BY <1>4, MergedType, ArraysType DEF TypeOK
  <1>8. FlightConfirmed'
    BY <1>1, <1>6, <1>7, FlushKeepsConfirmed DEF ConfirmedInv
  <1>. QED  BY <1>3, <1>6, <1>8 DEF ConfirmedInv

LEMMA SessionConfirmed == TypeOK /\ ConfirmedInv /\ Session => ConfirmedInv'
  <1>. SUFFICES ASSUME TypeOK, ConfirmedInv, Session PROVE ConfirmedInv'
    OBVIOUS
  <1>1. CASE HandleSignedOut
    BY <1>1, AllKept DEF HandleSignedOut, SessionUnchanged, pushVars, localVars, serverVars
  <1>2. CASE HandleSignedIn \/ SessionProbed
    <2>1. /\ UNCHANGED <<base, flight, remote, confirmed>> /\ adopt'.phase # "tombs"
          /\ ConfirmedGrows
      BY <1>2 DEF HandleSignedIn, SessionProbed, SessionUnchanged, pushVars, localVars,
                  serverVars, ConfirmedGrows
    <2>. QED  BY <2>1, BaselineKept, FlightKept, AccountKept DEF ConfirmedInv
  <1>3. CASE AccountLoaded
    <2>1. UNCHANGED <<base, flight, remote, confirmed>> /\ ConfirmedGrows
      BY <1>3 DEF AccountLoaded, SessionUnchanged, pushVars, localVars, serverVars, ConfirmedGrows
    <2>2. \A d \in Domains : adopt'.loaded[d] = 0 \/ adopt'.loaded[d] = remote[d]
      BY <1>3 DEF AccountLoaded
    <2>3. AccountConfirmed'
      BY <2>1, <2>2 DEF ConfirmedInv, AccountConfirmed, Confirmed
    <2>. QED  BY <2>1, <2>3, BaselineKept, FlightKept DEF ConfirmedInv
  <1>4. CASE AccountLoadFails
    <2>1. /\ flush(pending, "failed") /\ UNCHANGED <<base, remote, confirmed>>
          /\ adopt'.phase # "tombs"
      BY <1>4 DEF AccountLoadFails, SessionUnchanged, localVars, serverVars, Idle
    <2>. QED  BY <2>1, FlushOnlyConfirmed
  <1>5. CASE MigrateOrAdopt
    <2>1. \E tombs \in Values : Adopt(tombs)
      BY <1>5, NoTombsType DEF MigrateOrAdopt, TypeOK
    <2>. QED  BY <1>5, <2>1, AdoptConfirmed DEF MigrateOrAdopt
  <1>. QED  BY <1>1, <1>2, <1>3, <1>4, <1>5 DEF Session

LEMMA DeletionConfirmed == TypeOK /\ ConfirmedInv /\ Deletion => ConfirmedInv'
  <1>. SUFFICES ASSUME TypeOK, ConfirmedInv, Deletion PROVE ConfirmedInv'
    OBVIOUS
  <1>1. UNCHANGED <<base, flight, adopt, confirmed>> /\ ConfirmedGrows
    BY DEF Deletion, DeleteAllDone, DeleteAllFails, DeletionUnchanged, pushVars, localVars, sessionVars, ConfirmedGrows
  <1>2. \A d \in Domains : remote'[d] = 0 \/ remote'[d] = remote[d]
    BY DEF Deletion, DeleteAllDone, DeleteAllFails, Emptied
  <1>3. AccountConfirmed'
    BY <1>1, <1>2 DEF ConfirmedInv, AccountConfirmed, Confirmed
  <1>. QED  BY <1>1, <1>3, BaselineKept, FlightKept DEF ConfirmedInv

LEMMA EnvironmentConfirmed == TypeOK /\ ConfirmedInv /\ Environment => ConfirmedInv'
  <1>. SUFFICES ASSUME TypeOK, ConfirmedInv, Environment PROVE ConfirmedInv'
    OBVIOUS
  <1>1. CASE GoOnline
    <2>1. (\E h : flush(pending, h)) /\ UNCHANGED <<base, remote, confirmed, adopt>>
      BY <1>1 DEF GoOnline, localVars, sessionVars, serverVars
    <2>. QED  BY <2>1, FlushOnlyConfirmed
  <1>2. CASE Reload
    <2>1. /\ base' = Null /\ flight' = Null /\ UNCHANGED <<remote, confirmed>>
          /\ adopt'.phase # "tombs" /\ ConfirmedGrows
      BY <1>2 DEF Reload, Idle, ConfirmedGrows
    <2>. QED
      BY <2>1, AccountKept DEF ConfirmedInv, BaselineConfirmed, FlightConfirmed
  <1>3. ASSUME NEW d \in Domains, OtherWrites(d) \/ OtherDeletes(d) PROVE ConfirmedInv'
    <2>1. UNCHANGED <<base, flight, adopt>>
      BY <1>3 DEF OtherWrites, OtherDeletes, OtherUnchanged, pushVars, localVars, sessionVars
    <2>2. ConfirmedGrows
      BY <1>3 DEF OtherWrites, OtherDeletes, ConfirmedGrows, TypeOK
    <2>3. \A e \in Domains : Confirmed(e, remote[e])'
      BY <1>3, <2>2, Monotone
      DEF OtherWrites, OtherDeletes, ConfirmedInv, AccountConfirmed, Confirmed, TypeOK, Values
    <2>4. AccountConfirmed'
      BY <2>1, <2>2, <2>3, Monotone DEF ConfirmedInv, AccountConfirmed, Confirmed
    <2>. QED  BY <2>1, <2>2, <2>4, BaselineKept, FlightKept DEF ConfirmedInv
  <1>4. CASE GoOffline \/ SignOut \/ SignIn \/ Refresh \/ ServerUpgrades
    <2>1. UNCHANGED <<base, flight, remote, adopt, confirmed>>
      BY <1>4 DEF GoOffline, SignOut, SignIn, Refresh, SessionEvent, ServerUpgrades,
                  pushVars, localVars, sessionVars, serverVars
    <2>. QED  BY <2>1, AllKept
  <1>. QED  BY <1>1, <1>2, <1>3, <1>4 DEF Environment

LEMMA NextConfirmed == TypeOK /\ ConfirmedInv /\ [Next]_vars => ConfirmedInv'
  <1>. SUFFICES ASSUME TypeOK, ConfirmedInv, [Next]_vars PROVE ConfirmedInv'
    OBVIOUS
  <1>1. CASE Next
    BY <1>1, UserConfirmed, TimersConfirmed, PushConfirmed, LandingConfirmed, ProbesConfirmed,
       SessionConfirmed, DeletionConfirmed, EnvironmentConfirmed DEF Next
  <1>2. CASE UNCHANGED vars
    BY <1>2, AllKept DEF vars, pushVars, localVars, sessionVars, serverVars
  <1>. QED  BY <1>1, <1>2

LEMMA AlwaysConfirmed == Spec => [](TypeOK /\ ConfirmedInv)
  <1>. QED  BY InitType, NextType, InitConfirmed, NextConfirmed, PTL DEF Spec

\* A domain reads as clean only against something that arrived.
THEOREM BaselineIsConfirmed == Spec => []BaselineConfirmed
  <1>1. ConfirmedInv => BaselineConfirmed
    BY DEF ConfirmedInv
  <1>. QED  BY <1>1, AlwaysConfirmed, PTL

\* The flush that reports Synced carried nothing without an answer.
THEOREM SyncedFlushCorrect == Spec => SyncedFlushIsConfirmed
  <1>1. TypeOK /\ ConfirmedInv /\ [Next]_vars
        => [flight # Null /\ flight' = Null /\ health' = "synced"
            => \A d \in Domains : Confirmed(d, flight.snap[d].val)]_vars
    <2>. SUFFICES ASSUME TypeOK, ConfirmedInv, Next,
                         flight # Null, flight' = Null, health' = "synced"
                  PROVE  \A d \in Domains : Confirmed(d, flight.snap[d].val)
      OBVIOUS
    <2>1. ASSUME NEW p, NEW h, flush(p, h) PROVE FALSE
      BY <2>1 DEF flush, flushReturns
    <2>2. ASSUME NEW d \in Domains, Push(d) PROVE FALSE
      <3>1. flight \in Flights /\ \E ok, schema \in BOOLEAN : Ends(d, ok, schema)
        BY <2>2 DEF Push, PushNothing, PushSucceeds, PushRefused, PushFails, PushAmbiguous, TypeOK
      <3>. QED  BY <3>1, EndsType, NullAssumption
    <2>3. ASSUME UNCHANGED flight PROVE FALSE
      BY <2>3
    <2>4. ASSUME NEW tombs, Adopt(tombs) PROVE FALSE
      BY <2>1, <2>4 DEF Adopt
    <2>5. ~User /\ ~Timers /\ ~Probes /\ ~Deletion
      BY <2>1, <2>3
      DEF User, Edit, Remove, Change, saveState, RetryLocalSave, RetrySync, ResetStore,
          Timers, TimerFires, OrphanFires, RetryFires, Probes, RetrySyncProbed, BackgroundProbed,
          Deletion, DeleteAllDone, DeleteAllFails, DeletionUnchanged, pushVars
    <2>6. ~Session
      BY <2>1, <2>3, <2>4
      DEF Session, HandleSignedOut, HandleSignedIn, SessionProbed, AccountLoaded,
          AccountLoadFails, MigrateOrAdopt, pushVars
    <2>7. ~Environment
      BY <2>1, <2>3
      DEF Environment, GoOffline, GoOnline, SignOut, SignIn, Refresh, SessionEvent, Reload,
          ServerUpgrades, OtherWrites, OtherDeletes, OtherUnchanged, pushVars
    <2>8. FlightSynced
      BY <2>2, <2>5, <2>6, <2>7
      DEF Next, Landing, FlightHeld, FlightPartial, scheduleAutoRetry
    <2>. QED
      BY <2>8 DEF FlightSynced, FlightLands, ConfirmedInv, FlightConfirmed
  <1>. QED  BY <1>1, AlwaysConfirmed, PTL DEF Spec, SyncedFlushIsConfirmed

-----------------------------------------------------------------------------
(* What was saved last is what memory holds, and the disk holds it too     *)
(* unless the alarm is shown.                                              *)
SavedInv == /\ lastSaved = Null \/ lastSaved = store
            /\ DiskTrailsOnlyWithAlarm

LEMMA WriteLocalSaved ==
  ASSUME writeLocal(store')
  PROVE  DiskTrailsOnlyWithAlarm'
  BY DEF writeLocal, DiskTrailsOnlyWithAlarm

LEMMA SavedKept ==
  ASSUME SavedInv, UNCHANGED localVars
  PROVE  SavedInv'
  BY DEF SavedInv, DiskTrailsOnlyWithAlarm, localVars

LEMMA NextSaved == SavedInv /\ [Next]_vars => SavedInv'
  <1>. SUFFICES ASSUME SavedInv, [Next]_vars PROVE SavedInv'
    OBVIOUS
  <1>1. ASSUME NEW d \in Domains, NEW v, Change(d, v) PROVE SavedInv'
    <2>1. \E s : store' = s /\ lastSaved' = s /\ writeLocal(s)
      BY <1>1 DEF Change, saveState
    <2>2. lastSaved' = store' /\ writeLocal(store')
      BY <2>1
    <2>. QED  BY <2>2, WriteLocalSaved DEF SavedInv
  <1>2. CASE RetryLocalSave
    <2>1. lastSaved' = lastSaved /\ store' = store /\ lastSaved = store /\ writeLocal(lastSaved)
      BY <1>2 DEF RetryLocalSave, SavedInv
    <2>2. writeLocal(store')
      BY <2>1
    <2>. QED  BY <2>1, <2>2, WriteLocalSaved DEF SavedInv
  <1>3. CASE ResetStore
    BY <1>3 DEF ResetStore, SavedInv, DiskTrailsOnlyWithAlarm
  <1>4. CASE User
    BY <1>1, <1>2, <1>3, <1>4, SavedKept DEF User, Edit, Remove, RetrySync
  <1>5. CASE Timers \/ Probes
    BY <1>5, SavedKept
    DEF Timers, TimerFires, OrphanFires, RetryFires, WakeUnchanged,
        Probes, RetrySyncProbed, BackgroundProbed
  <1>6. ASSUME NEW d \in Domains, Push(d) PROVE SavedInv'
    BY <1>6, SavedKept
    DEF Push, PushNothing, PushSucceeds, PushRefused, PushFails, PushAmbiguous, PushUnchanged
  <1>7. CASE Landing
    BY <1>7
    DEF Landing, FlightHeld, FlightSynced, FlightPartial, FlightLands, SavedInv,
        DiskTrailsOnlyWithAlarm
  <1>8. CASE MigrateOrAdopt
    <2>1. ASSUME NEW tombs, Adopt(tombs) PROVE lastSaved' = store'
      BY <2>1 DEF Adopt
    <2>. QED
      BY <1>8, <2>1, WriteLocalSaved DEF MigrateOrAdopt, SavedInv, DiskTrailsOnlyWithAlarm
  <1>9. CASE Session /\ ~MigrateOrAdopt
    BY <1>9, SavedKept
    DEF Session, HandleSignedOut, HandleSignedIn, SessionProbed, AccountLoaded, AccountLoadFails,
        SessionUnchanged
  <1>10. CASE Deletion
    BY <1>10, SavedKept DEF Deletion, DeleteAllDone, DeleteAllFails, DeletionUnchanged
  <1>11. CASE Reload
    BY <1>11 DEF Reload, SavedInv, DiskTrailsOnlyWithAlarm
  <1>12. CASE Environment /\ ~Reload
    BY <1>12, SavedKept
    DEF Environment, GoOffline, GoOnline, SignOut, SignIn, Refresh, SessionEvent, ServerUpgrades,
        OtherWrites, OtherDeletes, OtherUnchanged
  <1>13. CASE UNCHANGED vars
    BY <1>13, SavedKept DEF vars
  <1>. QED
    BY <1>4, <1>5, <1>6, <1>7, <1>8, <1>9, <1>10, <1>11, <1>12, <1>13 DEF Next

LEMMA AlwaysSaved == Spec => []SavedInv
  <1>1. Init => SavedInv
    BY DEF Init, SavedInv, DiskTrailsOnlyWithAlarm
  <1>. QED  BY <1>1, NextSaved, PTL DEF Spec

\* Memory never runs ahead of this device's disk without the alarm.
THEOREM DiskAlarmCorrect == Spec => []DiskTrailsOnlyWithAlarm
  <1>1. SavedInv => DiskTrailsOnlyWithAlarm
    BY DEF SavedInv
  <1>. QED  BY <1>1, AlwaysSaved, PTL

\* Work the server never saw is never hidden from the sign-out warning.
THEOREM UnsentVisible == Spec => []UnsentIsVisible
  <1>1. TypeOK /\ ConfirmedInv /\ SavedInv => UnsentIsVisible
    <2>. SUFFICES ASSUME TypeOK, ConfirmedInv, SavedInv, remoteOn, lastSaved # Null,
                         Dirty(lastSaved, base) = {}
                  PROVE  Unconfirmed = {}
      BY DEF UnsentIsVisible, hasUnsyncedChanges
    <2>1. lastSaved = store
      BY DEF SavedInv
    <2>2. ASSUME NEW d \in Domains PROVE Confirmed(d, store[d].val)
      <3>1. base # Null /\ store[d] = base[d]
        BY <2>1 DEF Dirty
      <3>. QED  BY <3>1 DEF ConfirmedInv, BaselineConfirmed
    <2>. QED  BY <2>2 DEF Unconfirmed
  <1>. QED  BY <1>1, AlwaysConfirmed, AlwaysSaved, PTL

-----------------------------------------------------------------------------
(* A queued snapshot always has a wake-up or an alarm, as long as nothing  *)
(* is wiped: the end of a deleteAll is the one step that can take the      *)
(* alarm away (the run WipeShowsSynced).                                   *)
StrandedInv == NeverStranded /\ ~deleting

\* A call of flush that returns with a snapshot still queued was not possible now.
LEMMA FlushWakes ==
  ASSUME TypeOK, NEW p, NEW h, flush(p, h)
  PROVE  NeverStranded'
  <1>1. CASE ~flushReturns(p) /\ online'
    <2>1. flight' = NewFlight(p)
      BY <1>1 DEF flush
    <2>2. pending' = Null
      BY <1>1 DEF flush
    <2>. QED  BY <2>2 DEF NeverStranded
  <1>2. CASE ~flushReturns(p) /\ ~online'
    BY <1>2 DEF NeverStranded
  <1>3. CASE flushReturns(p)
    <2>1. flight' = flight /\ pending' = p
      BY <1>3 DEF flush
    <2>. QED  BY <1>3, <2>1 DEF flushReturns, NeverStranded
  <1>. QED  BY <1>1, <1>2, <1>3

\* Nothing that NeverStranded speaks of changes.
LEMMA StrandedKept ==
  ASSUME StrandedInv,
         UNCHANGED <<pending, remoteOn, online, settled, flight, manual, timer, orphans,
                     retryTimer, health, deleting>>
  PROVE  StrandedInv'
  BY DEF StrandedInv, NeverStranded

LEMMA PushStranded ==
  ASSUME TypeOK, NEW d \in Domains, Push(d), StrandedInv
  PROVE  StrandedInv'
  <1>1. flight' \in Flights /\ UNCHANGED deleting
    <2>1. flight \in Flights /\ \E ok, schema \in BOOLEAN : Ends(d, ok, schema)
      BY DEF Push, PushNothing, PushSucceeds, PushRefused, PushFails, PushAmbiguous, TypeOK
    <2>. QED
      BY <2>1, EndsType
      DEF Push, PushNothing, PushSucceeds, PushRefused, PushFails, PushAmbiguous, PushUnchanged
  <1>. QED  BY <1>1, NullAssumption DEF StrandedInv, NeverStranded

LEMMA LandingStranded ==
  ASSUME TypeOK, Landing, StrandedInv
  PROVE  StrandedInv'
  <1>1. UNCHANGED deleting
    BY DEF Landing, FlightHeld, FlightSynced, FlightPartial, FlightLands, serverVars
  <1>2. CASE FlightHeld
    BY <1>1, <1>2 DEF FlightHeld, StrandedInv, NeverStranded
  <1>3. CASE FlightSynced
    BY <1>1, <1>3 DEF FlightSynced, StrandedInv, NeverStranded
  <1>4. CASE FlightPartial
    BY <1>1, <1>4 DEF FlightPartial, scheduleAutoRetry, StrandedInv, NeverStranded
  <1>. QED  BY <1>2, <1>3, <1>4 DEF Landing

LEMMA UserStranded ==
  ASSUME TypeOK, User, StrandedInv, "wipe" \notin Env
  PROVE  StrandedInv'
  <1>1. ASSUME NEW s, scheduleRemotePush(s),
               UNCHANGED <<remoteOn, online, settled, flight, manual, orphans, retryTimer, deleting>>
        PROVE  StrandedInv'
    BY <1>1 DEF scheduleRemotePush, StrandedInv, NeverStranded
  <1>2. ASSUME NEW d \in Domains, NEW v, Change(d, v) PROVE StrandedInv'
    <2>1. \E s : scheduleRemotePush(s)
      BY <1>2 DEF Change, saveState
    <2>. QED
      BY <1>1, <1>2, <2>1 DEF Change, sessionVars, probeVars, serverVars
  <1>3. CASE RetryLocalSave
    BY <1>3, StrandedKept DEF RetryLocalSave, pushVars, sessionVars, probeVars, serverVars
  <1>4. CASE RetrySync
    <2>1. manual' = TRUE /\ UNCHANGED deleting
      BY <1>4 DEF RetrySync, serverVars
    <2>. QED  BY <2>1 DEF StrandedInv, NeverStranded
  <1>. QED  BY <1>2, <1>3, <1>4 DEF User, Edit, Remove, ResetStore

LEMMA SessionStranded ==
  ASSUME TypeOK, Session, StrandedInv
  PROVE  StrandedInv'
  <1>1. UNCHANGED deleting
    BY DEF Session, HandleSignedOut, HandleSignedIn, SessionProbed, AccountLoaded, AccountLoadFails,
           MigrateOrAdopt, Adopt, SessionUnchanged, serverVars
  <1>2. CASE HandleSignedOut \/ HandleSignedIn
    BY <1>1, <1>2 DEF HandleSignedOut, HandleSignedIn, StrandedInv, NeverStranded
  <1>3. CASE SessionProbed
    BY <1>1, <1>3, StrandedKept
    DEF SessionProbed, SessionUnchanged, pushVars
  <1>4. CASE AccountLoaded
    BY <1>1, <1>4, StrandedKept DEF AccountLoaded, SessionUnchanged, pushVars, probeVars
  <1>5. CASE AccountLoadFails
    BY <1>1, <1>5, FlushWakes DEF AccountLoadFails, StrandedInv
  <1>6. CASE MigrateOrAdopt
    <2>1. ASSUME NEW tombs, Adopt(tombs) PROVE NeverStranded'
      BY <2>1, FlushWakes DEF Adopt
    <2>. QED  BY <1>1, <1>6, <2>1 DEF MigrateOrAdopt, StrandedInv
  <1>. QED  BY <1>2, <1>3, <1>4, <1>5, <1>6 DEF Session

LEMMA EnvironmentStranded ==
  ASSUME TypeOK, Environment, StrandedInv
  PROVE  StrandedInv'
  <1>1. CASE GoOffline
    BY <1>1 DEF GoOffline, StrandedInv, NeverStranded, serverVars
  <1>2. CASE GoOnline
    BY <1>2, FlushWakes DEF GoOnline, StrandedInv, serverVars
  <1>3. CASE Reload
    BY <1>3 DEF Reload, StrandedInv, NeverStranded
  <1>4. CASE Environment /\ ~GoOffline /\ ~GoOnline /\ ~Reload
    BY <1>4, StrandedKept
    DEF Environment, SignOut, SignIn, Refresh, SessionEvent, ServerUpgrades,
        OtherWrites, OtherDeletes, OtherUnchanged, pushVars, sessionVars, probeVars, serverVars
  <1>. QED  BY <1>1, <1>2, <1>3, <1>4

\* While nothing is wiped, a snapshot left in the queue is never left in silence.
THEOREM NeverStrandedUnlessWiped ==
  ASSUME "wipe" \notin Env
  PROVE  Spec => []NeverStranded
  <1>1. Init => StrandedInv
    BY DEF Init, StrandedInv, NeverStranded
  <1>2. TypeOK /\ StrandedInv /\ [Next]_vars => StrandedInv'
    <2>. SUFFICES ASSUME TypeOK, StrandedInv, [Next]_vars PROVE StrandedInv'
      OBVIOUS
    <2>1. CASE Timers
      BY <2>1, FlushWakes
      DEF Timers, TimerFires, OrphanFires, RetryFires, WakeUnchanged, StrandedInv, serverVars
    <2>2. CASE RetrySyncProbed
      BY <2>2, FlushWakes DEF RetrySyncProbed, StrandedInv, serverVars
    <2>3. CASE BackgroundProbed
      BY <2>3, StrandedKept
      DEF BackgroundProbed, pushVars, sessionVars, serverVars
    <2>4. CASE Deletion
      BY <2>4 DEF Deletion, DeleteAllDone, DeleteAllFails, DeletionUnchanged, StrandedInv
    <2>5. CASE UNCHANGED vars
      BY <2>5, StrandedKept DEF vars, pushVars, sessionVars, probeVars, serverVars
    <2>. QED
      BY <2>1, <2>2, <2>3, <2>4, <2>5, UserStranded, PushStranded, LandingStranded,
         SessionStranded, EnvironmentStranded DEF Next, Probes
  <1>3. StrandedInv => NeverStranded
    BY DEF StrandedInv
  <1>. QED  BY InitType, NextType, <1>1, <1>2, <1>3, PTL DEF Spec

-----------------------------------------------------------------------------
(* What a step may do to the queue, the flush and the account.             *)

\* The session event being handled moves on by these steps only.
LEMMA AdoptMoves ==
  ASSUME [Next]_vars
  PROVE  \/ UNCHANGED adopt
         \/ Reload \/ HandleSignedIn \/ SessionProbed \/ AccountLoaded
         \/ AccountLoadFails \/ MigrateOrAdopt
  <1>1. CASE User
    BY <1>1
    DEF User, Edit, Remove, Change, RetryLocalSave, RetrySync, ResetStore, sessionVars
  <1>2. CASE Timers \/ Probes
    BY <1>2
    DEF Timers, TimerFires, OrphanFires, RetryFires, WakeUnchanged,
        Probes, RetrySyncProbed, BackgroundProbed, sessionVars
  <1>3. ASSUME NEW d \in Domains, Push(d) PROVE UNCHANGED adopt
    BY <1>3
    DEF Push, PushNothing, PushSucceeds, PushRefused, PushFails, PushAmbiguous, PushUnchanged,
        sessionVars
  <1>4. CASE Landing
    BY <1>4 DEF Landing, FlightHeld, FlightSynced, FlightPartial, FlightLands, sessionVars
  <1>5. CASE Session
    BY <1>5 DEF Session, HandleSignedOut
  <1>6. CASE Deletion
    BY <1>6 DEF Deletion, DeleteAllDone, DeleteAllFails, DeletionUnchanged, sessionVars
  <1>7. CASE Environment
    BY <1>7
    DEF Environment, GoOffline, GoOnline, SignOut, SignIn, Refresh, SessionEvent, ServerUpgrades,
        OtherWrites, OtherDeletes, OtherUnchanged, sessionVars
  <1>8. CASE UNCHANGED vars
    BY <1>8 DEF vars, sessionVars
  <1>. QED  BY <1>1, <1>2, <1>3, <1>4, <1>5, <1>6, <1>7, <1>8 DEF Next

\* Installing the account keeps a record that it does not have and did not delete.
LEMMA AdoptKeeps ==
  ASSUME TypeOK, disk = store, adopt.phase = "tombs",
         NEW tombs \in {tomb, NoTombs}, Adopt(tombs),
         NEW d \in Domains, store[d].val > tomb[d], adopt.loaded[d] = 0
  PROVE  store'[d].val = store[d].val
  <1>. DEFINE local == Suppressed(ValuesOf(disk), tombs)
  <1>1. store[d].val \in Nat /\ tomb[d] \in Nat /\ tombs[d] \in Nat /\ tombs[d] <= tomb[d]
    BY DEF TypeOK, Snapshot, Arr, Values, NoTombs
  <1>2. local[d] = store[d].val
    BY <1>1 DEF Suppressed, ValuesOf
  <1>3. store' = Arrays(clock + 1, mergeLocalOnly(adopt.loaded, local))
    BY DEF Adopt
  <1>4. store'[d].val = mergeLocalOnly(adopt.loaded, local)[d]
    BY <1>3 DEF Arrays
  <1>. QED  BY <1>2, <1>4 DEF mergeLocalOnly

\* A record that only this tab has survives every adoption, as long as this device's
\* disk could be written: the merge reads it back from there.
THEOREM AdoptionKeeps == Spec => AdoptionKeepsLocalOnly
  <1>1. ASSUME TypeOK, SavedInv, [Next]_vars,
               adopt.phase = "tombs", adopt'.phase = "idle", ~localError,
               NEW d \in Domains, store[d].val > tomb[d], adopt.loaded[d] = 0
        PROVE  store'[d].val = store[d].val
    <2>1. disk = store
      BY <1>1 DEF SavedInv, DiskTrailsOnlyWithAlarm
    <2>2. CASE Reload
      BY <2>1, <2>2 DEF Reload
    <2>3. CASE MigrateOrAdopt
      <3>1. PICK tombs \in {tomb, NoTombs} : Adopt(tombs)
        BY <2>3 DEF MigrateOrAdopt
      <3>. QED  BY <1>1, <2>1, <3>1, AdoptKeeps
    <2>4. ~(UNCHANGED adopt)
      BY <1>1
    <2>5. ~(HandleSignedIn \/ SessionProbed \/ AccountLoaded \/ AccountLoadFails)
      BY <1>1 DEF HandleSignedIn, SessionProbed, AccountLoaded, AccountLoadFails, Idle
    <2>. QED  BY <1>1, <2>2, <2>3, <2>4, <2>5, AdoptMoves
  <1>2. TypeOK /\ SavedInv /\ [Next]_vars
          => [adopt.phase = "tombs" /\ adopt'.phase = "idle" /\ ~localError
              => \A d \in Domains : store[d].val > tomb[d] /\ adopt.loaded[d] = 0
                                    => store'[d].val = store[d].val]_vars
    BY <1>1
  <1>. QED  BY <1>2, TypeCorrect, AlwaysSaved, PTL DEF Spec, AdoptionKeepsLocalOnly

-----------------------------------------------------------------------------
(* The queue.  While sessions change only in quiet moments, what is queued *)
(* is what memory shows, and so is what a flush carries unless newer work  *)
(* is queued behind it; nothing is queued or runs without an account, nor  *)
(* while the account is being installed.                                   *)
QueueInv ==
  /\ ~remoteOn => pending = Null /\ flight = Null
  /\ adopt # Idle => ~settled /\ remoteOn /\ pending = Null /\ flight = Null
  /\ pending # Null => pending = store
  /\ flight # Null /\ pending = Null => flight.snap = store

\* A call of flush returns, or turns what is queued into a running flush.
LEMMA FlushOutcome ==
  ASSUME NEW p, NEW h, flush(p, h)
  PROVE  \/ pending' = p /\ UNCHANGED flight
         \/ /\ p # Null /\ pending' = Null /\ flight = Null /\ flight' = NewFlight(p)
            /\ remoteOn' /\ settled'
  BY DEF flush, flushReturns

LEMMA QueueKept ==
  ASSUME QueueInv, UNCHANGED <<remoteOn, adopt, settled, store, pending, flight>>
  PROVE  QueueInv'
  BY DEF QueueInv

\* The steps that only call flush with what is queued.
LEMMA FlushQueue ==
  ASSUME TypeOK, QueueInv, NEW h, flush(pending, h), UNCHANGED <<remoteOn, adopt, settled, store>>
  PROVE  QueueInv'
  <1>1. CASE UNCHANGED <<pending, flight>>
    BY <1>1, QueueKept
  <1>2. CASE /\ pending # Null /\ pending' = Null /\ flight = Null /\ flight' = NewFlight(pending)
             /\ remoteOn' /\ settled'
    BY <1>2 DEF QueueInv, NewFlight
  <1>. QED  BY <1>1, <1>2, FlushOutcome

\* The steps that queue the new contents of memory, and those that stay off the queue.
LEMMA SaveQueue ==
  ASSUME QueueInv, CalmSessions, store' \in Snapshot, scheduleRemotePush(store'),
         UNCHANGED <<remoteOn, adopt, settled, flight>>
  PROVE  QueueInv'
  <1>1. store' # Null
    BY NullAssumption
  <1>2. CASE adopt = Idle
    BY <1>1, <1>2 DEF QueueInv, scheduleRemotePush
  <1>3. adopt = Idle
    <2>. SUFFICES ASSUME adopt # Idle PROVE FALSE
      OBVIOUS
    <2>1. pending' = pending /\ pending = Null /\ remoteOn
      BY DEF CalmSessions, QueueInv
    <2>. QED  BY <1>1, <2>1 DEF scheduleRemotePush
  <1>. QED  BY <1>2, <1>3

LEMMA UserQueue ==
  ASSUME TypeOK, SavedInv, QueueInv, TypeOK', User, CalmSessions
  PROVE  QueueInv'
  <1>1. ASSUME NEW d \in Domains, NEW v, Change(d, v) PROVE QueueInv'
    <2>1. scheduleRemotePush(store')
      BY <1>1 DEF Change, saveState
    <2>. QED  BY <1>1, <2>1, SaveQueue DEF Change, sessionVars, TypeOK
  <1>2. CASE RetryLocalSave
    BY <1>2, QueueKept DEF RetryLocalSave, pushVars, sessionVars
  <1>3. CASE RetrySync
    <2>1. pending' = store /\ pending' # Null /\ remoteOn
          /\ UNCHANGED <<remoteOn, adopt, settled, store, flight>>
      BY <1>3 DEF RetrySync, SavedInv, localVars, sessionVars
    <2>2. adopt = Idle
      BY <2>1 DEF CalmSessions, QueueInv
    <2>. QED  BY <2>1, <2>2 DEF QueueInv
  <1>4. CASE ResetStore
    <2>1. scheduleRemotePush(store')
      BY <1>4 DEF ResetStore
    <2>. QED  BY <1>4, <2>1, SaveQueue DEF ResetStore, sessionVars, TypeOK
  <1>. QED  BY <1>1, <1>2, <1>3, <1>4 DEF User, Edit, Remove

LEMMA PushQueue ==
  ASSUME TypeOK, QueueInv, NEW d \in Domains, Push(d)
  PROVE  QueueInv'
  <1>1. /\ flight \in Flights
        /\ UNCHANGED <<remoteOn, adopt, settled, store, pending>>
    BY DEF Push, PushNothing, PushSucceeds, PushRefused, PushFails, PushAmbiguous, PushUnchanged,
           localVars, sessionVars, TypeOK
  <1>2. flight # Null /\ flight'.snap = flight.snap
    BY <1>1, NullAssumption
    DEF Push, PushNothing, PushSucceeds, PushRefused, PushFails, PushAmbiguous, Ends, Flights
  <1>. QED  BY <1>1, <1>2 DEF QueueInv

LEMMA LandingQueue ==
  ASSUME TypeOK, QueueInv, Landing
  PROVE  QueueInv'
  <1>1. /\ flight # Null /\ flight' = Null /\ pending' \in {pending, Requeued}
        /\ UNCHANGED <<remoteOn, adopt, settled, store>>
    BY DEF Landing, FlightHeld, FlightSynced, FlightPartial, FlightLands, sessionVars
  <1>. QED  BY <1>1 DEF QueueInv, Requeued

LEMMA AdoptQueue ==
  ASSUME TypeOK, QueueInv, adopt.phase = "tombs", NEW tombs, Adopt(tombs)
  PROVE  QueueInv'
  <1>1. remoteOn /\ pending = Null /\ flight = Null
    BY DEF QueueInv, Idle
  <1>2. /\ adopt' = Idle /\ UNCHANGED remoteOn
        /\ \E h : \E q \in {store', pending} : flush(q, h)
    <2>. DEFINE local  == Suppressed(ValuesOf(disk), tombs)
                state  == Arrays(clock + 1, mergeLocalOnly(adopt.loaded, local))
                pushes == LocalOnly(adopt.loaded, local) # {}
                queued == IF pushes THEN state ELSE pending
                shown  == CASE pushes /\ online  -> "syncing"
                            [] pushes /\ ~online -> "offline"
                            [] OTHER -> IF pending = Null THEN "synced" ELSE health
    <2>1. adopt' = Idle /\ UNCHANGED remoteOn /\ store' = state /\ flush(queued, shown)
      BY DEF Adopt
    <2>2. queued \in {state, pending}
      OBVIOUS
    <2>. HIDE DEF state, queued, shown, pushes
    <2>. QED  BY <2>1, <2>2
  <1>3. PICK h : \E q \in {store', pending} : flush(q, h)
    BY <1>2
  <1>4. PICK q \in {store', pending} : flush(q, h)
    BY <1>3
  <1>5. CASE pending' = q /\ UNCHANGED flight
    BY <1>1, <1>2, <1>5 DEF QueueInv
  <1>6. CASE q # Null /\ pending' = Null /\ flight' = NewFlight(q)
    BY <1>1, <1>2, <1>6 DEF QueueInv, NewFlight
  <1>. QED  BY <1>4, <1>5, <1>6, FlushOutcome

LEMMA SessionQueue ==
  ASSUME TypeOK, QueueInv, Session, CalmSessions
  PROVE  QueueInv'
  <1>1. CASE HandleSignedOut
    <2>1. adopt = Idle /\ adopt' = Idle /\ ~remoteOn'
          /\ UNCHANGED <<settled, store, pending, flight>>
      BY <1>1 DEF HandleSignedOut, SessionUnchanged, pushVars, localVars
    <2>2. pending = Null /\ flight = Null
      BY <2>1 DEF CalmSessions, QueueInv
    <2>. QED  BY <2>1, <2>2 DEF QueueInv
  <1>2. CASE HandleSignedIn
    <2>1. adopt = Idle /\ adopt' # Idle /\ remoteOn' /\ ~settled'
          /\ UNCHANGED <<store, pending, flight>>
      BY <1>2 DEF HandleSignedIn, SessionUnchanged, pushVars, localVars, Idle
    <2>. QED  BY <2>1 DEF CalmSessions, QueueInv
  <1>3. CASE SessionProbed \/ AccountLoaded
    <2>1. adopt # Idle /\ UNCHANGED <<remoteOn, settled, store, pending, flight>>
      BY <1>3 DEF SessionProbed, AccountLoaded, SessionUnchanged, pushVars, localVars, Idle
    <2>. QED  BY <2>1 DEF QueueInv
  <1>4. ~AccountLoadFails
    BY DEF AccountLoadFails, CalmSessions, Idle
  <1>5. CASE MigrateOrAdopt
    BY <1>5, AdoptQueue DEF MigrateOrAdopt
  <1>. QED  BY <1>1, <1>2, <1>3, <1>4, <1>5 DEF Session

LEMMA NextQueue ==
  ASSUME TypeOK, SavedInv, QueueInv, [Next /\ CalmSessions]_vars
  PROVE  QueueInv'
  <1>1. TypeOK'
    BY NextType
  <1>2. CASE Timers
    BY <1>2, FlushQueue
    DEF Timers, TimerFires, OrphanFires, RetryFires, WakeUnchanged, localVars, sessionVars
  <1>3. CASE Probes
    <2>1. CASE RetrySyncProbed
      BY <2>1, FlushQueue DEF RetrySyncProbed, localVars, sessionVars
    <2>2. CASE BackgroundProbed
      BY <2>2, QueueKept DEF BackgroundProbed, pushVars, localVars, sessionVars
    <2>. QED  BY <1>3, <2>1, <2>2 DEF Probes
  <1>4. CASE Deletion
    BY <1>4, QueueKept
    DEF Deletion, DeleteAllDone, DeleteAllFails, DeletionUnchanged, pushVars, localVars, sessionVars
  <1>5. CASE Environment
    <2>1. CASE GoOnline
      BY <2>1, FlushQueue DEF GoOnline, localVars, sessionVars
    <2>2. CASE Reload
      BY <2>2 DEF Reload, QueueInv
    <2>3. CASE ~GoOnline /\ ~Reload
      BY <1>5, <2>3, QueueKept
      DEF Environment, GoOffline, SignOut, SignIn, Refresh, SessionEvent, ServerUpgrades,
          OtherWrites, OtherDeletes, OtherUnchanged, pushVars, localVars, sessionVars
    <2>. QED  BY <2>1, <2>2, <2>3
  <1>6. CASE UNCHANGED vars
    BY <1>6, QueueKept DEF vars, pushVars, localVars, sessionVars
  <1>. QED
    BY <1>1, <1>2, <1>3, <1>4, <1>5, <1>6, UserQueue, PushQueue, LandingQueue, SessionQueue DEF Next

LEMMA CalmQueue == CalmSpec => [](TypeOK /\ SavedInv /\ QueueInv)
  <1>1. Init => TypeOK /\ SavedInv /\ QueueInv
    BY InitType DEF Init, SavedInv, DiskTrailsOnlyWithAlarm, QueueInv
  <1>2. TypeOK /\ SavedInv /\ QueueInv /\ [Next /\ CalmSessions]_vars
          => (TypeOK /\ SavedInv /\ QueueInv)'
    BY NextType, NextSaved, NextQueue
  <1>. QED  BY <1>1, <1>2, PTL DEF CalmSpec

\* The steps that change the running flush or end it.
LEMMA FlightMoves ==
  ASSUME [Next]_vars, flight # Null, flight' # flight
  PROVE  (\E d \in Domains : Push(d)) \/ UNCHANGED remote
  <1>1. CASE Timers \/ Probes \/ Landing \/ User \/ Session
    BY <1>1
    DEF Timers, TimerFires, OrphanFires, RetryFires, WakeUnchanged,
        Probes, RetrySyncProbed, BackgroundProbed,
        Landing, FlightHeld, FlightSynced, FlightPartial, FlightLands,
        User, Edit, Remove, Change, RetryLocalSave, RetrySync, ResetStore,
        Session, HandleSignedOut, HandleSignedIn, SessionProbed, AccountLoaded, AccountLoadFails,
        MigrateOrAdopt, Adopt, SessionUnchanged, serverVars
  <1>2. CASE Deletion
    BY <1>2 DEF Deletion, DeleteAllDone, DeleteAllFails, DeletionUnchanged, pushVars
  <1>3. CASE Environment
    BY <1>3
    DEF Environment, GoOffline, GoOnline, SignOut, SignIn, Refresh, SessionEvent, Reload,
        ServerUpgrades, OtherWrites, OtherDeletes, OtherUnchanged, pushVars, serverVars
  <1>4. CASE UNCHANGED vars
    BY <1>4 DEF vars, serverVars
  <1>. QED  BY <1>1, <1>2, <1>3, <1>4 DEF Next

\* A push erases a row only when the flush carries the record as absent.
LEMMA PushErases ==
  ASSUME TypeOK, NEW e \in Domains, Push(e), NEW d \in Domains, remote[d] # 0, remote'[d] = 0
  PROVE  flight.snap[d].val = 0
  <1>1. ASSUME Written(e) PROVE remote'[d] # 0
    BY <1>1 DEF Written, Upserts, TypeOK, Values
  <1>2. ASSUME NEW marked, Erased(e, marked) PROVE flight.snap[d].val = 0
    BY <1>2 DEF Erased, Deletes, cur, TypeOK, Values
  <1>. QED
    BY <1>1, <1>2 DEF Push, PushNothing, PushSucceeds, PushRefused, PushFails, PushAmbiguous

\* While sessions change only in quiet moments, no push takes from the account a record
\* that this tab shows, unless newer work that will bring it back is queued.
THEOREM PushKeepsWhatIsShown == CalmSpec => PushErasesNothing
  <1>1. ASSUME TypeOK, QueueInv, [Next /\ CalmSessions]_vars, flight # Null, flight' # flight,
               NEW d \in Domains, remote[d] # 0, remote'[d] = 0
        PROVE  store[d].val = 0 \/ pending # Null
    <2>1. PICK e \in Domains : Push(e)
      BY <1>1, FlightMoves
    <2>2. flight.snap[d].val = 0
      BY <1>1, <2>1, PushErases
    <2>. QED  BY <1>1, <2>2 DEF QueueInv
  <1>2. TypeOK /\ QueueInv /\ [Next /\ CalmSessions]_vars
          => [flight # Null /\ flight' # flight
              => \A d \in Domains :
                   remote[d] # 0 /\ remote'[d] = 0 => store[d].val = 0 \/ pending # Null]_vars
    BY <1>1
  <1>. QED  BY <1>2, CalmQueue, PTL DEF CalmSpec, PushErasesNothing

-----------------------------------------------------------------------------
(* Agreement.  That the tab and the account hold the same records when     *)
(* everything is at rest says nothing about the steps that led there, so   *)
(* the invariant follows the account along a push: the baseline is what    *)
(* memory held when the queue was last empty, every domain of the baseline *)
(* is level with the account unless the running flush is through with it,  *)
(* and then what the flush carried is.  That another device deleted a      *)
(* record after its last change here is a comparison of times, so nothing  *)
(* may carry a time still to come.                                         *)

\* Only another device's later write or deletion keeps the account from holding v.
Level(d, v) == v = remote[d] \/ remote[d] \in others \/ (remote[d] = 0 /\ tomb[d] > v)

Handled(d) == flight # Null /\ d \in flight.done

SnapUpto(s, t)   == \A d \in Domains : s[d].val <= t
ValuesUpto(v, t) == \A d \in Domains : v[d] <= t

NothingLater ==
  /\ SnapUpto(store, clock) /\ SnapUpto(disk, clock) /\ ValuesUpto(remote, clock)
  /\ base # Null => SnapUpto(base, clock)
  /\ flight # Null => SnapUpto(flight.snap, clock)
  /\ adopt.phase = "tombs" => ValuesUpto(adopt.loaded, clock)

BaselineTracks ==
  /\ remoteOn /\ adopt = Idle => base # Null
  /\ remoteOn /\ adopt = Idle /\ pending = Null /\ flight = Null => base = store
  /\ flight # Null =>
       /\ flight.base = base
       /\ flight.todo \cup flight.done \cup flight.failed \cup flight.held
            = Dirty(flight.snap, base)

\* What was read of the account still stands.
AccountAtHand == adopt.phase = "tombs" => \A d \in Domains : Level(d, adopt.loaded[d])

AccountTracks ==
  /\ flight # Null => \A d \in flight.done : Level(d, flight.snap[d].val)
  /\ AccountAtHand
  /\ remoteOn /\ adopt = Idle => \A d \in Domains : Handled(d) \/ Level(d, base[d].val)

\* A sign-out waits to be handled.  Without a session every table reads as empty, so what
\* was read of the account means nothing until that sign-out has been handled.
Leaving == \E i \in 1 .. Len(sessionQ) : sessionQ[i] = "out"
SignOutQueued ==
  ~authed => \/ sessionQ = <<>> /\ ~remoteOn /\ adopt = Idle
             \/ sessionQ # <<>> /\ sessionQ[Len(sessionQ)] = "out"

CalmInv == /\ SignOutQueued /\ ~deleting
           /\ NothingLater /\ BaselineTracks
           /\ ~Leaving => AccountTracks

\* What the theorem is about.  A wipe leaves the rows of tables deleteAll does not name and
\* the tab reads "Synced"; a create whose answer is lost and that is removed again is never
\* deleted; a table that was not read reads as empty; a bulk domain never deletes.
Converges ==
  /\ Env \cap {"wipe", "lost", "read"} = {}
  /\ \A d \in Domains : Kind[d] # "bulk"

-----------------------------------------------------------------------------
(* Times.                                                                  *)

LEMMA SnapLater ==
  ASSUME NEW s \in Snapshot, NEW t \in Nat, NEW u \in Nat, t <= u, SnapUpto(s, t)
  PROVE  SnapUpto(s, u)
  BY DEF SnapUpto, Snapshot, Arr

LEMMA ValuesLater ==
  ASSUME NEW v \in Values, NEW t \in Nat, NEW u \in Nat, t <= u, ValuesUpto(v, t)
  PROVE  ValuesUpto(v, u)
  BY DEF ValuesUpto, Values

LEMMA NothingLaterKept ==
  ASSUME TypeOK, TypeOK', NothingLater, clock <= clock',
         store' \in {store, disk} \/ SnapUpto(store', clock'),
         disk' \in {disk, store'},
         base' \in {base, Null} \/ SnapUpto(base', clock'),
         flight' # Null => \/ flight # Null /\ flight'.snap = flight.snap
                           \/ SnapUpto(flight'.snap, clock'),
         UNCHANGED remote \/ ValuesUpto(remote', clock'),
         adopt'.phase = "tombs" => UNCHANGED adopt \/ ValuesUpto(adopt'.loaded, clock')
  PROVE  NothingLater'
  <1>1. clock \in Nat /\ clock' \in Nat /\ store \in Snapshot /\ disk \in Snapshot
        /\ remote \in Values
    BY DEF TypeOK
  <1>2. SnapUpto(store, clock') /\ SnapUpto(disk, clock') /\ ValuesUpto(remote, clock')
    BY <1>1, SnapLater, ValuesLater DEF NothingLater
  <1>3. base # Null => SnapUpto(base, clock')
    BY <1>1, SnapLater DEF NothingLater, TypeOK
  <1>4. flight # Null => SnapUpto(flight.snap, clock')
    <2>1. flight # Null => flight.snap \in Snapshot
      BY DEF TypeOK, Flights
    <2>. QED  BY <1>1, <2>1, SnapLater DEF NothingLater
  <1>5. adopt.phase = "tombs" => ValuesUpto(adopt.loaded, clock')
    BY <1>1, LoadedType, ValuesLater DEF NothingLater, TypeOK
  <1>6. SnapUpto(store', clock') /\ SnapUpto(disk', clock') /\ ValuesUpto(remote', clock')
    BY <1>2
  <1>7. base' # Null => SnapUpto(base', clock')
    BY <1>3
  <1>8. flight' # Null => SnapUpto(flight'.snap, clock')
    BY <1>4
  <1>9. adopt'.phase = "tombs" => ValuesUpto(adopt'.loaded, clock')
    BY <1>5
  <1>. QED  BY <1>6, <1>7, <1>8, <1>9 DEF NothingLater

\* A flush that starts carries what memory shows.
LEMMA FlushLater ==
  ASSUME TypeOK, TypeOK', QueueInv, NothingLater, NEW h, flush(pending, h),
         UNCHANGED <<store, disk, base, remote, clock, adopt>>
  PROVE  NothingLater'
  <1>1. clock <= clock'
    BY DEF TypeOK
  <1>2. UNCHANGED flight \/ flight'.snap = store
    BY FlushOutcome DEF NewFlight, QueueInv
  <1>3. flight' # Null => \/ flight # Null /\ flight'.snap = flight.snap
                          \/ SnapUpto(flight'.snap, clock')
    BY <1>2 DEF NothingLater
  <1>. QED  BY <1>1, <1>3, NothingLaterKept

LEMMA UserLater ==
  ASSUME TypeOK, TypeOK', SavedInv, NothingLater, User
  PROVE  NothingLater'
  <1>1. ASSUME NEW d \in Domains, NEW v \in Nat, v <= clock + 1, Change(d, v) PROVE NothingLater'
    <2>1. /\ store' = [store EXCEPT ![d] = [ref |-> clock + 1, val |-> v]] /\ clock' = clock + 1
          /\ disk' \in {disk, store'}
          /\ UNCHANGED <<base, flight, remote, adopt>>
      BY <1>1 DEF Change, Tick, saveState, writeLocal, sessionVars, serverVars
    <2>2. clock \in Nat /\ clock <= clock'
      BY <2>1 DEF TypeOK
    <2>3. ASSUME NEW e \in Domains PROVE store'[e].val <= clock'
      <3>1. store[e].val \in Nat /\ store[e].val <= clock
        BY DEF TypeOK, Snapshot, Arr, NothingLater, SnapUpto
      <3>2. store'[e].val \in {v, store[e].val}
        BY <2>1 DEF TypeOK, Snapshot
      <3>. QED  BY <1>1, <2>1, <2>2, <3>1, <3>2
    <2>4. SnapUpto(store', clock')
      BY <2>3 DEF SnapUpto
    <2>. QED  BY <2>1, <2>2, <2>4, NothingLaterKept
  <1>2. ASSUME NEW d \in Domains, Edit(d) \/ Remove(d) PROVE NothingLater'
    BY <1>1, <1>2 DEF Edit, Remove, TypeOK
  <1>3. CASE RetryLocalSave \/ RetrySync
    <2>1. /\ disk' \in {disk, store'}
          /\ UNCHANGED <<store, base, flight, remote, adopt, clock>>
      BY <1>3
      DEF RetryLocalSave, RetrySync, writeLocal, SavedInv, pushVars, localVars, sessionVars, serverVars
    <2>2. clock <= clock'
      BY <2>1 DEF TypeOK
    <2>. QED  BY <2>1, <2>2, NothingLaterKept
  <1>4. CASE ResetStore
    <2>1. /\ store' = Arrays(clock + 1, NoTombs) /\ clock' = clock + 1 /\ disk' = store'
          /\ base' = Null /\ UNCHANGED <<flight, remote, adopt>>
      BY <1>4 DEF ResetStore, Tick, sessionVars
    <2>2. SnapUpto(store', clock') /\ clock <= clock'
      BY <2>1 DEF SnapUpto, Arrays, NoTombs, TypeOK
    <2>. QED  BY <2>1, <2>2, NothingLaterKept
  <1>. QED  BY <1>2, <1>3, <1>4 DEF User

LEMMA PushLater ==
  ASSUME TypeOK, TypeOK', NothingLater, NEW d \in Domains, Push(d)
  PROVE  NothingLater'
  <1>1. /\ flight \in Flights /\ flight # Null
        /\ UNCHANGED <<store, disk, base, adopt, clock>>
    BY DEF Push, PushNothing, PushSucceeds, PushRefused, PushFails, PushAmbiguous, PushUnchanged,
           localVars, sessionVars, TypeOK
  <1>2. flight'.snap = flight.snap
    BY <1>1
    DEF Push, PushNothing, PushSucceeds, PushRefused, PushFails, PushAmbiguous, Ends, Flights
  <1>3. cur(d) <= clock
    BY <1>1 DEF NothingLater, SnapUpto, cur
  <1>4. UNCHANGED remote \/ ValuesUpto(remote', clock')
    <2>1. \/ UNCHANGED remote
          \/ \E v \in {0, cur(d)} : remote' = [remote EXCEPT ![d] = v]
      BY DEF Push, PushNothing, PushSucceeds, PushRefused, PushFails, PushAmbiguous, Written, Erased
    <2>2. ASSUME NEW v \in {0, cur(d)}, remote' = [remote EXCEPT ![d] = v]
          PROVE  ValuesUpto(remote', clock')
      BY <1>1, <1>3, <2>2 DEF ValuesUpto, NothingLater, TypeOK, Values
    <2>. QED  BY <2>1, <2>2
  <1>5. clock <= clock'
    BY <1>1 DEF TypeOK
  <1>. QED  BY <1>1, <1>2, <1>4, <1>5, NothingLaterKept

LEMMA LandingLater ==
  ASSUME TypeOK, TypeOK', NothingLater, Landing
  PROVE  NothingLater'
  <1>1. /\ flight # Null /\ flight' = Null /\ base' = nextBaseline(base, flight.snap, flight.done)
        /\ UNCHANGED <<store, disk, remote, adopt, clock>>
    BY DEF Landing, FlightHeld, FlightSynced, FlightPartial, FlightLands, sessionVars, serverVars
  <1>2. SnapUpto(base', clock') /\ clock <= clock'
    BY <1>1 DEF nextBaseline, NoArr, SnapUpto, NothingLater, TypeOK
  <1>. QED  BY <1>1, <1>2, NothingLaterKept

\* What an adoption installs: the baseline has the account's values, and so has memory
\* where nothing is queued.
LEMMA Adopted ==
  ASSUME TypeOK, adopt.phase = "tombs", NEW tombs \in Values, Adopt(tombs)
  PROVE  /\ clock' = clock + 1 /\ adopt' = Idle
         /\ UNCHANGED <<remoteOn, authed, deleting, remote, tomb, others>>
         /\ \A d \in Domains : store'[d].val \in {adopt.loaded[d], disk[d].val, 0}
         /\ base' # Null
         /\ \A d \in Domains : base'[d].val = adopt.loaded[d]
         /\ \/ base' = store' /\ \E h : flush(pending, h)
            \/ \E h : flush(store', h)
  <1>. DEFINE local  == Suppressed(ValuesOf(disk), tombs)
              merged == mergeLocalOnly(adopt.loaded, local)
              state  == Arrays(clock + 1, merged)
              pushes == LocalOnly(adopt.loaded, local) # {}
              baseline == IF HasData(adopt.loaded) THEN Arrays(clock + 1, adopt.loaded)
                          ELSE [d \in Domains |-> NoArr]
              queued == IF pushes THEN state ELSE pending
              shown  == CASE pushes /\ online  -> "syncing"
                          [] pushes /\ ~online -> "offline"
                          [] OTHER -> IF pending = Null THEN "synced" ELSE health
  <1>1. adopt.loaded \in Values
    BY LoadedType DEF TypeOK
  <1>2. /\ clock' = clock + 1 /\ adopt' = Idle
        /\ UNCHANGED <<remoteOn, authed, deleting, remote, tomb, others>>
        /\ store' = state /\ base' = (IF pushes THEN baseline ELSE state)
        /\ flush(queued, shown)
    BY DEF Adopt, serverVars
  <1>3. ASSUME NEW d \in Domains
        PROVE  /\ state[d].val = merged[d] /\ merged[d] \in {adopt.loaded[d], local[d]}
               /\ local[d] \in {disk[d].val, 0}
               /\ baseline[d].val = adopt.loaded[d]
    <2>1. state[d].val = merged[d]
      BY DEF Arrays
    <2>2. merged[d] \in {adopt.loaded[d], local[d]}
      BY DEF mergeLocalOnly
    <2>3. local[d] \in {disk[d].val, 0}
      BY DEF Suppressed, ValuesOf
    <2>4. baseline[d].val = adopt.loaded[d]
      BY DEF HasData, Arrays, NoArr
    <2>. QED  BY <2>1, <2>2, <2>3, <2>4
  <1>4. ASSUME ~pushes, NEW d \in Domains PROVE merged[d] = adopt.loaded[d]
    BY <1>4 DEF LocalOnly, mergeLocalOnly
  <1>5. state \in Snapshot /\ baseline \in Snapshot
    <2>1. [d \in Domains |-> NoArr] \in Snapshot
      BY DEF NoArr, Snapshot, Arr
    <2>. QED  BY <1>1, <2>1, MergedType, ArraysType DEF TypeOK
  <1>6. base' # Null /\ \A d \in Domains : base'[d].val = adopt.loaded[d]
    <2>. HIDE DEF merged, state, pushes, baseline
    <2>. QED  BY <1>2, <1>3, <1>4, <1>5, NullAssumption
  <1>7. \/ base' = store' /\ \E h : flush(pending, h)
        \/ \E h : flush(store', h)
    <2>1. CASE pushes
      <3>1. queued = store'
        BY <1>2, <2>1
      <3>. HIDE DEF queued, shown
      <3>. QED  BY <1>2, <3>1
    <2>2. CASE ~pushes
      <3>1. queued = pending /\ base' = store'
        BY <1>2, <2>2
      <3>. HIDE DEF queued, shown
      <3>. QED  BY <1>2, <3>1
    <2>. QED  BY <2>1, <2>2
  <1>8. \A d \in Domains : store'[d].val \in {adopt.loaded[d], disk[d].val, 0}
    <2>. HIDE DEF local, merged, state
    <2>. QED  BY <1>2, <1>3
  <1>. QED  BY <1>2, <1>6, <1>7, <1>8

LEMMA AdoptLater ==
  ASSUME TypeOK, TypeOK', QueueInv, NothingLater, adopt.phase = "tombs",
         NEW tombs \in Values, Adopt(tombs), disk' \in {disk, store'}
  PROVE  NothingLater'
  <1>1. /\ clock' = clock + 1 /\ adopt' = Idle /\ UNCHANGED remote
        /\ \A d \in Domains : store'[d].val \in {adopt.loaded[d], disk[d].val, 0}
        /\ \A d \in Domains : base'[d].val = adopt.loaded[d]
        /\ \E h : \E q \in {store', pending} : flush(q, h)
    BY Adopted
  <1>2. adopt.loaded \in Values
    BY LoadedType DEF TypeOK
  <1>3. SnapUpto(store', clock') /\ SnapUpto(base', clock') /\ clock <= clock'
    <2>1. clock \in Nat /\ clock <= clock'
      BY <1>1 DEF TypeOK
    <2>2. ASSUME NEW d \in Domains PROVE store'[d].val <= clock' /\ base'[d].val <= clock'
      <3>1. /\ adopt.loaded[d] \in Nat /\ adopt.loaded[d] <= clock
            /\ disk[d].val \in Nat /\ disk[d].val <= clock
        BY <1>2 DEF TypeOK, Snapshot, Arr, Values, NothingLater, SnapUpto, ValuesUpto
      <3>2. store'[d].val \in {adopt.loaded[d], disk[d].val, 0} /\ base'[d].val = adopt.loaded[d]
        BY <1>1
      <3>. QED  BY <1>1, <2>1, <3>1, <3>2
    <2>. QED  BY <2>1, <2>2 DEF SnapUpto
  <1>4. pending = Null /\ flight = Null
    BY DEF QueueInv, Idle
  <1>5. flight' # Null => flight'.snap = store'
    BY <1>1, <1>4, FlushOutcome DEF NewFlight
  <1>6. adopt'.phase # "tombs"
    BY <1>1 DEF Idle
  <1>. QED  BY <1>1, <1>3, <1>5, <1>6, NothingLaterKept

LEMMA SessionLater ==
  ASSUME TypeOK, TypeOK', QueueInv, NothingLater, Session, CalmSessions
  PROVE  NothingLater'
  <1>1. CASE HandleSignedOut \/ HandleSignedIn \/ SessionProbed \/ AccountLoaded
    <2>1. UNCHANGED <<store, disk, base, flight, remote, clock>>
      BY <1>1
      DEF HandleSignedOut, HandleSignedIn, SessionProbed, AccountLoaded, SessionUnchanged,
          pushVars, localVars, serverVars
    <2>2. adopt'.phase = "tombs" => UNCHANGED adopt \/ ValuesUpto(adopt'.loaded, clock')
      <3>1. CASE AccountLoaded
        BY <2>1, <3>1 DEF AccountLoaded, ValuesUpto, NothingLater, TypeOK
      <3>2. CASE ~AccountLoaded
        BY <1>1, <3>2 DEF HandleSignedOut, HandleSignedIn, SessionProbed
      <3>. QED  BY <3>1, <3>2
    <2>3. clock <= clock'
      BY <2>1 DEF TypeOK
    <2>. QED  BY <2>1, <2>2, <2>3, NothingLaterKept
  <1>2. ~AccountLoadFails
    BY DEF AccountLoadFails, CalmSessions, Idle
  <1>3. CASE MigrateOrAdopt
    <2>1. /\ adopt.phase = "tombs" /\ disk' \in {disk, store'}
          /\ \E tombs \in {tomb, NoTombs} : Adopt(tombs)
      BY <1>3 DEF MigrateOrAdopt, writeLocal
    <2>. QED  BY <2>1, AdoptLater, NoTombsType DEF TypeOK
  <1>. QED  BY <1>1, <1>2, <1>3 DEF Session

LEMMA EnvironmentLater ==
  ASSUME TypeOK, TypeOK', QueueInv, NothingLater, Environment
  PROVE  NothingLater'
  <1>1. CASE GoOnline
    BY <1>1, FlushLater DEF GoOnline, localVars, sessionVars, serverVars
  <1>2. CASE Reload
    <2>1. clock <= clock' /\ store' = disk /\ base' = Null /\ flight' = Null
          /\ adopt'.phase # "tombs" /\ UNCHANGED <<disk, remote>>
      BY <1>2 DEF Reload, Idle, TypeOK
    <2>. QED  BY <2>1, NothingLaterKept
  <1>3. ASSUME NEW d \in Domains, OtherWrites(d) \/ OtherDeletes(d) PROVE NothingLater'
    <2>1. /\ \E v \in {0, clock + 1} : remote' = [remote EXCEPT ![d] = v]
          /\ clock' = clock + 1 /\ UNCHANGED <<store, disk, base, flight, adopt>>
      BY <1>3
      DEF OtherWrites, OtherDeletes, OtherUnchanged, Tick, pushVars, localVars, sessionVars
    <2>2. clock \in Nat /\ clock <= clock'
      BY <2>1 DEF TypeOK
    <2>3. ASSUME NEW e \in Domains PROVE remote'[e] <= clock'
      <3>1. remote[e] \in Nat /\ remote[e] <= clock
        BY DEF TypeOK, Values, NothingLater, ValuesUpto
      <3>2. remote'[e] \in {0, clock + 1, remote[e]}
        BY <2>1 DEF TypeOK, Values
      <3>. QED  BY <2>1, <2>2, <3>1, <3>2
    <2>4. ValuesUpto(remote', clock')
      BY <2>3 DEF ValuesUpto
    <2>. QED  BY <2>1, <2>2, <2>4, NothingLaterKept
  <1>4. CASE GoOffline \/ SignOut \/ SignIn \/ Refresh \/ ServerUpgrades
    <2>1. UNCHANGED <<store, disk, base, flight, adopt, remote, clock>>
      BY <1>4
      DEF GoOffline, SignOut, SignIn, Refresh, SessionEvent, ServerUpgrades,
          pushVars, localVars, sessionVars, serverVars
    <2>2. clock <= clock'
      BY <2>1 DEF TypeOK
    <2>. QED  BY <2>1, <2>2, NothingLaterKept
  <1>. QED  BY <1>1, <1>2, <1>3, <1>4 DEF Environment

LEMMA NextLater ==
  ASSUME TypeOK, SavedInv, QueueInv, NothingLater, [Next /\ CalmSessions]_vars
  PROVE  NothingLater'
  <1>1. TypeOK'
    BY NextType
  <1>2. CASE Timers \/ RetrySyncProbed
    BY <1>1, <1>2, FlushLater
    DEF Timers, TimerFires, OrphanFires, RetryFires, WakeUnchanged, RetrySyncProbed,
        localVars, sessionVars, serverVars
  <1>3. CASE BackgroundProbed \/ UNCHANGED vars
    <2>1. UNCHANGED <<store, disk, base, flight, adopt, remote, clock>>
      BY <1>3 DEF BackgroundProbed, vars, pushVars, localVars, sessionVars, serverVars
    <2>. QED  BY <2>1 DEF NothingLater
  <1>4. CASE Deletion
    <2>1. UNCHANGED <<store, disk, base, flight, adopt, clock>>
      BY <1>4
      DEF Deletion, DeleteAllDone, DeleteAllFails, DeletionUnchanged, pushVars, localVars, sessionVars
    <2>2. \/ UNCHANGED remote
          \/ \E ds : remote' = Emptied(ds)
      BY <1>4 DEF Deletion, DeleteAllDone, DeleteAllFails
    <2>3. ValuesUpto(remote', clock') /\ clock <= clock'
      BY <2>1, <2>2 DEF Emptied, ValuesUpto, NothingLater, TypeOK
    <2>. QED  BY <1>1, <2>1, <2>3, NothingLaterKept
  <1>. QED
    BY <1>1, <1>2, <1>3, <1>4, UserLater, PushLater, LandingLater, SessionLater, EnvironmentLater
    DEF Next, Probes

-----------------------------------------------------------------------------
(* The baseline.                                                           *)

LEMMA BaselineTracksKept ==
  ASSUME BaselineTracks, UNCHANGED <<remoteOn, adopt, base, store, pending, flight>>
  PROVE  BaselineTracks'
  BY DEF BaselineTracks, Dirty

\* A new flush starts from the baseline and divides what differs from it.
LEMMA NewFlightTracks ==
  ASSUME NEW p
  PROVE  LET f == NewFlight(p)
         IN  /\ f.base = base' /\ f.snap = p /\ f.done = {}
             /\ f.todo \cup f.done \cup f.failed \cup f.held = Dirty(p, base')
  BY DEF NewFlight

LEMMA FlushTracks ==
  ASSUME TypeOK, BaselineTracks, NEW h, flush(pending, h),
         UNCHANGED <<remoteOn, adopt, base, store>>
  PROVE  BaselineTracks'
  <1>1. CASE UNCHANGED <<pending, flight>>
    BY <1>1, BaselineTracksKept
  <1>2. CASE pending # Null /\ flight' = NewFlight(pending)
    <2>1. flight' # Null
      BY <1>2, NewFlightType, NullAssumption DEF TypeOK
    <2>2. /\ flight'.base = base'
          /\ flight'.todo \cup flight'.done \cup flight'.failed \cup flight'.held
               = Dirty(flight'.snap, base')
      BY <1>2, NewFlightTracks
    <2>3. Dirty(flight'.snap, base') = Dirty(flight.snap, base)'
      BY DEF Dirty
    <2>. QED  BY <2>1, <2>2, <2>3 DEF BaselineTracks
  <1>. QED  BY <1>1, <1>2, FlushOutcome

LEMMA UserTracks ==
  ASSUME TypeOK, TypeOK', SavedInv, BaselineTracks, User, ~ResetStore
  PROVE  BaselineTracks'
  <1>1. ASSUME NEW d \in Domains, NEW v, Change(d, v) PROVE BaselineTracks'
    <2>1. /\ scheduleRemotePush(store') /\ UNCHANGED <<remoteOn, adopt, base, flight>>
      BY <1>1 DEF Change, saveState, sessionVars
    <2>2. remoteOn => pending' # Null
      BY <2>1, NullAssumption DEF scheduleRemotePush, TypeOK
    <2>. QED  BY <2>1, <2>2 DEF BaselineTracks, Dirty
  <1>2. CASE RetryLocalSave
    BY <1>2, BaselineTracksKept DEF RetryLocalSave, pushVars, sessionVars
  <1>3. CASE RetrySync
    <2>1. pending' # Null /\ UNCHANGED <<remoteOn, adopt, base, flight>>
      BY <1>3 DEF RetrySync, localVars, sessionVars
    <2>. QED  BY <2>1 DEF BaselineTracks, Dirty
  <1>. QED  BY <1>1, <1>2, <1>3 DEF User, Edit, Remove

LEMMA PushTracks ==
  ASSUME TypeOK, BaselineTracks, NEW d \in Domains, Push(d)
  PROVE  BaselineTracks'
  <1>1. /\ flight \in Flights /\ flight # Null /\ d \in flight.todo
        /\ UNCHANGED <<remoteOn, adopt, base, store, pending>>
        /\ \E ok, schema \in BOOLEAN : Ends(d, ok, schema)
    <2>1. (d \in Gateable /\ ~supports /\ online) \in BOOLEAN
      OBVIOUS
    <2>. QED
      BY <2>1
      DEF Push, PushNothing, PushSucceeds, PushRefused, PushFails, PushAmbiguous, PushUnchanged,
          localVars, sessionVars, TypeOK, NextDomain
  <1>2. /\ flight'.base = flight.base /\ flight'.snap = flight.snap
        /\ flight'.todo \cup flight'.done \cup flight'.failed \cup flight'.held
             = flight.todo \cup flight.done \cup flight.failed \cup flight.held
    BY <1>1 DEF Ends, Flights
  <1>3. flight' # Null
    BY <1>1, EndsType, NullAssumption
  <1>. QED  BY <1>1, <1>2, <1>3 DEF BaselineTracks, Dirty

\* When nothing failed or was held back, the baseline becomes what the flush carried.
LEMMA LandedBaseline ==
  ASSUME TypeOK, flight # Null, base # Null, flight.todo = {}, flight.held = {}, flight.failed = {},
         flight.todo \cup flight.done \cup flight.failed \cup flight.held = Dirty(flight.snap, base)
  PROVE  nextBaseline(base, flight.snap, flight.done) = flight.snap
  <1>1. flight.snap \in Snapshot /\ flight.done = Dirty(flight.snap, base)
    BY DEF TypeOK, Flights
  <1>2. ASSUME NEW d \in Domains, d \notin flight.done PROVE flight.snap[d] = base[d]
    BY <1>1, <1>2 DEF Dirty
  <1>3. nextBaseline(base, flight.snap, flight.done) = [d \in Domains |-> flight.snap[d]]
    BY <1>2 DEF nextBaseline
  <1>. QED  BY <1>1, <1>3 DEF Snapshot

LEMMA LandingTracks ==
  ASSUME TypeOK, TypeOK', QueueInv, BaselineTracks, Landing
  PROVE  BaselineTracks'
  <1>1. /\ flight # Null /\ flight' = Null /\ flight.todo = {}
        /\ base' = nextBaseline(base, flight.snap, flight.done)
        /\ UNCHANGED <<remoteOn, adopt, store>>
    BY DEF Landing, FlightHeld, FlightSynced, FlightPartial, FlightLands, sessionVars
  <1>2. remoteOn /\ adopt = Idle /\ base # Null
    BY <1>1 DEF QueueInv, BaselineTracks
  <1>3. base' # Null
    BY <1>1, NextBaselineType, NullAssumption DEF TypeOK, Flights
  <1>4. CASE FlightHeld \/ FlightPartial
    <2>1. pending' # Null
      BY <1>1, <1>4, NullAssumption DEF FlightHeld, FlightPartial, Requeued, TypeOK, Flights
    <2>. QED  BY <1>1, <1>3, <2>1 DEF BaselineTracks
  <1>5. CASE FlightSynced
    <2>1. flight.held = {} /\ flight.failed = {} /\ pending' = pending
      BY <1>5 DEF FlightSynced
    <2>2. base' = flight.snap
      BY <1>1, <1>2, <2>1, LandedBaseline DEF BaselineTracks
    <2>3. pending = Null => flight.snap = store
      BY <1>1 DEF QueueInv
    <2>. QED  BY <1>1, <1>3, <2>1, <2>2, <2>3 DEF BaselineTracks
  <1>. QED  BY <1>4, <1>5 DEF Landing

LEMMA AdoptTracks ==
  ASSUME TypeOK, TypeOK', QueueInv, BaselineTracks, adopt.phase = "tombs",
         NEW tombs \in Values, Adopt(tombs)
  PROVE  BaselineTracks'
  <1>1. /\ adopt' = Idle /\ UNCHANGED remoteOn /\ base' # Null
        /\ \/ base' = store' /\ \E h : flush(pending, h)
           \/ \E h : flush(store', h)
    BY Adopted
  <1>2. remoteOn /\ pending = Null /\ flight = Null
    BY DEF QueueInv, Idle
  <1>3. CASE base' = store' /\ \E h : flush(pending, h)
    <2>1. pending' = Null /\ flight' = Null
      BY <1>2, <1>3, FlushOutcome
    <2>. QED  BY <1>1, <1>3, <2>1 DEF BaselineTracks
  <1>4. CASE \E h : flush(store', h)
    <2>1. store' # Null
      BY NullAssumption DEF TypeOK
    <2>2. PICK h : flush(store', h)
      BY <1>4
    <2>3. CASE pending' = store' /\ UNCHANGED flight
      BY <1>1, <1>2, <2>1, <2>3 DEF BaselineTracks
    <2>4. CASE flight' = NewFlight(store')
      <3>1. flight' # Null
        BY <2>4, NewFlightType, NullAssumption DEF TypeOK
      <3>2. /\ flight'.base = base'
            /\ flight'.todo \cup flight'.done \cup flight'.failed \cup flight'.held
                 = Dirty(flight'.snap, base')
        BY <2>4, NewFlightTracks
      <3>3. Dirty(flight'.snap, base') = Dirty(flight.snap, base)'
        BY DEF Dirty
      <3>. QED  BY <1>1, <3>1, <3>2, <3>3 DEF BaselineTracks
    <2>. QED  BY <2>2, <2>3, <2>4, FlushOutcome
  <1>. QED  BY <1>1, <1>3, <1>4

LEMMA SessionTracks ==
  ASSUME TypeOK, TypeOK', QueueInv, QueueInv', BaselineTracks, Session, CalmSessions
  PROVE  BaselineTracks'
  <1>1. CASE HandleSignedOut
    <2>1. ~remoteOn'
      BY <1>1 DEF HandleSignedOut
    <2>. QED  BY <2>1 DEF BaselineTracks, QueueInv
  <1>2. CASE HandleSignedIn \/ SessionProbed \/ AccountLoaded
    <2>1. adopt' # Idle
      BY <1>2 DEF HandleSignedIn, SessionProbed, AccountLoaded, Idle
    <2>. QED  BY <2>1 DEF BaselineTracks, QueueInv
  <1>3. ~AccountLoadFails
    BY DEF AccountLoadFails, CalmSessions, Idle
  <1>4. CASE MigrateOrAdopt
    <2>1. adopt.phase = "tombs" /\ \E tombs \in {tomb, NoTombs} : Adopt(tombs)
      BY <1>4 DEF MigrateOrAdopt
    <2>. QED  BY <2>1, AdoptTracks, NoTombsType DEF TypeOK
  <1>. QED  BY <1>1, <1>2, <1>3, <1>4 DEF Session

LEMMA NextTracks ==
  ASSUME "wipe" \notin Env, TypeOK, SavedInv, QueueInv, BaselineTracks,
         [Next /\ CalmSessions]_vars
  PROVE  BaselineTracks'
  <1>1. TypeOK' /\ QueueInv'
    BY NextType, NextQueue
  <1>2. CASE Timers \/ RetrySyncProbed \/ GoOnline
    BY <1>2, FlushTracks
    DEF Timers, TimerFires, OrphanFires, RetryFires, WakeUnchanged, RetrySyncProbed, GoOnline,
        localVars, sessionVars
  <1>3. CASE Reload
    BY <1>3 DEF Reload, BaselineTracks
  <1>4. CASE Environment /\ ~GoOnline /\ ~Reload
    BY <1>4, BaselineTracksKept
    DEF Environment, GoOffline, SignOut, SignIn, Refresh, SessionEvent, ServerUpgrades,
        OtherWrites, OtherDeletes, OtherUnchanged, pushVars, localVars, sessionVars
  <1>5. CASE BackgroundProbed \/ Deletion \/ UNCHANGED vars
    BY <1>5, BaselineTracksKept
    DEF BackgroundProbed, Deletion, DeleteAllDone, DeleteAllFails, DeletionUnchanged, vars,
        pushVars, localVars, sessionVars
  <1>6. ~ResetStore
    BY DEF ResetStore
  <1>. QED
    BY <1>1, <1>2, <1>3, <1>4, <1>5, <1>6, UserTracks, PushTracks, LandingTracks, SessionTracks
    DEF Next, Probes

-----------------------------------------------------------------------------
(* The account.                                                            *)

LEMMA AccountTracksKept ==
  ASSUME AccountTracks, UNCHANGED <<remoteOn, adopt, base, flight, remote, tomb>>,
         others \subseteq others'
  PROVE  AccountTracks'
  BY DEF AccountTracks, AccountAtHand, Level, Handled

\* A flush that starts is through with nothing yet.
LEMMA FlushAccount ==
  ASSUME AccountTracks, NEW h, flush(pending, h),
         UNCHANGED <<remoteOn, adopt, base, remote, tomb, others>>
  PROVE  AccountTracks'
  <1>1. CASE UNCHANGED flight
    BY <1>1, AccountTracksKept
  <1>2. CASE flight = Null /\ flight' = NewFlight(pending)
    <2>1. flight'.done = {}
      BY <1>2, NewFlightTracks
    <2>. QED  BY <1>2, <2>1 DEF AccountTracks, AccountAtHand, Level, Handled
  <1>. QED  BY <1>1, <1>2, FlushOutcome

\* A domain the flush is through with is level with the account: the server took its
\* value or its absence, refused it for another device's, or nothing differed.
LEMMA PushLevels ==
  ASSUME Converges, TypeOK, QueueInv, BaselineTracks, AccountTracks, NEW d \in Domains, Push(d)
  PROVE  /\ flight # Null /\ flight' # Null /\ flight'.snap = flight.snap
         /\ UNCHANGED <<remoteOn, adopt, base, others>>
         /\ \/ flight'.done = flight.done \cup {d} /\ Level(d, flight.snap[d].val)'
            \/ flight'.done = flight.done /\ UNCHANGED <<remote, tomb>>
         /\ \A e \in Domains \ {d} : remote'[e] = remote[e] /\ tomb'[e] = tomb[e]
  <1>1. /\ flight \in Flights /\ flight # Null /\ d \in flight.todo
        /\ UNCHANGED <<remoteOn, adopt, base, others>>
        /\ \E ok, schema \in BOOLEAN : Ends(d, ok, schema)
    <2>1. (d \in Gateable /\ ~supports /\ online) \in BOOLEAN
      OBVIOUS
    <2>. QED
      BY <2>1
      DEF Push, PushNothing, PushSucceeds, PushRefused, PushFails, PushAmbiguous, PushUnchanged,
          localVars, sessionVars, TypeOK, NextDomain
  <1>2. flight' # Null /\ flight'.snap = flight.snap
    BY <1>1, EndsType, NullAssumption DEF Ends, Flights
  <1>3. /\ \A schema : Ends(d, TRUE, schema) => flight'.done = flight.done \cup {d}
        /\ \A schema : Ends(d, FALSE, schema) => flight'.done = flight.done
    BY <1>1 DEF Ends, Flights
  <1>4. /\ remoteOn /\ adopt = Idle /\ base # Null /\ flight.base = base
        /\ cur(d) = flight.snap[d].val
    BY <1>1 DEF QueueInv, BaselineTracks, cur
  <1>5. ASSUME Level(d, cur(d))' PROVE Level(d, flight.snap[d].val)'
    BY <1>2, <1>5 DEF cur
  <1>6. CASE PushNothing(d)
    <2>1. UNCHANGED <<remote, tomb>> /\ flight'.done = flight.done \cup {d}
      BY <1>3, <1>6 DEF PushNothing
    <2>2. cur(d) = prev(d) /\ prev(d) = base[d].val
      BY <1>4, <1>6 DEF PushNothing, Upserts, Deletes, prev, Converges
    <2>3. Level(d, flight.snap[d].val)
      BY <1>1, <1>4, <2>2 DEF AccountTracks, AccountAtHand, Handled
    <2>. QED  BY <1>1, <1>2, <2>1, <2>3 DEF Level
  <1>7. CASE PushSucceeds(d)
    <2>1. flight'.done = flight.done \cup {d}
      BY <1>3, <1>7 DEF PushSucceeds
    <2>2. remote' = [remote EXCEPT ![d] = cur(d)]
          /\ (UNCHANGED tomb \/ tomb' = [tomb EXCEPT ![d] = clock])
      BY <1>7 DEF PushSucceeds, Written, Erased, Deletes
    <2>3. remote'[d] = flight.snap[d].val
          /\ \A e \in Domains \ {d} : remote'[e] = remote[e] /\ tomb'[e] = tomb[e]
      BY <1>4, <2>2 DEF TypeOK, Values
    <2>. QED  BY <1>1, <1>2, <2>1, <2>3 DEF Level
  <1>8. CASE PushRefused(d)
    <2>1. /\ flight'.done = flight.done \cup {d} /\ remote[d] \in others
          /\ UNCHANGED <<remote, tomb>>
      BY <1>3, <1>8 DEF PushRefused
    <2>. QED  BY <1>1, <1>2, <2>1 DEF Level
  <1>9. CASE PushFails(d)
    BY <1>1, <1>2, <1>3, <1>9 DEF PushFails
  <1>10. ~PushAmbiguous(d)
    BY DEF PushAmbiguous, Fault, Converges
  <1>. QED  BY <1>6, <1>7, <1>8, <1>9, <1>10 DEF Push

LEMMA PushAccount ==
  ASSUME Converges, TypeOK, QueueInv, BaselineTracks, AccountTracks, NEW d \in Domains, Push(d)
  PROVE  AccountTracks'
  <1>1. /\ flight # Null /\ flight' # Null /\ flight'.snap = flight.snap
        /\ UNCHANGED <<remoteOn, adopt, base, others>>
        /\ \/ flight'.done = flight.done \cup {d} /\ Level(d, flight.snap[d].val)'
           \/ flight'.done = flight.done /\ UNCHANGED <<remote, tomb>>
        /\ \A e \in Domains \ {d} : remote'[e] = remote[e] /\ tomb'[e] = tomb[e]
    BY PushLevels
  <1>2. adopt'.phase # "tombs"
    BY <1>1 DEF QueueInv, Idle
  <1>3. flight.done \subseteq Domains
    BY <1>1 DEF TypeOK, Flights
  <1>4. ASSUME NEW e \in flight'.done PROVE Level(e, flight.snap[e].val)'
    <2>1. CASE UNCHANGED <<remote, tomb>> /\ e \in flight.done
      BY <1>1, <2>1 DEF AccountTracks, AccountAtHand, Level
    <2>2. CASE e = d /\ Level(d, flight.snap[d].val)'
      BY <2>2
    <2>3. CASE e # d /\ e \in flight.done
      BY <1>1, <1>3, <2>3 DEF AccountTracks, AccountAtHand, Level
    <2>. QED  BY <1>1, <1>4, <2>1, <2>2, <2>3
  <1>5. ASSUME NEW e \in Domains, remoteOn', adopt' = Idle
        PROVE  (Handled(e) \/ Level(e, base[e].val))'
    <2>1. Handled(e) \/ Level(e, base[e].val)
      BY <1>1, <1>5 DEF AccountTracks, AccountAtHand
    <2>2. CASE Handled(e)
      BY <1>1, <2>2 DEF Handled
    <2>3. CASE Level(e, base[e].val) /\ remote'[e] = remote[e] /\ tomb'[e] = tomb[e]
      BY <1>1, <2>3 DEF Level
    <2>4. CASE e = d /\ flight'.done = flight.done \cup {d}
      BY <1>1, <2>4 DEF Handled
    <2>. QED  BY <1>1, <2>1, <2>2, <2>3, <2>4
  <1>. QED  BY <1>2, <1>4, <1>5 DEF AccountTracks, AccountAtHand

LEMMA LandingAccount ==
  ASSUME TypeOK, QueueInv, BaselineTracks, AccountTracks, Landing
  PROVE  AccountTracks'
  <1>1. /\ flight # Null /\ flight' = Null
        /\ base' = nextBaseline(base, flight.snap, flight.done)
        /\ UNCHANGED <<remoteOn, adopt, remote, tomb, others>>
    BY DEF Landing, FlightHeld, FlightSynced, FlightPartial, FlightLands, sessionVars, serverVars
  <1>2. remoteOn /\ adopt = Idle /\ base # Null
    BY <1>1 DEF QueueInv, BaselineTracks
  <1>3. ASSUME NEW d \in Domains PROVE Level(d, base[d].val)'
    <2>1. base'[d] = IF d \in flight.done THEN flight.snap[d] ELSE base[d]
      BY <1>1, <1>2 DEF nextBaseline
    <2>2. Level(d, base'[d].val)
      BY <1>1, <1>2, <2>1 DEF AccountTracks, AccountAtHand, Handled
    <2>. QED  BY <1>1, <2>2 DEF Level
  <1>4. adopt'.phase # "tombs"
    BY <1>1, <1>2 DEF Idle
  <1>. QED  BY <1>1, <1>3, <1>4 DEF AccountTracks, AccountAtHand

\* The account as it was read is level with the account, and so is the baseline made of it.
LEMMA AdoptAccount ==
  ASSUME TypeOK, QueueInv, AccountTracks, adopt.phase = "tombs",
         NEW tombs \in Values, Adopt(tombs)
  PROVE  AccountTracks'
  <1>1. /\ adopt' = Idle /\ UNCHANGED <<remote, tomb, others>>
        /\ \A d \in Domains : base'[d].val = adopt.loaded[d]
        /\ \E q, h : flush(q, h)
    BY Adopted
  <1>2. \A d \in Domains : Level(d, base[d].val)'
    BY <1>1 DEF AccountTracks, AccountAtHand, Level
  <1>3. flight = Null
    BY DEF QueueInv, Idle
  <1>4. flight' # Null => flight'.done = {}
    BY <1>1, <1>3, FlushOutcome DEF NewFlight
  <1>5. adopt'.phase # "tombs"
    BY <1>1 DEF Idle
  <1>. QED  BY <1>2, <1>4, <1>5 DEF AccountTracks, AccountAtHand

\* A read with a session and no failed table gives the account's rows.
LEMMA LoadedAccount ==
  ASSUME Converges, authed = TRUE, AccountLoaded
  PROVE  AccountAtHand'
  <1>1. /\ adopt' = [phase |-> "tombs", loaded |-> [d \in Domains |-> remote[d]]]
        /\ UNCHANGED <<remote, tomb, others>>
    BY DEF AccountLoaded, Fault, Converges, SessionUnchanged, serverVars
  <1>. QED  BY <1>1 DEF AccountAtHand, Level

LEMMA SessionAccount ==
  ASSUME TypeOK, QueueInv, QueueInv', ~Leaving => AccountTracks, ~Leaving',
         AccountLoaded => AccountAtHand', Session, CalmSessions
  PROVE  AccountTracks'
  <1>1. CASE HandleSignedOut
    <2>1. ~remoteOn' /\ adopt' = Idle
      BY <1>1 DEF HandleSignedOut
    <2>. QED  BY <2>1 DEF AccountTracks, AccountAtHand, QueueInv, Idle
  <1>2. CASE HandleSignedIn \/ SessionProbed
    <2>1. adopt' \in [phase : {"probe", "load"}]
      BY <1>2 DEF HandleSignedIn, SessionProbed
    <2>2. adopt' # Idle /\ adopt'.phase # "tombs"
      BY <2>1 DEF Idle
    <2>. QED  BY <2>2 DEF AccountTracks, AccountAtHand, QueueInv
  <1>3. CASE AccountLoaded
    <2>1. adopt' # Idle
      BY <1>3 DEF AccountLoaded, Idle
    <2>2. AccountAtHand'
      BY <1>3
    <2>3. flight' = Null
      BY <2>1 DEF QueueInv
    <2>. QED  BY <2>1, <2>2, <2>3 DEF AccountTracks, AccountAtHand
  <1>4. ~AccountLoadFails
    BY DEF AccountLoadFails, CalmSessions, Idle
  <1>5. CASE MigrateOrAdopt
    <2>1. adopt.phase = "tombs" /\ \E tombs \in {tomb, NoTombs} : Adopt(tombs)
      BY <1>5 DEF MigrateOrAdopt
    <2>2. UNCHANGED sessionQ
      BY <2>1 DEF Adopt
    <2>3. AccountTracks
      BY <2>2 DEF Leaving
    <2>. QED  BY <2>1, <2>3, AdoptAccount, NoTombsType DEF TypeOK
  <1>. QED  BY <1>1, <1>2, <1>3, <1>4, <1>5 DEF Session

\* What another device writes or deletes comes after everything this tab knows.
LEMMA OtherAccount ==
  ASSUME TypeOK, NothingLater, BaselineTracks, AccountTracks,
         NEW d \in Domains, OtherWrites(d) \/ OtherDeletes(d)
  PROVE  AccountTracks'
  <1>1. /\ \/ remote'[d] \in others'
           \/ remote'[d] = 0 /\ tomb'[d] = clock + 1
        /\ \A e \in Domains \ {d} : remote'[e] = remote[e] /\ tomb'[e] = tomb[e]
        /\ others \subseteq others'
        /\ UNCHANGED <<remoteOn, adopt, base, flight>>
    BY DEF OtherWrites, OtherDeletes, OtherUnchanged, pushVars, localVars, sessionVars, TypeOK, Values
  <1>2. ASSUME NEW e \in Domains, NEW v \in Nat, v <= clock, Level(e, v)
        PROVE  \/ v = remote'[e] \/ remote'[e] \in others'
               \/ (remote'[e] = 0 /\ tomb'[e] > v)
    <2>1. CASE e = d
      BY <1>1, <1>2, <2>1 DEF TypeOK
    <2>2. CASE e # d
      BY <1>1, <1>2, <2>2 DEF Level
    <2>. QED  BY <2>1, <2>2
  <1>3. ASSUME flight # Null, NEW e \in flight.done PROVE Level(e, flight.snap[e].val)'
    <2>1. e \in Domains /\ flight.snap[e].val \in Nat /\ flight.snap[e].val <= clock
      BY <1>3 DEF TypeOK, Flights, Snapshot, Arr, NothingLater, SnapUpto
    <2>. QED  BY <1>1, <1>2, <1>3, <2>1 DEF AccountTracks, AccountAtHand, Level
  <1>4. ASSUME adopt.phase = "tombs", NEW e \in Domains PROVE Level(e, adopt.loaded[e])'
    <2>1. adopt.loaded[e] \in Nat /\ adopt.loaded[e] <= clock
      BY <1>4, LoadedType DEF TypeOK, Values, NothingLater, ValuesUpto
    <2>. QED  BY <1>1, <1>2, <1>4, <2>1 DEF AccountTracks, AccountAtHand, Level
  <1>5. ASSUME remoteOn, adopt = Idle, NEW e \in Domains, Level(e, base[e].val)
        PROVE  Level(e, base[e].val)'
    <2>1. base[e].val \in Nat /\ base[e].val <= clock
      BY <1>5 DEF TypeOK, Snapshot, Arr, NothingLater, SnapUpto, BaselineTracks
    <2>. QED  BY <1>1, <1>2, <1>5, <2>1 DEF Level
  <1>. QED  BY <1>1, <1>3, <1>4, <1>5 DEF AccountTracks, AccountAtHand, Handled

\* The queue of session events changes in these steps only.
LEMMA QueueMoves ==
  ASSUME [Next]_vars
  PROVE  \/ UNCHANGED sessionQ
         \/ HandleSignedOut \/ HandleSignedIn \/ SignOut \/ SignIn \/ Refresh \/ Reload
  <1>1. CASE User
    BY <1>1
    DEF User, Edit, Remove, Change, RetryLocalSave, RetrySync, ResetStore, sessionVars
  <1>2. CASE Timers \/ Probes
    BY <1>2
    DEF Timers, TimerFires, OrphanFires, RetryFires, WakeUnchanged,
        Probes, RetrySyncProbed, BackgroundProbed, sessionVars
  <1>3. ASSUME NEW d \in Domains, Push(d) PROVE UNCHANGED sessionQ
    BY <1>3
    DEF Push, PushNothing, PushSucceeds, PushRefused, PushFails, PushAmbiguous, PushUnchanged,
        sessionVars
  <1>4. CASE Landing
    BY <1>4 DEF Landing, FlightHeld, FlightSynced, FlightPartial, FlightLands, sessionVars
  <1>5. CASE Session
    BY <1>5
    DEF Session, SessionProbed, AccountLoaded, AccountLoadFails, MigrateOrAdopt, Adopt
  <1>6. CASE Deletion
    BY <1>6 DEF Deletion, DeleteAllDone, DeleteAllFails, DeletionUnchanged, sessionVars
  <1>7. CASE Environment
    BY <1>7
    DEF Environment, GoOffline, GoOnline, ServerUpgrades, OtherWrites, OtherDeletes,
        OtherUnchanged, sessionVars
  <1>8. CASE UNCHANGED vars
    BY <1>8 DEF vars, sessionVars
  <1>. QED  BY <1>1, <1>2, <1>3, <1>4, <1>5, <1>6, <1>7, <1>8 DEF Next

\* The session and the adapter change with the queue, and an adoption moves on by itself.
LEMMA SessionMoves ==
  ASSUME [Next]_vars
  PROVE  \/ UNCHANGED <<authed, remoteOn, adopt>>
         \/ adopt # Idle /\ UNCHANGED authed
         \/ HandleSignedOut \/ HandleSignedIn \/ SignOut \/ SignIn \/ Reload
  <1>1. CASE User
    BY <1>1
    DEF User, Edit, Remove, Change, RetryLocalSave, RetrySync, ResetStore, sessionVars
  <1>2. CASE Timers \/ Probes
    BY <1>2
    DEF Timers, TimerFires, OrphanFires, RetryFires, WakeUnchanged,
        Probes, RetrySyncProbed, BackgroundProbed, sessionVars
  <1>3. ASSUME NEW d \in Domains, Push(d) PROVE UNCHANGED <<authed, remoteOn, adopt>>
    BY <1>3
    DEF Push, PushNothing, PushSucceeds, PushRefused, PushFails, PushAmbiguous, PushUnchanged,
        sessionVars
  <1>4. CASE Landing
    BY <1>4 DEF Landing, FlightHeld, FlightSynced, FlightPartial, FlightLands, sessionVars
  <1>5. CASE Session
    BY <1>5
    DEF Session, SessionProbed, AccountLoaded, AccountLoadFails, MigrateOrAdopt, Adopt, Idle
  <1>6. CASE Deletion
    BY <1>6 DEF Deletion, DeleteAllDone, DeleteAllFails, DeletionUnchanged, sessionVars
  <1>7. CASE Environment
    BY <1>7
    DEF Environment, GoOffline, GoOnline, Refresh, SessionEvent, ServerUpgrades, OtherWrites,
        OtherDeletes, OtherUnchanged, sessionVars
  <1>8. CASE UNCHANGED vars
    BY <1>8 DEF vars, sessionVars
  <1>. QED  BY <1>1, <1>2, <1>3, <1>4, <1>5, <1>6, <1>7, <1>8 DEF Next

\* Until a sign-out was queued and handled the session is valid.
LEMMA NextSignOut ==
  ASSUME TypeOK, QueueInv, SignOutQueued, [Next]_vars
  PROVE  SignOutQueued'
  <1>1. sessionQ \in Seq({"in", "out"})
    BY DEF TypeOK
  <1>2. ASSUME NEW kind \in {"in", "out"}, sessionQ' = Append(sessionQ, kind)
        PROVE  sessionQ' # <<>> /\ sessionQ'[Len(sessionQ')] = kind
    BY <1>1, <1>2
  <1>3. CASE SignOut
    BY <1>2, <1>3 DEF SignOut, SessionEvent, SignOutQueued
  <1>4. CASE SignIn \/ Refresh
    BY <1>4 DEF SignIn, Refresh, SessionEvent, SignOutQueued
  <1>5. CASE Reload
    BY <1>5 DEF Reload, SignOutQueued
  <1>6. CASE HandleSignedOut
    <2>1. sessionQ # <<>> /\ sessionQ' = Tail(sessionQ) /\ ~remoteOn' /\ adopt' = Idle
          /\ UNCHANGED authed
      BY <1>6 DEF HandleSignedOut
    <2>2. CASE sessionQ' = <<>>
      BY <2>1, <2>2 DEF SignOutQueued
    <2>3. CASE sessionQ' # <<>>
      <3>1. sessionQ'[Len(sessionQ')] = sessionQ[Len(sessionQ)]
        BY <1>1, <2>1, <2>3
      <3>. QED  BY <2>1, <2>3, <3>1 DEF SignOutQueued
    <2>. QED  BY <2>2, <2>3
  <1>7. CASE HandleSignedIn
    <2>1. sessionQ # <<>> /\ sessionQ' = Tail(sessionQ) /\ sessionQ[1] = "in" /\ UNCHANGED authed
      BY <1>1, <1>7 DEF HandleSignedIn
    <2>. SUFFICES ASSUME ~authed
                  PROVE  sessionQ' # <<>> /\ sessionQ'[Len(sessionQ')] = "out"
      BY <2>1 DEF SignOutQueued
    <2>2. sessionQ[Len(sessionQ)] = "out"
      BY <2>1 DEF SignOutQueued
    <2>3. Len(sessionQ) > 1
      BY <1>1, <2>1, <2>2
    <2>4. sessionQ' # <<>>
      <3>1. Len(sessionQ') = Len(sessionQ) - 1
        BY <1>1, <2>1
      <3>. QED  BY <2>3, <3>1
    <2>5. sessionQ'[Len(sessionQ')] = sessionQ[Len(sessionQ)]
      BY <1>1, <2>1, <2>4
    <2>. QED  BY <2>2, <2>4, <2>5
  <1>8. CASE UNCHANGED sessionQ
    <2>1. CASE UNCHANGED <<authed, remoteOn, adopt>>
      BY <1>8, <2>1 DEF SignOutQueued
    <2>2. CASE adopt # Idle /\ UNCHANGED authed
      BY <1>8, <2>2 DEF SignOutQueued
    <2>. QED  BY <1>3, <1>4, <1>5, <1>6, <1>7, <2>1, <2>2, SessionMoves
  <1>. QED  BY <1>3, <1>4, <1>5, <1>6, <1>7, <1>8, QueueMoves

LEMMA NextAccount ==
  ASSUME Converges, TypeOK, SavedInv, QueueInv, CalmInv, [Next /\ CalmSessions]_vars, ~Leaving'
  PROVE  AccountTracks'
  <1>1. BaselineTracks /\ NothingLater /\ ~deleting /\ QueueInv'
    BY NextQueue DEF CalmInv
  <1>2. ~Leaving => AccountTracks
    BY DEF CalmInv
  <1>3. CASE Reload
    BY <1>3 DEF Reload, AccountTracks, AccountAtHand, Idle
  <1>4. CASE Session /\ CalmSessions
    <2>1. ASSUME AccountLoaded PROVE authed = TRUE
      <3>1. adopt # Idle /\ UNCHANGED sessionQ
        BY <2>1 DEF AccountLoaded, Idle
      <3>2. ~Leaving
        BY <3>1 DEF Leaving
      <3>3. sessionQ = <<>> \/ sessionQ[Len(sessionQ)] # "out"
        <4>1. sessionQ \in Seq({"in", "out"})
          BY DEF TypeOK
        <4>2. sessionQ # <<>> => Len(sessionQ) \in 1 .. Len(sessionQ)
          BY <4>1
        <4>. QED  BY <3>2, <4>2 DEF Leaving
      <3>4. authed \in BOOLEAN
        BY DEF TypeOK
      <3>5. SignOutQueued
        BY DEF CalmInv
      <3>6. ~(authed = FALSE)
        BY <3>1, <3>3, <3>5 DEF SignOutQueued
      <3>. QED  BY <3>4, <3>6
    <2>. QED  BY <1>1, <1>2, <1>4, <2>1, LoadedAccount, SessionAccount
  <1>5. CASE ~Reload /\ (Session => UNCHANGED vars)
    <2>1. UNCHANGED sessionQ \/ SignOut \/ SignIn \/ Refresh
      BY <1>5, QueueMoves DEF Session, vars, sessionVars
    <2>2. ~Leaving
      <3>1. CASE UNCHANGED sessionQ
        BY <3>1 DEF Leaving
      <3>2. CASE SignOut \/ SignIn \/ Refresh
        <4>1. \E kind : sessionQ' = Append(sessionQ, kind)
          BY <3>2 DEF SignOut, SignIn, Refresh, SessionEvent
        <4>. QED  BY <4>1 DEF Leaving, TypeOK
      <3>. QED  BY <2>1, <3>1, <3>2
    <2>3. AccountTracks
      BY <1>2, <2>2
    <2>4. CASE Timers \/ RetrySyncProbed \/ GoOnline
      BY <2>3, <2>4, FlushAccount
      DEF Timers, TimerFires, OrphanFires, RetryFires, WakeUnchanged, RetrySyncProbed, GoOnline,
          localVars, sessionVars, serverVars
    <2>5. CASE GoOffline \/ SignOut \/ SignIn \/ Refresh \/ ServerUpgrades
      BY <2>3, <2>5, AccountTracksKept
      DEF GoOffline, SignOut, SignIn, Refresh, SessionEvent, ServerUpgrades,
          pushVars, localVars, sessionVars, serverVars
    <2>6. CASE BackgroundProbed \/ UNCHANGED vars
      BY <2>3, <2>6, AccountTracksKept
      DEF BackgroundProbed, vars, pushVars, localVars, sessionVars, serverVars
    <2>7. ~Deletion /\ ~ResetStore
      BY <1>1 DEF Deletion, DeleteAllDone, DeleteAllFails, ResetStore, Converges
    <2>8. CASE User
      BY <2>3, <2>7, <2>8, AccountTracksKept
      DEF User, Edit, Remove, Change, RetryLocalSave, RetrySync, pushVars, localVars, sessionVars,
          serverVars
    <2>. QED
      BY <1>1, <1>5, <2>3, <2>4, <2>5, <2>6, <2>7, <2>8, PushAccount, LandingAccount, OtherAccount
      DEF Next, Probes, Environment
  <1>. QED  BY <1>3, <1>4, <1>5

\* Nothing is ever wiped.
LEMMA NextDeleting ==
  ASSUME Converges, ~deleting, [Next]_vars
  PROVE  ~deleting'
  <1>. SUFFICES deleting' \in {deleting, FALSE}
    OBVIOUS
  <1>1. CASE User
    <2>1. ~ResetStore
      BY DEF ResetStore, Converges
    <2>. QED
      BY <1>1, <2>1 DEF User, Edit, Remove, Change, RetryLocalSave, RetrySync, serverVars
  <1>2. CASE Timers \/ Probes
    BY <1>2
    DEF Timers, TimerFires, OrphanFires, RetryFires, WakeUnchanged, Probes, RetrySyncProbed,
        BackgroundProbed, serverVars
  <1>3. ASSUME NEW d \in Domains, Push(d) PROVE UNCHANGED deleting
    BY <1>3
    DEF Push, PushNothing, PushSucceeds, PushRefused, PushFails, PushAmbiguous, PushUnchanged
  <1>4. CASE Landing
    BY <1>4 DEF Landing, FlightHeld, FlightSynced, FlightPartial, FlightLands, serverVars
  <1>5. CASE Session
    BY <1>5
    DEF Session, HandleSignedOut, HandleSignedIn, SessionProbed, AccountLoaded, AccountLoadFails,
        MigrateOrAdopt, Adopt, SessionUnchanged, serverVars
  <1>6. ~Deletion
    BY DEF Deletion, DeleteAllDone, DeleteAllFails
  <1>7. CASE Environment
    BY <1>7
    DEF Environment, GoOffline, GoOnline, SignOut, SignIn, Refresh, SessionEvent, Reload,
        ServerUpgrades, OtherWrites, OtherDeletes, OtherUnchanged, serverVars
  <1>8. CASE UNCHANGED vars
    BY <1>8 DEF vars, serverVars
  <1>. QED  BY <1>1, <1>2, <1>3, <1>4, <1>5, <1>6, <1>7, <1>8 DEF Next

LEMMA InitCalm == Init => CalmInv
  <1>. SUFFICES ASSUME Init PROVE CalmInv
    OBVIOUS
  <1>1. PICK known \in SUBSET Domains :
          LET values == [d \in Domains |-> IF d \in known THEN 1 ELSE 0]
          IN  store = Arrays(1, values) /\ disk = store /\ remote = values
    BY DEF Init
  <1>2. \A d \in Domains : store[d].val <= 1 /\ disk[d].val <= 1 /\ remote[d] <= 1
    BY <1>1 DEF Arrays
  <1>. QED
    BY <1>2
    DEF Init, CalmInv, SignOutQueued, NothingLater, BaselineTracks, AccountTracks, AccountAtHand,
        SnapUpto, ValuesUpto, Idle

\* While sessions change only in quiet moments, and for the kinds of domains and of trouble
\* that Converges names, a tab at rest shows what the account holds, unless another device
\* wrote or deleted it since.
THEOREM AgreesWhenCalm ==
  ASSUME Converges
  PROVE  CalmSpec => []AgreesAtRest
  <1>1. TypeOK /\ SavedInv /\ QueueInv /\ CalmInv /\ [Next /\ CalmSessions]_vars => CalmInv'
    BY NextLater, NextTracks, NextAccount, NextSignOut, NextDeleting DEF CalmInv, Converges
  <1>2. CalmInv => AgreesAtRest
    <2>. SUFFICES ASSUME CalmInv, AtRest, NEW d \in Domains
                  PROVE  store[d].val = remote[d] \/ OtherWroteLast(d)
      BY DEF AgreesAtRest
    <2>1. base = store
      BY DEF CalmInv, BaselineTracks, AtRest
    <2>2. ~Leaving
      BY DEF AtRest, Leaving
    <2>3. Level(d, base[d].val)
      BY <2>2 DEF CalmInv, AccountTracks, AccountAtHand, AtRest, Handled
    <2>. QED  BY <2>1, <2>3 DEF Level, OtherWroteLast
  <1>. QED  BY InitCalm, CalmQueue, <1>1, <1>2, PTL DEF CalmSpec
=============================================================================
