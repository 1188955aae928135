----------------------------- MODULE GuardedPush -----------------------------
(***************************************************************************)
(* One row of a guarded table (notes, next_actions) and the devices of its *)
(* account: the version protocol of migration 0045                         *)
(* (src/supabase/migrations/0045_sync_version_guard.sql), the half of it   *)
(* the adapter keeps (pushGuarded in src/lib/adapters/supabaseAdapter.ts), *)
(* and the store that hands a refused text back to its writer              *)
(* (src/lib/sync/conflicts-store.ts).                                      *)
(*                                                                         *)
(* The server accepts an update only with the version after the row's.  A  *)
(* device learns versions from the rows it loads, from its accepted        *)
(* pushes, from refusals, and, when it knows none, by a read just before   *)
(* the push.  A text is the moment it was written, 0 is no record.         *)
(*                                                                         *)
(* The person writes at any time, also while the account is being loaded:  *)
(* what is queued is a snapshot of the state at the last save, and an      *)
(* adoption leaves it queued.  A session event makes a new adapter, which  *)
(* knows no version, whatever the old one still has in the air.            *)
(***************************************************************************)
EXTENDS Naturals

CONSTANTS
  Devices,
  Env,           \* what the environment may do: "remove", "net", "late", "load",
                 \* "read", "reload", "refresh"
  MaxClock,      \* bound: nothing is written or removed later than this
  MaxFaults,     \* bound: calls and loads that fail
  MaxSessions,   \* bound: reloads and token refreshes
  Null

EnvKinds == {"remove", "net", "late", "load", "read", "reload", "refresh"}

ASSUME EnvAssumption    == Env \subseteq EnvKinds
ASSUME BoundsAssumption == MaxClock \in Nat \ {0} /\ MaxFaults \in Nat /\ MaxSessions \in Nat

VARIABLES
  \* per device
  text,        \* the record as this device shows and keeps it
  base,        \* its value in lastSyncedState, Null when there is none
  queued,      \* its value in the queued snapshot (pending), Null when nothing is queued
  known,       \* versionMap of the adapter: the version last learnt, 0 when it has none
  call,        \* the push in the air, or Null
  adopting,    \* the session event being handled, or Null
  conflict,    \* conflicts-store: the refused text and the saved one, or Null
  \* the account
  row, tomb,
  late,        \* requests given up by their device that may still arrive
  \* bounds and history
  clock, faults, sessions,
  shown,       \* history: the texts a device has put before its user
  since,       \* history: when an adoption last changed what a device shows
  told,        \* history: the texts that were handed back at a device
  stored       \* history: everything the row has held

histories   == <<shown, since, told>>
deviceVars  == <<text, base, queued, known, call, adopting, conflict, histories>>
accountVars == <<row, tomb, late, stored>>
vars == <<deviceVars, accountVars, clock, faults, sessions>>

Texts == 0 .. MaxClock
\* `by`, `late` and `blind` are history: who wrote it, whether the request had been
\* given up, or its adapter replaced, before it arrived, whether its version was read
\* without the row's text.
Rows  == [val : Texts, ver : Nat \cup {Null}, by : Devices \cup {Null},
          late : BOOLEAN, blind : BOOLEAN]
Requests  == [val : Texts, ver : Nat, by : Devices, blind : BOOLEAN]
\* "same": the domain is pushed for another record's sake; `old`: a session event has
\* replaced the adapter.
Phases    == {"ensure", "sent", "read", "accepted", "stale", "delete", "tomb", "same"}
Calls     == [phase : Phases, val : Texts, ver : Nat, blind : BOOLEAN, cur : Rows,
              old : BOOLEAN]
Adoptions == [phase : {"load"}] \cup [phase : {"install"}, val : Texts]
Conflicts == [local : Texts, remote : Texts]
ASSUME NullAssumption ==
  Null \notin Nat \cup Devices \cup Calls \cup Adoptions \cup Conflicts

\* No row: a select finds nothing, and there is no version to read.
Absent == [val |-> 0, ver |-> Null, by |-> Null, late |-> FALSE, blind |-> FALSE]

Init ==
  /\ text = [d \in Devices |-> 1] /\ base = text
  /\ known = [d \in Devices |-> 1] /\ call = [d \in Devices |-> Null]
  /\ queued = call /\ adopting = call /\ conflict = call
  /\ row = [val |-> 1, ver |-> 1, by |-> Null, late |-> FALSE, blind |-> FALSE]
  /\ tomb = 0 /\ late = {}
  /\ clock = 2 /\ faults = 0 /\ sessions = 0
  /\ shown = [d \in Devices |-> {1}] /\ since = text /\ stored = {1}
  /\ told = [d \in Devices |-> {}]

Fault(kind) == kind \in Env /\ faults < MaxFaults /\ faults' = faults + 1
Show(d, texts) == shown' = [shown EXCEPT ![d] = @ \cup texts]

-----------------------------------------------------------------------------
(* The person at the device, also while the account is being loaded.       *)

\* Every save queues the whole state as it is then, in place of an earlier snapshot.
Save(d) == queued' = [queued EXCEPT ![d] = text'[d]]

\* A mutator of the record: a new text.
Write(d) ==
  /\ text[d] # 0 /\ clock <= MaxClock
  /\ text' = [text EXCEPT ![d] = clock] /\ Save(d)
  /\ clock' = clock + 1 /\ Show(d, {clock})
  /\ UNCHANGED <<base, known, call, adopting, since, told, accountVars, faults, sessions>>

Edit(d) == Write(d) /\ UNCHANGED conflict

\* "Keep the saved version" and "Use my version": both write a new text.
Resolve(d) == conflict[d] # Null /\ Write(d) /\ conflict' = [conflict EXCEPT ![d] = Null]

Remove(d) ==
  /\ "remove" \in Env /\ text[d] # 0 /\ clock <= MaxClock
  /\ text' = [text EXCEPT ![d] = 0] /\ Save(d) /\ clock' = clock + 1
  /\ UNCHANGED <<base, known, call, adopting, conflict, accountVars, faults,
                 sessions, histories>>

\* A change of some other record queues this one with it.
Touch(d) ==
  /\ queued[d] # text[d] /\ UNCHANGED text /\ Save(d)
  /\ UNCHANGED <<base, known, call, adopting, conflict, accountVars, clock, faults,
                 sessions, histories>>

-----------------------------------------------------------------------------
(* The push: flush, syncNextActions, syncNotes, pushGuarded.               *)

Turn(d, phase, val, ver, blind, cur, old) ==
  call' = [call EXCEPT ![d] = [phase |-> phase, val |-> val, ver |-> ver,
                               blind |-> blind, cur |-> cur, old |-> old]]

Begin(d, phase, ver) == Turn(d, phase, queued[d], ver, FALSE, Absent, FALSE)

\* The push in the air enters another phase.
Advance(d, phase) ==
  Turn(d, phase, call[d].val, call[d].ver, call[d].blind, call[d].cur, call[d].old)

\* flush takes the snapshot.  The rows that differ from the base are upserted, those
\* only the base has are deleted; a domain with no such row may still be pushed.
StartPush(d) ==
  /\ queued[d] # Null /\ call[d] = Null /\ adopting[d] = Null
  /\ queued' = [queued EXCEPT ![d] = Null]
  /\ \/ /\ queued[d] \notin {0, base[d]}
        /\ IF known[d] = 0 THEN Begin(d, "ensure", 0) ELSE Begin(d, "sent", known[d] + 1)
     \/ queued[d] = 0 /\ base[d] \notin {0, Null} /\ Begin(d, "delete", 0)
     \/ queued[d] = base[d] /\ UNCHANGED call
     \/ (queued[d] = base[d] \/ (queued[d] = 0 /\ base[d] = Null)) /\ Begin(d, "same", 0)
  /\ UNCHANGED <<text, base, known, adopting, conflict, accountVars, clock, faults,
                 sessions, histories>>

\* Mutant: the version is taken without looking whether there is one.
CaptureBlindly(old, r) == r.ver

\* A row that is not there, or carries no version, says nothing.
captureVersions(old, r) == IF r.ver = Null THEN old ELSE r.ver

\* What the push learns of the versions is learnt by the adapter it runs on.
Learns(d, ver) == known' = IF call[d].old THEN known ELSE [known EXCEPT ![d] = ver]

\* Only a push that knows no version comes here.
ensureVersions(d) ==
  /\ call[d] # Null /\ call[d].phase = "ensure"
  /\ Learns(d, captureVersions(0, row))
  /\ Turn(d, "sent", call[d].val, captureVersions(0, row) + 1, row # Absent, Absent,
          call[d].old)
  /\ UNCHANGED <<text, base, queued, adopting, conflict, accountVars, clock, faults,
                 sessions, histories>>

\* Mutant: a plain upsert, without the trigger.
AcceptsUpsert(req) == TRUE

\* The row is inserted, or updated under the trigger enforce_sync_version.
enforce_sync_version(req) == row # Absent => req.ver = row.ver + 1

StoreRow(req, isLate) ==
  /\ row' = [val |-> req.val, ver |-> req.ver, by |-> req.by, late |-> isLate,
             blind |-> req.blind]
  /\ stored' = stored \cup {req.val}

Request(d) == [val |-> call[d].val, ver |-> call[d].ver, by |-> d, blind |-> call[d].blind]

\* push_guarded_rows reads the row first; other writers may commit before it writes.
ServerReads(d) ==
  /\ call[d] # Null /\ call[d].phase = "sent"
  /\ Turn(d, "read", call[d].val, call[d].ver, call[d].blind, row, call[d].old)
  /\ UNCHANGED <<text, base, queued, known, adopting, conflict, accountVars, clock, faults,
                 sessions, histories>>

ServerWrites(d) ==
  /\ call[d] # Null /\ call[d].phase = "read"
  /\ \/ /\ enforce_sync_version(Request(d)) /\ StoreRow(Request(d), call[d].old)
        /\ Advance(d, "accepted")
     \/ /\ ~enforce_sync_version(Request(d)) /\ UNCHANGED <<row, stored>>
        /\ Advance(d, "stale")
  /\ UNCHANGED <<text, base, queued, known, adopting, conflict, tomb, late, clock, faults,
                 sessions, histories>>

\* A snapshot that did not get through is queued again, unless a later one is.
Requeue(d) ==
  queued' = IF queued[d] = Null THEN [queued EXCEPT ![d] = call[d].val] ELSE queued

\* The flush ends: the domain counts as pushed, or another row of it has failed; it is
\* queued again when that or another domain failed.
Ended(d) ==
  /\ call' = [call EXCEPT ![d] = Null]
  /\ \/ base' = [base EXCEPT ![d] = call[d].val] /\ UNCHANGED <<queued, faults>>
     \/ /\ Fault("net") /\ Requeue(d)
        /\ base' = [base EXCEPT ![d] = call[d].val] \/ UNCHANGED base

Accepted(d) ==
  /\ call[d] # Null /\ call[d].phase = "accepted"
  /\ Ended(d) /\ Learns(d, call[d].ver)
  /\ UNCHANGED <<text, adopting, conflict, accountVars, clock, sessions, histories>>

\* Mutant: a refusal teaches the version and nothing is handed back.
RefusedUnrecorded(d) ==
  /\ call[d] # Null /\ call[d].phase = "stale"
  /\ Ended(d) /\ Learns(d, captureVersions(known[d], call[d].cur))
  /\ UNCHANGED <<text, adopting, conflict, accountVars, clock, sessions, histories>>

\* recordConflicts: the refused text and the saved one, instead of an earlier pair.
Refused(d) ==
  /\ call[d] # Null /\ call[d].phase = "stale"
  /\ Ended(d) /\ Learns(d, captureVersions(known[d], call[d].cur))
  /\ conflict' = [conflict EXCEPT ![d] = [local |-> call[d].val, remote |-> call[d].cur.val]]
  /\ Show(d, {call[d].cur.val}) /\ told' = [told EXCEPT ![d] = @ \cup {call[d].val}]
  /\ UNCHANGED <<text, adopting, accountVars, clock, sessions, since>>

\* The row was in no request; the other rows of its domain are through.
SamePushed(d) ==
  /\ call[d] # Null /\ call[d].phase = "same" /\ Ended(d)
  /\ UNCHANGED <<text, known, adopting, conflict, accountVars, clock, sessions, histories>>

\* A request its device stops waiting for is gone, or arrives later.
Abandon(d) ==
  \/ UNCHANGED late
  \/ /\ "late" \in Env /\ call[d].phase \in {"sent", "read"}
     /\ late' = late \cup {Request(d)}

\* Mutant: an answer that cannot be read is taken for a success.
LoseCallAsSuccess(d) ==
  /\ call[d] # Null /\ Fault("net") /\ Abandon(d)
  /\ call' = [call EXCEPT ![d] = Null] /\ base' = [base EXCEPT ![d] = call[d].val]
  /\ UNCHANGED <<text, queued, known, adopting, conflict, row, tomb, stored, clock, sessions,
                 histories>>

\* Mutant: what is known of the versions survives an ambiguous outcome.
LoseCallKeepsVersions(d) ==
  /\ call[d] # Null /\ Fault("net") /\ Abandon(d)
  /\ call' = [call EXCEPT ![d] = Null] /\ Requeue(d)
  /\ UNCHANGED <<text, base, known, adopting, conflict, row, tomb, stored, clock, sessions,
                 histories>>

\* The call throws: whether it was carried out is unknown.  The snapshot is queued
\* again, and after a guarded push, of this row or of another, the versions of the
\* table are forgotten.
LoseCall(d) ==
  /\ call[d] # Null /\ Fault("net") /\ Abandon(d)
  /\ call' = [call EXCEPT ![d] = Null] /\ Requeue(d)
  /\ \/ call[d].phase # "tomb" /\ Learns(d, 0)
     \/ call[d].phase \in {"delete", "tomb", "same"} /\ UNCHANGED known
  /\ UNCHANGED <<text, base, adopting, conflict, row, tomb, stored, clock, sessions, histories>>

LateWrite ==
  \E req \in late :
    /\ late' = late \ {req}
    /\ IF enforce_sync_version(req) THEN StoreRow(req, TRUE) ELSE UNCHANGED <<row, stored>>
    /\ UNCHANGED <<deviceVars, tomb, clock, faults, sessions>>

\* A delete asks for no version.
DeleteRow(d) ==
  /\ call[d] # Null /\ call[d].phase = "delete"
  /\ row' = Absent /\ stored' = stored \cup {0}
  /\ Advance(d, "tomb")
  /\ UNCHANGED <<text, base, queued, known, adopting, conflict, tomb, late, clock, faults,
                 sessions, histories>>

writeTombstones(d) ==
  /\ call[d] # Null /\ call[d].phase = "tomb"
  /\ tomb' = clock - 1 /\ Ended(d)
  /\ UNCHANGED <<text, known, adopting, conflict, row, late, stored, clock, sessions, histories>>

-----------------------------------------------------------------------------
(* Sessions: a new adapter knows no version until the account is loaded.   *)

NewSession(kind, d) ==
  /\ kind \in Env /\ sessions < MaxSessions /\ sessions' = sessions + 1
  /\ adopting' = [adopting EXCEPT ![d] = [phase |-> "load"]]
  /\ known' = [known EXCEPT ![d] = 0]

\* What is written between the new page and its session is local, as if before it.
Reload(d) ==
  /\ NewSession("reload", d)
  /\ IF call[d] = Null THEN UNCHANGED late ELSE Abandon(d)
  /\ call' = [call EXCEPT ![d] = Null] /\ queued' = [queued EXCEPT ![d] = Null]
  /\ base' = [base EXCEPT ![d] = Null]
  /\ UNCHANGED <<text, conflict, row, tomb, stored, clock, faults, histories>>

\* Session events are handled one after the other, whatever is queued or in the air.
Refresh(d) ==
  /\ adopting[d] = Null /\ NewSession("refresh", d)
  /\ call' = IF call[d] = Null THEN call ELSE [call EXCEPT ![d].old = TRUE]
  /\ UNCHANGED <<text, base, queued, conflict, accountVars, clock, faults, histories>>

\* loadState: the row, and its version with it; a table that cannot be read reads
\* as empty.
Loaded(d, r) ==
  /\ adopting' = [adopting EXCEPT ![d] = [phase |-> "install", val |-> r.val]]
  /\ known' = [known EXCEPT ![d] = captureVersions(@, r)]

Load(d) ==
  /\ adopting[d] # Null /\ adopting[d].phase = "load"
  /\ \/ Loaded(d, row) /\ UNCHANGED faults
     \/ Loaded(d, Absent) /\ Fault("read")
  /\ UNCHANGED <<text, base, queued, call, conflict, accountVars, clock, sessions, histories>>

\* The session goes on without the account, and pushes are released.
LoadFails(d) ==
  /\ adopting[d] # Null /\ adopting[d].phase = "load" /\ Fault("load")
  /\ adopting' = [adopting EXCEPT ![d] = Null]
  /\ UNCHANGED <<text, base, queued, known, call, conflict, accountVars, clock, sessions,
                 histories>>

\* migrateOrAdopt: the account's text wins; one the account has not is kept, and
\* queued, unless a tombstone of the same moment or later suppresses it.
Adopted(d, deleted) ==
  IF adopting[d].val # 0 THEN adopting[d].val
  ELSE IF text[d] <= deleted THEN 0 ELSE text[d]

\* replaceState, with the tombstones that could be read.  The state is queued when this
\* record, or another, is the device's alone; otherwise what was queued stays so.
Adopt(d, deleted) ==
  /\ adopting[d] # Null /\ adopting[d].phase = "install"
  /\ text' = [text EXCEPT ![d] = Adopted(d, deleted)]
  /\ base' = [base EXCEPT ![d] = adopting[d].val]
  /\ Save(d) \/ (text'[d] = base'[d] /\ UNCHANGED queued)
  /\ adopting' = [adopting EXCEPT ![d] = Null]
  /\ Show(d, {text'[d]})
  /\ since' = IF text' = text THEN since ELSE [since EXCEPT ![d] = clock]
  /\ UNCHANGED <<call, conflict, told, accountVars, clock, sessions>>

\* Mutant: the versions are read when the account is installed, not with its rows.
InstallReadsVersions(d) ==
  Adopt(d, tomb) /\ known' = [known EXCEPT ![d] = captureVersions(@, row)] /\ UNCHANGED faults

Install(d) ==
  /\ \/ Adopt(d, tomb) /\ UNCHANGED faults
     \/ Adopt(d, 0) /\ Fault("read")
  /\ UNCHANGED known

DeviceStep(d) ==
  \/ Edit(d) \/ Resolve(d) \/ Remove(d) \/ Touch(d)
  \/ StartPush(d) \/ ensureVersions(d) \/ ServerReads(d) \/ ServerWrites(d)
  \/ Accepted(d) \/ Refused(d) \/ SamePushed(d) \/ LoseCall(d)
  \/ DeleteRow(d) \/ writeTombstones(d)
  \/ Reload(d) \/ Refresh(d) \/ Load(d) \/ LoadFails(d) \/ Install(d)

Next == LateWrite \/ \E d \in Devices : DeviceStep(d)

Spec == Init /\ [][Next]_vars

-----------------------------------------------------------------------------
(* Correctness.                                                            *)

\* Every variable stays in its type; a version, once known, is a number.
TypeOK ==
  /\ text \in [Devices -> Texts] /\ base \in [Devices -> Texts \cup {Null}]
  /\ queued \in [Devices -> Texts \cup {Null}] /\ known \in [Devices -> Nat]
  /\ call \in [Devices -> Calls \cup {Null}] /\ adopting \in [Devices -> Adoptions \cup {Null}]
  /\ conflict \in [Devices -> Conflicts \cup {Null}]
  /\ row \in Rows /\ tomb \in Nat /\ late \subseteq Requests
  /\ clock \in 1 .. MaxClock + 1 /\ faults \in Nat /\ sessions \in Nat
  /\ shown \in [Devices -> SUBSET Texts] /\ since \in [Devices -> Nat]
  /\ told \in [Devices -> SUBSET Texts]
  /\ stored \subseteq Texts

\* Versions start again when a deleted row is inserted, and with them the protocol:
\* a stale device, or a late request, may bring back any text.
NeverDeleted == 0 \notin stored

\* The row is replaced only by a device whose user has had the replaced text on
\* the screen, in the record or in the conflict notice.  Not so when the version
\* was read without the text (StaleWriteNeverLands).
NothingReplacedUnseen ==
  [][\A d \in Devices : row'.by = d /\ row' # row /\ row # Absent /\ NeverDeleted =>
       row'.blind \/ row.val \in shown[d]]_vars

\* What the guard is for: a stale write never replaces a text its device has not
\* shown (migration 0045: "it only refuses to let a stale write destroy a durable
\* fact").
StaleWriteNeverLands ==
  [][\A d \in Devices : row'.by = d /\ row' # row /\ row # Absent => row.val \in shown[d]]_vars

\* So it is where nothing makes a device forget the versions but a session that loads the
\* row again, and nothing makes the row forget them.
NothingForgets == Env \cap {"net", "load", "read", "remove"} = {}

\* A retry, a request that arrives late, a snapshot left in the queue or a push that
\* outlives its adapter never puts a device's older text over a newer one written since
\* the last adoption that changed its screen.  (What an adoption took off the screen may
\* still be pushed, and the account's text over it.)
OwnWritesInOrder ==
  [][NeverDeleted /\ row.by # Null /\ row'.by = row.by =>
       row'.val >= row.val \/ row.val < since[row.by]]_vars

\* No device is refused on account of its own push, whatever became of the answer,
\* unless it had given the push up, or a session event had replaced the adapter, before
\* the push arrived.
NoSelfRefusal ==
  [][\A d \in Devices : call[d] # Null /\ call[d].phase = "read" /\ call'[d] # Null
                        /\ call'[d].phase = "stale" => row.by # d \/ row.late]_vars

\* Whatever answers, losses and retries do, the devices keep what SharedText promises:
\* nothing is replaced knowingly that its writer has not seen, a text that counts as
\* pushed was stored or is handed back, and a notice goes only when it is answered, or
\* for the next.
Notice == [d \in Devices |-> IF conflict[d] = Null THEN Null ELSE conflict[d].local]
Shared == INSTANCE SharedText WITH Nobody <- Null,
            saved <- row.val, author <- row.by, informed <- ~row.blind, kept <- stored,
            seen <- shown, settled <- base, notice <- Notice
IsSharedText == Shared!Spec

\* A device that shows the record, knows the row's version and has nothing under way has
\* the row's text in sight, as its own or as the saved one of the notice.  Not so when the
\* row holds a text of its own that an adoption has taken off its screen: what is queued
\* when the account is loaded is pushed behind it.
LevelOrTold ==
  \A d \in Devices :
    /\ text[d] # 0 /\ call[d] = Null /\ adopting[d] = Null /\ queued[d] = Null
    /\ NeverDeleted /\ known[d] = row.ver
    => \/ text[d] = row.val
       \/ conflict[d] # Null /\ conflict[d].remote = row.val
       \/ row.by = d /\ row.val < since[d]
=============================================================================
