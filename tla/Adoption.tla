------------------------------- MODULE Adoption -------------------------------
(***************************************************************************)
(* Adoption and the deletion ledger, record by record: recurring actions   *)
(* and the completions of their occurrences, on several devices, with      *)
(* people who sign in and out of them (src/lib/persistence.ts,             *)
(* persistence-reconcile.ts, sync/tombstones.ts and the row pushes of      *)
(* adapters/supabaseAdapter.ts).                                           *)
(*                                                                         *)
(* SyncEngine has the queue, the timers and the health of one tab, with    *)
(* whole domains for data.  Here a flush is one step and the data are      *)
(* records: what a device owns, what the ledger says of it, which account  *)
(* it belongs to, and what the database's constraints refuse.              *)
(*                                                                         *)
(* Data.  A record is the stamp of its last change, 0 when absent.  Every  *)
(* action has one occurrence here; each completion is one row that could   *)
(* record it, with an identity of its own (a random uuid in the code).     *)
(***************************************************************************)
EXTENDS Naturals, FiniteSets

CONSTANTS
  Devices, People,
  Actions,       \* next_actions
  Completions,   \* recurrence_completions
  ActionOf,      \* completion -> the action whose occurrence it records
  Env,           \* what the environment may do in this model
  MaxClock,      \* bound: no change happens later than this
  MaxFaults,     \* bound: failed calls
  MaxSessions,   \* bound: session events and reloads
  Null

Records == Actions \cup Completions
Values  == [Records -> Nat]
Nothing == [r \in Records |-> 0]

EnvKinds == {"complete", "edit", "remove", "undo", "net", "half", "load", "ledger",
             "refresh", "signout", "reload"}

ASSUME DataAssumption == Actions \cap Completions = {} /\ ActionOf \in [Completions -> Actions]
ASSUME NullAssumption == /\ Null \notin People /\ Null \notin Values
                         /\ Null \notin Devices /\ Null # "anyone"
ASSUME BoundsAssumption == /\ Env \subseteq EnvKinds
                           /\ MaxClock \in Nat /\ MaxFaults \in Nat /\ MaxSessions \in Nat

VARIABLES
  \* each device
  user,         \* the person signed in, or Null
  migratedFor,  \* MIGRATED_KEY: whose data this device holds, or Null
  local,        \* the store, in memory and on disk
  base,         \* lastSyncedState, or Null
  queued,       \* pending, or Null
  adoption,     \* the session event being handled
  \* the database
  account,      \* rows, their owners, and the deletion ledger of each person
  \* bounds and history
  clock, faults, sessions,
  author,       \* history: who made the record, Null before that
  had,          \* history: values some account has held
  dead,         \* history: values deleted from a person's account with their marker
  settledFor,   \* history: whose account this page last installed, or Null
  doubts,       \* history: what the next flush of a device does not know
  torn          \* history: devices that installed a completion and not its action

deviceVars == <<user, migratedFor, local, base, queued, adoption, settledFor, doubts>>
boundVars  == <<clock, faults, sessions>>
pastVars   == <<author, had, dead, torn>>
vars == <<deviceVars, account, boundVars, pastVars>>

\* Why a flush may not know better: its snapshot is older than the adoption, such a
\* snapshot was flushed and the baseline is no longer what the page shows, the ledger
\* could not be read, it said nothing of a value the account has had and lost, or rows
\* of the flush arrived and their push was reported as failed.
Doubts == {"early", "apart", "unread", "lost", "half"}

Idle == [phase |-> "idle"]
Adoptions == {Idle} \cup [phase : {"actions"}] \cup [phase : {"completions", "ledger"}, loaded : Values]
Accounts  == [rows : Values, owner : [Records -> People \cup {Null}], marks : [People -> Values]]

Fault(kind) == kind \in Env /\ faults < MaxFaults /\ faults' = faults + 1
Tick == clock < MaxClock /\ clock' = clock + 1

-----------------------------------------------------------------------------
(* What the person does.  Every change is saved here and queued.           *)

\* saveState: a signed-out device queues nothing, and keeps what it had queued.
Save(d, values) ==
  /\ local' = [local EXCEPT ![d] = values]
  /\ \/ user[d] = Null /\ UNCHANGED <<queued, doubts>>
     \/ /\ user[d] # Null
        /\ queued' = [queued EXCEPT ![d] = values]
        /\ doubts' = [doubts EXCEPT ![d] = @ \ {"early"}]
  /\ UNCHANGED <<user, migratedFor, base, adoption, settledFor, account, faults, sessions,
                 had, dead, torn>>

New(r) == author[r] = Null

\* Whose record it is: the person's whose account is on the page, or whose data a signed-out
\* device holds.  On a page that shows another account than the one signed in, nobody's.
Maker(d) == CASE user[d] # Null /\ settledFor[d] = user[d]     -> user[d]
              [] user[d] = Null /\ migratedFor[d] # Null -> migratedFor[d]
              [] OTHER -> "anyone"

CreateAction(d, a) ==
  /\ New(a) /\ Tick
  /\ Save(d, [local[d] EXCEPT ![a] = clock + 1])
  /\ author' = [author EXCEPT ![a] = Maker(d)]

EditAction(d, a) ==
  /\ "edit" \in Env /\ local[d][a] # 0 /\ Tick
  /\ Save(d, [local[d] EXCEPT ![a] = clock + 1])
  /\ UNCHANGED author

CompletionsOf(a) == {c \in Completions : ActionOf[c] = a}

\* The completions go with their action.
DeleteAction(d, a) ==
  /\ "remove" \in Env /\ local[d][a] # 0 /\ Tick
  /\ Save(d, [r \in Records |-> IF r = a \/ r \in CompletionsOf(a) THEN 0 ELSE local[d][r]])
  /\ UNCHANGED author

\* The completion is a new row; the action's history, and so its stamp, moves on.
CompleteOccurrence(d, c) ==
  LET a == ActionOf[c]
  IN  /\ "complete" \in Env /\ New(c) /\ Tick
      /\ local[d][a] # 0 /\ \A e \in CompletionsOf(a) : local[d][e] = 0
      /\ Save(d, [local[d] EXCEPT ![c] = clock + 1, ![a] = clock + 1])
      /\ author' = [author EXCEPT ![c] = Maker(d)]

UncompleteOccurrence(d, a) ==
  /\ "undo" \in Env /\ \E c \in CompletionsOf(a) : local[d][c] # 0
  /\ Tick
  /\ Save(d, [r \in Records |-> IF r \in CompletionsOf(a) THEN 0 ELSE local[d][r]])
  /\ UNCHANGED author

-----------------------------------------------------------------------------
(* One domain of a flush, as the database takes it.                        *)

Upserts(ids, snap, known) == {r \in ids : snap[r] # 0 /\ snap[r] # known[r]}
Deletes(ids, snap, known) == {r \in ids : snap[r] = 0 /\ known[r] # 0}

\* Mutant: the identity of an occurrence is not unique.
AcceptsDuplicates(acc, p, ups) ==
  /\ \A r \in ups : acc.owner[r] \in {p, Null}
  /\ \A c \in ups \cap Completions : acc.rows[ActionOf[c]] # 0

\* A row of another account is out of reach; a completion needs its action, and one
\* row per occurrence is all there may be.
Accepts(acc, p, ups) ==
  /\ \A r \in ups : acc.owner[r] \in {p, Null}
  /\ \A c \in ups \cap Completions :
       /\ acc.rows[ActionOf[c]] # 0
       /\ \A e \in CompletionsOf(ActionOf[c]) \ {c} : acc.rows[e] = 0 /\ e \notin ups

Stored(acc, p, snap, ups) ==
  [rows  |-> [r \in Records |-> IF r \in ups THEN snap[r] ELSE acc.rows[r]],
   owner |-> [r \in Records |-> IF r \in ups THEN p ELSE acc.owner[r]],
   marks |-> acc.marks]

\* The rows this person has; their completions are cascaded to.
Deleted(acc, p, ids) ==
  LET own  == {r \in ids : acc.owner[r] = p}
      gone == own \cup {c \in Completions : ActionOf[c] \in own}
  IN  [rows  |-> [r \in Records |-> IF r \in gone THEN 0 ELSE acc.rows[r]],
       owner |-> [r \in Records |-> IF r \in gone THEN Null ELSE acc.owner[r]],
       marks |-> acc.marks]

Marked(acc, p, ids) ==
  [acc EXCEPT !.marks[p] = [r \in Records |-> IF r \in ids THEN clock ELSE acc.marks[p][r]]]

\* The rows of guarded actions this push may be refused as stale: present, and not as
\* this device last saw them (GuardedPush has the versions).
MayBeStale(acc, ups, known) ==
  {a \in ups \cap Actions : acc.rows[a] # 0 /\ acc.rows[a] # known[a]}

\* Every way the push of the domain may end: what the database holds then, what was
\* deleted and marked, whether the domain succeeded, and the faults it took.
Outcomes(acc, p, snap, known, ids) ==
  LET ups  == Upserts(ids, snap, known)
      dels == Deletes(ids, snap, known)
      landed(stale) == Stored(acc, p, snap, ups \ stale)
      marked(stale) == Marked(Deleted(landed(stale), p, dels), p, dels)
      died == {<<p, r, acc.rows[r]>> : r \in {x \in dels : acc.rows[x] # 0 /\ acc.owner[x] = p}}
      end(after, gone, ok, n) ==
        [acc |-> after, dead |-> gone, ok |-> ok, half |-> ~ok /\ after # acc, faults |-> n]
      refused == {end(acc, {}, FALSE, 0)}
      fails   == IF "net" \in Env /\ ups \cup dels # {} THEN {end(acc, {}, FALSE, 1)} ELSE {}
      passes  == {end(marked(st), died, TRUE, 0) : st \in SUBSET MayBeStale(acc, ups, known)}
      halves  == IF "half" \in Env /\ ups \cup dels # {}
                 THEN {end(landed({}), {}, FALSE, 1), end(Deleted(landed({}), p, dels), {}, FALSE, 1),
                       end(marked({}), died, FALSE, 1)}
                 ELSE {}
  IN  fails \cup (IF Accepts(acc, p, ups) THEN passes \cup halves ELSE refused)

Known(d) == IF base[d] = Null THEN Nothing ELSE base[d]

\* A flush whose page installed the account of the person signed in, with the ledger at
\* hand, and that carries neither an older snapshot nor rows it has already sent.
Informed(d) == settledFor[d] = user[d] /\ doubts[d] = {}

\* What such a flush does not answer for: a record it took into an account not its
\* maker's is from then on nobody's in particular.
Carried(d) ==
  author' = [r \in Records |->
               IF ~Informed(d) /\ account'.owner[r] \notin {account.owner[r], Null, author[r]}
               THEN "anyone" ELSE author[r]]

\* The domains in their order, each alone; what succeeded is the new baseline, and the
\* snapshot stays queued for the rest.
Flush(d) ==
  /\ user[d] # Null /\ queued[d] # Null /\ adoption[d] = Idle
  /\ \E x \in Outcomes(account, user[d], queued[d], Known(d), Actions) :
       \E y \in Outcomes(x.acc, user[d], queued[d], Known(d), Completions) :
         /\ faults + x.faults + y.faults <= MaxFaults /\ faults' = faults + x.faults + y.faults
         /\ account' = y.acc
         /\ dead' = dead \cup x.dead \cup y.dead
         /\ had' = had \cup {<<r, y.acc.rows[r]>> : r \in {q \in Records : y.acc.rows[q] # 0}}
         /\ base' = [base EXCEPT ![d] =
                       [r \in Records |-> IF (r \in Actions /\ x.ok) \/ (r \in Completions /\ y.ok)
                                          THEN queued[d][r] ELSE Known(d)[r]]]
         /\ queued' = [queued EXCEPT ![d] = IF x.ok /\ y.ok THEN Null ELSE @]
         /\ doubts' = [doubts EXCEPT ![d] =
                         (IF x.ok /\ y.ok THEN {} ELSE @)
                         \cup (IF x.half \/ y.half THEN {"half"} ELSE {})
                         \cup (@ \cap {"apart"}) \cup (IF "early" \in @ THEN {"apart"} ELSE {})]
  /\ Carried(d)
  /\ UNCHANGED <<user, migratedFor, local, adoption, settledFor, clock, sessions, torn>>

-----------------------------------------------------------------------------
(* A session event: load the rows, read the ledger, install.               *)

AdoptionUnchanged == UNCHANGED <<user, migratedFor, local, base, queued, settledFor, doubts,
                                 account, clock, pastVars>>

Begin(d) == adoption' = [adoption EXCEPT ![d] = [phase |-> "actions"]]

SessionEvent == sessions < MaxSessions /\ sessions' = sessions + 1

Refresh(d) ==
  /\ "refresh" \in Env /\ user[d] # Null /\ adoption[d] = Idle
  /\ SessionEvent /\ Begin(d)
  /\ AdoptionUnchanged /\ UNCHANGED faults

\* Signing out keeps the local data, the baseline and the queue.
SignOut(d) ==
  /\ "signout" \in Env /\ user[d] # Null /\ adoption[d] = Idle
  /\ user' = [user EXCEPT ![d] = Null]
  /\ UNCHANGED <<migratedFor, local, base, queued, adoption, settledFor, doubts, account,
                 pastVars, boundVars>>

SignIn(d, p) ==
  /\ user[d] = Null /\ adoption[d] = Idle
  /\ user' = [user EXCEPT ![d] = p]
  /\ SessionEvent /\ Begin(d)
  /\ UNCHANGED <<migratedFor, local, base, queued, settledFor, doubts, account, clock,
                 pastVars, faults>>

\* The page is opened again: the queue and the baseline are gone.
Reload(d) ==
  /\ "reload" \in Env /\ SessionEvent
  /\ base' = [base EXCEPT ![d] = Null] /\ queued' = [queued EXCEPT ![d] = Null]
  /\ adoption' = [adoption EXCEPT ![d] = IF user[d] = Null THEN Idle ELSE [phase |-> "actions"]]
  /\ settledFor' = [settledFor EXCEPT ![d] = Null] /\ doubts' = [doubts EXCEPT ![d] = {}]
  /\ UNCHANGED <<user, migratedFor, local, account, clock, pastVars, faults>>

Owned(p) == {r \in Records : account.rows[r] # 0 /\ account.owner[r] = p}
Read(p, ids) == [r \in Records |-> IF r \in Owned(p) \cap ids THEN account.rows[r] ELSE 0]

\* The tables are read one after the other.
LoadActions(d) ==
  /\ adoption[d].phase = "actions"
  /\ adoption' = [adoption EXCEPT ![d] = [phase |-> "completions", loaded |-> Read(user[d], Actions)]]
  /\ AdoptionUnchanged /\ UNCHANGED <<faults, sessions>>

LoadCompletions(d) ==
  /\ adoption[d].phase = "completions"
  /\ LET read == Read(user[d], Completions)
     IN  adoption' = [adoption EXCEPT ![d] =
           [phase |-> "ledger",
            loaded |-> [r \in Records |-> IF r \in Actions THEN adoption[d].loaded[r] ELSE read[r]]]]
  /\ AdoptionUnchanged /\ UNCHANGED <<faults, sessions>>

\* The gate opens again over what was there.
LoadFails(d) ==
  /\ adoption[d].phase = "actions" /\ Fault("load")
  /\ adoption' = [adoption EXCEPT ![d] = Idle]
  /\ AdoptionUnchanged /\ UNCHANGED sessions

HasData(values) == \E r \in Records : values[r] # 0

\* shouldSuppress: an action changed after it was deleted lives; a completion carries no
\* stamp of its own, and any marker is its end.
shouldSuppress(r, value, marks) == marks[r] # 0 /\ (r \in Completions \/ marks[r] >= value)

\* Mutants: the ledger is not consulted; the completions of a suppressed action stay.
KeepDeleted(values, marks) == values
SuppressAlone(values, marks) ==
  [r \in Records |-> IF shouldSuppress(r, values[r], marks) THEN 0 ELSE values[r]]

suppressDeleted(values, marks) ==
  LET own == {r \in Records : values[r] # 0 /\ shouldSuppress(r, values[r], marks)}
  IN  [r \in Records |-> IF r \in own \/ (r \in Completions /\ ActionOf[r] \in own)
                         THEN 0 ELSE values[r]]

mergeLocalOnly(loaded, mine) == [r \in Records |-> IF loaded[r] # 0 THEN loaded[r] ELSE mine[r]]

\* Mutant: whatever this device holds is taken for the person's own.
AnyoneIsOurs(d, p) == TRUE

localIsOurs(d, p) == migratedFor[d] \in {Null, p}

\* reconcileAdoption.
Reconciled(loaded, mine, ours) ==
  LET merged == IF ours THEN mergeLocalOnly(loaded, mine) ELSE loaded
  IN  [state |-> merged, baseline |-> loaded, push |-> merged # loaded]

\* migrateOrAdopt, from the answer of the ledger on.
Install(d) ==
  /\ adoption[d].phase = "ledger"
  /\ \E readable \in BOOLEAN :
       /\ IF readable THEN UNCHANGED faults ELSE Fault("ledger")
       /\ LET p     == user[d]
              mine  == IF readable THEN suppressDeleted(local[d], account.marks[p]) ELSE local[d]
              to    == Reconciled(adoption[d].loaded, mine, localIsOurs(d, p))
              early == IF queued[d] # Null /\ ~to.push THEN {"early"} ELSE {}
              lost  == IF \E r \in Records :
                            /\ adoption[d].loaded[r] = 0 /\ to.state[r] # 0
                            /\ <<r, to.state[r]>> \in had /\ <<p, r, to.state[r]>> \notin dead
                       THEN {"lost"} ELSE {}
          IN  /\ local' = [local EXCEPT ![d] = to.state]
              /\ base' = [base EXCEPT ![d] = IF to.push THEN to.baseline ELSE to.state]
              /\ queued' = [queued EXCEPT ![d] = IF to.push THEN to.state ELSE @]
              /\ migratedFor' = [migratedFor EXCEPT ![d] = p]
              /\ settledFor' = [settledFor EXCEPT ![d] = p]
              /\ doubts' = [doubts EXCEPT ![d] =
                               early \cup lost \cup (IF readable THEN {} ELSE {"unread"})]
  /\ adoption' = [adoption EXCEPT ![d] = Idle]
  /\ torn' = IF \E c \in Completions : adoption[d].loaded[c] # 0 /\ adoption[d].loaded[ActionOf[c]] = 0
             THEN torn \cup {d} ELSE torn
  /\ UNCHANGED <<user, account, clock, author, had, dead, sessions>>

-----------------------------------------------------------------------------
\* Every page is open, signed in by one person, and level with an account that holds
\* some of that person's actions.
Init ==
  \E p \in People, known \in SUBSET Actions :
    LET values == [r \in Records |-> IF r \in known THEN 1 ELSE 0]
    IN  /\ user = [d \in Devices |-> p] /\ migratedFor = user /\ settledFor = user
        /\ local = [d \in Devices |-> values] /\ base = local
        /\ queued = [d \in Devices |-> Null] /\ adoption = [d \in Devices |-> Idle]
        /\ account = [rows |-> values,
                      owner |-> [r \in Records |-> IF r \in known THEN p ELSE Null],
                      marks |-> [q \in People |-> Nothing]]
        /\ author = [r \in Records |-> IF r \in known THEN p ELSE Null]
        /\ had = {<<r, 1>> : r \in known}
        /\ dead = {} /\ torn = {} /\ doubts = [d \in Devices |-> {}]
        /\ clock = 1 /\ faults = 0 /\ sessions = 0

Person(d) == \/ \E a \in Actions : \/ CreateAction(d, a) \/ EditAction(d, a) \/ DeleteAction(d, a)
                                   \/ UncompleteOccurrence(d, a)
             \/ \E c \in Completions : CompleteOccurrence(d, c)
Session(d) == LoadActions(d) \/ LoadCompletions(d) \/ LoadFails(d) \/ Install(d)
Events(d) == Refresh(d) \/ SignOut(d) \/ (\E p \in People : SignIn(d, p)) \/ Reload(d)

Next == \E d \in Devices : Person(d) \/ Flush(d) \/ Session(d) \/ Events(d)
Spec == Init /\ [][Next]_vars

\* A queued snapshot is pushed again and again, and a session event is handled.
FairSpec == Spec /\ \A d \in Devices : WF_vars(Flush(d)) /\ WF_vars(Session(d))

-----------------------------------------------------------------------------
(* Properties.                                                             *)

\* The types, and what the database's constraints promise of the account: a completion
\* has its action, and an occurrence is recorded once.
TypeOK ==
  /\ user \in [Devices -> People \cup {Null}] /\ migratedFor \in [Devices -> People \cup {Null}]
  /\ settledFor \in [Devices -> People \cup {Null}]
  /\ local \in [Devices -> Values] /\ base \in [Devices -> Values \cup {Null}]
  /\ queued \in [Devices -> Values \cup {Null}] /\ adoption \in [Devices -> Adoptions]
  /\ account \in Accounts
  /\ author \in [Records -> People \cup {Null, "anyone"}]
  /\ had \subseteq Records \X Nat /\ dead \subseteq People \X Records \X Nat
  /\ doubts \in [Devices -> SUBSET Doubts]
  /\ torn \subseteq Devices /\ clock \in Nat /\ faults \in Nat /\ sessions \in Nat
  /\ \A c \in Completions : account.rows[c] # 0 =>
       /\ account.rows[ActionOf[c]] # 0
       /\ \A e \in CompletionsOf(ActionOf[c]) \ {c} : account.rows[e] = 0

\* A value that was deleted from an account with its marker never comes back to it from
\* a page that knows the account: not from a device that slept through the deletion, was
\* reloaded, was signed out, or failed some of its calls since.  (A page may not know of
\* a value that the account lost without a marker, in a deletion cut short: two devices
\* may then hold it, and one bring back what the other has deleted since.)
DeletedStaysDeleted ==
  [][\A d \in Devices, r \in Records :
       Flush(d) /\ Informed(d) /\ account'.rows[r] # account.rows[r]
       => <<user[d], r, account'.rows[r]>> \notin dead]_vars

\* What one person made never reaches the account of another, whoever signs in and out
\* on the device, as long as no queue outlives its session and every adoption succeeds.
OwnAccountOnly ==
  [][\A d \in Devices, r \in Records :
       Flush(d) /\ Informed(d) /\ account'.owner[r] # account.owner[r]
       => account'.owner[r] \in {Null, author[r]} \/ author[r] = "anyone"]_vars

\* No queued snapshot holds a completion without its action: the database would refuse
\* it, and the domain with it, for good.  (Not on a device whose load read the actions
\* before another device added one, and the completions after.)
PushedHaveActions ==
  \A d \in Devices \ torn : queued[d] # Null =>
    \A c \in Completions : queued[d][c] # 0 => queued[d][ActionOf[c]] # 0

-----------------------------------------------------------------------------
(* What the repository's documents say and the code does not keep.         *)

\* What was queued arrives once nothing fails any more.
QueuedArrives == \A d \in Devices : user[d] # Null ~> (queued[d] = Null \/ user[d] = Null)
=============================================================================
