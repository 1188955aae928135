----------------------------- MODULE SessionGate -----------------------------
(***************************************************************************)
(* Who is signed in, as the tab comes to know it: initPersistence,         *)
(* queueSession and handleSession (src/lib/persistence.ts) over the        *)
(* Supabase client, what src/lib/authStore.ts shows of it, and the paid    *)
(* boundary that follows: PaidAccessGate.tsx, the shared read of           *)
(* src/lib/billing/subscriptionStore.ts and src/lib/billing/gate.ts, for a *)
(* deployment that requires a subscription.                                *)
(*                                                                         *)
(* The Supabase client is outside the code: it changes its session, emits  *)
(* an event for each change, emits INITIAL_SESSION at some time or never,  *)
(* and may leave getSession unanswered.                                    *)
(***************************************************************************)
EXTENDS Naturals, Sequences

CONSTANTS
  Persons,      \* accounts
  Subscribed,   \* those with a row that entitles
  MaxChanges,   \* bound: sign-ins and sign-outs
  MaxFaults,    \* bound: reads of the row that fail
  Null

ASSUME PersonAssumption == Subscribed \subseteq Persons /\ Null \notin Persons
ASSUME BoundAssumption  == MaxChanges \in Nat /\ MaxFaults \in Nat

VARIABLES
  who,        \* the client's session
  emits,      \* events emitted and not delivered yet
  announced,  \* has INITIAL_SESSION been emitted?
  initialSessionHandled,
  asked,      \* getSession: "asking", "answered", "failed"
  chain,      \* sessions queued, the first one being handled if `adopting`
  adopting,
  auth,       \* authStore: loading, email, and was the check given up?
  remote,     \* the account the sync adapter was made for
  sub,        \* subscriptionStore: resolved, and whose row
  inFlight,   \* the shared read, or Null
  seen,       \* the email the gate's effect last ran for
  shared,     \* history: that run found a read in flight
  overruled,  \* history: the check was given up while an account was synchronized
  startups,   \* history: how often the session found at startup was queued
  changes, faults

clientVars == <<who, emits, announced, changes>>
bootVars   == <<initialSessionHandled, asked, chain, adopting, auth, remote, overruled,
                startups>>
subVars    == <<sub, inFlight, seen, shared, faults>>
vars       == <<clientVars, bootVars, subVars>>

Sessions == Persons \cup {Null}
Emitted  == [kind : {"initial", "change"}, session : Sessions]
Reads    == [step : {"user", "row"}, user : Sessions]
ASSUME NullAssumption == Null \notin Reads

Init ==
  /\ who \in Sessions /\ emits = <<>> /\ changes = 0
  /\ announced = FALSE /\ initialSessionHandled = FALSE /\ asked = "asking"
  /\ chain = <<>> /\ adopting = FALSE
  /\ auth = [loading |-> TRUE, email |-> Null, unavailable |-> FALSE]
  /\ remote = Null /\ overruled = FALSE /\ startups = 0
  /\ sub = [resolved |-> FALSE, of |-> Null] /\ inFlight = Null
  /\ seen = "never" /\ shared = FALSE /\ faults = 0

-----------------------------------------------------------------------------
(* The Supabase client.                                                    *)

Emit(kind, session) == emits' = Append(emits, [kind |-> kind, session |-> session])

EmitInitialSession ==
  /\ ~announced /\ announced' = TRUE /\ Emit("initial", who)
  /\ UNCHANGED <<who, changes, bootVars, subVars>>

\* Signing in, signing out, another account from another tab.
ChangeSession ==
  /\ changes < MaxChanges /\ changes' = changes + 1
  /\ \E s \in Sessions \ {who} : who' = s /\ Emit("change", s)
  /\ UNCHANGED <<announced, bootVars, subVars>>

-----------------------------------------------------------------------------
(* initPersistence and handleSession.                                      *)

Queue(e) ==
  /\ chain' = Append(chain, e.session)
  /\ startups' = startups + (IF e.kind = "initial" THEN 1 ELSE 0)

\* Mutant: the event and the explicit read both drive the startup session.
ListenerUnclaimed ==
  /\ emits # <<>> /\ emits' = Tail(emits)
  /\ Queue(Head(emits))
  /\ initialSessionHandled' = (initialSessionHandled \/ Head(emits).kind = "initial")
  /\ UNCHANGED <<who, announced, changes, asked, adopting, auth, remote, overruled, subVars>>

\* onAuthStateChange's callback: INITIAL_SESSION counts only if it comes first.
Listener ==
  /\ emits # <<>> /\ emits' = Tail(emits)
  /\ LET e == Head(emits) IN
     IF e.kind = "initial" /\ initialSessionHandled
     THEN UNCHANGED <<chain, initialSessionHandled, startups>>
     ELSE /\ Queue(e)
          /\ initialSessionHandled' = (initialSessionHandled \/ e.kind = "initial")
  /\ UNCHANGED <<who, announced, changes, asked, adopting, auth, remote, overruled, subVars>>

\* getSession answers in time.
GetSession ==
  /\ asked = "asking" /\ asked' = "answered"
  /\ IF initialSessionHandled THEN UNCHANGED <<chain, initialSessionHandled, startups>>
     ELSE Queue([kind |-> "initial", session |-> who]) /\ initialSessionHandled' = TRUE
  /\ UNCHANGED <<clientVars, adopting, auth, remote, overruled, subVars>>

\* React runs the effect of a change of email before the next one: see Effect.
EffectRan == seen = auth.email

\* Mutant: the check is given up and the header goes on waiting.
GivesUpSilently ==
  /\ asked = "asking" /\ EffectRan /\ asked' = "failed" /\ overruled' = (remote # Null)
  /\ UNCHANGED <<auth, clientVars, initialSessionHandled, chain, adopting, remote, startups,
                 subVars>>

\* It fails, or AUTH_BOOTSTRAP_TIMEOUT_MS pass: setAuthUnavailable.
GivesUp ==
  /\ asked = "asking" /\ EffectRan /\ asked' = "failed"
  /\ auth' = [loading |-> FALSE, email |-> Null, unavailable |-> TRUE]
  /\ overruled' = (remote # Null)
  /\ UNCHANGED <<clientVars, initialSessionHandled, chain, adopting, remote, startups, subVars>>

\* Mutant: the adapter outlives the session.
HandleKeepsRemote ==
  /\ chain # <<>> /\ ~adopting /\ EffectRan
  /\ auth' = [loading |-> FALSE, email |-> Head(chain), unavailable |-> FALSE]
  /\ overruled' = FALSE
  /\ IF Head(chain) = Null THEN chain' = Tail(chain) /\ UNCHANGED <<adopting, remote>>
     ELSE adopting' = TRUE /\ remote' = Head(chain) /\ UNCHANGED chain
  /\ UNCHANGED <<clientVars, initialSessionHandled, asked, startups, subVars>>

\* handleSession, one session after the other: applySession, then no account or the
\* adoption of this one.
HandleSession ==
  /\ chain # <<>> /\ ~adopting /\ EffectRan
  /\ auth' = [loading |-> FALSE, email |-> Head(chain), unavailable |-> FALSE]
  /\ remote' = Head(chain) /\ overruled' = FALSE
  /\ IF Head(chain) = Null THEN chain' = Tail(chain) /\ UNCHANGED adopting
     ELSE adopting' = TRUE /\ UNCHANGED chain
  /\ UNCHANGED <<clientVars, initialSessionHandled, asked, startups, subVars>>

\* The adoption ends, well or not.
SessionHandled ==
  /\ adopting /\ adopting' = FALSE /\ chain' = Tail(chain)
  /\ UNCHANGED <<clientVars, initialSessionHandled, asked, auth, remote, overruled, startups,
                 subVars>>

-----------------------------------------------------------------------------
(* The subscription store and the gate.                                    *)

\* Mutant: what was resolved once is not read again.
EffectWhenUnresolved ==
  /\ seen # auth.email /\ seen' = auth.email /\ shared' = FALSE
  /\ inFlight' = IF inFlight # Null \/ sub.resolved THEN inFlight
                 ELSE [step |-> "user", user |-> Null]
  /\ UNCHANGED <<clientVars, bootVars, sub, faults>>

\* The gate's effect, keyed on the email, calls refreshSubscription: a read in flight
\* is shared.
Effect ==
  /\ seen # auth.email /\ seen' = auth.email
  /\ inFlight' = IF inFlight # Null THEN inFlight ELSE [step |-> "user", user |-> Null]
  /\ shared' = (inFlight # Null)
  /\ UNCHANGED <<clientVars, bootVars, sub, faults>>

Answer(person) == sub' = [resolved |-> TRUE, of |-> person] /\ inFlight' = Null

\* getUser: nobody has no subscription.
GetUser ==
  /\ inFlight # Null /\ inFlight.step = "user"
  /\ IF who = Null THEN Answer(Null)
     ELSE inFlight' = [step |-> "row", user |-> who] /\ UNCHANGED sub
  /\ UNCHANGED <<clientVars, bootVars, seen, shared, faults>>

\* The row of that user, which only its owner's session may read.
ReadRow ==
  /\ inFlight # Null /\ inFlight.step = "row"
  /\ Answer(IF inFlight.user \in Subscribed /\ who = inFlight.user THEN who ELSE Null)
  /\ UNCHANGED <<clientVars, bootVars, seen, shared, faults>>

\* Mutant: a read that fails leaves the shared promise in place.
ReadSticks ==
  /\ inFlight # Null /\ faults < MaxFaults /\ faults' = faults + 1
  /\ inFlight' = [step |-> "failed", user |-> Null] /\ UNCHANGED sub
  /\ UNCHANGED <<clientVars, bootVars, seen, shared>>

\* Either call fails: no subscription.
ReadFails ==
  /\ inFlight # Null /\ faults < MaxFaults /\ faults' = faults + 1
  /\ Answer(Null)
  /\ UNCHANGED <<clientVars, bootVars, seen, shared>>

evaluateGate ==
  IF auth.loading THEN "loading"
  ELSE IF auth.email = Null THEN "sign-in"
  ELSE IF ~sub.resolved THEN "loading"
  ELSE IF sub.of # Null THEN "allow" ELSE "pricing"

-----------------------------------------------------------------------------
Session == Listener \/ GetSession \/ GivesUp \/ HandleSession \/ SessionHandled
Read    == GetUser \/ ReadRow \/ ReadFails

Next == EmitInitialSession \/ ChangeSession \/ Session \/ Effect \/ Read

Spec == Init /\ [][Next]_vars

\* The timer fires, promises are resumed, effects run; a read of the row ends.  Nothing
\* is owed by getSession or INITIAL_SESSION.
FairSpec ==
  /\ Spec /\ WF_vars(GivesUp) /\ WF_vars(Listener)
  /\ WF_vars(HandleSession \/ SessionHandled) /\ WF_vars(Effect) /\ WF_vars(Read)

-----------------------------------------------------------------------------
(* Correctness.                                                            *)

\* Every variable stays in its type.
TypeOK ==
  /\ who \in Sessions /\ emits \in Seq(Emitted) /\ announced \in BOOLEAN
  /\ initialSessionHandled \in BOOLEAN /\ asked \in {"asking", "answered", "failed"}
  /\ chain \in Seq(Sessions) /\ adopting \in BOOLEAN
  /\ auth \in [loading : BOOLEAN, email : Sessions, unavailable : BOOLEAN]
  /\ remote \in Sessions /\ overruled \in BOOLEAN /\ startups \in Nat
  /\ sub \in [resolved : BOOLEAN, of : Sessions] /\ inFlight \in Reads \cup {Null}
  /\ seen \in Sessions \cup {"never"} /\ shared \in BOOLEAN
  /\ changes \in Nat /\ faults \in Nat

\* Nothing is left to be delivered or handled.
Settled ==
  /\ emits = <<>> /\ chain = <<>> /\ (initialSessionHandled \/ asked = "failed")

\* INITIAL_SESSION and the explicit read describe the same session: whichever comes
\* first drives its adoption, and only that one.
StartupHandledOnce == startups <= 1

\* Once every event is handled the tab shows the session there is, or says that it
\* could not be checked.
SettledIsShown == Settled => auth.email = who \/ auth.unavailable

\* The account that is synchronized is the one that is shown: never behind a header that
\* says nobody is signed in - unless the check is given up after INITIAL_SESSION came.
SyncIsShown == remote = auth.email \/ overruled

\* When everything has come to rest the gate lets in exactly who is entitled, if the
\* last change of account found no read in flight and no read failed.
GateIsRight ==
  Settled /\ seen = auth.email /\ inFlight = Null /\ ~shared /\ faults = 0 /\ auth.email # Null
  => evaluateGate = IF auth.email \in Subscribed THEN "allow" ELSE "pricing"

\* Startup never hangs, whatever is not answered: the header resolves, and the boundary
\* comes to a decision.
GateDecides == []<>(evaluateGate # "loading")
=============================================================================
