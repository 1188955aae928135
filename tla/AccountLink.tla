----------------------------- MODULE AccountLink -----------------------------
(***************************************************************************)
(* Linking one provider account to one person: startLink, completeLink and *)
(* disconnect (src/lib/integrations/link.ts), the one-time state           *)
(* (oauth-state.ts), the vault (vault.ts, supabaseTokenVault) and the use  *)
(* of a stored credential (getProviderAccessToken in access.ts), over the  *)
(* tables of src/supabase/migrations/0042_integration_accounts.sql.        *)
(*                                                                         *)
(* Every await is a step of its own.  The stores behind the interfaces are *)
(* the tables: an account row is removed with its credential, no           *)
(* credential is put for a row that is gone, and only one row names the    *)
(* provider account.  The provider is outside the code: each consent is a  *)
(* grant of its own, a number, alive until it is revoked.                  *)
(***************************************************************************)
EXTENDS Naturals, FiniteSets

CONSTANTS
  States,      \* authorization states handed out
  Callbacks,   \* callback requests; a row one creates has its name as id
  Readers,     \* requests that need an access token
  Env,         \* what may go wrong, once each: "meta": a write of the metadata fails;
               \* "vault": one of the vault; "provider": a call of the provider;
               \* "revoke": the person revokes there; "crash": a callback is cut short
  MaxGrants,   \* bound: consents the provider gives
  Null

EnvKinds == {"meta", "vault", "provider", "revoke", "crash"}
Ids == Callbacks

ASSUME EnvAssumption   == Env \subseteq EnvKinds
ASSUME BoundAssumption == MaxGrants \in Nat

VARIABLES
  state,    \* integration_oauth_states: per state "none", "pending", "consumed"
  claims,   \* history: the callbacks that claimed each state
  row,      \* integration_accounts: per id the row, or Null
  cred,     \* integration_credentials: per id the credential, or Null
  link,     \* per callback: where completeLink is, or Null
  read,     \* per reader: where getProviderAccessToken is, or Null
  leave,    \* where disconnect is, or Null
  grants, live,   \* the provider: consents given, and those not revoked
  faults    \* history: the kinds of failure that have happened

storeVars    == <<row, cred>>
providerVars == <<grants, live>>
vars == <<state, claims, storeVars, link, read, leave, providerVars, faults>>

AccountRows == [status : {"pending", "connected", "revoked"}, named : BOOLEAN]
\* The grants the two tokens of a credential come from.
Credentials == [access : Nat, refresh : Nat \cup {Null}]
Links  == [step : {"claimed", "exchanged", "create", "store", "update", "undo", "drop"},
           id : Ids, existing : BOOLEAN, grant : Nat]
Reads  == [step : {"load", "refresh", "get", "put", "mark"}, id : Ids,
           cred : Credentials \cup {Null}, rotated : BOOLEAN]
Leaves == [step : {"load", "revoke", "delete", "remove"}, id : Ids, grant : Nat]
ASSUME NullAssumption ==
  Null \notin Nat \cup AccountRows \cup Credentials \cup Links \cup Reads \cup Leaves

Init ==
  /\ state = [s \in States |-> "none"] /\ claims = [s \in States |-> {}]
  /\ row = [a \in Ids |-> Null] /\ cred = row
  /\ link = [c \in Callbacks |-> Null] /\ read = [r \in Readers |-> Null] /\ leave = Null
  /\ grants = 0 /\ live = {} /\ faults = {}

Fault(kind) == kind \in Env \ faults /\ faults' = faults \cup {kind}

-----------------------------------------------------------------------------
(* The tables.                                                             *)

\* integration_accounts_identity_idx: one row names the provider account.
MayConnect(a) == row[a] # Null /\ \A b \in Ids \ {a} : row[b] # Null => ~row[b].named

\* Mutant: the credential stays behind.
RemoveRowOnly(a) == row' = [row EXCEPT ![a] = Null] /\ UNCHANGED cred

\* The credential goes with its row: on delete cascade.
RemoveRow(a) == row' = [row EXCEPT ![a] = Null] /\ cred' = [cred EXCEPT ![a] = Null]

\* A credential references its row.
MayPut(a) == row[a] # Null
Put(a, c) == cred' = [cred EXCEPT ![a] = c] /\ UNCHANGED row

-----------------------------------------------------------------------------
(* startLink and completeLink.                                             *)

startLink(s) ==
  /\ state[s] = "none" /\ state' = [state EXCEPT ![s] = "pending"]
  /\ UNCHANGED <<claims, storeVars, link, read, leave, providerVars, faults>>

Step(c, l)    == link' = [link EXCEPT ![c] = l]
Goto(c, step) == Step(c, [link[c] EXCEPT !.step = step])
At(c, step)   == link[c] # Null /\ link[c].step = step
Others        == <<state, claims, read, leave>>

\* CONSUME_STATE_SQL: unconsumed, in one statement.
Unconsumed(s) == state[s] = "pending"

consume(c, s) ==
  /\ link[c] = Null /\ Unconsumed(s)
  /\ \A t \in States : c \notin claims[t]
  /\ state' = [state EXCEPT ![s] = "consumed"]
  /\ claims' = [claims EXCEPT ![s] = @ \cup {c}]
  /\ Step(c, [step |-> "claimed", id |-> c, existing |-> FALSE, grant |-> 0])
  /\ UNCHANGED <<storeVars, read, leave, providerVars, faults>>

\* exchangeCode and getAccountIdentity: a consent becomes a grant.
exchangeCode(c) ==
  /\ At(c, "claimed")
  /\ \/ /\ grants < MaxGrants /\ grants' = grants + 1 /\ live' = live \cup {grants'}
        /\ Step(c, [link[c] EXCEPT !.step = "exchanged", !.grant = grants'])
        /\ UNCHANGED faults
     \/ Fault("provider") /\ Step(c, Null) /\ UNCHANGED providerVars
  /\ UNCHANGED <<Others, storeVars>>

findByProviderAccount(c) ==
  /\ At(c, "exchanged")
  /\ IF \E a \in Ids : row[a] # Null /\ row[a].named
     THEN \E a \in Ids : /\ row[a] # Null /\ row[a].named
                         /\ Step(c, [link[c] EXCEPT !.step = "store", !.id = a,
                                                    !.existing = TRUE])
     ELSE Goto(c, "create")
  /\ UNCHANGED <<Others, storeVars, providerVars, faults>>

\* Mutant: the row says connected from the start.
CreateConnected(c) ==
  /\ At(c, "create") /\ Goto(c, "store")
  /\ row' = [row EXCEPT ![c] = [status |-> "connected", named |-> TRUE]]
  /\ UNCHANGED <<Others, cred, providerVars, faults>>

Create(c) ==
  /\ At(c, "create")
  /\ \/ /\ row' = [row EXCEPT ![c] = [status |-> "pending", named |-> FALSE]]
        /\ Goto(c, "store") /\ UNCHANGED faults
     \/ Fault("meta") /\ Step(c, Null) /\ UNCHANGED row
  /\ UNCHANGED <<Others, cred, providerVars>>

\* vault.store, with the refresh token an offline consent brings; when it fails a row made for this attempt is removed.
Store(c) ==
  /\ At(c, "store")
  /\ LET a == link[c].id  g == link[c].grant IN
     \/ /\ MayPut(a) /\ Put(a, [access |-> g, refresh |-> g])
        /\ Goto(c, "update") /\ UNCHANGED faults
     \/ /\ IF MayPut(a) THEN Fault("vault") ELSE UNCHANGED faults
        /\ IF link[c].existing THEN Step(c, Null) ELSE Goto(c, "drop")
        /\ UNCHANGED storeVars
  /\ UNCHANGED <<Others, providerVars>>

\* Only now does anything say "connected".
Update(c) ==
  /\ At(c, "update")
  /\ LET a == link[c].id IN
     \/ /\ MayConnect(a) /\ Step(c, Null) /\ UNCHANGED faults
        /\ row' = [row EXCEPT ![a] = [status |-> "connected", named |-> TRUE]]
     \/ /\ IF MayConnect(a) THEN Fault("meta") ELSE UNCHANGED faults
        /\ Goto(c, "undo") /\ UNCHANGED row
  /\ UNCHANGED <<Others, cred, providerVars>>

\* A failed metadata write deletes the credential it just stored.
Undo(c) ==
  /\ At(c, "undo")
  /\ \/ Put(link[c].id, Null) /\ UNCHANGED faults
     \/ Fault("vault") /\ UNCHANGED storeVars
  /\ IF link[c].existing THEN Step(c, Null) ELSE Goto(c, "drop")
  /\ UNCHANGED <<Others, providerVars>>

Drop(c) ==
  /\ At(c, "drop") /\ Step(c, Null)
  /\ \/ RemoveRow(c) /\ UNCHANGED faults
     \/ Fault("meta") /\ UNCHANGED storeVars
  /\ UNCHANGED <<Others, providerVars>>

Crash(c) ==
  /\ link[c] # Null /\ Fault("crash") /\ Step(c, Null)
  /\ UNCHANGED <<Others, storeVars, providerVars>>

-----------------------------------------------------------------------------
(* getProviderAccessToken, for a token that needs a refresh.               *)

ReadStep(r, step, c, rotated) ==
  read' = [read EXCEPT ![r] = [step |-> step, id |-> read[r].id, cred |-> c,
                               rotated |-> rotated]]
Reading(r, step) == read[r] # Null /\ read[r].step = step
ReadEnds(r)      == read' = [read EXCEPT ![r] = Null]
Unread           == <<state, claims, link, leave>>

GetAccount(r) ==
  /\ read[r] = Null
  /\ \E a \in Ids :
       /\ row[a] # Null /\ row[a].status = "connected"
       /\ read' = [read EXCEPT ![r] = [step |-> "load", id |-> a, cred |-> Null,
                                       rotated |-> FALSE]]
  /\ UNCHANGED <<Unread, storeVars, providerVars, faults>>

LoadCredential(r) ==
  /\ Reading(r, "load")
  /\ LET c == cred[read[r].id] IN
     IF c # Null /\ c.refresh # Null THEN ReadStep(r, "refresh", c, FALSE) ELSE ReadEnds(r)
  /\ UNCHANGED <<Unread, storeVars, providerVars, faults>>

\* A grant that is alive gives a new access token, and at times a new refresh token;
\* one that is not is refused: invalid_grant.
refreshAccessToken(r) ==
  /\ Reading(r, "refresh")
  /\ \/ /\ read[r].cred.refresh \in live /\ UNCHANGED faults
        /\ \E rotated \in BOOLEAN : ReadStep(r, "get", read[r].cred, rotated)
     \/ /\ read[r].cred.refresh \notin live /\ UNCHANGED faults
        /\ ReadStep(r, "mark", read[r].cred, FALSE)
     \/ Fault("provider") /\ ReadEnds(r)
  /\ UNCHANGED <<Unread, storeVars, providerVars>>

\* Mutant: the row is written whole, not patched.
MarkRevokedWhole(r) ==
  /\ Reading(r, "mark") /\ ReadEnds(r) /\ row[read[r].id] # Null
  /\ row' = [row EXCEPT ![read[r].id] = [status |-> "revoked"]]
  /\ UNCHANGED <<Unread, cred, providerVars, faults>>

MarkRevoked(r) ==
  /\ Reading(r, "mark") /\ ReadEnds(r)
  /\ LET a == read[r].id IN
     \/ /\ row[a] # Null /\ UNCHANGED faults
        /\ row' = [row EXCEPT ![a].status = "revoked"]
     \/ /\ (row[a] = Null /\ UNCHANGED faults) \/ Fault("meta")
        /\ UNCHANGED row
  /\ UNCHANGED <<Unread, cred, providerVars>>

\* A refresh token the response leaves out is preserved.
Merged(old, new, rotated) ==
  [access |-> new, refresh |-> IF rotated THEN new ELSE old.refresh]

\* replace reads the stored credential ...
ReplaceGet(r) ==
  /\ Reading(r, "get")
  /\ LET stored == cred[read[r].id] IN
     IF stored = Null THEN ReadEnds(r)
     ELSE ReadStep(r, "put", Merged(stored, read[r].cred.refresh, read[r].rotated), FALSE)
  /\ UNCHANGED <<Unread, storeVars, providerVars, faults>>

\* ... and puts the merged one.
ReplacePut(r) ==
  /\ Reading(r, "put") /\ ReadEnds(r)
  /\ LET a == read[r].id IN
     \/ MayPut(a) /\ Put(a, read[r].cred) /\ UNCHANGED faults
     \/ /\ (~MayPut(a) /\ UNCHANGED faults) \/ Fault("vault")
        /\ UNCHANGED storeVars
  /\ UNCHANGED <<Unread, providerVars>>

-----------------------------------------------------------------------------
(* disconnect, and the person at the provider.                             *)

Unleft == <<state, claims, link, read>>
Leaving(step) == leave # Null /\ leave.step = step

Disconnect(a) ==
  /\ leave = Null /\ row[a] # Null
  /\ leave' = [step |-> "load", id |-> a, grant |-> 0]
  /\ UNCHANGED <<Unleft, storeVars, providerVars, faults>>

DisconnectLoad ==
  /\ Leaving("load")
  /\ leave' = IF cred[leave.id] = Null THEN [leave EXCEPT !.step = "delete"]
              ELSE LET c == cred[leave.id] IN
                   [leave EXCEPT !.step = "revoke",
                                 !.grant = IF c.refresh # Null THEN c.refresh ELSE c.access]
  /\ UNCHANGED <<Unleft, storeVars, providerVars, faults>>

DisconnectRevoke ==
  /\ Leaving("revoke") /\ leave' = [leave EXCEPT !.step = "delete"]
  /\ \/ live' = live \ {leave.grant} /\ UNCHANGED faults
     \/ Fault("provider") /\ UNCHANGED live
  /\ UNCHANGED <<Unleft, storeVars, grants>>

DisconnectDelete ==
  /\ Leaving("delete") /\ leave' = [leave EXCEPT !.step = "remove"]
  /\ \/ Put(leave.id, Null) /\ UNCHANGED faults
     \/ Fault("vault") /\ UNCHANGED storeVars
  /\ UNCHANGED <<Unleft, providerVars>>

DisconnectRemove ==
  /\ Leaving("remove") /\ leave' = Null
  /\ \/ RemoveRow(leave.id) /\ UNCHANGED faults
     \/ Fault("meta") /\ UNCHANGED storeVars
  /\ UNCHANGED <<Unleft, providerVars>>

RevokeAtProvider ==
  /\ live # {} /\ Fault("revoke") /\ live' = {}
  /\ UNCHANGED <<state, claims, storeVars, link, read, leave, grants>>

CallbackStep(c) ==
  \/ \E s \in States : consume(c, s)
  \/ exchangeCode(c) \/ findByProviderAccount(c) \/ Create(c) \/ Store(c) \/ Update(c)
  \/ Undo(c) \/ Drop(c) \/ Crash(c)

ReaderStep(r) ==
  \/ GetAccount(r) \/ LoadCredential(r) \/ refreshAccessToken(r) \/ MarkRevoked(r)
  \/ ReplaceGet(r) \/ ReplacePut(r)

Next ==
  \/ \E s \in States : startLink(s)
  \/ \E c \in Callbacks : CallbackStep(c)
  \/ \E r \in Readers : ReaderStep(r)
  \/ \E a \in Ids : Disconnect(a)
  \/ DisconnectLoad \/ DisconnectRevoke \/ DisconnectDelete \/ DisconnectRemove
  \/ RevokeAtProvider

Spec == Init /\ [][Next]_vars

-----------------------------------------------------------------------------
(* Correctness.                                                            *)

\* Every variable stays in its type.
TypeOK ==
  /\ state \in [States -> {"none", "pending", "consumed"}]
  /\ claims \in [States -> SUBSET Callbacks]
  /\ row \in [Ids -> AccountRows \cup {Null}] /\ cred \in [Ids -> Credentials \cup {Null}]
  /\ link \in [Callbacks -> Links \cup {Null}] /\ read \in [Readers -> Reads \cup {Null}]
  /\ leave \in Leaves \cup {Null}
  /\ grants \in Nat /\ live \subseteq 1 .. grants /\ faults \subseteq Env

\* Two callbacks never both get past one state (oauth-state.ts: "exactly one winner").
StateUsedOnce ==
  \A s \in States : \A c, d \in claims[s] : c = d

Whole(a) ==
  row[a] # Null /\ row[a].status = "connected" /\ (leave = Null \/ leave.id # a)
  => cred[a] # Null

\* A row that says connected has a credential, unless it is being disconnected
\* (link.ts: "A failure at any step must leave NO row claiming to be connected").
ConnectedHasCredential == \A a \in Ids : Whole(a)

\* So it is as long as the metadata can be written, however callbacks, refreshes, a
\* disconnect, a crash and failures of the vault and the provider interleave.
ConnectedIsWhole == "meta" \notin faults => ConnectedHasCredential

\* A credential belongs to a row that names its account, or to one whose callback is
\* still at work: unless that is cut short, or the metadata cannot be written, no
\* secret is left that nothing points at.
NoOrphanSecret ==
  \A a \in Ids : cred[a] # Null =>
    /\ row[a] # Null
    /\ \/ row[a].named \/ faults \cap {"crash", "meta"} # {}
       \/ \E c \in Callbacks : link[c] # Null /\ link[c].id = a

\* No refresh loses the permission to refresh (access.ts: "an absent refresh token in
\* a refresh response PRESERVES the stored one").
PermissionKept ==
  [][\A a \in Ids : cred[a] # Null /\ cred[a].refresh # Null /\ cred'[a] # Null
       => cred'[a].refresh # Null]_vars
=============================================================================
