-------------------------- MODULE AccountLinkProofs --------------------------
(***************************************************************************)
(* Theorems about AccountLink, for any number of states, callbacks and     *)
(* readers and every combination of failures.                              *)
(***************************************************************************)
EXTENDS AccountLink, TLAPS

\* What a reader holds once it has loaded a credential, and a credential in the vault
\* has the permission to refresh.
Refreshable(c) == c \in Credentials /\ c.refresh # Null
ReadsRefreshable ==
  /\ \A r \in Readers : read[r] # Null /\ read[r].step # "load" => Refreshable(read[r].cred)
  /\ \A a \in Ids : cred[a] # Null => Refreshable(cred[a])

TypeInv == TypeOK /\ ReadsRefreshable

-----------------------------------------------------------------------------
(* Types.                                                                  *)

LEMMA TypeInit == Init => TypeInv
  BY DEF Init, TypeInv, TypeOK, ReadsRefreshable

LEMMA CallbackTypes == ASSUME TypeInv, NEW c \in Callbacks, CallbackStep(c) PROVE TypeInv'
  <1>. USE DEF TypeInv, TypeOK, ReadsRefreshable, Others, storeVars, providerVars, Fault, Ids
  <1>0. /\ link[c] # Null => /\ link[c] \in Links /\ link[c].id \in Ids
                             /\ link[c].grant \in Nat /\ link[c].existing \in BOOLEAN
        /\ \A step \in {"claimed", "exchanged", "create", "store", "update", "undo", "drop"} :
             link[c] # Null => [link[c] EXCEPT !.step = step] \in Links
        /\ \A l \in Links \cup {Null} : [link EXCEPT ![c] = l] \in [Callbacks -> Links \cup {Null}]
    BY DEF Links
  <1>1. ASSUME NEW s \in States, consume(c, s) PROVE TypeInv'
    <2>1. [step |-> "claimed", id |-> c, existing |-> FALSE, grant |-> 0] \in Links
      BY DEF Links
    <2>2. /\ state' \in [States -> {"none", "pending", "consumed"}]
          /\ claims' \in [States -> SUBSET Callbacks]
      BY <1>1 DEF consume
    <2>3. UNCHANGED <<row, cred, read, leave, grants, live, faults>>
          /\ link' \in [Callbacks -> Links \cup {Null}]
      BY <1>1, <1>0, <2>1 DEF consume, Step
    <2>. QED  BY <2>2, <2>3
  <1>2. CASE exchangeCode(c)
    <2>1. grants + 1 \in Nat /\ grants' \in Nat /\ live' \subseteq 1 .. grants'
          /\ faults' \subseteq Env
      BY <1>2 DEF exchangeCode
    <2>2. link' \in [Callbacks -> Links \cup {Null}]
      <3>1. [link[c] EXCEPT !.step = "exchanged", !.grant = grants'] \in Links
        BY <1>2, <2>1 DEF exchangeCode, At, Links
      <3>. QED  BY <1>2, <1>0, <3>1 DEF exchangeCode, Step
    <2>. QED  BY <1>2, <2>1, <2>2 DEF exchangeCode
  <1>3. CASE findByProviderAccount(c)
    <2>1. \A a \in Ids : [link[c] EXCEPT !.step = "store", !.id = a, !.existing = TRUE] \in Links
      BY <1>3 DEF findByProviderAccount, At, Links
    <2>2. CASE \E a \in Ids : row[a] # Null /\ row[a].named
      <3>1. PICK a \in Ids :
              Step(c, [link[c] EXCEPT !.step = "store", !.id = a, !.existing = TRUE])
        BY <1>3, <2>2 DEF findByProviderAccount
      <3>2. link' \in [Callbacks -> Links \cup {Null}]
        BY <1>0, <2>1, <3>1 DEF Step
      <3>. QED  BY <1>3, <3>2 DEF findByProviderAccount
    <2>3. CASE ~(\E a \in Ids : row[a] # Null /\ row[a].named)
      <3>1. link[c] # Null /\ Step(c, [link[c] EXCEPT !.step = "create"])
        BY <1>3, <2>3 DEF findByProviderAccount, At, Goto
      <3>2. link' \in [Callbacks -> Links \cup {Null}]
        BY <1>0, <3>1 DEF Step
      <3>. QED  BY <1>3, <3>2 DEF findByProviderAccount
    <2>. QED  BY <2>2, <2>3
  <1>4. CASE Create(c)
    <2>1. [status |-> "pending", named |-> FALSE] \in AccountRows
      BY DEF AccountRows
    <2>. QED  BY <1>4, <1>0, <2>1 DEF Create, At, Goto, Step
  <1>5. CASE Store(c)
    <2>1. link[c] # Null /\ link' \in [Callbacks -> Links \cup {Null}] /\ faults' \subseteq Env
      BY <1>5, <1>0 DEF Store, At, Goto, Step
    <2>2. Refreshable([access |-> link[c].grant, refresh |-> link[c].grant])
      BY <1>0, <2>1, NullAssumption DEF Refreshable, Credentials
    <2>3. /\ row' = row /\ cred' \in [Ids -> Credentials \cup {Null}]
          /\ \A a \in Ids : cred'[a] # Null => Refreshable(cred'[a])
      BY <1>5, <1>0, <2>1, <2>2 DEF Store, Put, Refreshable
    <2>. QED  BY <1>5, <2>1, <2>3 DEF Store
  <1>6. CASE Update(c)
    <2>1. [status |-> "connected", named |-> TRUE] \in AccountRows
      BY DEF AccountRows
    <2>. QED  BY <1>6, <1>0, <2>1 DEF Update, At, Goto, Step
  <1>7. CASE Undo(c)
    BY <1>7, <1>0 DEF Undo, At, Goto, Step, Put
  <1>8. CASE Drop(c)
    BY <1>8, <1>0 DEF Drop, At, Step, RemoveRow
  <1>9. CASE Crash(c)
    BY <1>9, <1>0 DEF Crash, Step
  <1>. QED  BY <1>1, <1>2, <1>3, <1>4, <1>5, <1>6, <1>7, <1>8, <1>9 DEF CallbackStep

LEMMA ReaderTypes == ASSUME TypeInv, NEW r \in Readers, ReaderStep(r) PROVE TypeInv'
  <1>. USE DEF TypeInv, TypeOK, ReadsRefreshable, Unread, storeVars, providerVars, Fault, Ids
  <1>0. read[r] # Null => /\ read[r] \in Reads /\ read[r].id \in Ids
                          /\ read[r].step \in {"load", "refresh", "get", "put", "mark"}
                          /\ read[r].rotated \in BOOLEAN
    BY DEF Reads
  <1>1. CASE GetAccount(r)
    <2>1. PICK a \in Ids : read' = [read EXCEPT ![r] = [step |-> "load", id |-> a,
                                                        cred |-> Null, rotated |-> FALSE]]
      BY <1>1 DEF GetAccount
    <2>2. [step |-> "load", id |-> a, cred |-> Null, rotated |-> FALSE] \in Reads
      BY DEF Reads
    <2>. QED  BY <1>1, <2>1, <2>2 DEF GetAccount
  \* A step that goes on with a credential that may be refreshed.
  <1>2. ASSUME NEW step \in {"refresh", "get", "put", "mark"}, NEW c, Refreshable(c),
               NEW rotated \in BOOLEAN, read[r] # Null, ReadStep(r, step, c, rotated)
        PROVE  /\ read' \in [Readers -> Reads \cup {Null}]
               /\ \A q \in Readers : read'[q] # Null /\ read'[q].step # "load" =>
                                       Refreshable(read'[q].cred)
    <2>1. [step |-> step, id |-> read[r].id, cred |-> c, rotated |-> rotated] \in Reads
      BY <1>0, <1>2 DEF Reads, Refreshable
    <2>. QED  BY <1>2, <2>1 DEF ReadStep
  <1>3. ASSUME ReadEnds(r)
        PROVE  /\ read' \in [Readers -> Reads \cup {Null}]
               /\ \A q \in Readers : read'[q] # Null /\ read'[q].step # "load" =>
                                       Refreshable(read'[q].cred)
    BY <1>3 DEF ReadEnds
  <1>4. CASE LoadCredential(r)
    <2>1. read[r] # Null /\ UNCHANGED <<Unread, storeVars, providerVars, faults>>
      BY <1>4 DEF LoadCredential, Reading
    <2>2. \/ /\ Refreshable(cred[read[r].id])
             /\ ReadStep(r, "refresh", cred[read[r].id], FALSE)
          \/ ReadEnds(r)
      BY <1>0, <1>4, <2>1 DEF LoadCredential
    <2>3. /\ read' \in [Readers -> Reads \cup {Null}]
          /\ \A q \in Readers : read'[q] # Null /\ read'[q].step # "load" =>
                                  Refreshable(read'[q].cred)
      BY <1>2, <1>3, <2>1, <2>2
    <2>. QED  BY <2>1, <2>3
  <1>5. CASE refreshAccessToken(r)
    <2>1. /\ read[r] # Null /\ Refreshable(read[r].cred)
          /\ UNCHANGED <<Unread, storeVars, providerVars>> /\ faults' \subseteq Env
      BY <1>5 DEF refreshAccessToken, Reading
    <2>2. \/ \E rotated \in BOOLEAN : ReadStep(r, "get", read[r].cred, rotated)
          \/ ReadStep(r, "mark", read[r].cred, FALSE)
          \/ ReadEnds(r)
      BY <1>5 DEF refreshAccessToken
    <2>3. /\ read' \in [Readers -> Reads \cup {Null}]
          /\ \A q \in Readers : read'[q] # Null /\ read'[q].step # "load" =>
                                  Refreshable(read'[q].cred)
      BY <1>2, <1>3, <2>1, <2>2
    <2>. QED  BY <2>1, <2>3
  <1>6. CASE MarkRevoked(r)
    <2>1. row' \in [Ids -> AccountRows \cup {Null}]
      BY <1>0, <1>6 DEF MarkRevoked, Reading, AccountRows
    <2>2. UNCHANGED <<Unread, cred, providerVars>> /\ faults' \subseteq Env /\ ReadEnds(r)
      BY <1>6 DEF MarkRevoked
    <2>. QED  BY <1>3, <2>1, <2>2
  <1>7. CASE ReplaceGet(r)
    <2>. DEFINE stored == cred[read[r].id]
                merged == Merged(stored, read[r].cred.refresh, read[r].rotated)
    <2>1. /\ read[r] # Null /\ Refreshable(read[r].cred)
          /\ UNCHANGED <<Unread, storeVars, providerVars, faults>>
      BY <1>7 DEF ReplaceGet, Reading
    <2>2. stored # Null => Refreshable(merged)
      BY <1>0, <2>1, NullAssumption DEF Refreshable, Credentials, Merged
    <2>3. (stored # Null /\ ReadStep(r, "put", merged, FALSE)) \/ ReadEnds(r)
      BY <1>7 DEF ReplaceGet
    <2>4. /\ read' \in [Readers -> Reads \cup {Null}]
          /\ \A q \in Readers : read'[q] # Null /\ read'[q].step # "load" =>
                                  Refreshable(read'[q].cred)
      <3>. HIDE DEF stored, merged
      <3>. QED  BY <1>2, <1>3, <2>1, <2>2, <2>3
    <2>. QED  BY <2>1, <2>4
  <1>8. CASE ReplacePut(r)
    <2>1. /\ read[r] # Null /\ Refreshable(read[r].cred) /\ ReadEnds(r)
          /\ UNCHANGED <<Unread, providerVars>> /\ faults' \subseteq Env
      BY <1>8 DEF ReplacePut, Reading
    <2>2. /\ row' = row /\ cred' \in [Ids -> Credentials \cup {Null}]
          /\ \A a \in Ids : cred'[a] # Null => Refreshable(cred'[a])
      BY <1>0, <1>8, <2>1 DEF ReplacePut, Put, Refreshable
    <2>. QED  BY <1>3, <2>1, <2>2
  <1>. QED  BY <1>1, <1>4, <1>5, <1>6, <1>7, <1>8 DEF ReaderStep

LEMMA LeaveTypes ==
  ASSUME TypeInv,
         \/ \E a \in Ids : Disconnect(a)
         \/ DisconnectLoad \/ DisconnectRevoke \/ DisconnectDelete \/ DisconnectRemove
  PROVE  TypeInv'
  <1>. USE DEF TypeInv, TypeOK, ReadsRefreshable, Unleft, storeVars, providerVars, Fault
  <1>0. leave # Null => leave \in Leaves /\ leave.id \in Ids
    BY DEF Leaves
  <1>1. ASSUME NEW a \in Ids, Disconnect(a) PROVE TypeInv'
    <2>1. [step |-> "load", id |-> a, grant |-> 0] \in Leaves
      BY DEF Leaves
    <2>. QED  BY <1>1, <2>1 DEF Disconnect
  <1>2. CASE DisconnectLoad
    <2>1. leave # Null /\ UNCHANGED <<Unleft, storeVars, providerVars, faults>>
      BY <1>2 DEF DisconnectLoad, Leaving
    <2>2. CASE cred[leave.id] = Null
      <3>1. leave' = [leave EXCEPT !.step = "delete"]
        BY <1>2, <2>2 DEF DisconnectLoad
      <3>2. leave' \in Leaves
        BY <1>0, <2>1, <3>1 DEF Leaves
      <3>. QED  BY <2>1, <3>2
    <2>3. CASE cred[leave.id] # Null
      <3>1. Refreshable(cred[leave.id]) /\ cred[leave.id].refresh \in Nat
        BY <1>0, <2>1, <2>3 DEF Refreshable, Credentials
      <3>2. leave' = [leave EXCEPT !.step = "revoke", !.grant = cred[leave.id].refresh]
        BY <1>2, <2>3, <3>1 DEF DisconnectLoad, Refreshable
      <3>3. leave' \in Leaves
        BY <1>0, <2>1, <3>1, <3>2 DEF Leaves
      <3>. QED  BY <2>1, <3>3
    <2>. QED  BY <2>2, <2>3
  <1>3. CASE DisconnectRevoke
    <2>1. leave' \in Leaves
      BY <1>0, <1>3 DEF DisconnectRevoke, Leaving, Leaves
    <2>. QED  BY <1>3, <2>1 DEF DisconnectRevoke
  <1>4. CASE DisconnectDelete
    <2>1. leave' \in Leaves
      BY <1>0, <1>4 DEF DisconnectDelete, Leaving, Leaves
    <2>. QED  BY <1>0, <1>4, <2>1 DEF DisconnectDelete, Put, Leaving
  <1>5. CASE DisconnectRemove
    BY <1>0, <1>5 DEF DisconnectRemove, RemoveRow, Leaving
  <1>. QED  BY <1>1, <1>2, <1>3, <1>4, <1>5

LEMMA TypeStep == TypeInv /\ [Next]_vars => TypeInv'
  <1>. SUFFICES ASSUME TypeInv, [Next]_vars PROVE TypeInv'
    OBVIOUS
  <1>. USE DEF TypeInv, TypeOK, ReadsRefreshable
  <1>1. CASE UNCHANGED vars
    BY <1>1 DEF vars, storeVars, providerVars
  <1>2. ASSUME NEW s \in States, startLink(s) PROVE TypeInv'
    BY <1>2 DEF startLink, storeVars, providerVars
  <1>3. CASE RevokeAtProvider
    BY <1>3 DEF RevokeAtProvider, Fault, storeVars
  <1>. QED  BY <1>1, <1>2, <1>3, CallbackTypes, ReaderTypes, LeaveTypes DEF Next

\* Every variable stays in its type, and no credential in the vault has lost the
\* permission to refresh.
LEMMA TypesHold == Spec => []TypeInv
  BY TypeInit, TypeStep, PTL DEF Spec

\* Every reachable state is well typed, because the facts above come with the types.
THEOREM TypeCorrect == Spec => []TypeOK
  <1>1. TypeInv => TypeOK
    BY DEF TypeInv
  <1>. QED  BY TypesHold, <1>1, PTL

\* No refresh, disconnect or failure takes the permission to refresh from a credential
\* that stays.
THEOREM PermissionCorrect == Spec => PermissionKept
  <1>1. TypeInv' => [\A a \in Ids : cred[a] # Null /\ cred[a].refresh # Null /\ cred'[a] # Null
                        => cred'[a].refresh # Null]_vars
    BY DEF TypeInv, ReadsRefreshable, Refreshable
  <1>. QED  BY TypesHold, <1>1, PTL DEF PermissionKept

-----------------------------------------------------------------------------
(* A state is used once.                                                   *)

Claimed(s) ==
  /\ state[s] # "consumed" => claims[s] = {}
  /\ \A c, d \in claims[s] : c = d

ClaimInv == TypeOK /\ \A s \in States : Claimed(s)

LEMMA ClaimStep == TypeInv /\ ClaimInv /\ [Next]_vars => ClaimInv'
  <1>. SUFFICES ASSUME TypeInv, ClaimInv, [Next]_vars PROVE \A s \in States : Claimed(s)'
    BY TypeStep DEF ClaimInv, TypeInv
  <1>. USE DEF ClaimInv, TypeOK, Claimed
  <1>1. CASE UNCHANGED <<state, claims>>
    BY <1>1
  <1>2. ASSUME NEW s \in States, startLink(s) PROVE \A t \in States : Claimed(t)'
    BY <1>2 DEF startLink
  <1>3. ASSUME NEW c \in Callbacks, NEW s \in States, consume(c, s)
        PROVE  \A t \in States : Claimed(t)'
    BY <1>3 DEF consume, Unconsumed
  <1>. QED  BY <1>1, <1>2, <1>3
       DEF Next, CallbackStep, exchangeCode, findByProviderAccount, Create, Store, Update,
           Undo, Drop, Crash, ReaderStep, GetAccount, LoadCredential, refreshAccessToken,
           MarkRevoked, ReplaceGet, ReplacePut, Disconnect, DisconnectLoad, DisconnectRevoke,
           DisconnectDelete, DisconnectRemove, RevokeAtProvider, Others, Unread, Unleft, vars

\* One state lets one callback past it, however many callbacks present it at once.
THEOREM StateCorrect == Spec => []StateUsedOnce
  <1>1. Init => ClaimInv
    BY TypeInit DEF Init, ClaimInv, Claimed, TypeInv
  <1>2. ClaimInv => StateUsedOnce
    BY DEF ClaimInv, Claimed, StateUsedOnce
  <1>. QED  BY TypeInit, TypeStep, ClaimStep, <1>1, <1>2, PTL DEF Spec

-----------------------------------------------------------------------------
(* Connected accounts and secrets.                                         *)

\* A callback whose row is not made yet, or that has not begun: its id is new.
Unmade(c) == link[c] # Null /\ link[c].step \in {"claimed", "exchanged", "create"}
IdIsNew(c) == Unmade(c) \/ \A s \in States : c \notin claims[s]

NewIsUnknown ==
  \A c \in Callbacks : IdIsNew(c) =>
    /\ row[c] = Null /\ cred[c] = Null
    /\ \A d \in Callbacks \ {c} : link[d] # Null => link[d].id # c
    /\ \A r \in Readers : read[r] # Null => read[r].id # c

\* A callback works on the row it made, or on one it found by the account it names.
LinksOwn ==
  \A c \in Callbacks : link[c] # Null =>
    /\ \E s \in States : c \in claims[s]
    /\ ~link[c].existing => link[c].id = c
    /\ link[c].existing => link[c].step \in {"store", "update", "undo"}
    /\ link[c].existing /\ row[link[c].id] # Null => row[link[c].id].named

\* A reader works on a row that was connected.
ReadsNamed ==
  \A r \in Readers : read[r] # Null /\ row[read[r].id] # Null => row[read[r].id].named

\* The tables' own constraints, and that "connected" is written with the account's name.
TablesHold ==
  \A a \in Ids :
    /\ cred[a] # Null => row[a] # Null
    /\ row[a] # Null /\ row[a].status = "connected" => row[a].named
    /\ \A b \in Ids : row[a] # Null /\ row[a].named /\ row[b] # Null /\ row[b].named => a = b

LinkInv == TypeInv /\ NewIsUnknown /\ LinksOwn /\ ReadsNamed /\ TablesHold

LEMMA LinkInit == Init => LinkInv
  BY TypeInit DEF Init, LinkInv, NewIsUnknown, IdIsNew, Unmade, LinksOwn, ReadsNamed,
     TablesHold, Ids

\* What a step of a callback does to `link`.
LEMMA StepOnly ==
  ASSUME TypeInv, NEW c \in Callbacks, NEW l, Step(c, l)
  PROVE  link'[c] = l /\ \A d \in Callbacks \ {c} : link'[d] = link[d]
  BY DEF TypeInv, TypeOK, Step

LEMMA GotoOnly ==
  ASSUME TypeInv, NEW c \in Callbacks, NEW step, link[c] # Null, Goto(c, step)
  PROVE  /\ link'[c].step = step /\ link'[c].id = link[c].id
         /\ link'[c].existing = link[c].existing /\ link'[c].grant = link[c].grant
         /\ \A d \in Callbacks \ {c} : link'[d] = link[d]
  BY DEF TypeInv, TypeOK, Goto, Step, Links

\* A callback that ends, or goes on with the same row past the making of it, disturbs
\* nothing as long as the tables keep their rows' names.
LEMMA MovesOn ==
  ASSUME LinkInv, NEW c \in Callbacks, link[c] # Null, ~IdIsNew(c)',
         UNCHANGED <<claims, read>>,
         \A d \in Callbacks \ {c} : link'[d] = link[d],
         link'[c] # Null =>
           /\ link'[c].id = link[c].id /\ link'[c].existing = link[c].existing
           /\ link[c].existing => link'[c].step \in {"store", "update", "undo"},
         \A a \in Ids : row[a] = Null => row'[a] = Null,
         \A a \in Ids : cred'[a] # Null => row'[a] # Null,
         \A a \in Ids : row'[a] # Null /\ row[a] # Null /\ row[a].named => row'[a].named
  PROVE  NewIsUnknown' /\ LinksOwn' /\ ReadsNamed'
  <1>. USE DEF LinkInv
  <1>0. /\ \A d \in Callbacks : link[d] # Null => link[d].id \in Ids
        /\ \A r \in Readers : read[r] # Null => read[r].id \in Ids
        /\ Ids = Callbacks
    BY DEF TypeInv, TypeOK, Links, Reads, Ids
  <1>1. NewIsUnknown'
    <2>1. ASSUME NEW e \in Callbacks, IdIsNew(e)'
          PROVE  e # c /\ IdIsNew(e)
      BY <2>1 DEF IdIsNew, Unmade
    <2>. QED  BY <1>0, <2>1 DEF NewIsUnknown
  <1>2. LinksOwn'
    BY <1>0 DEF LinksOwn
  <1>3. ReadsNamed'
    BY <1>0 DEF ReadsNamed
  <1>. QED  BY <1>1, <1>2, <1>3

LEMMA CallbackLinks ==
  ASSUME LinkInv, NEW c \in Callbacks, CallbackStep(c)
  PROVE  NewIsUnknown' /\ LinksOwn' /\ ReadsNamed' /\ TablesHold'
  <1>. USE DEF LinkInv, Others, storeVars, providerVars
  <1>0. /\ \A d \in Callbacks : link[d] # Null => link[d].id \in Ids
        /\ \A r \in Readers : read[r] # Null => read[r].id \in Ids
        /\ Ids = Callbacks /\ c \in Ids
    BY DEF TypeInv, TypeOK, Links, Reads, Ids
  <1>00. /\ row \in [Ids -> AccountRows \cup {Null}] /\ cred \in [Ids -> Credentials \cup {Null}]
         /\ claims \in [States -> SUBSET Callbacks]
    BY DEF TypeInv, TypeOK
  <1>1. ASSUME NEW s \in States, consume(c, s)
        PROVE  NewIsUnknown' /\ LinksOwn' /\ ReadsNamed' /\ TablesHold'
    <2>1. /\ link[c] = Null /\ (\A t \in States : c \notin claims[t])
          /\ claims' = [claims EXCEPT ![s] = @ \cup {c}]
          /\ UNCHANGED <<row, cred, read>>
          /\ Step(c, [step |-> "claimed", id |-> c, existing |-> FALSE, grant |-> 0])
      BY <1>1 DEF consume
    <2>2. /\ link'[c] = [step |-> "claimed", id |-> c, existing |-> FALSE, grant |-> 0]
          /\ \A d \in Callbacks \ {c} : link'[d] = link[d]
      BY <2>1, StepOnly
    <2>3. IdIsNew(c) /\ \A e \in Callbacks : IdIsNew(e)' => IdIsNew(e)
      BY <1>00, <2>1, <2>2 DEF IdIsNew, Unmade
    <2>4. NewIsUnknown'
      <3>1. ASSUME NEW e \in Callbacks, IdIsNew(e)' PROVE IdIsNew(e)
        BY <2>3, <3>1
      <3>2. ASSUME NEW e \in Callbacks, IdIsNew(e)', NEW d \in Callbacks \ {e}, link'[d] # Null
            PROVE  link'[d].id # e
        BY <2>2, <3>1, <3>2 DEF NewIsUnknown
      <3>. QED  BY <2>1, <3>1, <3>2 DEF NewIsUnknown
    <2>5. LinksOwn'
      <3>1. \A d \in Callbacks : (\E t \in States : d \in claims[t]) => \E t \in States : d \in claims'[t]
        BY <1>00, <2>1
      <3>2. c \in claims'[s]
        BY <1>00, <2>1
      <3>. QED  BY <2>1, <2>2, <3>1, <3>2 DEF LinksOwn
    <2>. QED  BY <2>1, <2>4, <2>5 DEF ReadsNamed, TablesHold
  <1>2. CASE exchangeCode(c)
    <2>1. UNCHANGED <<claims, row, cred, read>> /\ link[c] # Null /\ link[c].step = "claimed"
      BY <1>2 DEF exchangeCode, At
    <2>2. /\ \A d \in Callbacks \ {c} : link'[d] = link[d]
          /\ link'[c] # Null => /\ link'[c].step = "exchanged" /\ link'[c].id = link[c].id
                                /\ link'[c].existing = link[c].existing
      <3>1. CASE Step(c, Null)
        BY <3>1, StepOnly
      <3>2. CASE Step(c, [link[c] EXCEPT !.step = "exchanged", !.grant = grants'])
        <4>1. link[c] \in Links
          BY <2>1 DEF TypeInv, TypeOK
        <4>2. /\ link'[c] = [link[c] EXCEPT !.step = "exchanged", !.grant = grants']
              /\ \A d \in Callbacks \ {c} : link'[d] = link[d]
          BY <3>2, StepOnly
        <4>. QED  BY <4>1, <4>2 DEF Links
      <3>. QED  BY <1>2, <3>1, <3>2 DEF exchangeCode
    <2>3. \A e \in Callbacks : IdIsNew(e)' => IdIsNew(e)
      BY <2>1, <2>2 DEF IdIsNew, Unmade
    <2>. QED  BY <2>1, <2>2, <2>3 DEF NewIsUnknown, LinksOwn, ReadsNamed, TablesHold
  <1>3. CASE findByProviderAccount(c)
    <2>1. UNCHANGED <<claims, row, cred, read>> /\ link[c] # Null /\ link[c].step = "exchanged"
      BY <1>3 DEF findByProviderAccount, At
    <2>2. /\ \A d \in Callbacks \ {c} : link'[d] = link[d]
          /\ link'[c] # Null
          /\ \/ /\ link'[c].step = "create" /\ link'[c].id = link[c].id
                /\ link'[c].existing = link[c].existing
             \/ /\ link'[c].step = "store" /\ link'[c].existing = TRUE
                /\ link'[c].id \in Ids /\ row[link'[c].id] # Null /\ row[link'[c].id].named
      <3>1. CASE Goto(c, "create")
        <4>1. link'[c] # Null
          BY <2>1, <3>1, StepOnly, NullAssumption DEF Goto, TypeInv, TypeOK, Links
        <4>. QED  BY <2>1, <3>1, <4>1, GotoOnly
      <3>2. ASSUME NEW a \in Ids, row[a] # Null, row[a].named,
                   Step(c, [link[c] EXCEPT !.step = "store", !.id = a, !.existing = TRUE])
            PROVE  /\ \A d \in Callbacks \ {c} : link'[d] = link[d]
                   /\ link'[c] # Null
                   /\ link'[c].step = "store" /\ link'[c].existing = TRUE /\ link'[c].id = a
        <4>1. [link[c] EXCEPT !.step = "store", !.id = a, !.existing = TRUE] \in Links
          BY <2>1 DEF TypeInv, TypeOK, Links
        <4>2. link'[c] = [link[c] EXCEPT !.step = "store", !.id = a, !.existing = TRUE]
              /\ \A d \in Callbacks \ {c} : link'[d] = link[d]
          BY <3>2, StepOnly
        <4>3. link[c] \in Links
          BY <2>1 DEF TypeInv, TypeOK
        <4>4. link'[c] # Null
          BY <4>1, <4>2, NullAssumption
        <4>. QED  BY <4>2, <4>3, <4>4 DEF Links
      <3>. QED  BY <1>3, <3>1, <3>2 DEF findByProviderAccount
    <2>3. \A e \in Callbacks : IdIsNew(e)' => IdIsNew(e)
      BY <2>1, <2>2 DEF IdIsNew, Unmade
    <2>4. NewIsUnknown'
      BY <2>1, <2>2, <2>3 DEF NewIsUnknown
    <2>. QED  BY <2>1, <2>2, <2>4 DEF LinksOwn, ReadsNamed, TablesHold
  <1>4. CASE Create(c)
    <2>1. /\ UNCHANGED <<claims, cred, read>> /\ link[c] # Null /\ link[c].step = "create"
          /\ IdIsNew(c) /\ ~link[c].existing /\ link[c].id = c
          /\ \E s \in States : c \in claims[s]
      BY <1>4 DEF Create, At, IdIsNew, Unmade, LinksOwn
    <2>2. CASE Step(c, Null) /\ UNCHANGED row
      <3>1. link'[c] = Null /\ \A d \in Callbacks \ {c} : link'[d] = link[d]
        BY <2>2, StepOnly
      <3>2. ~IdIsNew(c)'
        BY <2>1, <3>1 DEF IdIsNew, Unmade
      <3>3. NewIsUnknown' /\ LinksOwn' /\ ReadsNamed'
        BY <1>0, <2>1, <2>2, <3>1, <3>2, MovesOn DEF TablesHold
      <3>. QED  BY <2>1, <2>2, <3>3 DEF TablesHold
    <2>3. CASE /\ row' = [row EXCEPT ![c] = [status |-> "pending", named |-> FALSE]]
               /\ Goto(c, "store")
      <3>1. /\ link'[c].step = "store" /\ link'[c].id = c /\ ~link'[c].existing
            /\ \A d \in Callbacks \ {c} : link'[d] = link[d]
        BY <2>1, <2>3, GotoOnly
      <3>2. /\ row'[c] = [status |-> "pending", named |-> FALSE] /\ row'[c] # Null
            /\ row[c] = Null /\ \A a \in Ids \ {c} : row'[a] = row[a]
        <4>1. [status |-> "pending", named |-> FALSE] \in AccountRows
          BY DEF AccountRows
        <4>. QED  BY <1>0, <1>00, <2>1, <2>3, <4>1, NullAssumption DEF NewIsUnknown
      <3>3. ~IdIsNew(c)' /\ \A e \in Callbacks : IdIsNew(e)' => IdIsNew(e)
        BY <2>1, <3>1 DEF IdIsNew, Unmade
      <3>4. NewIsUnknown'
        BY <1>0, <2>1, <3>1, <3>2, <3>3 DEF NewIsUnknown
      <3>5. LinksOwn'
        BY <1>0, <2>1, <3>1, <3>2 DEF LinksOwn, NewIsUnknown
      <3>6. ReadsNamed'
        BY <1>0, <2>1, <3>2 DEF ReadsNamed, NewIsUnknown
      <3>7. TablesHold'
        BY <1>0, <2>1, <3>2 DEF TablesHold
      <3>. QED  BY <3>4, <3>5, <3>6, <3>7
    <2>. QED  BY <1>4, <2>2, <2>3 DEF Create
  \* Past the making of the row: where a step goes, and what it may do to the tables.
  <1>5. ASSUME link[c] # Null, link[c].step \in {"store", "update", "undo", "drop"},
               UNCHANGED <<claims, read>>,
               \/ Step(c, Null)
               \/ Goto(c, "update") \/ Goto(c, "undo")
               \/ ~link[c].existing /\ Goto(c, "drop"),
               \A a \in Ids : row[a] = Null => row'[a] = Null,
               \A a \in Ids : cred'[a] # Null => row'[a] # Null,
               \A a \in Ids : row'[a] # Null /\ row[a] # Null /\ row[a].named => row'[a].named
        PROVE  NewIsUnknown' /\ LinksOwn' /\ ReadsNamed'
    <2>1. /\ \A d \in Callbacks \ {c} : link'[d] = link[d]
          /\ link'[c] # Null =>
               /\ link'[c].id = link[c].id /\ link'[c].existing = link[c].existing
               /\ link'[c].step \in {"update", "undo", "drop"}
               /\ link[c].existing => link'[c].step \in {"store", "update", "undo"}
      BY <1>5, StepOnly, GotoOnly
    <2>2. ~IdIsNew(c)'
      BY <1>5, <2>1 DEF IdIsNew, Unmade, LinksOwn
    <2>. QED  BY <1>5, <2>1, <2>2, MovesOn
  <1>6. CASE Store(c)
    <2>0. link[c] # Null /\ link[c].step = "store" /\ UNCHANGED <<claims, read, row>>
      BY <1>6 DEF Store, At, Put
    <2>1. \A a \in Ids : cred'[a] # Null => row'[a] # Null
      <3>1. CASE cred' = cred
        BY <2>0, <3>1 DEF TablesHold
      <3>2. ASSUME MayPut(link[c].id), NEW new, cred' = [cred EXCEPT ![link[c].id] = new]
            PROVE  \A a \in Ids : cred'[a] # Null => row'[a] # Null
        BY <1>0, <1>00, <2>0, <3>2 DEF MayPut, TablesHold
      <3>. QED  BY <1>6, <3>1, <3>2 DEF Store, Put
    <2>2. Step(c, Null) \/ Goto(c, "update") \/ (~link[c].existing /\ Goto(c, "drop"))
      BY <1>6 DEF Store
    <2>3. NewIsUnknown' /\ LinksOwn' /\ ReadsNamed'
      BY <1>5, <2>0, <2>1, <2>2
    <2>. QED  BY <2>0, <2>1, <2>3 DEF TablesHold
  <1>7. CASE Update(c)
    <2>. DEFINE a == link[c].id
    <2>1. link[c] # Null /\ link[c].step = "update" /\ UNCHANGED <<claims, read, cred>> /\ a \in Ids
      BY <1>0, <1>7 DEF Update, At
    <2>2. CASE Step(c, Null) /\ MayConnect(a)
               /\ row' = [row EXCEPT ![a] = [status |-> "connected", named |-> TRUE]]
      <3>1. /\ row'[a] = [status |-> "connected", named |-> TRUE]
            /\ row'[a] # Null /\ row[a] # Null
            /\ \A b \in Ids \ {a} : row'[b] = row[b] /\ (row[b] # Null => ~row[b].named)
        <4>1. [status |-> "connected", named |-> TRUE] \in AccountRows
          BY DEF AccountRows
        <4>. QED  BY <1>00, <2>1, <2>2, <4>1, NullAssumption DEF MayConnect
      <3>2. TablesHold'
        BY <2>1, <3>1 DEF TablesHold
      <3>3. NewIsUnknown' /\ LinksOwn' /\ ReadsNamed'
        <4>1. \A b \in Ids : cred'[b] # Null => row'[b] # Null
          BY <3>2 DEF TablesHold
        <4>2. /\ \A b \in Ids : row[b] = Null => row'[b] = Null
              /\ \A b \in Ids : row'[b] # Null /\ row[b] # Null /\ row[b].named => row'[b].named
          BY <2>1, <3>1
        <4>. QED  BY <1>5, <2>1, <2>2, <4>1, <4>2
      <3>. QED  BY <3>2, <3>3
    <2>3. CASE Goto(c, "undo") /\ UNCHANGED row
      <3>1. NewIsUnknown' /\ LinksOwn' /\ ReadsNamed'
        BY <1>5, <2>1, <2>3 DEF TablesHold
      <3>. QED  BY <2>1, <2>3, <3>1 DEF TablesHold
    <2>. QED  BY <1>7, <2>2, <2>3 DEF Update
  <1>8. CASE Undo(c)
    <2>0. link[c] # Null /\ link[c].step = "undo" /\ UNCHANGED <<claims, read, row>>
      BY <1>8 DEF Undo, At, Put
    <2>1. \A a \in Ids : cred'[a] # Null => row'[a] # Null
      <3>1. cred' = cred \/ cred' = [cred EXCEPT ![link[c].id] = Null]
        BY <1>8 DEF Undo, Put
      <3>. QED  BY <1>0, <1>00, <2>0, <3>1 DEF TablesHold
    <2>2. Step(c, Null) \/ (~link[c].existing /\ Goto(c, "drop"))
      BY <1>8 DEF Undo
    <2>3. NewIsUnknown' /\ LinksOwn' /\ ReadsNamed'
      BY <1>5, <2>0, <2>1, <2>2
    <2>. QED  BY <2>0, <2>1, <2>3 DEF TablesHold
  <1>9. CASE Drop(c)
    <2>0. link[c] # Null /\ link[c].step = "drop" /\ UNCHANGED <<claims, read>> /\ Step(c, Null)
      BY <1>9 DEF Drop, At
    <2>1. \A a \in Ids : \/ row'[a] = row[a] /\ cred'[a] = cred[a]
                         \/ row'[a] = Null /\ cred'[a] = Null
      <3>1. \/ row' = [row EXCEPT ![c] = Null] /\ cred' = [cred EXCEPT ![c] = Null]
            \/ row' = row /\ cred' = cred
        BY <1>9 DEF Drop, RemoveRow
      <3>2. CASE row' = [row EXCEPT ![c] = Null] /\ cred' = [cred EXCEPT ![c] = Null]
        BY <1>0, <1>00, <3>2
      <3>3. CASE row' = row /\ cred' = cred
        BY <3>3
      <3>. QED  BY <3>1, <3>2, <3>3
    <2>2. TablesHold'
      BY <2>1 DEF TablesHold
    <2>3. NewIsUnknown' /\ LinksOwn' /\ ReadsNamed'
      <3>1. \A b \in Ids : cred'[b] # Null => row'[b] # Null
        BY <2>2 DEF TablesHold
      <3>2. \A b \in Ids : row[b] = Null => row'[b] = Null
        BY <2>1
      <3>3. \A b \in Ids : row'[b] # Null /\ row[b] # Null /\ row[b].named => row'[b].named
        BY <2>1
      <3>. QED  BY <1>5, <2>0, <3>1, <3>2, <3>3
    <2>. QED  BY <2>2, <2>3
  <1>10. CASE Crash(c)
    <2>1. UNCHANGED <<claims, read, row, cred>> /\ link[c] # Null /\ Step(c, Null)
      BY <1>10 DEF Crash
    <2>2. link'[c] = Null /\ \A d \in Callbacks \ {c} : link'[d] = link[d]
      BY <2>1, StepOnly
    <2>3. ~IdIsNew(c)'
      BY <2>1, <2>2 DEF IdIsNew, Unmade, LinksOwn
    <2>4. NewIsUnknown' /\ LinksOwn' /\ ReadsNamed'
      BY <1>0, <2>1, <2>2, <2>3, MovesOn DEF TablesHold
    <2>. QED  BY <2>1, <2>4 DEF TablesHold
  <1>. QED  BY <1>1, <1>2, <1>3, <1>4, <1>6, <1>7, <1>8, <1>9, <1>10 DEF CallbackStep

LEMMA ReaderLinks ==
  ASSUME LinkInv, NEW r \in Readers, ReaderStep(r)
  PROVE  NewIsUnknown' /\ LinksOwn' /\ ReadsNamed' /\ TablesHold'
  <1>. USE DEF LinkInv, Unread, storeVars, providerVars
  <1>0. /\ \A d \in Callbacks : link[d] # Null => link[d].id \in Ids
        /\ \A q \in Readers : read[q] # Null => read[q].id \in Ids /\ read[q] \in Reads
        /\ Ids = Callbacks
    BY DEF TypeInv, TypeOK, Links, Reads, Ids
  <1>00. /\ row \in [Ids -> AccountRows \cup {Null}] /\ cred \in [Ids -> Credentials \cup {Null}]
         /\ read \in [Readers -> Reads \cup {Null}]
    BY DEF TypeInv, TypeOK
  <1>1. UNCHANGED <<link, claims>>
    BY DEF ReaderStep, GetAccount, LoadCredential, refreshAccessToken, MarkRevoked, ReplaceGet,
       ReplacePut
  <1>2. \A c \in Callbacks : IdIsNew(c)' = IdIsNew(c)
    BY <1>1 DEF IdIsNew, Unmade
  \* A step that reads the row it read before, or ends.
  <1>3. ASSUME \A q \in Readers : read'[q] # Null =>
                 read[q] # Null /\ read'[q].id = read[q].id,
               \A a \in Ids : row'[a] = Null <=> row[a] = Null,
               \A a \in Ids : row[a] # Null => row'[a].named = row[a].named,
               \A a \in Ids : row'[a] # Null /\ row'[a].status = "connected" =>
                                row[a].status = "connected",
               \A a \in Ids : cred'[a] # Null => row'[a] # Null
        PROVE  NewIsUnknown' /\ LinksOwn' /\ ReadsNamed' /\ TablesHold'
    <2>1. LinksOwn' /\ ReadsNamed' /\ TablesHold'
      BY <1>0, <1>1, <1>3 DEF LinksOwn, ReadsNamed, TablesHold
    <2>2. NewIsUnknown'
      BY <1>0, <1>1, <1>2, <1>3 DEF NewIsUnknown
    <2>. QED  BY <2>1, <2>2
  <1>4. CASE GetAccount(r)
    <2>1. UNCHANGED <<row, cred>>
      BY <1>4 DEF GetAccount
    <2>2. PICK a \in Ids :
            /\ row[a] # Null /\ row[a].status = "connected"
            /\ read' = [read EXCEPT ![r] = [step |-> "load", id |-> a, cred |-> Null,
                                            rotated |-> FALSE]]
      BY <1>4 DEF GetAccount
    <2>3. read'[r].id = a /\ \A q \in Readers \ {r} : read'[q] = read[q]
      BY <1>00, <2>2
    <2>4. row[a].named
      BY <2>2 DEF TablesHold
    <2>5. LinksOwn' /\ ReadsNamed' /\ TablesHold'
      BY <1>0, <1>1, <2>1, <2>2, <2>3, <2>4 DEF LinksOwn, ReadsNamed, TablesHold
    <2>6. NewIsUnknown'
      BY <1>0, <1>1, <1>2, <2>1, <2>2, <2>3 DEF NewIsUnknown
    <2>. QED  BY <2>5, <2>6
  <1>5. ASSUME read[r] # Null,
               \/ ReadEnds(r)
               \/ \E step, c, rotated : ReadStep(r, step, c, rotated)
        PROVE  \A q \in Readers : read'[q] # Null =>
                 read[q] # Null /\ read'[q].id = read[q].id
    BY <1>00, <1>5 DEF ReadEnds, ReadStep
  <1>6. CASE LoadCredential(r) \/ refreshAccessToken(r) \/ ReplaceGet(r)
    <2>1. UNCHANGED <<row, cred>> /\ read[r] # Null
      BY <1>6 DEF LoadCredential, refreshAccessToken, ReplaceGet, Reading
    <2>2. ReadEnds(r) \/ \E step, c, rotated : ReadStep(r, step, c, rotated)
      BY <1>6 DEF LoadCredential, refreshAccessToken, ReplaceGet
    <2>. QED  BY <1>3, <1>5, <2>1, <2>2 DEF TablesHold
  <1>7. CASE MarkRevoked(r)
    <2>1. read[r] # Null /\ UNCHANGED cred /\ ReadEnds(r)
      BY <1>7 DEF MarkRevoked, Reading
    <2>2. \/ row' = row
          \/ row[read[r].id] # Null /\ row' = [row EXCEPT ![read[r].id].status = "revoked"]
      BY <1>7 DEF MarkRevoked
    <2>3. \A a \in Ids :
            \/ row'[a] = row[a]
            \/ row[a] # Null /\ row'[a] = [row[a] EXCEPT !.status = "revoked"]
      BY <1>0, <1>00, <2>1, <2>2
    <2>4. \A a \in Ids : row[a] # Null =>
            /\ [row[a] EXCEPT !.status = "revoked"] \in AccountRows
            /\ [row[a] EXCEPT !.status = "revoked"].named = row[a].named
            /\ [row[a] EXCEPT !.status = "revoked"].status = "revoked"
      BY <1>00 DEF AccountRows
    <2>5. /\ \A a \in Ids : row'[a] = Null <=> row[a] = Null
          /\ \A a \in Ids : row[a] # Null => row'[a].named = row[a].named
          /\ \A a \in Ids : row'[a] # Null /\ row'[a].status = "connected" =>
                              row[a].status = "connected"
      BY <2>3, <2>4, NullAssumption
    <2>6. \A a \in Ids : cred'[a] # Null => row'[a] # Null
      BY <2>1, <2>5 DEF TablesHold
    <2>. QED  BY <1>3, <1>5, <2>1, <2>5, <2>6
  <1>8. CASE ReplacePut(r)
    <2>1. read[r] # Null /\ UNCHANGED row /\ ReadEnds(r)
      BY <1>8 DEF ReplacePut, Reading, Put
    <2>2. \/ cred' = cred
          \/ row[read[r].id] # Null /\ cred' = [cred EXCEPT ![read[r].id] = read[r].cred]
      BY <1>8 DEF ReplacePut, Put, MayPut
    <2>3. \A a \in Ids : cred'[a] # Null => row'[a] # Null
      BY <1>0, <1>00, <2>1, <2>2 DEF TablesHold
    <2>. QED  BY <1>3, <1>5, <2>1, <2>3
  <1>. QED  BY <1>4, <1>6, <1>7, <1>8 DEF ReaderStep

\* Everything else leaves callbacks and readers alone, and takes from the tables at most.
LEMMA OtherLinks ==
  ASSUME LinkInv, UNCHANGED <<link, read, claims>>,
         \A a \in Ids : \/ row'[a] = row[a] /\ cred'[a] \in {cred[a], Null}
                        \/ row'[a] = Null /\ cred'[a] = Null
  PROVE  NewIsUnknown' /\ LinksOwn' /\ ReadsNamed' /\ TablesHold'
  <1>. USE DEF LinkInv
  <1>0. /\ \A d \in Callbacks : link[d] # Null => link[d].id \in Ids
        /\ \A q \in Readers : read[q] # Null => read[q].id \in Ids
        /\ Ids = Callbacks
    BY DEF TypeInv, TypeOK, Links, Reads, Ids
  <1>1. \A c \in Callbacks : IdIsNew(c)' = IdIsNew(c)
    BY DEF IdIsNew, Unmade
  <1>2. NewIsUnknown'
    BY <1>0, <1>1 DEF NewIsUnknown
  <1>3. LinksOwn' /\ ReadsNamed'
    BY <1>0 DEF LinksOwn, ReadsNamed
  <1>4. TablesHold'
    BY DEF TablesHold
  <1>. QED  BY <1>2, <1>3, <1>4

\* What disconnect and the provider do to the tables, and startLink too.
LEMMA OthersTake ==
  ASSUME TypeInv,
         \/ \E s \in States : startLink(s)
         \/ \E a \in Ids : Disconnect(a)
         \/ DisconnectLoad \/ DisconnectRevoke \/ DisconnectDelete \/ DisconnectRemove
         \/ RevokeAtProvider \/ UNCHANGED vars
  PROVE  /\ UNCHANGED <<link, read, claims>>
         /\ \A a \in Ids : \/ row'[a] = row[a] /\ cred'[a] \in {cred[a], Null}
                           \/ row'[a] = Null /\ cred'[a] = Null
  <1>. USE DEF TypeInv, TypeOK, Unleft, storeVars, providerVars
  <1>1. CASE DisconnectDelete
    <2>1. UNCHANGED <<link, read, claims, row>>
      BY <1>1 DEF DisconnectDelete, Put
    <2>2. cred' = cred \/ cred' = [cred EXCEPT ![leave.id] = Null]
      BY <1>1 DEF DisconnectDelete, Put
    <2>. QED  BY <2>1, <2>2
  <1>2. CASE DisconnectRemove
    <2>1. UNCHANGED <<link, read, claims>>
      BY <1>2 DEF DisconnectRemove
    <2>2. \/ row' = row /\ cred' = cred
          \/ row' = [row EXCEPT ![leave.id] = Null] /\ cred' = [cred EXCEPT ![leave.id] = Null]
      BY <1>2 DEF DisconnectRemove, RemoveRow
    <2>. QED  BY <2>1, <2>2
  <1>3. CASE ~DisconnectDelete /\ ~DisconnectRemove
    BY <1>3 DEF startLink, Disconnect, DisconnectLoad, DisconnectRevoke, RevokeAtProvider, vars
  <1>. QED  BY <1>1, <1>2, <1>3

LEMMA LinkStep == LinkInv /\ [Next]_vars => LinkInv'
  <1>. SUFFICES ASSUME LinkInv, [Next]_vars
                PROVE  NewIsUnknown' /\ LinksOwn' /\ ReadsNamed' /\ TablesHold'
    BY TypeStep DEF LinkInv
  <1>1. TypeInv
    BY DEF LinkInv
  <1>. QED  BY <1>1, CallbackLinks, ReaderLinks, OtherLinks, OthersTake DEF Next

-----------------------------------------------------------------------------
(* No secret is left that nothing points at.                               *)

Spoiled == faults \cap {"crash", "meta"} # {}
Held(a) == \E c \in Callbacks : link[c] # Null /\ link[c].id = a

OrphanInv == LinkInv /\ NoOrphanSecret

\* A step after which a credential that is left is named or held as before.
LEMMA StillPointedAt ==
  ASSUME OrphanInv, LinkInv', Spoiled => Spoiled',
         \A a \in Ids : cred'[a] # Null => Spoiled' \/ row'[a].named \/ Held(a)'
  PROVE  NoOrphanSecret'
  BY DEF OrphanInv, LinkInv, TablesHold, NoOrphanSecret, Spoiled, Held

LEMMA FaultsGrow ==
  ASSUME TypeInv, [Next]_vars
  PROVE  faults \subseteq faults'
  BY DEF Next, Fault, CallbackStep, ReaderStep, startLink, consume, exchangeCode,
     findByProviderAccount, Create, Store, Update, Undo, Drop, Crash, GetAccount, LoadCredential,
     refreshAccessToken, MarkRevoked, ReplaceGet, ReplacePut, Disconnect, DisconnectLoad,
     DisconnectRevoke, DisconnectDelete, DisconnectRemove, RevokeAtProvider, vars

LEMMA CallbackOrphans ==
  ASSUME OrphanInv, LinkInv', NEW c \in Callbacks, CallbackStep(c), Spoiled => Spoiled'
  PROVE  NoOrphanSecret'
  <1>. USE DEF OrphanInv, Others, storeVars, providerVars, Held
  <1>0. /\ \A d \in Callbacks : link[d] # Null => link[d].id \in Ids
        /\ Ids = Callbacks /\ c \in Ids /\ TypeInv /\ TypeInv'
    BY DEF LinkInv, TypeInv, TypeOK, Links, Ids
  <1>00. /\ row \in [Ids -> AccountRows \cup {Null}] /\ cred \in [Ids -> Credentials \cup {Null}]
    BY DEF LinkInv, TypeInv, TypeOK
  <1>1. \A a \in Ids : cred[a] # Null => Spoiled \/ row[a].named \/ Held(a)
    BY DEF NoOrphanSecret, Spoiled
  \* A callback that stays on its row, while no row loses its name.
  <1>2. ASSUME link[c] # Null => link'[c] # Null /\ link'[c].id = link[c].id,
               \A d \in Callbacks \ {c} : link'[d] = link[d],
               \A a \in Ids : cred'[a] # Null =>
                 \/ cred[a] # Null
                 \/ link[c] # Null /\ a = link[c].id,
               \A a \in Ids : cred[a] # Null /\ cred'[a] # Null =>
                 (row[a].named => row'[a].named)
        PROVE  NoOrphanSecret'
    BY <1>0, <1>1, <1>2, StillPointedAt
  \* One that ends, or changes its row, where nothing depends on it.
  <1>3. ASSUME \A d \in Callbacks \ {c} : link'[d] = link[d], link[c] # Null,
               \A a \in Ids : cred'[a] # Null => cred[a] # Null,
               \A a \in Ids : cred[a] # Null /\ cred'[a] # Null =>
                 (row[a].named => row'[a].named),
               Spoiled' \/ (cred'[link[c].id] # Null => row'[link[c].id].named)
        PROVE  NoOrphanSecret'
    BY <1>0, <1>1, <1>3, StillPointedAt
  <1>4. ASSUME NEW s \in States, consume(c, s) PROVE NoOrphanSecret'
    <2>1. link[c] = Null /\ UNCHANGED <<row, cred>> /\ \A d \in Callbacks \ {c} : link'[d] = link[d]
      BY <1>0, <1>4, StepOnly DEF consume
    <2>. QED  BY <1>2, <2>1
  <1>5. CASE exchangeCode(c)
    <2>1. link[c] # Null /\ IdIsNew(c) /\ UNCHANGED <<row, cred>>
      BY <1>5 DEF exchangeCode, At, IdIsNew, Unmade
    <2>2. link[c].id = c /\ cred[c] = Null
      BY <2>1, <1>5 DEF LinkInv, LinksOwn, NewIsUnknown, exchangeCode, At
    <2>3. \A d \in Callbacks \ {c} : link'[d] = link[d]
      BY <1>0, <1>5, StepOnly DEF exchangeCode
    <2>. QED  BY <1>3, <2>1, <2>2, <2>3
  <1>6. CASE findByProviderAccount(c)
    <2>1. link[c] # Null /\ IdIsNew(c) /\ UNCHANGED <<row, cred>>
      BY <1>6 DEF findByProviderAccount, At, IdIsNew, Unmade
    <2>2. link[c].id = c /\ cred[c] = Null
      BY <2>1, <1>6 DEF LinkInv, LinksOwn, NewIsUnknown, findByProviderAccount, At
    <2>3. \A d \in Callbacks \ {c} : link'[d] = link[d]
      <3>1. (\E l : Step(c, l)) \/ Goto(c, "create")
        BY <1>6 DEF findByProviderAccount
      <3>. QED  BY <1>0, <2>1, <3>1, StepOnly, GotoOnly
    <2>. QED  BY <1>3, <2>1, <2>2, <2>3
  <1>7. CASE Create(c)
    <2>1. link[c] # Null /\ IdIsNew(c) /\ cred' = cred
      BY <1>7 DEF Create, At, IdIsNew, Unmade
    <2>2. link[c].id = c /\ cred[c] = Null
      BY <2>1, <1>7 DEF LinkInv, LinksOwn, NewIsUnknown, Create, At
    <2>3. \A d \in Callbacks \ {c} : link'[d] = link[d]
      BY <1>0, <1>7, <2>1, StepOnly, GotoOnly DEF Create
    <2>4. \A a \in Ids \ {c} : row'[a] = row[a]
      <3>1. row' = row \/ \E n : row' = [row EXCEPT ![c] = n]
        BY <1>7 DEF Create
      <3>. QED  BY <1>00, <3>1
    <2>. QED  BY <1>3, <2>1, <2>2, <2>3, <2>4
  <1>8. CASE Store(c)
    <2>1. link[c] # Null /\ row' = row /\ link[c].id \in Ids
      BY <1>0, <1>8 DEF Store, At, Put
    <2>2. CASE Goto(c, "update") /\ \E n : cred' = [cred EXCEPT ![link[c].id] = n]
      <3>1. link'[c] # Null /\ link'[c].id = link[c].id /\ \A d \in Callbacks \ {c} : link'[d] = link[d]
        <4>1. [link[c] EXCEPT !.step = "update"] \in Links
          BY <1>0, <2>1 DEF TypeInv, TypeOK, Links
        <4>. QED  BY <1>0, <2>1, <2>2, <4>1, GotoOnly, StepOnly, NullAssumption DEF Goto
      <3>2. \A a \in Ids \ {link[c].id} : cred'[a] = cred[a]
        BY <1>00, <2>1, <2>2
      <3>. QED  BY <1>2, <2>1, <3>1, <3>2
    <2>3. CASE cred' = cred /\ link[c].existing /\ Step(c, Null)
      <3>1. cred[link[c].id] # Null => row[link[c].id] # Null
        BY <2>1 DEF LinkInv, TablesHold
      <3>2. cred[link[c].id] # Null => row[link[c].id].named
        BY <2>1, <2>3, <3>1 DEF LinkInv, LinksOwn
      <3>. QED  BY <1>0, <1>3, <2>1, <2>3, <3>2, StepOnly
    <2>4. CASE cred' = cred /\ Goto(c, "drop")
      <3>1. link'[c] # Null
        <4>1. [link[c] EXCEPT !.step = "drop"] \in Links
          BY <1>0, <2>1 DEF TypeInv, TypeOK, Links
        <4>. QED  BY <1>0, <2>1, <2>4, <4>1, StepOnly, NullAssumption DEF Goto
      <3>. QED  BY <1>0, <1>2, <2>1, <2>4, <3>1, GotoOnly
    <2>. QED  BY <1>8, <2>2, <2>3, <2>4 DEF Store, Put
  <1>9. CASE Update(c)
    <2>1. link[c] # Null /\ cred' = cred /\ link[c].id \in Ids
      BY <1>0, <1>9 DEF Update, At
    <2>2. CASE /\ Step(c, Null)
               /\ row' = [row EXCEPT ![link[c].id] = [status |-> "connected", named |-> TRUE]]
      <3>1. row'[link[c].id].named /\ \A a \in Ids \ {link[c].id} : row'[a] = row[a]
        BY <1>00, <2>1, <2>2
      <3>. QED  BY <1>0, <1>3, <2>1, <2>2, <3>1, StepOnly
    <2>3. CASE Goto(c, "undo") /\ row' = row
      <3>1. link'[c] # Null
        <4>1. [link[c] EXCEPT !.step = "undo"] \in Links
          BY <1>0, <2>1 DEF TypeInv, TypeOK, Links
        <4>. QED  BY <1>0, <2>1, <2>3, <4>1, StepOnly, NullAssumption DEF Goto
      <3>. QED  BY <1>0, <1>2, <2>1, <2>3, <3>1, GotoOnly
    <2>. QED  BY <1>9, <2>2, <2>3 DEF Update
  <1>10. CASE Undo(c)
    <2>1. link[c] # Null /\ row' = row /\ link[c].id \in Ids
      BY <1>0, <1>10 DEF Undo, At, Put
    <2>2. \A a \in Ids : cred'[a] # Null => cred[a] # Null
      <3>1. cred' = cred \/ cred' = [cred EXCEPT ![link[c].id] = Null]
        BY <1>10 DEF Undo, Put
      <3>. QED  BY <1>00, <2>1, <3>1
    <2>3. CASE link[c].existing /\ Step(c, Null)
      <3>1. cred[link[c].id] # Null => row[link[c].id] # Null
        BY <2>1 DEF LinkInv, TablesHold
      <3>2. cred[link[c].id] # Null => row[link[c].id].named
        BY <2>1, <2>3, <3>1 DEF LinkInv, LinksOwn
      <3>. QED  BY <1>0, <1>3, <2>1, <2>2, <2>3, <3>2, StepOnly
    <2>4. CASE Goto(c, "drop")
      <3>1. link'[c] # Null
        <4>1. [link[c] EXCEPT !.step = "drop"] \in Links
          BY <1>0, <2>1 DEF TypeInv, TypeOK, Links
        <4>. QED  BY <1>0, <2>1, <2>4, <4>1, StepOnly, NullAssumption DEF Goto
      <3>. QED  BY <1>0, <1>2, <2>1, <2>2, <2>4, <3>1, GotoOnly
    <2>. QED  BY <1>10, <2>3, <2>4 DEF Undo
  <1>11. CASE Drop(c)
    <2>1. link[c] # Null /\ ~link[c].existing /\ link[c].id = c /\ Step(c, Null)
      BY <1>11 DEF Drop, At, LinkInv, LinksOwn
    <2>2. CASE row' = [row EXCEPT ![c] = Null] /\ cred' = [cred EXCEPT ![c] = Null]
      <3>1. cred'[c] = Null /\ \A a \in Ids \ {c} : cred'[a] = cred[a] /\ row'[a] = row[a]
        BY <1>0, <1>00, <2>2
      <3>. QED  BY <1>0, <1>3, <2>1, <3>1, StepOnly
    <2>3. CASE row' = row /\ cred' = cred /\ "meta" \in faults'
      BY <1>0, <1>3, <2>1, <2>3, StepOnly DEF Spoiled
    <2>. QED  BY <1>11, <2>2, <2>3 DEF Drop, RemoveRow, Fault
  <1>12. CASE Crash(c)
    <2>1. link[c] # Null /\ "crash" \in faults' /\ UNCHANGED <<row, cred>> /\ Step(c, Null)
      BY <1>12 DEF Crash, Fault
    <2>. QED  BY <1>0, <1>3, <2>1, StepOnly DEF Spoiled
  <1>. QED  BY <1>4, <1>5, <1>6, <1>7, <1>8, <1>9, <1>10, <1>11, <1>12 DEF CallbackStep

LEMMA ReaderOrphans ==
  ASSUME OrphanInv, LinkInv', NEW r \in Readers, ReaderStep(r), Spoiled => Spoiled'
  PROVE  NoOrphanSecret'
  <1>. USE DEF OrphanInv, Unread, storeVars, providerVars, Held
  <1>0. /\ row \in [Ids -> AccountRows \cup {Null}] /\ cred \in [Ids -> Credentials \cup {Null}]
        /\ read[r] # Null => read[r].id \in Ids
    BY DEF LinkInv, TypeInv, TypeOK, Reads
  <1>1. \A a \in Ids : cred[a] # Null => row[a] # Null /\ (Spoiled \/ row[a].named \/ Held(a))
    BY DEF NoOrphanSecret, Spoiled
  <1>2. CASE UNCHANGED <<link, row, cred>>
    BY <1>1, <1>2, StillPointedAt
  <1>3. CASE MarkRevoked(r)
    <2>1. UNCHANGED <<link, cred>> /\ read[r] # Null
      BY <1>3 DEF MarkRevoked, Reading
    <2>2. row' = row \/ row' = [row EXCEPT ![read[r].id].status = "revoked"]
      BY <1>3 DEF MarkRevoked
    <2>3. \A a \in Ids : row[a] # Null => row'[a].named = row[a].named
      BY <1>0, <2>1, <2>2 DEF AccountRows
    <2>. QED  BY <1>1, <2>1, <2>3, StillPointedAt
  <1>4. CASE ReplacePut(r)
    <2>1. UNCHANGED <<link, row>> /\ read[r] # Null
      BY <1>4 DEF ReplacePut, Reading, Put
    <2>2. \/ cred' = cred
          \/ row[read[r].id] # Null /\ \E n : cred' = [cred EXCEPT ![read[r].id] = n]
      BY <1>4 DEF ReplacePut, Put, MayPut
    <2>3. \A a \in Ids : cred'[a] # Null => cred[a] # Null \/ row[a].named
      BY <1>0, <2>1, <2>2 DEF LinkInv, ReadsNamed
    <2>. QED  BY <1>1, <2>1, <2>3, StillPointedAt
  <1>. QED  BY <1>2, <1>3, <1>4
       DEF ReaderStep, GetAccount, LoadCredential, refreshAccessToken, ReplaceGet

LEMMA OrphanStep == OrphanInv /\ [Next]_vars => OrphanInv'
  <1>. SUFFICES ASSUME OrphanInv, [Next]_vars PROVE NoOrphanSecret'
    BY LinkStep DEF OrphanInv
  <1>0. TypeInv /\ LinkInv' /\ (Spoiled => Spoiled')
    BY LinkStep, FaultsGrow DEF OrphanInv, LinkInv, Spoiled
  <1>1. CASE /\ UNCHANGED <<link, read, claims>>
             /\ \A a \in Ids : \/ row'[a] = row[a] /\ cred'[a] \in {cred[a], Null}
                               \/ row'[a] = Null /\ cred'[a] = Null
    BY <1>0, <1>1, StillPointedAt DEF OrphanInv, NoOrphanSecret, Spoiled, Held
  <1>. QED  BY <1>0, <1>1, CallbackOrphans, ReaderOrphans, OthersTake DEF Next

\* A credential in the vault belongs to a row that names its account, or to one whose
\* callback is still at work; but for a callback cut short or metadata that cannot be
\* written, whatever else fails and interleaves.
THEOREM OrphanCorrect == Spec => []NoOrphanSecret
  <1>1. Init => OrphanInv
    BY LinkInit DEF Init, OrphanInv, NoOrphanSecret, Ids
  <1>2. OrphanInv => NoOrphanSecret
    BY DEF OrphanInv
  <1>. QED  BY OrphanStep, <1>1, <1>2, PTL DEF Spec

-----------------------------------------------------------------------------
(* A row that says connected has its credential.                           *)

\* A row that is being disconnected.
Going(a) == leave # Null /\ leave.id = a

\* While the metadata can be written: what a callback is about to call connected has its
\* credential, and what it undoes was never connected.
MayConclude(c) ==
  link[c] # Null =>
    /\ link[c].step = "update" /\ row[link[c].id] # Null /\ ~Going(link[c].id) =>
         cred[link[c].id] # Null
    /\ link[c].step = "undo" /\ row[link[c].id] # Null =>
         ~row[link[c].id].named /\ ~link[c].existing
WholeNow == (\A c \in Callbacks : MayConclude(c)) /\ ConnectedHasCredential
WholeInv == LinkInv /\ ("meta" \notin faults => WholeNow)

\* What a callback concludes stands while its row and credential do.
LEMMA ConcludesStill ==
  ASSUME NEW c \in Callbacks, MayConclude(c), link'[c] = link[c], leave' = leave,
         link[c] # Null =>
           /\ row'[link[c].id] # Null =>
                row[link[c].id] # Null /\ (row'[link[c].id].named => row[link[c].id].named)
           /\ cred[link[c].id] # Null /\ row'[link[c].id] # Null => cred'[link[c].id] # Null
  PROVE  MayConclude(c)'
  BY DEF MayConclude, Going

LEMMA CallbackWhole ==
  ASSUME LinkInv, LinkInv', WholeNow, NEW c \in Callbacks, CallbackStep(c), "meta" \notin faults'
  PROVE  WholeNow'
  <1>. USE DEF Others, storeVars, providerVars
  <1>0. /\ \A d \in Callbacks : link[d] # Null => link[d].id \in Ids
        /\ Ids = Callbacks /\ c \in Ids /\ TypeInv /\ leave' = leave
        /\ row \in [Ids -> AccountRows \cup {Null}] /\ cred \in [Ids -> Credentials \cup {Null}]
    BY DEF LinkInv, TypeInv, TypeOK, Links, Ids, CallbackStep, consume, exchangeCode,
       findByProviderAccount, Create, Store, Update, Undo, Drop, Crash
  \* The row and the credential of every other callback, and of the connected rows, stand.
  <1>1. ASSUME \A d \in Callbacks \ {c} : link'[d] = link[d],
               MayConclude(c)',
               \A d \in Callbacks \ {c} : link[d] # Null =>
                 /\ row'[link[d].id] # Null =>
                      row[link[d].id] # Null /\ (row'[link[d].id].named => row[link[d].id].named)
                 /\ cred[link[d].id] # Null /\ row'[link[d].id] # Null => cred'[link[d].id] # Null,
               \A a \in Ids : Whole(a)'
        PROVE  WholeNow'
    BY <1>0, <1>1, ConcludesStill DEF WholeNow, ConnectedHasCredential
  <1>2. \A a \in Ids : Whole(a)
    BY DEF WholeNow, ConnectedHasCredential
  \* The tables stand as they are.
  <1>3. ASSUME UNCHANGED <<row, cred>>, \A d \in Callbacks \ {c} : link'[d] = link[d],
               link'[c] = Null \/ link'[c].step \notin {"update", "undo"}
        PROVE  WholeNow'
    <2>1. MayConclude(c)'
      BY <1>3 DEF MayConclude
    <2>2. \A a \in Ids : Whole(a)'
      BY <1>0, <1>2, <1>3 DEF Whole
    <2>. QED  BY <1>1, <1>3, <2>1, <2>2
  <1>4. ASSUME NEW s \in States, consume(c, s) PROVE WholeNow'
    <2>1. /\ link'[c].step = "claimed" /\ \A d \in Callbacks \ {c} : link'[d] = link[d]
          /\ UNCHANGED <<row, cred>>
      BY <1>0, <1>4, StepOnly DEF consume
    <2>. QED  BY <1>3, <2>1
  <1>5. CASE exchangeCode(c)
    <2>0. UNCHANGED <<row, cred>> /\ link[c] \in Links
      BY <1>0, <1>5 DEF exchangeCode, At, TypeInv, TypeOK
    <2>1. CASE Step(c, Null)
      BY <1>0, <1>3, <2>0, <2>1, StepOnly
    <2>2. CASE Step(c, [link[c] EXCEPT !.step = "exchanged", !.grant = grants'])
      <3>1. [link[c] EXCEPT !.step = "exchanged", !.grant = grants'].step = "exchanged"
        BY <2>0 DEF Links
      <3>. QED  BY <1>0, <1>3, <2>0, <2>2, <3>1, StepOnly
    <2>. QED  BY <1>5, <2>1, <2>2 DEF exchangeCode
  <1>6. CASE findByProviderAccount(c)
    <2>0. UNCHANGED <<row, cred>> /\ link[c] # Null /\ link[c] \in Links
      BY <1>0, <1>6 DEF findByProviderAccount, At, TypeInv, TypeOK
    <2>1. CASE Goto(c, "create")
      BY <1>0, <1>3, <2>0, <2>1, GotoOnly
    <2>2. ASSUME NEW a, Step(c, [link[c] EXCEPT !.step = "store", !.id = a, !.existing = TRUE])
          PROVE  WholeNow'
      <3>1. [link[c] EXCEPT !.step = "store", !.id = a, !.existing = TRUE].step = "store"
        BY <2>0 DEF Links
      <3>. QED  BY <1>0, <1>3, <2>0, <2>2, <3>1, StepOnly
    <2>. QED  BY <1>6, <2>1, <2>2 DEF findByProviderAccount
  <1>7. CASE Create(c)
    <2>1. /\ link[c] # Null /\ cred' = cred /\ Goto(c, "store")
          /\ row' = [row EXCEPT ![c] = [status |-> "pending", named |-> FALSE]]
      BY <1>7 DEF Create, At, Fault
    <2>2. /\ link'[c].step = "store" /\ \A d \in Callbacks \ {c} : link'[d] = link[d]
      BY <1>0, <2>1, GotoOnly
    <2>3. \A d \in Callbacks \ {c} : link[d] # Null => link[d].id # c
      BY <1>7 DEF LinkInv, NewIsUnknown, IdIsNew, Unmade, Create, At
    <2>4. row'[c].status = "pending" /\ \A a \in Ids \ {c} : row'[a] = row[a]
      BY <1>0, <2>1
    <2>5. MayConclude(c)'
      BY <2>2 DEF MayConclude
    <2>6. \A a \in Ids : Whole(a)'
      BY <1>0, <1>2, <2>1, <2>4 DEF Whole
    <2>. QED  BY <1>0, <1>1, <2>1, <2>2, <2>3, <2>4, <2>5, <2>6
  <1>8. CASE Store(c)
    <2>1. link[c] # Null /\ row' = row /\ link[c].id \in Ids
      BY <1>0, <1>8 DEF Store, At, Put
    <2>2. CASE /\ Goto(c, "update")
               /\ Put(link[c].id, [access |-> link[c].grant, refresh |-> link[c].grant])
      <3>1. link'[c].step = "update" /\ link'[c].id = link[c].id
            /\ \A d \in Callbacks \ {c} : link'[d] = link[d]
        BY <1>0, <2>1, <2>2, GotoOnly
      <3>2. cred'[link[c].id] # Null /\ \A a \in Ids \ {link[c].id} : cred'[a] = cred[a]
        <4>1. [access |-> link[c].grant, refresh |-> link[c].grant] \in Credentials
          BY <1>0, <2>1 DEF TypeInv, TypeOK, Links, Credentials
        <4>. QED  BY <1>0, <2>1, <2>2, <4>1, NullAssumption DEF Put
      <3>3. MayConclude(c)'
        BY <3>1, <3>2 DEF MayConclude
      <3>4. \A a \in Ids : Whole(a)'
        BY <1>0, <1>2, <2>1, <3>2 DEF Whole
      <3>. QED  BY <1>0, <1>1, <2>1, <3>1, <3>2, <3>3, <3>4
    <2>3. CASE UNCHANGED <<row, cred>> /\ (Step(c, Null) \/ Goto(c, "drop"))
      BY <1>0, <1>3, <2>1, <2>3, StepOnly, GotoOnly
    <2>. QED  BY <1>8, <2>2, <2>3 DEF Store
  <1>9. CASE Update(c)
    <2>1. link[c] # Null /\ link[c].step = "update" /\ cred' = cred /\ link[c].id \in Ids
      BY <1>0, <1>9 DEF Update, At
    <2>2. CASE /\ Step(c, Null) /\ MayConnect(link[c].id)
               /\ row' = [row EXCEPT ![link[c].id] = [status |-> "connected", named |-> TRUE]]
      <3>1. link'[c] = Null /\ \A d \in Callbacks \ {c} : link'[d] = link[d]
        BY <1>0, <2>2, StepOnly
      <3>2. row[link[c].id] # Null /\ \A a \in Ids \ {link[c].id} : row'[a] = row[a]
        BY <1>0, <2>1, <2>2 DEF MayConnect
      <3>3. ~Going(link[c].id) => cred[link[c].id] # Null
        BY <2>1, <3>2 DEF WholeNow, MayConclude
      <3>4. \A a \in Ids : Whole(a)'
        BY <1>0, <1>2, <2>1, <3>2, <3>3 DEF Whole, Going
      \* Another callback that has this row found it by its name.
      <3>5. ASSUME NEW d \in Callbacks \ {c}, link[d] # Null, link[d].id = link[c].id
            PROVE  row[link[c].id].named
        BY <2>1, <3>2, <3>5 DEF LinkInv, LinksOwn
      <3>6. MayConclude(c)'
        BY <3>1 DEF MayConclude
      <3>7. \A d \in Callbacks \ {c} : MayConclude(d)'
        BY <1>0, <2>1, <3>1, <3>2, <3>5, ConcludesStill DEF WholeNow
      <3>. QED  BY <3>4, <3>6, <3>7 DEF WholeNow, ConnectedHasCredential
    <2>3. CASE Goto(c, "undo") /\ row' = row /\ ~MayConnect(link[c].id)
      <3>1. /\ link'[c].step = "undo" /\ link'[c].id = link[c].id
            /\ link'[c].existing = link[c].existing
            /\ \A d \in Callbacks \ {c} : link'[d] = link[d]
        BY <1>0, <2>1, <2>3, GotoOnly
      <3>2. row[link[c].id] # Null => ~row[link[c].id].named
        BY <2>1, <2>3 DEF MayConnect, LinkInv, TablesHold
      <3>3. row[link[c].id] # Null => ~link[c].existing
        BY <2>1, <3>2 DEF LinkInv, LinksOwn
      <3>4. MayConclude(c)'
        BY <2>3, <3>1, <3>2, <3>3 DEF MayConclude
      <3>5. \A a \in Ids : Whole(a)'
        BY <1>0, <1>2, <2>1, <2>3 DEF Whole
      <3>. QED  BY <1>1, <2>1, <2>3, <3>1, <3>4, <3>5
    <2>. QED  BY <1>9, <2>2, <2>3 DEF Update, Fault
  <1>10. CASE Undo(c)
    <2>1. link[c] # Null /\ link[c].step = "undo" /\ row' = row /\ link[c].id \in Ids
      BY <1>0, <1>10 DEF Undo, At, Put
    <2>2. \A a \in Ids \ {link[c].id} : cred'[a] = cred[a]
      <3>1. cred' = cred \/ cred' = [cred EXCEPT ![link[c].id] = Null]
        BY <1>10 DEF Undo, Put
      <3>. QED  BY <1>0, <2>1, <3>1
    <2>3. row[link[c].id] # Null => ~row[link[c].id].named /\ ~link[c].existing
      BY <2>1 DEF WholeNow, MayConclude
    <2>4. /\ link'[c] # Null => link'[c].step = "drop"
          /\ \A d \in Callbacks \ {c} : link'[d] = link[d]
      BY <1>0, <1>10, <2>1, StepOnly, GotoOnly DEF Undo
    <2>5. MayConclude(c)'
      BY <2>4 DEF MayConclude
    <2>6. \A a \in Ids : Whole(a)'
      <3>1. ASSUME NEW a \in Ids, a = link[c].id PROVE Whole(a)'
        BY <2>1, <2>3, <3>1 DEF Whole, LinkInv, TablesHold
      <3>2. ASSUME NEW a \in Ids, a # link[c].id PROVE Whole(a)'
        BY <1>0, <1>2, <2>1, <2>2, <3>2 DEF Whole
      <3>. QED  BY <3>1, <3>2
    \* Another callback that has this row found it by its name: then the row is gone.
    <2>7. ASSUME NEW d \in Callbacks \ {c}, link[d] # Null, link[d].id = link[c].id
          PROVE  row[link[c].id] = Null
      BY <2>1, <2>3, <2>7 DEF LinkInv, LinksOwn
    <2>8. \A d \in Callbacks \ {c} : MayConclude(d)'
      BY <1>0, <2>1, <2>2, <2>4, <2>7, ConcludesStill DEF WholeNow
    <2>. QED  BY <2>5, <2>6, <2>8 DEF WholeNow, ConnectedHasCredential
  <1>11. CASE Drop(c)
    <2>1. link[c] # Null /\ Step(c, Null)
          /\ row' = [row EXCEPT ![c] = Null] /\ cred' = [cred EXCEPT ![c] = Null]
      BY <1>11 DEF Drop, At, RemoveRow, Fault
    <2>2. /\ row'[c] = Null
          /\ \A a \in Ids \ {c} : row'[a] = row[a] /\ cred'[a] = cred[a]
      BY <1>0, <2>1
    <2>3. link'[c] = Null /\ \A d \in Callbacks \ {c} : link'[d] = link[d]
      BY <1>0, <2>1, StepOnly
    <2>4. MayConclude(c)'
      BY <2>3 DEF MayConclude
    <2>5. \A a \in Ids : Whole(a)'
      BY <1>0, <1>2, <2>2 DEF Whole
    <2>. QED  BY <1>0, <1>1, <2>2, <2>3, <2>4, <2>5
  <1>12. CASE Crash(c)
    BY <1>0, <1>3, <1>12, StepOnly DEF Crash
  <1>. QED  BY <1>4, <1>5, <1>6, <1>7, <1>8, <1>9, <1>10, <1>11, <1>12 DEF CallbackStep

LEMMA ReaderWhole ==
  ASSUME LinkInv, WholeNow, NEW r \in Readers, ReaderStep(r)
  PROVE  WholeNow'
  <1>. USE DEF Unread, storeVars, providerVars
  <1>0. /\ \A d \in Callbacks : link[d] # Null => link[d].id \in Ids
        /\ \A q \in Readers : read[q] # Null => read[q].id \in Ids /\ read[q] \in Reads
        /\ row \in [Ids -> AccountRows \cup {Null}] /\ cred \in [Ids -> Credentials \cup {Null}]
        /\ UNCHANGED <<link, leave>>
    BY DEF LinkInv, TypeInv, TypeOK, Links, Reads, ReaderStep, GetAccount, LoadCredential,
       refreshAccessToken, MarkRevoked, ReplaceGet, ReplacePut
  <1>1. ASSUME \A a \in Ids : row'[a] # Null =>
                 /\ row[a] # Null /\ row'[a].named = row[a].named
                 /\ row'[a].status = "connected" => row[a].status = "connected",
               \A a \in Ids : cred[a] # Null => cred'[a] # Null
        PROVE  WholeNow'
    <2>1. \A d \in Callbacks : MayConclude(d)'
      BY <1>0, <1>1, ConcludesStill DEF WholeNow
    <2>2. \A a \in Ids : Whole(a)'
      BY <1>0, <1>1 DEF WholeNow, ConnectedHasCredential, Whole
    <2>. QED  BY <2>1, <2>2 DEF WholeNow, ConnectedHasCredential
  <1>2. CASE MarkRevoked(r)
    <2>1. read[r] # Null /\ cred' = cred
      BY <1>2 DEF MarkRevoked, Reading
    <2>2. \/ row' = row
          \/ row[read[r].id] # Null /\ row' = [row EXCEPT ![read[r].id].status = "revoked"]
      BY <1>2 DEF MarkRevoked
    <2>3. \A a \in Ids : row'[a] # Null =>
            /\ row[a] # Null /\ row'[a].named = row[a].named
            /\ row'[a].status = "connected" => row[a].status = "connected"
      BY <1>0, <2>1, <2>2 DEF AccountRows
    <2>. QED  BY <1>1, <2>1, <2>3
  <1>3. CASE ReplacePut(r)
    <2>1. read[r] # Null /\ row' = row /\ Refreshable(read[r].cred)
      BY <1>3 DEF ReplacePut, Reading, Put, LinkInv, TypeInv, ReadsRefreshable
    <2>2. cred' = cred \/ cred' = [cred EXCEPT ![read[r].id] = read[r].cred]
      BY <1>3 DEF ReplacePut, Put
    <2>3. \A a \in Ids : cred[a] # Null => cred'[a] # Null
      BY <1>0, <2>1, <2>2, NullAssumption DEF Refreshable
    <2>. QED  BY <1>1, <2>1, <2>3
  <1>4. CASE UNCHANGED <<row, cred>>
    BY <1>1, <1>4
  <1>. QED  BY <1>2, <1>3, <1>4
       DEF ReaderStep, GetAccount, LoadCredential, refreshAccessToken, ReplaceGet

LEMMA LeaveWhole ==
  ASSUME LinkInv, WholeNow, "meta" \notin faults',
         \/ \E s \in States : startLink(s)
         \/ \E a \in Ids : Disconnect(a)
         \/ DisconnectLoad \/ DisconnectRevoke \/ DisconnectDelete \/ DisconnectRemove
         \/ RevokeAtProvider \/ UNCHANGED vars
  PROVE  WholeNow'
  <1>. USE DEF Unleft, storeVars, providerVars
  <1>0. /\ \A d \in Callbacks : link[d] # Null => link[d].id \in Ids
        /\ leave # Null => leave \in Leaves /\ leave.id \in Ids
        /\ row \in [Ids -> AccountRows \cup {Null}] /\ cred \in [Ids -> Credentials \cup {Null}]
        /\ link' = link
    BY OthersTake DEF LinkInv, TypeInv, TypeOK, Links, Leaves
  <1>1. /\ \A d \in Callbacks : MayConclude(d)
        /\ \A a \in Ids : Whole(a)
    BY DEF WholeNow, ConnectedHasCredential
  \* The tables stand, and who is being disconnected stays so.
  <1>2. ASSUME UNCHANGED row, \A a \in Ids : Going(a) => Going(a)',
               \A a \in Ids : cred'[a] = cred[a] \/ Going(a)'
        PROVE  WholeNow'
    <2>1. \A d \in Callbacks : MayConclude(d)'
      BY <1>0, <1>1, <1>2 DEF MayConclude
    <2>2. \A a \in Ids : Whole(a)'
      BY <1>0, <1>1, <1>2 DEF Whole, Going
    <2>. QED  BY <2>1, <2>2 DEF WholeNow, ConnectedHasCredential
  <1>3. CASE DisconnectRemove
    <2>1. /\ leave # Null /\ leave' = Null
          /\ row' = [row EXCEPT ![leave.id] = Null] /\ cred' = [cred EXCEPT ![leave.id] = Null]
      BY <1>3 DEF DisconnectRemove, RemoveRow, Fault, Leaving
    <2>2. /\ row'[leave.id] = Null
          /\ \A a \in Ids \ {leave.id} : row'[a] = row[a] /\ cred'[a] = cred[a]
      BY <1>0, <2>1
    <2>3. \A d \in Callbacks : MayConclude(d)'
      BY <1>0, <1>1, <2>1, <2>2 DEF MayConclude, Going
    <2>4. \A a \in Ids : Whole(a)'
      BY <1>0, <1>1, <2>1, <2>2 DEF Whole
    <2>. QED  BY <2>3, <2>4 DEF WholeNow, ConnectedHasCredential
  <1>4. CASE DisconnectDelete
    <2>1. /\ leave # Null /\ leave' = [leave EXCEPT !.step = "remove"] /\ row' = row
          /\ cred' = cred \/ cred' = [cred EXCEPT ![leave.id] = Null]
      BY <1>4 DEF DisconnectDelete, Put, Leaving
    <2>2. leave' # Null /\ leave'.id = leave.id
      <3>1. leave' \in Leaves
        BY <1>0, <2>1 DEF Leaves
      <3>. QED  BY <1>0, <2>1, <3>1, NullAssumption DEF Leaves
    <2>. QED  BY <1>0, <1>2, <2>1, <2>2 DEF Going
  <1>5. CASE DisconnectLoad \/ DisconnectRevoke
    <2>1. UNCHANGED <<row, cred>> /\ leave # Null
      BY <1>5 DEF DisconnectLoad, DisconnectRevoke, Leaving
    <2>2. /\ LinkInv /\ TypeInv
      BY DEF LinkInv
    <2>3. leave' \in Leaves \cup {Null}
      BY <1>5, <2>2, LeaveTypes DEF TypeInv, TypeOK
    <2>4. leave'.id = leave.id /\ leave' # Null
      <3>1. \A step, g : /\ [leave EXCEPT !.step = step].id = leave.id
                         /\ [leave EXCEPT !.step = step, !.grant = g].id = leave.id
        BY <1>0, <2>1 DEF Leaves
      <3>2. /\ [leave EXCEPT !.step = "delete"] \in Leaves
        BY <1>0, <2>1 DEF Leaves
      <3>3. \/ leave' = [leave EXCEPT !.step = "delete"]
            \/ \E g : leave' = [leave EXCEPT !.step = "revoke", !.grant = g]
                      /\ g \in Nat
        <4>1. CASE DisconnectRevoke
          BY <4>1 DEF DisconnectRevoke
        <4>2. CASE DisconnectLoad /\ cred[leave.id] = Null
          BY <4>2 DEF DisconnectLoad
        <4>3. CASE DisconnectLoad /\ cred[leave.id] # Null
          <5>1. Refreshable(cred[leave.id]) /\ cred[leave.id].refresh \in Nat
            BY <1>0, <2>1, <2>2, <4>3 DEF Refreshable, Credentials, TypeInv, ReadsRefreshable
          <5>2. leave' = [leave EXCEPT !.step = "revoke", !.grant = cred[leave.id].refresh]
            BY <4>3, <5>1 DEF DisconnectLoad, Refreshable
          <5>. QED  BY <5>1, <5>2
        <4>. QED  BY <1>5, <4>1, <4>2, <4>3
      <3>4. \A g \in Nat : [leave EXCEPT !.step = "revoke", !.grant = g] \in Leaves
        BY <1>0, <2>1 DEF Leaves
      <3>. QED  BY <3>1, <3>2, <3>3, <3>4, NullAssumption
    <2>. QED  BY <1>0, <1>2, <2>1, <2>4 DEF Going
  <1>6. ASSUME NEW a \in Ids, Disconnect(a) PROVE WholeNow'
    <2>1. UNCHANGED <<row, cred>> /\ leave = Null
      BY <1>6 DEF Disconnect
    <2>. QED  BY <1>2, <2>1 DEF Going
  <1>7. CASE UNCHANGED <<row, cred, leave>>
    BY <1>2, <1>7 DEF Going
  <1>. QED  BY <1>3, <1>4, <1>5, <1>6, <1>7 DEF startLink, RevokeAtProvider, vars

LEMMA WholeStep == WholeInv /\ [Next]_vars => WholeInv'
  <1>. SUFFICES ASSUME WholeInv, [Next]_vars, "meta" \notin faults' PROVE WholeNow'
    BY LinkStep DEF WholeInv
  <1>1. LinkInv /\ LinkInv' /\ TypeInv /\ WholeNow
    BY LinkStep, FaultsGrow DEF WholeInv, LinkInv
  <1>. QED  BY <1>1, CallbackWhole, ReaderWhole, LeaveWhole DEF Next

\* As long as the metadata can be written, a row that says connected has a credential,
\* unless it is being disconnected: callbacks, refreshes, a disconnect, a crash and
\* failures of the vault and the provider may interleave in any way.
THEOREM WholeCorrect == Spec => []ConnectedIsWhole
  <1>1. Init => WholeInv
    BY LinkInit DEF Init, WholeInv, WholeNow, MayConclude, ConnectedHasCredential, Whole, Ids
  <1>2. WholeInv => ConnectedIsWhole
    BY DEF WholeInv, WholeNow, ConnectedIsWhole
  <1>. QED  BY WholeStep, <1>1, <1>2, PTL DEF Spec
=============================================================================
