-------------------------- MODULE SessionGateProofs --------------------------
(***************************************************************************)
(* Theorems about SessionGate, for any number of accounts, changes of the  *)
(* session and failing reads: types, the one startup session, that what is *)
(* synchronized is what is shown, that once nothing is left to handle what *)
(* is shown is the session there is, and that the paid boundary then lets  *)
(* in exactly who is entitled.                                             *)
(***************************************************************************)
EXTENDS SessionGate, TLAPS

\* The session being adopted is the first of the queue.
AdoptsFirst == adopting => chain # <<>>

TypeInv == TypeOK /\ AdoptsFirst

-----------------------------------------------------------------------------
(* Types.                                                                  *)

LEMMA TypeInit == Init => TypeInv
  <1>. SUFFICES ASSUME Init PROVE TypeInv
    OBVIOUS
  <1>. USE DEF Init
  <1>1. emits \in Seq(Emitted) /\ chain \in Seq(Sessions)
    OBVIOUS
  <1>2. who \in Sessions /\ remote \in Sessions /\ Null \in Sessions
    BY DEF Sessions
  <1>. QED  BY <1>1, <1>2 DEF TypeInv, TypeOK, AdoptsFirst

LEMMA QueueType ==
  ASSUME TypeOK, NEW e \in Emitted, Queue(e)
  PROVE  chain' \in Seq(Sessions) /\ startups' \in Nat /\ chain' # <<>>
  BY DEF TypeOK, Queue, Emitted

LEMMA SessionTypes == ASSUME TypeInv, Session PROVE TypeInv'
  <1>. USE DEF TypeInv, TypeOK, AdoptsFirst, clientVars, bootVars, subVars
  <1>1. CASE Listener
    <2>1. Head(emits) \in Emitted /\ emits' \in Seq(Emitted)
      BY <1>1 DEF Listener
    <2>2. CASE UNCHANGED <<chain, initialSessionHandled, startups>>
      BY <1>1, <2>1, <2>2 DEF Listener
    <2>3. CASE Queue(Head(emits))
      <3>1. chain' \in Seq(Sessions) /\ startups' \in Nat /\ chain' # <<>>
        BY <2>1, <2>3, QueueType
      <3>2. initialSessionHandled' \in BOOLEAN
        BY <1>1 DEF Listener
      <3>. QED  BY <1>1, <2>1, <3>1, <3>2 DEF Listener
    <2>. QED  BY <1>1, <2>2, <2>3 DEF Listener
  <1>2. CASE GetSession
    <2>1. [kind |-> "initial", session |-> who] \in Emitted
      BY DEF Emitted
    <2>2. /\ chain' \in Seq(Sessions) /\ startups' \in Nat /\ initialSessionHandled' \in BOOLEAN
          /\ chain' = chain \/ chain' # <<>>
      BY <1>2, <2>1, QueueType DEF GetSession
    <2>. QED  BY <1>2, <2>2 DEF GetSession
  <1>3. CASE GivesUp
    BY <1>3 DEF GivesUp, Sessions
  <1>4. CASE HandleSession
    <2>1. Head(chain) \in Sessions /\ Tail(chain) \in Seq(Sessions)
      BY <1>4 DEF HandleSession
    <2>. QED  BY <1>4, <2>1 DEF HandleSession
  <1>5. CASE SessionHandled
    <2>1. Tail(chain) \in Seq(Sessions)
      BY <1>5 DEF SessionHandled
    <2>. QED  BY <1>5, <2>1 DEF SessionHandled
  <1>. QED  BY <1>1, <1>2, <1>3, <1>4, <1>5 DEF Session

LEMMA ClientTypes == ASSUME TypeInv, EmitInitialSession \/ ChangeSession PROVE TypeInv'
  <1>. USE DEF TypeInv, TypeOK, AdoptsFirst, clientVars, bootVars, subVars
  <1>1. CASE EmitInitialSession
    <2>1. [kind |-> "initial", session |-> who] \in Emitted
      BY DEF Emitted
    <2>2. emits' \in Seq(Emitted)
      BY <1>1, <2>1 DEF EmitInitialSession, Emit
    <2>. QED  BY <1>1, <2>2 DEF EmitInitialSession
  <1>2. CASE ChangeSession
    <2>1. PICK s \in Sessions : who' = s /\ Emit("change", s)
      BY <1>2 DEF ChangeSession
    <2>2. [kind |-> "change", session |-> s] \in Emitted
      BY DEF Emitted
    <2>3. emits' \in Seq(Emitted)
      BY <2>1, <2>2 DEF Emit
    <2>. QED  BY <1>2, <2>1, <2>3 DEF ChangeSession
  <1>. QED  BY <1>1, <1>2

LEMMA GateTypes == ASSUME TypeInv, Effect \/ Read PROVE TypeInv'
  <1>. USE DEF TypeInv, TypeOK, AdoptsFirst, clientVars, bootVars, subVars
  <1>1. Null \in Sessions
    BY DEF Sessions
  <1>2. CASE Effect
    BY <1>1, <1>2 DEF Effect, Reads
  <1>3. CASE GetUser
    <2>1. CASE who = Null
      <3>1. sub' = [resolved |-> TRUE, of |-> Null] /\ inFlight' = Null
        BY <1>3, <2>1 DEF GetUser, Answer
      <3>2. UNCHANGED <<clientVars, bootVars, seen, shared, faults>>
        BY <1>3 DEF GetUser
      <3>3. sub' \in [resolved : BOOLEAN, of : Sessions]
        BY <1>1, <3>1
      <3>. QED  BY <3>1, <3>2, <3>3
    <2>2. CASE who # Null
      <3>1. [step |-> "row", user |-> who] \in Reads
        BY DEF Reads
      <3>. QED  BY <1>3, <2>2, <3>1 DEF GetUser
    <2>. QED  BY <2>1, <2>2
  <1>4. CASE ReadRow
    BY <1>1, <1>4 DEF ReadRow, Answer
  <1>5. CASE ReadFails
    BY <1>1, <1>5 DEF ReadFails, Answer
  <1>. QED  BY <1>2, <1>3, <1>4, <1>5 DEF Read

LEMMA TypeStep == TypeInv /\ [Next]_vars => TypeInv'
  <1>. SUFFICES ASSUME TypeInv, [Next]_vars PROVE TypeInv'
    OBVIOUS
  <1>1. CASE UNCHANGED vars
    BY <1>1 DEF vars, clientVars, bootVars, subVars, TypeInv, TypeOK, AdoptsFirst
  <1>. QED  BY <1>1, SessionTypes, ClientTypes, GateTypes DEF Next

\* Every variable stays in its type, and an adoption is always that of the first
\* session of the queue.
LEMMA TypesHold == Spec => []TypeInv
  BY TypeInit, TypeStep, PTL DEF Spec

\* Every reachable state is well typed, because the facts above come with the types.
THEOREM TypeCorrect == Spec => []TypeOK
  <1>1. TypeInv => TypeOK
    BY DEF TypeInv
  <1>. QED  BY TypesHold, <1>1, PTL

-----------------------------------------------------------------------------
(* The startup session, and the account that is synchronized.              *)

\* The flag is claimed with the session, in one step.
ClaimedWithIt == startups = IF initialSessionHandled THEN 1 ELSE 0

StartupInv == TypeInv /\ ClaimedWithIt /\ SyncIsShown

LEMMA StartupStep == StartupInv /\ [Next]_vars => StartupInv'
  <1>. SUFFICES ASSUME StartupInv, [Next]_vars PROVE ClaimedWithIt' /\ SyncIsShown'
    BY TypeStep DEF StartupInv
  <1>. USE DEF StartupInv, TypeInv, TypeOK, ClaimedWithIt, SyncIsShown
  <1>1. CASE Listener
    <2>1. UNCHANGED <<auth, remote, overruled>>
      BY <1>1 DEF Listener
    <2>2. CASE Head(emits).kind = "initial" /\ initialSessionHandled
      BY <1>1, <2>1, <2>2 DEF Listener
    <2>3. CASE Head(emits).kind = "initial" /\ ~initialSessionHandled
      <3>1. startups' = startups + 1 /\ initialSessionHandled'
        BY <1>1, <2>3 DEF Listener, Queue
      <3>. QED  BY <2>1, <2>3, <3>1
    <2>4. CASE Head(emits).kind # "initial"
      <3>1. startups' = startups + 0 /\ initialSessionHandled' = initialSessionHandled
        BY <1>1, <2>4 DEF Listener, Queue
      <3>. QED  BY <2>1, <3>1
    <2>. QED  BY <2>2, <2>3, <2>4
  <1>2. CASE GetSession
    BY <1>2 DEF GetSession, Queue
  <1>3. CASE GivesUp
    BY <1>3 DEF GivesUp
  <1>4. CASE HandleSession
    BY <1>4 DEF HandleSession
  <1>5. CASE SessionHandled
    BY <1>5 DEF SessionHandled
  <1>6. CASE UNCHANGED <<initialSessionHandled, startups, auth, remote, overruled>>
    BY <1>6
  <1>. QED  BY <1>1, <1>2, <1>3, <1>4, <1>5, <1>6
       DEF Next, Session, EmitInitialSession, ChangeSession, Effect, Read, GetUser, ReadRow,
           ReadFails, vars, bootVars

LEMMA StartupInit == Init => StartupInv
  BY TypeInit DEF Init, StartupInv, ClaimedWithIt, SyncIsShown

\* INITIAL_SESSION and the explicit read never both drive the startup session.
THEOREM StartupCorrect == Spec => []StartupHandledOnce
  <1>1. StartupInv => StartupHandledOnce
    BY DEF StartupInv, ClaimedWithIt, StartupHandledOnce
  <1>. QED  BY StartupInit, StartupStep, <1>1, PTL DEF Spec

\* The account that is synchronized is the one that is shown, or the check was given up
\* while it was.
THEOREM SyncShownCorrect == Spec => []SyncIsShown
  <1>1. StartupInv => SyncIsShown
    BY DEF StartupInv
  <1>. QED  BY StartupInit, StartupStep, <1>1, PTL DEF Spec

-----------------------------------------------------------------------------
(* What is shown once nothing is left to handle.                           *)

LastOf(q) == q[Len(q)]

\* The last event emitted is about the session there is; INITIAL_SESSION comes once
\* and repeats what the event before it said.
EmitsInOrder ==
  /\ emits # <<>> => LastOf(emits).session = who
  /\ \A i \in 2 .. Len(emits) :
       emits[i].kind = "initial" => emits[i].session = emits[i - 1].session
  /\ \A i, j \in 1 .. Len(emits) :
       emits[i].kind = "initial" /\ emits[j].kind = "initial" => i = j /\ announced

\* With no change left to deliver, the queue ends in the session there is; with the
\* queue empty as well that session is shown, or the check was given up.
NoChangeLeft == \A i \in 1 .. Len(emits) : emits[i].kind = "initial"
QueueEnds ==
  NoChangeLeft =>
    /\ chain # <<>> => LastOf(chain) = who
    /\ chain = <<>> /\ (initialSessionHandled \/ asked = "failed") =>
         auth.email = who \/ auth.unavailable

\* The session being adopted is shown, or the check was given up meanwhile.
AdoptedIsShown == adopting => auth.email = Head(chain) \/ auth.unavailable

SettledInv == TypeInv /\ EmitsInOrder /\ QueueEnds /\ AdoptedIsShown

LEMMA SettledInit == Init => SettledInv
  BY TypeInit DEF Init, SettledInv, EmitsInOrder, NoChangeLeft, QueueEnds, AdoptedIsShown

LEMMA ClientSettled ==
  ASSUME SettledInv, EmitInitialSession \/ ChangeSession PROVE SettledInv'
  <1>. USE DEF SettledInv
  <1>0. emits \in Seq(Emitted) /\ TypeInv'
    BY ClientTypes DEF TypeInv, TypeOK
  <1>1. UNCHANGED <<chain, adopting, auth, initialSessionHandled, asked>>
    BY DEF EmitInitialSession, ChangeSession, bootVars
  <1>2. CASE EmitInitialSession
    <2>. DEFINE e == [kind |-> "initial", session |-> who]
    <2>1. emits' = Append(emits, e) /\ who' = who /\ ~announced /\ announced'
      BY <1>2 DEF EmitInitialSession, Emit
    <2>2. /\ Len(emits') = Len(emits) + 1 /\ emits'[Len(emits) + 1] = e
          /\ \A i \in 1 .. Len(emits) : emits'[i] = emits[i]
      BY <1>0, <2>1
    <2>3. EmitsInOrder'
      BY <1>0, <2>1, <2>2 DEF EmitsInOrder, LastOf
    <2>4. NoChangeLeft' => NoChangeLeft
      BY <1>0, <2>2 DEF NoChangeLeft
    <2>. QED  BY <1>0, <1>1, <2>1, <2>3, <2>4 DEF QueueEnds, AdoptedIsShown, LastOf
  <1>3. CASE ChangeSession
    <2>1. PICK s \in Sessions : who' = s /\ emits' = Append(emits, [kind |-> "change", session |-> s])
      BY <1>3 DEF ChangeSession, Emit
    <2>2. /\ Len(emits') = Len(emits) + 1
          /\ emits'[Len(emits) + 1] = [kind |-> "change", session |-> s]
          /\ \A i \in 1 .. Len(emits) : emits'[i] = emits[i]
      BY <1>0, <2>1
    <2>3. announced' = announced
      BY <1>3 DEF ChangeSession
    <2>4. EmitsInOrder'
      BY <1>0, <2>1, <2>2, <2>3 DEF EmitsInOrder, LastOf
    <2>5. ~NoChangeLeft'
      BY <1>0, <2>2 DEF NoChangeLeft
    <2>. QED  BY <1>0, <1>1, <2>4, <2>5 DEF QueueEnds, AdoptedIsShown
  <1>. QED  BY <1>2, <1>3

\* The queue grows at its end.
LEMMA QueueGrows ==
  ASSUME TypeInv, NEW e \in Emitted, Queue(e), UNCHANGED adopting
  PROVE  /\ chain' # <<>> /\ LastOf(chain') = e.session
         /\ adopting => Head(chain') = Head(chain)
  <1>1. chain \in Seq(Sessions) /\ e.session \in Sessions /\ chain' = Append(chain, e.session)
    BY DEF TypeInv, TypeOK, Emitted, Queue
  <1>2. Len(chain') = Len(chain) + 1 /\ chain'[Len(chain) + 1] = e.session
    BY <1>1
  <1>3. chain # <<>> => chain'[1] = chain[1]
    BY <1>1
  <1>. QED  BY <1>1, <1>2, <1>3 DEF LastOf, TypeInv, AdoptsFirst

LEMMA ListenerSettled == ASSUME SettledInv, Listener PROVE SettledInv'
  <1>. USE DEF SettledInv
  <1>0. emits \in Seq(Emitted) /\ TypeInv'
    BY SessionTypes DEF TypeInv, TypeOK, Session
  <1>1. /\ emits # <<>> /\ emits' = Tail(emits) /\ Head(emits) \in Emitted
        /\ Head(emits) = emits[1]
        /\ UNCHANGED <<who, announced, adopting, auth, asked>>
    BY <1>0 DEF Listener
  <1>2. /\ Len(emits') = Len(emits) - 1 /\ Len(emits) \in Nat \ {0}
        /\ \A i \in 1 .. Len(emits') : emits'[i] = emits[i + 1]
    BY <1>0, <1>1
  <1>3. EmitsInOrder'
    <2>1. emits' # <<>> => LastOf(emits').session = who
      BY <1>0, <1>1, <1>2 DEF EmitsInOrder, LastOf
    <2>2. ASSUME NEW i \in 2 .. Len(emits'), emits'[i].kind = "initial"
          PROVE  emits'[i].session = emits'[i - 1].session
      <3>1. /\ i + 1 \in 2 .. Len(emits) /\ emits'[i] = emits[i + 1]
            /\ i - 1 \in 1 .. Len(emits') /\ emits'[i - 1] = emits[i]
        BY <1>2
      <3>. QED  BY <2>2, <3>1 DEF EmitsInOrder
    <2>3. ASSUME NEW i \in 1 .. Len(emits'), NEW j \in 1 .. Len(emits'),
                 emits'[i].kind = "initial", emits'[j].kind = "initial"
          PROVE  i = j /\ announced
      <3>1. i + 1 \in 1 .. Len(emits) /\ j + 1 \in 1 .. Len(emits)
        BY <1>2
      <3>2. i + 1 = j + 1 /\ announced
        BY <1>2, <2>3, <3>1 DEF EmitsInOrder
      <3>. QED  BY <3>2
    <2>. QED  BY <1>1, <2>1, <2>2, <2>3 DEF EmitsInOrder
  \* With no change behind it, the event delivered is about the session there is.
  <1>4. ASSUME NoChangeLeft' PROVE Head(emits).session = who
    <2>1. CASE Len(emits) = 1
      BY <1>1, <2>1 DEF EmitsInOrder, LastOf
    <2>2. CASE Len(emits) # 1
      <3>1. Len(emits) = 2
        <4>1. CASE Len(emits) > 2
          <5>1. 1 \in 1 .. Len(emits') /\ 2 \in 1 .. Len(emits')
            BY <1>2, <4>1
          <5>2. emits'[1].kind = "initial" /\ emits'[2].kind = "initial"
            BY <1>4, <5>1 DEF NoChangeLeft
          <5>. QED  BY <1>3, <5>1, <5>2 DEF EmitsInOrder
        <4>. QED  BY <1>2, <2>2, <4>1
      <3>2. emits[2].kind = "initial" /\ LastOf(emits) = emits[2]
        BY <1>2, <1>4, <3>1 DEF NoChangeLeft, LastOf
      <3>3. emits[2].session = emits[1].session
        BY <3>1, <3>2 DEF EmitsInOrder
      <3>. QED  BY <1>1, <3>2, <3>3 DEF EmitsInOrder
    <2>. QED  BY <2>1, <2>2
  <1>5. CASE Head(emits).kind = "initial" /\ initialSessionHandled
    <2>1. UNCHANGED <<chain, initialSessionHandled>>
      BY <1>5 DEF Listener
    <2>2. NoChangeLeft' => NoChangeLeft
      <3>1. SUFFICES ASSUME NoChangeLeft', NEW i \in 1 .. Len(emits)
                     PROVE  emits[i].kind = "initial"
        BY DEF NoChangeLeft
      <3>2. CASE i = 1
        BY <1>1, <1>5, <3>2
      <3>3. CASE i # 1
        <4>1. i - 1 \in 1 .. Len(emits') /\ emits'[i - 1] = emits[i]
          BY <1>2, <3>3
        <4>. QED  BY <3>1, <4>1 DEF NoChangeLeft
      <3>. QED  BY <3>2, <3>3
    <2>. QED  BY <1>0, <1>1, <1>3, <2>1, <2>2 DEF QueueEnds, AdoptedIsShown, LastOf
  <1>6. CASE ~(Head(emits).kind = "initial" /\ initialSessionHandled)
    <2>1. Queue(Head(emits))
      BY <1>6 DEF Listener
    <2>2. /\ chain' # <<>> /\ LastOf(chain') = Head(emits).session
          /\ adopting => Head(chain') = Head(chain)
      BY <1>1, <2>1, QueueGrows
    <2>3. QueueEnds'
      BY <1>1, <1>4, <2>2 DEF QueueEnds, LastOf
    <2>. QED  BY <1>0, <1>1, <1>3, <2>2, <2>3 DEF AdoptedIsShown
  <1>. QED  BY <1>5, <1>6

LEMMA SessionSettled ==
  ASSUME SettledInv, GetSession \/ GivesUp \/ HandleSession \/ SessionHandled
  PROVE  SettledInv'
  <1>. USE DEF SettledInv
  <1>0. chain \in Seq(Sessions) /\ TypeInv' /\ (adopting => chain # <<>>)
    BY SessionTypes DEF TypeInv, TypeOK, Session, AdoptsFirst
  <1>1. UNCHANGED <<emits, who, announced>>
    BY DEF GetSession, GivesUp, HandleSession, SessionHandled, clientVars
  <1>2. EmitsInOrder' /\ NoChangeLeft' = NoChangeLeft
    BY <1>1 DEF EmitsInOrder, NoChangeLeft, LastOf
  <1>3. CASE GetSession
    <2>1. UNCHANGED <<adopting, auth>>
      BY <1>3 DEF GetSession
    <2>2. CASE initialSessionHandled
      <3>1. UNCHANGED <<chain, initialSessionHandled>>
        BY <1>3, <2>2 DEF GetSession
      <3>. QED  BY <1>0, <1>1, <1>2, <2>1, <2>2, <3>1 DEF QueueEnds, AdoptedIsShown, LastOf
    <2>3. CASE ~initialSessionHandled
      <3>1. /\ Queue([kind |-> "initial", session |-> who])
            /\ [kind |-> "initial", session |-> who] \in Emitted
        BY <1>3, <2>3 DEF GetSession, Emitted, TypeInv, TypeOK
      <3>2. /\ chain' # <<>> /\ LastOf(chain') = who
            /\ adopting => Head(chain') = Head(chain)
        BY <2>1, <3>1, QueueGrows
      <3>. QED  BY <1>0, <1>1, <1>2, <2>1, <3>2 DEF QueueEnds, AdoptedIsShown, LastOf
    <2>. QED  BY <2>2, <2>3
  <1>4. CASE GivesUp
    BY <1>0, <1>1, <1>2, <1>4 DEF GivesUp, QueueEnds, AdoptedIsShown, LastOf
  <1>5. ASSUME chain # <<>>
        PROVE  /\ Len(Tail(chain)) = Len(chain) - 1
               /\ Tail(chain) = <<>> => LastOf(chain) = Head(chain)
               /\ Tail(chain) # <<>> => LastOf(Tail(chain)) = LastOf(chain)
    <2>1. Len(chain) \in Nat \ {0} /\ Len(Tail(chain)) = Len(chain) - 1
      BY <1>0, <1>5
    <2>2. Tail(chain) = <<>> => Len(chain) = 1
      BY <2>1
    <2>3. Tail(chain) # <<>> => Len(Tail(chain)) \in 1 .. (Len(chain) - 1)
      BY <1>0, <1>5, <2>1
    <2>. QED  BY <1>0, <1>5, <2>1, <2>2, <2>3 DEF LastOf
  <1>6. CASE HandleSession
    <2>1. /\ chain # <<>> /\ ~adopting /\ auth'.email = Head(chain)
          /\ UNCHANGED <<initialSessionHandled, asked>>
      BY <1>6 DEF HandleSession
    <2>2. CASE chain' = Tail(chain) /\ UNCHANGED adopting
      BY <1>0, <1>1, <1>2, <1>5, <2>1, <2>2 DEF QueueEnds, AdoptedIsShown
    <2>3. CASE chain' = chain
      BY <1>0, <1>1, <1>2, <2>1, <2>3 DEF QueueEnds, AdoptedIsShown, LastOf
    <2>. QED  BY <1>6, <2>2, <2>3 DEF HandleSession
  <1>7. CASE SessionHandled
    <2>1. /\ adopting /\ ~adopting' /\ chain' = Tail(chain)
          /\ UNCHANGED <<auth, initialSessionHandled, asked>>
      BY <1>7 DEF SessionHandled
    <2>. QED  BY <1>0, <1>1, <1>2, <1>5, <2>1 DEF QueueEnds, AdoptedIsShown
  <1>. QED  BY <1>3, <1>4, <1>6, <1>7

LEMMA SettledStep == SettledInv /\ [Next]_vars => SettledInv'
  <1>. SUFFICES ASSUME SettledInv, [Next]_vars PROVE SettledInv'
    OBVIOUS
  <1>1. CASE Effect \/ Read \/ UNCHANGED vars
    <2>1. UNCHANGED <<clientVars, bootVars>>
      BY <1>1 DEF Effect, Read, GetUser, ReadRow, ReadFails, vars
    <2>. QED  BY <1>1, <2>1, TypeStep
         DEF SettledInv, EmitsInOrder, NoChangeLeft, QueueEnds, AdoptedIsShown, LastOf,
             clientVars, bootVars, Next
  <1>. QED  BY <1>1, ClientSettled, ListenerSettled, SessionSettled DEF Next, Session

\* Once nothing is left to be delivered or handled, what the tab shows is the session
\* there is, or that it could not be checked: for any order of INITIAL_SESSION, the
\* answer of getSession, the timeout and any number of changes of the session.
THEOREM SettledCorrect == Spec => []SettledIsShown
  <1>1. SettledInv => SettledIsShown
    BY DEF SettledInv, Settled, SettledIsShown, QueueEnds, NoChangeLeft
  <1>. QED  BY SettledInit, SettledStep, <1>1, PTL DEF Spec

-----------------------------------------------------------------------------
(* What the paid boundary decides once nothing is left to handle.          *)

\* Nobody is named while the session is unknown or could not be checked.
NamedIsKnown == auth.loading \/ auth.unavailable => auth.email = Null

\* A tab that shows somebody and has nothing to handle shows the session there is.
ShownIsCurrent == NoChangeLeft /\ chain = <<>> /\ auth.email # Null => auth.email = who

\* INITIAL_SESSION, when it can still count, repeats the last session delivered.
InitialRepeats ==
  ~initialSessionHandled /\ emits # <<>> /\ Head(emits).kind = "initial" =>
    /\ chain # <<>> => LastOf(chain) = Head(emits).session
    /\ chain = <<>> /\ auth.email # Null => auth.email = Head(emits).session

\* Nothing on its way shows anybody else: an INITIAL_SESSION that comes second counts
\* for nothing.
Counts(e) == ~(e.kind = "initial" /\ initialSessionHandled)
Quiet ==
  /\ auth.email # Null /\ auth.email = who
  /\ \A i \in 1 .. Len(chain) : chain[i] = auth.email
  /\ \A i \in 1 .. Len(emits) : Counts(emits[i]) => emits[i].session = auth.email

\* The read of the row answers, or has answered, for the session there is.
ReadIsRight ==
  IF inFlight = Null
  THEN sub = [resolved |-> TRUE, of |-> IF who \in Subscribed THEN who ELSE Null]
  ELSE inFlight.step = "user" \/ inFlight.user = who

\* While nothing on its way shows anybody else, a read the last change of account
\* started is right.
OwnReadIsRight == Quiet /\ seen = auth.email /\ ~shared /\ faults = 0 => ReadIsRight

GateInv == SettledInv /\ NamedIsKnown /\ ShownIsCurrent /\ InitialRepeats /\ OwnReadIsRight

LEMMA GateInit == Init => GateInv
  BY SettledInit
  DEF Init, GateInv, NamedIsKnown, ShownIsCurrent, InitialRepeats, OwnReadIsRight, Quiet,
      NoChangeLeft

LEMMA ClientGate == ASSUME GateInv, EmitInitialSession \/ ChangeSession PROVE GateInv'
  <1>. USE DEF GateInv
  <1>0. /\ SettledInv' /\ emits \in Seq(Emitted) /\ chain \in Seq(Sessions)
        /\ (emits # <<>> => LastOf(emits).session = who)
    BY ClientSettled DEF SettledInv, TypeInv, TypeOK, EmitsInOrder
  <1>1. UNCHANGED <<chain, adopting, auth, initialSessionHandled, sub, inFlight, seen, shared,
                    faults>>
    BY DEF EmitInitialSession, ChangeSession, bootVars, subVars
  <1>2. NamedIsKnown'
    BY <1>1 DEF NamedIsKnown
  <1>3. CASE EmitInitialSession
    <2>. DEFINE e == [kind |-> "initial", session |-> who]
    <2>1. emits' = Append(emits, e) /\ who' = who
      BY <1>3 DEF EmitInitialSession, Emit
    <2>2. /\ Len(emits') = Len(emits) + 1 /\ emits'[Len(emits) + 1] = e
          /\ \A i \in 1 .. Len(emits) : emits'[i] = emits[i]
          /\ emits # <<>> => Head(emits') = Head(emits)
      BY <1>0, <2>1
    <2>3. (NoChangeLeft' => NoChangeLeft) /\ (emits = <<>> => NoChangeLeft /\ Head(emits') = e)
      BY <1>0, <2>1, <2>2 DEF NoChangeLeft
    <2>4. ShownIsCurrent'
      BY <1>1, <2>1, <2>3 DEF ShownIsCurrent
    <2>5. InitialRepeats'
      <3>1. CASE emits = <<>>
        BY <1>1, <2>1, <2>3, <3>1 DEF InitialRepeats, ShownIsCurrent, SettledInv, QueueEnds
      <3>2. CASE emits # <<>>
        BY <1>1, <2>2, <3>2 DEF InitialRepeats, LastOf
      <3>. QED  BY <3>1, <3>2
    <2>6. Quiet' => Quiet
      BY <1>0, <1>1, <2>1, <2>2 DEF Quiet, Counts
    <2>7. OwnReadIsRight'
      BY <1>1, <2>1, <2>6 DEF OwnReadIsRight, ReadIsRight
    <2>. QED  BY <1>0, <1>2, <2>4, <2>5, <2>7
  <1>4. CASE ChangeSession
    <2>1. PICK s \in Sessions \ {who} :
            who' = s /\ emits' = Append(emits, [kind |-> "change", session |-> s])
      BY <1>4 DEF ChangeSession, Emit
    <2>2. /\ Len(emits') = Len(emits) + 1
          /\ emits'[Len(emits) + 1] = [kind |-> "change", session |-> s]
          /\ \A i \in 1 .. Len(emits) : emits'[i] = emits[i]
          /\ emits # <<>> => Head(emits') = Head(emits)
          /\ emits = <<>> => Head(emits').kind = "change"
      BY <1>0, <2>1
    <2>3. ~NoChangeLeft'
      BY <1>0, <2>2 DEF NoChangeLeft
    <2>4. InitialRepeats'
      BY <1>1, <2>2 DEF InitialRepeats, LastOf
    \* The tab would have to show the new session before it is told of it.
    <2>5. ~Quiet'
      <3>1. SUFFICES ASSUME Quiet' PROVE FALSE
        OBVIOUS
      <3>2. auth.email = s /\ auth.email # who /\ auth.email # Null
        BY <1>1, <2>1, <3>1 DEF Quiet
      <3>3. CASE chain # <<>> /\ NoChangeLeft
        <4>1. LastOf(chain) = who /\ Len(chain) \in 1 .. Len(chain)
          BY <1>0, <3>3 DEF SettledInv, QueueEnds
        <4>. QED  BY <1>1, <3>1, <3>2, <4>1 DEF Quiet, LastOf
      <3>4. CASE chain = <<>> /\ NoChangeLeft
        BY <3>2, <3>4 DEF ShownIsCurrent
      <3>5. CASE ~NoChangeLeft
        <4>1. PICK i \in 1 .. Len(emits) : emits[i].kind # "initial"
          BY <3>5 DEF NoChangeLeft
        <4>2. Len(emits) \in 1 .. Len(emits) /\ emits # <<>> /\ LastOf(emits) = emits[Len(emits)]
          BY <1>0, <4>1 DEF LastOf
        <4>3. ~Counts(emits[Len(emits)])
          BY <1>0, <1>1, <2>2, <3>1, <3>2, <4>2 DEF Quiet, Counts
        <4>4. emits[Len(emits)].kind = "initial" /\ Len(emits) # 1 /\ Len(emits) - 1 \in 1 .. Len(emits)
          BY <1>0, <4>1, <4>3 DEF Counts
        <4>5. emits[Len(emits) - 1].session = who
          BY <1>0, <4>2, <4>4 DEF SettledInv, EmitsInOrder
        <4>6. emits[Len(emits) - 1].kind # "initial"
          BY <1>0, <4>2, <4>4 DEF SettledInv, EmitsInOrder
        <4>. QED  BY <1>1, <2>2, <3>1, <3>2, <4>4, <4>5, <4>6 DEF Quiet, Counts
      <3>. QED  BY <3>3, <3>4, <3>5
    <2>. QED  BY <1>0, <1>2, <2>3, <2>4, <2>5 DEF ShownIsCurrent, OwnReadIsRight
  <1>. QED  BY <1>3, <1>4

LEMMA ListenerGate == ASSUME GateInv, Listener PROVE GateInv'
  <1>. USE DEF GateInv
  <1>0. /\ SettledInv' /\ emits \in Seq(Emitted) /\ chain \in Seq(Sessions)
    BY ListenerSettled DEF SettledInv, TypeInv, TypeOK
  <1>1. /\ emits # <<>> /\ emits' = Tail(emits) /\ Head(emits) \in Emitted
        /\ Head(emits) = emits[1]
        /\ UNCHANGED <<who, auth, sub, inFlight, seen, shared, faults>>
    BY <1>0 DEF Listener, subVars
  <1>2. /\ Len(emits') = Len(emits) - 1 /\ Len(emits) \in Nat \ {0}
        /\ \A i \in 1 .. Len(emits') : emits'[i] = emits[i + 1]
        /\ emits' # <<>> => Head(emits') = emits[2]
    BY <1>0, <1>1
  <1>3. NamedIsKnown'
    BY <1>1 DEF NamedIsKnown
  <1>4. CASE Head(emits).kind = "initial" /\ initialSessionHandled
    <2>1. UNCHANGED <<chain, initialSessionHandled>>
      BY <1>4 DEF Listener
    <2>2. ShownIsCurrent' /\ (Quiet' => Quiet)
      <3>1. ASSUME NEW i \in 1 .. Len(emits), i # 1
            PROVE  i - 1 \in 1 .. Len(emits') /\ emits'[i - 1] = emits[i]
        BY <1>2, <3>1
      <3>2. NoChangeLeft' => NoChangeLeft
        BY <1>1, <1>2, <1>4, <3>1 DEF NoChangeLeft
      <3>3. Quiet' => Quiet
        BY <1>1, <1>2, <1>4, <2>1, <3>1 DEF Quiet, Counts
      <3>. QED  BY <1>1, <2>1, <3>2, <3>3 DEF ShownIsCurrent
    <2>. QED  BY <1>0, <1>1, <1>3, <1>4, <2>1, <2>2 DEF InitialRepeats, OwnReadIsRight, ReadIsRight
  <1>5. CASE ~(Head(emits).kind = "initial" /\ initialSessionHandled)
    <2>1. /\ chain' = Append(chain, Head(emits).session)
          /\ initialSessionHandled' = (initialSessionHandled \/ Head(emits).kind = "initial")
      BY <1>5 DEF Listener, Queue
    <2>2. /\ chain' # <<>> /\ LastOf(chain') = Head(emits).session
          /\ Len(chain') = Len(chain) + 1 /\ chain'[Len(chain) + 1] = Head(emits).session
          /\ \A i \in 1 .. Len(chain) : chain'[i] = chain[i]
      BY <1>0, <1>1, <2>1 DEF Emitted, LastOf
    <2>3. InitialRepeats'
      <3>1. SUFFICES ASSUME ~initialSessionHandled', emits' # <<>>, Head(emits').kind = "initial"
                     PROVE  LastOf(chain') = Head(emits').session
        BY <2>2 DEF InitialRepeats
      <3>2. 2 \in 2 .. Len(emits) /\ Head(emits') = emits[2]
        BY <1>0, <1>2, <3>1
      <3>. QED  BY <1>1, <2>2, <3>1, <3>2 DEF SettledInv, EmitsInOrder
    <2>4. Quiet' => Quiet
      <3>1. SUFFICES ASSUME Quiet' PROVE Quiet
        OBVIOUS
      <3>2. \A i \in 1 .. Len(chain) : chain[i] = auth.email
        BY <1>0, <1>1, <2>2, <3>1 DEF Quiet
      <3>3. Head(emits).session = auth.email
        BY <1>0, <1>1, <2>2, <3>1 DEF Quiet
      <3>4. ASSUME NEW i \in 1 .. Len(emits), Counts(emits[i])
            PROVE  emits[i].session = auth.email
        <4>1. CASE i = 1
          BY <1>1, <3>3, <4>1
        <4>2. CASE i # 1
          <5>1. i - 1 \in 1 .. Len(emits') /\ emits'[i - 1] = emits[i]
            BY <1>2, <4>2
          <5>2. CASE Head(emits).kind = "initial"
            <6>1. emits[i].kind # "initial"
              BY <1>1, <1>2, <4>2, <5>2 DEF SettledInv, EmitsInOrder
            <6>. QED  BY <1>1, <3>1, <5>1, <6>1 DEF Quiet, Counts
          <5>3. CASE Head(emits).kind # "initial"
            <6>1. initialSessionHandled' = initialSessionHandled
              BY <2>1, <5>3 DEF SettledInv, TypeInv, TypeOK
            <6>. QED  BY <1>1, <3>1, <3>4, <5>1, <6>1 DEF Quiet, Counts
          <5>. QED  BY <5>2, <5>3
        <4>. QED  BY <4>1, <4>2
      <3>. QED  BY <1>1, <3>1, <3>2, <3>4 DEF Quiet
    <2>. QED  BY <1>0, <1>1, <1>3, <2>2, <2>3, <2>4 DEF ShownIsCurrent, OwnReadIsRight, ReadIsRight
  <1>. QED  BY <1>4, <1>5

LEMMA GetSessionGate == ASSUME GateInv, GetSession PROVE GateInv'
  <1>. USE DEF GateInv
  <1>0. /\ SettledInv' /\ emits \in Seq(Emitted) /\ chain \in Seq(Sessions) /\ who \in Sessions
    BY SessionSettled DEF SettledInv, TypeInv, TypeOK
  <1>1. UNCHANGED <<emits, who, auth, sub, inFlight, seen, shared, faults>>
    BY DEF GetSession, clientVars, subVars
  <1>2. NamedIsKnown' /\ NoChangeLeft' = NoChangeLeft
    BY <1>1 DEF NamedIsKnown, NoChangeLeft
  <1>3. CASE initialSessionHandled
    <2>1. UNCHANGED <<chain, initialSessionHandled>>
      BY <1>3 DEF GetSession
    <2>. QED  BY <1>0, <1>1, <1>2, <1>3, <2>1
         DEF ShownIsCurrent, InitialRepeats, OwnReadIsRight, Quiet, Counts, ReadIsRight
  <1>4. CASE ~initialSessionHandled
    <2>1. chain' = Append(chain, who) /\ initialSessionHandled'
      BY <1>4 DEF GetSession, Queue
    <2>2. /\ Len(chain') = Len(chain) + 1 /\ chain' # <<>>
          /\ \A i \in 1 .. Len(chain) : chain'[i] = chain[i]
      BY <1>0, <2>1
    \* An INITIAL_SESSION that counts no longer repeats what was delivered before it.
    <2>3. Quiet' => Quiet
      <3>1. SUFFICES ASSUME Quiet' PROVE Quiet
        OBVIOUS
      <3>2. \A i \in 1 .. Len(chain) : chain[i] = auth.email
        BY <1>0, <1>1, <2>2, <3>1 DEF Quiet
      <3>3. ASSUME NEW i \in 1 .. Len(emits) PROVE emits[i].session = auth.email
        <4>1. CASE emits[i].kind # "initial"
          BY <1>1, <3>1, <4>1 DEF Quiet, Counts
        <4>2. CASE emits[i].kind = "initial" /\ i # 1
          <5>1. i \in 2 .. Len(emits) /\ i - 1 \in 1 .. Len(emits) /\ i - 1 # i
            BY <1>0, <4>2
          <5>2. /\ emits[i].session = emits[i - 1].session
                /\ emits[i - 1].kind # "initial"
            BY <4>2, <5>1 DEF SettledInv, EmitsInOrder
          <5>. QED  BY <1>1, <3>1, <5>1, <5>2 DEF Quiet, Counts
        <4>3. CASE emits[i].kind = "initial" /\ i = 1
          <5>1. emits # <<>> /\ Head(emits) = emits[i]
            BY <1>0, <4>3
          <5>2. CASE chain = <<>>
            BY <1>1, <1>4, <3>1, <4>3, <5>1, <5>2 DEF InitialRepeats, Quiet
          <5>3. CASE chain # <<>>
            <6>1. Len(chain) \in 1 .. Len(chain)
              BY <1>0, <5>3
            <6>. QED  BY <1>4, <3>2, <4>3, <5>1, <5>3, <6>1 DEF InitialRepeats, LastOf
          <5>. QED  BY <5>2, <5>3
        <4>. QED  BY <4>1, <4>2, <4>3
      <3>. QED  BY <1>1, <3>1, <3>2, <3>3 DEF Quiet
    <2>. QED  BY <1>0, <1>1, <1>2, <2>1, <2>2, <2>3
         DEF ShownIsCurrent, InitialRepeats, OwnReadIsRight, ReadIsRight
  <1>. QED  BY <1>3, <1>4

\* The first session of the queue leaves it, or is shown, or the check is given up.
LEMMA HandlingGate ==
  ASSUME GateInv, GivesUp \/ HandleSession \/ SessionHandled PROVE GateInv'
  <1>. USE DEF GateInv
  <1>0. /\ SettledInv' /\ emits \in Seq(Emitted) /\ chain \in Seq(Sessions)
        /\ (adopting => chain # <<>>)
        /\ (adopting => auth.email = Head(chain) \/ auth.email = Null)
    BY SessionSettled DEF SettledInv, TypeInv, TypeOK, AdoptsFirst, AdoptedIsShown, NamedIsKnown
  <1>1. UNCHANGED <<emits, who, initialSessionHandled, sub, inFlight, seen, shared, faults>>
    BY DEF GivesUp, HandleSession, SessionHandled, clientVars, subVars
  <1>2. NoChangeLeft' = NoChangeLeft /\ (NoChangeLeft /\ chain # <<>> => LastOf(chain) = who)
    BY <1>1 DEF NoChangeLeft, SettledInv, QueueEnds
  <1>3. ASSUME chain # <<>>
        PROVE  /\ Tail(chain) = <<>> => LastOf(chain) = Head(chain)
               /\ Tail(chain) # <<>> => LastOf(Tail(chain)) = LastOf(chain)
               /\ Head(chain) = chain[1]
               /\ Len(Tail(chain)) = Len(chain) - 1 /\ Len(chain) \in Nat \ {0}
               /\ \A i \in 1 .. Len(Tail(chain)) : Tail(chain)[i] = chain[i + 1]
    <2>1. Len(chain) \in Nat \ {0} /\ Len(Tail(chain)) = Len(chain) - 1
      BY <1>0, <1>3
    <2>2. Tail(chain) = <<>> => Len(chain) = 1
      BY <2>1
    <2>3. Tail(chain) # <<>> => Len(Tail(chain)) \in 1 .. (Len(chain) - 1)
      BY <1>0, <1>3, <2>1
    <2>. QED  BY <1>0, <1>3, <2>1, <2>2, <2>3 DEF LastOf
  <1>4. CASE GivesUp
    <2>1. auth'.email = Null /\ chain' = chain
      BY <1>4 DEF GivesUp
    <2>. QED  BY <1>0, <1>1, <1>2, <2>1
         DEF NamedIsKnown, ShownIsCurrent, InitialRepeats, OwnReadIsRight, Quiet, LastOf
  <1>5. CASE HandleSession
    <2>1. /\ chain # <<>> /\ seen = auth.email
          /\ auth'.email = Head(chain) /\ ~auth'.loading /\ ~auth'.unavailable
          /\ chain' = chain \/ (chain' = Tail(chain) /\ Head(chain) = Null)
      BY <1>5 DEF HandleSession, EffectRan
    <2>2. NamedIsKnown'
      BY <2>1 DEF NamedIsKnown
    <2>3. ShownIsCurrent'
      BY <1>1, <1>2, <1>3, <2>1 DEF ShownIsCurrent
    <2>4. InitialRepeats'
      BY <1>1, <1>3, <2>1 DEF InitialRepeats, LastOf
    <2>5. Quiet' /\ seen' = auth'.email => Quiet /\ seen = auth.email
      BY <1>1, <2>1 DEF Quiet, Counts
    <2>. QED  BY <1>0, <1>1, <2>2, <2>3, <2>4, <2>5 DEF OwnReadIsRight, ReadIsRight
  <1>6. CASE SessionHandled
    <2>1. adopting /\ chain # <<>> /\ chain' = Tail(chain) /\ auth' = auth
      BY <1>0, <1>6 DEF SessionHandled
    <2>2. ShownIsCurrent'
      BY <1>0, <1>1, <1>2, <1>3, <2>1 DEF ShownIsCurrent
    <2>3. InitialRepeats'
      BY <1>0, <1>1, <1>3, <2>1 DEF InitialRepeats
    <2>4. Quiet' => Quiet
      <3>1. SUFFICES ASSUME Quiet', NEW i \in 1 .. Len(chain) PROVE chain[i] = auth.email
        BY <1>1, <2>1 DEF Quiet, Counts
      <3>2. CASE i = 1
        BY <1>0, <1>3, <2>1, <3>1, <3>2 DEF Quiet
      <3>3. CASE i # 1
        <4>1. i - 1 \in 1 .. Len(chain') /\ chain'[i - 1] = chain[i]
          BY <1>3, <2>1, <3>3
        <4>. QED  BY <2>1, <3>1, <4>1 DEF Quiet
      <3>. QED  BY <3>2, <3>3
    <2>. QED  BY <1>0, <1>1, <2>1, <2>2, <2>3, <2>4
         DEF NamedIsKnown, OwnReadIsRight, ReadIsRight
  <1>. QED  BY <1>4, <1>5, <1>6

LEMMA ReadGate == ASSUME GateInv, Effect \/ Read PROVE GateInv'
  <1>. USE DEF GateInv
  <1>1. UNCHANGED <<who, emits, chain, auth, initialSessionHandled, asked, adopting, announced>>
    BY DEF Effect, Read, GetUser, ReadRow, ReadFails, clientVars, bootVars
  <1>2. /\ SettledInv' /\ inFlight \in Reads \cup {Null} /\ faults \in Nat
    BY SettledStep DEF SettledInv, TypeInv, TypeOK, Next
  <1>3. /\ NamedIsKnown' /\ ShownIsCurrent' /\ InitialRepeats' /\ Quiet' = Quiet
    BY <1>1 DEF NamedIsKnown, ShownIsCurrent, NoChangeLeft, InitialRepeats, Quiet, Counts, LastOf
  <1>4. OwnReadIsRight'
    <2>1. CASE Effect
      <3>1. ~shared' => inFlight' = [step |-> "user", user |-> Null]
        BY <2>1 DEF Effect
      <3>2. [step |-> "user", user |-> Null] # Null
        BY NullAssumption DEF Reads, Sessions
      <3>. QED  BY <3>1, <3>2 DEF OwnReadIsRight, ReadIsRight
    <2>2. CASE GetUser
      <3>1. inFlight # Null /\ UNCHANGED <<seen, shared, faults>>
        BY <2>2 DEF GetUser
      <3>2. Quiet => inFlight' = [step |-> "row", user |-> who]
        BY <2>2 DEF GetUser, Quiet
      <3>3. Quiet => inFlight' # Null
        BY <1>2, <3>2, NullAssumption DEF Reads, SettledInv, TypeInv, TypeOK
      <3>. QED  BY <1>1, <1>3, <3>1, <3>2, <3>3 DEF OwnReadIsRight, ReadIsRight
    <2>3. CASE ReadRow
      <3>1. /\ inFlight # Null /\ inFlight.step = "row" /\ UNCHANGED <<seen, shared, faults>>
            /\ inFlight' = Null
            /\ sub' = [resolved |-> TRUE,
                       of |-> IF inFlight.user \in Subscribed /\ who = inFlight.user
                              THEN who ELSE Null]
        BY <2>3 DEF ReadRow, Answer
      <3>. QED  BY <1>1, <1>3, <3>1 DEF OwnReadIsRight, ReadIsRight
    <2>4. CASE ReadFails
      BY <1>2, <2>4 DEF ReadFails, OwnReadIsRight
    <2>. QED  BY <2>1, <2>2, <2>3, <2>4 DEF Read
  <1>. QED  BY <1>2, <1>3, <1>4

LEMMA GateStep == GateInv /\ [Next]_vars => GateInv'
  <1>. SUFFICES ASSUME GateInv, [Next]_vars PROVE GateInv'
    OBVIOUS
  <1>1. CASE UNCHANGED vars
    BY <1>1, SettledStep
    DEF GateInv, NamedIsKnown, ShownIsCurrent, NoChangeLeft, InitialRepeats, OwnReadIsRight,
        Quiet, Counts, ReadIsRight, LastOf, vars, clientVars, bootVars, subVars
  <1>. QED  BY <1>1, ClientGate, ListenerGate, GetSessionGate, HandlingGate, ReadGate
       DEF Next, Session

\* When everything has come to rest the paid boundary lets in exactly who is entitled,
\* for any number of changes of account in any order with the events, the probe and the
\* reads: a read in flight when the account changed, or one that failed, is the only
\* way to a wrong answer.
THEOREM GateCorrect == Spec => []GateIsRight
  <1>1. ASSUME GateInv PROVE GateIsRight
    <2>1. SUFFICES ASSUME Settled, seen = auth.email, inFlight = Null, ~shared, faults = 0,
                          auth.email # Null
                   PROVE  evaluateGate = IF auth.email \in Subscribed THEN "allow" ELSE "pricing"
      BY DEF GateIsRight
    <2>2. ~auth.loading /\ auth.email = who
      BY <1>1, <2>1 DEF GateInv, NamedIsKnown, ShownIsCurrent, NoChangeLeft, Settled
    <2>3. Quiet
      BY <2>1, <2>2 DEF Quiet, Settled
    <2>4. sub = [resolved |-> TRUE, of |-> IF who \in Subscribed THEN who ELSE Null]
      BY <1>1, <2>1, <2>3 DEF GateInv, OwnReadIsRight, ReadIsRight
    <2>. QED  BY <2>1, <2>2, <2>4 DEF evaluateGate
  <1>. QED  BY GateInit, GateStep, <1>1, PTL DEF Spec
=============================================================================
