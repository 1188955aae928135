-------------------------- MODULE GuardedPushProofs --------------------------
(***************************************************************************)
(* Theorems about GuardedPush, for any set of devices and every bound: the *)
(* types, then (VersionInv) what a version tells of the row, then          *)
(* (HistoryInv) the order of a device's own texts and what became of them, *)
(* that all of it implements SharedText, and (InformedInv) when the guard  *)
(* keeps its promise without exception.                                    *)
(***************************************************************************)
EXTENDS GuardedPush, TLAPS

-----------------------------------------------------------------------------
(* Types.                                                                  *)

LEMMA TypeInit == Init => TypeOK
  BY BoundsAssumption
  DEF Init, TypeOK, Texts, Rows, Absent, Requests, Calls, Adoptions, Conflicts

LEMMA AbsentType == Absent \in Rows
  BY BoundsAssumption DEF Absent, Rows, Texts

\* What Turn makes of the call.
LEMMA TurnFacts ==
  ASSUME call \in [Devices -> Calls \cup {Null}], NEW d \in Devices,
         NEW phase \in Phases, NEW val \in Texts, NEW ver \in Nat, NEW blind \in BOOLEAN,
         NEW cur \in Rows, NEW old \in BOOLEAN, Turn(d, phase, val, ver, blind, cur, old)
  PROVE  /\ call' \in [Devices -> Calls \cup {Null}]
         /\ call'[d] # Null /\ call'[d].phase = phase /\ call'[d].val = val
         /\ call'[d].ver = ver /\ call'[d].blind = blind /\ call'[d].cur = cur
         /\ call'[d].old = old
         /\ \A e \in Devices \ {d} : call'[e] = call[e]
  <1>. DEFINE c == [phase |-> phase, val |-> val, ver |-> ver, blind |-> blind, cur |-> cur,
                    old |-> old]
  <1>1. c \in Calls /\ c # Null
    BY NullAssumption DEF Calls
  <1>2. call' = [call EXCEPT ![d] = c]
    BY DEF Turn
  <1>3. call'[d] = c /\ \A e \in Devices \ {d} : call'[e] = call[e]
    BY <1>2
  <1>4. call' \in [Devices -> Calls \cup {Null}]
    BY <1>1, <1>2
  <1>. QED  BY <1>1, <1>3, <1>4

LEMMA CallParts ==
  ASSUME TypeOK, NEW d \in Devices, call[d] # Null
  PROVE  /\ call[d] \in Calls /\ call[d].phase \in Phases
         /\ call[d].val \in Texts /\ call[d].ver \in Nat
         /\ call[d].blind \in BOOLEAN /\ call[d].cur \in Rows /\ call[d].old \in BOOLEAN
  BY DEF TypeOK, Calls

LEMMA AdvanceFacts ==
  ASSUME TypeOK, NEW d \in Devices, call[d] # Null, NEW phase \in Phases, Advance(d, phase)
  PROVE  /\ call' \in [Devices -> Calls \cup {Null}]
         /\ call'[d] # Null /\ call'[d].phase = phase /\ call'[d].val = call[d].val
         /\ call'[d].ver = call[d].ver /\ call'[d].blind = call[d].blind
         /\ call'[d].cur = call[d].cur /\ call'[d].old = call[d].old
         /\ \A e \in Devices \ {d} : call'[e] = call[e]
  BY CallParts, TurnFacts DEF Advance, TypeOK

LEMMA BeginFacts ==
  ASSUME TypeOK, NEW d \in Devices, queued[d] # Null, NEW phase \in Phases, NEW ver \in Nat,
         Begin(d, phase, ver)
  PROVE  /\ call' \in [Devices -> Calls \cup {Null}]
         /\ call'[d] # Null /\ call'[d].phase = phase /\ call'[d].val = queued[d]
         /\ call'[d].ver = ver /\ ~call'[d].blind /\ ~call'[d].old
         /\ \A e \in Devices \ {d} : call'[e] = call[e]
  <1>1. queued[d] \in Texts /\ call \in [Devices -> Calls \cup {Null}] /\ FALSE \in BOOLEAN
    BY DEF TypeOK
  <1>2. Turn(d, phase, queued[d], ver, FALSE, Absent, FALSE)
    BY DEF Begin
  <1>3. call'[d].blind = FALSE /\ call'[d].old = FALSE
    BY <1>1, <1>2, AbsentType, TurnFacts
  <1>. QED  BY <1>1, <1>2, <1>3, AbsentType, TurnFacts

LEMMA CaptureType ==
  ASSUME NEW v \in Nat, NEW r \in Rows
  PROVE  captureVersions(v, r) \in Nat
  BY DEF captureVersions, Rows

LEMMA RequestType ==
  ASSUME TypeOK, NEW d \in Devices, call[d] # Null
  PROVE  Request(d) \in Requests
  BY CallParts DEF Request, Requests

LEMMA StoreRowType ==
  ASSUME TypeOK, NEW req \in Requests, NEW isLate \in BOOLEAN, StoreRow(req, isLate)
  PROVE  row' \in Rows /\ stored' \subseteq Texts
  BY DEF TypeOK, StoreRow, Requests, Rows

\* What a push learns, it learns for its own device.
LEMMA LearnsFacts ==
  ASSUME TypeOK, NEW d \in Devices, NEW ver \in Nat, Learns(d, ver)
  PROVE  /\ known' \in [Devices -> Nat]
         /\ known'[d] = IF call[d].old THEN known[d] ELSE ver
         /\ \A e \in Devices \ {d} : known'[e] = known[e]
  BY DEF Learns, TypeOK

LEMMA RequeueFacts ==
  ASSUME TypeOK, NEW d \in Devices, call[d] # Null, Requeue(d)
  PROVE  /\ queued' \in [Devices -> Texts \cup {Null}]
         /\ queued'[d] = IF queued[d] = Null THEN call[d].val ELSE queued[d]
         /\ \A e \in Devices \ {d} : queued'[e] = queued[e]
  BY CallParts DEF Requeue, TypeOK

\* The end of a flush.
LEMMA EndedFacts ==
  ASSUME TypeOK, NEW d \in Devices, call[d] # Null, Ended(d)
  PROVE  /\ call' \in [Devices -> Calls \cup {Null}] /\ call'[d] = Null
         /\ queued' \in [Devices -> Texts \cup {Null}]
         /\ queued'[d] \in {queued[d]} \cup (IF queued[d] = Null THEN {call[d].val} ELSE {})
         /\ base' \in [Devices -> Texts \cup {Null}] /\ base'[d] \in {base[d], call[d].val}
         /\ faults' \in Nat
         /\ \A e \in Devices \ {d} : /\ call'[e] = call[e] /\ queued'[e] = queued[e]
                                     /\ base'[e] = base[e]
  <1>1. call' \in [Devices -> Calls \cup {Null}] /\ call'[d] = Null
        /\ \A e \in Devices \ {d} : call'[e] = call[e]
    BY DEF Ended, TypeOK
  <1>2. base' \in [Devices -> Texts \cup {Null}] /\ base'[d] \in {base[d], call[d].val}
        /\ \A e \in Devices \ {d} : base'[e] = base[e]
    BY CallParts DEF Ended, TypeOK
  <1>3. faults' \in Nat /\ (queued' = queued \/ Requeue(d))
    BY DEF Ended, Fault, TypeOK
  <1>4. CASE queued' = queued
    BY <1>1, <1>2, <1>3, <1>4 DEF TypeOK
  <1>5. CASE Requeue(d)
    BY <1>1, <1>2, <1>3, <1>5, RequeueFacts
  <1>. QED  BY <1>3, <1>4, <1>5

\* A push that gets no answer.
LEMMA LoseFacts ==
  ASSUME TypeOK, NEW d \in Devices, LoseCall(d)
  PROVE  /\ call[d] # Null /\ Abandon(d)
         /\ call' \in [Devices -> Calls \cup {Null}] /\ call'[d] = Null
         /\ queued' \in [Devices -> Texts \cup {Null}]
         /\ queued'[d] = IF queued[d] = Null THEN call[d].val ELSE queued[d]
         /\ known' \in [Devices -> Nat]
         /\ \/ /\ known'[d] = known[d]
               /\ call[d].old \/ call[d].phase \in {"delete", "tomb", "same"}
            \/ known'[d] = 0
         /\ \A e \in Devices \ {d} : /\ call'[e] = call[e] /\ queued'[e] = queued[e]
                                     /\ known'[e] = known[e]
         /\ faults' \in Nat
         /\ UNCHANGED <<text, base, adopting, conflict, row, tomb, stored, clock, sessions,
                        shown, since, told>>
  <1>1. call[d] # Null /\ Abandon(d)
    BY Zenon DEF LoseCall
  <1>2. /\ Fault("net") /\ call' = [call EXCEPT ![d] = Null] /\ Requeue(d)
        /\ UNCHANGED <<text, base, adopting, conflict, row, tomb, stored, clock, sessions,
                       histories>>
    BY Zenon DEF LoseCall
  <1>3. \/ Learns(d, 0)
        \/ call[d].phase \in {"delete", "tomb", "same"} /\ known' = known
    BY Zenon DEF LoseCall
  <1>4. /\ known' \in [Devices -> Nat]
        /\ \/ /\ known'[d] = known[d]
              /\ call[d].old \/ call[d].phase \in {"delete", "tomb", "same"}
           \/ known'[d] = 0
        /\ \A e \in Devices \ {d} : known'[e] = known[e]
    <2>1. CASE Learns(d, 0)
      BY <1>1, <2>1, LearnsFacts
    <2>2. CASE call[d].phase \in {"delete", "tomb", "same"} /\ known' = known
      BY <2>2 DEF TypeOK
    <2>. QED  BY <1>3, <2>1, <2>2
  <1>5. /\ call' \in [Devices -> Calls \cup {Null}] /\ call'[d] = Null
        /\ \A e \in Devices \ {d} : call'[e] = call[e]
    BY <1>2 DEF TypeOK
  <1>6. faults' \in Nat
    BY <1>2 DEF Fault, TypeOK
  <1>. QED  BY <1>1, <1>2, <1>4, <1>5, <1>6, RequeueFacts DEF histories

LEMMA WriteType ==
  ASSUME TypeOK, NEW d \in Devices, Write(d), conflict' \in [Devices -> Conflicts \cup {Null}]
  PROVE  TypeOK'
  <1>1. clock \in Texts /\ clock' \in 1 .. MaxClock + 1
    BY BoundsAssumption DEF TypeOK, Write, Texts
  <1>2. text' \in [Devices -> Texts] /\ text'[d] \in Texts
    BY <1>1 DEF Write, TypeOK
  <1>3. queued' \in [Devices -> Texts \cup {Null}]
    BY <1>2 DEF Write, Save, TypeOK
  <1>. QED  BY <1>1, <1>2, <1>3 DEF TypeOK, Write, Show, accountVars

LEMMA TypeStep == TypeOK /\ [Next]_vars => TypeOK'
  <1>. SUFFICES ASSUME TypeOK, [Next]_vars PROVE TypeOK'
    OBVIOUS
  <1>. USE DEF deviceVars, accountVars, histories
  <1>1. CASE UNCHANGED vars
    BY <1>1 DEF vars, TypeOK
  <1>2. CASE LateWrite
    <2>1. PICK req \in late :
            /\ late' = late \ {req}
            /\ IF enforce_sync_version(req) THEN StoreRow(req, TRUE)
                                            ELSE UNCHANGED <<row, stored>>
            /\ UNCHANGED <<deviceVars, tomb, clock, faults, sessions>>
      BY <1>2 DEF LateWrite
    <2>2. row' \in Rows /\ stored' \subseteq Texts
      BY <2>1, StoreRowType DEF TypeOK
    <2>. QED  BY <2>1, <2>2 DEF TypeOK
  <1>3. ASSUME NEW d \in Devices, DeviceStep(d) PROVE TypeOK'
    <2>. USE <1>3
    <2>1. CASE Edit(d)
      BY <2>1, WriteType DEF Edit, TypeOK
    <2>2. CASE Resolve(d)
      BY <2>2, WriteType DEF Resolve, TypeOK
    <2>0. CASE Remove(d)
      <3>1. text' \in [Devices -> Texts] /\ text'[d] \in Texts /\ clock' \in 1 .. MaxClock + 1
        BY <2>0, BoundsAssumption DEF Remove, Texts, TypeOK
      <3>2. queued' \in [Devices -> Texts \cup {Null}]
        BY <2>0, <3>1 DEF Remove, Save, TypeOK
      <3>. QED  BY <2>0, <3>1, <3>2 DEF Remove, TypeOK
    <2>3. CASE Touch(d)
      BY <2>3 DEF Touch, Save, TypeOK
    <2>4. CASE StartPush(d)
      <3>1. queued[d] # Null /\ known[d] + 1 \in Nat
        BY <2>4 DEF StartPush, TypeOK
      <3>2. 0 \in Nat /\ {"ensure", "sent", "delete", "same"} \subseteq Phases
        BY DEF Phases
      <3>3. call' \in [Devices -> Calls \cup {Null}]
        BY <2>4, <3>1, <3>2, BeginFacts DEF StartPush, TypeOK
      <3>. QED  BY <2>4, <3>3 DEF StartPush, TypeOK
    <2>5. CASE ensureVersions(d)
      <3>1. captureVersions(0, row) \in Nat /\ captureVersions(0, row) + 1 \in Nat
        BY CaptureType DEF TypeOK
      <3>2. call[d] # Null /\ "sent" \in Phases /\ (row # Absent) \in BOOLEAN
        BY <2>5 DEF ensureVersions, Phases
      <3>3. call' \in [Devices -> Calls \cup {Null}]
        <4>1. PICK blind \in BOOLEAN : Turn(d, "sent", call[d].val, captureVersions(0, row) + 1,
                                            blind, Absent, call[d].old)
          BY <2>5, <3>2, Zenon DEF ensureVersions
        <4>. QED  BY <3>1, <3>2, <4>1, TurnFacts, CallParts, AbsentType DEF TypeOK
      <3>4. known' \in [Devices -> Nat]
        BY <2>5, <3>1, LearnsFacts DEF ensureVersions
      <3>. QED  BY <2>5, <3>3, <3>4 DEF ensureVersions, TypeOK
    <2>6. CASE ServerReads(d)
      <3>1. call[d] # Null /\ "read" \in Phases
        BY <2>6 DEF ServerReads, Phases
      <3>2. call' \in [Devices -> Calls \cup {Null}]
        BY <2>6, <3>1, TurnFacts, CallParts DEF ServerReads, TypeOK
      <3>. QED  BY <2>6, <3>2 DEF ServerReads, TypeOK
    <2>7. CASE ServerWrites(d)
      <3>1. call[d] # Null /\ {"accepted", "stale"} \subseteq Phases
        BY <2>7 DEF ServerWrites, Phases
      <3>2. row' \in Rows /\ stored' \subseteq Texts
        BY <2>7, <3>1, RequestType, CallParts, StoreRowType DEF ServerWrites, TypeOK
      <3>3. call' \in [Devices -> Calls \cup {Null}]
        BY <2>7, <3>1, AdvanceFacts DEF ServerWrites
      <3>. QED  BY <2>7, <3>2, <3>3 DEF ServerWrites, TypeOK
    <2>8. CASE Accepted(d)
      <3>1. known' \in [Devices -> Nat]
        BY <2>8, CallParts, LearnsFacts DEF Accepted
      <3>. QED  BY <2>8, <3>1, EndedFacts DEF Accepted, TypeOK
    <2>9. CASE Refused(d)
      <3>1. call[d].val \in Texts /\ call[d].cur \in Rows /\ call[d].cur.val \in Texts
        BY <2>9, CallParts DEF Refused, Rows
      <3>2. known' \in [Devices -> Nat]
        BY <2>9, <3>1, CaptureType, LearnsFacts DEF Refused, TypeOK
      <3>3. conflict' \in [Devices -> Conflicts \cup {Null}]
        BY <2>9, <3>1 DEF Refused, Conflicts, TypeOK
      <3>. QED  BY <2>9, <3>1, <3>2, <3>3, EndedFacts DEF Refused, Show, TypeOK
    <2>18. CASE SamePushed(d)
      BY <2>18, EndedFacts DEF SamePushed, TypeOK
    <2>10. CASE LoseCall(d)
      <3>1. late' \subseteq Requests
        BY <2>10, RequestType DEF LoseCall, Abandon, TypeOK
      <3>. QED  BY <2>10, <3>1, LoseFacts DEF TypeOK
    <2>11. CASE DeleteRow(d)
      <3>1. call' \in [Devices -> Calls \cup {Null}]
        BY <2>11, AdvanceFacts DEF DeleteRow, Phases
      <3>. QED  BY <2>11, <3>1, AbsentType, BoundsAssumption DEF DeleteRow, Texts, TypeOK
    <2>12. CASE writeTombstones(d)
      BY <2>12, EndedFacts DEF writeTombstones, TypeOK
    <2>13. CASE Reload(d)
      <3>1. late' \subseteq Requests
        BY <2>13, RequestType DEF Reload, Abandon, TypeOK
      <3>. QED  BY <2>13, <3>1 DEF Reload, NewSession, Adoptions, TypeOK
    <2>14. CASE Refresh(d)
      <3>1. call' \in [Devices -> Calls \cup {Null}]
        <4>1. CASE call[d] # Null
          <5>1. [call[d] EXCEPT !.old = TRUE] \in Calls
            BY <4>1, CallParts DEF Calls
          <5>. QED  BY <2>14, <4>1, <5>1 DEF Refresh, TypeOK
        <4>. QED  BY <2>14, <4>1 DEF Refresh, TypeOK
      <3>. QED  BY <2>14, <3>1 DEF Refresh, NewSession, Adoptions, TypeOK
    <2>15. CASE Load(d)
      <3>1. ASSUME NEW r \in Rows, Loaded(d, r)
            PROVE  /\ adopting' \in [Devices -> Adoptions \cup {Null}]
                   /\ known' \in [Devices -> Nat]
        BY <3>1, CaptureType DEF Loaded, Adoptions, Rows, TypeOK
      <3>. QED  BY <2>15, <3>1, AbsentType DEF Load, Fault, TypeOK
    <2>16. CASE LoadFails(d)
      BY <2>16 DEF LoadFails, Fault, TypeOK
    <2>17. CASE Install(d)
      <3>1. ASSUME NEW t \in Nat, Adopt(d, t)
            PROVE  /\ text' \in [Devices -> Texts] /\ base' \in [Devices -> Texts \cup {Null}]
                   /\ queued' \in [Devices -> Texts \cup {Null}]
                   /\ shown' \in [Devices -> SUBSET Texts] /\ since' \in [Devices -> Nat]
        <4>1. adopting[d].val \in Texts
          BY <3>1 DEF Adopt, Adoptions, TypeOK
        <4>2. Adopted(d, t) \in Texts
          BY <4>1 DEF Adopted, Texts, TypeOK
        <4>3. text' \in [Devices -> Texts] /\ text'[d] \in Texts
          BY <3>1, <4>2 DEF Adopt, TypeOK
        <4>4. queued' \in [Devices -> Texts \cup {Null}]
          BY <3>1, <4>3 DEF Adopt, Save, TypeOK
        <4>5. clock \in Nat
          BY DEF TypeOK
        <4>. QED  BY <3>1, <4>1, <4>3, <4>4, <4>5 DEF Adopt, Show, TypeOK
      <3>2. faults' \in Nat /\ tomb \in Nat
        BY <2>17 DEF Install, Fault, TypeOK
      <3>. QED  BY <2>17, <3>1, <3>2 DEF Install, Adopt, TypeOK
    <2>. QED
      BY <2>0, <2>1, <2>2, <2>3, <2>4, <2>5, <2>6, <2>7, <2>8, <2>9, <2>10, <2>11, <2>12,
         <2>13, <2>14, <2>15, <2>16, <2>17, <2>18 DEF DeviceStep
  <1>. QED  BY <1>1, <1>2, <1>3 DEF Next

\* Type correctness for any devices, environment and bounds: a version a device
\* knows is always a number, whatever a refusal handed back.
THEOREM GuardedTypes == Spec => []TypeOK
  BY TypeInit, TypeStep, PTL DEF Spec

-----------------------------------------------------------------------------
(* What each step does, spelled out once for the invariants below.         *)

\* Only device d changes.
Others(d) ==
  \A e \in Devices \ {d} :
    /\ text'[e] = text[e] /\ base'[e] = base[e] /\ queued'[e] = queued[e]
    /\ known'[e] = known[e] /\ call'[e] = call[e] /\ adopting'[e] = adopting[e]
    /\ conflict'[e] = conflict[e] /\ shown'[e] = shown[e] /\ since'[e] = since[e]
    /\ told'[e] = told[e]

LEMMA WriteFacts ==
  ASSUME TypeOK, NEW d \in Devices, Edit(d) \/ Resolve(d)
  PROVE  /\ Others(d) /\ text'[d] = clock /\ queued'[d] = clock /\ clock' = clock + 1
         /\ clock \in Nat \ {0} /\ shown'[d] = shown[d] \cup {clock}
         /\ UNCHANGED <<base, known, call, adopting, since, told, row, stored, late>>
  <1>1. Write(d)
    BY DEF Edit, Resolve
  <1>2. conflict' = conflict \/ conflict' = [conflict EXCEPT ![d] = Null]
    BY DEF Edit, Resolve
  <1>. QED  BY <1>1, <1>2 DEF Write, Save, Show, Others, TypeOK, accountVars

LEMMA RemoveFacts ==
  ASSUME TypeOK, NEW d \in Devices, Remove(d)
  PROVE  /\ Others(d) /\ text'[d] = 0 /\ queued'[d] = 0 /\ clock' = clock + 1
         /\ UNCHANGED <<base, known, call, adopting, conflict, shown, since, told, row, stored,
                        late>>
  BY DEF Remove, Save, Others, TypeOK, accountVars, histories

LEMMA TouchFacts ==
  ASSUME TypeOK, NEW d \in Devices, Touch(d)
  PROVE  /\ Others(d) /\ queued'[d] = text[d] /\ queued[d] # text[d]
         /\ UNCHANGED <<text, base, known, call, adopting, conflict, shown, since, told, row,
                        stored, late, clock>>
  BY DEF Touch, Save, Others, TypeOK, accountVars, histories

LEMMA StartFacts ==
  ASSUME TypeOK, NEW d \in Devices, StartPush(d)
  PROVE  /\ Others(d) /\ queued[d] # Null /\ call[d] = Null /\ adopting[d] = Null
         /\ queued'[d] = Null
         /\ UNCHANGED <<text, base, known, adopting, conflict, shown, since, told, row, stored,
                        late, clock>>
         /\ \/ queued[d] = base[d] /\ call' = call
            \/ /\ call'[d] # Null /\ call'[d].val = queued[d] /\ ~call'[d].blind /\ ~call'[d].old
               /\ \/ call'[d].phase = "ensure" /\ queued[d] \notin {0, base[d]}
                  \/ /\ call'[d].phase = "sent" /\ queued[d] \notin {0, base[d]}
                     /\ known[d] # 0 /\ call'[d].ver = known[d] + 1
                  \/ call'[d].phase = "delete" /\ queued[d] = 0
                  \/ /\ call'[d].phase = "same"
                     /\ queued[d] = base[d] \/ (queued[d] = 0 /\ base[d] = Null)
  <1>1. /\ queued[d] # Null /\ call[d] = Null /\ adopting[d] = Null
        /\ queued' = [queued EXCEPT ![d] = Null] /\ queued'[d] = Null
        /\ UNCHANGED <<text, base, known, adopting, conflict, shown, since, told, row, stored,
                       late, clock>>
    BY DEF StartPush, accountVars, histories, TypeOK
  <1>2. known[d] + 1 \in Nat /\ 0 \in Nat /\ {"ensure", "sent", "delete", "same"} \subseteq Phases
    BY DEF TypeOK, Phases
  <1>3. ASSUME NEW phase \in Phases, NEW ver \in Nat, Begin(d, phase, ver)
        PROVE  /\ call'[d] # Null /\ call'[d].phase = phase /\ call'[d].val = queued[d]
               /\ call'[d].ver = ver /\ ~call'[d].blind /\ ~call'[d].old
               /\ Others(d)
    BY <1>1, <1>3, BeginFacts DEF Others, TypeOK
  <1>4. ASSUME call' = call PROVE Others(d)
    BY <1>1, <1>4 DEF Others, TypeOK
  <1>5. \/ queued[d] \notin {0, base[d]} /\ known[d] = 0 /\ Begin(d, "ensure", 0)
        \/ queued[d] \notin {0, base[d]} /\ known[d] # 0 /\ Begin(d, "sent", known[d] + 1)
        \/ queued[d] = 0 /\ Begin(d, "delete", 0)
        \/ queued[d] = base[d] /\ call' = call
        \/ (queued[d] = base[d] \/ (queued[d] = 0 /\ base[d] = Null)) /\ Begin(d, "same", 0)
    BY DEF StartPush
  <1>6. CASE queued[d] \notin {0, base[d]} /\ known[d] = 0 /\ Begin(d, "ensure", 0)
    BY <1>1, <1>2, <1>3, <1>6
  <1>7. CASE queued[d] \notin {0, base[d]} /\ known[d] # 0 /\ Begin(d, "sent", known[d] + 1)
    BY <1>1, <1>2, <1>3, <1>7
  <1>8. CASE queued[d] = 0 /\ Begin(d, "delete", 0)
    BY <1>1, <1>2, <1>3, <1>8
  <1>9. CASE /\ queued[d] = base[d] \/ (queued[d] = 0 /\ base[d] = Null)
             /\ Begin(d, "same", 0)
    BY <1>1, <1>2, <1>3, <1>9
  <1>. QED  BY <1>1, <1>4, <1>5, <1>6, <1>7, <1>8, <1>9

LEMMA EnsureFacts ==
  ASSUME TypeOK, NEW d \in Devices, ensureVersions(d)
  PROVE  /\ Others(d) /\ call[d] # Null /\ call[d].phase = "ensure"
         /\ call'[d] # Null /\ call'[d].phase = "sent" /\ call'[d].val = call[d].val
         /\ call'[d].ver = captureVersions(0, row) + 1 /\ (call'[d].blind <=> row # Absent)
         /\ call'[d].old = call[d].old
         /\ known'[d] = IF call[d].old THEN known[d] ELSE captureVersions(0, row)
         /\ captureVersions(0, row) \in Nat
         /\ UNCHANGED <<text, base, queued, adopting, conflict, shown, since, told, row, stored,
                        late, clock>>
  <1>1. /\ call[d] # Null /\ call[d].phase = "ensure" /\ Learns(d, captureVersions(0, row))
        /\ UNCHANGED <<text, base, queued, adopting, conflict, shown, since, told, row, stored,
                       late, clock>>
    BY DEF ensureVersions, accountVars, histories
  <1>2. PICK blind \in BOOLEAN : /\ Turn(d, "sent", call[d].val, captureVersions(0, row) + 1,
                                         blind, Absent, call[d].old)
                                 /\ blind <=> row # Absent
    BY Zenon DEF ensureVersions
  <1>3. captureVersions(0, row) \in Nat /\ captureVersions(0, row) + 1 \in Nat
    BY CaptureType DEF TypeOK
  <1>4. /\ call'[d] # Null /\ call'[d].phase = "sent" /\ call'[d].val = call[d].val
        /\ call'[d].ver = captureVersions(0, row) + 1 /\ call'[d].blind = blind
        /\ call'[d].old = call[d].old /\ \A e \in Devices \ {d} : call'[e] = call[e]
    BY <1>1, <1>2, <1>3, TurnFacts, CallParts, AbsentType DEF TypeOK, Phases
  <1>5. /\ known'[d] = IF call[d].old THEN known[d] ELSE captureVersions(0, row)
        /\ \A e \in Devices \ {d} : known'[e] = known[e]
    BY <1>1, <1>3, LearnsFacts
  <1>6. Others(d)
    BY <1>1, <1>4, <1>5 DEF Others
  <1>. QED  BY <1>1, <1>2, <1>3, <1>4, <1>5, <1>6

LEMMA ReadsFacts ==
  ASSUME TypeOK, NEW d \in Devices, ServerReads(d)
  PROVE  /\ Others(d) /\ call[d] # Null /\ call[d].phase = "sent"
         /\ call'[d] # Null /\ call'[d].phase = "read" /\ call'[d].val = call[d].val
         /\ call'[d].ver = call[d].ver /\ call'[d].blind = call[d].blind
         /\ call'[d].cur = row /\ call'[d].old = call[d].old
         /\ UNCHANGED <<text, base, queued, known, adopting, conflict, shown, since, told, row,
                        stored, late, clock>>
  <1>1. /\ call[d] # Null /\ call[d].phase = "sent" /\ row \in Rows /\ "read" \in Phases
        /\ Turn(d, "read", call[d].val, call[d].ver, call[d].blind, row, call[d].old)
        /\ UNCHANGED <<text, base, queued, known, adopting, conflict, shown, since, told, row,
                       stored, late, clock>>
    BY DEF ServerReads, accountVars, histories, TypeOK, Phases
  <1>2. /\ call'[d] # Null /\ call'[d].phase = "read" /\ call'[d].val = call[d].val
        /\ call'[d].ver = call[d].ver /\ call'[d].blind = call[d].blind
        /\ call'[d].cur = row /\ call'[d].old = call[d].old
        /\ \A e \in Devices \ {d} : call'[e] = call[e]
    BY <1>1, TurnFacts, CallParts DEF TypeOK
  <1>. QED  BY <1>1, <1>2 DEF Others

\* The server decides on a push.
LEMMA WritesFacts ==
  ASSUME TypeOK, NEW d \in Devices, ServerWrites(d)
  PROVE  /\ Others(d) /\ call[d] # Null /\ call[d].phase = "read"
         /\ call'[d] # Null /\ call'[d].val = call[d].val /\ call'[d].ver = call[d].ver
         /\ call'[d].blind = call[d].blind /\ call'[d].cur = call[d].cur
         /\ call'[d].old = call[d].old
         /\ UNCHANGED <<text, base, queued, known, adopting, conflict, shown, since, told, late,
                        clock>>
         /\ \/ /\ enforce_sync_version(Request(d)) /\ StoreRow(Request(d), call[d].old)
               /\ call'[d].phase = "accepted"
            \/ /\ ~enforce_sync_version(Request(d)) /\ UNCHANGED <<row, stored>>
               /\ call'[d].phase = "stale"
  <1>1. /\ call[d] # Null /\ call[d].phase = "read" /\ {"accepted", "stale"} \subseteq Phases
        /\ UNCHANGED <<text, base, queued, known, adopting, conflict, shown, since, told, late,
                       clock>>
    BY DEF ServerWrites, histories, Phases
  <1>2. \/ /\ enforce_sync_version(Request(d)) /\ StoreRow(Request(d), call[d].old)
           /\ Advance(d, "accepted")
        \/ /\ ~enforce_sync_version(Request(d)) /\ UNCHANGED <<row, stored>>
           /\ Advance(d, "stale")
    BY DEF ServerWrites
  <1>3. ASSUME NEW phase \in Phases, Advance(d, phase)
        PROVE  /\ call'[d] # Null /\ call'[d].val = call[d].val /\ call'[d].ver = call[d].ver
               /\ call'[d].blind = call[d].blind /\ call'[d].cur = call[d].cur
               /\ call'[d].old = call[d].old /\ call'[d].phase = phase /\ Others(d)
    BY <1>1, <1>3, AdvanceFacts DEF Others
  <1>. QED  BY <1>1, <1>2, <1>3

\* The end of a flush, whatever the answer.
LEMMA AnswerFacts ==
  ASSUME TypeOK, NEW d \in Devices,
         Accepted(d) \/ Refused(d) \/ SamePushed(d) \/ writeTombstones(d)
  PROVE  /\ Others(d) /\ call[d] # Null /\ call'[d] = Null
         /\ queued'[d] = queued[d] \/ (queued[d] = Null /\ queued'[d] = call[d].val)
         /\ base'[d] \in {base[d], call[d].val}
         /\ UNCHANGED <<text, adopting, since, row, stored, late, clock>>
         /\ \/ /\ Accepted(d) /\ call[d].phase = "accepted"
               /\ UNCHANGED <<conflict, shown, told>>
               /\ known'[d] = IF call[d].old THEN known[d] ELSE call[d].ver
            \/ /\ Refused(d) /\ call[d].phase = "stale"
               /\ conflict'[d] # Null
               /\ conflict'[d] = [local |-> call[d].val, remote |-> call[d].cur.val]
               /\ shown'[d] = shown[d] \cup {call[d].cur.val}
               /\ told'[d] = told[d] \cup {call[d].val}
               /\ known'[d] = IF call[d].old THEN known[d]
                              ELSE captureVersions(known[d], call[d].cur)
            \/ /\ call[d].phase \in {"same", "tomb"}
               /\ UNCHANGED <<known, conflict, shown, told>>
  <1>1. /\ call[d] # Null /\ call[d].ver \in Nat /\ call[d].cur \in Rows /\ call[d].val \in Texts
        /\ captureVersions(known[d], call[d].cur) \in Nat
        /\ UNCHANGED <<text, adopting, since, row, stored, late, clock>> /\ Ended(d)
    BY CallParts, CaptureType
    DEF Accepted, Refused, SamePushed, writeTombstones, accountVars, histories, TypeOK
  <1>2. /\ call'[d] = Null /\ base'[d] \in {base[d], call[d].val}
        /\ queued'[d] = queued[d] \/ (queued[d] = Null /\ queued'[d] = call[d].val)
        /\ \A e \in Devices \ {d} : /\ call'[e] = call[e] /\ queued'[e] = queued[e]
                                    /\ base'[e] = base[e]
    BY <1>1, EndedFacts
  <1>3. CASE Accepted(d)
    <2>1. /\ call[d].phase = "accepted" /\ UNCHANGED <<conflict, shown, told>>
          /\ Learns(d, call[d].ver)
      BY <1>3 DEF Accepted, histories
    <2>2. /\ known'[d] = IF call[d].old THEN known[d] ELSE call[d].ver
          /\ \A e \in Devices \ {d} : known'[e] = known[e]
      BY <1>1, <2>1, LearnsFacts
    <2>3. Others(d)
      BY <1>1, <1>2, <2>1, <2>2 DEF Others
    <2>. QED  BY <1>1, <1>2, <1>3, <2>1, <2>2, <2>3
  <1>4. CASE Refused(d)
    <2>1. /\ call[d].phase = "stale"
          /\ conflict' = [conflict EXCEPT ![d] =
                            [local |-> call[d].val, remote |-> call[d].cur.val]]
          /\ shown' = [shown EXCEPT ![d] = @ \cup {call[d].cur.val}]
          /\ told' = [told EXCEPT ![d] = @ \cup {call[d].val}]
          /\ Learns(d, captureVersions(known[d], call[d].cur))
      BY <1>4 DEF Refused, Show
    <2>2. /\ known'[d] = IF call[d].old THEN known[d] ELSE captureVersions(known[d], call[d].cur)
          /\ \A e \in Devices \ {d} : known'[e] = known[e]
      BY <1>1, <2>1, LearnsFacts
    <2>3. /\ conflict'[d] = [local |-> call[d].val, remote |-> call[d].cur.val]
          /\ shown'[d] = shown[d] \cup {call[d].cur.val} /\ told'[d] = told[d] \cup {call[d].val}
          /\ \A e \in Devices \ {d} : /\ conflict'[e] = conflict[e] /\ shown'[e] = shown[e]
                                      /\ told'[e] = told[e]
      BY <2>1 DEF TypeOK
    <2>4. conflict'[d] \in Conflicts
      BY <1>1, <2>3 DEF Conflicts, Rows
    <2>5. Others(d)
      BY <1>1, <1>2, <2>2, <2>3 DEF Others
    <2>. QED  BY <1>1, <1>2, <1>4, <2>1, <2>2, <2>3, <2>4, <2>5, NullAssumption
  <1>5. CASE SamePushed(d) \/ writeTombstones(d)
    <2>1. call[d].phase \in {"same", "tomb"} /\ UNCHANGED <<known, conflict, shown, told>>
      BY <1>5 DEF SamePushed, writeTombstones, histories
    <2>2. Others(d)
      BY <1>1, <1>2, <2>1 DEF Others
    <2>. QED  BY <1>1, <1>2, <2>1, <2>2
  <1>. QED  BY <1>3, <1>4, <1>5

LEMMA LoseOthers ==
  ASSUME TypeOK, NEW d \in Devices, LoseCall(d)
  PROVE  Others(d)
  BY LoseFacts DEF Others

LEMMA DeleteFacts ==
  ASSUME TypeOK, NEW d \in Devices, DeleteRow(d)
  PROVE  /\ Others(d) /\ call[d] # Null /\ call[d].phase = "delete"
         /\ row' = Absent /\ stored' = stored \cup {0}
         /\ call'[d] # Null /\ call'[d].phase = "tomb" /\ call'[d].val = call[d].val
         /\ call'[d].blind = call[d].blind /\ call'[d].old = call[d].old
         /\ UNCHANGED <<text, base, queued, known, adopting, conflict, shown, since, told, late,
                        clock>>
  <1>1. /\ call[d] # Null /\ call[d].phase = "delete" /\ "tomb" \in Phases /\ Advance(d, "tomb")
        /\ row' = Absent /\ stored' = stored \cup {0}
        /\ UNCHANGED <<text, base, queued, known, adopting, conflict, shown, since, told, late,
                       clock>>
    BY DEF DeleteRow, histories, Phases
  <1>2. /\ call'[d] # Null /\ call'[d].phase = "tomb" /\ call'[d].val = call[d].val
        /\ call'[d].blind = call[d].blind /\ call'[d].old = call[d].old
        /\ \A e \in Devices \ {d} : call'[e] = call[e]
    BY <1>1, AdvanceFacts
  <1>. QED  BY <1>1, <1>2 DEF Others

\* A session event: the versions are forgotten, and a push goes on for the old adapter.
LEMMA SessionFacts ==
  ASSUME TypeOK, NEW d \in Devices, Reload(d) \/ Refresh(d)
  PROVE  /\ Others(d) /\ adopting'[d] = [phase |-> "load"] /\ adopting'[d] # Null
         /\ known'[d] = 0
         /\ UNCHANGED <<text, conflict, shown, since, told, row, stored, clock>>
         /\ \/ /\ call'[d] = Null /\ queued'[d] = Null /\ base'[d] = Null
               /\ late' = late \/ (call[d] # Null /\ Abandon(d))
            \/ /\ UNCHANGED <<base, queued, late>> /\ call[d] = Null /\ call'[d] = Null
               /\ adopting[d] = Null
            \/ /\ UNCHANGED <<base, queued, late>> /\ call[d] # Null /\ adopting[d] = Null
               /\ call'[d] # Null /\ call'[d].old
               /\ call'[d].phase = call[d].phase /\ call'[d].val = call[d].val
               /\ call'[d].ver = call[d].ver /\ call'[d].blind = call[d].blind
               /\ call'[d].cur = call[d].cur
  <1>1. /\ adopting' = [adopting EXCEPT ![d] = [phase |-> "load"]]
        /\ known' = [known EXCEPT ![d] = 0] /\ [phase |-> "load"] # Null
        /\ UNCHANGED <<text, conflict, shown, since, told, row, stored, clock>>
    BY NullAssumption DEF Reload, Refresh, NewSession, Adoptions, accountVars, histories
  <1>2. CASE Reload(d)
    <2>1. late' = late \/ (call[d] # Null /\ Abandon(d))
      BY <1>2, Zenon DEF Reload
    <2>2. /\ call' = [call EXCEPT ![d] = Null] /\ queued' = [queued EXCEPT ![d] = Null]
          /\ base' = [base EXCEPT ![d] = Null]
      BY <1>2 DEF Reload
    <2>. QED  BY <1>1, <2>1, <2>2 DEF Others, TypeOK
  <1>3. CASE Refresh(d)
    <2>1. UNCHANGED <<base, queued, late>> /\ adopting[d] = Null
      BY <1>3 DEF Refresh, accountVars
    <2>2. CASE call[d] = Null
      BY <1>1, <1>3, <2>1, <2>2 DEF Refresh, Others, TypeOK
    <2>3. CASE call[d] # Null
      <3>1. call' = [call EXCEPT ![d] = [call[d] EXCEPT !.old = TRUE]]
        BY <1>3, <2>3 DEF Refresh
      <3>2. [call[d] EXCEPT !.old = TRUE] \in Calls
        BY <2>3, CallParts DEF Calls
      <3>3. /\ call'[d] = [call[d] EXCEPT !.old = TRUE]
            /\ \A e \in Devices \ {d} : call'[e] = call[e]
        BY <3>1 DEF TypeOK
      <3>4. /\ call'[d] # Null /\ call'[d].old
            /\ call'[d].phase = call[d].phase /\ call'[d].val = call[d].val
            /\ call'[d].ver = call[d].ver /\ call'[d].blind = call[d].blind
            /\ call'[d].cur = call[d].cur
        BY <2>3, <3>2, <3>3, CallParts, NullAssumption DEF Calls
      <3>5. Others(d)
        BY <1>1, <2>1, <3>3 DEF Others, TypeOK
      <3>. QED  BY <1>1, <2>1, <2>3, <3>4, <3>5 DEF TypeOK
    <2>. QED  BY <2>2, <2>3
  <1>. QED  BY <1>2, <1>3

LEMMA LoadFacts ==
  ASSUME TypeOK, NEW d \in Devices, Load(d) \/ LoadFails(d)
  PROVE  /\ Others(d) /\ adopting[d] # Null /\ adopting[d].phase = "load"
         /\ UNCHANGED <<text, base, queued, call, conflict, shown, since, told, row, stored,
                        late, clock>>
         /\ \/ adopting'[d] = Null /\ known' = known
            \/ \E r \in {row, Absent} :
                 /\ adopting'[d] # Null /\ adopting'[d].phase = "install"
                 /\ adopting'[d].val = r.val /\ known'[d] = captureVersions(known[d], r)
  <1>1. /\ adopting[d] # Null /\ adopting[d].phase = "load"
        /\ UNCHANGED <<text, base, queued, call, conflict, shown, since, told, row, stored,
                       late, clock>>
    BY DEF Load, LoadFails, accountVars, histories
  <1>2. CASE LoadFails(d)
    BY <1>1, <1>2 DEF LoadFails, Others, TypeOK
  <1>3. ASSUME NEW r \in {row, Absent}, Loaded(d, r)
        PROVE  /\ Others(d)
               /\ adopting'[d] # Null /\ adopting'[d].phase = "install"
               /\ adopting'[d].val = r.val /\ known'[d] = captureVersions(known[d], r)
    <2>1. [phase |-> "install", val |-> r.val] \in Adoptions
      BY <1>3, AbsentType DEF Adoptions, Rows, TypeOK
    <2>2. /\ adopting'[d] = [phase |-> "install", val |-> r.val]
          /\ known'[d] = captureVersions(known[d], r)
          /\ \A e \in Devices \ {d} : adopting'[e] = adopting[e] /\ known'[e] = known[e]
      BY <1>3 DEF Loaded, TypeOK
    <2>. QED  BY <1>1, <2>1, <2>2, NullAssumption DEF Others
  <1>4. CASE Load(d)
    <2>1. PICK r \in {row, Absent} : Loaded(d, r)
      BY <1>4 DEF Load
    <2>. QED  BY <1>1, <1>3, <2>1
  <1>. QED  BY <1>2, <1>4

LEMMA InstallFacts ==
  ASSUME TypeOK, NEW d \in Devices, Install(d)
  PROVE  /\ Others(d) /\ adopting[d] # Null /\ adopting[d].phase = "install"
         /\ adopting'[d] = Null /\ adopting[d].val \in Texts
         /\ \/ text'[d] = adopting[d].val
            \/ adopting[d].val = 0 /\ text'[d] = text[d]
         /\ base'[d] = adopting[d].val
         /\ queued'[d] = text'[d] \/ (text'[d] = base'[d] /\ queued'[d] = queued[d])
         /\ shown'[d] = shown[d] \cup {text'[d]}
         /\ \/ text'[d] = text[d] /\ since'[d] = since[d]
            \/ text'[d] # text[d] /\ since'[d] = clock
         /\ UNCHANGED <<known, call, conflict, told, row, stored, late, clock>>
  <1>1. PICK t \in {tomb, 0} : Adopt(d, t)
    BY DEF Install
  <1>2. /\ adopting[d] # Null /\ adopting[d].phase = "install"
        /\ text' = [text EXCEPT ![d] = Adopted(d, t)]
        /\ base' = [base EXCEPT ![d] = adopting[d].val]
        /\ adopting' = [adopting EXCEPT ![d] = Null] /\ known' = known
        /\ UNCHANGED <<call, conflict, told, row, stored, late, clock>>
    BY <1>1 DEF Install, Adopt, accountVars
  <1>3. /\ adopting[d].val \in Texts
        /\ Adopted(d, t) = adopting[d].val \/ (adopting[d].val = 0 /\ Adopted(d, t) = text[d])
    BY <1>2 DEF Adopted, Adoptions, TypeOK
  <1>4. /\ text'[d] = Adopted(d, t) /\ base'[d] = adopting[d].val /\ adopting'[d] = Null
        /\ \A e \in Devices \ {d} : /\ text'[e] = text[e] /\ base'[e] = base[e]
                                    /\ adopting'[e] = adopting[e]
    BY <1>2 DEF TypeOK
  <1>5. /\ queued'[d] = text'[d] \/ (text'[d] = base'[d] /\ queued'[d] = queued[d])
        /\ \A e \in Devices \ {d} : queued'[e] = queued[e]
    BY <1>1 DEF Adopt, Save, TypeOK
  <1>6. shown'[d] = shown[d] \cup {text'[d]} /\ \A e \in Devices \ {d} : shown'[e] = shown[e]
    BY <1>1 DEF Adopt, Show, TypeOK
  <1>7. /\ \/ text'[d] = text[d] /\ since'[d] = since[d]
           \/ text'[d] # text[d] /\ since'[d] = clock
        /\ \A e \in Devices \ {d} : since'[e] = since[e]
    <2>1. text' = text <=> text'[d] = text[d]
      BY <1>2 DEF TypeOK
    <2>. QED  BY <1>1, <2>1 DEF Adopt, TypeOK
  <1>8. Others(d)
    BY <1>2, <1>4, <1>5, <1>6, <1>7 DEF Others
  <1>. QED  BY <1>2, <1>3, <1>4, <1>5, <1>6, <1>7, <1>8

-----------------------------------------------------------------------------
(* The inductive invariant: what a version known to a device says.         *)

Guarded == {"sent", "read", "accepted", "stale"}
Silent  == {"delete", "tomb", "same"}

\* What a device shows, queues and pushes it has shown; only a push that outlives its
\* adapter is in the air while a session begins, and no version is known before the load.
LocalOK(d) ==
  /\ text[d] \in shown[d] \cup {0} /\ queued[d] \in shown[d] \cup {0, Null}
  /\ call[d] # Null =>
       /\ call[d].val \in shown[d] \cup {0} /\ (call[d].val = 0 => call[d].phase \in Silent)
       /\ call[d].phase \in {"delete", "tomb"} => call[d].val = 0
       /\ call[d].phase \notin Guarded => ~call[d].blind
       /\ adopting[d] # Null => call[d].old
  /\ adopting[d] # Null /\ adopting[d].phase = "load" => known[d] = 0

\* The row's text is on the device's screen, or about to be.
Holds(d) ==
  \/ row.val \in shown[d]
  \/ adopting[d] # Null /\ adopting[d].phase = "install" /\ adopting[d].val = row.val

\* A version the device knows is not ahead of the row, and when it is the row's, the
\* device holds the text, unless it has just read the version alone.
KnownOK(d) ==
  known[d] # 0 =>
    /\ known[d] <= row.ver
    /\ known[d] = row.ver =>
         Holds(d) \/ (call[d] # Null /\ call[d].blind /\ ~call[d].old)

\* A push proposes at most the next version, and that one only with the row's text
\* seen, or blindly; and so does a request given up.
ProposalOK(d) ==
  call[d] # Null /\ call[d].phase \in {"sent", "read"} =>
    /\ call[d].ver <= row.ver + 1
    /\ call[d].ver = row.ver + 1 => call[d].blind \/ row.val \in shown[d]

RequestOK(req) ==
  /\ req.ver <= row.ver + 1
  /\ req.ver = row.ver + 1 => req.blind \/ row.val \in shown[req.by]

\* What the server has answered, or read before it will, is the row or older.
AnswerOK(d) ==
  call[d] # Null =>
    /\ call[d].phase \in {"read", "stale"} =>
         /\ call[d].cur.ver \in Nat \ {0} /\ call[d].cur.ver <= row.ver
         /\ call[d].cur.ver = row.ver => call[d].cur.val = row.val
    /\ call[d].phase = "accepted" =>
         /\ call[d].ver <= row.ver
         /\ call[d].ver = row.ver => row.val = call[d].val /\ row.by = d

DeviceOK(d) == KnownOK(d) /\ ProposalOK(d) /\ AnswerOK(d)
LateOK == \A req \in late : RequestOK(req)
RowOK  == row.ver \in Nat \ {0} /\ row.val \in stored

VersionInv ==
  /\ TypeOK /\ \A d \in Devices : LocalOK(d)
  /\ NeverDeleted => RowOK /\ LateOK /\ \A d \in Devices : DeviceOK(d)

LEMMA VersionInit == Init => VersionInv
  <1>. SUFFICES ASSUME Init PROVE VersionInv
    OBVIOUS
  <1>1. TypeOK
    BY TypeInit
  <1>2. \A d \in Devices : LocalOK(d) /\ DeviceOK(d)
    <2>1. ASSUME NEW d \in Devices
          PROVE  /\ text[d] = 1 /\ known[d] = 1 /\ shown[d] = {1} /\ call[d] = Null
                 /\ queued[d] = Null /\ adopting[d] = Null /\ row.ver = 1 /\ row.val = 1
      BY DEF Init
    <2>2. ASSUME NEW d \in Devices PROVE KnownOK(d)
      BY <2>1 DEF KnownOK, Holds
    <2>3. ASSUME NEW d \in Devices PROVE LocalOK(d) /\ ProposalOK(d) /\ AnswerOK(d)
      BY <2>1 DEF LocalOK, ProposalOK, AnswerOK
    <2>. QED  BY <2>2, <2>3 DEF DeviceOK
  <1>3. RowOK /\ LateOK
    BY DEF Init, RowOK, LateOK
  <1>. QED  BY <1>1, <1>2, <1>3 DEF VersionInv

\* A step of one device that leaves the row alone has to be checked for that device,
\* and for the request it leaves behind.
LEMMA SameRow ==
  ASSUME VersionInv, TypeOK', NEW d \in Devices, Others(d), shown[d] \subseteq shown'[d],
         row' = row, stored' = stored, LocalOK(d)', NeverDeleted => DeviceOK(d)',
         \A req \in late' : req \in late \/ (NeverDeleted => RequestOK(req))
  PROVE  VersionInv'
  <1>1. \A e \in Devices : LocalOK(e)'
    BY DEF VersionInv, Others, LocalOK
  <1>2. ASSUME NeverDeleted PROVE RowOK' /\ LateOK'
    <2>1. ASSUME NEW req \in late', RequestOK(req) PROVE RequestOK(req)'
      <3>1. req.by \in Devices
        BY <2>1 DEF TypeOK, Requests
      <3>. QED  BY <2>1, <3>1 DEF RequestOK, Others
    <2>. QED  BY <1>2, <2>1 DEF VersionInv, RowOK, LateOK
  <1>3. ASSUME NeverDeleted, NEW e \in Devices PROVE DeviceOK(e)'
    <2>1. CASE e = d
      BY <1>3, <2>1
    <2>2. CASE e # d
      <3>1. DeviceOK(e) /\ shown'[e] = shown[e] /\ known'[e] = known[e]
            /\ call'[e] = call[e] /\ adopting'[e] = adopting[e]
        BY <1>3, <2>2 DEF VersionInv, Others
      <3>2. KnownOK(e)'
        BY <3>1 DEF DeviceOK, KnownOK, Holds
      <3>3. ProposalOK(e)'
        BY <3>1 DEF DeviceOK, ProposalOK
      <3>4. AnswerOK(e)'
        BY <3>1 DEF DeviceOK, AnswerOK
      <3>. QED  BY <3>2, <3>3, <3>4 DEF DeviceOK
    <2>. QED  BY <2>1, <2>2
  <1>4. NeverDeleted' = NeverDeleted
    BY DEF NeverDeleted
  <1>. QED  BY <1>1, <1>2, <1>3, <1>4 DEF VersionInv

\* A write carried out leaves every known version, request and answer behind.
LEMMA RowAdvances ==
  ASSUME VersionInv, NeverDeleted, TypeOK', NEW req \in Requests, NEW isLate \in BOOLEAN,
         enforce_sync_version(req), StoreRow(req, isLate), late' \subseteq late,
         known' = known, adopting' = adopting, shown' = shown
  PROVE  /\ RowOK' /\ LateOK'
         /\ \A e \in Devices : call'[e] = call[e] => DeviceOK(e)'
         /\ \A e \in Devices : KnownOK(e)'
         /\ row'.ver = row.ver + 1 /\ row'.ver = req.ver /\ row'.val = req.val
         /\ row'.by = req.by
  <1>1. row.ver \in Nat \ {0} /\ row # Absent
    BY NullAssumption DEF VersionInv, RowOK, Absent
  <1>2. row'.ver = row.ver + 1 /\ row'.ver = req.ver /\ row'.val = req.val
        /\ stored' = stored \cup {req.val} /\ row'.by = req.by
    BY <1>1 DEF enforce_sync_version, StoreRow
  <1>3. RowOK'
    BY <1>1, <1>2 DEF RowOK
  <1>4. LateOK'
    BY <1>1, <1>2 DEF VersionInv, TypeOK, LateOK, RequestOK, Requests
  <1>5. ASSUME NEW e \in Devices PROVE KnownOK(e)'
    BY <1>1, <1>2 DEF VersionInv, TypeOK, DeviceOK, KnownOK
  <1>6. ASSUME NEW e \in Devices, call'[e] = call[e] PROVE DeviceOK(e)'
    <2>1. DeviceOK(e) /\ (call[e] # Null => call[e].ver \in Nat)
      BY CallParts DEF VersionInv
    <2>2. ProposalOK(e)'
      BY <1>1, <1>2, <1>6, <2>1 DEF DeviceOK, ProposalOK
    <2>3. AnswerOK(e)'
      BY <1>1, <1>2, <1>6, <2>1 DEF DeviceOK, AnswerOK
    <2>. QED  BY <1>5, <2>2, <2>3 DEF DeviceOK
  <1>. QED  BY <1>2, <1>3, <1>4, <1>5, <1>6

\* A request its device gives up proposes what was legal to propose.
LEMMA AbandonedOK ==
  ASSUME VersionInv, NEW d \in Devices, call[d] # Null, Abandon(d), NEW req \in late'
  PROVE  req \in late \/ (NeverDeleted => RequestOK(req))
  <1>. SUFFICES ASSUME NeverDeleted, req \notin late PROVE RequestOK(req)
    OBVIOUS
  <1>1. call[d].phase \in {"sent", "read"} /\ req = Request(d)
    BY DEF Abandon
  <1>2. ProposalOK(d)
    BY DEF VersionInv, DeviceOK
  <1>. QED  BY <1>1, <1>2 DEF ProposalOK, Request, RequestOK

\* The person at the device, and the sessions.
LEMMA LocalVersion ==
  ASSUME VersionInv, TypeOK', NEW d \in Devices,
         \/ Edit(d) \/ Resolve(d) \/ Remove(d) \/ Touch(d) \/ Load(d) \/ LoadFails(d)
         \/ Reload(d) \/ Refresh(d) \/ Install(d)
  PROVE  VersionInv'
  <1>0. TypeOK /\ LocalOK(d) /\ (NeverDeleted => RowOK /\ DeviceOK(d))
    BY DEF VersionInv
  <1>1. CASE Edit(d) \/ Resolve(d)
    <2>1. LocalOK(d)' /\ (DeviceOK(d) => DeviceOK(d)')
      BY <1>0, <1>1, WriteFacts DEF LocalOK, DeviceOK, KnownOK, Holds, ProposalOK, AnswerOK
    <2>. QED  BY <1>0, <1>1, <2>1, WriteFacts, SameRow
  <1>2. CASE Remove(d)
    <2>1. LocalOK(d)' /\ (DeviceOK(d) => DeviceOK(d)')
      BY <1>0, <1>2, RemoveFacts DEF LocalOK, DeviceOK, KnownOK, Holds, ProposalOK, AnswerOK
    <2>. QED  BY <1>0, <1>2, <2>1, RemoveFacts, SameRow
  <1>3. CASE Touch(d)
    <2>1. LocalOK(d)' /\ (DeviceOK(d) => DeviceOK(d)')
      BY <1>0, <1>3, TouchFacts DEF LocalOK, DeviceOK, KnownOK, Holds, ProposalOK, AnswerOK
    <2>. QED  BY <1>0, <1>3, <2>1, TouchFacts, SameRow
  <1>4. CASE Load(d) \/ LoadFails(d)
    <2>1. known[d] = 0
      BY <1>0, <1>4, LoadFacts DEF LocalOK
    <2>2. CASE adopting'[d] = Null /\ known' = known
      <3>1. LocalOK(d)' /\ (DeviceOK(d) => DeviceOK(d)')
        BY <1>0, <1>4, <2>1, <2>2, LoadFacts
        DEF LocalOK, DeviceOK, KnownOK, ProposalOK, AnswerOK
      <3>. QED  BY <1>0, <1>4, <3>1, LoadFacts, SameRow
    <2>3. ASSUME NEW r \in {row, Absent}, adopting'[d] # Null, adopting'[d].phase = "install",
                 adopting'[d].val = r.val, known'[d] = captureVersions(known[d], r)
          PROVE  VersionInv'
      <3>1. LocalOK(d)'
        BY <1>0, <1>4, <2>3, LoadFacts DEF LocalOK
      <3>2. ASSUME NeverDeleted PROVE DeviceOK(d)'
        <4>1. row.ver \in Nat \ {0} /\ row' = row
          BY <1>0, <1>4, <3>2, LoadFacts DEF RowOK
        <4>2. KnownOK(d)'
          BY <2>1, <2>3, <4>1, NullAssumption DEF KnownOK, Holds, captureVersions, Absent
        <4>3. ProposalOK(d)' /\ AnswerOK(d)'
          BY <1>0, <1>4, <3>2, LoadFacts DEF DeviceOK, ProposalOK, AnswerOK
        <4>. QED  BY <4>2, <4>3 DEF DeviceOK
      <3>. QED  BY <1>0, <1>4, <3>1, <3>2, LoadFacts, SameRow
    <2>. QED  BY <1>0, <1>4, <2>2, <2>3, LoadFacts
  <1>5. CASE Reload(d) \/ Refresh(d)
    <2>1. LocalOK(d)'
      BY <1>0, <1>5, SessionFacts DEF LocalOK
    <2>2. DeviceOK(d) => DeviceOK(d)'
      BY <1>0, <1>5, SessionFacts DEF DeviceOK, KnownOK, ProposalOK, AnswerOK
    <2>3. \A req \in late' : req \in late \/ (NeverDeleted => RequestOK(req))
      BY <1>0, <1>5, SessionFacts, AbandonedOK
    <2>. QED  BY <1>0, <1>5, <2>1, <2>2, <2>3, SessionFacts, SameRow
  <1>6. CASE Install(d)
    <2>1. LocalOK(d)'
      BY <1>0, <1>6, InstallFacts DEF LocalOK
    <2>2. ASSUME NeverDeleted PROVE DeviceOK(d)'
      <3>1. row.val # 0 /\ DeviceOK(d)
        BY <1>0, <2>2 DEF RowOK, NeverDeleted
      <3>2. adopting[d].val = row.val => row.val \in shown'[d]
        BY <1>0, <1>6, <3>1, InstallFacts
      <3>3. KnownOK(d)'
        BY <1>0, <1>6, <3>1, <3>2, InstallFacts DEF LocalOK, DeviceOK, KnownOK, Holds
      <3>4. ProposalOK(d)' /\ AnswerOK(d)'
        BY <1>0, <1>6, <3>1, InstallFacts DEF DeviceOK, ProposalOK, AnswerOK
      <3>. QED  BY <3>3, <3>4 DEF DeviceOK
    <2>. QED  BY <1>0, <1>6, <2>1, <2>2, InstallFacts, SameRow
  <1>. QED  BY <1>1, <1>2, <1>3, <1>4, <1>5, <1>6

\* The push, up to the server.
LEMMA PushVersion ==
  ASSUME VersionInv, TypeOK', NEW d \in Devices,
         StartPush(d) \/ ensureVersions(d) \/ ServerReads(d)
  PROVE  VersionInv'
  <1>0. TypeOK /\ LocalOK(d) /\ (NeverDeleted => RowOK /\ DeviceOK(d))
    BY DEF VersionInv
  <1>1. CASE StartPush(d)
    <2>1. LocalOK(d)'
      BY <1>0, <1>1, StartFacts DEF LocalOK, Silent, Guarded
    <2>2. ASSUME NeverDeleted PROVE DeviceOK(d)'
      <3>1. DeviceOK(d) /\ row.ver \in Nat /\ known[d] \in Nat
        BY <1>0, <2>2 DEF RowOK, TypeOK
      <3>. QED  BY <1>0, <1>1, <3>1, StartFacts
           DEF DeviceOK, KnownOK, Holds, ProposalOK, AnswerOK
    <2>. QED  BY <1>0, <1>1, <2>1, <2>2, StartFacts, SameRow
  <1>2. CASE ensureVersions(d)
    <2>1. LocalOK(d)'
      BY <1>0, <1>2, EnsureFacts DEF LocalOK, Silent, Guarded
    <2>2. ASSUME NeverDeleted PROVE DeviceOK(d)'
      <3>1. DeviceOK(d) /\ row.ver \in Nat \ {0} /\ row # Absent
        BY <1>0, <2>2, NullAssumption DEF RowOK, Absent
      <3>2. captureVersions(0, row) = row.ver /\ call'[d].blind
        BY <1>0, <1>2, <3>1, NullAssumption, EnsureFacts DEF captureVersions
      <3>3. KnownOK(d)'
        BY <1>0, <1>2, <3>1, <3>2, EnsureFacts DEF LocalOK, DeviceOK, KnownOK, Holds
      <3>4. ProposalOK(d)' /\ AnswerOK(d)'
        BY <1>0, <1>2, <3>1, <3>2, EnsureFacts DEF ProposalOK, AnswerOK
      <3>. QED  BY <3>3, <3>4 DEF DeviceOK
    <2>. QED  BY <1>0, <1>2, <2>1, <2>2, EnsureFacts, SameRow
  <1>3. CASE ServerReads(d)
    <2>1. LocalOK(d)'
      BY <1>0, <1>3, ReadsFacts DEF LocalOK, Silent, Guarded
    <2>2. ASSUME NeverDeleted PROVE DeviceOK(d)'
      <3>1. DeviceOK(d) /\ row.ver \in Nat \ {0}
        BY <1>0, <2>2 DEF RowOK
      <3>. QED  BY <1>0, <1>3, <3>1, ReadsFacts
           DEF DeviceOK, KnownOK, Holds, ProposalOK, AnswerOK
    <2>. QED  BY <1>0, <1>3, <2>1, <2>2, ReadsFacts, SameRow
  <1>. QED  BY <1>1, <1>2, <1>3

LEMMA ServerVersion ==
  ASSUME VersionInv, TypeOK', NEW d \in Devices, ServerWrites(d)
  PROVE  VersionInv'
  <1>0. TypeOK /\ LocalOK(d) /\ (NeverDeleted => RowOK /\ DeviceOK(d))
    BY DEF VersionInv
  <1>1. LocalOK(d)' /\ \A e \in Devices : LocalOK(e)'
    BY <1>0, WritesFacts DEF VersionInv, Others, LocalOK, Silent, Guarded
  <1>2. CASE /\ enforce_sync_version(Request(d)) /\ StoreRow(Request(d), call[d].old)
             /\ call'[d].phase = "accepted"
    <2>1. NeverDeleted' => NeverDeleted
      BY <1>2 DEF StoreRow, NeverDeleted
    <2>2. ASSUME NeverDeleted PROVE RowOK' /\ LateOK' /\ \A e \in Devices : DeviceOK(e)'
      <3>1. /\ Request(d) \in Requests /\ call[d].old \in BOOLEAN /\ Request(d).val = call[d].val
            /\ Request(d).ver = call[d].ver /\ Request(d).by = d /\ call[d].ver \in Nat
        BY <1>0, WritesFacts, RequestType, CallParts DEF Request
      <3>2. /\ RowOK' /\ LateOK' /\ \A e \in Devices : call'[e] = call[e] => DeviceOK(e)'
            /\ KnownOK(d)' /\ row'.ver = call[d].ver /\ row'.val = call[d].val /\ row'.by = d
        BY <1>0, <1>2, <2>2, <3>1, WritesFacts, RowAdvances
      <3>3. ProposalOK(d)' /\ AnswerOK(d)'
        BY <1>0, <1>2, <3>1, <3>2, WritesFacts DEF ProposalOK, AnswerOK
      <3>4. \A e \in Devices \ {d} : call'[e] = call[e]
        BY <1>0, WritesFacts DEF Others
      <3>. QED  BY <3>2, <3>3, <3>4 DEF DeviceOK
    <2>. QED  BY <1>1, <2>1, <2>2 DEF VersionInv
  <1>3. CASE UNCHANGED <<row, stored>> /\ call'[d].phase = "stale"
    <2>1. ASSUME NeverDeleted PROVE DeviceOK(d)'
      BY <1>0, <1>3, <2>1, WritesFacts DEF DeviceOK, KnownOK, Holds, ProposalOK, AnswerOK
    <2>. QED  BY <1>0, <1>1, <1>3, <2>1, WritesFacts, SameRow
  <1>. QED  BY <1>0, <1>2, <1>3, WritesFacts

\* The answer, or none.
LEMMA AnswerVersion ==
  ASSUME VersionInv, TypeOK', NEW d \in Devices,
         \/ Accepted(d) \/ Refused(d) \/ SamePushed(d) \/ writeTombstones(d)
         \/ LoseCall(d)
  PROVE  VersionInv'
  <1>0. TypeOK /\ LocalOK(d) /\ (NeverDeleted => RowOK /\ DeviceOK(d))
    BY DEF VersionInv
  <1>1. CASE Accepted(d) \/ Refused(d) \/ SamePushed(d) \/ writeTombstones(d)
    <2>1. LocalOK(d)'
      BY <1>0, <1>1, AnswerFacts DEF LocalOK
    <2>2. ASSUME NeverDeleted PROVE DeviceOK(d)'
      <3>1. DeviceOK(d)
        BY <1>0, <2>2
      <3>2. ProposalOK(d)' /\ AnswerOK(d)'
        BY <1>0, <1>1, AnswerFacts DEF ProposalOK, AnswerOK
      <3>3. CASE call[d].phase = "accepted" /\ UNCHANGED <<conflict, shown, told>>
                 /\ known'[d] = IF call[d].old THEN known[d] ELSE call[d].ver
        <4>1. call[d].val \in shown[d]
          BY <1>0, <1>1, <3>3, AnswerFacts DEF LocalOK, Silent
        <4>. QED  BY <1>0, <1>1, <3>1, <3>2, <3>3, <4>1, AnswerFacts
             DEF LocalOK, DeviceOK, KnownOK, Holds, AnswerOK
      <3>4. CASE /\ call[d].phase = "stale" /\ shown'[d] = shown[d] \cup {call[d].cur.val}
                 /\ known'[d] = IF call[d].old THEN known[d]
                                ELSE captureVersions(known[d], call[d].cur)
        <4>1. ~call[d].old => known'[d] = call[d].cur.ver
          BY <1>0, <1>1, <3>1, <3>4, NullAssumption, AnswerFacts
          DEF DeviceOK, AnswerOK, captureVersions
        <4>. QED  BY <1>0, <1>1, <3>1, <3>2, <3>4, <4>1, AnswerFacts
             DEF LocalOK, DeviceOK, KnownOK, Holds, AnswerOK
      <3>5. CASE call[d].phase \in {"same", "tomb"} /\ UNCHANGED <<known, conflict, shown, told>>
        BY <1>0, <1>1, <3>1, <3>2, <3>5, AnswerFacts
        DEF LocalOK, Guarded, DeviceOK, KnownOK, Holds
      <3>. QED  BY <1>0, <1>1, <3>3, <3>4, <3>5, AnswerFacts
    <2>. QED  BY <1>0, <1>1, <2>1, <2>2, AnswerFacts, SameRow
  <1>2. CASE LoseCall(d)
    <2>0. /\ call[d] # Null /\ call'[d] = Null
          /\ queued'[d] \in {queued[d], call[d].val}
          /\ \/ known'[d] = known[d] /\ (call[d].old \/ call[d].phase \in Silent)
             \/ known'[d] = 0
          /\ UNCHANGED <<text, adopting, row, stored, shown>>
      <3>1. /\ call[d] # Null /\ call'[d] = Null
            /\ queued'[d] = IF queued[d] = Null THEN call[d].val ELSE queued[d]
            /\ \/ /\ known'[d] = known[d]
                  /\ call[d].old \/ call[d].phase \in {"delete", "tomb", "same"}
               \/ known'[d] = 0
            /\ UNCHANGED <<text, adopting, row, stored, shown>>
        BY <1>0, <1>2, LoseFacts
      <3>2. queued'[d] \in {queued[d], call[d].val}
        BY <3>1
      <3>. QED  BY <3>1, <3>2 DEF Silent
    <2>1. LocalOK(d)'
      BY <1>0, <2>0 DEF LocalOK
    <2>2. ASSUME NeverDeleted PROVE DeviceOK(d)'
      <3>1. ~(call[d].blind /\ ~call[d].old) \/ known'[d] = 0
        BY <1>0, <2>0 DEF LocalOK, Guarded, Silent
      <3>. QED  BY <1>0, <2>0, <2>2, <3>1 DEF DeviceOK, KnownOK, Holds, ProposalOK, AnswerOK
    <2>3. \A req \in late' : req \in late \/ (NeverDeleted => RequestOK(req))
      BY <1>0, <1>2, LoseFacts, AbandonedOK
    <2>. QED  BY <1>0, <1>2, <2>1, <2>2, <2>3, LoseFacts, LoseOthers, SameRow
  <1>. QED  BY <1>1, <1>2

LEMMA LateVersion ==
  ASSUME VersionInv, TypeOK', LateWrite
  PROVE  VersionInv'
  <1>1. PICK req \in late :
          /\ late' = late \ {req}
          /\ IF enforce_sync_version(req) THEN StoreRow(req, TRUE)
                                          ELSE UNCHANGED <<row, stored>>
          /\ UNCHANGED <<text, queued, known, call, adopting, shown>>
    BY DEF LateWrite, deviceVars, histories
  <1>2. req \in Requests /\ \A d \in Devices : LocalOK(d)'
    BY <1>1 DEF TypeOK, VersionInv, LocalOK
  <1>3. CASE enforce_sync_version(req)
    <2>1. NeverDeleted' => NeverDeleted
      BY <1>1, <1>3 DEF StoreRow, NeverDeleted
    <2>2. NeverDeleted => RowOK' /\ LateOK' /\ \A d \in Devices : DeviceOK(d)'
      BY <1>1, <1>2, <1>3, RowAdvances
    <2>. QED  BY <1>2, <2>1, <2>2 DEF VersionInv
  <1>4. CASE ~enforce_sync_version(req)
    <2>1. RowOK' = RowOK /\ (LateOK => LateOK') /\ NeverDeleted' = NeverDeleted
      BY <1>1, <1>4 DEF RowOK, LateOK, RequestOK, NeverDeleted
    <2>2. \A d \in Devices : DeviceOK(d) => DeviceOK(d)'
      BY <1>1, <1>4 DEF DeviceOK, KnownOK, Holds, ProposalOK, AnswerOK
    <2>. QED  BY <1>2, <2>1, <2>2 DEF VersionInv
  <1>. QED  BY <1>3, <1>4

LEMMA VersionStep == VersionInv /\ [Next]_vars => VersionInv'
  <1>. SUFFICES ASSUME VersionInv, [Next]_vars PROVE VersionInv'
    OBVIOUS
  <1>0. TypeOK /\ TypeOK'
    BY TypeStep DEF VersionInv
  <1>1. CASE UNCHANGED vars
    <2>1. UNCHANGED <<text, queued, known, call, adopting, shown, row, late, stored>>
      BY <1>1 DEF vars, deviceVars, accountVars, histories
    <2>2. \A d \in Devices : LocalOK(d)' /\ (DeviceOK(d) => DeviceOK(d)')
      BY <2>1 DEF VersionInv, LocalOK, DeviceOK, KnownOK, Holds, ProposalOK, AnswerOK
    <2>3. RowOK' = RowOK /\ LateOK' = LateOK /\ NeverDeleted' = NeverDeleted
      BY <2>1 DEF RowOK, LateOK, RequestOK, NeverDeleted
    <2>. QED  BY <1>0, <2>2, <2>3 DEF VersionInv
  <1>2. ASSUME NEW d \in Devices, DeleteRow(d) PROVE VersionInv'
    <2>1. 0 \in stored' /\ ~NeverDeleted'
      BY <1>0, <1>2, DeleteFacts DEF NeverDeleted
    <2>2. \A e \in Devices : LocalOK(e)'
      BY <1>0, <1>2, DeleteFacts DEF VersionInv, Others, LocalOK, Silent, Guarded
    <2>. QED  BY <1>0, <2>1, <2>2 DEF VersionInv
  <1>. QED  BY <1>0, <1>1, <1>2, LocalVersion, PushVersion, ServerVersion, AnswerVersion,
            LateVersion DEF Next, DeviceStep

-----------------------------------------------------------------------------
(* What follows.                                                           *)

\* For any devices and whatever fails: a device that knows the row's version has had its
\* text on the screen, and nobody is ahead of the row, until something deletes it.
THEOREM VersionsTell == Spec => []VersionInv
  BY VersionInit, VersionStep, PTL DEF Spec

\* The steps that change the row.
LEMMA WhoChanges ==
  ASSUME TypeOK, NEW d \in Devices, DeviceStep(d)
  PROVE  row' = row \/ ServerWrites(d) \/ DeleteRow(d)
  BY WriteFacts, RemoveFacts, TouchFacts, StartFacts, EnsureFacts, ReadsFacts, AnswerFacts,
     LoseFacts, SessionFacts, LoadFacts, InstallFacts DEF DeviceStep

\* Who replaces the row has had its text on the screen, or read its version alone.
LEMMA UnseenStep ==
  ASSUME VersionInv, [Next]_vars, NEW d \in Devices, row'.by = d, row' # row,
         row # Absent, NeverDeleted
  PROVE  row'.blind \/ row.val \in shown[d]
  <1>1. RowOK /\ LateOK /\ TypeOK /\ \A e \in Devices : DeviceOK(e) /\ LocalOK(e)
    BY DEF VersionInv
  <1>2. CASE LateWrite
    <2>1. PICK req \in late : enforce_sync_version(req) /\ StoreRow(req, TRUE)
      BY <1>2 DEF LateWrite
    <2>2. RequestOK(req) /\ req.ver = row.ver + 1 /\ req.by = d /\ req.blind = row'.blind
      BY <1>1, <2>1 DEF LateOK, enforce_sync_version, StoreRow
    <2>. QED  BY <2>2 DEF RequestOK
  <1>3. ASSUME NEW e \in Devices, ServerWrites(e) PROVE row'.blind \/ row.val \in shown[d]
    <2>1. /\ call[e] # Null /\ call[e].phase = "read"
          /\ enforce_sync_version(Request(e)) /\ StoreRow(Request(e), call[e].old)
      BY <1>1, <1>3, WritesFacts
    <2>2. d = e /\ call[e].ver = row.ver + 1 /\ row'.blind = call[e].blind
      BY <2>1 DEF enforce_sync_version, StoreRow, Request
    <2>. QED  BY <1>1, <2>1, <2>2 DEF DeviceOK, ProposalOK
  <1>4. ASSUME NEW e \in Devices, DeleteRow(e) PROVE FALSE
    BY <1>1, <1>4, DeleteFacts, NullAssumption DEF Absent
  <1>. QED  BY <1>1, <1>2, <1>3, <1>4, WhoChanges DEF Next, vars, accountVars

\* For any devices and whatever fails: the row is replaced only by a device whose
\* user has had the replaced text on the screen, except with a version that was
\* read without the text.
THEOREM NothingReplacedUnseenCorrect == Spec => NothingReplacedUnseen
  <1>1. VersionInv /\ [Next]_vars =>
          [\A d \in Devices : row'.by = d /\ row' # row /\ row # Absent /\ NeverDeleted =>
             row'.blind \/ row.val \in shown[d]]_vars
    BY UnseenStep
  <1>. QED  BY <1>1, VersionsTell, PTL DEF Spec, NothingReplacedUnseen


-----------------------------------------------------------------------------
(* The inductive invariant of what became of the texts.                    *)

Installing(d) == adopting[d] # Null /\ adopting[d].phase = "install"

\* A text is older than the next one.
ClockedOK(d) ==
  /\ text[d] < clock /\ since[d] <= clock
  /\ (base[d] # Null => base[d] < clock) /\ (queued[d] # Null => queued[d] < clock)
  /\ call[d] # Null => call[d].val < clock
  /\ Installing(d) => adopting[d].val < clock

\* What was accepted or loaded was stored, what counts as pushed was stored or handed back.
Arrived(d) == stored \cup told[d] \cup {0, Null}
KeptOK(d) ==
  /\ base[d] \in Arrived(d)
  /\ call[d] # Null =>
       /\ call[d].phase = "accepted" => call[d].val \in stored
       /\ call[d].phase = "same" => call[d].val \in Arrived(d)
  /\ Installing(d) => adopting[d].val \in stored \cup {0}

\* A device that wrote the row with a push it did not give up knows its version, or
\* knows none, or is about to; so its next push cannot be refused for that.
OwnRowOK(d) ==
  row.by = d /\ ~row.late =>
    /\ call[d] = Null \/ call[d].old \/ call[d].phase \notin Guarded => known[d] \in {0, row.ver}
    /\ call[d] # Null =>
         /\ call[d].phase # "stale"
         /\ call[d].phase \in {"sent", "read"} => call[d].ver = row.ver + 1
         /\ call[d].phase = "accepted" => call[d].ver = row.ver

\* Text x of the device does not come before y, if there is one, unless an adoption has
\* changed the screen since y.
NotBefore(d, x, y) == x \in {0, Null} \/ x >= y \/ y < since[d]

\* Nothing the device shows or has yet to push comes before y.
NewerThan(d, y) ==
  /\ NotBefore(d, text[d], y) /\ NotBefore(d, queued[d], y)
  /\ call[d] # Null => NotBefore(d, call[d].val, y)

\* Texts are queued and pushed in the order they were written, between two adoptions.
QueueOK(d) ==
  /\ queued[d] # Null => text[d] \in {0, queued[d]} \/ queued[d] < since[d]
  /\ call[d] # Null =>
       /\ text[d] \in {0, call[d].val, queued[d]} \/ call[d].val < since[d]
       /\ NotBefore(d, queued[d], call[d].val)

OrderOK(d) ==
  /\ QueueOK(d)
  /\ row.by = d => NewerThan(d, row.val)
  /\ \A req \in late : req.by = d => NewerThan(d, req.val)

\* A request given up long ago does not put an older text over a newer one of its device.
LateOrderOK(req) ==
  row.by = req.by /\ req.ver = row.ver + 1 => req.val >= row.val \/ row.val < since[req.by]

Pushing(d) == call[d] # Null /\ call[d].phase \notin Silent /\ ~call[d].old
Owing(d)   == queued[d] = text[d] /\ text[d] # base[d]

\* The row's text is in sight, or is one of its own an adoption took off the screen.
InSight(d) ==
  \/ text[d] = row.val
  \/ conflict[d] # Null /\ conflict[d].remote = row.val
  \/ row.by = d /\ row.val < since[d]

\* Level with the row a device has its text in sight, or something else under way.  While
\* a push outlives its adapter, no notice counts: it may be replaced.
SightOK(d) ==
  adopting[d] = Null /\ known[d] = row.ver /\ text[d] # 0 =>
    /\ InSight(d) \/ Owing(d) \/ Pushing(d)
    /\ call[d] # Null /\ call[d].old =>
         text[d] = row.val \/ (Owing(d) /\ text[d] # call[d].val)

UnderWayOK(d) ==
  /\ Pushing(d) => text[d] \in {0, call[d].val} \/ call[d].val < since[d] \/ Owing(d)
  /\ call[d] # Null =>
       /\ call[d].phase # "tomb"
       /\ call[d].phase = "same" /\ ~call[d].old =>
            call[d].val = base[d] \/ (call[d].val = 0 /\ base[d] = Null)
  /\ Installing(d) =>
       /\ known[d] = row.ver => adopting[d].val = row.val
       /\ adopting[d].val = 0 => known[d] = 0

LevelOK(d) == SightOK(d) /\ UnderWayOK(d)

RowKept  == row.val \in stored /\ row.val < clock /\ (row # Absent => row.ver \in Nat)
LateKept == \A req \in late : req.val < clock

DeviceHistory(d) == ClockedOK(d) /\ KeptOK(d) /\ OwnRowOK(d) /\ OrderOK(d)

HistoryInv ==
  /\ VersionInv /\ RowKept /\ LateKept
  /\ \A d \in Devices : DeviceHistory(d)
  /\ NeverDeleted => /\ \A req \in late : LateOrderOK(req)
                     /\ \A d \in Devices : LevelOK(d)

LEMMA HistoryInit == Init => HistoryInv
  <1>. SUFFICES ASSUME Init PROVE HistoryInv
    OBVIOUS
  <1>1. VersionInv /\ RowKept /\ LateKept
    BY VersionInit DEF Init, RowKept, LateKept
  <1>2. ASSUME NEW d \in Devices
        PROVE  /\ text[d] = 1 /\ base[d] = 1 /\ known[d] = 1 /\ call[d] = Null
               /\ queued[d] = Null /\ adopting[d] = Null /\ conflict[d] = Null /\ since[d] = 1
               /\ row.ver = 1 /\ row.val = 1 /\ row.by = Null /\ late = {} /\ clock = 2
               /\ stored = {1}
    BY DEF Init
  <1>3. ASSUME NEW d \in Devices PROVE ClockedOK(d) /\ KeptOK(d) /\ OwnRowOK(d)
    BY <1>2, NullAssumption DEF ClockedOK, KeptOK, Arrived, OwnRowOK, Installing
  <1>4. ASSUME NEW d \in Devices PROVE OrderOK(d) /\ LevelOK(d)
    BY <1>2, NullAssumption
    DEF OrderOK, QueueOK, LevelOK, SightOK, UnderWayOK, InSight, Pushing, Installing
  <1>5. \A req \in late : LateOrderOK(req)
    BY DEF Init
  <1>. QED  BY <1>1, <1>3, <1>4, <1>5 DEF HistoryInv, DeviceHistory

\* What holds of any device, spelled out once for the steps below.
LEMMA DeviceFacts ==
  ASSUME HistoryInv, NEW d \in Devices
  PROVE  /\ TypeOK /\ LocalOK(d) /\ DeviceHistory(d) /\ RowKept /\ LateKept
         /\ NeverDeleted => /\ LevelOK(d) /\ DeviceOK(d)
                            /\ row.ver \in Nat \ {0} /\ row.val # 0 /\ row # Absent
         /\ text[d] \in Nat /\ since[d] \in Nat
         /\ (base[d] # Null => base[d] \in Nat) /\ (queued[d] # Null => queued[d] \in Nat)
         /\ (call[d] # Null => call[d].val \in Nat) /\ (Installing(d) => adopting[d].val \in Nat)
         /\ known[d] \in Nat /\ clock \in Nat \ {0} /\ row.val \in Nat /\ late \subseteq Requests
         /\ \A req \in late : req.val \in Nat
  <1>1. TypeOK /\ LocalOK(d) /\ DeviceHistory(d) /\ RowKept /\ LateKept
    BY DEF HistoryInv, VersionInv
  <1>2. ASSUME NeverDeleted
        PROVE  /\ LevelOK(d) /\ DeviceOK(d)
               /\ row.ver \in Nat \ {0} /\ row.val # 0 /\ row # Absent
    BY <1>2, NullAssumption DEF HistoryInv, VersionInv, RowOK, NeverDeleted, Absent
  <1>3. /\ text[d] \in Nat /\ since[d] \in Nat
        /\ (base[d] # Null => base[d] \in Nat) /\ (queued[d] # Null => queued[d] \in Nat)
        /\ (call[d] # Null => call[d].val \in Nat) /\ (Installing(d) => adopting[d].val \in Nat)
    BY <1>1, CallParts DEF TypeOK, Texts, Installing, Adoptions
  <1>4. /\ known[d] \in Nat /\ clock \in Nat \ {0} /\ row.val \in Nat /\ late \subseteq Requests
        /\ \A req \in late : req.val \in Nat
    BY <1>1, BoundsAssumption DEF TypeOK, Rows, Requests, Texts
  <1>. QED  BY <1>1, <1>2, <1>3, <1>4

\* A request that device d gives up.
GivenUp(d, req) == req.by = d /\ req.val < clock /\ (NeverDeleted => LateOrderOK(req))

\* A step of one device that leaves the row alone has to be checked for that device.
LEMMA SameRowHistory ==
  ASSUME HistoryInv, VersionInv', NEW d \in Devices, Others(d), row' = row, stored' = stored,
         clock' \in Nat, clock' >= clock, since'[d] >= since[d], late' \subseteq Requests,
         \A req \in late' : req \in late \/ GivenUp(d, req),
         DeviceHistory(d)', NeverDeleted => LevelOK(d)'
  PROVE  HistoryInv'
  <1>0. /\ TypeOK /\ TypeOK' /\ NeverDeleted' = NeverDeleted
        /\ clock \in Nat /\ row.val \in Nat /\ \A req \in late' : req.val \in Nat
    BY DEF HistoryInv, VersionInv, NeverDeleted, TypeOK, Rows, Texts, Requests
  <1>1. RowKept' /\ LateKept'
    BY <1>0 DEF HistoryInv, RowKept, LateKept, GivenUp
  <1>2. NeverDeleted => \A req \in late' : LateOrderOK(req)'
    <2>1. \A e \in Devices : since'[e] >= since[e] /\ since[e] \in Nat /\ since'[e] \in Nat
      BY <1>0 DEF Others, TypeOK
    <2>2. \A req \in late' : req.by \in Devices
      BY DEF Requests
    <2>3. NeverDeleted => \A req \in late' : LateOrderOK(req)
      BY DEF HistoryInv, GivenUp
    <2>. QED  BY <1>0, <2>1, <2>2, <2>3 DEF LateOrderOK
  <1>3. ASSUME NEW e \in Devices \ {d}
        PROVE  DeviceHistory(e)' /\ (NeverDeleted => LevelOK(e)')
    <2>1. /\ text'[e] = text[e] /\ base'[e] = base[e] /\ queued'[e] = queued[e]
          /\ known'[e] = known[e] /\ call'[e] = call[e] /\ adopting'[e] = adopting[e]
          /\ conflict'[e] = conflict[e] /\ since'[e] = since[e] /\ told'[e] = told[e]
      BY DEF Others
    <2>2. /\ text[e] \in Nat /\ (base[e] # Null => base[e] \in Nat) /\ since[e] \in Nat
          /\ (call[e] # Null => call[e].val \in Nat) /\ (queued[e] # Null => queued[e] \in Nat)
          /\ (Installing(e) => adopting[e].val \in Nat)
          /\ DeviceHistory(e) /\ (NeverDeleted => LevelOK(e))
      BY DeviceFacts
    <2>3. ClockedOK(e)'
      BY <1>0, <2>1, <2>2 DEF DeviceHistory, ClockedOK, Installing
    <2>4. KeptOK(e)' /\ OwnRowOK(e)'
      BY <2>1, <2>2 DEF DeviceHistory, KeptOK, Arrived, OwnRowOK, Installing
    <2>5. QueueOK(e)' /\ \A v : NewerThan(e, v) => NewerThan(e, v)'
      BY <2>1, <2>2 DEF DeviceHistory, OrderOK, QueueOK, NewerThan, NotBefore
    <2>6. OrderOK(e)'
      BY <2>2, <2>5 DEF DeviceHistory, OrderOK, GivenUp
    <2>7. NeverDeleted => LevelOK(e)'
      BY <2>1, <2>2
      DEF LevelOK, SightOK, UnderWayOK, InSight, Owing, Pushing, Installing
    <2>. QED  BY <2>3, <2>4, <2>6, <2>7 DEF DeviceHistory
  <1>. QED  BY <1>0, <1>1, <1>2, <1>3 DEF HistoryInv

-----------------------------------------------------------------------------
(* The person at the device.                                               *)

\* A new text is newer than anything the device has written.
LEMMA WriteHistory ==
  ASSUME HistoryInv, VersionInv', NEW d \in Devices, Edit(d) \/ Resolve(d)
  PROVE  HistoryInv'
  <1>0. TypeOK /\ DeviceHistory(d) /\ RowKept /\ LateKept
    BY DeviceFacts
  <1>1. /\ Others(d) /\ text'[d] = clock /\ queued'[d] = clock /\ clock' = clock + 1
        /\ UNCHANGED <<base, known, call, adopting, since, told, row, stored, late>>
    BY <1>0, WriteFacts
  <1>2. DeviceHistory(d)'
    <2>1. ClockedOK(d)'
      BY <1>0, <1>1, DeviceFacts DEF DeviceHistory, ClockedOK, Installing
    <2>2. KeptOK(d)' /\ OwnRowOK(d)'
      BY <1>0, <1>1 DEF DeviceHistory, KeptOK, Arrived, OwnRowOK, Installing
    <2>3. QueueOK(d)'
      BY <1>0, <1>1, DeviceFacts DEF DeviceHistory, ClockedOK, QueueOK, NotBefore
    <2>4. \A v \in Nat : v < clock /\ NewerThan(d, v) => NewerThan(d, v)'
      BY <1>1, DeviceFacts DEF NewerThan, NotBefore
    <2>5. OrderOK(d)'
      BY <1>0, <1>1, <2>3, <2>4, DeviceFacts DEF DeviceHistory, OrderOK, RowKept, LateKept
    <2>. QED  BY <2>1, <2>2, <2>5 DEF DeviceHistory
  <1>3. ASSUME NeverDeleted PROVE LevelOK(d)'
    <2>1. LevelOK(d) /\ Owing(d)' /\ (call[d] # Null => text'[d] # call[d].val)
      BY <1>0, <1>1, <1>3, DeviceFacts, NullAssumption DEF DeviceHistory, ClockedOK, Owing
    <2>. QED  BY <1>1, <2>1 DEF LevelOK, SightOK, UnderWayOK, Pushing, Installing
  <1>. QED  BY <1>1, <1>2, <1>3, DeviceFacts, SameRowHistory

LEMMA RemoveHistory ==
  ASSUME HistoryInv, VersionInv', NEW d \in Devices, Remove(d) PROVE HistoryInv'
  <1>0. TypeOK /\ DeviceHistory(d)
    BY DeviceFacts
  <1>1. /\ Others(d) /\ text'[d] = 0 /\ queued'[d] = 0 /\ clock' = clock + 1
        /\ UNCHANGED <<base, known, call, adopting, conflict, since, told, row, stored, late>>
    BY <1>0, RemoveFacts
  <1>2. DeviceHistory(d)'
    <2>1. ClockedOK(d)'
      BY <1>0, <1>1, DeviceFacts DEF DeviceHistory, ClockedOK, Installing
    <2>2. KeptOK(d)' /\ OwnRowOK(d)'
      BY <1>0, <1>1 DEF DeviceHistory, KeptOK, Arrived, OwnRowOK, Installing
    <2>3. QueueOK(d)' /\ \A v : NewerThan(d, v) => NewerThan(d, v)'
      BY <1>1 DEF QueueOK, NewerThan, NotBefore
    <2>. QED  BY <1>0, <1>1, <2>1, <2>2, <2>3 DEF DeviceHistory, OrderOK
  <1>3. ASSUME NeverDeleted PROVE LevelOK(d)'
    <2>1. LevelOK(d)
      BY <1>3, DeviceFacts
    <2>. QED  BY <1>1, <2>1 DEF LevelOK, SightOK, UnderWayOK, Pushing, Installing
  <1>. QED  BY <1>1, <1>2, <1>3, DeviceFacts, SameRowHistory

LEMMA TouchHistory ==
  ASSUME HistoryInv, VersionInv', NEW d \in Devices, Touch(d) PROVE HistoryInv'
  <1>0. TypeOK /\ DeviceHistory(d)
    BY DeviceFacts
  <1>1. /\ Others(d) /\ queued'[d] = text[d] /\ queued[d] # text[d]
        /\ UNCHANGED <<text, base, known, call, adopting, conflict, since, told, row, stored,
                       late, clock>>
    BY <1>0, TouchFacts
  <1>2. DeviceHistory(d)'
    <2>1. ClockedOK(d)' /\ KeptOK(d)' /\ OwnRowOK(d)'
      BY <1>0, <1>1 DEF DeviceHistory, ClockedOK, KeptOK, Arrived, OwnRowOK, Installing
    <2>2. QueueOK(d)'
      BY <1>0, <1>1, DeviceFacts DEF DeviceHistory, OrderOK, QueueOK, NotBefore
    <2>3. \A v : NewerThan(d, v) => NewerThan(d, v)'
      BY <1>1 DEF NewerThan, NotBefore
    <2>. QED  BY <1>0, <1>1, <2>1, <2>2, <2>3 DEF DeviceHistory, OrderOK
  <1>3. ASSUME NeverDeleted PROVE LevelOK(d)'
    <2>1. LevelOK(d)
      BY <1>3, DeviceFacts
    <2>. QED  BY <1>1, <2>1 DEF LevelOK, SightOK, UnderWayOK, InSight, Owing, Pushing, Installing
  <1>. QED  BY <1>1, <1>2, <1>3, DeviceFacts, SameRowHistory

-----------------------------------------------------------------------------
(* The push.                                                               *)

LEMMA StartHistory ==
  ASSUME HistoryInv, VersionInv', NEW d \in Devices, StartPush(d) PROVE HistoryInv'
  <1>0. TypeOK /\ DeviceHistory(d)
    BY DeviceFacts
  <1>1. /\ Others(d) /\ queued[d] # Null /\ call[d] = Null /\ adopting[d] = Null
        /\ queued'[d] = Null
        /\ UNCHANGED <<text, base, known, adopting, conflict, since, told, row, stored, late,
                       clock>>
    BY <1>0, StartFacts
  <1>2. CASE queued[d] = base[d] /\ call' = call
    <2>1. ClockedOK(d)' /\ KeptOK(d)' /\ OwnRowOK(d)'
      BY <1>0, <1>1, <1>2 DEF DeviceHistory, ClockedOK, KeptOK, Arrived, OwnRowOK, Installing
    <2>2. QueueOK(d)' /\ \A v : NewerThan(d, v) => NewerThan(d, v)'
      BY <1>1, <1>2 DEF QueueOK, NewerThan, NotBefore
    <2>3. ASSUME NeverDeleted PROVE LevelOK(d)'
      <3>1. LevelOK(d)
        BY <2>3, DeviceFacts
      <3>. QED  BY <1>1, <1>2, <3>1
           DEF LevelOK, SightOK, UnderWayOK, InSight, Owing, Pushing, Installing
    <2>. QED  BY <1>0, <1>1, <2>1, <2>2, <2>3, DeviceFacts, SameRowHistory
         DEF DeviceHistory, OrderOK
  <1>3. CASE /\ call'[d] # Null /\ call'[d].val = queued[d] /\ ~call'[d].blind /\ ~call'[d].old
             /\ \/ call'[d].phase = "ensure" /\ queued[d] \notin {0, base[d]}
                \/ /\ call'[d].phase = "sent" /\ queued[d] \notin {0, base[d]}
                   /\ known[d] # 0 /\ call'[d].ver = known[d] + 1
                \/ call'[d].phase = "delete" /\ queued[d] = 0
                \/ /\ call'[d].phase = "same"
                   /\ queued[d] = base[d] \/ (queued[d] = 0 /\ base[d] = Null)
    <2>1. ClockedOK(d)'
      BY <1>0, <1>1, <1>3 DEF DeviceHistory, ClockedOK, Installing
    <2>2. KeptOK(d)'
      BY <1>0, <1>1, <1>3 DEF DeviceHistory, KeptOK, Arrived, Installing
    <2>3. OwnRowOK(d)'
      BY <1>0, <1>1, <1>3 DEF DeviceHistory, OwnRowOK, Guarded
    <2>4. QueueOK(d)' /\ \A v : NewerThan(d, v) => NewerThan(d, v)'
      BY <1>0, <1>1, <1>3 DEF DeviceHistory, OrderOK, QueueOK, NewerThan, NotBefore
    <2>5. ASSUME NeverDeleted PROVE LevelOK(d)'
      <3>1. LevelOK(d) /\ QueueOK(d)
        BY <1>0, <2>5, DeviceFacts DEF DeviceHistory, OrderOK
      <3>2. SightOK(d)'
        BY <1>1, <1>3, <3>1
        DEF LevelOK, SightOK, QueueOK, InSight, Owing, Pushing, Silent
      <3>3. UnderWayOK(d)'
        BY <1>1, <1>3, <3>1 DEF LevelOK, UnderWayOK, QueueOK, Owing, Pushing, Silent, Installing
      <3>. QED  BY <3>2, <3>3 DEF LevelOK
    <2>. QED  BY <1>0, <1>1, <2>1, <2>2, <2>3, <2>4, <2>5, DeviceFacts, SameRowHistory
         DEF DeviceHistory, OrderOK
  <1>. QED  BY <1>0, <1>2, <1>3, StartFacts

LEMMA EnsureHistory ==
  ASSUME HistoryInv, VersionInv', NEW d \in Devices, ensureVersions(d) PROVE HistoryInv'
  <1>0. TypeOK /\ LocalOK(d) /\ DeviceHistory(d) /\ RowKept
    BY DeviceFacts
  <1>1. /\ Others(d) /\ call[d] # Null /\ call[d].phase = "ensure"
        /\ call'[d] # Null /\ call'[d].phase = "sent" /\ call'[d].val = call[d].val
        /\ call'[d].ver = captureVersions(0, row) + 1 /\ call'[d].old = call[d].old
        /\ known'[d] = IF call[d].old THEN known[d] ELSE captureVersions(0, row)
        /\ UNCHANGED <<text, base, queued, adopting, conflict, since, told, row, stored, late,
                       clock>>
    BY <1>0, EnsureFacts
  <1>2. row # Absent => captureVersions(0, row) = row.ver
    BY <1>0, NullAssumption DEF RowKept, captureVersions
  <1>3. row.by = d => row # Absent
    BY NullAssumption DEF Absent
  <1>4. ClockedOK(d)' /\ KeptOK(d)'
    BY <1>0, <1>1 DEF DeviceHistory, ClockedOK, KeptOK, Arrived, Installing
  <1>5. OwnRowOK(d)'
    BY <1>0, <1>1, <1>2, <1>3 DEF DeviceHistory, OwnRowOK, Guarded
  <1>6. QueueOK(d)' /\ \A v : NewerThan(d, v) => NewerThan(d, v)'
    BY <1>0, <1>1 DEF DeviceHistory, OrderOK, QueueOK, NewerThan, NotBefore
  <1>7. ASSUME NeverDeleted PROVE LevelOK(d)'
    <2>1. LevelOK(d)
      BY <1>7, DeviceFacts
    <2>2. SightOK(d)'
      BY <1>1, <2>1 DEF LevelOK, SightOK, InSight, Owing, Pushing, Silent
    <2>3. UnderWayOK(d)'
      BY <1>0, <1>1, <2>1 DEF LocalOK, LevelOK, UnderWayOK, Owing, Pushing, Silent, Installing
    <2>. QED  BY <2>2, <2>3 DEF LevelOK
  <1>. QED  BY <1>0, <1>1, <1>4, <1>5, <1>6, <1>7, DeviceFacts, SameRowHistory
       DEF DeviceHistory, OrderOK

LEMMA ReadsHistory ==
  ASSUME HistoryInv, VersionInv', NEW d \in Devices, ServerReads(d) PROVE HistoryInv'
  <1>0. TypeOK /\ DeviceHistory(d)
    BY DeviceFacts
  <1>1. /\ Others(d) /\ call[d] # Null /\ call[d].phase = "sent"
        /\ call'[d] # Null /\ call'[d].phase = "read" /\ call'[d].val = call[d].val
        /\ call'[d].ver = call[d].ver /\ call'[d].old = call[d].old
        /\ UNCHANGED <<text, base, queued, known, adopting, conflict, since, told, row, stored,
                       late, clock>>
    BY <1>0, ReadsFacts
  <1>2. ClockedOK(d)' /\ KeptOK(d)' /\ OwnRowOK(d)'
    BY <1>0, <1>1 DEF DeviceHistory, ClockedOK, KeptOK, Arrived, OwnRowOK, Guarded, Installing
  <1>3. QueueOK(d)' /\ \A v : NewerThan(d, v) => NewerThan(d, v)'
    BY <1>0, <1>1 DEF DeviceHistory, OrderOK, QueueOK, NewerThan, NotBefore
  <1>4. ASSUME NeverDeleted PROVE LevelOK(d)'
    <2>1. LevelOK(d)
      BY <1>4, DeviceFacts
    <2>. QED  BY <1>1, <2>1
         DEF LevelOK, SightOK, UnderWayOK, InSight, Owing, Pushing, Silent, Installing
  <1>. QED  BY <1>0, <1>1, <1>2, <1>3, <1>4, DeviceFacts, SameRowHistory
       DEF DeviceHistory, OrderOK

\* A refused write leaves the row alone; it is not refused for the device's own row.
LEMMA RefusedWriteHistory ==
  ASSUME HistoryInv, VersionInv', NEW d \in Devices, ServerWrites(d), row' = row,
         stored' = stored, ~enforce_sync_version(Request(d)), call'[d].phase = "stale"
  PROVE  HistoryInv'
  <1>0. TypeOK /\ DeviceHistory(d)
    BY DeviceFacts
  <1>1. /\ Others(d) /\ call[d] # Null /\ call[d].phase = "read"
        /\ call'[d] # Null /\ call'[d].val = call[d].val /\ call'[d].old = call[d].old
        /\ UNCHANGED <<text, base, queued, known, adopting, conflict, since, told, late, clock>>
    BY <1>0, WritesFacts
  <1>2. ~(row.by = d /\ ~row.late)
    BY <1>0, <1>1 DEF DeviceHistory, OwnRowOK, enforce_sync_version, Request
  <1>3. ClockedOK(d)' /\ KeptOK(d)' /\ OwnRowOK(d)'
    BY <1>0, <1>1, <1>2 DEF DeviceHistory, ClockedOK, KeptOK, Arrived, OwnRowOK, Installing
  <1>4. QueueOK(d)' /\ \A v : NewerThan(d, v) => NewerThan(d, v)'
    BY <1>0, <1>1 DEF DeviceHistory, OrderOK, QueueOK, NewerThan, NotBefore
  <1>5. ASSUME NeverDeleted PROVE LevelOK(d)'
    <2>1. LevelOK(d)
      BY <1>5, DeviceFacts
    <2>. QED  BY <1>1, <2>1
         DEF LevelOK, SightOK, UnderWayOK, InSight, Owing, Pushing, Silent, Installing
  <1>. QED  BY <1>0, <1>1, <1>3, <1>4, <1>5, DeviceFacts, SameRowHistory
       DEF DeviceHistory, OrderOK

\* A row that is replaced says nothing of the devices that did not write it: no version
\* they know, and no request on its way, reaches it.
LEMMA RowWritten ==
  ASSUME HistoryInv, VersionInv', NEW req \in Requests, NEW isLate \in BOOLEAN,
         req.val < clock, enforce_sync_version(req), StoreRow(req, isLate), late' \subseteq late,
         UNCHANGED <<text, base, queued, known, adopting, conflict, shown, since, told, clock>>
  PROVE  /\ RowKept' /\ LateKept' /\ (NeverDeleted' => NeverDeleted)
         /\ row'.val = req.val /\ row'.ver = req.ver /\ row'.by = req.by /\ row'.late = isLate
         /\ stored' = stored \cup {req.val}
         /\ NeverDeleted' => \A r \in late' : LateOrderOK(r)'
         /\ \A e \in Devices : NeverDeleted' => known'[e] # row'.ver
         /\ \A e \in Devices :
              call'[e] = call[e] /\ (req.by = e => isLate /\ NewerThan(e, req.val))
              => DeviceHistory(e)' /\ (NeverDeleted' => LevelOK(e)')
  <1>1. /\ row'.val = req.val /\ row'.ver = req.ver /\ row'.by = req.by /\ row'.late = isLate
        /\ stored' = stored \cup {req.val} /\ req.ver \in Nat
    BY DEF StoreRow, Requests
  <1>2. RowKept' /\ LateKept' /\ (NeverDeleted' => NeverDeleted)
    BY <1>1 DEF HistoryInv, RowKept, LateKept, NeverDeleted
  <1>3. ASSUME NeverDeleted'
        PROVE  /\ row'.ver = row.ver + 1 /\ \A r \in late' : LateOrderOK(r)'
               /\ \A e \in Devices : known'[e] # row'.ver
    <2>1. NeverDeleted /\ VersionInv /\ TypeOK /\ LateOK /\ row.ver \in Nat
      BY <1>2, <1>3 DEF HistoryInv, VersionInv, RowOK
    <2>2. row'.ver = row.ver + 1
      BY <2>1, RowAdvances DEF VersionInv
    <2>3. \A r \in late' : r.ver \in Nat /\ r.ver <= row.ver + 1
      BY <2>1 DEF LateOK, RequestOK, TypeOK, Requests
    <2>4. \A r \in late' : LateOrderOK(r)'
      BY <2>1, <2>2, <2>3 DEF LateOrderOK
    <2>5. \A e \in Devices : known'[e] # row'.ver
      <3>1. \A e \in Devices : KnownOK(e) /\ known[e] \in Nat
        BY <2>1 DEF VersionInv, DeviceOK, TypeOK
      <3>. QED  BY <2>1, <2>2, <3>1 DEF KnownOK
    <2>. QED  BY <2>2, <2>4, <2>5
  <1>4. ASSUME NEW e \in Devices, call'[e] = call[e],
               req.by = e => isLate /\ NewerThan(e, req.val)
        PROVE  DeviceHistory(e)' /\ (NeverDeleted' => LevelOK(e)')
    <2>1. DeviceHistory(e)
      BY DeviceFacts
    <2>2. ClockedOK(e)' /\ KeptOK(e)'
      BY <1>1, <1>4, <2>1 DEF DeviceHistory, ClockedOK, KeptOK, Arrived, Installing
    <2>3. OwnRowOK(e)'
      BY <1>1, <1>4 DEF OwnRowOK
    <2>4. QueueOK(e)' /\ \A v : NewerThan(e, v) => NewerThan(e, v)'
      BY <1>4, <2>1 DEF DeviceHistory, OrderOK, QueueOK, NewerThan, NotBefore
    <2>5. OrderOK(e)'
      BY <1>1, <1>4, <2>1, <2>4 DEF DeviceHistory, OrderOK
    <2>6. ASSUME NeverDeleted' PROVE LevelOK(e)'
      <3>1. LevelOK(e) /\ known'[e] # row'.ver
        BY <1>2, <1>3, <2>6, DeviceFacts
      <3>. QED  BY <1>4, <3>1 DEF LevelOK, SightOK, UnderWayOK, Owing, Pushing, Installing
    <2>. QED  BY <2>2, <2>3, <2>5, <2>6 DEF DeviceHistory
  <1>. QED  BY <1>1, <1>2, <1>3, <1>4

LEMMA AcceptedWriteHistory ==
  ASSUME HistoryInv, VersionInv', NEW d \in Devices, ServerWrites(d),
         enforce_sync_version(Request(d)), StoreRow(Request(d), call[d].old),
         call'[d].phase = "accepted"
  PROVE  HistoryInv'
  <1>0. TypeOK /\ DeviceHistory(d)
    BY DeviceFacts
  <1>1. /\ Others(d) /\ call[d] # Null /\ call[d].phase = "read"
        /\ call'[d] # Null /\ call'[d].val = call[d].val /\ call'[d].ver = call[d].ver
        /\ call'[d].old = call[d].old
        /\ UNCHANGED <<text, base, queued, known, adopting, conflict, shown, since, told, late,
                       clock>>
    BY <1>0, WritesFacts
  <1>2. /\ Request(d) \in Requests /\ Request(d).by = d /\ Request(d).val = call[d].val
        /\ Request(d).ver = call[d].ver /\ Request(d).val < clock /\ call[d].old \in BOOLEAN
        /\ call[d].val \in Nat
    BY <1>0, <1>1, RequestType, CallParts, DeviceFacts DEF Request, DeviceHistory, ClockedOK
  <1>3. /\ RowKept' /\ LateKept' /\ (NeverDeleted' => NeverDeleted)
        /\ row'.val = call[d].val /\ row'.ver = call[d].ver /\ row'.by = d
        /\ row'.late = call[d].old /\ stored' = stored \cup {call[d].val}
        /\ NeverDeleted' => \A r \in late' : LateOrderOK(r)'
        /\ NeverDeleted' => known'[d] # row'.ver
        /\ \A e \in Devices \ {d} : DeviceHistory(e)' /\ (NeverDeleted' => LevelOK(e)')
    <2>1. late' \subseteq late /\ \A e \in Devices \ {d} : call'[e] = call[e]
      BY <1>1 DEF Others
    <2>. QED  BY <1>1, <1>2, <2>1, RowWritten
  <1>4. DeviceHistory(d)'
    <2>1. ClockedOK(d)' /\ KeptOK(d)'
      BY <1>0, <1>1, <1>3 DEF DeviceHistory, ClockedOK, KeptOK, Arrived, Installing
    <2>2. OwnRowOK(d)'
      BY <1>1, <1>3 DEF OwnRowOK, Guarded
    <2>3. QueueOK(d)' /\ \A v : NewerThan(d, v) => NewerThan(d, v)'
      BY <1>0, <1>1 DEF DeviceHistory, OrderOK, QueueOK, NewerThan, NotBefore
    <2>4. NewerThan(d, call[d].val)
      BY <1>0, <1>1, <1>2, DeviceFacts DEF DeviceHistory, OrderOK, QueueOK, NewerThan, NotBefore
    <2>5. OrderOK(d)'
      BY <1>0, <1>1, <1>3, <2>3, <2>4 DEF DeviceHistory, OrderOK
    <2>. QED  BY <2>1, <2>2, <2>5 DEF DeviceHistory
  <1>5. ASSUME NeverDeleted' PROVE LevelOK(d)'
    <2>1. LevelOK(d) /\ known'[d] # row'.ver
      BY <1>3, <1>5, DeviceFacts
    <2>. QED  BY <1>1, <2>1 DEF LevelOK, SightOK, UnderWayOK, Owing, Pushing, Silent, Installing
  <1>. QED  BY <1>3, <1>4, <1>5 DEF HistoryInv

LEMMA WritesHistory ==
  ASSUME HistoryInv, VersionInv', NEW d \in Devices, ServerWrites(d) PROVE HistoryInv'
  BY DeviceFacts, WritesFacts, RefusedWriteHistory, AcceptedWriteHistory

LEMMA LateHistory ==
  ASSUME HistoryInv, VersionInv', LateWrite PROVE HistoryInv'
  <1>1. PICK req \in late :
          /\ late' = late \ {req}
          /\ IF enforce_sync_version(req) THEN StoreRow(req, TRUE)
                                          ELSE UNCHANGED <<row, stored>>
          /\ UNCHANGED <<deviceVars, clock>>
    BY DEF LateWrite
  <1>2. /\ UNCHANGED <<text, base, queued, known, call, adopting, conflict, shown, since, told,
                       clock>>
        /\ late' \subseteq late
    BY <1>1 DEF deviceVars, histories
  <1>3. CASE enforce_sync_version(req)
    <2>1. req \in Requests /\ req.val < clock /\ TRUE \in BOOLEAN
      BY <1>1 DEF HistoryInv, LateKept, VersionInv, TypeOK
    <2>2. \A e \in Devices : req.by = e => NewerThan(e, req.val)
      BY <1>1, DeviceFacts DEF DeviceHistory, OrderOK
    <2>3. StoreRow(req, TRUE)
      BY <1>1, <1>3
    <2>4. /\ RowKept' /\ LateKept' /\ (NeverDeleted' => \A r \in late' : LateOrderOK(r)')
          /\ \A e \in Devices : DeviceHistory(e)' /\ (NeverDeleted' => LevelOK(e)')
      BY <1>2, <1>3, <2>1, <2>2, <2>3, RowWritten
    <2>. QED  BY <2>4 DEF HistoryInv
  <1>4. CASE ~enforce_sync_version(req)
    <2>1. row' = row /\ stored' = stored
      BY <1>1, <1>4
    <2>2. RowKept' /\ LateKept' /\ NeverDeleted' = NeverDeleted
      BY <1>2, <2>1 DEF HistoryInv, RowKept, LateKept, NeverDeleted
    <2>3. ASSUME NEW e \in Devices
          PROVE  DeviceHistory(e)' /\ (NeverDeleted => LevelOK(e)')
      <3>1. DeviceHistory(e) /\ (NeverDeleted => LevelOK(e))
        BY DeviceFacts
      <3>2. ClockedOK(e)' /\ KeptOK(e)' /\ OwnRowOK(e)'
        BY <1>2, <2>1, <3>1 DEF DeviceHistory, ClockedOK, KeptOK, Arrived, OwnRowOK, Installing
      <3>3. OrderOK(e)'
        BY <1>2, <2>1, <3>1 DEF DeviceHistory, OrderOK, QueueOK, NewerThan, NotBefore
      <3>4. NeverDeleted => LevelOK(e)'
        BY <1>2, <2>1, <3>1
        DEF LevelOK, SightOK, UnderWayOK, InSight, Owing, Pushing, Installing
      <3>. QED  BY <3>2, <3>3, <3>4 DEF DeviceHistory
    <2>4. NeverDeleted => \A r \in late' : LateOrderOK(r)'
      BY <1>2, <2>1 DEF HistoryInv, LateOrderOK
    <2>. QED  BY <2>2, <2>3, <2>4 DEF HistoryInv
  <1>. QED  BY <1>3, <1>4

LEMMA DeleteHistory ==
  ASSUME HistoryInv, VersionInv', NEW d \in Devices, DeleteRow(d) PROVE HistoryInv'
  <1>0. TypeOK /\ RowKept /\ LateKept /\ clock \in Nat \ {0}
    BY DeviceFacts
  <1>1. /\ Others(d) /\ call[d] # Null /\ call[d].phase = "delete"
        /\ row' = Absent /\ stored' = stored \cup {0}
        /\ call'[d] # Null /\ call'[d].phase = "tomb" /\ call'[d].val = call[d].val
        /\ UNCHANGED <<text, base, queued, known, adopting, conflict, since, told, late, clock>>
    BY <1>0, DeleteFacts
  <1>2. RowKept' /\ LateKept' /\ ~NeverDeleted'
    BY <1>0, <1>1 DEF RowKept, LateKept, NeverDeleted, Absent
  <1>3. ASSUME NEW e \in Devices PROVE DeviceHistory(e)'
    <2>1. DeviceHistory(e) /\ row'.by # e
      BY <1>1, NullAssumption, DeviceFacts DEF Absent
    <2>2. /\ call[e] = Null => call'[e] = Null
          /\ call[e] # Null => /\ call'[e] # Null /\ call'[e].val = call[e].val
                               /\ call'[e].phase = call[e].phase \/ call'[e].phase = "tomb"
      BY <1>1 DEF Others
    <2>3. ClockedOK(e)'
      BY <1>1, <2>1, <2>2 DEF DeviceHistory, ClockedOK, Installing
    <2>4. KeptOK(e)'
      BY <1>1, <2>1, <2>2 DEF DeviceHistory, KeptOK, Arrived, Installing
    <2>5. OwnRowOK(e)' /\ OrderOK(e)'
      BY <1>1, <2>1, <2>2
      DEF DeviceHistory, OwnRowOK, OrderOK, QueueOK, NewerThan, NotBefore
    <2>. QED  BY <2>3, <2>4, <2>5 DEF DeviceHistory
  <1>. QED  BY <1>2, <1>3 DEF HistoryInv

-----------------------------------------------------------------------------
(* The answer, or none.                                                    *)

\* What the end of a flush leaves of the order of the texts, whatever the answer.
LEMMA EndedOrder ==
  ASSUME HistoryInv, NEW d \in Devices, call[d] # Null, call'[d] = Null,
         queued'[d] = queued[d] \/ (queued[d] = Null /\ queued'[d] = call[d].val),
         UNCHANGED <<text, since, row, clock>>
  PROVE  /\ QueueOK(d)' /\ \A v : NewerThan(d, v) => NewerThan(d, v)'
         /\ \A v \in {call[d].val} : NewerThan(d, v)'
         /\ queued'[d] # Null => queued'[d] < clock
         /\ Owing(d) => queued'[d] = text[d]
  <1>1. /\ QueueOK(d) /\ call[d].val \in Nat /\ call[d].val < clock /\ text[d] # Null
        /\ queued[d] # Null => queued[d] < clock
    BY DeviceFacts, NullAssumption DEF DeviceHistory, OrderOK, ClockedOK
  <1>2. text[d] \in {0, call[d].val, queued[d]} \/ call[d].val < since[d]
    BY <1>1 DEF QueueOK
  <1>3. QueueOK(d)'
    BY <1>1, <1>2 DEF QueueOK
  <1>4. \A v : NewerThan(d, v) => NewerThan(d, v)'
    BY DEF NewerThan, NotBefore
  <1>5. \A v \in {call[d].val} : NewerThan(d, v)'
    BY <1>1, <1>2 DEF QueueOK, NewerThan, NotBefore
  <1>6. Owing(d) => queued'[d] = text[d]
    BY <1>1 DEF Owing
  <1>. QED  BY <1>1, <1>3, <1>4, <1>5, <1>6

\* Own texts keep their order when a flush ends.
LEMMA AnswerOrder ==
  ASSUME HistoryInv, NEW d \in Devices,
         Accepted(d) \/ Refused(d) \/ SamePushed(d) \/ writeTombstones(d)
  PROVE  /\ Others(d) /\ call[d] # Null /\ call'[d] = Null /\ base'[d] \in {base[d], call[d].val}
         /\ UNCHANGED <<text, adopting, since, row, stored, late, clock>>
         /\ ClockedOK(d)' /\ OrderOK(d)'
         /\ Owing(d) => queued'[d] = text[d]
  <1>1. TypeOK /\ DeviceHistory(d)
    BY DeviceFacts
  <1>2. /\ Others(d) /\ call[d] # Null /\ call'[d] = Null /\ base'[d] \in {base[d], call[d].val}
        /\ queued'[d] = queued[d] \/ (queued[d] = Null /\ queued'[d] = call[d].val)
        /\ UNCHANGED <<text, adopting, since, row, stored, late, clock>>
    BY <1>1, AnswerFacts
  <1>3. /\ QueueOK(d)' /\ \A v : NewerThan(d, v) => NewerThan(d, v)'
        /\ queued'[d] # Null => queued'[d] < clock
        /\ Owing(d) => queued'[d] = text[d]
    BY <1>2, EndedOrder
  <1>4. ClockedOK(d)'
    BY <1>1, <1>2, <1>3 DEF DeviceHistory, ClockedOK, Installing
  <1>5. OrderOK(d)'
    BY <1>1, <1>2, <1>3 DEF DeviceHistory, OrderOK
  <1>. QED  BY <1>2, <1>3, <1>4, <1>5

\* Once a flush has ended nothing is under way but the adoption.
LEMMA AnswerUnderWay ==
  ASSUME HistoryInv, NeverDeleted, NEW d \in Devices, call[d] # Null, call'[d] = Null,
         call[d].old => known'[d] \in {known[d], 0},
         UNCHANGED <<adopting, row>>
  PROVE  UnderWayOK(d)'
  <1>1. UnderWayOK(d) /\ LocalOK(d) /\ row.ver # 0
    BY DeviceFacts DEF LevelOK
  <1>2. Installing(d) => known'[d] \in {known[d], 0}
    BY <1>1 DEF LocalOK, Installing
  <1>. QED  BY <1>1, <1>2 DEF UnderWayOK, Pushing, Installing

\* A push that outlived its adapter has settled nothing.
LEMMA OldSight ==
  ASSUME HistoryInv, NeverDeleted, NEW d \in Devices, call[d] # Null, call[d].old,
         call'[d] = Null, base'[d] \in {base[d], call[d].val}, known'[d] \in {known[d], 0},
         Owing(d) => queued'[d] = text[d], UNCHANGED <<text, adopting, row>>
  PROVE  SightOK(d)'
  <1>1. SightOK(d) /\ row.ver # 0
    BY DeviceFacts DEF LevelOK
  <1>. QED  BY <1>1 DEF SightOK, InSight, Owing

LEMMA AcceptedHistory ==
  ASSUME HistoryInv, VersionInv', NEW d \in Devices, Accepted(d) PROVE HistoryInv'
  <1>0. TypeOK /\ DeviceHistory(d)
    BY DeviceFacts
  <1>1. /\ Others(d) /\ call[d] # Null /\ call'[d] = Null /\ base'[d] \in {base[d], call[d].val}
        /\ UNCHANGED <<text, adopting, since, row, stored, late, clock>>
        /\ ClockedOK(d)' /\ OrderOK(d)' /\ (Owing(d) => queued'[d] = text[d])
    BY AnswerOrder
  <1>2. /\ call[d].phase = "accepted" /\ UNCHANGED <<conflict, told>>
        /\ known'[d] = IF call[d].old THEN known[d] ELSE call[d].ver
    <2>1. call[d].phase = "accepted" /\ ~Refused(d)
      BY DEF Accepted, Refused
    <2>. QED  BY <1>0, <2>1, AnswerFacts
  <1>3. KeptOK(d)'
    BY <1>0, <1>1, <1>2 DEF DeviceHistory, KeptOK, Arrived, Installing
  <1>4. OwnRowOK(d)'
    BY <1>0, <1>1, <1>2 DEF DeviceHistory, OwnRowOK
  <1>5. ASSUME NeverDeleted PROVE LevelOK(d)'
    <2>1. UnderWayOK(d)'
      BY <1>1, <1>2, <1>5, AnswerUnderWay
    <2>2. CASE call[d].old
      BY <1>1, <1>2, <1>5, <2>1, <2>2, OldSight DEF LevelOK
    <2>3. CASE ~call[d].old
      <3>1. LevelOK(d) /\ AnswerOK(d)
        BY <1>5, DeviceFacts DEF DeviceOK
      <3>2. known'[d] = row.ver => row.val = call[d].val /\ row.by = d
        BY <1>1, <1>2, <2>3, <3>1 DEF AnswerOK
      <3>3. text[d] \in {0, call[d].val} \/ call[d].val < since[d] \/ Owing(d)
        BY <1>1, <1>2, <2>3, <3>1 DEF LevelOK, UnderWayOK, Pushing, Silent
      <3>4. SightOK(d)'
        BY <1>1, <1>2, <3>2, <3>3 DEF SightOK, InSight, Owing
      <3>. QED  BY <2>1, <3>4 DEF LevelOK
    <2>. QED  BY <2>2, <2>3
  <1>. QED  BY <1>1, <1>3, <1>4, <1>5, DeviceFacts, SameRowHistory DEF DeviceHistory

LEMMA RefusedHistory ==
  ASSUME HistoryInv, VersionInv', NEW d \in Devices, Refused(d) PROVE HistoryInv'
  <1>0. TypeOK /\ DeviceHistory(d)
    BY DeviceFacts
  <1>1. /\ Others(d) /\ call[d] # Null /\ call'[d] = Null /\ base'[d] \in {base[d], call[d].val}
        /\ UNCHANGED <<text, adopting, since, row, stored, late, clock>>
        /\ ClockedOK(d)' /\ OrderOK(d)' /\ (Owing(d) => queued'[d] = text[d])
    BY AnswerOrder
  <1>2. /\ call[d].phase = "stale" /\ conflict'[d] # Null
        /\ conflict'[d] = [local |-> call[d].val, remote |-> call[d].cur.val]
        /\ told'[d] = told[d] \cup {call[d].val}
        /\ known'[d] = IF call[d].old THEN known[d]
                       ELSE captureVersions(known[d], call[d].cur)
    <2>1. call[d].phase = "stale" /\ ~Accepted(d)
      BY DEF Accepted, Refused
    <2>. QED  BY <1>0, <2>1, AnswerFacts
  <1>3. KeptOK(d)'
    BY <1>0, <1>1, <1>2 DEF DeviceHistory, KeptOK, Arrived, Installing
  <1>4. OwnRowOK(d)'
    BY <1>0, <1>1, <1>2 DEF DeviceHistory, OwnRowOK
  <1>5. ASSUME NeverDeleted PROVE LevelOK(d)'
    <2>1. UnderWayOK(d)'
      BY <1>1, <1>2, <1>5, AnswerUnderWay
    <2>2. CASE call[d].old
      BY <1>1, <1>2, <1>5, <2>1, <2>2, OldSight DEF LevelOK
    <2>3. CASE ~call[d].old
      <3>1. AnswerOK(d)
        BY <1>5, DeviceFacts DEF DeviceOK
      <3>2. known'[d] = call[d].cur.ver
        BY <1>1, <1>2, <2>3, <3>1, NullAssumption DEF AnswerOK, captureVersions
      <3>3. known'[d] = row.ver => conflict'[d].remote = row.val
        BY <1>1, <1>2, <3>1, <3>2 DEF AnswerOK
      <3>4. SightOK(d)'
        BY <1>1, <1>2, <3>3 DEF SightOK, InSight
      <3>. QED  BY <2>1, <3>4 DEF LevelOK
    <2>. QED  BY <2>2, <2>3
  <1>. QED  BY <1>1, <1>3, <1>4, <1>5, DeviceFacts, SameRowHistory DEF DeviceHistory

LEMMA SameHistory ==
  ASSUME HistoryInv, VersionInv', NEW d \in Devices, SamePushed(d) \/ writeTombstones(d)
  PROVE  HistoryInv'
  <1>0. TypeOK /\ LocalOK(d) /\ DeviceHistory(d)
    BY DeviceFacts
  <1>1. /\ Others(d) /\ call[d] # Null /\ call'[d] = Null /\ base'[d] \in {base[d], call[d].val}
        /\ UNCHANGED <<text, adopting, since, row, stored, late, clock>>
        /\ ClockedOK(d)' /\ OrderOK(d)' /\ (Owing(d) => queued'[d] = text[d])
    BY AnswerOrder
  <1>2. call[d].phase \in {"same", "tomb"} /\ UNCHANGED <<known, conflict, told>>
    <2>1. ~Accepted(d) /\ ~Refused(d)
      BY DEF Accepted, Refused, SamePushed, writeTombstones
    <2>. QED  BY <1>0, <2>1, AnswerFacts
  <1>3. KeptOK(d)'
    BY <1>0, <1>1, <1>2 DEF LocalOK, DeviceHistory, KeptOK, Arrived, Installing
  <1>4. OwnRowOK(d)'
    BY <1>0, <1>1, <1>2 DEF DeviceHistory, OwnRowOK, Guarded
  <1>5. ASSUME NeverDeleted PROVE LevelOK(d)'
    <2>0. LevelOK(d)
      BY <1>5, DeviceFacts
    <2>1. UnderWayOK(d)'
      BY <1>1, <1>2, <1>5, AnswerUnderWay
    <2>2. CASE call[d].old
      BY <1>1, <1>2, <1>5, <2>1, <2>2, OldSight DEF LevelOK
    <2>3. CASE ~call[d].old
      <3>1. call[d].val = base[d] \/ (call[d].val = 0 /\ base[d] = Null)
        BY <1>1, <1>2, <2>0, <2>3 DEF LevelOK, UnderWayOK
      <3>2. SightOK(d)'
        BY <1>1, <1>2, <2>0, <3>1 DEF LevelOK, SightOK, InSight, Owing, Pushing, Silent
      <3>. QED  BY <2>1, <3>2 DEF LevelOK
    <2>. QED  BY <2>2, <2>3
  <1>. QED  BY <1>1, <1>3, <1>4, <1>5, DeviceFacts, SameRowHistory DEF DeviceHistory

\* What the device stops waiting for comes after its own text in the row.
LEMMA AbandonedOrder ==
  ASSUME HistoryInv, TypeOK', NEW d \in Devices, call[d] # Null, Abandon(d)
  PROVE  /\ late' \subseteq Requests
         /\ \A req \in late' : req \in late \/ (GivenUp(d, req) /\ req.val = call[d].val)
  <1>1. /\ LocalOK(d) /\ call[d].val \in Nat /\ call[d].val < clock /\ row.val \in Nat
        /\ row.by = d => NewerThan(d, row.val)
    BY DeviceFacts DEF DeviceHistory, ClockedOK, OrderOK
  <1>2. call[d].phase \in {"sent", "read"} => GivenUp(d, Request(d))
    <2>. SUFFICES ASSUME call[d].phase \in {"sent", "read"} PROVE GivenUp(d, Request(d))
      OBVIOUS
    <2>1. call[d].val \notin {0, Null}
      BY <1>1, NullAssumption DEF LocalOK, Silent
    <2>. QED  BY <1>1, <2>1 DEF GivenUp, Request, LateOrderOK, NewerThan, NotBefore
  <1>. QED  BY <1>2 DEF Abandon, Request, TypeOK

LEMMA LoseHistory ==
  ASSUME HistoryInv, VersionInv', NEW d \in Devices, LoseCall(d) PROVE HistoryInv'
  <1>0. TypeOK /\ TypeOK' /\ LocalOK(d) /\ DeviceHistory(d)
    BY DeviceFacts DEF VersionInv
  <1>1. /\ Others(d) /\ call[d] # Null /\ call'[d] = Null /\ Abandon(d)
        /\ queued'[d] = IF queued[d] = Null THEN call[d].val ELSE queued[d]
        /\ \/ /\ known'[d] = known[d]
              /\ call[d].old \/ call[d].phase \in {"delete", "tomb", "same"}
           \/ known'[d] = 0
        /\ UNCHANGED <<text, base, adopting, conflict, since, told, row, stored, clock>>
    BY <1>0, LoseFacts, LoseOthers
  <1>2. queued'[d] = queued[d] \/ (queued[d] = Null /\ queued'[d] = call[d].val)
    BY <1>1
  <1>3. /\ QueueOK(d)' /\ \A v : NewerThan(d, v) => NewerThan(d, v)'
        /\ (\A v \in {call[d].val} : NewerThan(d, v)') /\ (queued'[d] # Null => queued'[d] < clock)
        /\ Owing(d) => queued'[d] = text[d]
    BY <1>1, <1>2, EndedOrder
  <1>4. /\ late' \subseteq Requests
        /\ \A req \in late' : req \in late \/ (GivenUp(d, req) /\ req.val = call[d].val)
    BY <1>0, <1>1, AbandonedOrder
  <1>5. ClockedOK(d)' /\ KeptOK(d)' /\ OwnRowOK(d)'
    BY <1>0, <1>1, <1>3
    DEF DeviceHistory, ClockedOK, KeptOK, Arrived, OwnRowOK, Guarded, Installing
  <1>6. OrderOK(d)'
    BY <1>0, <1>1, <1>3, <1>4 DEF DeviceHistory, OrderOK
  <1>7. ASSUME NeverDeleted PROVE LevelOK(d)'
    <2>0. LevelOK(d) /\ row.ver # 0
      BY <1>7, DeviceFacts
    <2>1. UnderWayOK(d)'
      BY <1>1, <1>7, AnswerUnderWay
    <2>2. SightOK(d)'
      BY <1>1, <1>3, <2>0 DEF LevelOK, SightOK, InSight, Owing, Pushing, Silent
    <2>. QED  BY <2>1, <2>2 DEF LevelOK
  <1>. QED  BY <1>1, <1>4, <1>5, <1>6, <1>7, DeviceFacts, SameRowHistory DEF DeviceHistory

-----------------------------------------------------------------------------
(* Sessions.                                                               *)

LEMMA SessionHistory ==
  ASSUME HistoryInv, VersionInv', NEW d \in Devices, Reload(d) \/ Refresh(d)
  PROVE  HistoryInv'
  <1>0. TypeOK /\ TypeOK' /\ DeviceHistory(d)
    BY DeviceFacts DEF VersionInv
  <1>1. /\ Others(d) /\ adopting'[d] = [phase |-> "load"] /\ adopting'[d] # Null
        /\ known'[d] = 0
        /\ UNCHANGED <<text, conflict, shown, since, told, row, stored, clock>>
    BY <1>0, SessionFacts
  <1>2. ~Installing(d)'
    BY <1>1 DEF Installing
  <1>3. CASE /\ call'[d] = Null /\ queued'[d] = Null /\ base'[d] = Null
             /\ late' = late \/ (call[d] # Null /\ Abandon(d))
    <2>1. /\ late' \subseteq Requests
          /\ \A req \in late' : \/ req \in late
                                \/ /\ call[d] # Null /\ GivenUp(d, req)
                                   /\ req.val = call[d].val
      BY <1>0, <1>3, AbandonedOrder DEF TypeOK
    <2>2. ClockedOK(d)' /\ KeptOK(d)' /\ OwnRowOK(d)'
      BY <1>0, <1>1, <1>2, <1>3 DEF DeviceHistory, ClockedOK, KeptOK, Arrived, OwnRowOK
    <2>3. \A v : NewerThan(d, v) => NewerThan(d, v)'
      BY <1>1, <1>3 DEF NewerThan, NotBefore
    <2>4. call[d] # Null => \A v \in {call[d].val} : NewerThan(d, v)'
      BY <1>0, <1>1, <1>3, DeviceFacts DEF DeviceHistory, OrderOK, QueueOK, NewerThan, NotBefore
    <2>5. QueueOK(d)'
      BY <1>3 DEF QueueOK
    <2>6. OrderOK(d)'
      BY <1>0, <1>1, <2>1, <2>3, <2>4, <2>5 DEF DeviceHistory, OrderOK
    <2>7. LevelOK(d)'
      BY <1>1, <1>2, <1>3 DEF LevelOK, SightOK, UnderWayOK, Pushing
    <2>. QED  BY <1>1, <2>1, <2>2, <2>6, <2>7, DeviceFacts, SameRowHistory DEF DeviceHistory
  <1>4. CASE /\ UNCHANGED <<base, queued, late>>
             /\ \/ call[d] = Null /\ call'[d] = Null
                \/ /\ call[d] # Null /\ call'[d] # Null /\ call'[d].old
                   /\ call'[d].phase = call[d].phase /\ call'[d].val = call[d].val
                   /\ call'[d].ver = call[d].ver
    <2>1. ClockedOK(d)' /\ KeptOK(d)' /\ OwnRowOK(d)'
      BY <1>0, <1>1, <1>2, <1>4 DEF DeviceHistory, ClockedOK, KeptOK, Arrived, OwnRowOK
    <2>2. QueueOK(d)' /\ \A v : NewerThan(d, v) => NewerThan(d, v)'
      BY <1>0, <1>1, <1>4 DEF DeviceHistory, OrderOK, QueueOK, NewerThan, NotBefore
    <2>3. OrderOK(d)'
      BY <1>0, <1>1, <1>4, <2>2 DEF DeviceHistory, OrderOK
    <2>4. ASSUME NeverDeleted PROVE LevelOK(d)'
      <3>1. UnderWayOK(d)
        BY <2>4, DeviceFacts DEF LevelOK
      <3>. QED  BY <1>1, <1>2, <1>4, <3>1 DEF LevelOK, SightOK, UnderWayOK, Pushing
    <2>. QED  BY <1>1, <1>4, <2>1, <2>3, <2>4, DeviceFacts, SameRowHistory DEF DeviceHistory
  <1>. QED  BY <1>0, <1>3, <1>4, SessionFacts

LEMMA LoadHistory ==
  ASSUME HistoryInv, VersionInv', NEW d \in Devices, Load(d) \/ LoadFails(d)
  PROVE  HistoryInv'
  <1>0. TypeOK /\ LocalOK(d) /\ DeviceHistory(d) /\ RowKept
    BY DeviceFacts
  <1>1. /\ Others(d) /\ adopting[d] # Null /\ adopting[d].phase = "load" /\ known[d] = 0
        /\ UNCHANGED <<text, base, queued, call, conflict, since, told, row, stored, late, clock>>
    BY <1>0, LoadFacts DEF LocalOK
  <1>2. OrderOK(d)'
    BY <1>0, <1>1 DEF DeviceHistory, OrderOK, QueueOK, NewerThan, NotBefore
  <1>3. CASE adopting'[d] = Null /\ known' = known
    <2>1. ClockedOK(d)' /\ KeptOK(d)' /\ OwnRowOK(d)'
      BY <1>0, <1>1, <1>3 DEF DeviceHistory, ClockedOK, KeptOK, Arrived, OwnRowOK, Installing
    <2>2. ASSUME NeverDeleted PROVE LevelOK(d)'
      <3>1. UnderWayOK(d) /\ row.ver # 0 /\ LocalOK(d)
        BY <2>2, DeviceFacts DEF LevelOK
      <3>. QED  BY <1>1, <1>3, <3>1
           DEF LocalOK, LevelOK, SightOK, UnderWayOK, Owing, Pushing, Installing
    <2>. QED  BY <1>1, <1>2, <2>1, <2>2, DeviceFacts, SameRowHistory DEF DeviceHistory
  <1>4. ASSUME NEW r \in {row, Absent}, adopting'[d] # Null, adopting'[d].phase = "install",
               adopting'[d].val = r.val, known'[d] = captureVersions(known[d], r)
        PROVE  HistoryInv'
    <2>1. /\ r.val \in stored \cup {0} /\ r.val < clock
          /\ known'[d] = 0 \/ (r = row /\ known'[d] = row.ver)
      <3>1. Absent.val = 0 /\ Absent.ver = Null
        BY DEF Absent
      <3>. QED  BY <1>0, <1>1, <1>4, <3>1, DeviceFacts DEF RowKept, captureVersions
    <2>2. ClockedOK(d)' /\ KeptOK(d)'
      BY <1>0, <1>1, <1>4, <2>1 DEF DeviceHistory, ClockedOK, KeptOK, Arrived, Installing
    <2>3. OwnRowOK(d)'
      BY <1>0, <1>1, <2>1 DEF DeviceHistory, OwnRowOK
    <2>4. ASSUME NeverDeleted PROVE LevelOK(d)'
      <3>1. UnderWayOK(d) /\ row.ver # 0 /\ row.val # 0 /\ LocalOK(d)
        BY <2>4, DeviceFacts DEF LevelOK
      <3>2. adopting'[d].val = 0 => known'[d] = 0
        BY <1>4, <2>1, <3>1
      <3>. QED  BY <1>1, <1>4, <2>1, <3>1, <3>2
           DEF LocalOK, LevelOK, SightOK, UnderWayOK, Owing, Pushing, Installing
    <2>. QED  BY <1>1, <1>2, <2>2, <2>3, <2>4, DeviceFacts, SameRowHistory DEF DeviceHistory
  <1>. QED  BY <1>0, <1>3, <1>4, LoadFacts

\* What an adoption takes off the screen it leaves behind: nothing written so far comes
\* after it.
LEMMA InstallHistory ==
  ASSUME HistoryInv, VersionInv', NEW d \in Devices, Install(d) PROVE HistoryInv'
  <1>0. TypeOK /\ LocalOK(d) /\ DeviceHistory(d) /\ RowKept /\ LateKept
    BY DeviceFacts
  <1>1. /\ Others(d) /\ Installing(d) /\ adopting'[d] = Null /\ ~Installing(d)'
        /\ text'[d] = adopting[d].val \/ (adopting[d].val = 0 /\ text'[d] = text[d])
        /\ base'[d] = adopting[d].val
        /\ queued'[d] = text'[d] \/ (text'[d] = base'[d] /\ queued'[d] = queued[d])
        /\ \/ text'[d] = text[d] /\ since'[d] = since[d]
           \/ text'[d] # text[d] /\ since'[d] = clock
        /\ UNCHANGED <<known, call, conflict, told, row, stored, late, clock>>
    BY <1>0, InstallFacts DEF Installing
  <1>2. ClockedOK(d)'
    BY <1>0, <1>1, DeviceFacts DEF DeviceHistory, ClockedOK
  <1>3. KeptOK(d)' /\ OwnRowOK(d)'
    BY <1>0, <1>1 DEF DeviceHistory, KeptOK, Arrived, OwnRowOK
  <1>4. OrderOK(d)'
    <2>1. CASE text'[d] # text[d]
      <3>1. QueueOK(d)'
        BY <1>0, <1>1, <2>1 DEF DeviceHistory, ClockedOK, QueueOK, NotBefore
      <3>2. \A v \in Nat : v < clock => NewerThan(d, v)'
        BY <1>1, <2>1 DEF NewerThan, NotBefore
      <3>. QED  BY <1>0, <1>1, <3>1, <3>2, DeviceFacts DEF OrderOK, RowKept, LateKept
    <2>2. CASE text'[d] = text[d]
      <3>1. since'[d] = since[d] /\ QueueOK(d)
        BY <1>0, <1>1, <2>2 DEF DeviceHistory, OrderOK
      <3>2. QueueOK(d)'
        BY <1>0, <1>1, <2>2, <3>1, DeviceFacts DEF DeviceHistory, OrderOK, QueueOK, NotBefore
      <3>3. \A v : NewerThan(d, v) => NewerThan(d, v)'
        BY <1>1, <2>2, <3>1 DEF NewerThan, NotBefore
      <3>. QED  BY <1>0, <1>1, <3>2, <3>3 DEF DeviceHistory, OrderOK
    <2>. QED  BY <2>1, <2>2
  <1>5. ASSUME NeverDeleted PROVE LevelOK(d)'
    <2>1. LevelOK(d) /\ row.ver # 0
      BY <1>5, DeviceFacts
    <2>2. known[d] = row.ver => adopting[d].val = row.val /\ adopting[d].val # 0
      BY <1>1, <2>1 DEF LevelOK, UnderWayOK
    <2>3. call[d] # Null => call[d].old
      BY <1>0, <1>1 DEF LocalOK, Installing
    <2>4. SightOK(d)'
      BY <1>1, <2>2 DEF SightOK, InSight
    <2>5. UnderWayOK(d)'
      BY <1>1, <2>1, <2>3 DEF LevelOK, UnderWayOK, Pushing
    <2>. QED  BY <2>4, <2>5 DEF LevelOK
  <1>6. since'[d] >= since[d]
    BY <1>0, <1>1, DeviceFacts DEF DeviceHistory, ClockedOK
  <1>. QED  BY <1>1, <1>2, <1>3, <1>4, <1>5, <1>6, DeviceFacts, SameRowHistory
       DEF DeviceHistory

LEMMA HistoryStep == HistoryInv /\ [Next]_vars => HistoryInv'
  <1>. SUFFICES ASSUME HistoryInv, [Next]_vars PROVE HistoryInv'
    OBVIOUS
  <1>0. VersionInv'
    BY VersionStep DEF HistoryInv
  <1>1. CASE UNCHANGED vars
    <2>1. UNCHANGED <<text, base, queued, known, call, adopting, conflict, since, told, row,
                      stored, late, clock>>
      BY <1>1 DEF vars, deviceVars, accountVars, histories
    <2>2. RowKept' /\ LateKept' /\ NeverDeleted' = NeverDeleted
          /\ (NeverDeleted => \A r \in late' : LateOrderOK(r)')
      BY <2>1 DEF HistoryInv, RowKept, LateKept, NeverDeleted, LateOrderOK
    <2>3. ASSUME NEW e \in Devices
          PROVE  DeviceHistory(e)' /\ (NeverDeleted => LevelOK(e)')
      <3>1. DeviceHistory(e) /\ (NeverDeleted => LevelOK(e))
        BY DeviceFacts
      <3>2. DeviceHistory(e)'
        BY <2>1, <3>1 DEF DeviceHistory, ClockedOK, KeptOK, Arrived, OwnRowOK, OrderOK,
                          QueueOK, NewerThan, NotBefore, Installing
      <3>3. NeverDeleted => LevelOK(e)'
        BY <2>1, <3>1
        DEF LevelOK, SightOK, UnderWayOK, InSight, Owing, Pushing, Installing
      <3>. QED  BY <3>2, <3>3
    <2>. QED  BY <1>0, <2>2, <2>3 DEF HistoryInv
  <1>2. ASSUME NEW d \in Devices, DeviceStep(d) PROVE HistoryInv'
    BY <1>0, <1>2, WriteHistory, RemoveHistory, TouchHistory, StartHistory, EnsureHistory,
       ReadsHistory, WritesHistory, AcceptedHistory, RefusedHistory, SameHistory, LoseHistory,
       DeleteHistory, SessionHistory, LoadHistory, InstallHistory DEF DeviceStep
  <1>. QED  BY <1>0, <1>1, <1>2, LateHistory DEF Next

-----------------------------------------------------------------------------
(* What follows.                                                           *)

\* For any devices and whatever fails: what a device knows, has queued, has in the air and
\* has shown fits what the row has held.
THEOREM HistoryTells == Spec => []HistoryInv
  BY HistoryInit, HistoryStep, PTL DEF Spec

\* For any devices, sessions and failures, whatever is written while an account is loaded
\* and whatever outlives its adapter: a device level with the row has the row's text in
\* sight, or the row holds a text of its own that an adoption took off its screen.
THEOREM LevelCorrect == Spec => []LevelOrTold
  <1>1. HistoryInv => LevelOrTold
    <2>. SUFFICES ASSUME HistoryInv, NEW d \in Devices, text[d] # 0, call[d] = Null,
                         adopting[d] = Null, queued[d] = Null, NeverDeleted,
                         known[d] = row.ver
                  PROVE  InSight(d)
      BY DEF LevelOrTold, InSight
    <2>1. SightOK(d) /\ text[d] # Null
      BY DeviceFacts, NullAssumption DEF LevelOK
    <2>. QED  BY <2>1 DEF SightOK, Owing, Pushing
  <1>. QED  BY <1>1, HistoryTells, PTL

LEMMA StepOthers ==
  ASSUME TypeOK, NEW d \in Devices, DeviceStep(d) PROVE Others(d)
  <1>1. CASE Edit(d) \/ Resolve(d) \/ Remove(d) \/ Touch(d)
    BY <1>1, WriteFacts, RemoveFacts, TouchFacts
  <1>2. CASE StartPush(d) \/ ensureVersions(d) \/ ServerReads(d) \/ ServerWrites(d)
    BY <1>2, StartFacts, EnsureFacts, ReadsFacts, WritesFacts
  <1>3. CASE Accepted(d) \/ Refused(d) \/ SamePushed(d) \/ writeTombstones(d) \/ LoseCall(d)
    BY <1>3, AnswerFacts, LoseOthers
  <1>4. CASE DeleteRow(d) \/ Reload(d) \/ Refresh(d) \/ Load(d) \/ LoadFails(d) \/ Install(d)
    BY <1>4, DeleteFacts, SessionFacts, LoadFacts, InstallFacts
  <1>. QED  BY <1>1, <1>2, <1>3, <1>4 DEF DeviceStep

LEMMA RefusedStep ==
  ASSUME HistoryInv, [Next]_vars, NEW d \in Devices, call[d] # Null, call[d].phase = "read",
         call'[d] # Null, call'[d].phase = "stale"
  PROVE  row.by # d \/ row.late
  <1>0. TypeOK /\ OwnRowOK(d)
    BY DeviceFacts DEF DeviceHistory
  <1>1. CASE call' = call
    BY <1>1
  <1>2. ASSUME NEW e \in Devices, DeviceStep(e), e # d PROVE FALSE
    <2>1. call'[d] = call[d]
      BY <1>0, <1>2, StepOthers DEF Others
    <2>. QED  BY <2>1
  <1>3. CASE DeviceStep(d)
    <2>1. ServerWrites(d)
      BY <1>0, <1>3, WriteFacts, RemoveFacts, TouchFacts, StartFacts, EnsureFacts, ReadsFacts,
         AnswerFacts, LoseFacts, DeleteFacts, SessionFacts, LoadFacts, InstallFacts
      DEF DeviceStep
    <2>2. ~enforce_sync_version(Request(d))
      BY <1>0, <2>1, WritesFacts
    <2>. QED  BY <1>0, <2>2 DEF OwnRowOK, enforce_sync_version, Request
  <1>. QED  BY <1>1, <1>2, <1>3 DEF Next, LateWrite, vars, deviceVars

\* For any devices, sessions and failures: no device is refused on account of a push of its
\* own that it had not given up, on an adapter that had not been replaced.
THEOREM NoSelfRefusalCorrect == Spec => NoSelfRefusal
  <1>1. HistoryInv /\ [Next]_vars =>
          [\A d \in Devices : call[d] # Null /\ call[d].phase = "read" /\ call'[d] # Null
                              /\ call'[d].phase = "stale" => row.by # d \/ row.late]_vars
    BY RefusedStep
  <1>. QED  BY <1>1, HistoryTells, PTL DEF Spec, NoSelfRefusal

\* A device that replaces its own text in the row puts no older one there.
LEMMA OrderStep ==
  ASSUME HistoryInv, [Next]_vars, NeverDeleted, row.by # Null, row'.by = row.by
  PROVE  row'.val >= row.val \/ row.val < since[row.by]
  <1>0. TypeOK /\ row.by \in Devices /\ row.val \in Nat /\ row # Absent
    <2>1. TypeOK
      BY DEF HistoryInv, VersionInv
    <2>. QED  BY <2>1 DEF TypeOK, Rows, Texts, Absent
  <1>1. CASE row' = row
    BY <1>0, <1>1
  <1>2. CASE LateWrite
    <2>1. PICK req \in late :
            IF enforce_sync_version(req) THEN StoreRow(req, TRUE) ELSE UNCHANGED <<row, stored>>
      BY <1>2 DEF LateWrite
    <2>2. CASE enforce_sync_version(req)
      <3>1. row'.val = req.val /\ req.by = row.by /\ req.ver = row.ver + 1 /\ LateOrderOK(req)
        <4>1. StoreRow(req, TRUE) /\ LateOrderOK(req)
          BY <2>1, <2>2 DEF HistoryInv
        <4>2. row'.val = req.val /\ row'.by = req.by
          BY <4>1 DEF StoreRow
        <4>. QED  BY <1>0, <2>2, <4>1, <4>2 DEF enforce_sync_version
      <3>. QED  BY <1>0, <3>1 DEF LateOrderOK
    <2>3. ~enforce_sync_version(req) => row' = row
      BY <2>1
    <2>. QED  BY <1>1, <2>2, <2>3
  <1>3. ASSUME NEW d \in Devices, ServerWrites(d), row' # row
        PROVE  row'.val >= row.val \/ row.val < since[row.by]
    <2>1. call[d] # Null /\ call[d].phase = "read" /\ StoreRow(Request(d), call[d].old)
      BY <1>0, <1>3, WritesFacts
    <2>2. row'.val = call[d].val /\ row.by = d
      BY <2>1 DEF StoreRow, Request
    <2>3. NotBefore(d, call[d].val, row.val) /\ call[d].val # 0 /\ call[d].val \in Nat
      BY <2>1, <2>2, DeviceFacts DEF DeviceHistory, OrderOK, NewerThan, LocalOK, Silent
    <2>. QED  BY <2>2, <2>3, NullAssumption DEF NotBefore
  <1>4. ASSUME NEW d \in Devices, DeleteRow(d) PROVE FALSE
    BY <1>0, <1>4, DeleteFacts DEF Absent
  <1>. QED  BY <1>0, <1>1, <1>2, <1>3, <1>4, WhoChanges DEF Next, vars, accountVars

\* For any devices, sessions and failures: what a device pushes, pushes again, left in its
\* queue or gave up long ago never replaces a newer text of its own, but one an adoption has
\* taken off its screen.
THEOREM OwnOrderCorrect == Spec => OwnWritesInOrder
  <1>1. HistoryInv /\ [Next]_vars =>
          [NeverDeleted /\ row.by # Null /\ row'.by = row.by =>
             row'.val >= row.val \/ row.val < since[row.by]]_vars
    BY OrderStep
  <1>. QED  BY <1>1, HistoryTells, PTL DEF Spec, OwnWritesInOrder

-----------------------------------------------------------------------------
(* GuardedPush implements SharedText.                                      *)

\* What a step of device d changes of what SharedText speaks of, it changes for d alone.
LEMMA OnlyHere ==
  ASSUME TypeOK, TypeOK', NEW d \in Devices, Others(d)
  PROVE  /\ base' = [base EXCEPT ![d] = base'[d]] /\ since' = [since EXCEPT ![d] = since'[d]]
         /\ told' = [told EXCEPT ![d] = told'[d]]
         /\ Notice' = [Notice EXCEPT ![d] = Notice'[d]]
         /\ shown[d] \subseteq shown'[d] => Shared!Sees(d)
         /\ base'[d] = base[d] => base' = base
         /\ since'[d] = since[d] => since' = since
         /\ told'[d] = told[d] => told' = told
         /\ conflict'[d] = conflict[d] => Notice' = Notice
  <1>1. /\ base' = [base EXCEPT ![d] = base'[d]] /\ since' = [since EXCEPT ![d] = since'[d]]
        /\ told' = [told EXCEPT ![d] = told'[d]] /\ shown' = [shown EXCEPT ![d] = shown'[d]]
        /\ base'[d] = base[d] => base' = base
        /\ since'[d] = since[d] => since' = since
        /\ told'[d] = told[d] => told' = told
    BY DEF TypeOK, Others
  <1>2. \A e \in Devices \ {d} : Notice'[e] = Notice[e]
    BY DEF Others, Notice
  <1>3. /\ Notice \in [Devices -> {Notice[e] : e \in Devices}]
        /\ Notice' = [e \in Devices |-> Notice'[e]]
    BY DEF Notice
  <1>4. Notice' = [Notice EXCEPT ![d] = Notice'[d]]
    BY <1>2, <1>3
  <1>5. conflict'[d] = conflict[d] => Notice' = Notice
    <2>1. conflict'[d] = conflict[d] => Notice'[d] = Notice[d]
      BY DEF Notice
    <2>. QED  BY <1>2, <1>3, <2>1
  <1>. QED  BY <1>1, <1>4, <1>5 DEF Shared!Sees

LEMMA SharedInit == Init => Shared!Init
  BY DEF Init, Shared!Init, Notice

\* The person at a device: what is shown grows, and a notice may be dealt with.
LEMMA PersonLooks ==
  ASSUME TypeOK, TypeOK', NEW d \in Devices, Edit(d) \/ Resolve(d) \/ Remove(d) \/ Touch(d)
  PROVE  Shared!Look(d)
  <1>1. Others(d) /\ shown[d] \subseteq shown'[d] /\ UNCHANGED <<base, since, told, row, stored>>
    BY WriteFacts, RemoveFacts, TouchFacts
  <1>2. conflict'[d] = conflict[d] \/ conflict'[d] = Null
    BY DEF Edit, Resolve, Remove, Touch, TypeOK
  <1>3. Notice' = Notice \/ Notice' = [Notice EXCEPT ![d] = Null]
    <2>1. conflict'[d] = Null => Notice'[d] = Null
      BY DEF Notice
    <2>. QED  BY <1>1, <1>2, <2>1, OnlyHere
  <1>4. Shared!Sees(d)
    BY <1>1, OnlyHere
  <1>. QED  BY <1>1, <1>3, <1>4 DEF Shared!Look, Shared!account

\* A version accepted for a row replaces it, and its author has seen what is replaced.
LEMMA RowReplaced ==
  ASSUME HistoryInv, [Next]_vars, NEW req \in Requests, NEW isLate \in BOOLEAN,
         enforce_sync_version(req), StoreRow(req, isLate),
         UNCHANGED <<shown, base, conflict, since, told>>
  PROVE  Shared!Replace(req.by)
  <1>1. /\ row' = [val |-> req.val, ver |-> req.ver, by |-> req.by, late |-> isLate,
                   blind |-> req.blind]
        /\ stored' = stored \cup {req.val} /\ req.by \in Devices
        /\ req.val \in Nat /\ req.ver \in Nat /\ req.blind \in BOOLEAN
    BY DEF StoreRow, Requests, Texts
  <1>2. ASSUME ~row'.blind, NeverDeleted PROVE Shared!Knows(req.by)
    <2>1. VersionInv /\ RowKept /\ row # Absent
      BY <1>2 DEF HistoryInv, RowKept, NeverDeleted, Absent
    <2>2. row'.by = req.by /\ row' # row
      BY <1>1, <2>1 DEF RowKept, enforce_sync_version
    <2>3. row.val \in shown[req.by]
      BY <1>1, <1>2, <2>1, <2>2, UnseenStep
    <2>4. row.by = req.by => row'.val >= row.val \/ row.val < since[req.by]
      BY <1>1, <1>2, <2>2, OrderStep, NullAssumption
    <2>. QED  BY <2>3, <2>4 DEF Shared!Knows
  <1>3. Notice' = Notice
    BY DEF Notice
  <1>4. row'.val = req.val /\ row'.by = req.by /\ row'.blind = req.blind
    BY <1>1
  <1>5. stored' = stored \cup {row'.val}
    BY <1>1, <1>4
  <1>6. ~row'.blind => Shared!Knows(req.by) \/ Shared!Deleted
    BY <1>2 DEF NeverDeleted, Shared!Deleted
  <1>. QED  BY <1>1, <1>3, <1>4, <1>5, <1>6 DEF Shared!Replace

\* What reaches the account: a request its device had given up, a push, a deletion.
LEMMA LateShares ==
  ASSUME HistoryInv, LateWrite
  PROVE  [Shared!Next]_(Shared!vars)
  <1>1. PICK req \in late :
          IF enforce_sync_version(req) THEN StoreRow(req, TRUE) ELSE UNCHANGED <<row, stored>>
    BY DEF LateWrite
  <1>2. req \in Requests /\ req.by \in Devices /\ [Next]_vars
    BY DEF HistoryInv, VersionInv, TypeOK, Requests, Next
  <1>3. UNCHANGED <<shown, base, conflict, since, told>>
    BY DEF LateWrite, deviceVars, histories
  <1>4. CASE enforce_sync_version(req)
    <2>1. Shared!Replace(req.by)
      BY <1>1, <1>2, <1>3, <1>4, RowReplaced
    <2>. QED  BY <1>2, <2>1 DEF Shared!Next
  <1>5. CASE ~enforce_sync_version(req)
    <2>1. UNCHANGED <<row, stored>>
      BY <1>1, <1>5
    <2>2. Notice' = Notice
      BY <1>3 DEF Notice
    <2>. QED  BY <1>3, <2>1, <2>2 DEF Shared!vars, Shared!account
  <1>. QED  BY <1>4, <1>5

LEMMA ServerShares ==
  ASSUME HistoryInv, NEW d \in Devices, ServerWrites(d)
  PROVE  [Shared!Next]_(Shared!vars)
  <1>0. TypeOK /\ [Next]_vars
    BY DEF HistoryInv, VersionInv, Next, DeviceStep
  <1>1. UNCHANGED <<shown, base, conflict, since, told>> /\ call[d] # Null
    BY <1>0, WritesFacts
  <1>2. CASE enforce_sync_version(Request(d)) /\ StoreRow(Request(d), call[d].old)
    <2>1. Request(d) \in Requests /\ Request(d).by = d /\ call[d].old \in BOOLEAN
      BY <1>0, <1>1, RequestType, CallParts DEF Request
    <2>2. Shared!Replace(d)
      BY <1>0, <1>1, <1>2, <2>1, RowReplaced
    <2>. QED  BY <2>2 DEF Shared!Next
  <1>3. CASE UNCHANGED <<row, stored>>
    <2>1. Notice' = Notice
      BY <1>1 DEF Notice
    <2>. QED  BY <1>1, <1>3, <2>1 DEF Shared!vars, Shared!account
  <1>. QED  BY <1>0, <1>2, <1>3, WritesFacts

LEMMA DeleteShares ==
  ASSUME HistoryInv, NEW d \in Devices, DeleteRow(d)
  PROVE  Shared!Delete
  <1>1. UNCHANGED <<shown, base, conflict, since, told>>
    BY DEF DeleteRow, histories
  <1>2. row'.val = 0 /\ row'.by = Null /\ row'.blind = FALSE /\ stored' = stored \cup {0}
    BY DEF DeleteRow, Absent
  <1>3. Notice' = Notice
    BY <1>1 DEF Notice
  <1>. QED  BY <1>1, <1>2, <1>3 DEF Shared!Delete

\* What a device takes to have arrived, once a flush has ended or a page is new: a text the
\* account had, or handed back, or none.
LEMMA Settles ==
  ASSUME HistoryInv, TypeOK', NEW d \in Devices,
         Accepted(d) \/ SamePushed(d) \/ writeTombstones(d) \/ Reload(d)
  PROVE  Shared!Settle(d)
  <1>0. TypeOK /\ LocalOK(d) /\ KeptOK(d)
    BY DeviceFacts DEF DeviceHistory
  <1>1. /\ Others(d) /\ UNCHANGED <<row, stored>>
        /\ shown'[d] = shown[d] /\ since'[d] = since[d] /\ told'[d] = told[d]
        /\ conflict'[d] = conflict[d] /\ base'[d] \in Arrived(d)
    <2>1. CASE Reload(d)
      <3>1. base'[d] = Null
        BY <1>0, <2>1 DEF Reload, TypeOK
      <3>. QED  BY <1>0, <2>1, <3>1, SessionFacts DEF Arrived
    <2>2. CASE Accepted(d) \/ SamePushed(d) \/ writeTombstones(d)
      <3>1. ~Refused(d)
        BY <2>2 DEF Accepted, SamePushed, writeTombstones, Refused
      <3>2. call[d].phase \in {"accepted", "same", "tomb"} /\ call[d] # Null
        BY <2>2 DEF Accepted, SamePushed, writeTombstones
      <3>3. call[d].val \in Arrived(d)
        BY <1>0, <3>2 DEF KeptOK, LocalOK, Arrived
      <3>4. /\ Others(d) /\ UNCHANGED <<row, stored, since>>
            /\ base'[d] \in {base[d], call[d].val} /\ UNCHANGED <<conflict, shown, told>>
        BY <1>0, <2>2, <3>1, AnswerFacts
      <3>. QED  BY <1>0, <3>3, <3>4 DEF KeptOK
    <2>. QED  BY <2>1, <2>2
  <1>2. /\ base' = [base EXCEPT ![d] = base'[d]] /\ since' = since /\ told' = told
        /\ Notice' = Notice /\ Shared!Sees(d)
    BY <1>0, <1>1, OnlyHere
  <1>. QED  BY <1>1, <1>2 DEF Arrived, Shared!Settle, Shared!account

\* An adoption puts the account's text in the place of the device's.
LEMMA InstallShares ==
  ASSUME HistoryInv, TypeOK', NEW d \in Devices, Install(d)
  PROVE  Shared!TakeOver(d)
  <1>0. TypeOK /\ KeptOK(d) /\ ClockedOK(d) /\ since[d] \in Nat /\ clock \in Nat
    BY DeviceFacts DEF DeviceHistory
  <1>1. /\ Others(d) /\ UNCHANGED <<row, stored, conflict, told>>
        /\ base'[d] = adopting[d].val /\ Installing(d) /\ shown[d] \subseteq shown'[d]
        /\ since'[d] \in {since[d], clock}
    BY <1>0, InstallFacts DEF Installing
  <1>2. base'[d] \in stored \cup {0} /\ since'[d] \in Nat /\ since'[d] >= since[d]
    BY <1>0, <1>1 DEF KeptOK, ClockedOK
  <1>3. /\ base' = [base EXCEPT ![d] = base'[d]] /\ since' = [since EXCEPT ![d] = since'[d]]
        /\ Notice' = Notice /\ Shared!Sees(d)
    BY <1>0, <1>1, OnlyHere
  <1>. QED  BY <1>1, <1>2, <1>3 DEF Shared!TakeOver, Shared!account

\* A refusal hands the refused text back.
LEMMA RefusalShares ==
  ASSUME HistoryInv, TypeOK', NEW d \in Devices, Refused(d)
  PROVE  Shared!HandBack(d)
  <1>0. TypeOK /\ call[d] # Null
    BY DeviceFacts DEF Refused
  <1>1. /\ Others(d) /\ UNCHANGED <<row, stored, since>> /\ base'[d] \in {base[d], call[d].val}
        /\ conflict'[d] # Null /\ conflict'[d].local = call[d].val
        /\ told'[d] = told[d] \cup {call[d].val} /\ shown[d] \subseteq shown'[d]
    <2>1. ~Accepted(d) /\ call[d].phase = "stale"
      BY DEF Accepted, Refused
    <2>2. /\ Others(d) /\ UNCHANGED <<row, stored, since>> /\ base'[d] \in {base[d], call[d].val}
          /\ conflict'[d] # Null
          /\ conflict'[d] = [local |-> call[d].val, remote |-> call[d].cur.val]
          /\ shown'[d] = shown[d] \cup {call[d].cur.val}
          /\ told'[d] = told[d] \cup {call[d].val}
      BY <1>0, <2>1, AnswerFacts
    <2>. QED  BY <2>2
  <1>2. Notice'[d] = call[d].val /\ call[d].val # Null
    <2>1. call[d].val \in Nat
      BY <1>0, CallParts DEF Texts
    <2>. QED  BY <1>1, <2>1, NullAssumption DEF Notice
  <1>3. /\ base' = [base EXCEPT ![d] = base'[d]] /\ (base'[d] = base[d] => base' = base)
        /\ told' = [told EXCEPT ![d] = told'[d]] /\ Notice' = [Notice EXCEPT ![d] = Notice'[d]]
        /\ Shared!Sees(d)
    BY <1>0, <1>1, OnlyHere
  <1>4. told' = [told EXCEPT ![d] = @ \cup {Notice'[d]}]
    BY <1>1, <1>2, <1>3
  <1>5. base' = [base EXCEPT ![d] = Notice'[d]] \/ base' = base
    BY <1>1, <1>2, <1>3
  <1>. QED  BY <1>1, <1>2, <1>3, <1>4, <1>5 DEF Shared!HandBack, Shared!account

\* What says nothing to anybody.
LEMMA SilentShares ==
  ASSUME TypeOK, NEW d \in Devices,
         \/ StartPush(d) \/ ensureVersions(d) \/ ServerReads(d) \/ LoseCall(d)
         \/ Refresh(d) \/ Load(d) \/ LoadFails(d)
  PROVE  UNCHANGED Shared!vars
  <1>1. UNCHANGED <<row, stored, conflict, shown, base, since, told>>
    <2>1. CASE Refresh(d)
      BY <2>1 DEF Refresh, accountVars, histories
    <2>. QED  BY <2>1, StartFacts, EnsureFacts, ReadsFacts, LoseFacts, LoadFacts
  <1>2. Notice' = Notice
    BY <1>1 DEF Notice
  <1>. QED  BY <1>1, <1>2 DEF Shared!vars, Shared!account

LEMMA SharedStep == HistoryInv /\ [Next]_vars => [Shared!Next]_(Shared!vars)
  <1>. SUFFICES ASSUME HistoryInv, [Next]_vars PROVE [Shared!Next]_(Shared!vars)
    OBVIOUS
  <1>0. TypeOK /\ TypeOK'
    BY TypeStep DEF HistoryInv, VersionInv
  <1>1. CASE UNCHANGED vars
    <2>1. UNCHANGED <<row, stored, conflict, shown, base, since, told>>
      BY <1>1 DEF vars, deviceVars, accountVars, histories
    <2>2. Notice' = Notice
      BY <2>1 DEF Notice
    <2>. QED  BY <2>1, <2>2 DEF Shared!vars, Shared!account
  <1>2. CASE LateWrite
    BY <1>2, LateShares
  <1>3. ASSUME NEW d \in Devices, DeviceStep(d) PROVE [Shared!Next]_(Shared!vars)
    <2>1. CASE Edit(d) \/ Resolve(d) \/ Remove(d) \/ Touch(d)
      BY <1>0, <2>1, PersonLooks DEF Shared!Next
    <2>2. CASE ServerWrites(d)
      BY <2>2, ServerShares
    <2>3. CASE DeleteRow(d)
      BY <2>3, DeleteShares DEF Shared!Next
    <2>4. CASE Accepted(d) \/ SamePushed(d) \/ writeTombstones(d) \/ Reload(d)
      BY <1>0, <2>4, Settles DEF Shared!Next
    <2>5. CASE Refused(d)
      BY <1>0, <2>5, RefusalShares DEF Shared!Next
    <2>6. CASE Install(d)
      BY <1>0, <2>6, InstallShares DEF Shared!Next
    <2>7. CASE \/ StartPush(d) \/ ensureVersions(d) \/ ServerReads(d) \/ LoseCall(d)
               \/ Refresh(d) \/ Load(d) \/ LoadFails(d)
      BY <1>0, <2>7, SilentShares
    <2>. QED  BY <1>3, <2>1, <2>2, <2>3, <2>4, <2>5, <2>6, <2>7 DEF DeviceStep
  <1>. QED  BY <1>1, <1>2, <1>3 DEF Next

\* For any devices, bounds, sessions and failures the version protocol implements
\* SharedText: its versions, requests, answers, retries, stale snapshots and replaced
\* adapters add up to a text that is replaced knowingly only by who has seen it, and to
\* writers who are told what became of theirs.
THEOREM SharesText == Spec => IsSharedText
  <1>1. HistoryInv /\ [Next]_vars => [Shared!Next]_(Shared!vars)
    BY SharedStep
  <1>. QED  BY <1>1, SharedInit, HistoryTells, PTL DEF Spec, IsSharedText, Shared!Spec

-----------------------------------------------------------------------------
(* What the guard is for, where nothing is forgotten.                      *)

\* A device that pushes knows a version, and it came with a text.
InformedOK(d) ==
  /\ text[d] # 0 /\ queued[d] # 0
  /\ adopting[d] = Null \/ Installing(d) => known[d] # 0
  /\ Installing(d) => adopting[d].val # 0
  /\ call[d] # Null =>
       /\ call[d].phase \in Guarded \cup {"same"} /\ ~call[d].blind /\ call[d].val # 0
       /\ call[d].phase \in Guarded => call[d].ver # 0

InformedInv ==
  /\ VersionInv /\ NeverDeleted /\ ~row.blind /\ row.val # 0
  /\ \A req \in late : ~req.blind /\ req.val # 0
  /\ \A d \in Devices : InformedOK(d)

LEMMA InformedInit == Init => InformedInv
  <1>. SUFFICES ASSUME Init PROVE InformedInv
    OBVIOUS
  <1>1. /\ NeverDeleted /\ row.val = 1 /\ ~row.blind /\ late = {}
        /\ \A d \in Devices : /\ text[d] = 1 /\ queued[d] = Null /\ adopting[d] = Null
                              /\ call[d] = Null /\ known[d] = 1
    BY DEF Init, NeverDeleted
  <1>2. Null # 0
    BY NullAssumption
  <1>. QED  BY <1>1, <1>2, VersionInit DEF InformedInv, InformedOK, Installing

\* Nothing but a deletion could put 0 on the account, and none is made.
LEMMA InformedRow ==
  ASSUME InformedInv, NEW req \in Requests, NEW isLate \in BOOLEAN, StoreRow(req, isLate),
         ~req.blind, req.val # 0
  PROVE  NeverDeleted' /\ ~row'.blind /\ row'.val # 0
  BY DEF InformedInv, NeverDeleted, StoreRow

\* A step of one device that leaves the row alone has to be checked for that device.
LEMMA InformedDevice ==
  ASSUME InformedInv, [Next]_vars, NEW d \in Devices, Others(d), UNCHANGED <<row, stored>>,
         \A req \in late' : req \in late \/ (~req.blind /\ req.val # 0), InformedOK(d)'
  PROVE  InformedInv'
  <1>1. VersionInv'
    BY VersionStep DEF InformedInv
  <1>2. NeverDeleted' /\ ~row'.blind /\ row'.val # 0
    BY DEF InformedInv, NeverDeleted
  <1>3. \A req \in late' : ~req.blind /\ req.val # 0
    BY DEF InformedInv
  <1>4. ASSUME NEW e \in Devices PROVE InformedOK(e)'
    BY DEF InformedInv, InformedOK, Installing, Others
  <1>. QED  BY <1>1, <1>2, <1>3, <1>4 DEF InformedInv

\* A push that starts knowing a version sends it.
LEMMA StartKnown ==
  ASSUME TypeOK, NEW d \in Devices, StartPush(d), known[d] # 0
  PROVE  call'[d] = Null \/ call'[d].phase # "ensure"
  <1>1. "sent" \in Phases /\ "delete" \in Phases /\ "same" \in Phases /\ known[d] + 1 \in Nat
        /\ 0 \in Nat /\ queued[d] # Null /\ call[d] = Null
    BY DEF TypeOK, Phases, StartPush
  <1>2. \/ Begin(d, "sent", known[d] + 1) \/ Begin(d, "delete", 0) \/ Begin(d, "same", 0)
        \/ call' = call
    BY DEF StartPush
  <1>. QED  BY <1>1, <1>2, BeginFacts

\* What a refusal teaches is a version.
LEMMA RefusedLearns ==
  ASSUME TypeOK, NEW d \in Devices, DeviceOK(d), Refused(d)
  PROVE  known'[d] = known[d] \/ known'[d] # 0
  <1>1. call[d] # Null /\ call[d].phase = "stale"
    BY DEF Refused
  <1>2. call[d].cur.ver \in Nat \ {0}
    BY <1>1 DEF DeviceOK, AnswerOK
  <1>3. known'[d] = known[d] \/ known'[d] = captureVersions(known[d], call[d].cur)
    BY <1>1, AnswerFacts
  <1>. QED  BY <1>2, <1>3, NullAssumption DEF captureVersions

LEMMA InformedDeviceStep ==
  ASSUME NothingForgets, InformedInv, [Next]_vars, NEW d \in Devices, DeviceStep(d)
  PROVE  InformedInv'
  <1>0. /\ TypeOK /\ InformedOK(d) /\ DeviceOK(d) /\ LocalOK(d) /\ RowOK
        /\ NeverDeleted /\ row.val # 0 /\ Null # 0
    BY NullAssumption DEF InformedInv, VersionInv
  <1>1. ASSUME NEW kind \in {"net", "load", "read"}, Fault(kind) PROVE FALSE
    BY <1>1 DEF NothingForgets, Fault
  <1>2. CASE Edit(d) \/ Resolve(d)
    BY <1>0, <1>2, WriteFacts, InformedDevice DEF InformedOK, Installing
  <1>3. CASE Touch(d)
    BY <1>0, <1>3, TouchFacts, InformedDevice DEF InformedOK, Installing
  <1>4. CASE StartPush(d)
    <2>1. InformedOK(d)'
      <3>1. known[d] + 1 # 0 /\ "delete" \notin Guarded
        BY <1>0 DEF TypeOK, Guarded
      <3>2. CASE queued[d] = base[d] /\ call' = call
        BY <1>0, <1>4, <3>2, StartFacts DEF InformedOK, Installing
      <3>3. CASE ~(queued[d] = base[d] /\ call' = call)
        <4>1. /\ call'[d] # Null /\ call'[d].val # 0 /\ ~call'[d].blind
              /\ \/ call'[d].phase = "sent" /\ call'[d].ver = known[d] + 1
                 \/ call'[d].phase = "same"
          BY <1>0, <1>4, <3>3, StartFacts, StartKnown DEF InformedOK
        <4>. QED  BY <1>0, <1>4, <3>1, <4>1, StartFacts DEF InformedOK, Installing, Guarded
      <3>. QED  BY <3>2, <3>3
    <2>. QED  BY <1>0, <1>4, <2>1, StartFacts, InformedDevice
  <1>5. CASE ServerReads(d)
    <2>1. InformedOK(d)'
      BY <1>0, <1>5, ReadsFacts DEF InformedOK, Installing, Guarded
    <2>. QED  BY <1>0, <1>5, <2>1, ReadsFacts, InformedDevice
  <1>6. CASE ServerWrites(d)
    <2>1. InformedOK(d)'
      BY <1>0, <1>6, WritesFacts DEF InformedOK, Installing, Guarded
    <2>2. CASE UNCHANGED <<row, stored>>
      BY <1>0, <1>6, <2>1, <2>2, WritesFacts, InformedDevice
    <2>3. CASE StoreRow(Request(d), call[d].old)
      <3>1. /\ Request(d) \in Requests /\ call[d].old \in BOOLEAN
            /\ ~Request(d).blind /\ Request(d).val # 0
        BY <1>0, <1>6, WritesFacts, RequestType, CallParts DEF Request, InformedOK
      <3>2. NeverDeleted' /\ ~row'.blind /\ row'.val # 0
        BY <2>3, <3>1, InformedRow
      <3>3. \A e \in Devices : InformedOK(e)'
        BY <1>0, <1>6, <2>1, WritesFacts DEF InformedInv, InformedOK, Installing, Others
      <3>. QED  BY <1>0, <1>6, <3>2, <3>3, WritesFacts, VersionStep DEF InformedInv
    <2>. QED  BY <1>0, <1>6, <2>2, <2>3, WritesFacts
  <1>7. CASE Accepted(d) \/ Refused(d) \/ SamePushed(d)
    <2>1. /\ Others(d) /\ call[d] # Null /\ call'[d] = Null
          /\ queued'[d] = queued[d] \/ queued'[d] = call[d].val
          /\ UNCHANGED <<text, adopting, row, stored, late>>
      BY <1>0, <1>7, AnswerFacts
    <2>2. known'[d] = known[d] \/ known'[d] # 0
      <3>1. CASE Accepted(d)
        <4>1. call[d] # Null /\ call[d].phase = "accepted"
          BY <3>1 DEF Accepted
        <4>2. call[d].ver # 0
          BY <1>0, <4>1 DEF InformedOK, Guarded
        <4>3. known'[d] = known[d] \/ known'[d] = call[d].ver
          BY <1>0, <3>1, <4>1, AnswerFacts
        <4>. QED  BY <4>2, <4>3
      <3>2. CASE Refused(d)
        BY <1>0, <3>2, RefusedLearns
      <3>3. CASE SamePushed(d)
        BY <3>3 DEF SamePushed
      <3>. QED  BY <1>7, <3>1, <3>2, <3>3
    <2>3. InformedOK(d)'
      BY <1>0, <2>1, <2>2 DEF InformedOK, Installing
    <2>. QED  BY <2>1, <2>3, InformedDevice
  <1>8. CASE Reload(d) \/ Refresh(d)
    <2>1. ~Installing(d)' /\ adopting'[d] # Null
      BY <1>0, <1>8, SessionFacts DEF Installing
    <2>2. InformedOK(d)'
      BY <1>0, <1>8, <2>1, SessionFacts DEF InformedOK
    <2>3. \A req \in late' : req \in late \/ (~req.blind /\ req.val # 0)
      BY <1>0, <1>8, SessionFacts DEF Abandon, Request, InformedOK
    <2>. QED  BY <1>0, <1>8, <2>2, <2>3, SessionFacts, InformedDevice
  <1>9. CASE Load(d)
    <2>1. Loaded(d, row)
      BY <1>1, <1>9 DEF Load
    <2>2. /\ adopting'[d] = [phase |-> "install", val |-> row.val]
          /\ known'[d] = captureVersions(known[d], row)
      BY <1>0, <2>1 DEF Loaded, TypeOK
    <2>3. known'[d] # 0 /\ adopting'[d].val = row.val
      BY <1>0, <2>2, NullAssumption DEF captureVersions, RowOK
    <2>4. InformedOK(d)'
      BY <1>0, <1>9, <2>3, LoadFacts DEF InformedOK, Installing
    <2>. QED  BY <1>0, <1>9, <2>4, LoadFacts, InformedDevice
  <1>10. CASE Install(d)
    <2>1. InformedOK(d)'
      BY <1>0, <1>10, InstallFacts DEF InformedOK, Installing
    <2>. QED  BY <1>0, <1>10, <2>1, InstallFacts, InformedDevice
  <1>11. ~LoseCall(d) /\ ~LoadFails(d) /\ ~Remove(d)
    BY <1>1 DEF LoseCall, LoadFails, Remove, NothingForgets
  <1>12. ~ensureVersions(d) /\ ~DeleteRow(d) /\ ~writeTombstones(d)
    BY <1>0 DEF ensureVersions, DeleteRow, writeTombstones, InformedOK, Guarded
  <1>. QED  BY <1>2, <1>3, <1>4, <1>5, <1>6, <1>7, <1>8, <1>9, <1>10, <1>11, <1>12
            DEF DeviceStep

LEMMA InformedStep ==
  ASSUME NothingForgets, InformedInv, [Next]_vars
  PROVE  InformedInv'
  <1>1. VersionInv' /\ TypeOK
    BY VersionStep DEF InformedInv, VersionInv
  <1>2. CASE UNCHANGED vars
    BY <1>1, <1>2 DEF InformedInv, InformedOK, Installing, NeverDeleted, vars, deviceVars,
       accountVars
  <1>3. CASE LateWrite
    <2>1. PICK req \in late :
            IF enforce_sync_version(req) THEN StoreRow(req, TRUE) ELSE UNCHANGED <<row, stored>>
      BY <1>3 DEF LateWrite
    <2>2. req \in Requests /\ ~req.blind /\ req.val # 0
      BY <1>1 DEF InformedInv, TypeOK
    <2>3. NeverDeleted' /\ ~row'.blind /\ row'.val # 0
      BY <2>1, <2>2, InformedRow DEF InformedInv, NeverDeleted
    <2>4. late' \subseteq late /\ UNCHANGED deviceVars
      BY <1>3 DEF LateWrite
    <2>5. \A d \in Devices : InformedOK(d)'
      BY <2>4 DEF InformedInv, InformedOK, Installing, deviceVars
    <2>. QED  BY <1>1, <2>3, <2>4, <2>5 DEF InformedInv
  <1>. QED  BY <1>2, <1>3, InformedDeviceStep DEF Next

\* What migration 0045 says of the guard holds of every write, the late ones included, where
\* nothing makes a device forget the versions but a session that loads the row again:
\* without calls that fail, loads that fail or read as empty, and deletions.  Each of these
\* alone breaks it, as TLC finds with two devices (a load that fails, a table that reads as
\* empty and a deletion with a session event besides).
THEOREM StaleNeverLandsUnforgotten == ASSUME NothingForgets PROVE Spec => StaleWriteNeverLands
  <1>1. ASSUME InformedInv, [Next]_vars, NEW d \in Devices, row'.by = d, row' # row,
               row # Absent
        PROVE  row.val \in shown[d]
    <2>1. ~row'.blind
      BY <1>1, InformedStep DEF InformedInv
    <2>. QED  BY <1>1, <2>1, UnseenStep DEF InformedInv
  <1>2. InformedInv /\ [Next]_vars =>
          [\A d \in Devices : row'.by = d /\ row' # row /\ row # Absent =>
             row.val \in shown[d]]_vars
    BY <1>1
  <1>3. InformedInv /\ [Next]_vars => InformedInv'
    BY InformedStep
  <1>. QED  BY <1>2, <1>3, InformedInit, PTL DEF Spec, StaleWriteNeverLands
=============================================================================
