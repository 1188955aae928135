------------------------ MODULE OriginalBackupProofs ------------------------
(***************************************************************************)
(* Theorems about OriginalBackup, for any number of uploads at once, of    *)
(* uploads begun and of things that go wrong.                              *)
(***************************************************************************)
EXTENDS OriginalBackup, TLAPS

-----------------------------------------------------------------------------
(* Types.                                                                  *)

LEMMA TypeInit == Init => TypeOK
  <1>. SUFFICES ASSUME Init PROVE TypeOK
    OBVIOUS
  <1>1. doc \in Documents /\ run \in [Runs -> RunSteps \cup {Null}]
    BY DEF Init, Documents
  <1>2. pending \in BOOLEAN /\ inFlight \in BOOLEAN /\ object \in BOOLEAN
    BY Zenon DEF Init
  <1>3. rows \in Nat /\ starts \in Nat /\ faults \in Nat /\ history \subseteq Happened
        /\ remover = Null
    BY DEF Init
  <1>. QED  BY <1>1, <1>2, <1>3 DEF TypeOK

LEMMA FaultType ==
  ASSUME TypeOK, UNCHANGED faults \/ \E kind : Fault(kind)
  PROVE  faults' \in Nat
  BY DEF TypeOK, Fault

LEMMA GotoType ==
  ASSUME TypeOK, NEW r \in Runs, NEW step \in RunSteps \cup {Null}, Goto(r, step)
  PROVE  /\ run' \in [Runs -> RunSteps \cup {Null}]
         /\ run'[r] = step /\ \A s \in Runs \ {r} : run'[s] = run[s]
  BY DEF TypeOK, Goto

LEMMA FailsType ==
  ASSUME TypeOK, NEW r \in Runs, NEW step \in RunSteps, Fails(r, step)
  PROVE  /\ run' \in [Runs -> RunSteps \cup {Null}] /\ history' \subseteq Happened
         /\ history' = history \cup (IF "overlap" \in history THEN {"undone"} ELSE {})
         /\ run'[r] = step /\ \A s \in Runs \ {r} : run'[s] = run[s]
  BY GotoType DEF Fails, TypeOK, Happened

LEMMA DocumentType ==
  ASSUME TypeOK, NEW stored \in BOOLEAN, NEW backup \in {"none", "uploading", "stored", "failed"},
         setDocumentOriginal(stored, backup)
  PROVE  doc' \in Documents /\ doc'.exists = doc.exists
  BY DEF TypeOK, setDocumentOriginal, Documents

LEMMA ProceedType ==
  ASSUME TypeOK, remover # Null, NEW step \in {"backend", "list", "remove", "rows", "index"},
         NEW ok \in BOOLEAN, Proceed(step, ok)
  PROVE  /\ remover' \in Removals /\ remover' # Null
         /\ remover'.step = step /\ remover'.ok = (remover.ok /\ ok)
  <1>1. remover.ok \in BOOLEAN
    BY DEF TypeOK, Removals
  <1>2. (remover.ok /\ ok) \in BOOLEAN /\ remover' = [step |-> step, ok |-> remover.ok /\ ok]
    BY DEF Proceed
  <1>3. remover' \in Removals
    BY <1>2 DEF Removals
  <1>. QED  BY <1>2, <1>3, NullAssumption

LEMMA RunTypes == ASSUME TypeOK, NEW r \in Runs, RunStep(r) PROVE TypeOK'
  <1>. USE DEF remote
  <1>0. {"backend", "upload", "insert", "cleanup", "stored", "failed"} = RunSteps
    BY DEF RunSteps
  <1>1. CASE BackendFound(r)
    <2>1. run' \in [Runs -> RunSteps \cup {Null}]
      BY <1>0, <1>1, GotoType DEF BackendFound
    <2>2. doc.originalStored \in BOOLEAN
      BY DEF TypeOK, Documents
    <2>3. doc' \in Documents
      BY <1>1, <2>2, DocumentType DEF BackendFound
    <2>. QED  BY <1>1, <2>1, <2>3 DEF BackendFound, TypeOK
  <1>2. CASE BackendMissing(r)
    <2>1. run' \in [Runs -> RunSteps \cup {Null}]
      BY <1>2, GotoType DEF BackendMissing
    <2>. QED  BY <1>2, <2>1 DEF BackendMissing, TypeOK, Fault
  <1>3. CASE uploadObject(r)
    <2>1. run' \in [Runs -> RunSteps \cup {Null}] /\ history' \subseteq Happened
      BY <1>0, <1>3, GotoType, FailsType DEF uploadObject, TypeOK
    <2>2. object' \in BOOLEAN
      BY <1>3, Zenon DEF uploadObject, TypeOK
    <2>3. faults' \in Nat
      BY <1>3, FaultType DEF uploadObject
    <2>. QED  BY <1>3, <2>1, <2>2, <2>3 DEF uploadObject, TypeOK
  <1>4. CASE insertMetadata(r)
    <2>1. run' \in [Runs -> RunSteps \cup {Null}] /\ history' \subseteq Happened
      BY <1>0, <1>4, GotoType, FailsType DEF insertMetadata, TypeOK
    <2>. QED  BY <1>4, <2>1 DEF insertMetadata, TypeOK, Fault
  <1>5. CASE Cleanup(r)
    <2>1. run' \in [Runs -> RunSteps \cup {Null}]
      BY <1>0, <1>5, GotoType DEF Cleanup
    <2>2. object' \in BOOLEAN
      BY <1>5, Zenon DEF Cleanup, TypeOK
    <2>3. faults' \in Nat
      BY <1>5, FaultType DEF Cleanup
    <2>. QED  BY <1>5, <2>1, <2>2, <2>3 DEF Cleanup, TypeOK
  <1>6. CASE Settle(r)
    <2>1. run' \in [Runs -> RunSteps \cup {Null}]
      BY <1>6, GotoType DEF Settle
    <2>2. doc' \in Documents
      BY <1>6, DocumentType DEF Settle
    <2>. QED  BY <1>6, <2>1, <2>2 DEF Settle, TypeOK
  <1>. QED  BY <1>1, <1>2, <1>3, <1>4, <1>5, <1>6 DEF RunStep

LEMMA BeginTypes ==
  ASSUME TypeOK, NEW r \in Runs, startOriginalBackup(r) \/ retryOriginalBackup(r)
  PROVE  TypeOK'
  <1>1. /\ run' \in [Runs -> RunSteps \cup {Null}] /\ history' \subseteq Happened
        /\ starts' \in Nat /\ UNCHANGED <<inFlight, remover, object, rows, faults>>
    BY GotoType DEF startOriginalBackup, retryOriginalBackup, Begin, RunSteps, Happened, TypeOK,
       remote
  <1>2. doc' \in Documents /\ pending' \in BOOLEAN
    BY DEF startOriginalBackup, retryOriginalBackup, TypeOK, Documents
  <1>. QED  BY <1>1, <1>2 DEF TypeOK

LEMMA RemoveTypes == ASSUME TypeOK, removeStoredOriginal \/ RemoveStep PROVE TypeOK'
  <1>. USE DEF Unremoved, remote
  <1>1. CASE removeStoredOriginal
    BY <1>1 DEF removeStoredOriginal, TypeOK, Removals, Happened
  <1>2. CASE RemoveBackend
    <2>1. remover # Null /\ \E step \in {"list", "index"} : Proceed(step, TRUE)
      BY <1>2 DEF RemoveBackend, Removing
    <2>2. remover' \in Removals /\ faults' \in Nat
      BY <1>2, <2>1, ProceedType, FaultType DEF RemoveBackend
    <2>. QED  BY <1>2, <2>2 DEF RemoveBackend, TypeOK, Happened
  <1>3. CASE listFolder
    <2>1. remover # Null /\ \E step \in {"remove", "rows", "index"}, ok \in BOOLEAN : Proceed(step, ok)
      <3>1. TRUE \in BOOLEAN /\ FALSE \in BOOLEAN
        OBVIOUS
      <3>. QED  BY <1>3, <3>1, Zenon DEF listFolder, Removing
    <2>2. remover' \in Removals /\ faults' \in Nat
      BY <1>3, <2>1, ProceedType, FaultType DEF listFolder
    <2>. QED  BY <1>3, <2>2 DEF listFolder, TypeOK
  <1>4. CASE removeObjects
    <2>1. remover # Null /\ \E step \in {"remove", "rows", "index"}, ok \in BOOLEAN : Proceed(step, ok)
      <3>1. TRUE \in BOOLEAN /\ FALSE \in BOOLEAN
        OBVIOUS
      <3>. QED  BY <1>4, <3>1, Zenon DEF removeObjects, Removing
    <2>2. remover' \in Removals /\ faults' \in Nat
      BY <1>4, <2>1, ProceedType, FaultType DEF removeObjects
    <2>3. object' \in BOOLEAN
      BY <1>4, Zenon DEF removeObjects, TypeOK
    <2>. QED  BY <1>4, <2>2, <2>3 DEF removeObjects, TypeOK
  <1>5. CASE deleteMetadataForDocument
    <2>1. remover # Null /\ \E step \in {"remove", "rows", "index"}, ok \in BOOLEAN : Proceed(step, ok)
      <3>1. TRUE \in BOOLEAN /\ FALSE \in BOOLEAN
        OBVIOUS
      <3>. QED  BY <1>5, <3>1, Zenon DEF deleteMetadataForDocument, Removing
    <2>2. remover' \in Removals /\ faults' \in Nat
      BY <1>5, <2>1, ProceedType, FaultType DEF deleteMetadataForDocument
    <2>3. rows' \in Nat
      <3>1. rows' = 0 \/ rows' = rows
        BY <1>5, Zenon DEF deleteMetadataForDocument
      <3>2. rows \in Nat
        BY Zenon DEF TypeOK
      <3>. QED  BY <3>1, <3>2
    <2>4. UNCHANGED <<doc, pending, inFlight, run, starts, object, history>>
      BY <1>5 DEF deleteMetadataForDocument
    <2>. QED  BY <2>2, <2>3, <2>4 DEF TypeOK
  <1>6. CASE deleteDocument
    BY <1>6 DEF deleteDocument, TypeOK, Documents
  <1>. QED  BY <1>1, <1>2, <1>3, <1>4, <1>5, <1>6 DEF RemoveStep

LEMMA ReloadTypes == ASSUME TypeOK, Reload PROVE TypeOK'
  <1>0. object' \in BOOLEAN /\ pending' \in BOOLEAN /\ inFlight' \in BOOLEAN
    <2>1. \A x \in {object} \cup {TRUE : r \in {r \in Runs : run[r] = "upload"}}
              \cup {FALSE : x \in {x \in {"remove"} : Removing(x)}} : x \in BOOLEAN
      BY Zenon DEF TypeOK
    <2>. QED  BY <2>1, Zenon DEF Reload
  <1>1. rows' \in Nat
    BY DEF Reload, TypeOK
  <1>2. run' \in [Runs -> RunSteps \cup {Null}] /\ remover' = Null
    BY DEF Reload
  <1>3. faults' \in Nat /\ history' \subseteq Happened /\ UNCHANGED <<doc, starts>>
    BY FaultType DEF Reload, TypeOK, Happened
  <1>. QED  BY <1>0, <1>1, <1>2, <1>3 DEF TypeOK

LEMMA TypeStep == TypeOK /\ [Next]_vars => TypeOK'
  <1>. SUFFICES ASSUME TypeOK, [Next]_vars PROVE TypeOK'
    OBVIOUS
  <1>1. CASE UNCHANGED vars
    BY <1>1 DEF vars, remote, TypeOK
  <1>. QED  BY <1>1, RunTypes, BeginTypes, RemoveTypes, ReloadTypes DEF Next

\* Every variable stays in its type.
THEOREM TypeCorrect == Spec => []TypeOK
  BY TypeInit, TypeStep, PTL DEF Spec

-----------------------------------------------------------------------------
(* "Original stored".                                                      *)

\* A removal under way was confirmed, and a document there is was begun.
Confirmed ==
  /\ remover # Null => "tried" \in history
  /\ starts = 0 => ~doc.originalStored /\ ~pending /\ \A r \in Runs : run[r] = Null
  /\ "tried" \notin history /\ starts > 0 => doc.exists

\* Before two uploads overlap, one is at work at most, and on an original that is not
\* stored; past its backend the document is in flight.
OneAtATime ==
  "overlap" \notin history =>
    /\ \A r, s \in Runs : run[r] # Null /\ run[s] # Null => r = s
    /\ \A r \in Runs : run[r] # Null => ~doc.originalStored
    /\ \A r \in Runs : run[r] \notin {Null, "backend"} => inFlight

\* What an upload has reached is there; once two overlap none has failed.
ReachedIsThere ==
  /\ \A r \in Runs : run[r] \in {"insert", "stored"} => object
  /\ \A r \in Runs : run[r] = "stored" => rows > 0
  /\ doc.originalStored => object /\ rows > 0
  /\ "overlap" \in history => \A r \in Runs : run[r] \notin {"cleanup", "failed"}

\* The File is held while the original is not stored.
HeldUntilStored ==
  "reloaded" \notin history /\ starts > 0 /\ ~doc.originalStored => pending

Untouched == history \cap {"tried", "undone"} = {}
StoredInv == TypeOK /\ Confirmed /\ (Untouched => OneAtATime /\ ReachedIsThere /\ HeldUntilStored)

LEMMA StoredInit == Init => StoredInv
  <1>. SUFFICES ASSUME Init PROVE StoredInv
    OBVIOUS
  <1>1. ~doc.originalStored /\ remover = Null /\ starts = 0 /\ \A r \in Runs : run[r] = Null
    BY DEF Init
  <1>2. ~pending
    BY Zenon DEF Init
  <1>3. Confirmed
    BY <1>1, <1>2 DEF Confirmed
  <1>4. OneAtATime /\ ReachedIsThere
    BY <1>1, NullAssumption DEF OneAtATime, ReachedIsThere, RunSteps
  <1>5. HeldUntilStored
    BY <1>1 DEF HeldUntilStored
  <1>. QED  BY TypeInit, <1>3, <1>4, <1>5 DEF StoredInv

LEMMA BeginStored ==
  ASSUME StoredInv, NEW r \in Runs, startOriginalBackup(r) \/ retryOriginalBackup(r)
  PROVE  StoredInv'
  <1>0. /\ TypeOK' /\ run \in [Runs -> RunSteps \cup {Null}] /\ doc \in Documents /\ starts \in Nat
    BY BeginTypes DEF StoredInv, TypeOK
  <1>1. /\ run[r] = Null /\ run' = [run EXCEPT ![r] = "backend"] /\ starts' = starts + 1
        /\ history' = history \cup (IF AtWork # {} THEN {"overlap"} ELSE {})
        /\ UNCHANGED <<inFlight, remover, object, rows>>
    BY DEF startOriginalBackup, retryOriginalBackup, Begin, Goto, remote
  <1>2. /\ doc'.exists /\ doc'.originalStored = doc.originalStored
        /\ (pending' \/ pending' = pending)
    BY <1>0 DEF startOriginalBackup, retryOriginalBackup, Documents
  <1>3. run'[r] = "backend" /\ \A s \in Runs \ {r} : run'[s] = run[s]
    BY <1>0, <1>1
  <1>4. Confirmed'
    BY <1>0, <1>1, <1>2, <1>3 DEF StoredInv, Confirmed
  <1>5. ASSUME Untouched' PROVE OneAtATime' /\ ReachedIsThere' /\ HeldUntilStored'
    <2>1. Untouched /\ OneAtATime /\ ReachedIsThere /\ HeldUntilStored
      BY <1>1, <1>5 DEF Untouched, StoredInv
    <2>2. ~doc.originalStored /\ ("overlap" \notin history => \A s \in Runs : run[s] \in {Null, "backend"})
      <3>1. CASE startOriginalBackup(r)
        BY <3>1 DEF startOriginalBackup, StoredInv, Confirmed
      <3>2. CASE retryOriginalBackup(r)
        BY <2>1, <3>2 DEF retryOriginalBackup, OneAtATime
      <3>. QED  BY <3>1, <3>2
    <2>3. OneAtATime'
      BY <1>1, <1>2, <1>3, <2>1, <2>2, NullAssumption DEF OneAtATime, AtWork
    <2>4. ReachedIsThere'
      BY <1>1, <1>2, <1>3, <2>1, <2>2, NullAssumption DEF ReachedIsThere, AtWork, RunSteps
    <2>5. HeldUntilStored'
      <3>1. pending' = TRUE
        BY DEF startOriginalBackup, retryOriginalBackup, StoredInv, TypeOK
      <3>. QED  BY <3>1 DEF HeldUntilStored
    <2>. QED  BY <2>3, <2>4, <2>5
  <1>. QED  BY <1>0, <1>4, <1>5 DEF StoredInv

LEMMA RunStored == ASSUME StoredInv, NEW r \in Runs, RunStep(r) PROVE StoredInv'
  <1>. USE DEF remote
  <1>0. /\ TypeOK /\ TypeOK' /\ doc \in Documents
        /\ run \in [Runs -> RunSteps \cup {Null}] /\ rows \in Nat
        /\ starts' = starts /\ run[r] # Null /\ remover' = remover
    <2>1. run[r] # Null
      BY NullAssumption DEF RunStep, BackendFound, BackendMissing, uploadObject, insertMetadata,
         Cleanup, Settle, RunSteps
    <2>. QED  BY <2>1, RunTypes DEF StoredInv, TypeOK, RunStep, BackendFound, BackendMissing,
              uploadObject, insertMetadata, Cleanup, Settle
  <1>1. PICK step \in RunSteps \cup {Null} :
          /\ run'[r] = step /\ \A s \in Runs \ {r} : run'[s] = run[s]
    <2>1. run' \in [Runs -> RunSteps \cup {Null}]
      BY <1>0 DEF TypeOK
    <2>2. \A s \in Runs \ {r} : run'[s] = run[s]
      BY <1>0 DEF RunStep, BackendFound, BackendMissing, uploadObject, insertMetadata,
         Cleanup, Settle, Fails, Goto
    <2>. QED  BY <2>1, <2>2
  <1>2. /\ doc'.exists = doc.exists
        /\ \/ history' = history
           \/ /\ history' = history \cup (IF "overlap" \in history THEN {"undone"} ELSE {})
              /\ run[r] \in {"upload", "insert"}
    <2>1. doc'.exists = doc.exists
      <3>1. doc' = doc \/ \E x, y : setDocumentOriginal(x, y)
        BY DEF RunStep, BackendFound, BackendMissing, uploadObject, insertMetadata, Cleanup, Settle
      <3>. QED  BY <1>0, <3>1 DEF setDocumentOriginal, Documents
    <2>. QED  BY <2>1 DEF RunStep, BackendFound, BackendMissing, uploadObject, insertMetadata,
              Cleanup, Settle, Fails
  <1>3. Confirmed'
    <2>1. starts > 0
      BY <1>0 DEF StoredInv, Confirmed, TypeOK
    <2>. QED  BY <1>0, <1>2, <2>1 DEF StoredInv, Confirmed
  <1>4. ASSUME Untouched' PROVE OneAtATime' /\ ReachedIsThere' /\ HeldUntilStored'
    <2>1. /\ Untouched /\ OneAtATime /\ ReachedIsThere /\ HeldUntilStored
          /\ starts > 0 /\ doc.exists
      BY <1>0, <1>2, <1>4 DEF Untouched, StoredInv, Confirmed, TypeOK
    <2>. USE <2>1
    \* As long as no two uploads overlapped, nothing is reached by another one.
    <2>2. "overlap" \notin history => \A s \in Runs \ {r} : run[s] = Null
      BY <1>0 DEF OneAtATime
    <2>3. CASE BackendFound(r)
      <3>1. run'[r] = "upload" /\ inFlight' = TRUE
            /\ UNCHANGED <<pending, object, rows, history>>
        BY <1>0, <2>3 DEF BackendFound, Goto
      <3>2. doc'.originalStored = doc.originalStored
        BY <1>0, <2>3 DEF BackendFound, setDocumentOriginal, Documents
      <3>. QED  BY <1>0, <1>1, <3>1, <3>2, <2>2
           DEF OneAtATime, ReachedIsThere, HeldUntilStored
    <2>4. CASE BackendMissing(r)
      <3>1. run'[r] = Null /\ UNCHANGED <<doc, inFlight, pending, object, rows, history>>
        BY <1>0, <2>4 DEF BackendMissing, Goto
      <3>. QED  BY <1>0, <1>1, <3>1, NullAssumption
           DEF OneAtATime, ReachedIsThere, HeldUntilStored, RunSteps
    <2>5. CASE uploadObject(r)
      <3>1. /\ run[r] = "upload" /\ UNCHANGED <<doc, inFlight, pending, rows>>
            /\ run'[r] \in {"insert", "failed"} /\ (object' \/ object' = object)
            /\ run'[r] = "insert" => object'
        BY <1>0, <2>5 DEF uploadObject, Goto, Fails
      <3>2. run'[r] = "failed" => "overlap" \notin history'
        BY <1>0, <1>4, <2>5 DEF uploadObject, Goto, Fails, Untouched
      <3>3. OneAtATime'
        BY <1>0, <1>1, <1>2, <2>2, <3>1 DEF OneAtATime
      <3>4. ReachedIsThere'
        BY <1>0, <1>1, <1>2, <3>1, <3>2 DEF ReachedIsThere
      <3>. QED  BY <1>0, <1>2, <3>1, <3>3, <3>4 DEF HeldUntilStored
    <2>6. CASE insertMetadata(r)
      <3>1. /\ run[r] = "insert" /\ UNCHANGED <<doc, inFlight, pending, object>>
            /\ run'[r] \in {"stored", "cleanup"} /\ rows' \in {rows, rows + 1}
            /\ run'[r] = "stored" => rows' = rows + 1
        BY <1>0, <2>6 DEF insertMetadata, Goto, Fails
      <3>2. run'[r] = "cleanup" => "overlap" \notin history'
        BY <1>0, <1>4, <2>6 DEF insertMetadata, Goto, Fails, Untouched
      <3>3. OneAtATime'
        BY <1>0, <1>1, <1>2, <2>2, <3>1 DEF OneAtATime
      <3>4. ReachedIsThere'
        BY <1>0, <1>1, <1>2, <3>1, <3>2 DEF ReachedIsThere
      <3>. QED  BY <1>0, <1>2, <3>1, <3>3, <3>4 DEF HeldUntilStored
    <2>7. CASE Cleanup(r)
      <3>1. /\ run[r] = "cleanup" /\ run'[r] = "failed"
            /\ UNCHANGED <<doc, inFlight, pending, rows, history>>
        BY <1>0, <2>7 DEF Cleanup, Goto
      <3>2. "overlap" \notin history /\ ~doc.originalStored
        BY <1>0, <3>1 DEF ReachedIsThere, OneAtATime
      <3>. QED  BY <1>0, <1>1, <2>2, <3>1, <3>2, NullAssumption
           DEF OneAtATime, ReachedIsThere, HeldUntilStored, RunSteps
    <2>8. CASE Settle(r)
      <3>1. /\ run[r] \in {"stored", "failed"} /\ run'[r] = Null /\ inFlight' = FALSE
            /\ doc'.originalStored = (run[r] = "stored")
            /\ UNCHANGED <<object, rows, history>>
        BY <1>0, <2>8 DEF Settle, Goto, setDocumentOriginal, Documents
      <3>2. run[r] = "failed" => "overlap" \notin history /\ ~doc.originalStored
        BY <1>0, <3>1 DEF ReachedIsThere, OneAtATime
      <3>3. OneAtATime'
        BY <1>0, <1>1, <2>2, <3>1 DEF OneAtATime
      <3>4. ReachedIsThere'
        BY <1>0, <1>1, <3>1, NullAssumption DEF ReachedIsThere, RunSteps
      <3>5. HeldUntilStored'
        <4>1. CASE run[r] = "stored"
          BY <3>1, <4>1 DEF HeldUntilStored
        <4>2. CASE run[r] = "failed"
          <5>1. pending' = (pending /\ run[r] = "failed")
            BY <2>8 DEF Settle
          <5>. QED  BY <1>0, <3>1, <3>2, <4>2, <5>1 DEF HeldUntilStored
        <4>. QED  BY <3>1, <4>1, <4>2
      <3>. QED  BY <3>3, <3>4, <3>5
    <2>. QED  BY <2>3, <2>4, <2>5, <2>6, <2>7, <2>8 DEF RunStep
  <1>. QED  BY <1>0, <1>3, <1>4 DEF StoredInv

LEMMA OtherStored ==
  ASSUME StoredInv, removeStoredOriginal \/ RemoveStep \/ Reload \/ UNCHANGED vars
  PROVE  StoredInv'
  <1>. USE DEF Unremoved, remote
  <1>0. TypeOK' /\ doc \in Documents /\ rows \in Nat
    BY TypeStep DEF StoredInv, Next, TypeOK
  <1>1. CASE removeStoredOriginal
    <2>1. "tried" \in history' /\ doc.exists /\ pending' = FALSE /\ UNCHANGED <<doc, run, starts>>
      BY <1>1 DEF removeStoredOriginal
    <2>. QED  BY <1>0, <2>1 DEF StoredInv, Confirmed, Untouched
  <1>2. CASE RemoveStep
    <2>1. "tried" \in history
      BY <1>2 DEF RemoveStep, RemoveBackend, listFolder, removeObjects,
         deleteMetadataForDocument, deleteDocument, Removing, StoredInv, Confirmed
    <2>2. /\ history \subseteq history' /\ UNCHANGED <<pending, run, starts>>
          /\ doc'.originalStored = doc.originalStored
      BY <1>0, <1>2 DEF RemoveStep, RemoveBackend, listFolder, removeObjects,
         deleteMetadataForDocument, deleteDocument, Documents
    <2>. QED  BY <1>0, <2>1, <2>2 DEF StoredInv, Confirmed, Untouched
  <1>3. CASE Reload
    <2>1. /\ history' = history \cup {"reloaded"} /\ pending' = FALSE
          /\ UNCHANGED <<doc, starts>> /\ run' = [r \in Runs |-> Null] /\ remover' = Null
      BY <1>3 DEF Reload
    <2>2. Confirmed'
      BY <2>1 DEF StoredInv, Confirmed
    <2>3. ASSUME Untouched' PROVE OneAtATime' /\ ReachedIsThere' /\ HeldUntilStored'
      <3>1. Untouched /\ OneAtATime /\ ReachedIsThere /\ remover = Null
        BY <2>1, <2>3 DEF Untouched, StoredInv, Confirmed
      <3>2. \A step : ~Removing(step)
        BY <3>1 DEF Removing
      <3>3. object => object'
        BY <1>3, <3>2 DEF Reload
      <3>4. rows' \in {rows, rows + 1}
        BY <1>3, <3>2 DEF Reload
      <3>. QED  BY <1>0, <2>1, <3>1, <3>3, <3>4, NullAssumption
           DEF OneAtATime, ReachedIsThere, HeldUntilStored, RunSteps
    <2>. QED  BY <1>0, <2>2, <2>3 DEF StoredInv
  <1>4. CASE UNCHANGED vars
    BY <1>0, <1>4 DEF vars, StoredInv, Confirmed, Untouched, OneAtATime, ReachedIsThere,
       HeldUntilStored
  <1>. QED  BY <1>1, <1>2, <1>3, <1>4

LEMMA StoredStep == StoredInv /\ [Next]_vars => StoredInv'
  BY BeginStored, RunStored, OtherStored DEF Next

\* "Original stored" stands for an object and a row that names it, whatever failed, was
\* retried or was cut short, until Remove is confirmed or two uploads overlap and one of
\* them fails.
THEOREM StoredCorrect == Spec => []StoredIsBacked
  <1>1. StoredInv => StoredIsBacked
    BY DEF StoredInv, StoredIsBacked, ReachedIsThere, Untouched
  <1>. QED  BY StoredInit, StoredStep, <1>1, PTL DEF Spec

\* Until the page is reloaded or Remove is confirmed, an original that is not stored can
\* be tried again.
THEOREM TryAgainCorrect == Spec => []CanTryAgain
  <1>1. StoredInv => CanTryAgain
    BY DEF StoredInv, CanTryAgain, HeldUntilStored, Untouched
  <1>. QED  BY StoredInit, StoredStep, <1>1, PTL DEF Spec

-----------------------------------------------------------------------------
(* Remove.                                                                 *)

\* A removal works on a document there is, with no upload at work and no File held
\* unless one was at work when it was confirmed.
NothingAtWork ==
  /\ doc.exists \/ "tried" \in history => starts > 0
  /\ remover # Null => doc.exists /\ "tried" \in history
  /\ "tried" \in history => ~pending
  /\ "tried" \in history /\ "race" \notin history => \A r \in Runs : run[r] = Null

\* What a removal has got through without a failure is gone.
GoneSoFar ==
  "race" \notin history /\ "blind" \notin history =>
    /\ remover # Null /\ remover.ok =>
         /\ remover.step = "rows"  => ~object
         /\ remover.step = "index" => ~object /\ rows = 0
    /\ "tried" \in history /\ ~doc.exists => ~object /\ rows = 0

RemovedInv == TypeOK /\ NothingAtWork /\ GoneSoFar

LEMMA RemovedInit == Init => RemovedInv
  <1>. SUFFICES ASSUME Init PROVE RemovedInv
    OBVIOUS
  <1>1. ~doc.exists /\ remover = Null /\ history = {} /\ \A r \in Runs : run[r] = Null
    BY DEF Init
  <1>. QED  BY TypeInit, <1>1 DEF RemovedInv, NothingAtWork, GoneSoFar

LEMMA UploadRemoved ==
  ASSUME RemovedInv, NEW r \in Runs,
         startOriginalBackup(r) \/ retryOriginalBackup(r) \/ RunStep(r)
  PROVE  RemovedInv'
  <1>. USE DEF remote
  <1>0. TypeOK' /\ doc \in Documents /\ starts \in Nat /\ remover' = remover
    BY BeginTypes, RunTypes DEF RemovedInv, TypeOK, startOriginalBackup, retryOriginalBackup, Begin,
       RunStep, BackendFound, BackendMissing, uploadObject, insertMetadata, Cleanup, Settle
  <1>1. CASE startOriginalBackup(r) \/ retryOriginalBackup(r)
    <2>1. doc'.exists /\ starts' > 0 /\ UNCHANGED <<remover, object, rows>>
          /\ ("tried" \in history' => "tried" \in history)
          /\ history \subseteq history'
      BY <1>0, <1>1 DEF startOriginalBackup, retryOriginalBackup, Begin, Documents
    <2>2. "tried" \notin history
      BY <1>0, <1>1 DEF startOriginalBackup, retryOriginalBackup, RemovedInv, NothingAtWork
    <2>3. remover = Null
      BY <2>2 DEF RemovedInv, NothingAtWork
    <2>. QED  BY <1>0, <2>1, <2>2, <2>3 DEF RemovedInv, NothingAtWork, GoneSoFar
  <1>2. CASE RunStep(r)
    <2>1. run[r] # Null /\ UNCHANGED <<remover, starts>>
      BY <1>2, NullAssumption DEF RunStep, BackendFound, BackendMissing, uploadObject,
         insertMetadata, Cleanup, Settle, RunSteps
    <2>2. history \subseteq history' /\ history' \subseteq history \cup {"undone"}
      BY <1>2 DEF RunStep, BackendFound, BackendMissing, uploadObject, insertMetadata, Cleanup,
         Settle, Fails
    <2>7. pending' => pending
      BY <1>2, Zenon DEF RunStep, BackendFound, BackendMissing, uploadObject, insertMetadata,
         Cleanup, Settle
    <2>3. doc'.exists = doc.exists
      <3>1. doc' = doc \/ \E x, y : setDocumentOriginal(x, y)
        BY <1>2 DEF RunStep, BackendFound, BackendMissing, uploadObject, insertMetadata, Cleanup,
           Settle
      <3>. QED  BY <1>0, <3>1 DEF setDocumentOriginal, Documents
    <2>4. "tried" \in history => "race" \in history
      BY <2>1 DEF RemovedInv, NothingAtWork
    <2>5. NothingAtWork'
      BY <2>1, <2>2, <2>3, <2>4, <2>7 DEF RemovedInv, NothingAtWork
    <2>6. GoneSoFar'
      BY <2>1, <2>2, <2>3, <2>4 DEF RemovedInv, NothingAtWork, GoneSoFar
    <2>. QED  BY <1>0, <2>5, <2>6 DEF RemovedInv
  <1>. QED  BY <1>1, <1>2

LEMMA RemoverRemoved == ASSUME RemovedInv, removeStoredOriginal \/ RemoveStep PROVE RemovedInv'
  <1>. USE DEF Unremoved, remote
  <1>0. TypeOK' /\ doc \in Documents
    BY RemoveTypes DEF RemovedInv, TypeOK
  <1>1. CASE removeStoredOriginal
    <2>1. /\ doc.exists /\ ~pending' /\ remover'.step = "backend"
          /\ history' = history \cup {"tried"} \cup (IF AtWork # {} THEN {"race"} ELSE {})
          /\ UNCHANGED <<doc, run, starts>>
      BY <1>1 DEF removeStoredOriginal
    <2>2. NothingAtWork'
      BY <2>1 DEF RemovedInv, NothingAtWork, AtWork
    <2>3. GoneSoFar'
      BY <2>1 DEF GoneSoFar
    <2>. QED  BY <1>0, <2>2, <2>3 DEF RemovedInv
  <1>2. CASE RemoveStep
    <2>0. /\ remover # Null /\ doc.exists /\ "tried" \in history
          /\ history \subseteq history' /\ history' \subseteq history \cup {"blind"}
          /\ UNCHANGED <<pending, run, starts>>
      BY <1>2 DEF RemoveStep, RemoveBackend, listFolder, removeObjects,
         deleteMetadataForDocument, deleteDocument, Removing, RemovedInv, NothingAtWork
    <2>1. doc' = doc \/ remover' = Null
      BY <1>2 DEF RemoveStep, RemoveBackend, listFolder, removeObjects,
         deleteMetadataForDocument, deleteDocument
    <2>2. NothingAtWork'
      BY <2>0, <2>1 DEF RemovedInv, NothingAtWork
    <2>. SUFFICES GoneSoFar'
      BY <1>0, <2>2 DEF RemovedInv
    <2>3. CASE RemoveBackend
      <3>1. doc' = doc
        BY <2>3 DEF RemoveBackend
      <3>2. Proceed("list", TRUE) \/ (Proceed("index", TRUE) /\ "blind" \in history')
        BY <2>3 DEF RemoveBackend
      <3>3. remover'.step = "list" \/ "blind" \in history'
        BY <3>2 DEF Proceed
      <3>. QED  BY <2>0, <3>1, <3>3 DEF GoneSoFar
    <2>4. CASE listFolder
      <3>1. doc' = doc /\ object' = object
        BY <2>4 DEF listFolder
      <3>2. Proceed(IF object THEN "remove" ELSE "rows", TRUE) \/ Proceed("rows", FALSE)
        BY <2>4, Zenon DEF listFolder
      <3>3. CASE Proceed("rows", FALSE)
        <4>1. remover'.step = "rows" /\ ~remover'.ok
          BY <2>0, <3>3, ProceedType DEF RemovedInv
        <4>. QED  BY <2>0, <3>1, <4>1 DEF GoneSoFar
      <3>4. CASE Proceed(IF object THEN "remove" ELSE "rows", TRUE)
        <4>1. remover'.step = IF object THEN "remove" ELSE "rows"
          BY <3>4 DEF Proceed
        <4>. QED  BY <2>0, <3>1, <4>1 DEF GoneSoFar
      <3>. QED  BY <3>2, <3>3, <3>4
    <2>5. CASE removeObjects
      <3>1. doc' = doc /\ ((object' = FALSE /\ Proceed("rows", TRUE)) \/ Proceed("rows", FALSE))
        BY <2>5, Zenon DEF removeObjects
      <3>2. CASE Proceed("rows", FALSE)
        <4>1. ~remover'.ok
          BY <2>0, <3>2, ProceedType DEF RemovedInv
        <4>. QED  BY <2>0, <3>1, <4>1 DEF GoneSoFar
      <3>3. CASE object' = FALSE /\ Proceed("rows", TRUE)
        <4>1. ~object' /\ remover'.step = "rows"
          BY <3>3 DEF Proceed
        <4>. QED  BY <2>0, <3>1, <4>1 DEF GoneSoFar
      <3>. QED  BY <3>1, <3>2, <3>3
    <2>6. CASE deleteMetadataForDocument
      <3>1. /\ doc' = doc /\ object' = object /\ remover.step = "rows" /\ history' = history
            /\ (rows' = 0 /\ Proceed("index", TRUE)) \/ Proceed("index", FALSE)
        BY <2>6, Zenon DEF deleteMetadataForDocument, Removing
      <3>2. CASE Proceed("index", FALSE)
        <4>1. ~remover'.ok
          BY <2>0, <3>2, ProceedType DEF RemovedInv
        <4>. QED  BY <2>0, <3>1, <4>1 DEF GoneSoFar
      <3>3. CASE rows' = 0 /\ Proceed("index", TRUE)
        <4>1. remover'.ok = (remover.ok /\ TRUE) /\ remover'.step = "index"
          BY <2>0, <3>3, ProceedType DEF RemovedInv
        <4>2. remover'.ok => remover.ok
          BY <4>1, Zenon
        <4>. QED  BY <2>0, <3>1, <3>3, <4>1, <4>2 DEF GoneSoFar, RemovedInv
      <3>. QED  BY <3>1, <3>2, <3>3
    <2>7. CASE deleteDocument
      <3>1. /\ remover' = Null /\ UNCHANGED <<object, rows, history>>
            /\ remover.step = "index" /\ doc'.exists = ~remover.ok
        BY <1>0, <2>7 DEF deleteDocument, Removing, Documents
      <3>. QED  BY <2>0, <3>1 DEF GoneSoFar, RemovedInv
    <2>. QED  BY <1>2, <2>3, <2>4, <2>5, <2>6, <2>7 DEF RemoveStep
  <1>. QED  BY <1>1, <1>2

LEMMA ReloadRemoved == ASSUME RemovedInv, Reload PROVE RemovedInv'
  <1>1. /\ history' = history \cup {"reloaded"} /\ pending' = FALSE
        /\ UNCHANGED <<doc, starts>> /\ run' = [r \in Runs |-> Null] /\ remover' = Null
    BY DEF Reload
  <1>2. NothingAtWork'
    BY <1>1 DEF RemovedInv, NothingAtWork
  <1>3. ASSUME "tried" \in history, ~doc.exists, history \cap {"race", "blind"} = {}
        PROVE  ~object' /\ rows' = 0
    <2>1. remover = Null /\ ~object /\ rows = 0 /\ \A r \in Runs : run[r] = Null
      BY <1>3 DEF RemovedInv, NothingAtWork, GoneSoFar
    <2>2. \A step : ~Removing(step)
      BY <2>1 DEF Removing
    <2>3. {r \in Runs : run[r] = "upload"} = {} /\ {r \in Runs : run[r] = "insert"} = {}
      BY <2>1, NullAssumption DEF RunSteps
    <2>4. rows' = 0
      BY <2>1, <2>2, <2>3 DEF Reload
    <2>5. object' = object
      BY <2>2, <2>3 DEF Reload
    <2>. QED  BY <2>1, <2>4, <2>5
  <1>4. GoneSoFar'
    BY <1>1, <1>3 DEF GoneSoFar
  <1>. QED  BY <1>2, <1>4, ReloadTypes DEF RemovedInv

LEMMA RemovedStep == RemovedInv /\ [Next]_vars => RemovedInv'
  <1>. SUFFICES ASSUME RemovedInv, [Next]_vars PROVE RemovedInv'
    OBVIOUS
  <1>1. CASE UNCHANGED vars
    BY <1>1 DEF vars, remote, RemovedInv, TypeOK, NothingAtWork, GoneSoFar
  <1>. QED  BY <1>1, UploadRemoved, RemoverRemoved, ReloadRemoved DEF Next

\* A document that was removed leaves neither object nor row behind, unless an upload was
\* at work when Remove was confirmed, or no backend was found to remove from.
THEOREM RemovedCorrect == Spec => []RemovedLeavesNothing
  <1>1. RemovedInv => RemovedLeavesNothing
    BY DEF RemovedInv, GoneSoFar, RemovedLeavesNothing
  <1>. QED  BY RemovedInit, RemovedStep, <1>1, PTL DEF Spec
=============================================================================
