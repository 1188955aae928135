--------------------------- MODULE OriginalBackup ---------------------------
(***************************************************************************)
(* The original file of one reading document: the in-session backup        *)
(* manager (src/lib/reading/backupManager.ts), the upload and the removal  *)
(* it drives (src/lib/reading/originals.ts), the Remove and Retry buttons  *)
(* (src/components/reading/OriginalStatus.tsx) and what they leave in the  *)
(* bucket and in reading_document_files.                                   *)
(*                                                                         *)
(* Every await is a step.  A call takes effect when its step is taken; the *)
(* caller goes on with its answer later.  A call may fail, or take effect  *)
(* and lose its answer; the backend may be missing (signed out, or the     *)
(* user could not be asked for); the page may be reloaded, which forgets   *)
(* the picked File and every call in the air.                              *)
(***************************************************************************)
EXTENDS Naturals

CONSTANTS
  Runs,        \* uploads that may be at work at once
  Env,         \* what may go wrong: "fail", "lost", "auth", "reload"
  MaxStarts,   \* bound: uploads begun
  MaxFaults,   \* bound: things that go wrong
  Null

EnvKinds == {"fail", "lost", "auth", "reload"}

ASSUME EnvAssumption   == Env \subseteq EnvKinds
ASSUME BoundAssumption == MaxStarts \in Nat /\ MaxFaults \in Nat

VARIABLES
  doc,        \* the ReadingDocument's provenance
  pending,    \* is the picked File held for this document?
  inFlight,   \* is the document in the in-flight set?
  run,        \* per upload: the await it is at, or Null
  remover,    \* where the Remove button's handler is, or Null
  object,     \* is there an object under <uid>/<documentId>/ ?
  rows,       \* rows of reading_document_files for the document
  starts, faults,
  history     \* what has happened so far that a property makes an exception for

remote == <<object, rows>>
vars   == <<doc, pending, inFlight, run, remover, remote, starts, faults, history>>

Documents == [exists : BOOLEAN, originalStored : BOOLEAN,
              originalBackup : {"none", "uploading", "stored", "failed"}]
RunSteps  == {"backend", "upload", "insert", "cleanup", "stored", "failed"}
Removals  == [step : {"backend", "list", "remove", "rows", "index"}, ok : BOOLEAN]
Happened  == {"overlap",   \* two uploads got past the in-flight check together
              "undone",    \* ... and one of them failed
              "tried",     \* Remove was confirmed
              "race",      \* ... while an upload was at work
              "blind",     \* ... and found no backend to remove from
              "reloaded"}
ASSUME NullAssumption == Null \notin RunSteps \cup Removals

Init ==
  /\ doc = [exists |-> FALSE, originalStored |-> FALSE, originalBackup |-> "none"]
  /\ pending = FALSE /\ inFlight = FALSE
  /\ run = [r \in Runs |-> Null] /\ remover = Null
  /\ object = FALSE /\ rows = 0
  /\ starts = 0 /\ faults = 0 /\ history = {}

Fault(kind) == kind \in Env /\ faults < MaxFaults /\ faults' = faults + 1
AtWork == {r \in Runs : run[r] # Null}
Goto(r, step) == run' = [run EXCEPT ![r] = step]

\* patchDocument: no document, no change.
setDocumentOriginal(stored, backup) ==
  doc' = IF doc.exists
         THEN [doc EXCEPT !.originalStored = stored, !.originalBackup = backup] ELSE doc

Fails(r, step) ==
  /\ Goto(r, step)
  /\ history' = history \cup (IF "overlap" \in history THEN {"undone"} ELSE {})

-----------------------------------------------------------------------------
(* Uploads.                                                                *)

Begin(r) ==
  /\ run[r] = Null /\ starts < MaxStarts /\ starts' = starts + 1
  /\ Goto(r, "backend")
  /\ history' = history \cup (IF AtWork # {} THEN {"overlap"} ELSE {})
  /\ UNCHANGED <<inFlight, remover, remote, faults>>

\* A file was just read into a document (AddReadingPanel.tsx).
startOriginalBackup(r) ==
  /\ starts = 0 /\ Begin(r)
  /\ doc' = [doc EXCEPT !.exists = TRUE] /\ pending' = TRUE

\* The Retry button: shown beside "failed" while the File is held.
retryOriginalBackup(r) ==
  /\ doc.exists /\ ~doc.originalStored /\ doc.originalBackup = "failed"
  /\ pending /\ ~inFlight /\ Begin(r) /\ UNCHANGED <<doc, pending>>

\* getOriginalsBackend answers: the set is joined only now.
BackendFound(r) ==
  /\ run[r] = "backend" /\ Goto(r, "upload")
  /\ inFlight' = TRUE /\ setDocumentOriginal(doc.originalStored, "uploading")
  /\ UNCHANGED <<pending, remover, remote, starts, faults, history>>

\* No backend: the state is left untouched.
BackendMissing(r) ==
  /\ run[r] = "backend" /\ Goto(r, Null) /\ Fault("auth")
  /\ UNCHANGED <<doc, pending, inFlight, remover, remote, starts, history>>

uploadObject(r) ==
  /\ run[r] = "upload"
  /\ \/ object' = TRUE /\ Goto(r, "insert") /\ UNCHANGED <<faults, history>>
     \/ object' = TRUE /\ Fails(r, "failed") /\ Fault("lost")
     \/ UNCHANGED object /\ Fails(r, "failed") /\ Fault("fail")
  /\ UNCHANGED <<doc, pending, inFlight, remover, rows, starts>>

\* Mutant: the answer is not looked at.
InsertUnchecked(r) ==
  /\ run[r] = "insert" /\ Goto(r, "stored")
  /\ \/ rows' = rows + 1 /\ UNCHANGED faults
     \/ UNCHANGED rows /\ Fault("fail")
  /\ UNCHANGED <<doc, pending, inFlight, remover, object, starts, history>>

insertMetadata(r) ==
  /\ run[r] = "insert"
  /\ \/ rows' = rows + 1 /\ Goto(r, "stored") /\ UNCHANGED <<faults, history>>
     \/ rows' = rows + 1 /\ Fails(r, "cleanup") /\ Fault("lost")
     \/ UNCHANGED rows /\ Fails(r, "cleanup") /\ Fault("fail")
  /\ UNCHANGED <<doc, pending, inFlight, remover, object, starts>>

\* The object just written is removed; whether that works is ignored.
Cleanup(r) ==
  /\ run[r] = "cleanup" /\ Goto(r, "failed")
  /\ \/ object' = FALSE /\ (UNCHANGED faults \/ Fault("lost"))
     \/ UNCHANGED object /\ Fault("fail")
  /\ UNCHANGED <<doc, pending, inFlight, remover, rows, starts, history>>

\* Mutant: a failure is not written down.
SettleSilently(r) ==
  /\ run[r] \in {"stored", "failed"} /\ Goto(r, Null)
  /\ IF run[r] = "stored"
     THEN setDocumentOriginal(TRUE, "stored") /\ pending' = FALSE /\ inFlight' = FALSE
     ELSE UNCHANGED <<doc, pending, inFlight>>
  /\ UNCHANGED <<remover, remote, starts, faults, history>>

\* run, after backupOriginal: the outcome is written down, the File dropped once stored.
Settle(r) ==
  /\ run[r] \in {"stored", "failed"} /\ Goto(r, Null) /\ inFlight' = FALSE
  /\ setDocumentOriginal(run[r] = "stored", run[r])
  /\ pending' = (pending /\ run[r] = "failed")
  /\ UNCHANGED <<remover, remote, starts, faults, history>>

-----------------------------------------------------------------------------
(* The Remove button.                                                      *)

Removing(step) == remover # Null /\ remover.step = step
Proceed(step, ok) == remover' = [step |-> step, ok |-> remover.ok /\ ok]
Unremoved == <<inFlight, run, starts>>

\* removeStoredOriginal: the File is dropped first.
removeStoredOriginal ==
  /\ doc.exists /\ remover = Null
  /\ pending' = FALSE /\ remover' = [step |-> "backend", ok |-> TRUE]
  /\ history' = history \cup {"tried"} \cup (IF AtWork # {} THEN {"race"} ELSE {})
  /\ UNCHANGED <<doc, Unremoved, remote, faults>>

\* Without a backend there is nothing to clean up: ok.
RemoveBackend ==
  /\ Removing("backend")
  /\ \/ Proceed("list", TRUE) /\ UNCHANGED <<faults, history>>
     \/ Proceed("index", TRUE) /\ Fault("auth") /\ history' = history \cup {"blind"}
  /\ UNCHANGED <<doc, pending, Unremoved, remote>>

\* A folder that cannot be listed reads as empty, and not ok.
listFolder ==
  /\ Removing("list")
  /\ \/ Proceed(IF object THEN "remove" ELSE "rows", TRUE) /\ UNCHANGED faults
     \/ Proceed("rows", FALSE) /\ Fault("fail")
  /\ UNCHANGED <<doc, pending, Unremoved, remote, history>>

removeObjects ==
  /\ Removing("remove")
  /\ \/ object' = FALSE /\ Proceed("rows", TRUE) /\ UNCHANGED faults
     \/ object' = FALSE /\ Proceed("rows", FALSE) /\ Fault("lost")
     \/ UNCHANGED object /\ Proceed("rows", FALSE) /\ Fault("fail")
  /\ UNCHANGED <<doc, pending, Unremoved, rows, history>>

\* Mutant: one row is deleted, however many there are.
DeleteOneRow ==
  /\ Removing("rows") /\ rows' = rows - 1 /\ Proceed("index", TRUE)
  /\ UNCHANGED <<doc, pending, Unremoved, object, faults, history>>

deleteMetadataForDocument ==
  /\ Removing("rows")
  /\ \/ rows' = 0 /\ Proceed("index", TRUE) /\ UNCHANGED faults
     \/ rows' = 0 /\ Proceed("index", FALSE) /\ Fault("lost")
     \/ UNCHANGED rows /\ Proceed("index", FALSE) /\ Fault("fail")
  /\ UNCHANGED <<doc, pending, Unremoved, object, history>>

\* Mutant: the reading goes whatever came of the cleanup.
DeleteAnyway ==
  /\ Removing("index") /\ remover' = Null /\ doc' = [doc EXCEPT !.exists = FALSE]
  /\ UNCHANGED <<pending, Unremoved, remote, faults, history>>

\* The reading goes when its original is gone, and is kept otherwise.
deleteDocument ==
  /\ Removing("index") /\ remover' = Null
  /\ doc' = [doc EXCEPT !.exists = ~remover.ok]
  /\ UNCHANGED <<pending, Unremoved, remote, faults, history>>

-----------------------------------------------------------------------------
\* The page goes: a call in the air may still take effect.
Reload ==
  /\ Fault("reload") /\ history' = history \cup {"reloaded"}
  /\ pending' = FALSE /\ inFlight' = FALSE /\ run' = [r \in Runs |-> Null] /\ remover' = Null
  /\ object' \in {object} \cup {TRUE : r \in {r \in Runs : run[r] = "upload"}}
                        \cup {FALSE : x \in {x \in {"remove"} : Removing(x)}}
  /\ rows' \in {rows} \cup {rows + 1 : r \in {r \in Runs : run[r] = "insert"}}
                    \cup {0 : x \in {x \in {"rows"} : Removing(x)}}
  /\ UNCHANGED <<doc, starts>>

RunStep(r) ==
  \/ BackendFound(r) \/ BackendMissing(r) \/ uploadObject(r) \/ insertMetadata(r)
  \/ Cleanup(r) \/ Settle(r)

RemoveStep ==
  RemoveBackend \/ listFolder \/ removeObjects \/ deleteMetadataForDocument \/ deleteDocument

Next ==
  \/ \E r \in Runs : startOriginalBackup(r) \/ retryOriginalBackup(r) \/ RunStep(r)
  \/ removeStoredOriginal \/ RemoveStep \/ Reload

Spec == Init /\ [][Next]_vars

\* A call returns, one way or the other.
FairSpec == Spec /\ \A r \in Runs : WF_vars(RunStep(r))

-----------------------------------------------------------------------------
(* Correctness.                                                            *)

\* Every variable stays in its type.
TypeOK ==
  /\ doc \in Documents /\ pending \in BOOLEAN /\ inFlight \in BOOLEAN
  /\ run \in [Runs -> RunSteps \cup {Null}] /\ remover \in Removals \cup {Null}
  /\ object \in BOOLEAN /\ rows \in Nat
  /\ starts \in Nat /\ faults \in Nat /\ history \subseteq Happened

\* "Original stored" stands for an object and a row that names it, whatever failed,
\* was retried or was cut short before - until Remove is confirmed, and unless a
\* second click on Retry let two uploads overlap and one of them fail (originals.ts:
\* "only ever true after BOTH the object and its metadata row are persisted").
StoredIsBacked ==
  doc.originalStored /\ history \cap {"tried", "undone"} = {} => object /\ rows > 0

\* A document that was removed leaves neither object nor row behind, unless an upload
\* was at work when Remove was confirmed, or no backend was found to remove from.
RemovedLeavesNothing ==
  "tried" \in history /\ ~doc.exists /\ history \cap {"race", "blind"} = {} => ~object /\ rows = 0

\* Until the page is reloaded or Remove is confirmed, an original that is not stored
\* can be tried again: its File is still held.
CanTryAgain ==
  /\ starts > 0 /\ ~doc.originalStored /\ history \cap {"reloaded", "tried", "undone"} = {}
  => pending

\* An upload comes to an end: "Uploading original" is not shown for ever, neither here
\* nor, from a string a reload left behind, by a session that does not run it.
Uploading == doc.exists /\ doc.originalBackup = "uploading" /\ (pending \/ inFlight)
UploadsEnd == Uploading ~> ~Uploading
=============================================================================
