------------------------------- MODULE Actions -------------------------------
(***************************************************************************)
(* Next actions in the store of one device (src/lib/mvpStore.ts): their    *)
(* statuses, what blocks what, the session that works on one, deferrals    *)
(* that come back, and the occurrences of those that repeat.               *)
(*                                                                         *)
(* Every operation is one synchronous call of the store, so it is one      *)
(* step.  What a user can ask for is what the screens offer: the guards    *)
(* that are not in the store are in the component that calls it.  Titles,  *)
(* notes, links, pins, order, history entries and the fields that describe *)
(* a wait are left out: no step reads them.  Of the sessions only the      *)
(* current action of the active one is kept: no step reads the others.     *)
(***************************************************************************)
EXTENDS Recurrence

CONSTANTS
  Ids,        \* next actions that may be created
  Repeating,  \* bound: those a rule may be given to
  Dated,      \* bound: those a day may be given to
  Rules,      \* rules in use
  Offered,    \* bound: rules a user may change to
  DueDays,    \* days a user may type or pick
  Skews,      \* how far the day of createdAt, kept in UTC, is from today
  StartDays,  \* the day the model begins
  MaxDay,     \* bound: the last day of the model
  Ahead,      \* bound: how far ahead an occurrence is done
  MaxDone,    \* bound: occurrences of one action that are done
  NoAction

ASSUME ActionsAssumption ==
  /\ Repeating \subseteq Ids /\ Dated \subseteq Ids /\ NoAction \notin Ids
  /\ Offered \subseteq Rules
  /\ \A r \in Rules : isValidRule(r) /\ r # NoRule
  /\ DueDays \subseteq Days /\ StartDays \subseteq Days
  /\ \A z \in Skews : z \in Int
  /\ {MaxDay, Ahead, MaxDone} \subseteq Nat

VARIABLES
  today,    \* the local day
  acts,     \* nextActions
  edges,    \* actionDependencies: <<blocker, blocked>>
  done,     \* recurrenceCompletions: the days done, by action
  current   \* currentActionId of the active session
vars == <<today, acts, edges, done, current>>

Statuses == {"open", "in_progress", "waiting", "deferred", "completed", "cancelled"}
Live     == {"open", "in_progress", "waiting", "deferred"}
Action   == [status : Statuses \cup {"unborn", "deleted"}, until : Days \cup {NoDay},
             due : Days \cup {NoDay}, created : Days, rule : Rules \cup {NoRule}]

Stored == {i \in Ids : acts[i].status \in Statuses}
Alive  == {i \in Ids : acts[i].status \in Live}
Repeats(i) == acts[i].rule # NoRule

(* The records, their references and their days.  Nothing that is left of  *)
(* a deleted action names it.                                              *)
TypeOK ==
  /\ today \in Days
  /\ acts \in [Ids -> Action]
  /\ edges \subseteq Stored \X Stored
  /\ done \in [Ids -> SUBSET Days]
  /\ \A i \in Ids : done[i] # {} => i \in Stored
  /\ current \in Stored \cup {NoAction}

Unborn == [status |-> "unborn", until |-> NoDay, due |-> NoDay, created |-> 1, rule |-> NoRule]

Init ==
  /\ today \in StartDays
  /\ acts = [i \in Ids |-> Unborn]
  /\ edges = {}
  /\ done = [i \in Ids |-> {}]
  /\ current = NoAction

-----------------------------------------------------------------------------
(* One action at a time.                                                   *)

(* The days a user may name for it, or none.                               *)
DaysFor(i) == {NoDay} \cup (IF i \in Dated THEN DueDays ELSE {})

bumpAction(i, a) == acts' = [acts EXCEPT ![i] = a]

(* Fields that describe a status go when that status does.                 *)
shedUntil(a, to) == IF a.status = "deferred" /\ to # "deferred" THEN NoDay ELSE a.until

Moved(a, to) == [a EXCEPT !.status = to, !.until = shedUntil(a, to)]

Detached(i) == IF current = i THEN NoAction ELSE current

createAction(i) ==
  /\ acts[i].status = "unborn"
  /\ \E z \in Skews, due \in DaysFor(i) :
       /\ today + z \in Days
       /\ bumpAction(i, [Unborn EXCEPT !.status = "open", !.due = due, !.created = today + z])
  /\ UNCHANGED <<today, edges, done, current>>

(* Start, with or without a session: the active one if it is in the        *)
(* action's workspace, else a new one, which ends it.                      *)
startAction(i) ==
  /\ acts[i].status \in {"open", "waiting", "deferred"}
  /\ bumpAction(i, Moved(acts[i], "in_progress"))
  /\ current' \in {current, i}
  /\ UNCHANGED <<today, edges, done>>

pauseAction(i) ==
  /\ acts[i].status = "in_progress"
  /\ bumpAction(i, Moved(acts[i], "open"))
  /\ UNCHANGED <<today, edges, done, current>>

completeAction(i) ==
  /\ i \in Alive
  /\ bumpAction(i, Moved(acts[i], "completed"))
  /\ current' = Detached(i)
  /\ UNCHANGED <<today, edges, done>>

markActionWaiting(i) ==
  /\ i \in Alive /\ acts[i].status # "waiting"
  /\ bumpAction(i, [acts[i] EXCEPT !.status = "waiting"])
  /\ UNCHANGED <<today, edges, done, current>>

stopWaiting(i) ==
  /\ acts[i].status = "waiting"
  /\ bumpAction(i, [acts[i] EXCEPT !.status = "open"])
  /\ UNCHANGED <<today, edges, done, current>>

(* Until a day, or someday.  The replanning controls refuse it for a wait  *)
(* and for what repeats; an edit typed as a capture does not.              *)
deferAction(i) ==
  /\ i \in Alive
  /\ \E day \in DaysFor(i) :
       bumpAction(i, [acts[i] EXCEPT !.status = "deferred", !.until = day])
  /\ UNCHANGED <<today, edges, done, current>>

cancelAction(i) ==
  /\ i \in Stored /\ acts[i].status # "cancelled"
  /\ bumpAction(i, Moved(acts[i], "cancelled"))
  /\ UNCHANGED <<today, edges, done, current>>

reopenAction(i) ==
  /\ acts[i].status \in {"completed", "cancelled"}
  /\ bumpAction(i, [acts[i] EXCEPT !.status = "open"])
  /\ UNCHANGED <<today, edges, done, current>>

Restored(a) == [a EXCEPT !.status = "open", !.until = NoDay]

restoreAction(i) ==
  /\ acts[i].status \in {"completed", "cancelled", "deferred"}
  /\ bumpAction(i, Restored(acts[i]))
  /\ UNCHANGED <<today, edges, done, current>>

(* Giving deferred work a day brings it back; clearing a day does not.     *)
setActionDueDate(i) ==
  /\ i \in Stored
  /\ \E day \in DaysFor(i) \ {acts[i].due} :
       LET a == [acts[i] EXCEPT !.due = day]
       IN bumpAction(i, IF day # NoDay /\ a.status = "deferred" THEN Moved(a, "open") ELSE a)
  /\ UNCHANGED <<today, edges, done, current>>

(* Mutant: only the actions it blocks are freed of a deleted one.          *)
PruneOneSide(i) == {e \in edges : e[1] # i}

pruneDependencies(i) == {e \in edges : e[1] # i /\ e[2] # i}

deleteAction(i) ==
  /\ i \in Stored
  /\ bumpAction(i, [Unborn EXCEPT !.status = "deleted"])
  /\ edges' = pruneDependencies(i)
  /\ current' = Detached(i)
  /\ done' = [done EXCEPT ![i] = {}]
  /\ UNCHANGED today

-----------------------------------------------------------------------------
(* Several at once, whatever their statuses.                               *)

batchAction(S, op) ==
  /\ S # {}
  /\ acts' = [i \in Ids |->
                IF i \notin S THEN acts[i]
                ELSE CASE op = "mark_waiting" -> [acts[i] EXCEPT !.status = "waiting"]
                       [] op = "complete"     -> [acts[i] EXCEPT !.status = "completed"]
                       [] op = "cancel"       -> [acts[i] EXCEPT !.status = "cancelled"]
                       [] op = "restore"      -> Restored(acts[i])]
  /\ UNCHANGED <<today, edges, done, current>>

-----------------------------------------------------------------------------
(* Dependencies.                                                           *)

Closed(S) == \A e \in edges : e[1] \in S => e[2] \in S

(* Mutant: only a direct loop is seen.                                     *)
OnlyDirectCycle(blocker, blocked) == blocker = blocked \/ <<blocked, blocker>> \in edges

(* The search from blocked along the edges comes to blocker: every set     *)
(* that holds blocked and is closed under the edges holds blocker.         *)
wouldCreateCycle(blocker, blocked) ==
  \A S \in SUBSET Ids : blocked \in S /\ Closed(S) => blocker \in S

(* The picker leaves out what is linked already, in either direction, and  *)
(* what is cancelled; the plan refuses loops.                              *)
addActionDependency(blocker, blocked) ==
  /\ {blocker, blocked} \subseteq Stored
  /\ acts[blocker].status # "cancelled"
  /\ <<blocker, blocked>> \notin edges /\ <<blocked, blocker>> \notin edges
  /\ ~wouldCreateCycle(blocker, blocked)
  /\ edges' = edges \cup {<<blocker, blocked>>}
  /\ UNCHANGED <<today, acts, done, current>>

removeActionDependency(blocker, blocked) ==
  /\ <<blocker, blocked>> \in edges
  /\ edges' = edges \ {<<blocker, blocked>>}
  /\ UNCHANGED <<today, acts, done, current>>

(* Mutant: a cancelled blocker still blocks.                               *)
BlockedByCancelled(i) == \E e \in edges : e[2] = i /\ acts[e[1]].status # "completed"

isBlocked(i) == \E e \in edges : e[2] = i /\ e[1] \in Alive

-----------------------------------------------------------------------------
(* Repeating actions.                                                      *)

Anchor(i) == IF acts[i].due # NoDay THEN acts[i].due ELSE acts[i].created
occurrenceFor(i) == currentOccurrence(acts[i].rule, Anchor(i), today, done[i])

(* A rule is given when a capture is confirmed or corrected.               *)
setActionRecurrence(i) ==
  /\ i \in Alive
  /\ \E r \in Offered : bumpAction(i, [acts[i] EXCEPT !.rule = r])
  /\ UNCHANGED <<today, edges, done, current>>

(* Done for today, for the occurrence the action is asking for, or for a   *)
(* day named in a capture, whether or not the rule gives that day.         *)
completeOccurrence(i) ==
  /\ i \in Alive /\ Repeats(i)
  /\ Cardinality(done[i]) < MaxDone
  /\ \E day \in (DaysFor(i) \cup {today, occurrenceFor(i)}) \ (done[i] \cup {NoDay}) :
       /\ day <= today + Ahead
       /\ done' = [done EXCEPT ![i] = @ \cup {day}]
  /\ UNCHANGED <<today, acts, edges, current>>

uncompleteOccurrence(i) ==
  /\ \E day \in done[i] : done' = [done EXCEPT ![i] = @ \ {day}]
  /\ UNCHANGED <<today, acts, edges, current>>

(* What is left is an ordinary action, due when it was last asked for.     *)
stopActionRecurrence(i) ==
  /\ i \in Stored /\ Repeats(i)
  /\ bumpAction(i, [acts[i] EXCEPT !.rule = NoRule, !.due = occurrenceFor(i)])
  /\ UNCHANGED <<today, edges, done, current>>

-----------------------------------------------------------------------------
(* Sessions and days.                                                      *)

(* Another session is started, which ends this one, or this one is ended.  *)
LeaveSession ==
  /\ current # NoAction
  /\ current' = NoAction
  /\ UNCHANGED <<today, acts, edges, done>>

isDue(a) == a.status = "deferred" /\ a.until # NoDay /\ a.until <= today

(* On every load, and when Today or the queue is opened.                   *)
returnDueActions ==
  /\ \E i \in Ids : isDue(acts[i])
  /\ acts' = [i \in Ids |-> IF isDue(acts[i]) THEN Restored(acts[i]) ELSE acts[i]]
  /\ UNCHANGED <<today, edges, done, current>>

NextDay ==
  /\ today < MaxDay
  /\ today' = today + 1
  /\ UNCHANGED <<acts, edges, done, current>>

Next ==
  \/ \E i \in Ids :
       \/ createAction(i) \/ startAction(i) \/ pauseAction(i) \/ completeAction(i)
       \/ markActionWaiting(i) \/ stopWaiting(i) \/ deferAction(i) \/ cancelAction(i)
       \/ reopenAction(i) \/ restoreAction(i) \/ setActionDueDate(i) \/ deleteAction(i)
       \/ \E j \in Ids : addActionDependency(i, j) \/ removeActionDependency(i, j)
  \/ \E i \in Repeating :
       \/ setActionRecurrence(i) \/ completeOccurrence(i)
       \/ uncompleteOccurrence(i) \/ stopActionRecurrence(i)
  \/ \E S \in SUBSET Stored, op \in {"mark_waiting", "complete", "cancel", "restore"} :
       batchAction(S, op)
  \/ LeaveSession \/ returnDueActions \/ NextDay

Spec == Init /\ [][Next]_vars

-----------------------------------------------------------------------------
(* Properties.                                                             *)

(* No actions wait on each other in a ring, through finished ones or not:  *)
(* in every set of actions one has no blocker inside it.  Every operation  *)
(* that adds an edge must look along all of them, whatever was completed,  *)
(* reopened or deleted since they were drawn (dependencies.ts).            *)
Acyclic ==
  \A S \in (SUBSET Ids) \ {{}} : \E i \in S : \A e \in edges : e[2] = i => e[1] \notin S

(* Work is never all blocked: among any unfinished actions that include    *)
(* whatever unfinished action blocks one of them, one is not blocked.  So  *)
(* the Next list has something to show unless all of that waits or is put  *)
(* off, and a finished or deleted blocker frees what it blocked (queue.ts).*)
NextNeverStarves ==
  \A S \in (SUBSET Alive) \ {{}} :
    (\A e \in edges : e[2] \in S /\ e[1] \in Alive => e[1] \in S) => \E i \in S : ~isBlocked(i)

(* A day the rule means and that is not done.                              *)
IsOpen(i, d) == Occurs(acts[i].rule, Anchor(i), d) /\ d \notin done[i]

(* A repeating action that asks for a day asks for the first day its rule  *)
(* means, from today on, that is not done: whatever was done early, done   *)
(* on another day, undone, moved to another anchor or asked on another     *)
(* day, no occurrence is passed over and none that is done is asked for    *)
(* again (recurrence.ts).                                                  *)
AskedIsFirstOpen ==
  \A i \in Stored : Repeats(i) /\ occurrenceFor(i) # NoDay =>
    LET asked == occurrenceFor(i)
    IN asked >= today /\ IsOpen(i, asked) /\ \A d \in today..(asked - 1) : ~IsOpen(i, d)

(* And it asks for a day unless its rule gives none as far as the weekly   *)
(* search looks.                                                           *)
AsksForFirstOpen ==
  /\ AskedIsFirstOpen
  /\ \A i \in Stored : Repeats(i) /\ occurrenceFor(i) = NoDay =>
       \A d \in today..(today + MAX_SEARCH_DAYS) : ~IsOpen(i, d)

(* What that rests on: the searches look as far as each other, the walk    *)
(* goes past whatever is done, and the calendar does not end before.       *)
WithinReach ==
  /\ SearchesReach
  /\ MaxDone < MAX_SKIPS
  /\ \A d \in StartDays \cup {MaxDay} : d + MAX_SEARCH_DAYS <= LastDay

=============================================================================
