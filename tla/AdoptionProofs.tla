---------------------------- MODULE AdoptionProofs ----------------------------
(***************************************************************************)
(* Theorems about Adoption, for any devices, people and records and every  *)
(* bound: what a push may make of an account, the types with the           *)
(* database's constraints (TypeCorrect), that a snapshot is whole          *)
(* (WholeInv), that nobody's record reaches another's account (OwnInv),    *)
(* and that what was deleted stays deleted (LedgerInv).                    *)
(***************************************************************************)
EXTENDS Adoption, TLAPS

-----------------------------------------------------------------------------
(* One push.                                                               *)

\* What the database's constraints promise of an account.
Sound(acc) ==
  /\ acc \in Accounts
  /\ \A c \in Completions : acc.rows[c] # 0 =>
       /\ acc.rows[ActionOf[c]] # 0
       /\ \A e \in CompletionsOf(ActionOf[c]) \ {c} : acc.rows[e] = 0

LEMMA StoredFacts ==
  ASSUME NEW acc \in Accounts, NEW p \in People, NEW snap \in Values, NEW ups \in SUBSET Records
  PROVE  /\ Stored(acc, p, snap, ups) \in Accounts
         /\ Stored(acc, p, snap, ups).marks = acc.marks
         /\ \A r \in Records :
              /\ Stored(acc, p, snap, ups).rows[r] = IF r \in ups THEN snap[r] ELSE acc.rows[r]
              /\ Stored(acc, p, snap, ups).owner[r] = IF r \in ups THEN p ELSE acc.owner[r]
  <1>. DEFINE rows  == [r \in Records |-> IF r \in ups THEN snap[r] ELSE acc.rows[r]]
              owner == [r \in Records |-> IF r \in ups THEN p ELSE acc.owner[r]]
  <1>1. Stored(acc, p, snap, ups) = [rows |-> rows, owner |-> owner, marks |-> acc.marks]
    BY DEF Stored
  <1>2. rows \in Values /\ owner \in [Records -> People \cup {Null}]
    BY DEF Accounts, Values
  <1>. QED  BY <1>1, <1>2 DEF Accounts

\* A deletion takes the rows the person owns and the completions of those actions.
Cascade(acc, p, ids) ==
  {r \in ids : acc.owner[r] = p}
  \cup {c \in Completions : ActionOf[c] \in {r \in ids : acc.owner[r] = p}}

LEMMA DeletedFacts ==
  ASSUME NEW acc \in Accounts, NEW p \in People, NEW ids \in SUBSET Records
  PROVE  /\ Deleted(acc, p, ids) \in Accounts /\ Deleted(acc, p, ids).marks = acc.marks
         /\ \A r \in Records :
              /\ Deleted(acc, p, ids).rows[r] =
                   IF r \in Cascade(acc, p, ids) THEN 0 ELSE acc.rows[r]
              /\ Deleted(acc, p, ids).owner[r] =
                   IF r \in Cascade(acc, p, ids) THEN Null ELSE acc.owner[r]
  <1>. DEFINE rows  == [r \in Records |-> IF r \in Cascade(acc, p, ids) THEN 0 ELSE acc.rows[r]]
              owner == [r \in Records |-> IF r \in Cascade(acc, p, ids) THEN Null ELSE acc.owner[r]]
  <1>1. Deleted(acc, p, ids) = [rows |-> rows, owner |-> owner, marks |-> acc.marks]
    BY DEF Deleted, Cascade
  <1>2. rows \in Values /\ owner \in [Records -> People \cup {Null}]
    BY DEF Accounts, Values
  <1>. QED  BY <1>1, <1>2 DEF Accounts

LEMMA MarkedFacts ==
  ASSUME NEW acc \in Accounts, NEW p \in People, NEW ids \in SUBSET Records, clock \in Nat
  PROVE  /\ Marked(acc, p, ids) \in Accounts
         /\ Marked(acc, p, ids).rows = acc.rows /\ Marked(acc, p, ids).owner = acc.owner
         /\ \A q \in People, r \in Records :
              Marked(acc, p, ids).marks[q][r] =
                IF q = p /\ r \in ids THEN clock ELSE acc.marks[q][r]
  BY DEF Marked, Accounts, Values

\* A push that the database takes, but for what it refuses as stale, breaks no constraint;
LEMMA StoredSound ==
  ASSUME NEW acc, Sound(acc), NEW p \in People, NEW snap \in Values, NEW known \in Values,
         NEW ids \in {Actions, Completions}, Accepts(acc, p, Upserts(ids, snap, known)),
         NEW st \in SUBSET MayBeStale(acc, Upserts(ids, snap, known), known)
  PROVE  Sound(Stored(acc, p, snap, Upserts(ids, snap, known) \ st))
  <1>. DEFINE ups == Upserts(ids, snap, known)
              new == Stored(acc, p, snap, ups \ st)
  <1>1. /\ ids \in SUBSET Records /\ ups \in SUBSET ids /\ ups \ st \in SUBSET Records
        /\ \A r \in ups : snap[r] # 0
    BY DEF Records, Upserts
  <1>2. new \in Accounts
        /\ \A r \in Records : new.rows[r] = IF r \in ups \ st THEN snap[r] ELSE acc.rows[r]
    BY <1>1, StoredFacts DEF Sound
  <1>3. \A c \in Completions : c \in Records /\ ActionOf[c] \in Actions /\ ActionOf[c] \in Records
    BY DataAssumption DEF Records
  <1>4. \A c \in Completions : c \in ups \ st <=> c \in ups
    BY DataAssumption DEF MayBeStale
  <1>5. CASE ids = Actions
    <2>1. \A c \in Completions : new.rows[c] = acc.rows[c]
      BY <1>1, <1>2, <1>3, <1>5, DataAssumption
    <2>2. \A a \in Actions : acc.rows[a] # 0 => new.rows[a] # 0
      BY <1>1, <1>2 DEF Records
    <2>. QED  BY <1>2, <1>3, <2>1, <2>2 DEF Sound, CompletionsOf
  <1>6. CASE ids = Completions
    <2>1. \A a \in Actions : new.rows[a] = acc.rows[a]
      BY <1>1, <1>2, <1>6, DataAssumption DEF Records
    <2>2. ASSUME NEW c \in Completions, new.rows[c] # 0
          PROVE  /\ acc.rows[ActionOf[c]] # 0
                 /\ \A e \in CompletionsOf(ActionOf[c]) \ {c} : new.rows[e] = 0
      <3>1. CASE c \in ups
        BY <1>2, <1>3, <1>4, <3>1 DEF Accepts, CompletionsOf
      <3>2. CASE c \notin ups
        <4>1. acc.rows[c] # 0
          BY <1>2, <1>3, <2>2, <3>2
        <4>2. ASSUME NEW e \in CompletionsOf(ActionOf[c]) \ {c} PROVE e \notin ups
          BY <4>1, <4>2 DEF Accepts, CompletionsOf
        <4>. QED  BY <1>2, <1>3, <4>1, <4>2 DEF Sound, CompletionsOf
      <3>. QED  BY <3>1, <3>2
    <2>. QED  BY <1>2, <1>3, <2>1, <2>2 DEF Sound
  <1>. QED  BY <1>5, <1>6

\* nor does a deletion, which takes the completions with their action.
LEMMA DeletedSound ==
  ASSUME NEW acc, Sound(acc), NEW p \in People, NEW ids \in SUBSET Records
  PROVE  Sound(Deleted(acc, p, ids))
  <1>1. /\ Deleted(acc, p, ids) \in Accounts
        /\ \A r \in Records :
             Deleted(acc, p, ids).rows[r] = IF r \in Cascade(acc, p, ids) THEN 0 ELSE acc.rows[r]
    BY DeletedFacts DEF Sound
  <1>2. \A c \in Completions : /\ c \in Records /\ ActionOf[c] \in Records
                               /\ ActionOf[c] \notin Completions
                               /\ ActionOf[c] \in Cascade(acc, p, ids) => c \in Cascade(acc, p, ids)
    BY DataAssumption DEF Records, Cascade
  <1>3. ASSUME NEW c \in Completions, Deleted(acc, p, ids).rows[c] # 0
        PROVE  /\ Deleted(acc, p, ids).rows[ActionOf[c]] # 0
               /\ \A e \in CompletionsOf(ActionOf[c]) \ {c} : Deleted(acc, p, ids).rows[e] = 0
    BY <1>1, <1>2, <1>3 DEF Sound, CompletionsOf
  <1>. QED  BY <1>1, <1>3 DEF Sound

\* What a push that deletes and marks these rows has deleted.
Died(acc, p, dels) ==
  {<<p, r, acc.rows[r]>> : r \in {q \in dels : acc.rows[q] # 0 /\ acc.owner[q] = p}}

\* How far such a push may have come: stored, and deleted, and marked.
CarriedOut(x, acc, p, snap, ups, dels) ==
  LET landed == Stored(acc, p, snap, ups)
      gone   == Deleted(landed, p, dels)
  IN  \/ x.acc \in {landed, gone} /\ x.dead = {}
      \/ x.acc = Marked(gone, p, dels) /\ x.dead = Died(acc, p, dels)

\* The ways a push may end: not carried out, or carried out up to a point.
LEMMA OutcomeKinds ==
  ASSUME NEW acc, NEW p, NEW snap, NEW known, NEW ids,
         NEW x \in Outcomes(acc, p, snap, known, ids)
  PROVE  /\ x.ok \in BOOLEAN /\ x.faults \in Nat /\ x.half = (~x.ok /\ x.acc # acc)
         /\ \/ x.acc = acc /\ x.dead = {}
            \/ /\ Accepts(acc, p, Upserts(ids, snap, known))
               /\ \E st \in SUBSET MayBeStale(acc, Upserts(ids, snap, known), known) :
                    CarriedOut(x, acc, p, snap, Upserts(ids, snap, known) \ st,
                               Deletes(ids, snap, known))
  <1>. DEFINE ups  == Upserts(ids, snap, known)
              dels == Deletes(ids, snap, known)
              landed(stale) == Stored(acc, p, snap, ups \ stale)
              gone(stale) == Deleted(landed(stale), p, dels)
              died == Died(acc, p, dels)
              end(after, dead0, ok, n) ==
                [acc |-> after, dead |-> dead0, ok |-> ok, half |-> ~ok /\ after # acc, faults |-> n]
  <1>1. \/ x \in {end(acc, {}, FALSE, 0), end(acc, {}, FALSE, 1)}
        \/ /\ Accepts(acc, p, ups)
           /\ \/ \E st \in SUBSET MayBeStale(acc, ups, known) :
                   x = end(Marked(gone(st), p, dels), died, TRUE, 0)
              \/ x \in {end(landed({}), {}, FALSE, 1), end(gone({}), {}, FALSE, 1),
                        end(Marked(gone({}), p, dels), died, FALSE, 1)}
    BY DEF Outcomes, Died
  <1>2. {} \in SUBSET MayBeStale(acc, ups, known)
    OBVIOUS
  <1>3. ASSUME NEW after, NEW dead0, NEW ok \in BOOLEAN, NEW n \in {0, 1},
               x = end(after, dead0, ok, n)
        PROVE  /\ x.acc = after /\ x.dead = dead0 /\ x.ok = ok
               /\ x.ok \in BOOLEAN /\ x.faults \in Nat /\ x.half = (~x.ok /\ x.acc # acc)
    BY <1>3
  <1>4. CASE x \in {end(acc, {}, FALSE, 0), end(acc, {}, FALSE, 1)}
    BY <1>3, <1>4
  <1>5. ASSUME Accepts(acc, p, ups), NEW st \in SUBSET MayBeStale(acc, ups, known),
               NEW ok \in BOOLEAN, NEW n \in {0, 1},
               \/ x = end(landed(st), {}, ok, n) \/ x = end(gone(st), {}, ok, n)
               \/ x = end(Marked(gone(st), p, dels), died, ok, n)
        PROVE  /\ x.ok \in BOOLEAN /\ x.faults \in Nat /\ x.half = (~x.ok /\ x.acc # acc)
               /\ CarriedOut(x, acc, p, snap, ups \ st, dels)
    <2>1. \/ x.acc \in {landed(st), gone(st)} /\ x.dead = {}
          \/ x.acc = Marked(gone(st), p, dels) /\ x.dead = died
      <3>. HIDE DEF landed, gone, died, end
      <3>. QED  BY <1>3, <1>5
    <2>2. /\ x.ok \in BOOLEAN /\ x.faults \in Nat /\ x.half = (~x.ok /\ x.acc # acc)
      <3>. HIDE DEF landed, gone, died, end
      <3>. QED  BY <1>3, <1>5
    <2>. QED  BY <2>1, <2>2 DEF CarriedOut
  <1>6. ASSUME Accepts(acc, p, ups),
               \/ \E st \in SUBSET MayBeStale(acc, ups, known) :
                    x = end(Marked(gone(st), p, dels), died, TRUE, 0)
               \/ x \in {end(landed({}), {}, FALSE, 1), end(gone({}), {}, FALSE, 1),
                         end(Marked(gone({}), p, dels), died, FALSE, 1)}
        PROVE  /\ x.ok \in BOOLEAN /\ x.faults \in Nat /\ x.half = (~x.ok /\ x.acc # acc)
               /\ \E st \in SUBSET MayBeStale(acc, ups, known) :
                    CarriedOut(x, acc, p, snap, ups \ st, dels)
    <2>1. CASE \E st \in SUBSET MayBeStale(acc, ups, known) :
                 x = end(Marked(gone(st), p, dels), died, TRUE, 0)
      <3>1. PICK st \in SUBSET MayBeStale(acc, ups, known) :
                   x = end(Marked(gone(st), p, dels), died, TRUE, 0)
        BY <2>1
      <3>. HIDE DEF landed, gone, died, end, ups, dels
      <3>. QED  BY <1>5, <1>6, <3>1
    <2>2. CASE x \in {end(landed({}), {}, FALSE, 1), end(gone({}), {}, FALSE, 1),
                      end(Marked(gone({}), p, dels), died, FALSE, 1)}
      <3>. HIDE DEF landed, gone, died, end, ups, dels
      <3>. QED  BY <1>2, <1>5, <1>6, <2>2
    <2>. QED  BY <1>6, <2>1, <2>2
  <1>. QED  BY <1>1, <1>4, <1>6
\* What a push may make of one record: it stays, goes, or becomes what the snapshot has.
RowBecomes(acc, new, p, snap, known, r) ==
  /\ \/ new.rows[r] \in {acc.rows[r], 0}
     \/ snap[r] # 0 /\ snap[r] # known[r] /\ new.rows[r] = snap[r]
  /\ \/ new.owner[r] \in {acc.owner[r], Null}
     \/ snap[r] # 0 /\ snap[r] # known[r] /\ new.owner[r] = p

\* A marker is set to the present, or left alone.
MarksGrow(acc, new) ==
  \A q \in People, r \in Records : new.marks[q][r] \in {acc.marks[q][r], clock}

LEMMA OutcomeFacts ==
  ASSUME NEW acc, Sound(acc), NEW p \in People, NEW snap \in Values, NEW known \in Values,
         NEW ids \in {Actions, Completions}, clock \in Nat,
         NEW x \in Outcomes(acc, p, snap, known, ids)
  PROVE  /\ Sound(x.acc) /\ x.ok \in BOOLEAN /\ x.faults \in Nat
         /\ x.half = (~x.ok /\ x.acc # acc)
         /\ MarksGrow(acc, x.acc)
         /\ \A r \in Records :
              /\ RowBecomes(acc, x.acc, p, snap, known, r)
              /\ r \notin ids => x.acc.rows[r] \in {acc.rows[r], 0}
                                 /\ x.acc.owner[r] \in {acc.owner[r], Null}
         /\ \A e \in x.dead : \E r \in ids :
              /\ e = <<p, r, acc.rows[r]>> /\ acc.rows[r] # 0 /\ x.acc.marks[p][r] = clock
  <1>. DEFINE ups  == Upserts(ids, snap, known)
              dels == Deletes(ids, snap, known)
  <1>0. /\ ids \in SUBSET Records /\ ups \in SUBSET ids /\ dels \in SUBSET ids
        /\ \A r \in ups : snap[r] # 0 /\ snap[r] # known[r]
    BY DEF Records, Upserts, Deletes
  <1>1. /\ x.ok \in BOOLEAN /\ x.faults \in Nat /\ x.half = (~x.ok /\ x.acc # acc)
        /\ \/ x.acc = acc /\ x.dead = {}
           \/ /\ Accepts(acc, p, ups)
              /\ \E st \in SUBSET MayBeStale(acc, ups, known) :
                   CarriedOut(x, acc, p, snap, ups \ st, dels)
    BY OutcomeKinds
  <1>2. CASE x.acc = acc /\ x.dead = {}
    BY <1>1, <1>2 DEF MarksGrow, RowBecomes
  <1>3. ASSUME Accepts(acc, p, ups), NEW st \in SUBSET MayBeStale(acc, ups, known),
               CarriedOut(x, acc, p, snap, ups \ st, dels)
        PROVE  /\ Sound(x.acc) /\ MarksGrow(acc, x.acc)
               /\ \A r \in Records :
                    /\ RowBecomes(acc, x.acc, p, snap, known, r)
                    /\ r \notin ids => x.acc.rows[r] \in {acc.rows[r], 0}
                                       /\ x.acc.owner[r] \in {acc.owner[r], Null}
               /\ \A e \in x.dead : \E r \in ids :
                    /\ e = <<p, r, acc.rows[r]>> /\ acc.rows[r] # 0 /\ x.acc.marks[p][r] = clock
    <2>. DEFINE landed == Stored(acc, p, snap, ups \ st)
                gone   == Deleted(landed, p, dels)
                marked == Marked(gone, p, dels)
    <2>0. /\ acc \in Accounts /\ ups \ st \in SUBSET Records /\ dels \in SUBSET Records
      BY <1>0 DEF Sound
    <2>1. Sound(landed)
      BY <1>3, StoredSound
    <2>2. /\ landed.marks = acc.marks
          /\ \A r \in Records :
               /\ landed.rows[r] = IF r \in ups \ st THEN snap[r] ELSE acc.rows[r]
               /\ landed.owner[r] = IF r \in ups \ st THEN p ELSE acc.owner[r]
      <3>. HIDE DEF ups
      <3>. QED  BY <2>0, StoredFacts
    <2>3. \/ x.acc \in {landed, gone} /\ x.dead = {}
          \/ x.acc = marked /\ x.dead = Died(acc, p, dels)
      BY <1>3 DEF CarriedOut
    <2>. HIDE DEF landed, dels
    <2>4. Sound(gone)
      BY <2>0, <2>1, DeletedSound
    <2>5. /\ gone.marks = acc.marks
          /\ \A r \in Records : gone.rows[r] \in {landed.rows[r], 0}
                                /\ gone.owner[r] \in {landed.owner[r], Null}
      BY <2>0, <2>1, <2>2, DeletedFacts DEF Sound
    <2>. HIDE DEF gone
    <2>6. /\ marked \in Accounts /\ marked.rows = gone.rows /\ marked.owner = gone.owner
          /\ \A q \in People, r \in Records :
               marked.marks[q][r] = IF q = p /\ r \in dels THEN clock ELSE gone.marks[q][r]
      BY <2>0, <2>4, MarkedFacts DEF Sound
    <2>7. Sound(marked)
      BY <2>4, <2>6 DEF Sound
    <2>. HIDE DEF marked
    <2>8. Sound(x.acc) /\ MarksGrow(acc, x.acc)
      BY <2>1, <2>2, <2>3, <2>4, <2>5, <2>6, <2>7 DEF MarksGrow
    <2>9. ASSUME NEW r \in Records
          PROVE  /\ \/ x.acc.rows[r] \in {acc.rows[r], 0}
                    \/ r \in ups /\ x.acc.rows[r] = snap[r]
                 /\ \/ x.acc.owner[r] \in {acc.owner[r], Null}
                    \/ r \in ups /\ x.acc.owner[r] = p
      <3>. HIDE DEF ups
      <3>. QED  BY <2>2, <2>3, <2>5, <2>6
    <2>10. ASSUME NEW e \in x.dead
           PROVE  \E r \in ids :
                    /\ e = <<p, r, acc.rows[r]>> /\ acc.rows[r] # 0 /\ x.acc.marks[p][r] = clock
      <3>1. x.acc = marked /\ e \in Died(acc, p, dels)
        BY <2>3, <2>10
      <3>2. PICK r \in dels : e = <<p, r, acc.rows[r]>> /\ acc.rows[r] # 0
        BY <3>1 DEF Died
      <3>3. r \in ids /\ r \in Records
        BY <1>0, <2>0, <3>2 DEF dels
      <3>. QED  BY <2>6, <3>1, <3>2, <3>3
    <2>11. ASSUME NEW r \in Records
           PROVE  /\ RowBecomes(acc, x.acc, p, snap, known, r)
                  /\ r \notin ids => x.acc.rows[r] \in {acc.rows[r], 0}
                                     /\ x.acc.owner[r] \in {acc.owner[r], Null}
      <3>. HIDE DEF ups
      <3>. QED  BY <1>0, <2>9 DEF RowBecomes
    <2>. QED  BY <2>8, <2>10, <2>11
  <1>. QED
    <2>. HIDE DEF ups, dels
    <2>. QED  BY <1>1, <1>2, <1>3

\* What a flush makes of the account and of what the device keeps.
LEMMA KnownType == ASSUME TypeOK, NEW d \in Devices PROVE Known(d) \in Values
  BY DEF TypeOK, Known, Nothing, Values

\* What becomes of the device: the domains that succeeded are its new baseline, the
\* snapshot stays queued unless both did, and with no doubt left of it a domain that
\* failed has changed no row but by the cascade.
Done(r, okA, okC) == (r \in Actions /\ okA) \/ (r \in Completions /\ okC)

FlushKeeps(d, okA, okC, half) ==
  /\ base' = [base EXCEPT ![d] = [r \in Records |-> IF Done(r, okA, okC) THEN queued[d][r]
                                                                         ELSE Known(d)[r]]]
  /\ queued' = [queued EXCEPT ![d] = IF okA /\ okC THEN Null ELSE @]
  /\ doubts' = [doubts EXCEPT ![d] =
                  (IF okA /\ okC THEN {} ELSE @) \cup (IF half THEN {"half"} ELSE {})
                  \cup (@ \cap {"apart"}) \cup (IF "early" \in @ THEN {"apart"} ELSE {})]
  /\ ~half => \A r \in Records : ~Done(r, okA, okC) => account'.rows[r] \in {account.rows[r], 0}

LEMMA FlushFacts ==
  ASSUME TypeOK, NEW d \in Devices, Flush(d)
  PROVE  /\ user[d] \in People /\ queued[d] \in Values /\ queued[d] # Null /\ adoption[d] = Idle
         /\ Sound(account') /\ faults' \in Nat
         /\ \A r \in Records : RowBecomes(account, account', user[d], queued[d], Known(d), r)
         /\ MarksGrow(account, account')
         /\ dead \subseteq dead'
         /\ \A e \in dead' \ dead : \E r \in Records :
              /\ e = <<user[d], r, account.rows[r]>> /\ account.rows[r] # 0
              /\ account'.marks[user[d]][r] = clock
         /\ had' = had \cup {<<r, account'.rows[r]>> : r \in {q \in Records : account'.rows[q] # 0}}
         /\ \E okA, okC, half \in BOOLEAN : FlushKeeps(d, okA, okC, half)
  <1>0. /\ user[d] \in People /\ queued[d] \in Values /\ Known(d) \in Values /\ clock \in Nat
        /\ Sound(account) /\ faults \in Nat
    BY KnownType DEF Flush, TypeOK, Sound
  <1>1. PICK x \in Outcomes(account, user[d], queued[d], Known(d), Actions) :
          \E y \in Outcomes(x.acc, user[d], queued[d], Known(d), Completions) :
            /\ faults' = faults + x.faults + y.faults
            /\ account' = y.acc /\ dead' = dead \cup x.dead \cup y.dead
            /\ had' = had \cup {<<r, y.acc.rows[r]>> : r \in {q \in Records : y.acc.rows[q] # 0}}
            /\ base' = [base EXCEPT ![d] =
                          [r \in Records |-> IF (r \in Actions /\ x.ok) \/ (r \in Completions /\ y.ok)
                                             THEN queued[d][r] ELSE Known(d)[r]]]
            /\ queued' = [queued EXCEPT ![d] = IF x.ok /\ y.ok THEN Null ELSE @]
            /\ doubts' = [doubts EXCEPT ![d] =
                            (IF x.ok /\ y.ok THEN {} ELSE @)
                            \cup (IF x.half \/ y.half THEN {"half"} ELSE {})
                            \cup (@ \cap {"apart"}) \cup (IF "early" \in @ THEN {"apart"} ELSE {})]
    BY DEF Flush
  <1>2. PICK y \in Outcomes(x.acc, user[d], queued[d], Known(d), Completions) :
            /\ faults' = faults + x.faults + y.faults
            /\ account' = y.acc /\ dead' = dead \cup x.dead \cup y.dead
            /\ had' = had \cup {<<r, y.acc.rows[r]>> : r \in {q \in Records : y.acc.rows[q] # 0}}
            /\ base' = [base EXCEPT ![d] =
                          [r \in Records |-> IF (r \in Actions /\ x.ok) \/ (r \in Completions /\ y.ok)
                                             THEN queued[d][r] ELSE Known(d)[r]]]
            /\ queued' = [queued EXCEPT ![d] = IF x.ok /\ y.ok THEN Null ELSE @]
            /\ doubts' = [doubts EXCEPT ![d] =
                            (IF x.ok /\ y.ok THEN {} ELSE @)
                            \cup (IF x.half \/ y.half THEN {"half"} ELSE {})
                            \cup (@ \cap {"apart"}) \cup (IF "early" \in @ THEN {"apart"} ELSE {})]
    BY <1>1
  <1>3. /\ Sound(x.acc) /\ x.ok \in BOOLEAN /\ x.faults \in Nat
        /\ x.half = (~x.ok /\ x.acc # account) /\ MarksGrow(account, x.acc)
        /\ \A r \in Records :
             /\ RowBecomes(account, x.acc, user[d], queued[d], Known(d), r)
             /\ r \notin Actions => x.acc.rows[r] \in {account.rows[r], 0}
                                    /\ x.acc.owner[r] \in {account.owner[r], Null}
        /\ \A e \in x.dead : \E r \in Actions :
             /\ e = <<user[d], r, account.rows[r]>> /\ account.rows[r] # 0
             /\ x.acc.marks[user[d]][r] = clock
    BY <1>0, <1>1, OutcomeFacts
  <1>4. /\ Sound(y.acc) /\ y.ok \in BOOLEAN /\ y.faults \in Nat
        /\ y.half = (~y.ok /\ y.acc # x.acc) /\ MarksGrow(x.acc, y.acc)
        /\ \A r \in Records :
             /\ RowBecomes(x.acc, y.acc, user[d], queued[d], Known(d), r)
             /\ r \notin Completions => y.acc.rows[r] \in {x.acc.rows[r], 0}
                                        /\ y.acc.owner[r] \in {x.acc.owner[r], Null}
        /\ \A e \in y.dead : \E r \in Completions :
             /\ e = <<user[d], r, x.acc.rows[r]>> /\ x.acc.rows[r] # 0
             /\ y.acc.marks[user[d]][r] = clock
    BY <1>0, <1>2, <1>3, OutcomeFacts
  <1>5. \A r \in Records : RowBecomes(account, account', user[d], queued[d], Known(d), r)
    BY <1>2, <1>3, <1>4 DEF RowBecomes
  <1>6. MarksGrow(account, account')
    BY <1>2, <1>3, <1>4 DEF MarksGrow
  <1>7. ASSUME NEW e \in dead' \ dead
        PROVE  \E r \in Records : /\ e = <<user[d], r, account.rows[r]>> /\ account.rows[r] # 0
                                  /\ account'.marks[user[d]][r] = clock
    <2>1. CASE e \in x.dead
      <3>1. PICK r \in Actions : /\ e = <<user[d], r, account.rows[r]>> /\ account.rows[r] # 0
                                 /\ x.acc.marks[user[d]][r] = clock
        BY <1>3, <2>1
      <3>2. r \in Records /\ account'.marks[user[d]][r] = clock
        BY <1>0, <1>2, <1>4, <3>1 DEF MarksGrow, Records
      <3>. QED  BY <3>1, <3>2
    <2>2. CASE e \in y.dead
      <3>1. PICK r \in Completions : /\ e = <<user[d], r, x.acc.rows[r]>> /\ x.acc.rows[r] # 0
                                     /\ y.acc.marks[user[d]][r] = clock
        BY <1>4, <2>2
      <3>2. r \in Records /\ r \notin Actions
        BY <3>1, DataAssumption DEF Records
      <3>3. x.acc.rows[r] = account.rows[r]
        BY <1>3, <3>1, <3>2
      <3>. QED  BY <1>2, <3>1, <3>2, <3>3
    <2>. QED  BY <1>2, <1>7, <2>1, <2>2
  <1>8. ASSUME ~(x.half \/ y.half), NEW r \in Records,
               ~Done(r, x.ok, y.ok)
        PROVE  account'.rows[r] \in {account.rows[r], 0}
    <2>1. CASE r \in Actions
      BY <1>2, <1>3, <1>4, <1>8, <2>1, DataAssumption DEF Done
    <2>2. CASE r \in Completions
      BY <1>2, <1>3, <1>4, <1>8, <2>2, DataAssumption DEF Done
    <2>. QED  BY <2>1, <2>2 DEF Records
  <1>9. queued[d] # Null /\ adoption[d] = Idle /\ (x.half \/ y.half) \in BOOLEAN
    BY <1>3, <1>4 DEF Flush
  <1>10. Sound(account') /\ faults' \in Nat
    BY <1>0, <1>2, <1>3, <1>4
  <1>11. FlushKeeps(d, x.ok, y.ok, x.half \/ y.half)
    BY <1>2, <1>8 DEF FlushKeeps, Done
  <1>12. \E okA, okC, half \in BOOLEAN : FlushKeeps(d, okA, okC, half)
    BY <1>3, <1>4, <1>9, <1>11
  <1>13. /\ dead \subseteq dead'
         /\ had' = had \cup {<<r, account'.rows[r]>> : r \in {q \in Records : account'.rows[q] # 0}}
    BY <1>2
  <1>. QED  BY <1>0, <1>5, <1>6, <1>7, <1>9, <1>10, <1>12, <1>13

-----------------------------------------------------------------------------
(* The inductive invariants.                                               *)

\* A session event is handled for somebody, and a page holds the data of the person whose
\* account it installed last.
Handling == \A d \in Devices :
  /\ adoption[d] # Idle => user[d] # Null
  /\ migratedFor[d] # Null /\ settledFor[d] \in {Null, migratedFor[d]}

\* Everything in these values was made by p, or by nobody in particular.
MadeBy(p, values) == \A r \in Records : values[r] # 0 => author[r] \in {p, "anyone"}

\* What a device shows is its person's, what it pushes too, unless the queue is older than
\* the adoption, and what it has loaded is the person's who signs in.
OwnInv ==
  /\ TypeOK /\ Handling
  /\ \A r \in Records : account.owner[r] # Null => author[r] \in {account.owner[r], "anyone"}
  /\ \A d \in Devices :
       /\ MadeBy(migratedFor[d], local[d])
       /\ queued[d] # Null /\ "early" \notin doubts[d] => MadeBy(migratedFor[d], queued[d])
       /\ adoption[d].phase \in {"completions", "ledger"} => MadeBy(user[d], adoption[d].loaded)

\* A snapshot is whole when it has the action of each of its completions.
Whole(values) == \A c \in Completions : values[c] # 0 => values[ActionOf[c]] # 0

WholeInv ==
  TypeOK /\ \A d \in Devices \ torn : Whole(local[d]) /\ (queued[d] # Null => Whole(queued[d]))

\* No account has ever held this value.
Fresh(r, v) == v = 0 \/ <<r, v>> \notin had

\* Nothing is stamped later than now; what the accounts hold, or a load has read of them,
\* they have held; and a deletion that left its marker is still in the ledger.
PastOK ==
  /\ \A d \in Devices, r \in Records :
       /\ local[d][r] <= clock /\ (queued[d] # Null => queued[d][r] <= clock)
       /\ adoption[d].phase \in {"completions", "ledger"} => ~Fresh(r, adoption[d].loaded[r])
                                                             \/ adoption[d].loaded[r] = 0
  /\ \A r \in Records : account.rows[r] # 0 => ~Fresh(r, account.rows[r])
  /\ \A e \in had : e[2] <= clock
  /\ \A p \in People, r \in Records, v \in Nat : <<p, r, v>> \in dead =>
       /\ v # 0 /\ <<r, v>> \in had /\ account.marks[p][r] >= v

\* A value two devices hold has been in an account: there is no other way from one to
\* the other.
HasIt(d, r, v) == local[d][r] = v \/ (queued[d] # Null /\ queued[d][r] = v)
SharedWasHad ==
  \A d \in Devices : \A e \in Devices \ {d}, r \in Records, v \in Nat :
    HasIt(d, r, v) /\ HasIt(e, r, v) => ~Fresh(r, v) \/ v = 0

\* What a page shows and pushes is what it knows the account to have, or no account has
\* ever had it: so nothing it pushes can have been deleted.
Aware(d) ==
  settledFor[d] # Null =>
    /\ base[d] # Null
    /\ doubts[d] \cap {"early", "apart"} = {} => \A r \in Records :
         \/ local[d][r] = (IF queued[d] = Null THEN base[d][r] ELSE queued[d][r])
         \/ Fresh(r, local[d][r])
    /\ doubts[d] = {} /\ queued[d] # Null => \A r \in Records :
         queued[d][r] = base[d][r] \/ Fresh(r, queued[d][r])
    /\ doubts[d] \subseteq {"early"} => \A r \in Records :
         local[d][r] = base[d][r] \/ Fresh(r, local[d][r])

LedgerInv == TypeOK /\ Handling /\ PastOK /\ SharedWasHad /\ \A d \in Devices : Aware(d)

-----------------------------------------------------------------------------
(* The steps.                                                              *)

\* What the person does to a device: a record stays, goes, or is changed now, and one
\* changed now was there before or is made now; and what was whole is whole.
Changes(d, values) ==
  /\ Save(d, values) /\ Tick
  /\ \A r \in Records :
       /\ values[r] \in {local[d][r], 0, clock + 1}
       /\ \/ author'[r] = author[r] /\ (values[r] = 0 \/ local[d][r] # 0)
          \/ author[r] = Null /\ author'[r] = Maker(d)
          \/ author'[r] = author[r] /\ values[r] = local[d][r]
  /\ Whole(local[d]) => Whole(values)

LEMMA RecordKinds ==
  /\ Actions \subseteq Records /\ Completions \subseteq Records
  /\ \A r \in Records : r \in Actions \/ r \in Completions
  /\ \A c \in Completions : c \notin Actions /\ ActionOf[c] \in Actions /\ ActionOf[c] \notin Completions
  BY DataAssumption DEF Records

LEMMA MakerType == ASSUME TypeOK, NEW d \in Devices PROVE Maker(d) \in People \cup {"anyone"}
  BY DEF TypeOK, Maker

LEMMA PersonFacts ==
  ASSUME TypeOK, NEW d \in Devices, Person(d)
  PROVE  /\ author' \in [Records -> People \cup {Null, "anyone"}]
         /\ \E values \in Values : Changes(d, values)
  <1>. USE RecordKinds, MakerType
  <1>0. local[d] \in Values /\ clock \in Nat /\ author \in [Records -> People \cup {Null, "anyone"}]
    BY DEF TypeOK
  <1>1. ASSUME NEW a \in Actions, CreateAction(d, a)
        PROVE  /\ author' \in [Records -> People \cup {Null, "anyone"}]
               /\ Changes(d, [local[d] EXCEPT ![a] = clock + 1])
    BY <1>0, <1>1 DEF CreateAction, New, Changes, Whole, Values, Tick
  <1>2. ASSUME NEW a \in Actions, EditAction(d, a)
        PROVE  author' = author /\ Changes(d, [local[d] EXCEPT ![a] = clock + 1])
    BY <1>0, <1>2 DEF EditAction, Changes, Whole, Values, Tick
  <1>3. ASSUME NEW a \in Actions, DeleteAction(d, a)
        PROVE  /\ author' = author
               /\ Changes(d, [r \in Records |-> IF r = a \/ r \in CompletionsOf(a) THEN 0
                                                                                   ELSE local[d][r]])
    BY <1>0, <1>3 DEF DeleteAction, Changes, Whole, Values, CompletionsOf, Tick
  <1>4. ASSUME NEW a \in Actions, UncompleteOccurrence(d, a)
        PROVE  /\ author' = author
               /\ Changes(d, [r \in Records |-> IF r \in CompletionsOf(a) THEN 0 ELSE local[d][r]])
    BY <1>0, <1>4 DEF UncompleteOccurrence, Changes, Whole, Values, CompletionsOf, Tick
  <1>5. ASSUME NEW c \in Completions, CompleteOccurrence(d, c)
        PROVE  /\ author' \in [Records -> People \cup {Null, "anyone"}]
               /\ Changes(d, [local[d] EXCEPT ![c] = clock + 1, ![ActionOf[c]] = clock + 1])
    BY <1>0, <1>5 DEF CompleteOccurrence, New, Changes, Whole, Values, Tick
  <1>6. \A values : Changes(d, values) /\ local' \in [Devices -> Values] => values \in Values
    BY DEF Changes, Save, TypeOK
  <1>7. /\ \A a \in Actions : [local[d] EXCEPT ![a] = clock + 1] \in Values
        /\ \A a \in Actions : [r \in Records |-> IF r = a \/ r \in CompletionsOf(a) THEN 0
                                                                ELSE local[d][r]] \in Values
        /\ \A a \in Actions : [r \in Records |-> IF r \in CompletionsOf(a) THEN 0
                                                                ELSE local[d][r]] \in Values
        /\ \A c \in Completions :
             [local[d] EXCEPT ![c] = clock + 1, ![ActionOf[c]] = clock + 1] \in Values
    BY <1>0 DEF Values
  <1>. QED  BY <1>0, <1>1, <1>2, <1>3, <1>4, <1>5, <1>7 DEF Person

LEMMA LoadedType ==
  ASSUME TypeOK, NEW d \in Devices, adoption[d].phase \in {"completions", "ledger"}
  PROVE  adoption[d].loaded \in Values
  BY DEF TypeOK, Adoptions, Idle

\* What an adoption installs: a record as it was loaded, or one of the person's that only
\* this device has and that the ledger, if it was read, does not say is deleted.
Installs(d, new, seen) ==
  LET p      == user[d]
      loaded == adoption[d].loaded
  IN  /\ local' = [local EXCEPT ![d] = new]
      /\ base' = [base EXCEPT ![d] = IF new # loaded THEN loaded ELSE new]
      /\ queued' = [queued EXCEPT ![d] = IF new # loaded THEN new ELSE @]
      /\ "early" \in doubts'[d] <=> queued[d] # Null /\ new = loaded
      /\ "unread" \in doubts'[d] <=> ~seen
      /\ \/ "lost" \in doubts'[d]
         \/ \A r \in Records : loaded[r] = 0 /\ new[r] # 0
              => Fresh(r, new[r]) \/ <<p, r, new[r]>> \in dead
      /\ "apart" \notin doubts'[d]
      /\ \A r \in Records :
           \/ new[r] = loaded[r]
           \/ /\ loaded[r] = 0 /\ migratedFor[d] \in {Null, p} /\ new[r] = local[d][r]
              /\ seen => ~shouldSuppress(r, new[r], account.marks[p])
      /\ Whole(local[d]) /\ Whole(loaded) => Whole(new)

LEMMA SuppressFacts ==
  ASSUME NEW values \in Values, NEW marks \in Values
  PROVE  /\ suppressDeleted(values, marks) \in Values
         /\ \A r \in Records :
              \/ suppressDeleted(values, marks)[r] = 0
              \/ /\ suppressDeleted(values, marks)[r] = values[r]
                 /\ ~shouldSuppress(r, values[r], marks)
         /\ Whole(values) => Whole(suppressDeleted(values, marks))
  <1>. DEFINE own == {r \in Records : values[r] # 0 /\ shouldSuppress(r, values[r], marks)}
  <1>1. suppressDeleted(values, marks) =
          [r \in Records |-> IF r \in own \/ (r \in Completions /\ ActionOf[r] \in own)
                             THEN 0 ELSE values[r]]
    BY DEF suppressDeleted
  <1>2. \A r \in Records : r \in own <=> values[r] # 0 /\ shouldSuppress(r, values[r], marks)
    OBVIOUS
  <1>. HIDE DEF own
  <1>. QED  BY <1>1, <1>2, RecordKinds DEF Values, Whole

LEMMA MergeFacts ==
  ASSUME NEW loaded \in Values, NEW mine \in Values
  PROVE  /\ mergeLocalOnly(loaded, mine) \in Values
         /\ \A r \in Records : mergeLocalOnly(loaded, mine)[r] =
                                 IF loaded[r] # 0 THEN loaded[r] ELSE mine[r]
         /\ Whole(loaded) /\ Whole(mine) => Whole(mergeLocalOnly(loaded, mine))
  BY RecordKinds DEF mergeLocalOnly, Values, Whole

LEMMA InstallFacts ==
  ASSUME TypeOK, NEW d \in Devices, user[d] # Null, Install(d)
  PROVE  /\ doubts' \in [Devices -> SUBSET Doubts]
         /\ \A e \in Devices \ {d} : doubts'[e] = doubts[e]
         /\ \E new \in Values, seen \in BOOLEAN : Installs(d, new, seen)
  <1>. DEFINE p == user[d]
              loaded == adoption[d].loaded
              mine(seen) == IF seen THEN suppressDeleted(local[d], account.marks[p]) ELSE local[d]
              to(seen) == Reconciled(loaded, mine(seen), localIsOurs(d, p))
              early(seen) == IF queued[d] # Null /\ ~to(seen).push THEN {"early"} ELSE {}
              lost(seen) == IF \E r \in Records :
                                 /\ loaded[r] = 0 /\ to(seen).state[r] # 0
                                 /\ <<r, to(seen).state[r]>> \in had
                                 /\ <<p, r, to(seen).state[r]>> \notin dead
                            THEN {"lost"} ELSE {}
  <1>0. /\ p \in People /\ loaded \in Values /\ local[d] \in Values /\ account.marks[p] \in Values
    BY LoadedType DEF TypeOK, Install, Accounts
  <1>1. PICK seen \in BOOLEAN :
          /\ local' = [local EXCEPT ![d] = to(seen).state]
          /\ base' = [base EXCEPT ![d] = IF to(seen).push THEN to(seen).baseline ELSE to(seen).state]
          /\ queued' = [queued EXCEPT ![d] = IF to(seen).push THEN to(seen).state ELSE @]
          /\ doubts' = [doubts EXCEPT ![d] =
                           early(seen) \cup lost(seen) \cup (IF seen THEN {} ELSE {"unread"})]
    BY DEF Install
  <1>. DEFINE new == to(seen).state
              merged == mergeLocalOnly(loaded, mine(seen))
  <1>2. /\ new = IF localIsOurs(d, p) THEN merged ELSE loaded
        /\ to(seen).baseline = loaded /\ to(seen).push = (new # loaded)
    BY DEF Reconciled
  <1>3. /\ mine(seen) \in Values
        /\ \A r \in Records : \/ mine(seen)[r] = 0
                              \/ /\ mine(seen)[r] = local[d][r]
                                 /\ seen => ~shouldSuppress(r, local[d][r], account.marks[p])
        /\ Whole(local[d]) => Whole(mine(seen))
    <2>1. CASE seen
      <3>1. mine(seen) = suppressDeleted(local[d], account.marks[p])
        BY <2>1
      <3>. HIDE DEF mine
      <3>. QED  BY <1>0, <3>1, SuppressFacts
    <2>2. CASE ~seen
      BY <1>0, <2>2
    <2>. QED  BY <2>1, <2>2
  <1>. HIDE DEF mine
  <1>4. /\ merged \in Values
        /\ \A r \in Records : merged[r] = IF loaded[r] # 0 THEN loaded[r] ELSE mine(seen)[r]
        /\ Whole(loaded) /\ Whole(mine(seen)) => Whole(merged)
    BY <1>0, <1>3, MergeFacts
  <1>. HIDE DEF merged
  <1>5. /\ new \in Values
        /\ \A r \in Records :
             \/ new[r] = loaded[r]
             \/ /\ loaded[r] = 0 /\ migratedFor[d] \in {Null, p} /\ new[r] = local[d][r]
                /\ seen => ~shouldSuppress(r, new[r], account.marks[p])
        /\ Whole(local[d]) /\ Whole(loaded) => Whole(new)
    <2>1. CASE localIsOurs(d, p)
      <3>1. new = merged
        BY <1>2, <2>1
      <3>. HIDE DEF to
      <3>. QED  BY <1>3, <1>4, <2>1, <3>1 DEF localIsOurs
    <2>2. CASE ~localIsOurs(d, p)
      <3>1. new = loaded
        BY <1>2, <2>2
      <3>. HIDE DEF to
      <3>. QED  BY <1>0, <3>1
    <2>. QED  BY <2>1, <2>2
  <1>6. /\ early(seen) = (IF queued[d] # Null /\ new = loaded THEN {"early"} ELSE {})
        /\ local' = [local EXCEPT ![d] = new]
        /\ base' = [base EXCEPT ![d] = IF new # loaded THEN loaded ELSE new]
        /\ queued' = [queued EXCEPT ![d] = IF new # loaded THEN new ELSE @]
    BY <1>1, <1>2
  <1>7. \/ "lost" \in lost(seen)
        \/ \A r \in Records : loaded[r] = 0 /\ new[r] # 0
             => Fresh(r, new[r]) \/ <<p, r, new[r]>> \in dead
    BY DEF Fresh
  <1>8. lost(seen) \in SUBSET {"lost"}
    OBVIOUS
  <1>. HIDE DEF to, early, lost
  <1>9. /\ doubts'[d] = early(seen) \cup lost(seen) \cup (IF seen THEN {} ELSE {"unread"})
        /\ doubts' \in [Devices -> SUBSET Doubts]
        /\ \A e \in Devices \ {d} : doubts'[e] = doubts[e]
    BY <1>1, <1>6, <1>8 DEF TypeOK, Doubts
  <1>10. /\ "early" \in doubts'[d] <=> queued[d] # Null /\ new = loaded
         /\ "unread" \in doubts'[d] <=> ~seen
         /\ "lost" \in lost(seen) => "lost" \in doubts'[d]
         /\ "apart" \notin doubts'[d]
    BY <1>6, <1>8, <1>9
  <1>11. Installs(d, new, seen)
    BY <1>5, <1>6, <1>7, <1>10 DEF Installs
  <1>. QED  BY <1>5, <1>9, <1>11

-----------------------------------------------------------------------------
(* Types, and what the database's constraints promise.                     *)

\* The initial states, by whom they belong to and what the account holds.
Starts(p, known) ==
  LET values == [r \in Records |-> IF r \in known THEN 1 ELSE 0]
  IN  /\ user = [d \in Devices |-> p] /\ migratedFor = user /\ settledFor = user
      /\ local = [d \in Devices |-> values] /\ base = local
      /\ queued = [d \in Devices |-> Null] /\ adoption = [d \in Devices |-> Idle]
      /\ account = [rows |-> values,
                    owner |-> [r \in Records |-> IF r \in known THEN p ELSE Null],
                    marks |-> [q \in People |-> Nothing]]
      /\ author = [r \in Records |-> IF r \in known THEN p ELSE Null]
      /\ had = {<<r, 1>> : r \in known}
      /\ dead = {} /\ torn = {} /\ doubts = [d \in Devices |-> {}]
      /\ clock = 1 /\ faults = 0 /\ sessions = 0

LEMMA InitFacts == Init => \E p \in People, known \in SUBSET Actions : Starts(p, known)
  BY DEF Init, Starts

LEMMA TypeInit == Init => TypeOK /\ Handling
  <1>. SUFFICES ASSUME Init PROVE TypeOK /\ Handling
    OBVIOUS
  <1>1. PICK p \in People, known \in SUBSET Actions : Starts(p, known)
    BY InitFacts
  <1>. DEFINE values == [r \in Records |-> IF r \in known THEN 1 ELSE 0]
              owner  == [r \in Records |-> IF r \in known THEN p ELSE Null]
              marks  == [q \in People |-> Nothing]
  <1>2. values \in Values /\ owner \in [Records -> People \cup {Null}] /\ marks \in [People -> Values]
    BY DEF Values, Nothing
  <1>3. account = [rows |-> values, owner |-> owner, marks |-> marks]
    BY <1>1 DEF Starts
  <1>4. account \in Accounts /\ account.rows = values
    BY <1>2, <1>3 DEF Accounts
  <1>5. \A c \in Completions : account.rows[c] = 0
    BY <1>4, RecordKinds
  <1>6. /\ local \in [Devices -> Values] /\ base \in [Devices -> Values \cup {Null}]
        /\ author \in [Records -> People \cup {Null, "anyone"}] /\ had \subseteq Records \X Nat
    BY <1>1, <1>2, RecordKinds DEF Starts
  <1>. HIDE DEF values, owner, marks
  <1>7. /\ user = [d \in Devices |-> p] /\ migratedFor = user /\ settledFor = user
        /\ queued = [d \in Devices |-> Null] /\ adoption = [d \in Devices |-> Idle]
        /\ dead = {} /\ torn = {} /\ doubts = [d \in Devices |-> {}]
        /\ clock = 1 /\ faults = 0 /\ sessions = 0
    BY <1>1 DEF Starts
  <1>8. Handling
    BY <1>7, NullAssumption DEF Handling
  <1>. QED  BY <1>4, <1>5, <1>6, <1>7, <1>8 DEF TypeOK, Adoptions

\* Type correctness, with the account apart.
Kept ==
  /\ user \in [Devices -> People \cup {Null}] /\ migratedFor \in [Devices -> People \cup {Null}]
  /\ settledFor \in [Devices -> People \cup {Null}]
  /\ local \in [Devices -> Values] /\ base \in [Devices -> Values \cup {Null}]
  /\ queued \in [Devices -> Values \cup {Null}] /\ adoption \in [Devices -> Adoptions]
  /\ author \in [Records -> People \cup {Null, "anyone"}]
  /\ had \subseteq Records \X Nat /\ dead \subseteq People \X Records \X Nat
  /\ doubts \in [Devices -> SUBSET Doubts]
  /\ torn \subseteq Devices /\ clock \in Nat /\ faults \in Nat /\ sessions \in Nat

LEMMA TypeParts == TypeOK <=> Kept /\ Sound(account)
  BY DEF TypeOK, Kept, Sound

LEMMA TypeStep == TypeOK /\ Handling /\ [Next]_vars => TypeOK' /\ Handling'
  <1>. SUFFICES ASSUME TypeOK, Handling, [Next]_vars PROVE Kept' /\ Sound(account)' /\ Handling'
    BY DEF TypeOK, Kept, Sound
  <1>0. Kept /\ Sound(account)
    BY TypeParts
  <1>1. ASSUME NEW d \in Devices, Person(d) PROVE Kept' /\ Sound(account)' /\ Handling'
    <2>1. PICK values \in Values : Changes(d, values)
      BY <1>1, PersonFacts
    <2>2. author' \in [Records -> People \cup {Null, "anyone"}]
      BY <1>1, PersonFacts
    <2>3. local' \in [Devices -> Values] /\ queued' \in [Devices -> Values \cup {Null}]
          /\ doubts' \in [Devices -> SUBSET Doubts] /\ clock' \in Nat
      BY <1>0, <2>1 DEF Changes, Save, Kept, Tick
    <2>4. UNCHANGED <<user, migratedFor, base, adoption, settledFor, account, faults, sessions,
                      had, dead, torn>>
      BY <2>1 DEF Changes, Save
    <2>. QED  BY <1>0, <2>2, <2>3, <2>4 DEF Kept, Sound, Handling
  <1>2. ASSUME NEW d \in Devices, Flush(d) PROVE Kept' /\ Sound(account)' /\ Handling'
    <2>1. /\ user[d] \in People /\ queued[d] \in Values /\ Sound(account') /\ faults' \in Nat
          /\ \A e \in dead' \ dead : \E r \in Records : e = <<user[d], r, account.rows[r]>>
          /\ had' = had \cup {<<r, account'.rows[r]>> : r \in {q \in Records : account'.rows[q] # 0}}
          /\ \E okA, okC, half \in BOOLEAN : FlushKeeps(d, okA, okC, half)
      BY <1>2, FlushFacts
    <2>2. PICK okA \in BOOLEAN, okC \in BOOLEAN, half \in BOOLEAN : FlushKeeps(d, okA, okC, half)
      BY <2>1
    <2>3. [r \in Records |-> IF Done(r, okA, okC) THEN queued[d][r] ELSE Known(d)[r]] \in Values
      BY <2>1, KnownType DEF Values
    <2>4. base' \in [Devices -> Values \cup {Null}] /\ queued' \in [Devices -> Values \cup {Null}]
      BY <1>0, <2>1, <2>2, <2>3 DEF FlushKeeps, Kept
    <2>5. doubts' \in [Devices -> SUBSET Doubts]
      <3>. DEFINE new == (IF okA /\ okC THEN {} ELSE doubts[d]) \cup (IF half THEN {"half"} ELSE {})
                         \cup (doubts[d] \cap {"apart"})
                         \cup (IF "early" \in doubts[d] THEN {"apart"} ELSE {})
      <3>1. doubts' = [doubts EXCEPT ![d] = new]
        BY <2>2 DEF FlushKeeps
      <3>2. new \in SUBSET Doubts
        BY <1>0 DEF Kept, Doubts
      <3>. HIDE DEF new
      <3>. QED  BY <1>0, <3>1, <3>2 DEF Kept
    <2>6. had' \subseteq Records \X Nat
      BY <1>0, <2>1 DEF Kept, Sound, Accounts, Values
    <2>7. dead' \subseteq People \X Records \X Nat
      BY <1>0, <2>1 DEF Kept, Sound, Accounts, Values
    <2>8. author' \in [Records -> People \cup {Null, "anyone"}]
      BY <1>0, <1>2 DEF Flush, Carried, Kept
    <2>9. UNCHANGED <<user, migratedFor, local, adoption, settledFor, clock, sessions, torn>>
      BY <1>2 DEF Flush
    <2>10. Sound(account)'
      BY <2>1 DEF Sound
    <2>11. Kept'
      BY <1>0, <2>1, <2>4, <2>5, <2>6, <2>7, <2>8, <2>9 DEF Kept
    <2>12. Handling'
      BY <2>9 DEF Handling
    <2>. QED  BY <2>10, <2>11, <2>12
  <1>3. ASSUME NEW d \in Devices, LoadActions(d) PROVE Kept' /\ Sound(account)' /\ Handling'
    <2>1. Read(user[d], Actions) \in Values
      BY <1>0 DEF Read, Sound, Accounts, Values
    <2>2. adoption' \in [Devices -> Adoptions]
      BY <1>0, <1>3, <2>1 DEF LoadActions, Kept, Adoptions
    <2>3. adoption[d] # Idle /\ \A e \in Devices \ {d} : adoption'[e] = adoption[e]
      BY <1>0, <1>3 DEF LoadActions, Idle, Kept
    <2>4. UNCHANGED <<user, migratedFor, local, base, queued, settledFor, doubts, account, clock,
                      author, had, dead, torn, faults, sessions>>
      BY <1>3 DEF LoadActions, AdoptionUnchanged, pastVars
    <2>. QED  BY <1>0, <2>2, <2>3, <2>4 DEF Kept, Sound, Handling
  <1>4. ASSUME NEW d \in Devices, LoadCompletions(d) PROVE Kept' /\ Sound(account)' /\ Handling'
    <2>1. Read(user[d], Completions) \in Values /\ adoption[d].loaded \in Values
      BY <1>0, <1>4, LoadedType DEF Read, Sound, Accounts, Values, LoadCompletions
    <2>2. [r \in Records |-> IF r \in Actions THEN adoption[d].loaded[r]
                                              ELSE Read(user[d], Completions)[r]] \in Values
      BY <2>1 DEF Values
    <2>3. adoption' \in [Devices -> Adoptions]
      BY <1>0, <1>4, <2>2 DEF LoadCompletions, Kept, Adoptions
    <2>4. adoption[d] # Idle /\ \A e \in Devices \ {d} : adoption'[e] = adoption[e]
      BY <1>0, <1>4 DEF LoadCompletions, Idle, Kept
    <2>5. UNCHANGED <<user, migratedFor, local, base, queued, settledFor, doubts, account, clock,
                      author, had, dead, torn, faults, sessions>>
      BY <1>4 DEF LoadCompletions, AdoptionUnchanged, pastVars
    <2>. QED  BY <1>0, <2>3, <2>4, <2>5 DEF Kept, Sound, Handling
  <1>5. ASSUME NEW d \in Devices, LoadFails(d) PROVE Kept' /\ Sound(account)' /\ Handling'
    BY <1>0, <1>5 DEF LoadFails, AdoptionUnchanged, pastVars, Fault, Kept, Sound, Handling, Adoptions
  <1>6. ASSUME NEW d \in Devices, Install(d) PROVE Kept' /\ Sound(account)' /\ Handling'
    <2>1. user[d] # Null /\ user[d] \in People /\ adoption[d].loaded \in Values
      BY <1>0, <1>6, LoadedType DEF Install, Handling, Idle, Kept
    <2>2. PICK new \in Values, seen \in BOOLEAN : Installs(d, new, seen)
      BY <1>6, <2>1, InstallFacts
    <2>3. /\ local' \in [Devices -> Values] /\ base' \in [Devices -> Values \cup {Null}]
          /\ queued' \in [Devices -> Values \cup {Null}]
      BY <1>0, <2>1, <2>2 DEF Installs, Kept
    <2>4. doubts' \in [Devices -> SUBSET Doubts]
      BY <1>6, <2>1, InstallFacts
    <2>5. /\ UNCHANGED <<user, account, clock, author, had, dead, sessions>>
          /\ migratedFor' = [migratedFor EXCEPT ![d] = user[d]]
          /\ settledFor' = [settledFor EXCEPT ![d] = user[d]]
          /\ adoption' = [adoption EXCEPT ![d] = Idle]
          /\ torn' \in {torn, torn \cup {d}}
      BY <1>6 DEF Install
    <2>6. faults' \in Nat
      BY <1>0, <1>6 DEF Install, Fault, Kept
    <2>. QED  BY <1>0, <2>1, <2>3, <2>4, <2>5, <2>6 DEF Kept, Sound, Handling, Adoptions
  <1>7. ASSUME NEW d \in Devices, Refresh(d) PROVE Kept' /\ Sound(account)' /\ Handling'
    BY <1>0, <1>7 DEF Refresh, SessionEvent, Begin, AdoptionUnchanged, pastVars, Kept, Sound,
       Handling, Adoptions
  <1>8. ASSUME NEW d \in Devices, SignOut(d) PROVE Kept' /\ Sound(account)' /\ Handling'
    BY <1>0, <1>8 DEF SignOut, pastVars, boundVars, Kept, Sound, Handling
  <1>9. ASSUME NEW d \in Devices, NEW p \in People, SignIn(d, p)
        PROVE  Kept' /\ Sound(account)' /\ Handling'
    BY <1>0, <1>9, NullAssumption DEF SignIn, SessionEvent, Begin, pastVars, Kept, Sound,
       Handling, Adoptions
  <1>10. ASSUME NEW d \in Devices, Reload(d) PROVE Kept' /\ Sound(account)' /\ Handling'
    BY <1>0, <1>10 DEF Reload, SessionEvent, pastVars, Kept, Sound, Handling, Adoptions
  <1>11. CASE UNCHANGED vars
    BY <1>0, <1>11 DEF vars, deviceVars, boundVars, pastVars, Kept, Sound, Handling
  <1>. QED
    BY <1>1, <1>2, <1>3, <1>4, <1>5, <1>6, <1>7, <1>8, <1>9, <1>10, <1>11 DEF Next, Session, Events

\* The types, a completion has its action, and an occurrence is recorded once, whatever
\* the devices push and however their pushes end.
THEOREM TypeCorrect == Spec => []TypeOK
  <1>1. Init => TypeOK /\ Handling
    BY TypeInit
  <1>2. TypeOK /\ Handling /\ [Next]_vars => (TypeOK /\ Handling)'
    BY TypeStep
  <1>. QED  BY <1>1, <1>2, PTL DEF Spec

-----------------------------------------------------------------------------
(* A snapshot is whole.                                                    *)

LEMMA WholeInit == Init => WholeInv
  <1>. SUFFICES ASSUME Init PROVE WholeInv
    OBVIOUS
  <1>1. /\ \A d \in Devices : queued[d] = Null
        /\ \E known \in SUBSET Actions :
             local = [d \in Devices |-> [r \in Records |-> IF r \in known THEN 1 ELSE 0]]
    BY DEF Init
  <1>2. \A d \in Devices : Whole(local[d])
    BY <1>1, RecordKinds DEF Whole
  <1>. QED  BY <1>1, <1>2, TypeInit DEF WholeInv

LEMMA WholeStep == WholeInv /\ Handling /\ [Next]_vars => WholeInv'
  <1>. SUFFICES ASSUME WholeInv, Handling, [Next]_vars
                PROVE  \A d \in (Devices \ torn)' : Whole(local[d])' /\ ((queued[d] # Null)' => Whole(queued[d])')
    BY TypeStep DEF WholeInv, Whole
  <1>. DEFINE Good(d) == Whole(local[d]) /\ (queued[d] # Null => Whole(queued[d]))
              GoodNext(d) == Whole(local'[d]) /\ (queued'[d] # Null => Whole(queued'[d]))
  <1>0. TypeOK /\ \A d \in Devices \ torn : Good(d)
    BY DEF WholeInv
  <1>1. ASSUME NEW d \in Devices, Person(d) PROVE \A e \in Devices \ torn' : GoodNext(e)
    <2>1. PICK values \in Values : Changes(d, values)
      BY <1>0, <1>1, PersonFacts
    <2>2. /\ local' = [local EXCEPT ![d] = values] /\ torn' = torn
          /\ queued' \in {queued, [queued EXCEPT ![d] = values]}
          /\ Whole(local[d]) => Whole(values)
      BY <2>1 DEF Changes, Save
    <2>. QED  BY <1>0, <2>2 DEF TypeOK
  <1>2. ASSUME NEW d \in Devices, Flush(d) PROVE \A e \in Devices \ torn' : GoodNext(e)
    <2>1. PICK okA \in BOOLEAN, okC \in BOOLEAN, half \in BOOLEAN : FlushKeeps(d, okA, okC, half)
      BY <1>0, <1>2, FlushFacts
    <2>2. /\ local' = local /\ torn' = torn
          /\ queued' \in {queued, [queued EXCEPT ![d] = Null]}
      BY <1>0, <1>2, <2>1 DEF FlushKeeps, Flush, TypeOK
    <2>. QED  BY <1>0, <2>2 DEF TypeOK
  <1>3. ASSUME NEW d \in Devices, Install(d) PROVE \A e \in Devices \ torn' : GoodNext(e)
    <2>1. user[d] # Null
      BY <1>3 DEF Install, Handling, Idle
    <2>2. PICK new \in Values, seen \in BOOLEAN : Installs(d, new, seen)
      BY <1>0, <1>3, <2>1, InstallFacts
    <2>3. torn' = IF ~Whole(adoption[d].loaded) THEN torn \cup {d} ELSE torn
      BY <1>3 DEF Install, Whole
    <2>4. /\ local' = [local EXCEPT ![d] = new]
          /\ queued' \in {queued, [queued EXCEPT ![d] = new]}
          /\ Whole(local[d]) /\ Whole(adoption[d].loaded) => Whole(new)
      BY <1>0, <2>2 DEF Installs, TypeOK
    <2>. QED  BY <1>0, <2>3, <2>4 DEF TypeOK
  <1>4. ASSUME NEW d \in Devices, Reload(d) PROVE \A e \in Devices \ torn' : GoodNext(e)
    BY <1>0, <1>4 DEF Reload, pastVars, TypeOK
  <1>5. ASSUME UNCHANGED <<local, queued, torn>> PROVE \A e \in Devices \ torn' : GoodNext(e)
    BY <1>0, <1>5
  <1>6. ASSUME NEW d \in Devices,
               \/ LoadActions(d) \/ LoadCompletions(d) \/ LoadFails(d)
               \/ Refresh(d) \/ SignOut(d) \/ \E p \in People : SignIn(d, p)
        PROVE  UNCHANGED <<local, queued, torn>>
    BY <1>6 DEF LoadActions, LoadCompletions, LoadFails, Refresh, SignOut, SignIn,
       AdoptionUnchanged, pastVars
  <1>7. UNCHANGED vars => UNCHANGED <<local, queued, torn>>
    BY DEF vars, deviceVars, pastVars
  <1>8. \A e \in Devices \ torn' : GoodNext(e)
    <2>. HIDE DEF GoodNext
    <2>. QED  BY <1>1, <1>2, <1>3, <1>4, <1>5, <1>6, <1>7 DEF Next, Session, Events
  <1>. QED  BY <1>8 DEF Whole

\* No device queues a completion without its action, unless its load was torn.
THEOREM WholeCorrect == Spec => []PushedHaveActions
  <1>1. Init => WholeInv /\ Handling
    BY TypeInit, WholeInit
  <1>2. WholeInv /\ Handling /\ [Next]_vars => (WholeInv /\ Handling)'
    BY WholeStep, TypeStep DEF WholeInv
  <1>3. WholeInv => PushedHaveActions
    BY DEF WholeInv, Whole, PushedHaveActions
  <1>. QED  BY <1>1, <1>2, <1>3, PTL DEF Spec

-----------------------------------------------------------------------------
(* Each person's own account.                                              *)

\* Once a record is made, its maker does not change, but to nobody in particular.
AuthorsKept == \A r \in Records : author[r] # Null => author'[r] \in {author[r], "anyone"}

LEMMA MadeByKept ==
  ASSUME AuthorsKept, NEW p \in People, NEW values, MadeBy(p, values)
  PROVE  \A r \in Records : values[r] # 0 => author'[r] \in {p, "anyone"}
  BY NullAssumption DEF AuthorsKept, MadeBy

\* The parts of OwnInv.
AccountOwn == \A r \in Records : account.owner[r] # Null => author[r] \in {account.owner[r], "anyone"}
DeviceOwn(d) ==
  /\ MadeBy(migratedFor[d], local[d])
  /\ queued[d] # Null /\ "early" \notin doubts[d] => MadeBy(migratedFor[d], queued[d])
  /\ adoption[d].phase \in {"completions", "ledger"} => MadeBy(user[d], adoption[d].loaded)

LEMMA OwnParts == OwnInv <=> TypeOK /\ Handling /\ AccountOwn /\ \A d \in Devices : DeviceOwn(d)
  BY DEF OwnInv, AccountOwn, DeviceOwn

LEMMA Somebody ==
  ASSUME TypeOK, Handling, NEW d \in Devices
  PROVE  /\ migratedFor[d] \in People
         /\ adoption[d].phase # "idle" => user[d] \in People
         /\ user[d] # Null /\ settledFor[d] = user[d] => migratedFor[d] = user[d]
         /\ adoption[d].phase = "idle" <=> adoption[d] = Idle
  BY DEF TypeOK, Handling, Idle, Adoptions

\* A device that a step does not touch keeps what it had.
LEMMA OwnUntouched ==
  ASSUME TypeOK, Handling, AuthorsKept, NEW d \in Devices, DeviceOwn(d),
         user'[d] = user[d], migratedFor'[d] = migratedFor[d], local'[d] = local[d],
         queued'[d] = queued[d], doubts'[d] = doubts[d], adoption'[d] = adoption[d]
  PROVE  DeviceOwn(d)'
  BY Somebody, MadeByKept DEF DeviceOwn, MadeBy

LEMMA AccountUntouched ==
  ASSUME AuthorsKept, AccountOwn, account' = account PROVE AccountOwn'
  BY NullAssumption DEF AuthorsKept, AccountOwn

LEMMA OwnInit == Init => OwnInv
  <1>. SUFFICES ASSUME Init PROVE OwnInv
    OBVIOUS
  <1>1. PICK p \in People, known \in SUBSET Actions : Starts(p, known)
    BY InitFacts
  <1>2. \A r \in Records : account.owner[r] # Null => author[r] = account.owner[r]
    BY <1>1 DEF Starts
  <1>3. \A d \in Devices : MadeBy(p, local[d])
    BY <1>1 DEF Starts, MadeBy
  <1>4. \A d \in Devices : migratedFor[d] = p /\ queued[d] = Null /\ adoption[d] = Idle
    BY <1>1 DEF Starts
  <1>. QED  BY <1>2, <1>3, <1>4, TypeInit DEF OwnInv, Idle

LEMMA OwnStep == OwnInv /\ [Next]_vars => OwnInv'
  <1>. SUFFICES ASSUME OwnInv, [Next]_vars PROVE AccountOwn' /\ \A e \in Devices : DeviceOwn(e)'
    BY TypeStep DEF OwnInv, AccountOwn, DeviceOwn
  <1>0. TypeOK /\ Handling /\ AccountOwn /\ \A e \in Devices : DeviceOwn(e)
    BY OwnParts
  <1>. DEFINE Goal == AccountOwn' /\ \A e \in Devices : DeviceOwn(e)'
  <1>1. ASSUME NEW d \in Devices, Person(d) PROVE Goal
    <2>1. PICK values \in Values : Changes(d, values)
      BY <1>0, <1>1, PersonFacts
    <2>2. /\ UNCHANGED <<user, migratedFor, adoption, account>>
          /\ local' = [local EXCEPT ![d] = values]
          /\ \/ user[d] = Null /\ UNCHANGED <<queued, doubts>>
             \/ queued' = [queued EXCEPT ![d] = values] /\ doubts' = [doubts EXCEPT ![d] = @ \ {"early"}]
          /\ \A r \in Records :
               \/ author'[r] = author[r] /\ (values[r] = 0 \/ local[d][r] # 0)
               \/ author[r] = Null /\ author'[r] = Maker(d)
               \/ author'[r] = author[r] /\ values[r] = local[d][r]
      BY <2>1 DEF Changes, Save
    <2>3. AuthorsKept
      BY <2>2 DEF AuthorsKept
    <2>4. Maker(d) \in {migratedFor[d], "anyone"}
      BY <1>0, Somebody DEF Maker
    <2>5. MadeBy(migratedFor[d], local[d]) /\ migratedFor[d] \in People
      BY <1>0, Somebody DEF DeviceOwn
    <2>6. \A r \in Records : values[r] # 0 => author'[r] \in {migratedFor[d], "anyone"}
      BY <2>2, <2>4, <2>5 DEF MadeBy
    <2>7. MadeBy(migratedFor[d], values)'
      BY <2>2, <2>6 DEF MadeBy
    <2>8. DeviceOwn(d)'
      <3>1. local'[d] = values /\ user'[d] = user[d] /\ adoption'[d] = adoption[d]
            /\ migratedFor'[d] = migratedFor[d]
        BY <1>0, <2>2 DEF TypeOK
      <3>2. MadeBy(migratedFor[d], local[d])'
        BY <2>7, <3>1 DEF MadeBy
      <3>3. (queued[d] # Null /\ "early" \notin doubts[d])' => MadeBy(migratedFor[d], queued[d])'
        <4>1. CASE UNCHANGED <<queued, doubts>>
          BY <1>0, <2>3, <2>5, <3>1, <4>1, MadeByKept DEF DeviceOwn, MadeBy
        <4>2. CASE queued' = [queued EXCEPT ![d] = values]
          BY <1>0, <2>7, <3>1, <4>2 DEF TypeOK, MadeBy
        <4>. QED  BY <2>2, <4>1, <4>2
      <3>4. (adoption[d].phase \in {"completions", "ledger"})' => MadeBy(user[d], adoption[d].loaded)'
        BY <1>0, <2>3, <3>1, Somebody, MadeByKept DEF DeviceOwn, MadeBy
      <3>. QED  BY <3>2, <3>3, <3>4 DEF DeviceOwn
    <2>9. ASSUME NEW e \in Devices \ {d} PROVE DeviceOwn(e)'
      BY <1>0, <2>2, <2>3, OwnUntouched DEF TypeOK
    <2>. QED  BY <1>0, <2>2, <2>3, <2>8, <2>9, AccountUntouched
  <1>2. ASSUME NEW d \in Devices, Flush(d) PROVE Goal
    <2>1. AuthorsKept
      BY <1>0, <1>2 DEF AuthorsKept, Flush, Carried, TypeOK
    <2>2. /\ user[d] \in People /\ queued[d] \in Values /\ queued[d] # Null
          /\ \A r \in Records : RowBecomes(account, account', user[d], queued[d], Known(d), r)
      BY <1>0, <1>2, FlushFacts
    <2>3. PICK okA \in BOOLEAN, okC \in BOOLEAN, half \in BOOLEAN : FlushKeeps(d, okA, okC, half)
      BY <1>0, <1>2, FlushFacts
    <2>4. UNCHANGED <<user, migratedFor, local, adoption>>
      BY <1>2 DEF Flush
    <2>5. ASSUME NEW r \in Records, account'.owner[r] # Null
          PROVE  author'[r] \in {account'.owner[r], "anyone"}
      <3>1. CASE account'.owner[r] = account.owner[r]
        BY <1>0, <2>1, <2>5, <3>1, NullAssumption DEF AccountOwn, AuthorsKept
      <3>2. CASE account'.owner[r] # account.owner[r] /\ ~Informed(d)
        BY <1>0, <1>2, <2>5, <3>2 DEF Flush, Carried, TypeOK
      <3>3. CASE account'.owner[r] # account.owner[r] /\ Informed(d)
        <4>1. account'.owner[r] = user[d] /\ queued[d][r] # 0
          BY <2>2, <2>5, <3>3 DEF RowBecomes
        <4>2. MadeBy(user[d], queued[d])
          BY <1>0, <2>2, <3>3, NullAssumption, Somebody DEF Informed, DeviceOwn
        <4>3. author[r] \in {user[d], "anyone"}
          BY <4>1, <4>2 DEF MadeBy
        <4>. QED  BY <2>1, <2>2, <4>1, <4>3, NullAssumption DEF AuthorsKept
      <3>. QED  BY <3>1, <3>2, <3>3
    <2>6. queued'[d] # Null => queued'[d] = queued[d] /\ doubts[d] \subseteq doubts'[d]
      BY <1>0, <2>3 DEF FlushKeeps, TypeOK
    <2>7. DeviceOwn(d)'
      BY <1>0, <2>1, <2>4, <2>6, Somebody, MadeByKept DEF DeviceOwn, MadeBy
    <2>8. ASSUME NEW e \in Devices \ {d} PROVE DeviceOwn(e)'
      BY <1>0, <2>1, <2>3, <2>4, OwnUntouched DEF FlushKeeps, TypeOK
    <2>. QED  BY <2>5, <2>7, <2>8 DEF AccountOwn
  <1>3. ASSUME NEW d \in Devices, LoadActions(d) \/ LoadCompletions(d) PROVE Goal
    <2>1. UNCHANGED <<user, migratedFor, local, queued, doubts, account, author>>
      BY <1>3 DEF LoadActions, LoadCompletions, AdoptionUnchanged, pastVars
    <2>2. AuthorsKept
      BY <2>1 DEF AuthorsKept
    <2>3. user[d] \in People
      BY <1>0, <1>3, Somebody DEF LoadActions, LoadCompletions
    <2>4. ASSUME NEW ids PROVE MadeBy(user[d], Read(user[d], ids))
      BY <1>0, <2>3, NullAssumption DEF MadeBy, Read, Owned, AccountOwn
    <2>5. MadeBy(user[d], adoption'[d].loaded)
      <3>1. CASE LoadActions(d)
        BY <1>0, <2>4, <3>1 DEF LoadActions, TypeOK
      <3>2. CASE LoadCompletions(d)
        <4>1. MadeBy(user[d], adoption[d].loaded) /\ MadeBy(user[d], Read(user[d], Completions))
          BY <1>0, <2>4, <3>2 DEF LoadCompletions, DeviceOwn
        <4>2. adoption'[d].loaded = [r \in Records |-> IF r \in Actions THEN adoption[d].loaded[r]
                                                       ELSE Read(user[d], Completions)[r]]
          BY <1>0, <3>2 DEF LoadCompletions, TypeOK
        <4>. QED  BY <4>1, <4>2 DEF MadeBy
      <3>. QED  BY <1>3, <3>1, <3>2
    <2>6. DeviceOwn(d)'
      BY <1>0, <2>1, <2>5 DEF DeviceOwn, MadeBy
    <2>7. ASSUME NEW e \in Devices \ {d} PROVE DeviceOwn(e)'
      <3>1. adoption'[e] = adoption[e]
        BY <1>0, <1>3 DEF LoadActions, LoadCompletions, TypeOK
      <3>. QED  BY <1>0, <2>1, <2>2, <3>1, OwnUntouched
    <2>. QED  BY <1>0, <2>1, <2>2, <2>6, <2>7, AccountUntouched
  <1>4. ASSUME NEW d \in Devices, Install(d) PROVE Goal
    <2>1. user[d] \in People /\ adoption[d].phase = "ledger"
      BY <1>0, <1>4, Somebody DEF Install
    <2>2. PICK new \in Values, seen \in BOOLEAN : Installs(d, new, seen)
      BY <1>0, <1>4, <2>1, NullAssumption, InstallFacts
    <2>3. /\ UNCHANGED <<user, account, author>>
          /\ migratedFor' = [migratedFor EXCEPT ![d] = user[d]]
          /\ adoption' = [adoption EXCEPT ![d] = Idle]
      BY <1>4 DEF Install
    <2>4. AuthorsKept
      BY <2>3 DEF AuthorsKept
    <2>5. MadeBy(user[d], new)
      <3>1. MadeBy(user[d], adoption[d].loaded) /\ MadeBy(migratedFor[d], local[d])
        BY <1>0, <2>1 DEF DeviceOwn
      <3>2. migratedFor[d] # Null
        BY <1>0 DEF Handling
      <3>. QED  BY <2>2, <3>1, <3>2 DEF Installs, MadeBy
    <2>6. DeviceOwn(d)'
      <3>1. /\ local'[d] = new /\ migratedFor'[d] = user[d] /\ adoption'[d] = Idle
            /\ queued'[d] # Null /\ "early" \notin doubts'[d] => queued'[d] = new
        BY <1>0, <2>2, <2>3 DEF Installs, TypeOK
      <3>. QED  BY <2>3, <2>5, <3>1 DEF DeviceOwn, MadeBy, Idle
    <2>7. ASSUME NEW e \in Devices \ {d} PROVE DeviceOwn(e)'
      <3>1. doubts'[e] = doubts[e]
        BY <1>0, <1>4, <2>1, NullAssumption, InstallFacts
      <3>2. /\ local'[e] = local[e] /\ queued'[e] = queued[e] /\ adoption'[e] = adoption[e]
            /\ migratedFor'[e] = migratedFor[e]
        BY <1>0, <2>2, <2>3 DEF Installs, TypeOK
      <3>. QED  BY <1>0, <2>3, <2>4, <3>1, <3>2, OwnUntouched
    <2>. QED  BY <1>0, <2>3, <2>4, <2>6, <2>7, AccountUntouched
  <1>5. ASSUME NEW d \in Devices,
               \/ LoadFails(d) \/ Refresh(d) \/ SignOut(d) \/ Reload(d)
               \/ \E p \in People : SignIn(d, p)
        PROVE  Goal
    <2>1. UNCHANGED <<migratedFor, local, account, author>>
      BY <1>5 DEF LoadFails, Refresh, SignOut, Reload, SignIn, AdoptionUnchanged, pastVars
    <2>2. AuthorsKept
      BY <2>1 DEF AuthorsKept
    <2>3. /\ adoption'[d].phase \in {"idle", "actions"}
          /\ queued'[d] # Null => queued'[d] = queued[d] /\ doubts'[d] = doubts[d]
      BY <1>0, <1>5, Somebody DEF LoadFails, Refresh, SignOut, Reload, SignIn, Begin, Idle,
         AdoptionUnchanged, TypeOK
    <2>4. ASSUME NEW e \in Devices \ {d}
          PROVE  /\ user'[e] = user[e] /\ queued'[e] = queued[e] /\ doubts'[e] = doubts[e]
                 /\ adoption'[e] = adoption[e]
      BY <1>0, <1>5 DEF LoadFails, Refresh, SignOut, Reload, SignIn, Begin, AdoptionUnchanged, TypeOK
    <2>5. DeviceOwn(d)'
      BY <1>0, <2>1, <2>3 DEF DeviceOwn, MadeBy
    <2>6. ASSUME NEW e \in Devices \ {d} PROVE DeviceOwn(e)'
      BY <1>0, <2>1, <2>2, <2>4, OwnUntouched
    <2>. QED  BY <1>0, <2>1, <2>2, <2>5, <2>6, AccountUntouched
  <1>6. ASSUME UNCHANGED vars PROVE Goal
    BY <1>0, <1>6 DEF vars, deviceVars, pastVars, AccountOwn, DeviceOwn, MadeBy
  <1>. QED
    <2>. HIDE DEF Goal
    <2>1. ASSUME NEW d \in Devices, Person(d) \/ Flush(d) \/ Session(d) \/ Events(d) PROVE Goal
      BY <2>1, <1>1, <1>2, <1>3, <1>4, <1>5 DEF Session, Events
    <2>2. Goal
      BY <1>6, <2>1 DEF Next
    <2>. QED  BY <2>2 DEF Goal

\* What one person made reaches no account of another from a page that knows the account.
THEOREM OwnCorrect == Spec => OwnAccountOnly
  <1>1. Init => OwnInv
    BY OwnInit
  <1>2. OwnInv /\ [Next]_vars => OwnInv'
    BY OwnStep
  <1>3. OwnInv /\ [Next]_vars =>
          [\A d \in Devices, r \in Records :
             Flush(d) /\ Informed(d) /\ account'.owner[r] # account.owner[r]
             => account'.owner[r] \in {Null, author[r]} \/ author[r] = "anyone"]_vars
    <2>. SUFFICES ASSUME OwnInv, NEW d \in Devices, NEW r \in Records, Flush(d), Informed(d),
                         account'.owner[r] # account.owner[r], account'.owner[r] # Null
                  PROVE  account'.owner[r] = author[r] \/ author[r] = "anyone"
      OBVIOUS
    <2>0. TypeOK /\ Handling /\ DeviceOwn(d)
      BY OwnParts
    <2>1. /\ user[d] \in People /\ queued[d] # Null
          /\ RowBecomes(account, account', user[d], queued[d], Known(d), r)
      BY <2>0, FlushFacts
    <2>2. account'.owner[r] = user[d] /\ queued[d][r] # 0
      BY <2>1 DEF RowBecomes
    <2>3. MadeBy(user[d], queued[d])
      BY <2>0, <2>1, NullAssumption, Somebody DEF Informed, DeviceOwn
    <2>. QED  BY <2>2, <2>3 DEF MadeBy
  <1>. QED  BY <1>1, <1>2, <1>3, PTL DEF Spec, OwnAccountOnly

-----------------------------------------------------------------------------
(* What was deleted stays deleted.                                         *)

\* The parts of PastOK: of a device, and of the account and its history.
PastOf(d) == \A r \in Records :
  /\ local[d][r] <= clock /\ (queued[d] # Null => queued[d][r] <= clock)
  /\ adoption[d].phase \in {"completions", "ledger"} =>
       adoption[d].loaded[r] = 0 \/ <<r, adoption[d].loaded[r]>> \in had
PastAccount ==
  /\ \A r \in Records : account.rows[r] # 0 => <<r, account.rows[r]>> \in had
  /\ \A e \in had : e[2] <= clock
  /\ \A p \in People, r \in Records, v \in Nat : <<p, r, v>> \in dead =>
       /\ v # 0 /\ <<r, v>> \in had /\ account.marks[p][r] >= v

LEMMA LedgerParts ==
  LedgerInv <=> /\ TypeOK /\ Handling /\ PastAccount /\ SharedWasHad
                /\ \A d \in Devices : PastOf(d) /\ Aware(d)
  <1>1. ASSUME TypeOK PROVE PastOK <=> PastAccount /\ \A d \in Devices : PastOf(d)
    <2>1. \A d \in Devices : adoption[d].phase \in {"completions", "ledger"}
                               => \A r \in Records : adoption[d].loaded[r] \in Nat
      BY <1>1, LoadedType DEF Values
    <2>2. \A r \in Records : account.rows[r] \in Nat
      BY <1>1 DEF TypeOK, Accounts, Values
    <2>. QED  BY <2>1, <2>2 DEF PastOK, PastAccount, PastOf, Fresh
  <1>. QED  BY <1>1 DEF LedgerInv

\* A device that a step does not touch.
LEMMA PastUntouched ==
  ASSUME TypeOK, NEW d \in Devices, PastOf(d), had \subseteq had', clock' \in {clock, clock + 1},
         local'[d] = local[d], queued'[d] \in {Null, queued[d]},
         adoption'[d].phase \in {"completions", "ledger"} => adoption'[d] = adoption[d]
  PROVE  PastOf(d)'
  <1>1. /\ clock \in Nat /\ \A r \in Records : local[d][r] \in Nat
        /\ queued[d] # Null => \A r \in Records : queued[d][r] \in Nat
    BY DEF TypeOK, Values
  <1>2. \A n \in Nat : n <= clock => n <= clock'
    BY <1>1
  <1>3. \A r \in Records : local'[d][r] <= clock' /\ (queued'[d] # Null => queued'[d][r] <= clock')
    BY <1>1, <1>2 DEF PastOf
  <1>4. adoption'[d].phase \in {"completions", "ledger"} => \A r \in Records :
          adoption'[d].loaded[r] = 0 \/ <<r, adoption'[d].loaded[r]>> \in had'
    BY DEF PastOf
  <1>. QED  BY <1>3, <1>4 DEF PastOf

LEMMA AwareUntouched ==
  ASSUME NEW d \in Devices, Aware(d), had' = had, settledFor'[d] \in {Null, settledFor[d]},
         local'[d] = local[d], base'[d] = base[d], queued'[d] = queued[d], doubts'[d] = doubts[d]
  PROVE  Aware(d)'
  BY DEF Aware, Fresh

\* A step of one device hands no value of another's on, but one that an account has had.
LEMMA SharedStep ==
  ASSUME SharedWasHad, had \subseteq had', NEW d \in Devices,
         \A e \in Devices \ {d}, r \in Records, v \in Nat : HasIt(e, r, v)' => HasIt(e, r, v),
         \A r \in Records, v \in Nat : HasIt(d, r, v)' =>
           \/ HasIt(d, r, v) \/ v = 0 \/ <<r, v>> \in had
           \/ \A e \in Devices \ {d} : ~HasIt(e, r, v)
  PROVE  SharedWasHad'
  <1>. SUFFICES ASSUME NEW e \in Devices, NEW f \in Devices \ {e}, NEW r \in Records, NEW v \in Nat,
                       HasIt(e, r, v)', HasIt(f, r, v)'
                PROVE  <<r, v>> \in had' \/ v = 0
    BY DEF SharedWasHad, Fresh
  <1>1. \/ v = 0 \/ <<r, v>> \in had
        \/ HasIt(e, r, v) /\ HasIt(f, r, v)
    OBVIOUS
  <1>. QED  BY <1>1 DEF SharedWasHad, Fresh

LEMMA LedgerInit == Init => LedgerInv
  <1>. SUFFICES ASSUME Init PROVE LedgerInv
    OBVIOUS
  <1>1. PICK p \in People, known \in SUBSET Actions : Starts(p, known)
    BY InitFacts
  <1>. DEFINE values == [r \in Records |-> IF r \in known THEN 1 ELSE 0]
  <1>2. /\ \A d \in Devices : /\ local[d] = values /\ base[d] = values /\ queued[d] = Null
                              /\ adoption[d] = Idle
        /\ account.rows = values /\ had = {<<r, 1>> : r \in known} /\ dead = {} /\ clock = 1
    BY <1>1 DEF Starts
  <1>3. TypeOK /\ Handling /\ values # Null
    BY TypeInit, NullAssumption DEF Values
  <1>4. \A r \in Records : values[r] \in {0, 1} /\ (values[r] # 0 => <<r, values[r]>> \in had)
    BY <1>2
  <1>5. PastAccount
    BY <1>2, <1>4 DEF PastAccount
  <1>. HIDE DEF values
  <1>6. \A d \in Devices : PastOf(d) /\ Aware(d)
    BY <1>2, <1>3, <1>4 DEF PastOf, Aware, Idle
  <1>7. SharedWasHad
    BY <1>2, <1>4 DEF SharedWasHad, HasIt, Fresh
  <1>. QED  BY <1>3, <1>5, <1>6, <1>7, LedgerParts

\* The person's changes are new to everybody.
LEMMA LedgerPerson ==
  ASSUME LedgerInv, NEW d \in Devices, Person(d)
  PROVE  PastAccount' /\ SharedWasHad' /\ \A e \in Devices : PastOf(e)' /\ Aware(e)'
  <1>0. /\ TypeOK /\ Handling /\ PastAccount /\ SharedWasHad
        /\ \A e \in Devices : PastOf(e) /\ Aware(e)
    BY LedgerParts
  <1>1. PICK values \in Values : Changes(d, values)
    BY <1>0, PersonFacts
  <1>2. /\ UNCHANGED <<user, migratedFor, base, adoption, settledFor, account, had, dead>>
        /\ local' = [local EXCEPT ![d] = values] /\ clock' = clock + 1
        /\ \/ UNCHANGED <<queued, doubts>>
           \/ queued' = [queued EXCEPT ![d] = values] /\ doubts' = [doubts EXCEPT ![d] = @ \ {"early"}]
        /\ \A r \in Records : values[r] \in {local[d][r], 0, clock + 1}
    BY <1>1 DEF Changes, Save, Tick
  <1>3. clock \in Nat /\ \A e \in had : e[2] \in Nat
    BY <1>0 DEF TypeOK
  <1>4. \A r \in Records : local[d][r] \in Nat /\ values[r] \in Nat
    BY <1>0 DEF TypeOK, Values
  <1>5. PastAccount'
    BY <1>0, <1>2, <1>3 DEF PastAccount
  <1>6. \A r \in Records : Fresh(r, 0) /\ Fresh(r, clock + 1)
    BY <1>0, <1>3 DEF PastAccount, Fresh
  <1>7. ASSUME NEW e \in Devices \ {d} PROVE PastOf(e)' /\ Aware(e)'
    <2>1. /\ local'[e] = local[e] /\ queued'[e] = queued[e] /\ doubts'[e] = doubts[e]
      BY <1>0, <1>2 DEF TypeOK
    <2>. QED  BY <1>0, <1>2, <2>1, PastUntouched, AwareUntouched
  <1>8. /\ local'[d] = values
        /\ \/ queued'[d] = queued[d] /\ doubts'[d] = doubts[d]
           \/ queued'[d] = values /\ doubts'[d] = doubts[d] \ {"early"}
    BY <1>0, <1>2 DEF TypeOK
  <1>9. PastOf(d)'
    <2>1. \A n \in Nat : n <= clock => n <= clock + 1
      BY <1>3
    <2>2. \A r \in Records : local[d][r] <= clock /\ (queued[d] # Null => queued[d][r] <= clock)
      BY <1>0 DEF PastOf
    <2>3. \A r \in Records : values[r] <= clock + 1
      <3>. SUFFICES ASSUME NEW r \in Records PROVE values[r] <= clock + 1
        OBVIOUS
      <3>1. values[r] \in {local[d][r], 0, clock + 1}
        BY <1>2
      <3>. QED  BY <1>3, <1>4, <2>1, <2>2, <3>1
    <2>4. \A r \in Records : queued[d] # Null => queued[d][r] <= clock + 1
      <3>1. queued[d] # Null => \A r \in Records : queued[d][r] \in Nat
        BY <1>0 DEF TypeOK, Values
      <3>. QED  BY <2>1, <2>2, <3>1
    <2>5. adoption[d].phase \in {"completions", "ledger"} => \A r \in Records :
            adoption[d].loaded[r] = 0 \/ <<r, adoption[d].loaded[r]>> \in had
      BY <1>0 DEF PastOf
    <2>. QED  BY <1>2, <1>8, <2>3, <2>4, <2>5 DEF PastOf
  <1>10. Aware(d)'
    <2>. SUFFICES ASSUME settledFor[d] # Null PROVE Aware(d)'
      BY <1>2 DEF Aware
    <2>1. base[d] # Null /\ base'[d] = base[d]
      BY <1>0, <1>2 DEF Aware
    <2>2. doubts[d] \subseteq {"early"} => \A r \in Records : values[r] = base[d][r] \/ Fresh(r, values[r])
      BY <1>0, <1>2, <1>6 DEF Aware
    <2>3. CASE queued'[d] = queued[d] /\ doubts'[d] = doubts[d]
      <3>1. doubts[d] \cap {"early", "apart"} = {} => \A r \in Records :
              \/ values[r] = (IF queued[d] = Null THEN base[d][r] ELSE queued[d][r])
              \/ Fresh(r, values[r])
        BY <1>0, <1>2, <1>6 DEF Aware
      <3>2. doubts[d] = {} /\ queued[d] # Null => \A r \in Records :
              queued[d][r] = base[d][r] \/ Fresh(r, queued[d][r])
        BY <1>0 DEF Aware
      <3>. QED  BY <1>2, <1>8, <2>1, <2>2, <2>3, <3>1, <3>2 DEF Aware, Fresh
    <2>4. CASE queued'[d] = values /\ doubts'[d] = doubts[d] \ {"early"}
      <3>1. values # Null
        BY NullAssumption
      <3>2. doubts'[d] \subseteq {"early"} => doubts[d] \subseteq {"early"}
        BY <2>4
      <3>. QED  BY <1>2, <1>8, <2>1, <2>2, <2>4, <3>1, <3>2 DEF Aware, Fresh
    <2>. QED  BY <1>8, <2>3, <2>4
  <1>11. SharedWasHad'
    <2>1. \A e \in Devices \ {d}, r \in Records, v \in Nat : HasIt(e, r, v)' => HasIt(e, r, v)
      BY <1>0, <1>2 DEF TypeOK, HasIt
    <2>2. \A e \in Devices, r \in Records : ~HasIt(e, r, clock + 1)
      <3>. SUFFICES ASSUME NEW e \in Devices, NEW r \in Records, HasIt(e, r, clock + 1) PROVE FALSE
        OBVIOUS
      <3>1. clock + 1 <= clock
        BY <1>0 DEF HasIt, PastOf
      <3>. QED  BY <1>3, <3>1
    <2>3. \A r \in Records, v \in Nat : HasIt(d, r, v)' =>
            HasIt(d, r, v) \/ v = 0 \/ \A e \in Devices \ {d} : ~HasIt(e, r, v)
      <3>. SUFFICES ASSUME NEW r \in Records, NEW v \in Nat, HasIt(d, r, v)', ~HasIt(d, r, v), v # 0
                    PROVE  v = clock + 1
        BY <2>2
      <3>. QED  BY <1>2, <1>8 DEF HasIt
    <2>. QED  BY <1>0, <1>2, <2>1, <2>3, SharedStep
  <1>. QED  BY <1>5, <1>7, <1>9, <1>10, <1>11

\* What a flush adds to the history is what the device has queued, which nobody else has;
LEMMA LedgerFlush ==
  ASSUME LedgerInv, NEW d \in Devices, Flush(d)
  PROVE  PastAccount' /\ SharedWasHad' /\ \A e \in Devices : PastOf(e)' /\ Aware(e)'
  <1>0. /\ TypeOK /\ Handling /\ PastAccount /\ SharedWasHad
        /\ \A e \in Devices : PastOf(e) /\ Aware(e)
    BY LedgerParts
  <1>1. /\ user[d] \in People /\ queued[d] \in Values /\ queued[d] # Null /\ Sound(account')
        /\ \A r \in Records : RowBecomes(account, account', user[d], queued[d], Known(d), r)
        /\ MarksGrow(account, account') /\ dead \subseteq dead'
        /\ \A e \in dead' \ dead : \E r \in Records :
             /\ e = <<user[d], r, account.rows[r]>> /\ account.rows[r] # 0
             /\ account'.marks[user[d]][r] = clock
        /\ had' = had \cup {<<r, account'.rows[r]>> : r \in {q \in Records : account'.rows[q] # 0}}
    BY <1>0, FlushFacts
  <1>2. PICK okA \in BOOLEAN, okC \in BOOLEAN, half \in BOOLEAN : FlushKeeps(d, okA, okC, half)
    BY <1>0, FlushFacts
  <1>3. UNCHANGED <<user, migratedFor, local, adoption, settledFor, clock>>
    BY DEF Flush
  <1>4. clock \in Nat /\ \A r \in Records : account.rows[r] \in Nat /\ account'.rows[r] \in Nat
    BY <1>0, <1>1 DEF TypeOK, Accounts, Values, Sound
  <1>5. ASSUME NEW r \in Records, NEW v, <<r, v>> \in had', <<r, v>> \notin had
        PROVE  v = queued[d][r] /\ v = account'.rows[r] /\ v # 0 /\ account'.rows[r] # account.rows[r]
    <2>1. v = account'.rows[r] /\ v # 0
      BY <1>1, <1>5
    <2>2. account'.rows[r] # account.rows[r]
      BY <1>0, <1>5, <2>1 DEF PastAccount
    <2>. QED  BY <1>1, <2>1, <2>2 DEF RowBecomes
  <1>6. PastAccount'
    <2>1. \A r \in Records : account'.rows[r] # 0 => <<r, account'.rows[r]>> \in had'
      BY <1>1
    <2>2. ASSUME NEW e \in had' PROVE e[2] <= clock
      <3>1. CASE e \in had
        BY <1>0, <3>1 DEF PastAccount
      <3>2. CASE e \notin had
        <4>1. PICK r \in Records : e = <<r, account'.rows[r]>>
          BY <1>1, <2>2, <3>2
        <4>2. account'.rows[r] = queued[d][r]
          BY <1>5, <2>2, <3>2, <4>1
        <4>. QED  BY <1>0, <1>1, <4>1, <4>2 DEF PastOf
      <3>. QED  BY <3>1, <3>2
    <2>3. ASSUME NEW p \in People, NEW r \in Records, NEW v \in Nat, <<p, r, v>> \in dead'
          PROVE  v # 0 /\ <<r, v>> \in had' /\ account'.marks[p][r] >= v
      <3>1. CASE <<p, r, v>> \in dead
        <4>1. v # 0 /\ <<r, v>> \in had /\ account.marks[p][r] >= v
          BY <1>0, <3>1 DEF PastAccount
        <4>2. clock >= v
          BY <1>0, <4>1 DEF PastAccount
        <4>. QED  BY <1>1, <4>1, <4>2 DEF MarksGrow
      <3>2. CASE <<p, r, v>> \notin dead
        <4>1. /\ p = user[d] /\ v = account.rows[r] /\ v # 0 /\ account'.marks[p][r] = clock
          BY <1>1, <2>3, <3>2
        <4>2. <<r, v>> \in had /\ v <= clock
          BY <1>0, <4>1 DEF PastAccount
        <4>. QED  BY <1>1, <1>4, <4>1, <4>2
      <3>. QED  BY <3>1, <3>2
    <2>. QED  BY <1>3, <2>1, <2>2, <2>3 DEF PastAccount
  <1>7. /\ queued'[d] = (IF okA /\ okC THEN Null ELSE queued[d])
        /\ base'[d] = [r \in Records |-> IF Done(r, okA, okC) THEN queued[d][r] ELSE Known(d)[r]]
        /\ doubts'[d] = (IF okA /\ okC THEN {} ELSE doubts[d]) \cup (IF half THEN {"half"} ELSE {})
                        \cup (doubts[d] \cap {"apart"})
                        \cup (IF "early" \in doubts[d] THEN {"apart"} ELSE {})
        /\ ~half => \A r \in Records : ~Done(r, okA, okC) => account'.rows[r] \in {account.rows[r], 0}
        /\ \A e \in Devices \ {d} : /\ queued'[e] = queued[e] /\ base'[e] = base[e]
                                    /\ doubts'[e] = doubts[e]
    BY <1>0, <1>2 DEF FlushKeeps, TypeOK
  <1>8. ASSUME NEW e \in Devices PROVE PastOf(e)'
    BY <1>0, <1>1, <1>3, <1>7, PastUntouched
  <1>9. SharedWasHad'
    BY <1>0, <1>1, <1>3, <1>7, SharedStep DEF HasIt
  <1>10. ASSUME NEW e \in Devices \ {d} PROVE Aware(e)'
    <2>1. ASSUME NEW r \in Records, NEW v \in Nat, HasIt(e, r, v), Fresh(r, v)
          PROVE  v = 0 \/ <<r, v>> \notin had'
      <3>. SUFFICES ASSUME v # 0, <<r, v>> \in had' PROVE FALSE
        OBVIOUS
      <3>1. HasIt(d, r, v)
        BY <1>1, <1>5, <2>1 DEF Fresh, HasIt
      <3>. QED  BY <1>0, <2>1, <3>1 DEF SharedWasHad
    <2>2. \A r \in Records : local[e][r] \in Nat /\ (queued[e] # Null => queued[e][r] \in Nat)
      BY <1>0 DEF TypeOK, Values
    <2>3. /\ \A r \in Records : Fresh(r, local[e][r]) => Fresh(r, local[e][r])'
          /\ queued[e] # Null => \A r \in Records : Fresh(r, queued[e][r]) => Fresh(r, queued[e][r])'
      BY <1>3, <1>7, <2>1, <2>2 DEF Fresh, HasIt
    <2>. QED  BY <1>0, <1>3, <1>7, <2>3 DEF Aware
  <1>11. Aware(d)'
    <2>. SUFFICES ASSUME settledFor[d] # Null PROVE Aware(d)'
      BY <1>3 DEF Aware
    <2>1. base[d] # Null /\ Known(d) = base[d] /\ base'[d] # Null
      <3>1. base[d] # Null
        BY <1>0 DEF Aware
      <3>2. base'[d] \in Values
        <4>1. Known(d) \in Values
          BY <1>0, KnownType
        <4>. QED  BY <1>1, <1>7, <4>1 DEF Values
      <3>. QED  BY <3>1, <3>2, NullAssumption DEF Known
    <2>2. \A r \in Records : /\ Done(r, okA, okC) => base'[d][r] = queued[d][r]
                             /\ ~Done(r, okA, okC) => base'[d][r] = base[d][r]
      BY <1>7, <2>1
    <2>3. okA /\ okC => \A r \in Records : Done(r, okA, okC)
      BY RecordKinds DEF Done
    <2>. DEFINE Still(r, v) == v = 0 \/ <<r, v>> \notin had'
    <2>4. \A r \in Records : Fresh(r, local[d][r]) =>
            local[d][r] = queued[d][r] \/ Still(r, local[d][r])
      BY <1>5 DEF Fresh
    <2>5. ASSUME ~half, NEW r \in Records, ~Done(r, okA, okC), NEW v, Fresh(r, v)
          PROVE  Still(r, v)
      <3>. SUFFICES ASSUME v # 0, <<r, v>> \in had' PROVE FALSE
        OBVIOUS
      <3>1. v = account'.rows[r] /\ account'.rows[r] # account.rows[r]
        BY <1>5, <2>5 DEF Fresh
      <3>. QED  BY <1>7, <2>5, <3>1
    <2>. HIDE DEF Still
    <2>6. "early" \notin doubts[d] /\ "apart" \notin doubts[d] => \A r \in Records :
            local[d][r] = queued[d][r] \/ Fresh(r, local[d][r])
      BY <1>0, <1>1 DEF Aware
    <2>7. ASSUME doubts'[d] \cap {"early", "apart"} = {}, NEW r \in Records
          PROVE  \/ local[d][r] = (IF queued'[d] = Null THEN base'[d][r] ELSE queued'[d][r])
                 \/ Still(r, local[d][r])
      <3>1. local[d][r] = queued[d][r] \/ Fresh(r, local[d][r])
        BY <1>7, <2>6, <2>7
      <3>2. local[d][r] = queued[d][r] \/ Still(r, local[d][r])
        BY <2>4, <3>1
      <3>3. queued[d][r] = (IF queued'[d] = Null THEN base'[d][r] ELSE queued'[d][r])
        BY <1>1, <1>7, <2>2, <2>3
      <3>. QED  BY <3>2, <3>3
    <2>8. ASSUME doubts'[d] = {}, queued'[d] # Null, NEW r \in Records
          PROVE  queued'[d][r] = base'[d][r] \/ Still(r, queued'[d][r])
      <3>1. doubts[d] = {} /\ ~half /\ queued'[d] = queued[d]
        BY <1>7, <2>8
      <3>2. queued[d][r] = base[d][r] \/ Fresh(r, queued[d][r])
        BY <1>0, <1>1, <3>1 DEF Aware
      <3>. QED  BY <2>2, <2>5, <3>1, <3>2
    <2>9. ASSUME doubts'[d] \subseteq {"early"}, NEW r \in Records
          PROVE  local[d][r] = base'[d][r] \/ Still(r, local[d][r])
      <3>1. ~half /\ "early" \notin doubts[d] /\ "apart" \notin doubts[d]
        BY <1>7, <2>9
      <3>2. local[d][r] = queued[d][r] \/ Fresh(r, local[d][r])
        BY <2>6, <3>1
      <3>3. CASE Done(r, okA, okC)
        BY <2>2, <2>4, <3>2, <3>3
      <3>4. CASE ~Done(r, okA, okC)
        <4>1. doubts[d] = {}
          BY <1>7, <2>3, <2>9, <3>1, <3>4
        <4>2. local[d][r] = base[d][r] \/ Fresh(r, local[d][r])
          BY <1>0, <4>1 DEF Aware
        <4>. QED  BY <2>2, <2>5, <3>1, <3>4, <4>2
      <3>. QED  BY <3>3, <3>4
    <2>. QED  BY <1>3, <2>1, <2>7, <2>8, <2>9 DEF Aware, Fresh, Still
  <1>. QED  BY <1>6, <1>8, <1>9, <1>10, <1>11

\* what an adoption installs was in the account, or is this device's own: and what the
\* ledger says is deleted it drops, or it has a doubt.
LEMMA LedgerInstall ==
  ASSUME LedgerInv, NEW d \in Devices, Install(d)
  PROVE  PastAccount' /\ SharedWasHad' /\ \A e \in Devices : PastOf(e)' /\ Aware(e)'
  <1>0. /\ TypeOK /\ Handling /\ PastAccount /\ SharedWasHad
        /\ \A e \in Devices : PastOf(e) /\ Aware(e)
    BY LedgerParts
  <1>1. /\ user[d] \in People /\ user[d] # Null /\ adoption[d].phase = "ledger"
        /\ adoption[d].loaded \in Values /\ local[d] \in Values /\ clock \in Nat
    BY <1>0, Somebody, NullAssumption, LoadedType DEF Install, TypeOK
  <1>2. PICK new \in Values, seen \in BOOLEAN : Installs(d, new, seen)
    BY <1>0, <1>1, InstallFacts
  <1>3. /\ UNCHANGED <<user, account, clock, had, dead>>
        /\ settledFor' = [settledFor EXCEPT ![d] = user[d]]
        /\ adoption' = [adoption EXCEPT ![d] = Idle]
    BY DEF Install
  <1>. DEFINE loaded == adoption[d].loaded
  <1>4. /\ local'[d] = new /\ settledFor'[d] = user[d] /\ adoption'[d] = Idle
        /\ base'[d] = (IF new # loaded THEN loaded ELSE new)
        /\ queued'[d] = (IF new # loaded THEN new ELSE queued[d])
    BY <1>0, <1>2, <1>3 DEF Installs, TypeOK
  <1>5. /\ "early" \in doubts'[d] <=> queued[d] # Null /\ new = loaded
        /\ "unread" \in doubts'[d] <=> ~seen
        /\ \/ "lost" \in doubts'[d]
           \/ \A r \in Records : loaded[r] = 0 /\ new[r] # 0
                => Fresh(r, new[r]) \/ <<user[d], r, new[r]>> \in dead
        /\ \A r \in Records :
             \/ new[r] = loaded[r]
             \/ /\ loaded[r] = 0 /\ new[r] = local[d][r]
                /\ seen => ~shouldSuppress(r, new[r], account.marks[user[d]])
    BY <1>2 DEF Installs
  <1>6. ASSUME NEW e \in Devices \ {d}
        PROVE  /\ local'[e] = local[e] /\ queued'[e] = queued[e] /\ base'[e] = base[e]
               /\ doubts'[e] = doubts[e] /\ settledFor'[e] = settledFor[e] /\ adoption'[e] = adoption[e]
    BY <1>0, <1>1, <1>2, <1>3, InstallFacts DEF Installs, TypeOK
  <1>7. ASSUME NEW e \in Devices \ {d} PROVE PastOf(e)' /\ Aware(e)'
    BY <1>0, <1>3, <1>6, PastUntouched, AwareUntouched
  <1>. HIDE DEF loaded
  <1>8. \A r \in Records : loaded[r] \in Nat /\ (loaded[r] = 0 \/ <<r, loaded[r]>> \in had)
    BY <1>0, <1>1 DEF PastOf, Values, loaded
  <1>9. PastOf(d)'
    <2>1. ASSUME NEW r \in Records PROVE new[r] <= clock
      <3>1. loaded[r] <= clock
        <4>1. <<r, loaded[r]>> \in had => <<r, loaded[r]>>[2] <= clock
          BY <1>0 DEF PastAccount
        <4>. QED  BY <1>1, <1>8, <4>1
      <3>2. local[d][r] <= clock
        BY <1>0 DEF PastOf
      <3>. QED  BY <1>5, <3>1, <3>2
    <2>2. \A r \in Records : queued[d] # Null => queued[d][r] <= clock
      BY <1>0 DEF PastOf
    <2>. QED  BY <1>3, <1>4, <2>1, <2>2 DEF PastOf, Idle
  <1>10. SharedWasHad'
    <2>1. \A e \in Devices \ {d}, r \in Records, v \in Nat : HasIt(e, r, v)' => HasIt(e, r, v)
      BY <1>6 DEF HasIt
    <2>2. \A r \in Records, v \in Nat : HasIt(d, r, v)' => HasIt(d, r, v) \/ v = 0 \/ <<r, v>> \in had
      <3>. SUFFICES ASSUME NEW r \in Records, NEW v \in Nat, HasIt(d, r, v)', ~HasIt(d, r, v)
                    PROVE  v = 0 \/ <<r, v>> \in had
        OBVIOUS
      <3>1. v = new[r] /\ v # local[d][r]
        BY <1>4 DEF HasIt
      <3>. QED  BY <1>5, <1>8, <3>1
    <2>. QED  BY <1>0, <1>3, <2>1, <2>2, SharedStep
  <1>11. "lost" \notin doubts'[d] /\ seen => \A r \in Records : new[r] = loaded[r] \/ Fresh(r, new[r])
    <2>. SUFFICES ASSUME "lost" \notin doubts'[d], seen, NEW r \in Records,
                         new[r] # loaded[r], ~Fresh(r, new[r])
                  PROVE  FALSE
      OBVIOUS
    <2>1. /\ loaded[r] = 0 /\ ~shouldSuppress(r, new[r], account.marks[user[d]])
          /\ <<user[d], r, new[r]>> \in dead
      BY <1>5
    <2>2. new[r] \in Nat /\ account.marks[user[d]][r] \in Nat
      BY <1>0, <1>1 DEF TypeOK, Accounts, Values
    <2>3. new[r] # 0 /\ account.marks[user[d]][r] >= new[r]
      BY <1>0, <1>1, <2>1, <2>2 DEF PastAccount
    <2>. QED  BY <2>1, <2>2, <2>3 DEF shouldSuppress
  <1>12. Aware(d)'
    <2>1. base'[d] # Null /\ new # Null
      BY <1>1, <1>4, NullAssumption DEF loaded
    <2>2. "early" \notin doubts'[d] => \A r \in Records :
            local'[d][r] = IF queued'[d] = Null THEN base'[d][r] ELSE queued'[d][r]
      BY <1>4, <1>5, <2>1
    <2>3. doubts'[d] \subseteq {"early"} => \A r \in Records : new[r] = base'[d][r] \/ Fresh(r, new[r])
      BY <1>4, <1>5, <1>11
    <2>4. doubts'[d] = {} /\ queued'[d] # Null => queued'[d] = new
      BY <1>4, <1>5
    <2>. QED  BY <1>3, <1>4, <2>1, <2>2, <2>3, <2>4 DEF Aware, Fresh
  <1>13. PastAccount'
    BY <1>0, <1>3 DEF PastAccount
  <1>. QED  BY <1>7, <1>9, <1>10, <1>12, <1>13

\* The other steps of a session: what is loaded, the account holds.
LEMMA LedgerSession ==
  ASSUME LedgerInv, NEW d \in Devices,
         \/ LoadActions(d) \/ LoadCompletions(d) \/ LoadFails(d)
         \/ Refresh(d) \/ SignOut(d) \/ Reload(d) \/ \E p \in People : SignIn(d, p)
  PROVE  PastAccount' /\ SharedWasHad' /\ \A e \in Devices : PastOf(e)' /\ Aware(e)'
  <1>0. /\ TypeOK /\ Handling /\ PastAccount /\ SharedWasHad
        /\ \A e \in Devices : PastOf(e) /\ Aware(e)
    BY LedgerParts
  <1>1. UNCHANGED <<local, account, clock, had, dead>>
    BY DEF LoadActions, LoadCompletions, LoadFails, Refresh, SignOut, Reload, SignIn,
       AdoptionUnchanged, pastVars, boundVars
  <1>2. \A e \in Devices : queued'[e] \in {Null, queued[e]}
    <2>1. CASE Reload(d)
      BY <1>0, <2>1 DEF Reload, TypeOK
    <2>2. CASE ~Reload(d)
      BY <2>2 DEF LoadActions, LoadCompletions, LoadFails, Refresh, SignOut, SignIn, AdoptionUnchanged
    <2>. QED  BY <2>1, <2>2
  <1>3. \A e \in Devices :
          \/ settledFor'[e] = Null
          \/ /\ queued'[e] = queued[e] /\ base'[e] = base[e] /\ doubts'[e] = doubts[e]
             /\ settledFor'[e] = settledFor[e]
    <2>1. CASE Reload(d)
      BY <1>0, <2>1 DEF Reload, TypeOK
    <2>2. CASE ~Reload(d)
      BY <2>2 DEF LoadActions, LoadCompletions, LoadFails, Refresh, SignOut, SignIn, AdoptionUnchanged
    <2>. QED  BY <2>1, <2>2
  <1>4. \A e \in Devices : Aware(e)'
    <2>. SUFFICES ASSUME NEW e \in Devices PROVE Aware(e)'
      OBVIOUS
    <2>1. CASE settledFor'[e] = Null
      BY <2>1 DEF Aware
    <2>2. CASE settledFor'[e] # Null
      BY <1>0, <1>1, <1>3, <2>2, AwareUntouched
    <2>. QED  BY <2>1, <2>2
  <1>5. PastAccount'
    BY <1>0, <1>1 DEF PastAccount
  <1>6. SharedWasHad'
    BY <1>0, <1>1, <1>2, SharedStep DEF HasIt
  <1>7. ASSUME NEW e \in Devices PROVE PastOf(e)'
    <2>1. \A p, ids, r : r \in Records =>
            Read(p, ids)[r] = 0 \/ <<r, Read(p, ids)[r]>> \in had
      BY <1>0 DEF Read, Owned, PastAccount
    <2>2. CASE adoption'[e].phase \notin {"completions", "ledger"} \/ adoption'[e] = adoption[e]
      BY <1>0, <1>1, <1>2, <2>2, PastUntouched
    <2>3. CASE e = d /\ LoadActions(d)
      <3>1. adoption'[d].loaded = Read(user[d], Actions) /\ queued'[d] = queued[d]
        BY <1>0, <2>3 DEF LoadActions, AdoptionUnchanged, TypeOK
      <3>. QED  BY <1>0, <1>1, <2>1, <2>3, <3>1 DEF PastOf
    <2>4. CASE e = d /\ LoadCompletions(d)
      <3>1. /\ adoption'[d].loaded = [r \in Records |-> IF r \in Actions THEN adoption[d].loaded[r]
                                                        ELSE Read(user[d], Completions)[r]]
            /\ queued'[d] = queued[d] /\ adoption[d].phase = "completions"
        BY <1>0, <2>4 DEF LoadCompletions, AdoptionUnchanged, TypeOK
      <3>2. \A r \in Records : adoption[d].loaded[r] = 0 \/ <<r, adoption[d].loaded[r]>> \in had
        BY <1>0, <3>1 DEF PastOf
      <3>3. \A r \in Records : adoption'[d].loaded[r] = 0 \/ <<r, adoption'[d].loaded[r]>> \in had
        BY <2>1, <3>1, <3>2
      <3>4. \A r \in Records : local[d][r] <= clock /\ (queued[d] # Null => queued[d][r] <= clock)
        BY <1>0 DEF PastOf
      <3>. QED  BY <1>1, <2>4, <3>1, <3>3, <3>4 DEF PastOf
    <2>5. \/ adoption'[e].phase \notin {"completions", "ledger"} \/ adoption'[e] = adoption[e]
          \/ e = d /\ (LoadActions(d) \/ LoadCompletions(d))
      BY <1>0 DEF LoadActions, LoadCompletions, LoadFails, Refresh, SignOut, Reload, SignIn, Begin,
         Idle, TypeOK
    <2>. QED  BY <2>2, <2>3, <2>4, <2>5
  <1>. QED  BY <1>4, <1>5, <1>6, <1>7

LEMMA LedgerStep == LedgerInv /\ [Next]_vars => LedgerInv'
  <1>. SUFFICES ASSUME LedgerInv, [Next]_vars PROVE LedgerInv'
    OBVIOUS
  <1>. DEFINE Goal == PastAccount' /\ SharedWasHad' /\ \A e \in Devices : PastOf(e)' /\ Aware(e)'
  <1>1. ASSUME UNCHANGED vars PROVE Goal
    <2>1. PastAccount /\ SharedWasHad /\ \A e \in Devices : PastOf(e) /\ Aware(e)
      BY LedgerParts
    <2>. QED
      BY <1>1, <2>1 DEF vars, deviceVars, boundVars, pastVars, PastAccount, SharedWasHad, HasIt,
         PastOf, Aware, Fresh
  <1>2. ASSUME NEW d \in Devices, Person(d) \/ Flush(d) \/ Session(d) \/ Events(d) PROVE Goal
    BY <1>2, LedgerPerson, LedgerFlush, LedgerInstall, LedgerSession DEF Session, Events
  <1>3. TypeOK' /\ Handling'
    BY TypeStep DEF LedgerInv
  <1>4. PastOK' <=> PastAccount' /\ \A d \in Devices : PastOf(d)'
    <2>1. \A d \in Devices : adoption'[d].phase \in {"completions", "ledger"}
                               => \A r \in Records : adoption'[d].loaded[r] \in Nat
      BY <1>3 DEF TypeOK, Adoptions, Idle, Values
    <2>2. \A r \in Records : account'.rows[r] \in Nat
      BY <1>3 DEF TypeOK, Accounts, Values
    <2>. QED  BY <2>1, <2>2 DEF PastOK, PastAccount, PastOf, Fresh
  <1>5. Goal
    <2>. HIDE DEF Goal
    <2>. QED  BY <1>1, <1>2 DEF Next
  <1>. QED  BY <1>3, <1>4, <1>5 DEF LedgerInv

\* What was deleted with its marker never comes back from a page that knows the account.
THEOREM DeletedCorrect == Spec => DeletedStaysDeleted
  <1>1. Init => LedgerInv
    BY LedgerInit
  <1>2. LedgerInv /\ [Next]_vars => LedgerInv'
    BY LedgerStep
  <1>3. LedgerInv /\ [Next]_vars =>
          [\A d \in Devices, r \in Records :
             Flush(d) /\ Informed(d) /\ account'.rows[r] # account.rows[r]
             => <<user[d], r, account'.rows[r]>> \notin dead]_vars
    <2>. SUFFICES ASSUME LedgerInv, NEW d \in Devices, NEW r \in Records, Flush(d), Informed(d),
                         account'.rows[r] # account.rows[r],
                         <<user[d], r, account'.rows[r]>> \in dead
                  PROVE  FALSE
      OBVIOUS
    <2>0. TypeOK /\ PastAccount /\ Aware(d)
      BY LedgerParts
    <2>1. /\ user[d] \in People /\ queued[d] # Null /\ Sound(account')
          /\ RowBecomes(account, account', user[d], queued[d], Known(d), r)
      BY <2>0, FlushFacts
    <2>2. account'.rows[r] # 0 /\ <<r, account'.rows[r]>> \in had
      BY <2>0, <2>1 DEF PastAccount, Sound, Accounts, Values
    <2>3. queued[d][r] = account'.rows[r] /\ queued[d][r] # Known(d)[r]
      BY <2>1, <2>2 DEF RowBecomes
    <2>4. /\ base[d] # Null /\ (queued[d][r] = base[d][r] \/ Fresh(r, queued[d][r]))
      BY <2>0, <2>1, NullAssumption DEF Informed, Aware
    <2>. QED  BY <2>2, <2>3, <2>4 DEF Known, Fresh
  <1>. QED  BY <1>1, <1>2, <1>3, PTL DEF Spec, DeletedStaysDeleted

=============================================================================
