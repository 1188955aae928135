----------------------------- MODULE SharedText -----------------------------
(***************************************************************************)
(* What one text that several devices share promises the people who write  *)
(* it, as the header of migration 0045 and the comments of                 *)
(* src/lib/sync/conflicts-store.ts describe it, with no versions, requests *)
(* or answers.  Who replaces the saved text knowingly has seen it; a text  *)
(* a device takes for settled was saved at some time, or was handed back   *)
(* there; and what is handed back stays so until its writer deals with it. *)
(*                                                                         *)
(* A text is the moment it was written, 0 stands for no text.              *)
(***************************************************************************)
EXTENDS Naturals

CONSTANTS Devices, Nobody

VARIABLES
  saved,      \* the text all devices share
  author,     \* the device that saved it, Nobody at first
  informed,   \* it was saved with knowledge of the one before
  kept,       \* history: everything that was ever saved
  seen,       \* per device: the texts its person has had on the screen
  since,      \* per device: its texts follow one another from here on
  settled,    \* per device: the text it takes to have arrived, Nobody if it cannot tell
  told,       \* per device: every text handed back to its writer
  notice      \* per device: the text handed back to its writer, or Nobody

account == <<saved, author, informed, kept>>
vars    == <<account, seen, since, settled, told, notice>>

Init ==
  /\ saved \in Nat \ {0} /\ author = Nobody /\ informed = TRUE /\ kept = {saved}
  /\ seen = [d \in Devices |-> {saved}] /\ settled = [d \in Devices |-> saved]
  /\ since = settled
  /\ told = [d \in Devices |-> {}] /\ notice = [d \in Devices |-> Nobody]

\* A text once deleted may come back in any way.
Deleted == 0 \in kept

\* d knows what it replaces, and does not go back behind a text of its own written since
\* it last took over another text from the account.
Knows(d) == saved \in seen[d] /\ (author = d => saved' >= saved \/ saved < since[d])

Replace(d) ==
  /\ saved' \in Nat /\ author' = d /\ kept' = kept \cup {saved'}
  /\ informed' \in BOOLEAN /\ (informed' => Knows(d) \/ Deleted)
  /\ UNCHANGED <<seen, since, settled, told, notice>>

Delete ==
  /\ saved' = 0 /\ author' = Nobody /\ informed' = TRUE /\ kept' = kept \cup {0}
  /\ UNCHANGED <<seen, since, settled, told, notice>>

\* Whatever the person at d is shown, it is the screen of d that shows more.
Sees(d) == seen[d] \subseteq seen'[d] /\ seen' = [seen EXCEPT ![d] = seen'[d]]

\* Reading, writing, and dealing with what was handed back.
Look(d) ==
  /\ Sees(d) /\ (UNCHANGED notice \/ notice' = [notice EXCEPT ![d] = Nobody])
  /\ UNCHANGED <<account, since, settled, told>>

Settle(d) ==
  /\ settled'[d] \in kept \cup told[d] \cup {0, Nobody}
  /\ settled' = [settled EXCEPT ![d] = settled'[d]]
  /\ Sees(d) /\ UNCHANGED <<account, since, told, notice>>

\* The device takes over the account's text, in place of whatever it has seen so far.
TakeOver(d) ==
  /\ settled'[d] \in kept \cup {0} /\ settled' = [settled EXCEPT ![d] = settled'[d]]
  /\ since'[d] \in Nat /\ since'[d] >= since[d] /\ since' = [since EXCEPT ![d] = since'[d]]
  /\ Sees(d) /\ UNCHANGED <<account, told, notice>>

HandBack(d) ==
  /\ notice'[d] # Nobody /\ notice' = [notice EXCEPT ![d] = notice'[d]]
  /\ told' = [told EXCEPT ![d] = @ \cup {notice'[d]}]
  /\ settled' = [settled EXCEPT ![d] = notice'[d]] \/ UNCHANGED settled
  /\ Sees(d) /\ UNCHANGED <<account, since>>

Next ==
  \/ Delete
  \/ \E d \in Devices : Replace(d) \/ Look(d) \/ Settle(d) \/ TakeOver(d) \/ HandBack(d)

Spec == Init /\ [][Next]_vars
=============================================================================
