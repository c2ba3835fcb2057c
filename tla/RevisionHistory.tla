---------------------------- MODULE RevisionHistory ---------------------------
(***************************************************************************)
(* What final_measurement promises its readers (usage, billing): for every *)
(* measurement an append-only list of values of which the last one is      *)
(* current.  Several measurements may get a new value in one step; a value *)
(* that is already current is not recorded again.                          *)
(***************************************************************************)
EXTENDS Naturals

CONSTANTS Subjects,   \* what is recorded: one history each
          Values,
          Length,     \* bound on a history
          Nothing     \* not a value

VARIABLES entry,      \* entry[s][n]: the n-th value recorded for s
          current     \* current[s]: the number of the current entry, 0 for none

history == <<entry, current>>

Blank == [s \in Subjects |-> [n \in 1..Length |-> Nothing]]

HistoryInit ==
    /\ entry = Blank
    /\ current = [s \in Subjects |-> 0]

Records(s, v) ==
    /\ current[s] < Length
    /\ current[s] > 0 => entry[s][current[s]] # v
    /\ current'[s] = current[s] + 1
    /\ entry'[s] = [n \in 1..Length |-> IF n = current[s] + 1 THEN v ELSE entry[s][n]]

Keeps(s) == current'[s] = current[s] /\ entry'[s] = entry[s]

(* One transaction: some subjects get a new value, the others are untouched. *)
HistoryNext ==
    /\ DOMAIN entry' = Subjects
    /\ DOMAIN current' = Subjects
    /\ \A s \in Subjects : Keeps(s) \/ \E v \in Values : Records(s, v)

HistorySpec == HistoryInit /\ [][HistoryNext]_history

===============================================================================
