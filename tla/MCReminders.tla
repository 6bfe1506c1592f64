---------------------------- MODULE MCReminders ----------------------------
(* Small instances of Reminders for TLC. Days are counted from 0; the      *)
(* look-back and the recurrences are scaled down together, see README.md.  *)
EXTENDS Reminders, TLC

CONSTANTS o1, o2, r1, r2

\* Two obligations, dates further apart than look-back and lead time.
SparseRecurrence == [o \in Obligations |-> IF o = o1 THEN {1} ELSE {2}]
ShortLead == [o \in Obligations |-> IF o = o1 THEN 0 ELSE 1]
DayAhead == [o \in Obligations |-> IF o = o1 THEN 1 ELSE 0]

\* A date every other day of the look-back, as a weekly rule has.
DenseRecurrence == [o \in Obligations |-> IF o = o1 THEN {1, 2} ELSE {2}]

RunSymmetry == Permutations(Runs)
=============================================================================
