----------------------------- MODULE MCDunning -----------------------------
(* Small instances of Dunning for TLC: thresholds of days, not of weeks.    *)
EXTENDS Dunning, TLC

CONSTANTS i1, i2, q1, q2

DueDates == [i \in Invoices |-> 0]
StaggeredDates == [i \in Invoices |-> IF i = i1 THEN -1 ELSE 0]
ShortThresholds == <<1, 2, 3>>
PromptThresholds == <<0, 1, 2>>

SenderSymmetry == Permutations(Senders)
=============================================================================
