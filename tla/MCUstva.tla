------------------------------ MODULE MCUstva ------------------------------
(* Small instances of Ustva for TLC: quarters of four days.                 *)
EXTENDS Ustva, TLC

CONSTANTS i1, i2, p1, p2, a1

Quarterly == [i \in Invoices |-> IF i = i1 THEN 0 ELSE 1]
Amounts == [i \in Invoices |-> 119]
=============================================================================
