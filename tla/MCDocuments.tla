---------------------------- MODULE MCDocuments ----------------------------
(* Small instances of Documents for TLC: the postings of the turn of a year.*)
EXTENDS Documents, TLC

CONSTANTS api1, api2, api3, job, i1, r1, r2, vat

Processes == api1 :> "worker1" @@ api2 :> "worker1" @@ api3 :> "worker2" @@ job :> "scheduler"
Kinds == i1 :> "invoice" @@ r1 :> "receipt" @@ r2 :> "receipt"
Dates == i1 :> <<2025, 1, 1>> @@ r1 :> <<2025, 12, 31>> @@ r2 :> <<2026, 1, 1>>
=============================================================================
