----------------------------- MODULE MCRecords -----------------------------
(* Small instances of Records for TLC: a row of every table, and a person   *)
(* still to be created.                                                     *)
EXTENDS Records, TLC

CONSTANTS firm, boss, call, guest, phone, site, hour, q1, q2

Tables == firm :> "organization" @@ boss :> "person" @@ call :> "task"
          @@ guest :> "person" @@ phone :> "expense"
          @@ site :> "project" @@ hour :> "time_entry"
Started == firm :> {} @@ boss :> {firm} @@ call :> {boss} @@ phone :> {firm}
           @@ site :> {firm} @@ hour :> {site}
RequestSymmetry == Permutations(Requests)
=============================================================================
