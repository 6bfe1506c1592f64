--------------------------- MODULE MCLexwareSync ---------------------------
(* Small instances of LexwareSync for TLC.                                  *)
EXTENDS LexwareSync, TLC

CONSTANTS c1, i1, i2, job, api

SerialKinds == c1 :> "contact" @@ i1 :> "invoice" @@ i2 :> "invoice"
SerialOrder == c1 :> 1 @@ i1 :> 2 @@ i2 :> 3
SerialContact == c1 :> NoItem @@ i1 :> c1 @@ i2 :> c1
Unmirrored == [x \in Items |-> "absent"]
NewContact == [x \in Items |-> IF x = c1 THEN "absent" ELSE "open"]
=============================================================================
