--------------------------- MODULE DunningLedger ---------------------------
(* What the Mahnwesen promises, without transactions, jobs or requests:    *)
(* every reminder letter is drafted before it is sent and stays sent, the  *)
(* letters of an invoice are drafted in ascending stages, and the stage an *)
(* invoice shows is that of a letter that went out. It does not promise    *)
(* that a letter goes out once, nor that the stage shown is the highest.   *)
EXTENDS Integers

CONSTANTS Invoices, Stages

VARIABLES letter, level

Letters == Invoices \X Stages

LedgerInit ==
  /\ letter = [r \in Letters |-> "none"]
  /\ level = [i \in Invoices |-> 0]

(* A batch of drafts, at most one for an invoice, each of a higher stage   *)
(* than every letter the invoice has.                                      *)
Prepare(S) ==
  /\ \A r \in S : \A t \in Letters :
       t[1] = r[1] /\ (letter[t] # "none" \/ t \in S) => t[2] < r[2] \/ t = r
  /\ \A r \in S : letter[r] = "none"
  /\ letter' = [r \in Letters |-> IF r \in S THEN "draft" ELSE letter[r]]
  /\ UNCHANGED level

Send(r) ==
  /\ letter[r] # "none"
  /\ letter' = [letter EXCEPT ![r] = "sent"]
  /\ level' \in {level, [level EXCEPT ![r[1]] = r[2]]}

LedgerNext == (\E S \in SUBSET Letters : Prepare(S)) \/ (\E r \in Letters : Send(r))

LedgerSpec == LedgerInit /\ [][LedgerNext]_<<letter, level>>
=============================================================================
