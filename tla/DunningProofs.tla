--------------------------- MODULE DunningProofs ---------------------------
(* Proofs about Dunning, for every set of invoices, every number of        *)
(* requests and commands, and every value of the bounds.                   *)
EXTENDS Dunning, TLAPS

(* A draft is of the highest stage the invoice has reached.                 *)
LEMMA DraftsTop ==
  ASSUME TypeOK, NEW r \in Drafts
  PROVE  /\ r \in DunningRun /\ r[2] \in Reached(r[1])
         /\ \A s \in Reached(r[1]) : s <= r[2]
<1>1. r \in DunningRun /\ r[2] \in Reached(r[1]) /\ r[2] > level[r[1]]
      /\ \A t \in Reached(r[1]) : t > level[r[1]] => t <= r[2]
  BY DEF Drafts, NextStage
<1>2. level[r[1]] \in 0..3 /\ r[2] \in 1..3
  BY <1>1 DEF TypeOK, DunningRun, Stages
<1>3. \A s \in Reached(r[1]) : s \in 1..3
  BY DEF Reached, Stages
<1>4. QED
  BY <1>1, <1>2, <1>3

-----------------------------------------------------------------------------
(* Type correctness.                                                        *)

LEMMA InitTypeOK == Init => TypeOK
<1> SUFFICES ASSUME Init PROVE TypeOK
  OBVIOUS
<1>1. /\ today \in Days
      /\ missed \in 0..MaxMissed /\ prepares \in 0..MaxPrepares /\ crashes \in 0..MaxCrashes
  BY DunningAssumption DEF Init, Days
<1>5. fired \in BOOLEAN
  BY DEF Init
<1>2. /\ status \in [Invoices -> InvoiceStatus]
      /\ level \in [Invoices -> {0} \cup Stages]
      /\ drafted \subseteq DunningRun /\ sent \subseteq DunningRun
      /\ messages \in [DunningRun -> Nat] /\ announced \in [DunningRun -> Nat]
  BY DEF Init, InvoiceStatus
<1>3. /\ pc \in [Preparers -> {"idle", "scan", "insert", "announce"}]
      /\ todo \in [Preparers -> SUBSET DunningRun]
      /\ cur \in [Preparers -> DunningRun \cup {NoRun}]
      /\ \A p \in Preparers : pc[p] = "insert" => cur[p] \in todo[p]
      /\ pending \in [Preparers -> SUBSET DunningRun]
  BY DEF Init
<1>4. req \in [Senders -> {NoRequest} \cup
        [at : {"posted", "run", "both"}, run : DunningRun, level : {0} \cup Stages]]
  BY DEF Init
<1>6. QED
  BY <1>1, <1>2, <1>3, <1>4, <1>5 DEF TypeOK

LEMMA AbortTypeOK ==
  ASSUME TypeOK, NEW p \in Preparers, Abort(p)
  PROVE  /\ pc' \in [Preparers -> {"idle", "scan", "insert", "announce"}]
         /\ todo' \in [Preparers -> SUBSET DunningRun]
         /\ cur' \in [Preparers -> DunningRun \cup {NoRun}]
         /\ \A x \in Preparers : pc'[x] = "insert" => cur'[x] \in todo'[x]
         /\ pending' \in [Preparers -> SUBSET DunningRun]
BY DEF TypeOK, Abort

LEMMA StepTypeOK == TypeOK /\ [Next]_vars => TypeOK'
<1> SUFFICES ASSUME TypeOK, [Next]_vars PROVE TypeOK'
  OBVIOUS
<1> USE DEF db, clock, local
<1> Drafts \in SUBSET DunningRun
  BY DEF Drafts
<1>1. ASSUME StartJob PROVE TypeOK'
  BY <1>1 DEF StartJob, TypeOK
<1>2. ASSUME NEW p \in Preparers, StartPrepare(p) PROVE TypeOK'
  BY <1>2, DunningAssumption DEF StartPrepare, TypeOK
<1>3. ASSUME NEW p \in Preparers, NEW r \in todo[p], SelectExisting(p, r) PROVE TypeOK'
  BY <1>3 DEF SelectExisting, TypeOK
<1>4. ASSUME NEW p \in Preparers, NEW r \in todo[p], SelectNew(p, r) PROVE TypeOK'
  BY <1>4 DEF SelectNew, TypeOK
<1>5. ASSUME NEW p \in Preparers, NEW r \in todo[p], Announce(p, r) PROVE TypeOK'
  BY <1>5 DEF Announce, TypeOK
<1>6. ASSUME NEW p \in Preparers, Insert(p) PROVE TypeOK'
  BY <1>6 DEF Insert, TypeOK
<1>7. ASSUME NEW p \in Preparers, InsertConflict(p) PROVE TypeOK'
  BY <1>7, AbortTypeOK DEF InsertConflict, TypeOK
<1>8. ASSUME NEW p \in Preparers, DeadlockVictim(p) PROVE TypeOK'
  BY <1>8, AbortTypeOK DEF DeadlockVictim, TypeOK
<1>9. ASSUME NEW p \in Preparers, CommitPrepare(p) PROVE TypeOK'
  BY <1>9 DEF CommitPrepare, TypeOK
<1>10. ASSUME NEW p \in Preparers, EndJob(p) PROVE TypeOK'
  BY <1>10 DEF EndJob, TypeOK
<1>11. ASSUME NEW p \in Preparers, Crash(p) PROVE TypeOK'
  <2>1. crashes' \in 0..MaxCrashes
    BY <1>11, DunningAssumption DEF Crash, TypeOK
  <2>2. QED
    BY <1>11, <2>1, AbortTypeOK DEF Crash, TypeOK
<1>12. ASSUME NEW q \in Senders, NEW S \in SUBSET Invoices, NEW r \in drafted,
              PickDraft(q, S, r) PROVE TypeOK'
  BY <1>12 DEF PickDraft, TypeOK
<1>13. ASSUME NEW q \in Senders, LoadSentRun(q) \/ DropSend(q) PROVE TypeOK'
  BY <1>13 DEF LoadSentRun, DropSend, TypeOK
<1>14. ASSUME NEW q \in Senders, LoadRun(q) PROVE TypeOK'
  <2>1. req[q] # NoRequest
    BY <1>14 DEF LoadRun, NoRequest
  <2>2. req' \in [Senders -> {NoRequest} \cup
         [at : {"posted", "run", "both"}, run : DunningRun, level : {0} \cup Stages]]
    BY <1>14, <2>1 DEF LoadRun, TypeOK
  <2>3. QED
    BY <1>14, <2>2 DEF LoadRun, TypeOK
<1>15. ASSUME NEW q \in Senders, LoadInvoice(q) PROVE TypeOK'
  <2>1. req[q] # NoRequest
    BY <1>15 DEF LoadInvoice, NoRequest
  <2>2. level[req[q].run[1]] \in {0} \cup Stages
    BY <2>1 DEF TypeOK, DunningRun
  <2>3. req' \in [Senders -> {NoRequest} \cup
         [at : {"posted", "run", "both"}, run : DunningRun, level : {0} \cup Stages]]
    BY <1>15, <2>1, <2>2 DEF LoadInvoice, TypeOK
  <2>4. QED
    BY <1>15, <2>3 DEF LoadInvoice, TypeOK
<1>16. ASSUME NEW q \in Senders, CommitSend(q) PROVE TypeOK'
  <2>1. req[q] # NoRequest
    BY <1>16 DEF CommitSend, NoRequest
  <2>2. req[q].run \in DunningRun /\ req[q].run[1] \in Invoices /\ req[q].run[2] \in Stages
    BY <2>1 DEF TypeOK, DunningRun
  <2>3. messages' \in [DunningRun -> Nat] /\ sent' \subseteq DunningRun
    BY <1>16, <2>2 DEF CommitSend, TypeOK
  <2>4. level' \in [Invoices -> {0} \cup Stages]
    BY <1>16, <2>2 DEF CommitSend, TypeOK
  <2>5. req' \in [Senders -> {NoRequest} \cup
         [at : {"posted", "run", "both"}, run : DunningRun, level : {0} \cup Stages]]
    BY <1>16 DEF CommitSend, TypeOK
  <2>6. QED
    BY <1>16, <2>3, <2>4, <2>5 DEF CommitSend, TypeOK
<1>17. ASSUME NEW i \in Invoices, NEW s \in InvoiceStatus \ {"absent"}, Sync(i, s)
       PROVE  TypeOK'
  BY <1>17 DEF Sync, TypeOK
<1>18. ASSUME NextDay PROVE TypeOK'
  <2>1. today' \in Days
    BY <1>18, DunningAssumption DEF NextDay, TypeOK, Days
  <2>2. missed' \in 0..MaxMissed
    <3>1. missed' = missed \/ (missed < MaxMissed /\ missed' = missed + 1)
      BY <1>18 DEF NextDay
    <3>2. QED
      BY <3>1, DunningAssumption DEF TypeOK
  <2>3. QED
    BY <1>18, <2>1, <2>2 DEF NextDay, TypeOK
<1>19. ASSUME UNCHANGED vars PROVE TypeOK'
  BY <1>19 DEF vars, TypeOK
<1>20. QED
  BY <1>1, <1>2, <1>3, <1>4, <1>5, <1>6, <1>7, <1>8, <1>9, <1>10, <1>11, <1>12,
     <1>13, <1>14, <1>15, <1>16, <1>17, <1>18, <1>19
     DEF Next, PrepareStep, SendStep

(* Every state of the Mahnwesen has the right types, and what a preparer   *)
(* inserts is on its list (dunning_job, prepare, send).                    *)
THEOREM TypeCorrect == Spec => []TypeOK
BY InitTypeOK, StepTypeOK, PTL DEF Spec
-----------------------------------------------------------------------------
(* The inductive invariant.                                                 *)

LEMMA InitIInv == Init => IInv
BY DEF Init, IInv, LevelWasSent, AnnouncedOnce, DraftInv, KeyInv, SendInv, Reached

(* Only CommitSend touches the stages, the marks and the letters.           *)
LEMMA StepLevelWasSent == TypeOK /\ IInv /\ [Next]_vars => LevelWasSent'
<1> SUFFICES ASSUME TypeOK, IInv, [Next]_vars PROVE LevelWasSent'
  OBVIOUS
<1>1. CASE \E q \in Senders : CommitSend(q)
  <2>1. PICK q \in Senders : CommitSend(q)
    BY <1>1
  <2>2. req[q] # NoRequest
    BY <2>1 DEF CommitSend, NoRequest
  <2> DEFINE r == req[q].run
  <2>3. r \in DunningRun /\ r = <<r[1], r[2]>> /\ r[1] \in Invoices
    BY <2>2 DEF TypeOK, DunningRun
  <2>4. /\ sent' = sent \cup {r} /\ messages' = [messages EXCEPT ![r] = @ + 1]
        /\ level' = level \/ level' = [level EXCEPT ![r[1]] = r[2]]
    BY <2>1 DEF CommitSend
  <2> HIDE DEF r
  <2>5. \A i \in Invoices : level'[i] # 0 => <<i, level'[i]>> \in sent'
    BY <2>3, <2>4 DEF IInv, LevelWasSent, TypeOK
  <2>6. \A x \in DunningRun : x \in sent' <=> messages'[x] >= 1
    BY <2>3, <2>4 DEF IInv, LevelWasSent, TypeOK
  <2>7. QED
    BY <2>5, <2>6 DEF LevelWasSent
<1>2. CASE ~\E q \in Senders : CommitSend(q)
  <2>1. UNCHANGED <<level, sent, messages>>
    BY <1>2 DEF Next, vars, db, PrepareStep, SendStep, StartJob, StartPrepare,
       SelectExisting, SelectNew, Announce, Insert, InsertConflict, DeadlockVictim,
       CommitPrepare, EndJob, Crash, PickDraft, LoadSentRun, LoadRun, LoadInvoice,
       DropSend, Sync, NextDay
  <2>2. QED
    BY <2>1 DEF IInv, LevelWasSent
<1>3. QED
  BY <1>1, <1>2

(* A command works on a row that is in the table.                           *)
LEMMA StepSendInv == TypeOK /\ IInv /\ [Next]_vars => SendInv'
<1> SUFFICES ASSUME TypeOK, IInv, [Next]_vars PROVE SendInv'
  OBVIOUS
<1> USE DEF db, clock, local
<1>1. SendInv
  BY DEF IInv
<1>2. CASE \E q \in Senders : \E S \in SUBSET Invoices, r \in drafted : PickDraft(q, S, r)
  <2>1. PICK q \in Senders, r \in drafted :
          req' = [req EXCEPT ![q] = [at |-> "posted", run |-> r, level |-> 0]]
          /\ UNCHANGED <<drafted, sent>>
    BY <1>2 DEF PickDraft
  <2>2. QED
    BY <1>1, <2>1 DEF SendInv, TypeOK
<1>3. ASSUME NEW q \in Senders, LoadSentRun(q) \/ DropSend(q) PROVE SendInv'
  BY <1>1, <1>3 DEF LoadSentRun, DropSend, SendInv, TypeOK
<1>4. ASSUME NEW q \in Senders, LoadRun(q) \/ LoadInvoice(q) PROVE SendInv'
  <2>1. req[q] # NoRequest
    BY <1>4 DEF LoadRun, LoadInvoice, NoRequest
  <2>2. /\ req'[q].run = req[q].run
        /\ \A x \in Senders : x # q => req'[x] = req[x]
        /\ UNCHANGED <<drafted, sent>>
    BY <1>4, <2>1 DEF LoadRun, LoadInvoice, TypeOK
  <2>3. QED
    BY <1>1, <2>1, <2>2 DEF SendInv
<1>5. ASSUME NEW q \in Senders, CommitSend(q) PROVE SendInv'
  <2>1. req[q] # NoRequest
    BY <1>5 DEF CommitSend, NoRequest
  <2>2. sent' = sent \cup {req[q].run} /\ req' = [req EXCEPT ![q] = NoRequest]
        /\ UNCHANGED drafted
    BY <1>5 DEF CommitSend
  <2>3. QED
    BY <1>1, <2>1, <2>2 DEF SendInv, TypeOK
<1>6. CASE drafted \subseteq drafted' /\ UNCHANGED <<sent, req>>
  BY <1>1, <1>6 DEF SendInv
<1>7. StartJob \/ (\E p \in Preparers : StartPrepare(p) \/ PrepareStep(p) \/ Crash(p))
      \/ (\E i \in Invoices, s \in InvoiceStatus \ {"absent"} : Sync(i, s))
      \/ NextDay \/ UNCHANGED vars
      => drafted \subseteq drafted' /\ UNCHANGED <<sent, req>>
  BY DEF vars, PrepareStep, StartJob, StartPrepare, SelectExisting, SelectNew, Announce,
     Insert, InsertConflict, DeadlockVictim, CommitPrepare, EndJob, Crash, Sync, NextDay
<1>8. QED
  BY <1>2, <1>3, <1>4, <1>5, <1>6, <1>7 DEF Next, SendStep

(* What the preparers' part of the invariant reads.                         *)
PreparerInv == AnnouncedOnce /\ DraftInv /\ KeyInv

preparerVars == <<drafted, today, pc, todo, cur, pending, announced>>

(* The clock only makes an invoice reach more stages.                       *)
LEMMA ReachedGrows ==
  ASSUME TypeOK, TypeOK', today' >= today, NEW i \in Invoices
  PROVE  Reached(i) \subseteq Reached(i)'
<1> SUFFICES ASSUME NEW s \in Stages, today - Due[i] >= Threshold[s]
             PROVE  today' - Due[i] >= Threshold[s]
  BY DEF Reached, DaysOverdue
<1> QED
  BY DunningAssumption DEF TypeOK, Days

(* A preparer that gives up leaves no key behind.                           *)
LEMMA AbortInv ==
  ASSUME TypeOK, PreparerInv, NEW p \in Preparers, Abort(p), UNCHANGED <<drafted, today, announced>>
  PROVE  PreparerInv'
BY DEF PreparerInv, TypeOK, Abort, AnnouncedOnce, DraftInv, KeyInv, Reached, DaysOverdue

(* What a preparer starts with is what compute_drafts returns.              *)
LEMMA StartInv ==
  ASSUME TypeOK, PreparerInv, NEW p \in Preparers, pc[p] = "idle",
         pc' = [pc EXCEPT ![p] = "scan"], todo' = [todo EXCEPT ![p] = Drafts],
         UNCHANGED <<drafted, today, pending, announced>>
  PROVE  PreparerInv'
<1>1. AnnouncedOnce' /\ KeyInv'
  BY DEF PreparerInv, TypeOK, AnnouncedOnce, KeyInv
<1>2. pending[p] = {}
  BY DEF PreparerInv, DraftInv
<1>3. \A r \in Drafts : r[2] \in Reached(r[1]) /\ \A s \in Reached(r[1]) : s <= r[2]
  BY DraftsTop
<1>4. DraftInv'
  BY <1>2, <1>3 DEF PreparerInv, TypeOK, DraftInv, Reached, DaysOverdue
<1>5. QED
  BY <1>1, <1>4 DEF PreparerInv

LEMMA StepPreparerInv == TypeOK /\ TypeOK' /\ PreparerInv /\ [Next]_vars => PreparerInv'
<1> SUFFICES ASSUME TypeOK, TypeOK', PreparerInv, [Next]_vars PROVE PreparerInv'
  OBVIOUS
<1> USE DEF db, clock, local
<1> DEFINE Top(r) == r[2] \in Reached(r[1]) /\ \A s \in Reached(r[1]) : s <= r[2]
<1>1. ASSUME StartJob PROVE PreparerInv'
  BY <1>1, StartInv DEF StartJob, Preparers
<1>2. ASSUME NEW p \in Preparers, StartPrepare(p) PROVE PreparerInv'
  BY <1>2, StartInv DEF StartPrepare
<1>3. ASSUME NEW p \in Preparers, NEW r \in todo[p], SelectExisting(p, r) \/ SelectNew(p, r)
      PROVE  PreparerInv'
  BY <1>3 DEF SelectExisting, SelectNew, PreparerInv, TypeOK, AnnouncedOnce, DraftInv,
     KeyInv, Reached, DaysOverdue
<1>4. ASSUME NEW p \in Preparers, NEW r \in todo[p], Announce(p, r) PROVE PreparerInv'
  <2>1. /\ r \in DunningRun /\ p = Job /\ announced[r] = 0 /\ r \in drafted
        /\ announced' = [announced EXCEPT ![r] = @ + 1]
        /\ todo' = [todo EXCEPT ![p] = @ \ {r}]
        /\ UNCHANGED <<drafted, today, pc, pending>>
    BY <1>4 DEF Announce, PreparerInv, KeyInv, TypeOK
  <2>2. \A x \in DunningRun : announced'[x] = IF x = r THEN 1 ELSE announced[x]
    BY <2>1 DEF TypeOK
  <2>3. AnnouncedOnce'
    BY <2>1, <2>2 DEF PreparerInv, AnnouncedOnce, TypeOK
  <2>4. KeyInv'
    BY <2>1, <2>2 DEF PreparerInv, KeyInv, TypeOK
  <2>5. DraftInv'
    BY <2>1 DEF PreparerInv, DraftInv, TypeOK, Reached, DaysOverdue
  <2>6. QED
    BY <2>3, <2>4, <2>5 DEF PreparerInv
<1>5. ASSUME NEW p \in Preparers, Insert(p) PROVE PreparerInv'
  <2>1. /\ cur[p] \in todo[p] /\ cur[p] \in DunningRun /\ cur[p] \notin drafted
        /\ \A q \in Preparers : q # p => cur[p] \notin pending[q]
    BY <1>5 DEF Insert, WaitsFor, TypeOK
  <2>2. AnnouncedOnce' /\ KeyInv'
    BY <1>5, <2>1 DEF Insert, PreparerInv, TypeOK, AnnouncedOnce, KeyInv
  <2>3. DraftInv'
    BY <1>5, <2>1 DEF Insert, PreparerInv, TypeOK, DraftInv, Reached, DaysOverdue
  <2>4. QED
    BY <2>2, <2>3 DEF PreparerInv
<1>6. ASSUME NEW p \in Preparers, InsertConflict(p) \/ DeadlockVictim(p) \/ Crash(p)
      PROVE  PreparerInv'
  BY <1>6, AbortInv DEF InsertConflict, DeadlockVictim, Crash
<1>7. ASSUME NEW p \in Preparers, CommitPrepare(p) PROVE PreparerInv'
  <2>1. /\ pc[p] = "scan" /\ drafted' = drafted \cup pending[p]
        /\ pending' = [pending EXCEPT ![p] = {}]
        /\ UNCHANGED <<today, announced>>
    BY <1>7 DEF CommitPrepare
  <2>2. \A r \in pending[p] : r \in DunningRun /\ Top(r) /\ announced[r] = 0
    BY <2>1 DEF PreparerInv, DraftInv, KeyInv, TypeOK
  <2>3. AnnouncedOnce'
    BY <2>1 DEF PreparerInv, AnnouncedOnce
  <2>4. DraftInv'
    BY <1>7, <2>1, <2>2 DEF CommitPrepare, PreparerInv, TypeOK, DraftInv, Reached, DaysOverdue
  <2>5. KeyInv'
    BY <1>7, <2>1, <2>2 DEF CommitPrepare, PreparerInv, TypeOK, KeyInv
  <2>6. QED
    BY <2>3, <2>4, <2>5 DEF PreparerInv
<1>8. ASSUME NEW p \in Preparers, EndJob(p) PROVE PreparerInv'
  BY <1>8 DEF EndJob, PreparerInv, TypeOK, AnnouncedOnce, DraftInv, KeyInv, Reached, DaysOverdue
<1>9. ASSUME NextDay PROVE PreparerInv'
  <2>1. /\ \A p \in Preparers : pc[p] = "idle"
        /\ today' = today + 1 /\ UNCHANGED <<drafted, pc, todo, pending, announced>>
    BY <1>9 DEF NextDay
  <2>2. AnnouncedOnce' /\ KeyInv'
    BY <2>1 DEF PreparerInv, AnnouncedOnce, KeyInv
  <2>3. \A r \in drafted : r[2] \in Reached(r[1])'
    BY <2>1, ReachedGrows DEF PreparerInv, DraftInv, TypeOK, DunningRun, Days
  <2>4. DraftInv'
    BY <2>1, <2>3 DEF PreparerInv, DraftInv
  <2>5. QED
    BY <2>2, <2>4 DEF PreparerInv
<1>10. CASE UNCHANGED preparerVars
  BY <1>10 DEF preparerVars, PreparerInv, AnnouncedOnce, DraftInv, KeyInv, Reached, DaysOverdue
<1>11. (\E q \in Senders : (\E S \in SUBSET Invoices, r \in drafted : PickDraft(q, S, r))
                           \/ SendStep(q))
       \/ (\E i \in Invoices, s \in InvoiceStatus \ {"absent"} : Sync(i, s))
       \/ UNCHANGED vars
       => UNCHANGED preparerVars
  BY DEF preparerVars, vars, SendStep, PickDraft, LoadSentRun, LoadRun, LoadInvoice,
     CommitSend, DropSend, Sync
<1>12. QED
  BY <1>1, <1>2, <1>3, <1>4, <1>5, <1>6, <1>7, <1>8, <1>9, <1>10, <1>11
     DEF Next, PrepareStep

LEMMA StepIInv == TypeOK /\ TypeOK' /\ IInv /\ [Next]_vars => IInv'
BY StepLevelWasSent, StepSendInv, StepPreparerInv DEF IInv, PreparerInv

(* The inductive invariant holds of every behaviour: what the lists, the   *)
(* open transactions and the commands hold agrees with the tables          *)
(* (compute_drafts, dunning_job, prepare, send).                           *)
THEOREM InductiveInvariantThm == Spec => []IInv
<1>1. Init => TypeOK /\ IInv
  BY InitTypeOK, InitIInv
<1>2. TypeOK /\ IInv /\ [Next]_vars => (TypeOK /\ IInv)'
  BY StepTypeOK, StepIInv
<1>3. QED
  BY <1>1, <1>2, PTL DEF Spec

(* The stage shown is that of a letter that was written, and a run is      *)
(* marked sent exactly when a letter was (send, models.py:516-551).        *)
THEOREM LevelWasSentThm == Spec => []LevelWasSent
<1>1. IInv => LevelWasSent
  BY DEF IInv
<1>2. QED
  BY <1>1, InductiveInvariantThm, PTL

(* Telegram hears of a draft at most once, and only of a committed one     *)
(* (dunning_job, router.py:41).                                            *)
THEOREM AnnouncedOnceThm == Spec => []AnnouncedOnce
<1>1. IInv => AnnouncedOnce
  BY DEF IInv
<1>2. QED
  BY <1>1, InductiveInvariantThm, PTL

-----------------------------------------------------------------------------
(* Steps: drafts ascend, and the ledger is implemented.                     *)

(* Only the commit of a batch adds rows: stages the invoice has reached,   *)
(* none of them lower than another row of it.                              *)
LEMMA NewDrafts ==
  TypeOK /\ IInv /\ [Next]_vars =>
    \/ UNCHANGED drafted
    \/ /\ UNCHANGED <<sent, level>> /\ drafted \subseteq drafted'
       /\ \A r \in drafted' \ drafted : \A t \in drafted' : t[1] = r[1] /\ t # r => t[2] < r[2]
<1> SUFFICES ASSUME TypeOK, IInv, [Next]_vars
             PROVE  \/ UNCHANGED drafted
                    \/ /\ UNCHANGED <<sent, level>> /\ drafted \subseteq drafted'
                       /\ \A r \in drafted' \ drafted : \A t \in drafted' :
                            t[1] = r[1] /\ t # r => t[2] < r[2]
  OBVIOUS
<1>1. CASE \E p \in Preparers : CommitPrepare(p)
  <2>1. PICK p \in Preparers :
          /\ pc[p] = "scan" /\ drafted' = drafted \cup pending[p]
          /\ UNCHANGED <<sent, level>>
    BY <1>1 DEF CommitPrepare
  <2>2. SUFFICES ASSUME NEW r \in pending[p], NEW t \in drafted \cup pending[p],
                        t[1] = r[1], t # r
                 PROVE  t[2] < r[2]
    BY <2>1
  <2>3. \A s \in Reached(r[1]) : s <= r[2]
    BY <2>1 DEF IInv, DraftInv
  <2>4. t[2] \in Reached(t[1])
    BY <2>1 DEF IInv, DraftInv
  <2>5. r \in Invoices \X Stages /\ t \in Invoices \X Stages
    BY DEF TypeOK, DunningRun
  <2>6. t[2] # r[2]
    BY <2>2, <2>5
  <2>7. QED
    BY <2>2, <2>3, <2>4, <2>5, <2>6 DEF Stages
<1>2. CASE ~\E p \in Preparers : CommitPrepare(p)
  BY <1>2 DEF Next, vars, db, PrepareStep, SendStep, StartJob, StartPrepare,
     SelectExisting, SelectNew, Announce, Insert, InsertConflict, DeadlockVictim,
     EndJob, Crash, PickDraft, LoadSentRun, LoadRun, LoadInvoice, CommitSend,
     DropSend, Sync, NextDay
<1>3. QED
  BY <1>1, <1>2

(* No batch adds a lower stage to what another batch has drafted meanwhile *)
(* (next_mahnstufe, the unique key of dunning_runs).                       *)
THEOREM DraftsAscendThm == Spec => DraftsAscend
<1>1. TypeOK /\ IInv /\ [Next]_vars =>
        [\A r \in drafted' \ drafted : \A t \in drafted' :
           t[1] = r[1] /\ t # r => t[2] < r[2]]_vars
  BY NewDrafts
<1>2. QED
  BY <1>1, TypeCorrect, InductiveInvariantThm, PTL DEF Spec, DraftsAscend

(* A letter of the ledger is a row of the tables.                           *)
LEMMA LetterOf ==
  ASSUME NEW r \in Ledger!Letters
  PROVE  letter[r] = IF r \in sent THEN "sent" ELSE IF r \in drafted THEN "draft" ELSE "none"
BY DEF letter, Ledger!Letters, DunningRun

LEMMA LedgerSimulation ==
  TypeOK /\ IInv /\ [Next]_vars => [Ledger!LedgerNext]_<<letter, level>>
<1> SUFFICES ASSUME TypeOK, IInv, [Next]_vars
             PROVE  Ledger!LedgerNext \/ UNCHANGED <<letter, level>>
  OBVIOUS
<1>1. CASE \E q \in Senders : CommitSend(q)
  <2>1. PICK q \in Senders : CommitSend(q)
    BY <1>1
  <2>2. req[q] # NoRequest
    BY <2>1 DEF CommitSend, NoRequest
  <2> DEFINE r == req[q].run
  <2>3. r \in Ledger!Letters /\ r \in drafted
    BY <2>2 DEF IInv, SendInv, TypeOK, DunningRun, Ledger!Letters
  <2>4. /\ sent' = sent \cup {r} /\ UNCHANGED drafted
        /\ level' \in {level, [level EXCEPT ![r[1]] = r[2]]}
    BY <2>1 DEF CommitSend
  <2> HIDE DEF r
  <2>5. letter' = [letter EXCEPT ![r] = "sent"]
    BY <2>3, <2>4 DEF letter, Ledger!Letters, DunningRun
  <2>6. letter[r] # "none"
    BY <2>3 DEF letter, Ledger!Letters, DunningRun
  <2>7. Ledger!Send(r)
    BY <2>4, <2>5, <2>6 DEF Ledger!Send
  <2>8. QED
    BY <2>3, <2>7 DEF Ledger!LedgerNext
<1>2. CASE UNCHANGED <<sent, level>> /\ ~UNCHANGED drafted
  <2> DEFINE S == drafted' \ drafted
  <2>1. /\ drafted \subseteq drafted' /\ S \subseteq Ledger!Letters
        /\ \A r \in S : \A t \in drafted' : t[1] = r[1] /\ t # r => t[2] < r[2]
    BY <1>2, NewDrafts, StepTypeOK DEF TypeOK, DunningRun, Ledger!Letters
  <2>2. sent \subseteq drafted
    BY DEF IInv, SendInv
  <2>3. \A r \in S : letter[r] = "none"
    BY <2>1, <2>2 DEF letter, Ledger!Letters, DunningRun
  <2>4. \A t \in Ledger!Letters : letter[t] # "none" => t \in drafted'
    BY <2>1, <2>2 DEF letter, Ledger!Letters, DunningRun
  <2>5. letter' = [r \in Ledger!Letters |-> IF r \in S THEN "draft" ELSE letter[r]]
    BY <1>2, <2>1, <2>2 DEF letter, Ledger!Letters, DunningRun
  <2>6. Ledger!Prepare(S)
    BY <1>2, <2>1, <2>3, <2>4, <2>5 DEF Ledger!Prepare
  <2>7. QED
    BY <2>1, <2>6 DEF Ledger!LedgerNext
<1>3. CASE UNCHANGED <<drafted, sent, level>>
  BY <1>3 DEF letter
<1>4. (~\E q \in Senders : CommitSend(q)) => UNCHANGED <<sent, level>>
  BY DEF Next, vars, db, PrepareStep, SendStep, StartJob, StartPrepare,
     SelectExisting, SelectNew, Announce, Insert, InsertConflict, DeadlockVictim,
     CommitPrepare, EndJob, Crash, PickDraft, LoadSentRun, LoadRun, LoadInvoice,
     DropSend, Sync, NextDay
<1>5. QED
  BY <1>1, <1>2, <1>3, <1>4

(* The jobs, requests and commands implement the ledger: every letter is   *)
(* drafted before it is sent, drafts ascend, the stage shown was sent.     *)
THEOREM LedgerSpecThm == Spec => LedgerSpec
<1>1. Init => Ledger!LedgerInit
  BY DEF Init, letter, Ledger!LedgerInit, Ledger!Letters, DunningRun
<1>2. TypeOK /\ IInv /\ [Next]_vars => [Ledger!LedgerNext]_<<letter, level>>
  BY LedgerSimulation
<1>3. QED
  BY <1>1, <1>2, TypeCorrect, InductiveInvariantThm, PTL
     DEF Spec, LedgerSpec, Ledger!LedgerSpec
=============================================================================
