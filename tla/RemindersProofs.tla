-------------------------- MODULE RemindersProofs --------------------------
(* Proofs about Reminders, for every catalog, every number of runs and of  *)
(* requests, and every value of the bounds.                                *)
EXTENDS Reminders, TLAPS

-----------------------------------------------------------------------------
(* Facts about the operators the model is built from.                       *)

(* An item inside its notification window is an instance the model can     *)
(* store: its due date lies within the horizon.                            *)
LEMMA WindowWithinHorizon ==
  ASSUME TypeOK, NEW r \in Runs, NEW k \in todo[r], InWindow(k)
  PROVE  k \in Keys
<1>1. k \in Obligations \X Nat
  BY DEF TypeOK
<1>2. PICK o \in Obligations, d \in Nat : k = <<o, d>>
  BY <1>1
<1>3. today <= LastDay /\ today \in Nat /\ LastDay + Lead[o] <= Horizon
      /\ Lead[o] \in Nat /\ Horizon \in Nat /\ LastDay \in Nat
  BY BoundAssumption, CatalogAssumption DEF TypeOK, Days
<1>4. d <= Horizon
  BY <1>2, <1>3 DEF InWindow
<1>5. QED
  BY <1>2, <1>3, <1>4 DEF Keys

(* What a run computes are obligations with natural due dates.              *)
LEMMA DueComputationsType ==
  ASSUME TypeOK
  PROVE  DueComputations \in SUBSET (Obligations \X Nat)
<1>1. ASSUME NEW o \in Obligations \ MissingAnchors PROVE Occurrences(o) \subseteq Nat
  <2>1. CASE o \in AnchorDated
    <3>1. \A d \in 0..(Horizon + Year) : d \in Nat
      BY CatalogAssumption, BoundAssumption
    <3>2. QED
      BY <2>1, <3>1 DEF Occurrences
  <2>2. CASE o \notin AnchorDated
    BY <2>2, CatalogAssumption DEF Occurrences
  <2>3. QED
    BY <2>1, <2>2
<1>2. \A o \in Obligations \ MissingAnchors : NextDue(o, today - LookBack) \subseteq Nat
  BY <1>1 DEF NextDue
<1>3. QED
  BY <1>2 DEF DueComputations

(* Every access of the operator and of midnight keeps the types.            *)
LEMMA StatusType ==
  /\ Terminal \subseteq Status
  /\ {"pending", "notified", "escalated"} \subseteq Status
  /\ "absent" \notin Status /\ "none" \notin Status /\ "touched" \notin Status
BY DEF Status, Terminal

-----------------------------------------------------------------------------
(* Type correctness.                                                        *)

LEMMA InitTypeOK == Init => TypeOK
BY CatalogAssumption, BoundAssumption
   DEF Init, TypeOK, Days, NoWrites, Status, Working, Terminal

LEMMA FailTypeOK ==
  ASSUME TypeOK, NEW r \in Runs, Fail(r),
         UNCHANGED <<db, settings, today, runsToday, missed, req, wire>>,
         crashes' \in 0..MaxCrashes
  PROVE  TypeOK'
BY DEF TypeOK, Fail, Rollback, CloseSession, NoWrites, db, settings, wire, Working

LEMMA StepTypeOK == TypeOK /\ [Next]_vars => TypeOK'
<1> SUFFICES ASSUME TypeOK, [Next]_vars PROVE TypeOK'
  OBVIOUS
<1> USE StatusType DEF db, settings, clock, local, txn, wire
<1>1. ASSUME NEW r \in Runs, StartPaused(r) PROVE TypeOK'
  BY <1>1, BoundAssumption DEF StartPaused, TypeOK
<1>2. ASSUME NEW r \in Runs, Start(r) PROVE TypeOK'
  <2>1. MissingAnchors \in SUBSET Obligations
    BY CatalogAssumption DEF MissingAnchors, AnchorDriven
  <2>2. missing' \in [Runs -> SUBSET Obligations]
    BY <1>2, <2>1 DEF Start, TypeOK
  <2>3. todo' \in [Runs -> SUBSET (Obligations \X Nat)]
    BY <1>2, DueComputationsType DEF Start, TypeOK
  <2>4. pc' \in [Runs -> {"idle", "pick"} \cup Working]
        /\ runsToday' \in 0..MaxRuns
    BY <1>2, BoundAssumption DEF Start, TypeOK
  <2>5. \A q \in Runs : pc'[q] \in Working => cur'[q] \in Keys /\ cur'[q] \in todo'[q]
    BY <1>2 DEF Start, TypeOK, Working
  <2>6. QED
    BY <1>2, <2>2, <2>3, <2>4, <2>5 DEF Start, TypeOK
<1>3. ASSUME NEW r \in Runs, NEW o \in missing[r], SkipNudge(r, o) PROVE TypeOK'
  BY <1>3 DEF SkipNudge, TypeOK
<1>4. ASSUME NEW r \in Runs, NEW o \in missing[r], Nudge(r, o) PROVE TypeOK'
  BY <1>4 DEF Nudge, TypeOK
<1>5. ASSUME NEW r \in Runs, NEW o \in missing[r], NudgeAmbiguous(r, o) PROVE TypeOK'
  BY <1>5, FailTypeOK DEF NudgeAmbiguous, TypeOK
<1>6. ASSUME NEW r \in Runs, PickExpired(r) PROVE TypeOK'
  BY <1>6, FailTypeOK DEF PickExpired, TypeOK
<1>7. ASSUME NEW r \in Runs, NEW k \in todo[r], SkipEarly(r, k) PROVE TypeOK'
  BY <1>7 DEF SkipEarly, Advance, TypeOK, Working
<1>8. ASSUME NEW r \in Runs, NEW k \in todo[r], LoadTerminal(r, k) PROVE TypeOK'
  BY <1>8 DEF LoadTerminal, Advance, TypeOK, Working
<1>9. ASSUME NEW r \in Runs, NEW k \in todo[r], Load(r, k) PROVE TypeOK'
  BY <1>9, WindowWithinHorizon DEF Load, TypeOK, Working
<1>10. ASSUME NEW r \in Runs, CreateInserted(r) PROVE TypeOK'
  BY <1>10 DEF CreateInserted, TypeOK, Working
<1>11. ASSUME NEW r \in Runs, CreateConflict(r) PROVE TypeOK'
  <2>1. cur[r] \in Keys /\ inst[cur[r]] \in Status
    BY <1>11 DEF CreateConflict, TypeOK, Working
  <2>2. upd' \in [Runs -> [Keys -> Status \cup {"none", "touched"}]]
        /\ newLog' \in [Runs -> SUBSET Keys] /\ newAudit' \in [Runs -> SUBSET Obligations]
    BY <1>11 DEF CreateConflict, Rollback, NoWrites, TypeOK
  <2>3. expired' \in [Runs -> BOOLEAN]
    BY <1>11 DEF CreateConflict, TypeOK
  <2>4. CASE inst[cur[r]] \in Terminal
    <3>1. Advance(r, cur[r])
      BY <1>11, <2>4 DEF CreateConflict
    <3>2. todo' \in [Runs -> SUBSET (Obligations \X Nat)]
      BY <3>1 DEF Advance, TypeOK
    <3>3. \A q \in Runs : pc'[q] \in Working => cur'[q] \in Keys /\ cur'[q] \in todo'[q]
      BY <3>1 DEF Advance, TypeOK, Working
    <3>4. pc' \in [Runs -> {"idle", "pick"} \cup Working]
          /\ cur' \in [Runs -> Keys \cup {NoKey}]
          /\ loaded' \in [Runs -> Status \cup {"absent"}]
      BY <3>1 DEF Advance, TypeOK
    <3>5. QED
      BY <1>11, <2>2, <2>3, <3>2, <3>3, <3>4 DEF CreateConflict, TypeOK
  <2>5. CASE inst[cur[r]] \notin Terminal
    BY <1>11, <2>1, <2>2, <2>3, <2>5 DEF CreateConflict, TypeOK, Working
  <2>6. QED
    BY <2>4, <2>5
<1>12. ASSUME NEW r \in Runs, RecordInserted(r) PROVE TypeOK'
  BY <1>12 DEF RecordInserted, TypeOK, Working
<1>13. ASSUME NEW r \in Runs, RecordConflict(r) PROVE TypeOK'
  BY <1>13 DEF RecordConflict, Rollback, Advance, NoWrites, TypeOK, Working
<1>14. ASSUME NEW r \in Runs, Send(r) PROVE TypeOK'
  BY <1>14 DEF Send, TypeOK, Working
<1>16. ASSUME NEW r \in Runs, Update(r) PROVE TypeOK'
  BY <1>16 DEF Update, Advance, NotifiedStatus, TypeOK, Working
<1>17. ASSUME NEW r \in Runs, Commit(r) PROVE TypeOK'
  <2>1. inst' \in [Keys -> Status \cup {"absent"}]
    BY <1>17 DEF Commit, TypeOK
  <2>2. log' \subseteq Keys \X Days
    BY <1>17 DEF Commit, TypeOK
  <2>3. audits' \in [Obligations -> Nat]
    BY <1>17 DEF Commit, TypeOK
  <2>4. QED
    BY <1>17, <2>1, <2>2, <2>3
       DEF Commit, Rollback, CloseSession, NoWrites, TypeOK, Working
<1>18. ASSUME NEW r \in Runs, Crash(r) PROVE TypeOK'
  BY <1>18, FailTypeOK, BoundAssumption DEF Crash, TypeOK
<1>19. ASSUME NEW r \in Runs, DeadlockVictim(r) PROVE TypeOK'
  BY <1>19, FailTypeOK DEF DeadlockVictim, TypeOK
<1>20. ASSUME NEW q \in Requests, NEW k \in Keys, NEW op \in Terminal,
              LoadRequest(q, k, op) PROVE TypeOK'
  BY <1>20 DEF LoadRequest, TypeOK
<1>21. ASSUME NEW q \in Requests, CommitRequest(q) PROVE TypeOK'
  BY <1>21 DEF CommitRequest, TypeOK
<1>22. ASSUME NEW q \in Requests, DropRequest(q) PROVE TypeOK'
  BY <1>22 DEF DropRequest, TypeOK
<1>23. ASSUME NEW days \in PauseDays, SetPause(days) PROVE TypeOK'
  BY <1>23, BoundAssumption DEF SetPause, TypeOK, Days
<1>24. ASSUME Resume PROVE TypeOK'
  BY <1>24 DEF Resume, TypeOK
<1>25. ASSUME NEW o \in AnchorDriven, NEW d \in AnchorDates, SetAnchor(o, d) PROVE TypeOK'
  BY <1>25 DEF SetAnchor, TypeOK
<1>26. ASSUME NextDay PROVE TypeOK'
  BY <1>26, BoundAssumption DEF NextDay, TypeOK, Days
<1>27. ASSUME UNCHANGED vars PROVE TypeOK'
  BY <1>27 DEF vars, TypeOK
<1>28. QED
  BY <1>1, <1>2, <1>3, <1>4, <1>5, <1>6, <1>7, <1>8, <1>9, <1>10, <1>11, <1>12,
     <1>13, <1>14, <1>16, <1>17, <1>18, <1>19, <1>20, <1>21, <1>22,
     <1>23, <1>24, <1>25, <1>26, <1>27
     DEF Next, RunStep, Operator

(* Every variable keeps its type, and a run in the middle of an item works *)
(* on one it still has to do: run_daily_check, engine.py:197-287.          *)
THEOREM TypeCorrect == Spec => []TypeOK
BY InitTypeOK, StepTypeOK, PTL DEF Spec

-----------------------------------------------------------------------------
(* The labels: what open transactions hold of notification_log, and what   *)
(* the committed rows of it stand for.                                      *)

SentInv == LabelInv /\ RecordedWasSent

LEMMA InitSentInv == Init => SentInv
BY DEF Init, SentInv, LabelInv, RecordedWasSent, NoWrites

(* A run that rolls back and goes on to its next item, or ends, lets go of *)
(* the labels it held.                                                      *)
LEMMA RollbackSentInv ==
  ASSUME TypeOK, SentInv, NEW r \in Runs, Rollback(r),
         UNCHANGED <<log, today, sent>>,
         pc' \in [Runs -> {"idle", "pick"} \cup Working],
         \A q \in Runs \ {r} : pc'[q] = pc[q] /\ cur'[q] = cur[q],
         pc'[r] \notin {"send", "update"}
  PROVE  SentInv'
<1>1. newLog'[r] = {} /\ upd'[r] = NoWrites'
  BY DEF Rollback, TypeOK, NoWrites
<1>2. \A q \in Runs \ {r} : newLog'[q] = newLog[q] /\ upd'[q] = upd[q]
  BY DEF Rollback, TypeOK
<1>3. RecordedWasSent'
  BY DEF SentInv, RecordedWasSent
<1>4. QED
  BY <1>1, <1>2, <1>3 DEF SentInv, LabelInv, NoWrites

LEMMA StepSentInv == TypeOK /\ SentInv /\ [Next]_vars => SentInv'
<1> SUFFICES ASSUME TypeOK, SentInv, [Next]_vars PROVE SentInv'
  OBVIOUS
<1> USE DEF db, settings, clock, local, txn, wire
<1>1. ASSUME NEW r \in Runs, StartPaused(r) PROVE SentInv'
  BY <1>1 DEF StartPaused, SentInv, LabelInv, RecordedWasSent, NoWrites
<1>2. ASSUME NEW r \in Runs, Start(r) PROVE SentInv'
  BY <1>2 DEF Start, SentInv, LabelInv, RecordedWasSent, NoWrites, TypeOK
<1>3. ASSUME NEW r \in Runs, NEW o \in missing[r], SkipNudge(r, o) PROVE SentInv'
  BY <1>3 DEF SkipNudge, SentInv, LabelInv, RecordedWasSent, NoWrites
<1>4. ASSUME NEW r \in Runs, NEW o \in missing[r], Nudge(r, o) PROVE SentInv'
  BY <1>4 DEF Nudge, SentInv, LabelInv, RecordedWasSent, NoWrites
<1>5. ASSUME NEW r \in Runs, NEW o \in missing[r], NudgeAmbiguous(r, o) PROVE SentInv'
  BY <1>5, RollbackSentInv DEF NudgeAmbiguous, Fail, CloseSession, TypeOK
<1>6. ASSUME NEW r \in Runs, PickExpired(r) PROVE SentInv'
  BY <1>6, RollbackSentInv DEF PickExpired, Fail, CloseSession, TypeOK
<1>7. ASSUME NEW r \in Runs, NEW k \in todo[r], SkipEarly(r, k) PROVE SentInv'
  BY <1>7 DEF SkipEarly, Advance, SentInv, LabelInv, RecordedWasSent, NoWrites, TypeOK
<1>8. ASSUME NEW r \in Runs, NEW k \in todo[r], LoadTerminal(r, k) PROVE SentInv'
  BY <1>8 DEF LoadTerminal, Advance, SentInv, LabelInv, RecordedWasSent, NoWrites, TypeOK
<1>9. ASSUME NEW r \in Runs, NEW k \in todo[r], Load(r, k) PROVE SentInv'
  BY <1>9 DEF Load, SentInv, LabelInv, RecordedWasSent, NoWrites, TypeOK
<1>10. ASSUME NEW r \in Runs, CreateInserted(r) PROVE SentInv'
  BY <1>10 DEF CreateInserted, SentInv, LabelInv, RecordedWasSent, NoWrites, TypeOK
<1>11. ASSUME NEW r \in Runs, CreateConflict(r) PROVE SentInv'
  <2>1. CASE inst[cur[r]] \in Terminal
    BY <1>11, <2>1, RollbackSentInv DEF CreateConflict, Advance, TypeOK
  <2>2. CASE inst[cur[r]] \notin Terminal
    <3>1. pc' = [pc EXCEPT ![r] = "record"] /\ UNCHANGED <<cur, log, today, sent>>
          /\ Rollback(r)
      BY <1>11, <2>2 DEF CreateConflict
    <3>2. pc' \in [Runs -> {"idle", "pick"} \cup Working] /\ pc'[r] = "record"
          /\ \A q \in Runs \ {r} : pc'[q] = pc[q]
      BY <3>1 DEF TypeOK, Working
    <3>3. QED
      BY <3>1, <3>2, RollbackSentInv
  <2>3. QED
    BY <2>1, <2>2
<1>12. ASSUME NEW r \in Runs, RecordInserted(r) PROVE SentInv'
  <2>1. \A q \in Runs : q # r => cur[r] \notin newLog[q]
    BY <1>12 DEF RecordInserted, Blocked, WaitsFor
  <2>2. newLog'[r] = newLog[r] \cup {cur[r]} /\ pc'[r] = "send"
    BY <1>12 DEF RecordInserted, TypeOK
  <2>3. \A q \in Runs \ {r} : newLog'[q] = newLog[q] /\ pc'[q] = pc[q]
    BY <1>12 DEF RecordInserted, TypeOK
  <2>4. UNCHANGED <<upd, log, today, sent, cur>> /\ <<cur[r], today>> \notin log
        /\ pc[r] = "record"
    BY <1>12 DEF RecordInserted
  <2>5. QED
    BY <2>1, <2>2, <2>3, <2>4 DEF SentInv, LabelInv, RecordedWasSent, NoWrites
<1>13. ASSUME NEW r \in Runs, RecordConflict(r) PROVE SentInv'
  BY <1>13, RollbackSentInv DEF RecordConflict, Advance, TypeOK
<1>14. ASSUME NEW r \in Runs, Send(r) PROVE SentInv'
  <2>1. cur[r] \in Keys /\ pc[r] = "send"
    BY <1>14 DEF Send, TypeOK, Working
  <2>2. sent'[cur[r]] >= 1 /\ \A k \in Keys : sent[k] >= 1 => sent'[k] >= 1
    BY <1>14, <2>1 DEF Send, TypeOK
  <2>3. pc'[r] = "update" /\ \A q \in Runs \ {r} : pc'[q] = pc[q]
    BY <1>14 DEF Send, TypeOK
  <2>4. UNCHANGED <<upd, newLog, log, today, cur>>
    BY <1>14 DEF Send
  <2>5. QED
    BY <2>1, <2>2, <2>3, <2>4 DEF SentInv, LabelInv, RecordedWasSent, NoWrites, TypeOK
<1>16. ASSUME NEW r \in Runs, Update(r) PROVE SentInv'
  BY <1>16 DEF Update, Advance, SentInv, LabelInv, RecordedWasSent, NoWrites, TypeOK
<1>17. ASSUME NEW r \in Runs, Commit(r) PROVE SentInv'
  <2>1. newLog'[r] = {} /\ upd'[r] = NoWrites /\ pc'[r] = "idle"
    BY <1>17 DEF Commit, Rollback, CloseSession, TypeOK
  <2>2. \A q \in Runs \ {r} : /\ newLog'[q] = newLog[q] /\ upd'[q] = upd[q]
                              /\ pc'[q] = pc[q] /\ cur'[q] = cur[q]
    BY <1>17 DEF Commit, Rollback, CloseSession, TypeOK
  <2>3. log' = log \cup (newLog[r] \X {today}) /\ UNCHANGED <<today, sent>>
        /\ pc[r] = "pick"
    BY <1>17 DEF Commit
  <2>4. \A k \in newLog[r] : sent[k] >= 1
    BY <2>3 DEF SentInv, LabelInv
  <2>5. today \in Int /\ newLog[r] \subseteq Keys
    BY DEF TypeOK, Days
  <2>6. QED
    BY <2>1, <2>2, <2>3, <2>4, <2>5 DEF SentInv, LabelInv, RecordedWasSent, NoWrites
<1>18. ASSUME NEW r \in Runs, Crash(r) PROVE SentInv'
  BY <1>18, RollbackSentInv DEF Crash, Fail, CloseSession, TypeOK
<1>19. ASSUME NEW r \in Runs, DeadlockVictim(r) PROVE SentInv'
  BY <1>19, RollbackSentInv DEF DeadlockVictim, Fail, CloseSession, TypeOK
<1>20. ASSUME Operator PROVE SentInv'
  <2>1. UNCHANGED <<upd, newLog, log, today, cur, sent, pc>>
    BY <1>20 DEF Operator, LoadRequest, CommitRequest, DropRequest, SetPause,
                 Resume, SetAnchor
  <2>2. QED
    BY <2>1 DEF SentInv, LabelInv, RecordedWasSent, NoWrites
<1>21. ASSUME NextDay PROVE SentInv'
  <2>1. \A r \in Runs : pc'[r] = "idle" /\ newLog'[r] = {} /\ upd'[r] = NoWrites
    BY <1>21 DEF NextDay, SentInv, LabelInv
  <2>2. \A k \in Keys, d \in Days : <<k, d>> \in log => d <= today
    BY DEF SentInv, LabelInv
  <2>3. today' = today + 1 /\ log' = log /\ today \in Nat /\ LastDay \in Nat
        /\ today < LastDay
    BY <1>21, BoundAssumption DEF NextDay, TypeOK, Days
  <2>4. \A k \in Keys : <<k, today'>> \notin log'
    BY <2>2, <2>3 DEF Days
  <2>5. \A k \in Keys, d \in Days : <<k, d>> \in log' => d <= today'
    BY <2>2, <2>3 DEF Days
  <2>6. QED
    BY <2>1, <2>4, <2>5 DEF SentInv, LabelInv, RecordedWasSent, NoWrites
<1>22. ASSUME UNCHANGED vars PROVE SentInv'
  BY <1>22 DEF vars, SentInv, LabelInv, RecordedWasSent, NoWrites
<1>23. QED
  BY <1>1, <1>2, <1>3, <1>4, <1>5, <1>6, <1>7, <1>8, <1>9, <1>10, <1>11, <1>12,
     <1>13, <1>14, <1>16, <1>17, <1>18, <1>19, <1>20, <1>21, <1>22
     DEF Next, RunStep

LEMMA SentInvariant == Spec => []SentInv
BY TypeCorrect, InitSentInv, StepSentInv, PTL DEF Spec

(* A committed row of notification_log stands for a message that was       *)
(* handed to Telegram: _record_notification and the send come before the   *)
(* one commit of the run, engine.py:257-284.                                *)
THEOREM RecordedWasSentThm == Spec => []RecordedWasSent
BY SentInvariant, PTL DEF SentInv

(* A run never sends a label whose row is committed: whatever runs overlap *)
(* it, it holds the row itself when it sends, engine.py:258-263.            *)
THEOREM RecordedIsFinalThm == Spec => RecordedIsFinal
<1>1. TypeOK /\ SentInv /\ [Next]_vars
        => [\A k \in Keys : today' = today /\ <<k, today>> \in log
                                => sent'[k] = sent[k]]_vars
  <2> SUFFICES ASSUME TypeOK, SentInv, Next, NEW k \in Keys,
                      today' = today, <<k, today>> \in log
               PROVE  sent'[k] = sent[k]
    OBVIOUS
  <2> USE DEF db, settings, clock, local, txn, wire
  <2>1. ASSUME NEW r \in Runs, Send(r) PROVE sent'[k] = sent[k]
    <3>1. cur[r] \in newLog[r]
      BY <2>1 DEF Send, SentInv, LabelInv
    <3>2. cur[r] # k
      BY <3>1 DEF SentInv, LabelInv
    <3>3. QED
      BY <2>1, <3>2 DEF Send, TypeOK
  <2>2. CASE NextDay
    BY <2>2 DEF NextDay, TypeOK, Days
  <2>3. ASSUME NEW r \in Runs, RunStep(r), ~Send(r) PROVE UNCHANGED sent
    BY <2>3 DEF RunStep, SkipNudge, Nudge, NudgeAmbiguous, PickExpired, SkipEarly,
                LoadTerminal, Load, CreateInserted, CreateConflict, RecordInserted,
                RecordConflict, Update, Commit, DeadlockVictim
  <2>4. ASSUME NEW r \in Runs, StartPaused(r) \/ Start(r) \/ Crash(r)
        PROVE  UNCHANGED sent
    BY <2>4 DEF StartPaused, Start, Crash
  <2>5. ASSUME Operator PROVE UNCHANGED sent
    BY <2>5 DEF Operator, LoadRequest, CommitRequest, DropRequest, SetPause, Resume,
                SetAnchor
  <2>6. QED
    BY <2>1, <2>2, <2>3, <2>4, <2>5 DEF Next
<1>2. QED
  BY <1>1, TypeCorrect, SentInvariant, PTL DEF Spec, RecordedIsFinal

-----------------------------------------------------------------------------
(* The instances: what open transactions write to obligation_instances and *)
(* what runs know of them.                                                  *)

RowInv == StoredInstanceWasAnnounced /\ WriteInv /\ LoadedInv /\ InstanceInv

LEMMA InitRowInv == Init => RowInv
BY DEF Init, RowInv, StoredInstanceWasAnnounced, WriteInv, LoadedInv, InstanceInv,
       NoWrites, Terminal

LEMMA RollbackRowInv ==
  ASSUME TypeOK, RowInv, NEW r \in Runs, Rollback(r),
         UNCHANGED <<inst, log, today, req>>,
         \A q \in Runs \ {r} : pc'[q] = pc[q] /\ cur'[q] = cur[q] /\ loaded'[q] = loaded[q],
         pc'[r] \notin {"record", "send", "update"}
  PROVE  RowInv'
<1>1. newLog'[r] = {} /\ \A k \in Keys : upd'[r][k] = "none"
  BY DEF Rollback, TypeOK, NoWrites
<1>2. \A q \in Runs \ {r} : newLog'[q] = newLog[q] /\ upd'[q] = upd[q]
  BY DEF Rollback, TypeOK
<1>3. StoredInstanceWasAnnounced' /\ InstanceInv'
  BY DEF RowInv, StoredInstanceWasAnnounced, InstanceInv
<1>4. WriteInv'
  BY <1>1, <1>2 DEF RowInv, WriteInv, Terminal
<1>5. LoadedInv'
  BY <1>1, <1>2 DEF RowInv, LoadedInv
<1>6. QED
  BY <1>3, <1>4, <1>5 DEF RowInv

(* A run that writes nothing and does not pass through the loading of an   *)
(* instance: the item it was at, if any, held no fresh insert.              *)
LEMMA QuietRowInv ==
  ASSUME TypeOK, RowInv, NEW r \in Runs,
         UNCHANGED <<inst, log, today, req, upd, newLog>>,
         \A q \in Runs \ {r} : pc'[q] = pc[q] /\ cur'[q] = cur[q] /\ loaded'[q] = loaded[q],
         pc[r] \notin {"record", "send", "update"},
         pc'[r] \notin {"record", "send", "update"}
  PROVE  RowInv'
<1>1. StoredInstanceWasAnnounced' /\ InstanceInv'
  BY DEF RowInv, StoredInstanceWasAnnounced, InstanceInv
<1>2. WriteInv'
  BY DEF RowInv, WriteInv, Terminal
<1>3. LoadedInv'
  BY DEF RowInv, LoadedInv
<1>4. QED
  BY <1>1, <1>2, <1>3 DEF RowInv

LEMMA StepRowInv == TypeOK /\ SentInv /\ RowInv /\ [Next]_vars => RowInv'
<1> SUFFICES ASSUME TypeOK, SentInv, RowInv, [Next]_vars PROVE RowInv'
  OBVIOUS
<1> USE DEF db, settings, clock, local, txn, wire
<1>1. ASSUME NEW r \in Runs, StartPaused(r) PROVE RowInv'
  BY <1>1, QuietRowInv DEF StartPaused
<1>2. ASSUME NEW r \in Runs, Start(r) PROVE RowInv'
  BY <1>2, QuietRowInv DEF Start, TypeOK
<1>3. ASSUME NEW r \in Runs, NEW o \in missing[r], SkipNudge(r, o) PROVE RowInv'
  BY <1>3, QuietRowInv DEF SkipNudge
<1>4. ASSUME NEW r \in Runs, NEW o \in missing[r], Nudge(r, o) PROVE RowInv'
  BY <1>4, QuietRowInv DEF Nudge
<1>5. ASSUME NEW r \in Runs, NEW o \in missing[r], NudgeAmbiguous(r, o) PROVE RowInv'
  BY <1>5, RollbackRowInv DEF NudgeAmbiguous, Fail, CloseSession, TypeOK
<1>6. ASSUME NEW r \in Runs, PickExpired(r) PROVE RowInv'
  BY <1>6, RollbackRowInv DEF PickExpired, Fail, CloseSession, TypeOK
<1>7. ASSUME NEW r \in Runs, NEW k \in todo[r], SkipEarly(r, k) PROVE RowInv'
  BY <1>7, QuietRowInv DEF SkipEarly, Advance, TypeOK
<1>8. ASSUME NEW r \in Runs, NEW k \in todo[r], LoadTerminal(r, k) PROVE RowInv'
  BY <1>8, QuietRowInv DEF LoadTerminal, Advance, TypeOK
<1>9. ASSUME NEW r \in Runs, NEW k \in todo[r], Load(r, k) PROVE RowInv'
  <2>1. k \in Keys
    BY <1>9, WindowWithinHorizon DEF Load
  <2>2. cur'[r] = k /\ loaded'[r] = inst[k] /\ pc[r] = "pick"
        /\ pc'[r] = IF inst[k] = "absent" THEN "create" ELSE "record"
    BY <1>9 DEF Load, TypeOK
  <2>3. \A q \in Runs \ {r} : pc'[q] = pc[q] /\ cur'[q] = cur[q] /\ loaded'[q] = loaded[q]
    BY <1>9 DEF Load, TypeOK
  <2>4. UNCHANGED <<inst, log, today, req, upd, newLog>> /\ inst[k] \notin Terminal
    BY <1>9 DEF Load
  <2>5. inst[k] \in {"absent", "notified", "escalated"}
    BY <2>1, <2>4 DEF RowInv, StoredInstanceWasAnnounced, TypeOK, Status, Terminal
  <2>6. StoredInstanceWasAnnounced' /\ InstanceInv'
    BY <2>4 DEF RowInv, StoredInstanceWasAnnounced, InstanceInv
  <2>7. WriteInv'
    BY <2>2, <2>3, <2>4 DEF RowInv, WriteInv, Terminal
  <2>8. LoadedInv'
    BY <2>1, <2>2, <2>3, <2>4, <2>5 DEF RowInv, LoadedInv, InstanceInv
  <2>9. QED
    BY <2>6, <2>7, <2>8 DEF RowInv
<1>10. ASSUME NEW r \in Runs, CreateInserted(r) PROVE RowInv'
  <2>1. cur[r] \in Keys /\ pc[r] = "create" /\ inst[cur[r]] = "absent"
    BY <1>10 DEF CreateInserted, TypeOK, Working
  <2>2. \A q \in Runs \ {r} : upd[q][cur[r]] = "none"
    BY <1>10 DEF CreateInserted, Blocked, WaitsFor
  <2>3. pc'[r] = "record" /\ loaded'[r] = "pending" /\ upd'[r][cur[r]] = "pending"
    BY <1>10, <2>1 DEF CreateInserted, TypeOK
  <2>4. \A q \in Runs \ {r} : pc'[q] = pc[q] /\ loaded'[q] = loaded[q] /\ upd'[q] = upd[q]
    BY <1>10 DEF CreateInserted, TypeOK
  <2>5. \A k \in Keys \ {cur[r]} : upd'[r][k] = upd[r][k]
    BY <1>10, <2>1 DEF CreateInserted, TypeOK
  <2>6. UNCHANGED <<inst, log, today, req, newLog, cur>>
    BY <1>10 DEF CreateInserted
  <2>7. StoredInstanceWasAnnounced' /\ InstanceInv'
    BY <2>6 DEF RowInv, StoredInstanceWasAnnounced, InstanceInv
  <2>8. WriteInv'
    BY <2>1, <2>2, <2>3, <2>4, <2>5, <2>6 DEF RowInv, WriteInv, Terminal
  <2>9. LoadedInv'
    BY <2>1, <2>3, <2>4, <2>6 DEF RowInv, LoadedInv
  <2>10. QED
    BY <2>7, <2>8, <2>9 DEF RowInv
<1>11. ASSUME NEW r \in Runs, CreateConflict(r) PROVE RowInv'
  <2>1. CASE inst[cur[r]] \in Terminal
    BY <1>11, <2>1, RollbackRowInv DEF CreateConflict, Advance, TypeOK
  <2>2. CASE inst[cur[r]] \notin Terminal
    <3>1. cur[r] \in Keys /\ inst[cur[r]] # "absent"
      BY <1>11 DEF CreateConflict, TypeOK, Working
    <3>2. inst[cur[r]] \in {"notified", "escalated"}
      BY <2>2, <3>1 DEF RowInv, StoredInstanceWasAnnounced, TypeOK, Status, Terminal
    <3>3. pc'[r] = "record" /\ loaded'[r] = inst[cur[r]]
          /\ newLog'[r] = {} /\ \A k \in Keys : upd'[r][k] = "none"
      BY <1>11, <2>2 DEF CreateConflict, Rollback, NoWrites, TypeOK
    <3>4. \A q \in Runs \ {r} : /\ pc'[q] = pc[q] /\ loaded'[q] = loaded[q]
                                /\ newLog'[q] = newLog[q] /\ upd'[q] = upd[q]
      BY <1>11, <2>2 DEF CreateConflict, Rollback, TypeOK
    <3>5. UNCHANGED <<inst, log, today, req, cur>>
      BY <1>11, <2>2 DEF CreateConflict
    <3>6. StoredInstanceWasAnnounced' /\ InstanceInv'
      BY <3>5 DEF RowInv, StoredInstanceWasAnnounced, InstanceInv
    <3>7. WriteInv'
      BY <3>3, <3>4, <3>5 DEF RowInv, WriteInv, Terminal
    <3>8. LoadedInv'
      BY <3>1, <3>2, <3>3, <3>4, <3>5 DEF RowInv, LoadedInv, InstanceInv
    <3>9. QED
      BY <3>6, <3>7, <3>8 DEF RowInv
  <2>3. QED
    BY <2>1, <2>2
<1>12. ASSUME NEW r \in Runs, RecordInserted(r) PROVE RowInv'
  <2>1. pc[r] = "record" /\ pc'[r] = "send" /\ newLog'[r] = newLog[r] \cup {cur[r]}
        /\ \A q \in Runs \ {r} : pc'[q] = pc[q] /\ newLog'[q] = newLog[q]
    BY <1>12 DEF RecordInserted, TypeOK
  <2>2. UNCHANGED <<inst, log, today, req, cur, loaded, upd>>
    BY <1>12 DEF RecordInserted
  <2>3. WriteInv'
    BY <2>1, <2>2 DEF RowInv, WriteInv, Terminal
  <2>4. LoadedInv'
    BY <2>1, <2>2 DEF RowInv, LoadedInv
  <2>5. QED
    BY <2>2, <2>3, <2>4 DEF RowInv, StoredInstanceWasAnnounced, InstanceInv
<1>13. ASSUME NEW r \in Runs, RecordConflict(r) PROVE RowInv'
  BY <1>13, RollbackRowInv DEF RecordConflict, Advance, TypeOK
<1>14. ASSUME NEW r \in Runs, Send(r) PROVE RowInv'
  <2>1. pc[r] = "send" /\ pc'[r] = "update" /\ \A q \in Runs \ {r} : pc'[q] = pc[q]
    BY <1>14 DEF Send, TypeOK
  <2>2. UNCHANGED <<inst, log, today, req, cur, loaded, upd, newLog>>
    BY <1>14 DEF Send
  <2>3. WriteInv'
    BY <2>1, <2>2 DEF RowInv, WriteInv, Terminal
  <2>4. LoadedInv'
    BY <2>1, <2>2 DEF RowInv, LoadedInv
  <2>5. QED
    BY <2>2, <2>3, <2>4 DEF RowInv, StoredInstanceWasAnnounced, InstanceInv
<1>16. ASSUME NEW r \in Runs, Update(r) PROVE RowInv'
  <2> DEFINE k == cur[r]
             status == NotifiedStatus(k)
  <2>1. k \in Keys /\ pc[r] = "update" /\ k \in newLog[r]
    BY <1>16 DEF Update, TypeOK, Working, SentInv, LabelInv
  <2>2. \A q \in Runs \ {r} : upd[q][k] = "none"
    BY <1>16 DEF Update, Blocked, WaitsFor
  <2>3. pc'[r] = "pick" /\ upd'[r][k] = IF status = loaded[r] THEN "touched" ELSE status
    BY <1>16, <2>1 DEF Update, Advance, TypeOK
  <2>4. \A q \in Runs \ {r} : /\ pc'[q] = pc[q] /\ loaded'[q] = loaded[q]
                              /\ cur'[q] = cur[q] /\ upd'[q] = upd[q]
    BY <1>16 DEF Update, Advance, TypeOK
  <2>5. \A j \in Keys \ {k} : upd'[r][j] = upd[r][j]
    BY <1>16, <2>1 DEF Update, TypeOK
  <2>6. UNCHANGED <<inst, log, today, req, newLog>>
    BY <1>16 DEF Update
  <2>7. /\ status \in {"notified", "escalated"}
        /\ status = "escalated" <=> today > k[2] /\ k[1] \in Mandatory
    BY DEF NotifiedStatus
  <2>8. upd'[r][k] = "notified" => inst[k] = "absent"
    BY <2>1, <2>3, <2>7 DEF RowInv, LoadedInv
  <2>9. upd'[r][k] = "escalated" => k[1] \in Mandatory /\ today > k[2]
    BY <2>3, <2>7
  <2>10. upd'[r][k] \notin Terminal \cup {"none", "pending"}
    BY <2>3, <2>7 DEF Terminal
  <2> HIDE DEF k, status
  <2>11. WriteInv'
    <3>1. \A q, p \in Runs, j \in Keys : upd'[q][j] # "none" /\ upd'[p][j] # "none" => q = p
      BY <2>1, <2>2, <2>4, <2>5 DEF RowInv, WriteInv
    <3>2. \A q \in Runs, j \in Keys : upd'[q][j] = "pending" =>
             pc'[q] \in {"record", "send", "update"} /\ cur'[q] = j
      <4>1. \A j \in Keys \ {k} : upd[r][j] # "pending"
        BY <2>1 DEF RowInv, WriteInv, k
      <4>2. QED
        BY <2>1, <2>4, <2>5, <2>10, <4>1 DEF RowInv, WriteInv
    <3>3. \A q \in Runs, j \in Keys : upd'[q][j] \notin {"none", "pending"} => j \in newLog'[q]
      BY <2>1, <2>4, <2>5, <2>6 DEF RowInv, WriteInv
    <3>4. \A q \in Runs, j \in Keys : upd'[q][j] \notin Terminal
      BY <2>1, <2>4, <2>5, <2>10 DEF RowInv, WriteInv
    <3>5. \A q \in Runs, j \in Keys : upd'[q][j] = "notified" => inst'[j] = "absent"
      BY <2>1, <2>4, <2>5, <2>6, <2>8 DEF RowInv, WriteInv
    <3>6. \A q \in Runs, j \in Keys :
             upd'[q][j] = "escalated" => j[1] \in Mandatory /\ today' > j[2]
      BY <2>1, <2>4, <2>5, <2>6, <2>9 DEF RowInv, WriteInv
    <3>7. QED
      BY <3>1, <3>2, <3>3, <3>4, <3>5, <3>6 DEF WriteInv, Terminal
  <2>12. LoadedInv'
    BY <2>3, <2>4, <2>6 DEF RowInv, LoadedInv
  <2>13. QED
    BY <2>6, <2>11, <2>12 DEF RowInv, StoredInstanceWasAnnounced, InstanceInv
<1>17. ASSUME NEW r \in Runs, Commit(r) PROVE RowInv'
  <2>1. pc[r] = "pick" /\ pc'[r] = "idle" /\ newLog'[r] = {}
        /\ \A k \in Keys : upd'[r][k] = "none"
    BY <1>17 DEF Commit, Rollback, CloseSession, NoWrites, TypeOK
  <2>2. \A q \in Runs \ {r} : /\ pc'[q] = pc[q] /\ loaded'[q] = loaded[q] /\ cur'[q] = cur[q]
                              /\ upd'[q] = upd[q] /\ newLog'[q] = newLog[q]
    BY <1>17 DEF Commit, Rollback, CloseSession, TypeOK
  <2>3. \A k \in Keys : inst'[k] = IF upd[r][k] \in Status THEN upd[r][k] ELSE inst[k]
    BY <1>17 DEF Commit
  <2>4. log' = log \cup (newLog[r] \X {today}) /\ UNCHANGED <<today, req>>
    BY <1>17 DEF Commit
  <2>5. \A k \in Keys : upd[r][k] \in Status => upd[r][k] \in {"notified", "escalated"}
    BY <2>1 DEF RowInv, WriteInv, Status, Terminal
  <2>6. \A k \in Keys : upd[r][k] \in Status => k \in newLog[r]
    BY <2>5 DEF RowInv, WriteInv
  <2>7. \A k \in Keys : inst[k] # "absent" => inst'[k] # "absent"
    BY <2>3 DEF Status, Terminal
  <2>8. StoredInstanceWasAnnounced'
    <3> SUFFICES ASSUME NEW k \in Keys, inst'[k] # "absent"
                 PROVE  inst'[k] # "pending" /\ \E d \in Days : <<k, d>> \in log'
      BY DEF StoredInstanceWasAnnounced
    <3>1. CASE upd[r][k] \in Status
      BY <2>3, <2>4, <2>5, <2>6, <3>1 DEF TypeOK
    <3>2. CASE upd[r][k] \notin Status
      BY <2>3, <2>4, <3>2 DEF RowInv, StoredInstanceWasAnnounced
    <3>3. QED
      BY <3>1, <3>2
  <2>9. \A q \in Runs \ {r}, k \in Keys : upd[q][k] # "none" => inst'[k] = inst[k]
    BY <2>3 DEF RowInv, WriteInv, Status, Terminal
  <2>10. WriteInv'
    BY <2>1, <2>2, <2>4, <2>9 DEF RowInv, WriteInv, Terminal
  <2>11. LoadedInv'
    <3> SUFFICES ASSUME NEW q \in Runs, pc'[q] \in {"record", "send", "update"}
                 PROVE  \/ loaded'[q] = "pending" /\ inst'[cur'[q]] = "absent"
                                                  /\ upd'[q][cur'[q]] = "pending"
                        \/ loaded'[q] = "notified"
                        \/ loaded'[q] = "escalated" /\ cur'[q][1] \in Mandatory
                                                    /\ today' > cur'[q][2]
      BY DEF LoadedInv
    <3>1. q # r /\ cur[q] \in Keys
      BY <2>1, <2>2 DEF TypeOK, Working
    <3>2. QED
      BY <2>2, <2>4, <2>9, <3>1 DEF RowInv, LoadedInv
  <2>12. InstanceInv'
    <3>1. \A k \in Keys : inst'[k] = "escalated" => k[1] \in Mandatory /\ today' > k[2]
      BY <2>3, <2>4 DEF RowInv, WriteInv, InstanceInv
    <3>2. \A q \in Requests : req'[q] # NoRequest => inst'[req'[q].key] # "absent"
      BY <2>4, <2>7 DEF RowInv, InstanceInv, TypeOK, NoRequest
    <3>3. QED
      BY <3>1, <3>2 DEF InstanceInv
  <2>13. QED
    BY <2>8, <2>10, <2>11, <2>12 DEF RowInv
<1>18. ASSUME NEW r \in Runs, Crash(r) PROVE RowInv'
  BY <1>18, RollbackRowInv DEF Crash, Fail, CloseSession, TypeOK
<1>19. ASSUME NEW r \in Runs, DeadlockVictim(r) PROVE RowInv'
  BY <1>19, RollbackRowInv DEF DeadlockVictim, Fail, CloseSession, TypeOK
<1>20. ASSUME NEW q \in Requests, NEW k \in Keys, NEW op \in Terminal,
              LoadRequest(q, k, op) PROVE RowInv'
  <2>1. UNCHANGED <<inst, log, today, upd, newLog, pc, cur, loaded>>
    BY <1>20 DEF LoadRequest
  <2>2. InstanceInv'
    BY <1>20, <2>1 DEF LoadRequest, RowInv, InstanceInv, TypeOK
  <2>3. QED
    BY <2>1, <2>2 DEF RowInv, StoredInstanceWasAnnounced, WriteInv, LoadedInv, Terminal
<1>21. ASSUME NEW q \in Requests, CommitRequest(q) PROVE RowInv'
  <2>1. req[q].key \in Keys /\ req[q].op \in Terminal /\ inst[req[q].key] # "absent"
    BY <1>21 DEF CommitRequest, RowInv, InstanceInv, TypeOK
  <2>2. \A k \in Keys : \/ inst'[k] = inst[k]
                        \/ inst'[k] \in Terminal /\ inst[k] # "absent"
    <3>1. inst' = inst \/ inst' = [inst EXCEPT ![req[q].key] = req[q].op]
      BY <1>21 DEF CommitRequest
    <3>2. \A k \in Keys : inst'[k] = inst[k] \/ (k = req[q].key /\ inst'[k] = req[q].op)
      BY <2>1, <3>1 DEF TypeOK
    <3>3. QED
      BY <2>1, <3>2
  <2>3. UNCHANGED <<log, today, upd, newLog, pc, cur, loaded>>
    BY <1>21 DEF CommitRequest
  <2>4. \A k \in Keys : inst'[k] = "absent" <=> inst[k] = "absent"
    BY <2>2 DEF Terminal
  <2>5. StoredInstanceWasAnnounced'
    BY <2>2, <2>3, <2>4 DEF RowInv, StoredInstanceWasAnnounced, Terminal
  <2>6. WriteInv'
    BY <2>3, <2>4 DEF RowInv, WriteInv, Terminal
  <2>7. LoadedInv'
    BY <2>3, <2>4 DEF RowInv, LoadedInv, TypeOK, Working
  <2>8. InstanceInv'
    <3>1. \A k \in Keys : inst'[k] = "escalated" => k[1] \in Mandatory /\ today' > k[2]
      BY <2>2, <2>3 DEF RowInv, InstanceInv, Terminal
    <3>2. \A p \in Requests : req'[p] # NoRequest => req'[p] = req[p]
      BY <1>21 DEF CommitRequest, TypeOK
    <3>3. \A p \in Requests : req[p] # NoRequest => req[p].key \in Keys
      BY DEF TypeOK
    <3>4. QED
      BY <2>4, <3>1, <3>2, <3>3 DEF RowInv, InstanceInv
  <2>9. QED
    BY <2>5, <2>6, <2>7, <2>8 DEF RowInv
<1>22. ASSUME NEW q \in Requests, DropRequest(q) PROVE RowInv'
  <2>1. UNCHANGED <<inst, log, today, upd, newLog, pc, cur, loaded>>
    BY <1>22 DEF DropRequest
  <2>2. InstanceInv'
    BY <1>22, <2>1 DEF DropRequest, RowInv, InstanceInv, TypeOK
  <2>3. QED
    BY <2>1, <2>2 DEF RowInv, StoredInstanceWasAnnounced, WriteInv, LoadedInv, Terminal
<1>23. ASSUME \/ \E days \in PauseDays : SetPause(days)
              \/ Resume
              \/ \E o \in AnchorDriven, d \in AnchorDates : SetAnchor(o, d)
       PROVE RowInv'
  <2>1. UNCHANGED <<inst, log, today, upd, newLog, pc, cur, loaded, req>>
    BY <1>23 DEF SetPause, Resume, SetAnchor
  <2>2. QED
    BY <2>1 DEF RowInv, StoredInstanceWasAnnounced, WriteInv, LoadedInv, InstanceInv, Terminal
<1>24. ASSUME NextDay PROVE RowInv'
  <2>1. \A r \in Runs : pc'[r] = "idle" /\ \A k \in Keys : upd'[r][k] = "none"
    BY <1>24 DEF NextDay, SentInv, LabelInv, NoWrites
  <2>2. today' = today + 1 /\ UNCHANGED <<inst, log, req>> /\ today \in Nat
    BY <1>24 DEF NextDay, TypeOK, Days
  <2>3. \A k \in Keys : today > k[2] => today' > k[2]
    BY <2>2 DEF Keys
  <2>4. StoredInstanceWasAnnounced' /\ InstanceInv'
    BY <2>2, <2>3 DEF RowInv, StoredInstanceWasAnnounced, InstanceInv
  <2>5. WriteInv' /\ LoadedInv'
    BY <2>1 DEF WriteInv, LoadedInv, Terminal
  <2>6. QED
    BY <2>4, <2>5 DEF RowInv
<1>25. ASSUME UNCHANGED vars PROVE RowInv'
  BY <1>25 DEF vars, RowInv, StoredInstanceWasAnnounced, WriteInv, LoadedInv,
               InstanceInv, Terminal
<1>26. QED
  BY <1>1, <1>2, <1>3, <1>4, <1>5, <1>6, <1>7, <1>8, <1>9, <1>10, <1>11, <1>12,
     <1>13, <1>14, <1>16, <1>17, <1>18, <1>19, <1>20, <1>21, <1>22,
     <1>23, <1>24, <1>25
     DEF Next, RunStep, Operator

LEMMA RowInvariant == Spec => []RowInv
BY TypeCorrect, SentInvariant, InitRowInv, StepRowInv, PTL DEF Spec

(* An instance is stored together with the log row of the reminder that    *)
(* announced it, so the table never shows a PENDING instance:              *)
(* _get_or_create_instance and the status update share the run's           *)
(* transaction, engine.py:152-173 and 264-271.                              *)
THEOREM StoredInstanceWasAnnouncedThm == Spec => []StoredInstanceWasAnnounced
BY RowInvariant, PTL DEF RowInv

(* Only the first escalation of an overdue mandatory instance undoes an    *)
(* acknowledgement: the status a run writes without having read the        *)
(* operator's, engine.py:160, 266-271.                                      *)
THEOREM OnlyEscalationReopensThm == Spec => OnlyEscalationReopens
<1>1. TypeOK /\ RowInv /\ [Next]_vars
        => [\A k \in Keys : inst[k] \in Terminal /\ inst'[k] \notin Terminal =>
              inst'[k] = "escalated" /\ k[1] \in Mandatory /\ today > k[2]]_vars
  <2> SUFFICES ASSUME TypeOK, RowInv, Next, NEW k \in Keys,
                      inst[k] \in Terminal, inst'[k] \notin Terminal
               PROVE  inst'[k] = "escalated" /\ k[1] \in Mandatory /\ today > k[2]
    OBVIOUS
  <2> USE DEF db
  <2>1. ASSUME NEW r \in Runs, Commit(r)
        PROVE  inst'[k] = "escalated" /\ k[1] \in Mandatory /\ today > k[2]
    <3>1. inst'[k] = IF upd[r][k] \in Status THEN upd[r][k] ELSE inst[k]
      BY <2>1 DEF Commit
    <3>2. upd[r][k] \in Status /\ inst'[k] = upd[r][k]
      BY <3>1
    <3>3. upd[r][k] # "pending" /\ upd[r][k] # "notified"
      BY <2>1 DEF Commit, RowInv, WriteInv, Terminal
    <3>4. upd[r][k] = "escalated"
      BY <3>2, <3>3 DEF Status
    <3>5. QED
      BY <3>2, <3>4 DEF RowInv, WriteInv
  <2>2. ASSUME NEW r \in Runs, RunStep(r), ~Commit(r) PROVE inst' = inst
    BY <2>2 DEF RunStep, SkipNudge, Nudge, NudgeAmbiguous, PickExpired, SkipEarly,
                LoadTerminal, Load, CreateInserted, CreateConflict, RecordInserted,
                RecordConflict, Send, Update, DeadlockVictim
  <2>3. ASSUME NEW r \in Runs, StartPaused(r) \/ Start(r) \/ Crash(r)
        PROVE  inst' = inst
    BY <2>3 DEF StartPaused, Start, Crash
  <2>4. ASSUME NEW q \in Requests, CommitRequest(q) PROVE FALSE
    <3>1. req[q].key \in Keys /\ req[q].op \in Terminal
      BY <2>4 DEF CommitRequest, TypeOK
    <3>2. inst'[k] \in {inst[k], req[q].op}
      <4>1. CASE inst' = inst
        BY <4>1
      <4>2. CASE inst' = [inst EXCEPT ![req[q].key] = req[q].op]
        BY <3>1, <4>2 DEF TypeOK
      <4>3. QED
        BY <2>4, <4>1, <4>2 DEF CommitRequest
    <3>3. QED
      BY <3>1, <3>2
  <2>5. ASSUME Operator, \A q \in Requests : ~CommitRequest(q) PROVE inst' = inst
    BY <2>5 DEF Operator, LoadRequest, DropRequest, SetPause, Resume, SetAnchor
  <2>6. ASSUME NextDay PROVE inst' = inst
    BY <2>6 DEF NextDay
  <2>7. QED
    BY <2>1, <2>2, <2>3, <2>4, <2>5, <2>6 DEF Next
<1>2. QED
  BY <1>1, TypeCorrect, RowInvariant, PTL DEF Spec, OnlyEscalationReopens

(* A run that is not at work on an acknowledged instance does not take it  *)
(* up: the terminal check of engine.py:255.                                *)
LEMMA QuietStaysOut ==
  ASSUME TypeOK, NEW r \in Runs, NEW k \in Keys, inst[k] \in Terminal, ~InFlight(k),
         StartPaused(r) \/ Start(r) \/ Crash(r) \/ RunStep(r)
  PROVE  ~InFlight(k)'
<1> USE DEF db, settings, clock, local, txn, wire
<1>1. \A q \in Runs : upd[q][k] = "none" /\ ~(pc[q] \in Working /\ cur[q] = k)
  BY DEF InFlight
<1>2. \A q \in Runs \ {r} : pc'[q] = pc[q] /\ cur'[q] = cur[q] /\ upd'[q] = upd[q]
  BY DEF RunStep, StartPaused, Start, Crash, SkipNudge, Nudge, NudgeAmbiguous,
         PickExpired, SkipEarly, LoadTerminal, Load, CreateInserted, CreateConflict,
         RecordInserted, RecordConflict, Send, Update, Commit,
         DeadlockVictim, Fail, CloseSession, Rollback, Advance, TypeOK
<1>3. upd'[r][k] = "none"
  <2>1. ASSUME CreateInserted(r) PROVE upd'[r][k] = "none"
    BY <1>1, <2>1 DEF CreateInserted, TypeOK, Working
  <2>2. ASSUME Update(r) PROVE upd'[r][k] = "none"
    <3>1. cur[r] # k /\ \E s : upd' = [upd EXCEPT ![r][cur[r]] = s]
      BY <1>1, <2>2 DEF Update, Working
    <3>2. QED
      BY <1>1, <3>1 DEF TypeOK
  <2>3. ASSUME ~CreateInserted(r), ~Update(r)
        PROVE  upd' = upd \/ upd' = [upd EXCEPT ![r] = NoWrites]
    BY <2>3 DEF RunStep, StartPaused, Start, Crash, SkipNudge, Nudge, NudgeAmbiguous,
         PickExpired, SkipEarly, LoadTerminal, Load, CreateConflict,
         RecordInserted, RecordConflict, Send, Commit,
         DeadlockVictim, Fail, Rollback
  <2>4. QED
    BY <1>1, <2>1, <2>2, <2>3 DEF TypeOK, NoWrites
<1>4. ~(pc'[r] \in Working /\ cur'[r] = k)
  <2>1. ASSUME NEW j \in todo[r], Load(r, j) PROVE cur'[r] # k
    BY <2>1 DEF Load, TypeOK
  <2>2. ASSUME \A j \in todo[r] : ~Load(r, j)
        PROVE  \/ pc'[r] \notin Working
               \/ pc[r] \in Working /\ cur'[r] = cur[r]
               \/ pc'[r] = pc[r] /\ cur'[r] = cur[r]
    BY <2>2 DEF RunStep, StartPaused, Start, Crash, SkipNudge, Nudge, NudgeAmbiguous,
         PickExpired, SkipEarly, LoadTerminal, CreateInserted, CreateConflict,
         RecordInserted, RecordConflict, Send, Update, Commit,
         DeadlockVictim, Fail, CloseSession, Advance, Working, TypeOK
  <2>3. QED
    BY <1>1, <2>1, <2>2
<1>5. QED
  BY <1>1, <1>2, <1>3, <1>4 DEF InFlight

(* An instance acknowledged while no run works on it stays acknowledged    *)
(* and is not mentioned again: the terminal check of engine.py:255.         *)
THEOREM AcknowledgedIsSilentThm == Spec => AcknowledgedIsSilent
<1>1. TypeOK /\ RowInv /\ [Next]_vars
        => [\A k \in Keys : inst[k] \in Terminal /\ ~InFlight(k) =>
              /\ inst'[k] \in Terminal /\ ~InFlight(k)'
              /\ today' = today => sent'[k] = sent[k]]_vars
  <2> SUFFICES ASSUME TypeOK, RowInv, Next, NEW k \in Keys,
                      inst[k] \in Terminal, ~InFlight(k)
               PROVE  inst'[k] \in Terminal /\ ~InFlight(k)' /\ (today' = today => sent'[k] = sent[k])
    OBVIOUS
  <2> DEFINE Silent == inst'[k] \in Terminal /\ (today' = today => sent'[k] = sent[k])
  <2> USE DEF db, wire
  <2>1. ASSUME NEW r \in Runs, Send(r) PROVE Silent
    <3>1. cur[r] # k
      BY <2>1 DEF Send, InFlight, Working
    <3>2. QED
      BY <2>1, <3>1 DEF Send, TypeOK
  <2>2. ASSUME NEW r \in Runs, Commit(r) PROVE Silent
    <3>1. upd[r][k] = "none"
      BY DEF InFlight
    <3>2. inst'[k] = inst[k]
      BY <2>2, <3>1 DEF Commit, Status, Terminal
    <3>3. QED
      BY <2>2, <3>2 DEF Commit
  <2>3. ASSUME NEW r \in Runs, RunStep(r), ~Commit(r), ~Send(r)
        PROVE  inst' = inst /\ sent' = sent
    BY <2>3 DEF RunStep, SkipNudge, Nudge, NudgeAmbiguous, PickExpired, SkipEarly,
                LoadTerminal, Load, CreateInserted, CreateConflict, RecordInserted,
                RecordConflict, Update, DeadlockVictim
  <2>4. ASSUME NEW r \in Runs, StartPaused(r) \/ Start(r) \/ Crash(r)
        PROVE  inst' = inst /\ sent' = sent
    BY <2>4 DEF StartPaused, Start, Crash
  <2>5. ASSUME NEW q \in Requests, CommitRequest(q) PROVE Silent
    <3>1. req[q].key \in Keys /\ req[q].op \in Terminal
      BY <2>5 DEF CommitRequest, TypeOK
    <3>2. inst'[k] \in {inst[k], req[q].op}
      <4>1. CASE inst' = inst
        BY <4>1
      <4>2. CASE inst' = [inst EXCEPT ![req[q].key] = req[q].op]
        BY <3>1, <4>2 DEF TypeOK
      <4>3. QED
        BY <2>5, <4>1, <4>2 DEF CommitRequest
    <3>3. QED
      BY <2>5, <3>1, <3>2 DEF CommitRequest
  <2>6. ASSUME Operator, \A q \in Requests : ~CommitRequest(q)
        PROVE  inst' = inst /\ sent' = sent
    BY <2>6 DEF Operator, LoadRequest, DropRequest, SetPause, Resume, SetAnchor
  <2>7. ASSUME NextDay PROVE inst' = inst /\ today' # today
    BY <2>7 DEF NextDay, TypeOK, Days
  <2>8. ~InFlight(k)'
    <3>1. ASSUME NEW r \in Runs, StartPaused(r) \/ Start(r) \/ RunStep(r) \/ Crash(r)
          PROVE  ~InFlight(k)'
      BY <3>1, QuietStaysOut
    <3>2. ASSUME Operator PROVE UNCHANGED <<pc, cur, upd>>
      BY <3>2 DEF Operator, LoadRequest, CommitRequest, DropRequest, SetPause, Resume,
                  SetAnchor, local, txn
    <3>3. ASSUME NextDay PROVE UNCHANGED <<pc, cur, upd>>
      BY <3>3 DEF NextDay, local, txn
    <3>4. QED
      BY <3>1, <3>2, <3>3 DEF Next, InFlight
  <2>9. QED
    BY <2>1, <2>2, <2>3, <2>4, <2>5, <2>6, <2>7, <2>8 DEF Next
<1>2. QED
  BY <1>1, TypeCorrect, RowInvariant, PTL DEF Spec, AcknowledgedIsSilent

-----------------------------------------------------------------------------
(* A run of the daily check which commits has missed nothing: every         *)
(* instance in its window is acknowledged or recorded as notified, whatever *)
(* other runs and the operator did meanwhile.                               *)

(* What is due under a rule depends on the day only: an anchor set in the  *)
(* middle of a run changes nothing for the other obligations.              *)
LEMMA RuleDueStable ==
  ASSUME today' = today, NEW k \in Keys, k[1] \notin AnchorDriven
  PROVE  k \in DueComputations' <=> k \in DueComputations
<1>1. PICK o \in Obligations, d \in 0..Horizon : k = <<o, d>>
  BY DEF Keys
<1>2. o \notin AnchorDriven
  BY <1>1
<1>3. o \notin MissingAnchors /\ o \notin MissingAnchors' /\ o \notin AnchorDated
  BY <1>2 DEF MissingAnchors, AnchorDriven
<1>4. NextDue(o, today - LookBack)' = NextDue(o, today - LookBack)
  BY <1>3 DEF NextDue, Occurrences
<1>5. k \in DueComputations <=> d \in NextDue(o, today - LookBack)
  BY <1>1, <1>3 DEF DueComputations
<1>6. k \in DueComputations' <=> d \in NextDue(o, today - LookBack)'
  BY <1>1, <1>3 DEF DueComputations
<1>7. QED
  BY <1>4, <1>5, <1>6

(* One step within a day keeps the coverage of every run, if it keeps what *)
(* is dealt with and the run leaves nothing of its window behind.          *)
LEMMA CoverStep ==
  ASSUME CoverInv, today' = today, log \subseteq log',
         \A k \in Keys : inst[k] \in Terminal =>
            inst'[k] \in Terminal \/ <<k, today>> \in log',
         \A r \in Runs :
            \/ pc'[r] = "idle" \/ expired'[r]
            \/ /\ pc[r] # "idle" /\ ~expired[r]
               /\ \A k \in Keys : k \in todo[r] \cup newLog[r] /\ InWindow(k) =>
                    \/ k \in todo'[r] \cup newLog'[r]
                    \/ inst'[k] \in Terminal \/ <<k, today>> \in log'
  PROVE  CoverInv'
<1> SUFFICES ASSUME NEW r \in Runs, pc'[r] # "idle", ~expired'[r],
                    NEW k \in Keys, k \in DueComputations',
                    k[1] \notin AnchorDriven, InWindow(k)'
             PROVE  \/ k \in todo'[r] \cup newLog'[r]
                    \/ inst'[k] \in Terminal
                    \/ <<k, today'>> \in log'
  BY DEF CoverInv, Keys, Terminal
<1>1. k \in DueComputations /\ InWindow(k)
  BY RuleDueStable DEF InWindow
<1>2. \/ k \in todo[r] \cup newLog[r]
      \/ inst[k] \in Terminal
      \/ <<k, today>> \in log
  BY <1>1 DEF CoverInv
<1>3. QED
  BY <1>1, <1>2

LEMMA StepCoverInv ==
  ASSUME TypeOK, SentInv, RowInv, CoverInv, [Next]_vars
  PROVE  CoverInv'
<1> USE DEF db, settings, clock, local, txn, wire
<1>1. ASSUME NEW r \in Runs, Start(r) PROVE CoverInv'
  <2> SUFFICES ASSUME NEW q \in Runs, pc'[q] # "idle", ~expired'[q],
                      NEW k \in Keys, k \in DueComputations',
                      k[1] \notin AnchorDriven, InWindow(k)'
               PROVE  \/ k \in todo'[q] \cup newLog'[q]
                      \/ inst'[k] \in Terminal
                      \/ <<k, today'>> \in log'
    BY DEF CoverInv, Keys, Terminal
  <2>1. k \in DueComputations /\ InWindow(k)
    BY <1>1, RuleDueStable DEF Start, InWindow
  <2>2. CASE q = r
    BY <1>1, <2>1, <2>2 DEF Start, TypeOK
  <2>3. CASE q # r
    BY <1>1, <2>1, <2>3 DEF Start, TypeOK, CoverInv
  <2>4. QED
    BY <2>2, <2>3
<1>2. ASSUME NEW r \in Runs, Commit(r) PROVE CoverInv'
  <2>1. \A k \in Keys : inst[k] \in Terminal =>
           inst'[k] \in Terminal \/ <<k, today>> \in log'
    <3> SUFFICES ASSUME NEW k \in Keys, inst[k] \in Terminal, inst'[k] \notin Terminal
                 PROVE  k \in newLog[r]
      BY <1>2 DEF Commit
    <3>1. upd[r][k] \in Status
      BY <1>2 DEF Commit
    <3>2. upd[r][k] # "none" /\ upd[r][k] # "pending"
      BY <1>2, <3>1 DEF Commit, RowInv, WriteInv, Status, Terminal
    <3>3. QED
      BY <3>2 DEF RowInv, WriteInv
  <2>2. \A q \in Runs \ {r} : /\ pc'[q] = pc[q] /\ expired'[q] = expired[q]
                              /\ todo'[q] = todo[q] /\ newLog'[q] = newLog[q]
    BY <1>2 DEF Commit, Rollback, CloseSession, TypeOK
  <2>3. pc'[r] = "idle"
    BY <1>2 DEF Commit, CloseSession, TypeOK
  <2>4. today' = today /\ log \subseteq log'
    BY <1>2 DEF Commit
  <2>5. QED
    BY <2>1, <2>2, <2>3, <2>4, CoverStep
<1>3. ASSUME NEW r \in Runs,
             \/ PickExpired(r) \/ DeadlockVictim(r) \/ Crash(r)
             \/ \E o \in missing[r] : NudgeAmbiguous(r, o)
      PROVE  CoverInv'
  <2>1. UNCHANGED <<today, log, inst>> /\ pc'[r] = "idle"
    BY <1>3 DEF PickExpired, DeadlockVictim, Crash, NudgeAmbiguous,
                Fail, CloseSession, TypeOK
  <2>2. \A q \in Runs \ {r} : /\ pc'[q] = pc[q] /\ expired'[q] = expired[q]
                              /\ todo'[q] = todo[q] /\ newLog'[q] = newLog[q]
    BY <1>3 DEF PickExpired, DeadlockVictim, Crash, NudgeAmbiguous,
                Fail, CloseSession, Rollback, TypeOK
  <2>3. QED
    BY <2>1, <2>2, CoverStep
<1>4. ASSUME NEW r \in Runs, CreateConflict(r) \/ RecordConflict(r) PROVE CoverInv'
  <2>1. UNCHANGED <<today, log, inst>> /\ expired'[r]
    BY <1>4 DEF CreateConflict, RecordConflict, TypeOK
  <2>2. \A q \in Runs \ {r} : /\ pc'[q] = pc[q] /\ expired'[q] = expired[q]
                              /\ todo'[q] = todo[q] /\ newLog'[q] = newLog[q]
    BY <1>4 DEF CreateConflict, RecordConflict, Rollback, Advance, TypeOK
  <2>3. QED
    BY <2>1, <2>2, CoverStep
<1>5. ASSUME NEW r \in Runs, NEW k \in todo[r], SkipEarly(r, k) \/ LoadTerminal(r, k)
      PROVE  CoverInv'
  <2>1. UNCHANGED <<today, log, inst, newLog, expired>> /\ ~expired[r] /\ pc[r] = "pick"
    BY <1>5 DEF SkipEarly, LoadTerminal
  <2>2. \A q \in Runs \ {r} : pc'[q] = pc[q] /\ todo'[q] = todo[q]
    BY <1>5 DEF SkipEarly, LoadTerminal, Advance, TypeOK
  <2>3. todo'[r] = todo[r] \ {k}
    BY <1>5 DEF SkipEarly, LoadTerminal, Advance, TypeOK
  <2>4. ~InWindow(k) \/ inst'[k] \in Terminal
    BY <1>5, <2>1 DEF SkipEarly, LoadTerminal
  <2>5. QED
    BY <2>1, <2>2, <2>3, <2>4, CoverStep
<1>6. ASSUME NEW r \in Runs, Update(r) PROVE CoverInv'
  <2>1. UNCHANGED <<today, log, inst, newLog, expired>> /\ pc[r] = "update"
    BY <1>6 DEF Update
  <2>2. \A q \in Runs \ {r} : pc'[q] = pc[q] /\ todo'[q] = todo[q]
    BY <1>6 DEF Update, Advance, TypeOK
  <2>3. todo'[r] = todo[r] \ {cur[r]} /\ cur[r] \in newLog[r]
    BY <1>6, <2>1 DEF Update, Advance, TypeOK, SentInv, LabelInv
  <2>4. QED
    BY <2>1, <2>2, <2>3, CoverStep
<1>7. ASSUME NEW r \in Runs,
             \/ StartPaused(r)
             \/ \E o \in missing[r] : SkipNudge(r, o) \/ Nudge(r, o)
             \/ \E k \in todo[r] : Load(r, k)
             \/ CreateInserted(r) \/ RecordInserted(r) \/ Send(r)
      PROVE  CoverInv'
  <2>1. UNCHANGED <<today, log, inst, todo, expired>>
    BY <1>7 DEF StartPaused, SkipNudge, Nudge, Load, CreateInserted, RecordInserted, Send
  <2>2. \A q \in Runs : newLog[q] \subseteq newLog'[q]
    BY <1>7 DEF StartPaused, SkipNudge, Nudge, Load, CreateInserted, RecordInserted,
                Send, TypeOK
  <2>3. \A q \in Runs : pc'[q] = pc[q] \/ pc[q] # "idle"
    BY <1>7 DEF StartPaused, SkipNudge, Nudge, Load, CreateInserted, RecordInserted,
                Send, TypeOK
  <2>4. QED
    BY <2>1, <2>2, <2>3, CoverStep
<1>8. ASSUME Operator PROVE CoverInv'
  <2>1. UNCHANGED <<today, log, pc, expired, todo, newLog>>
    BY <1>8 DEF Operator, LoadRequest, CommitRequest, DropRequest, SetPause, Resume,
                SetAnchor
  <2>2. \A k \in Keys : inst[k] \in Terminal => inst'[k] \in Terminal
    <3>1. ASSUME NEW q \in Requests, CommitRequest(q), NEW k \in Keys
          PROVE  inst'[k] = inst[k] \/ inst'[k] \in Terminal
      <4>1. req[q].key \in Keys /\ req[q].op \in Terminal
        BY <3>1 DEF CommitRequest, TypeOK
      <4>2. CASE inst' = inst
        BY <4>2
      <4>3. CASE inst' = [inst EXCEPT ![req[q].key] = req[q].op]
        BY <4>1, <4>3 DEF TypeOK
      <4>4. QED
        BY <3>1, <4>2, <4>3 DEF CommitRequest
    <3>2. ASSUME \A q \in Requests : ~CommitRequest(q) PROVE inst' = inst
      BY <1>8, <3>2 DEF Operator, LoadRequest, DropRequest, SetPause, Resume, SetAnchor
    <3>3. QED
      BY <3>1, <3>2
  <2>3. QED
    BY <2>1, <2>2, CoverStep
<1>9. ASSUME NextDay PROVE CoverInv'
  BY <1>9 DEF NextDay, CoverInv
<1>10. ASSUME UNCHANGED vars PROVE CoverInv'
  BY <1>10, CoverStep DEF vars
<1>11. QED
  BY <1>1, <1>2, <1>3, <1>4, <1>5, <1>6, <1>7, <1>8, <1>9, <1>10 DEF Next, RunStep

LEMMA CoverInvariant == Spec => []CoverInv
<1>1. Init => CoverInv
  BY DEF Init, CoverInv
<1>2. TypeOK /\ SentInv /\ RowInv /\ CoverInv /\ [Next]_vars => CoverInv'
  BY StepCoverInv
<1>3. QED
  BY <1>1, <1>2, TypeCorrect, SentInvariant, RowInvariant, PTL DEF Spec

-----------------------------------------------------------------------------
(* Conflicts: the insert of an instance that conflicts with another run's  *)
(* is followed by a log row that conflicts too.                            *)

RollbackInv == ConflictInv /\ RolledBackIsSilent

(* One step within a day: what is announced stays announced, and each run  *)
(* is where it was or at a place that the step explains.                   *)
LEMMA ConflictStep ==
  ASSUME TypeOK, RollbackInv, UNCHANGED today, log \subseteq log',
         \A k \in Keys : inst[k] \in Terminal \cup {"absent"} =>
            inst'[k] \in Terminal \cup {"absent"} \/ <<k, today>> \in log',
         \A k \in Keys : <<k, today>> \in log => <<k, today>> \in log',
         \A r \in Runs :
            \/ pc'[r] = pc[r] /\ cur'[r] = cur[r] /\ expired'[r] = expired[r]
            \/ pc'[r] \in {"idle", "pick"}
            \/ pc'[r] = "create" /\ ~expired'[r] /\ inst'[cur'[r]] = "absent"
            \/ pc'[r] \in {"record", "send", "update"} /\ ~expired'[r]
            \/ pc'[r] = "record" /\ <<cur'[r], today>> \in log
         PROVE  RollbackInv'
<1> SUFFICES ASSUME NEW r \in Runs
             PROVE  /\ pc'[r] = "create" => /\ ~expired'[r]
                                            /\ \/ inst'[cur'[r]] \in Terminal \cup {"absent"}
                                               \/ <<cur'[r], today'>> \in log'
                    /\ expired'[r] /\ pc'[r] = "record" => <<cur'[r], today'>> \in log'
                    /\ expired'[r] => pc'[r] \notin {"send", "update"}
  BY DEF RollbackInv, ConflictInv, RolledBackIsSilent, Terminal
<1>1. CASE pc'[r] = pc[r] /\ cur'[r] = cur[r] /\ expired'[r] = expired[r]
  <2>1. pc[r] = "create" => cur[r] \in Keys
    BY DEF TypeOK, Working
  <2>2. QED
    BY <1>1, <2>1 DEF RollbackInv, ConflictInv, RolledBackIsSilent
<1>2. CASE ~(pc'[r] = pc[r] /\ cur'[r] = cur[r] /\ expired'[r] = expired[r])
  BY <1>2
<1>3. QED
  BY <1>1, <1>2

LEMMA StepRollbackInv ==
  ASSUME TypeOK, SentInv, RowInv, RollbackInv, [Next]_vars
  PROVE  RollbackInv'
<1> USE DEF db, settings, clock, local, txn, wire
<1>1. ASSUME NEW r \in Runs, NEW k \in todo[r], Load(r, k) PROVE RollbackInv'
  <2>1. /\ pc'[r] = (IF inst[k] = "absent" THEN "create" ELSE "record")
        /\ cur'[r] = k /\ ~expired'[r]
        /\ \A q \in Runs \ {r} : pc'[q] = pc[q] /\ cur'[q] = cur[q] /\ expired'[q] = expired[q]
        /\ UNCHANGED <<inst, log, today>>
    BY <1>1 DEF Load, TypeOK
  <2>2. QED
    BY <2>1, ConflictStep
<1>2. ASSUME NEW r \in Runs, CreateInserted(r) \/ RecordInserted(r) \/ Send(r)
      PROVE  RollbackInv'
  <2>1. ~expired[r]
    BY <1>2 DEF CreateInserted, RecordInserted, Send, RollbackInv, ConflictInv,
       RolledBackIsSilent
  <2>2. /\ pc'[r] \in {"record", "send", "update"} /\ ~expired'[r]
        /\ \A q \in Runs \ {r} : pc'[q] = pc[q] /\ cur'[q] = cur[q] /\ expired'[q] = expired[q]
        /\ UNCHANGED <<inst, log, today>>
    BY <1>2, <2>1 DEF CreateInserted, RecordInserted, Send, TypeOK
  <2>3. QED
    BY <2>2, ConflictStep
<1>3. ASSUME NEW r \in Runs, CreateConflict(r) PROVE RollbackInv'
  <2>1. /\ pc[r] = "create" /\ inst[cur[r]] # "absent"
        /\ \A q \in Runs \ {r} : pc'[q] = pc[q] /\ cur'[q] = cur[q] /\ expired'[q] = expired[q]
        /\ UNCHANGED <<inst, log, today>>
    BY <1>3 DEF CreateConflict, Advance, TypeOK
  <2>2. CASE inst[cur[r]] \in Terminal
    <3>1. pc'[r] = "pick"
      BY <1>3, <2>2 DEF CreateConflict, Advance, TypeOK
    <3>2. QED
      BY <2>1, <3>1, ConflictStep
  <2>3. CASE inst[cur[r]] \notin Terminal
    <3>1. pc'[r] = "record" /\ cur'[r] = cur[r]
      BY <1>3, <2>3 DEF CreateConflict, TypeOK
    <3>2. <<cur[r], today>> \in log
      BY <2>1, <2>3 DEF RollbackInv, ConflictInv
    <3>3. QED
      BY <2>1, <3>1, <3>2, ConflictStep
  <2>4. QED
    BY <2>2, <2>3
<1>4. ASSUME NEW r \in Runs,
             \/ PickExpired(r) \/ DeadlockVictim(r) \/ Crash(r) \/ RecordConflict(r)
             \/ Update(r) \/ Start(r)
             \/ (\E o \in missing[r] : NudgeAmbiguous(r, o))
             \/ (\E k \in todo[r] : SkipEarly(r, k) \/ LoadTerminal(r, k))
      PROVE  RollbackInv'
  <2>1. /\ pc'[r] \in {"idle", "pick"}
        /\ \A q \in Runs \ {r} : pc'[q] = pc[q] /\ cur'[q] = cur[q] /\ expired'[q] = expired[q]
        /\ UNCHANGED <<inst, log, today>>
    BY <1>4 DEF PickExpired, DeadlockVictim, Crash, RecordConflict, Update, Start,
       NudgeAmbiguous, SkipEarly, LoadTerminal, Fail, CloseSession, Advance, TypeOK
  <2>2. QED
    BY <2>1, ConflictStep
<1>5. ASSUME NEW r \in Runs, Commit(r) PROVE RollbackInv'
  <2>1. /\ pc[r] = "pick" /\ pc'[r] = "idle"
        /\ \A q \in Runs \ {r} : pc'[q] = pc[q] /\ cur'[q] = cur[q] /\ expired'[q] = expired[q]
        /\ log' = log \cup (newLog[r] \X {today}) /\ UNCHANGED today
        /\ \A k \in Keys : inst'[k] = IF upd[r][k] \in Status THEN upd[r][k] ELSE inst[k]
    BY <1>5 DEF Commit, CloseSession, TypeOK
  <2>2. \A k \in Keys : upd[r][k] \in Status => k \in newLog[r]
    BY <2>1 DEF RowInv, WriteInv, Status, Terminal
  <2>3. \A k \in Keys : inst[k] \in Terminal \cup {"absent"} =>
          inst'[k] \in Terminal \cup {"absent"} \/ <<k, today>> \in log'
    BY <2>1, <2>2
  <2>4. QED
    BY <2>1, <2>3, ConflictStep
<1>6. ASSUME NEW q \in Requests, CommitRequest(q) PROVE RollbackInv'
  <2>1. req[q] # NoRequest /\ req[q].op \in Terminal
    BY <1>6 DEF CommitRequest, TypeOK
  <2>2. UNCHANGED <<log, today, pc, cur, expired>>
        /\ \A k \in Keys : inst'[k] = inst[k] \/ inst'[k] \in Terminal
    BY <1>6, <2>1 DEF CommitRequest, TypeOK
  <2>3. QED
    BY <2>2, ConflictStep
<1>7. ASSUME NextDay PROVE RollbackInv'
  BY <1>7 DEF NextDay, RollbackInv, ConflictInv, RolledBackIsSilent
<1>8. CASE UNCHANGED <<inst, log, today, pc, cur, expired>>
  BY <1>8 DEF RollbackInv, ConflictInv, RolledBackIsSilent, Terminal
<1>9. \/ \E r \in Runs : StartPaused(r) \/ (\E o \in missing[r] : SkipNudge(r, o) \/ Nudge(r, o))
      \/ \E q \in Requests : \/ \E k \in Keys, op \in Terminal : LoadRequest(q, k, op)
                             \/ DropRequest(q)
      \/ \E days \in PauseDays : SetPause(days)
      \/ Resume
      \/ \E o \in AnchorDriven, d \in AnchorDates : SetAnchor(o, d)
      \/ UNCHANGED vars
      => UNCHANGED <<inst, log, today, pc, cur, expired>>
  BY DEF vars, StartPaused, SkipNudge, Nudge, LoadRequest, DropRequest, SetPause, Resume,
     SetAnchor
<1>10. QED
  BY <1>1, <1>2, <1>3, <1>4, <1>5, <1>6, <1>7, <1>8, <1>9 DEF Next, RunStep, Operator

LEMMA RollbackInvariant == Spec => []RollbackInv
<1>1. Init => RollbackInv
  BY DEF Init, RollbackInv, ConflictInv, RolledBackIsSilent
<1>2. TypeOK /\ SentInv /\ RowInv /\ RollbackInv /\ [Next]_vars => RollbackInv'
  BY StepRollbackInv
<1>3. QED
  BY <1>1, <1>2, TypeCorrect, SentInvariant, RowInvariant, PTL DEF Spec

(* A run whose transaction a conflict rolled back sends no reminder after  *)
(* it (_get_or_create_instance and _record_notification, engine.py:152-190).*)
THEOREM RolledBackIsSilentThm == Spec => []RolledBackIsSilent
<1>1. RollbackInv => RolledBackIsSilent
  BY DEF RollbackInv
<1>2. QED
  BY <1>1, RollbackInvariant, PTL

(* The inductive invariant of the core run holds for every catalog, every  *)
(* number of overlapping runs and every bound.                             *)
THEOREM InductiveInvariantThm == Spec => []IInv
<1>1. SentInv /\ RowInv /\ CoverInv /\ RollbackInv => IInv
  BY DEF SentInv, RowInv, RollbackInv, IInv
<1>2. QED
  BY <1>1, SentInvariant, RowInvariant, CoverInvariant, RollbackInvariant, PTL

(* A run that commits without having met a conflict has acknowledged or    *)
(* recorded every instance in its window (the loop of engine.py:209-285    *)
(* and the commit of session_scope).                                       *)
THEOREM CommitCoversWindowThm == Spec => CommitCoversWindow
<1> DEFINE Covers(r) == \A k \in DueComputations \cap Keys :
                          k[1] \notin AnchorDriven /\ InWindow(k) =>
                             inst'[k] \in Terminal \/ <<k, today>> \in log'
<1>1. ASSUME TypeOK, RowInv, CoverInv, NEW r \in Runs, Commit(r), ~expired[r]
      PROVE  Covers(r)
  <2> SUFFICES ASSUME NEW k \in DueComputations \cap Keys,
                      k[1] \notin AnchorDriven, InWindow(k)
               PROVE  inst'[k] \in Terminal \/ <<k, today>> \in log'
    OBVIOUS
  <2>1. pc[r] = "pick" /\ todo[r] = {} /\ log' = log \cup (newLog[r] \X {today})
    BY <1>1 DEF Commit
  <2>2. k \in newLog[r] \/ inst[k] \in Terminal \/ <<k, today>> \in log
    BY <1>1, <2>1 DEF CoverInv
  <2>3. CASE inst[k] \in Terminal /\ inst'[k] \notin Terminal
    <3>1. upd[r][k] \in Status
      BY <1>1, <2>3 DEF Commit
    <3>2. upd[r][k] # "none" /\ upd[r][k] # "pending"
      BY <1>1, <2>1, <3>1 DEF RowInv, WriteInv, Status, Terminal
    <3>3. k \in newLog[r]
      BY <1>1, <3>2 DEF RowInv, WriteInv
    <3>4. QED
      BY <2>1, <3>3
  <2>4. QED
    BY <2>1, <2>2, <2>3
<1>2. TypeOK /\ RowInv /\ CoverInv
        => [\A r \in Runs : Commit(r) /\ ~expired[r] => Covers(r)]_vars
  BY <1>1
<1>3. QED
  BY <1>2, TypeCorrect, RowInvariant, CoverInvariant, PTL DEF CommitCoversWindow

-----------------------------------------------------------------------------
(* The day on which a due date is the one a run computes.                   *)

(* On its day of notice no earlier date of the rule is looked back at, so  *)
(* that it is the first after the cut-off, and it is inside the window.    *)
LEMMA NoticeDayIsNext ==
  ASSUME TypeOK, NEW o \in Obligations \ AnchorDriven,
         NEW d \in Recurrence[o], NoticeDay(o, d)
  PROVE  <<o, d>> \in DueComputations /\ InWindow(<<o, d>>)
<1>1. /\ Recurrence[o] \subseteq Nat /\ Lead[o] \in Nat
      /\ LookBack \in Nat \ {0} /\ today \in Nat /\ d \in Nat
  BY CatalogAssumption DEF TypeOK, Days
<1>2. o \notin MissingAnchors /\ Occurrences(o) = Recurrence[o]
  BY DEF MissingAnchors, Occurrences, AnchorDriven
<1>3. /\ d - Lead[o] <= today
      /\ \A e \in Recurrence[o] : e < d => e + LookBack <= today
      /\ today = d - Lead[o] \/ \E e \in Recurrence[o] : e < d /\ today = e + LookBack
  BY DEF NoticeDay
<1>4. d > today - LookBack
  BY <1>1, <1>3
<1>5. ASSUME NEW e \in Recurrence[o], e > today - LookBack PROVE d <= e
  <2>1. ~(e + LookBack <= today)
    BY <1>1, <1>5
  <2>2. ~(e < d)
    BY <1>3, <2>1
  <2>3. QED
    BY <1>1, <2>2
<1>6. d \in NextDue(o, today - LookBack)
  BY <1>2, <1>4, <1>5 DEF NextDue
<1>7. <<o, d>> \in DueComputations
  BY <1>2, <1>6 DEF DueComputations
<1>8. QED
  BY <1>1, <1>3, <1>7 DEF InWindow

(* Every due date of every rule is announced on its day of notice: on its  *)
(* lead day (docs/freelancer-obligations-calendar.md:442), or, under rules *)
(* as dense as the weekly ones of obligations.json, on the day on which    *)
(* the date before it leaves the look-back of compute_due_dates.           *)
THEOREM DueDateAnnouncedThm == Spec => DueDateAnnounced
<1>1. TypeOK /\ [\A r \in Runs : Commit(r) /\ ~expired[r] =>
                   \A k \in DueComputations \cap Keys :
                     k[1] \notin AnchorDriven /\ InWindow(k) =>
                        inst'[k] \in Terminal \/ <<k, today>> \in log']_vars
      => [\A r \in Runs : Commit(r) /\ ~expired[r] =>
            \A o \in Obligations \ AnchorDriven :
              \A d \in Recurrence[o] \cap (0..Horizon) : NoticeDay(o, d) =>
                inst'[<<o, d>>] \in Terminal \/ <<<<o, d>>, today>> \in log']_vars
  <2> SUFFICES ASSUME TypeOK, NEW r \in Runs, Commit(r), ~expired[r],
                      \A k \in DueComputations \cap Keys :
                        k[1] \notin AnchorDriven /\ InWindow(k) =>
                          inst'[k] \in Terminal \/ <<k, today>> \in log',
                      NEW o \in Obligations \ AnchorDriven,
                      NEW d \in Recurrence[o] \cap (0..Horizon), NoticeDay(o, d)
               PROVE  inst'[<<o, d>>] \in Terminal \/ <<<<o, d>>, today>> \in log'
    OBVIOUS
  <2>1. <<o, d>> \in Keys
    BY DEF Keys
  <2>2. <<o, d>> \in DueComputations /\ InWindow(<<o, d>>)
    BY NoticeDayIsNext
  <2>3. QED
    BY <2>1, <2>2
<1>2. QED
  BY <1>1, TypeCorrect, CommitCoversWindowThm, PTL DEF CommitCoversWindow, DueDateAnnounced
=============================================================================
