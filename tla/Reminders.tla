----------------------------- MODULE Reminders -----------------------------
(***************************************************************************)
(* The reminder engine: runs of the daily check (run_daily_check and its   *)
(* helpers in capabilities/reminders/engine.py) against the database they  *)
(* share with each other and with the operator's requests to the API.      *)
(*                                                                         *)
(* A run is one database transaction at READ COMMITTED: what it writes is  *)
(* seen by others when it commits at the very end, and lost as a whole     *)
(* when it rolls back, raises or dies. What it sends to Telegram is seen   *)
(* at once and is never taken back. The scheduler starts one run a day;    *)
(* the operator may start more by hand (DEPLOYMENT.md, sections 7 and 10), *)
(* so runs of one day may follow or overlap one another.                   *)
(*                                                                         *)
(* Abstracted: message texts, audit rows that nothing reads, and the       *)
(* recurrence rules, which are sets of due dates here. A label of          *)
(* notification_log (lead-Nd, due-today, overdue-Nd) is a function of the  *)
(* instance and of the day, so a row of the log is a pair <<instance,      *)
(* day>>. A run is taken to end on the day it starts, and the catalog is   *)
(* not reloaded during the days modelled.                                  *)
(***************************************************************************)
EXTENDS Integers, FiniteSets

CONSTANTS
  Obligations,   \* ids of the catalog
  Mandatory,     \* the obligations with mandatory = true
  AnchorDated,   \* anchor-driven, due on the anchor's anniversaries
  AnchorGated,   \* anchor-driven through ANCHOR_FALLBACK_FIELDS: the rule
                 \* gives the dates, but only once the anchor is set
  Recurrence,    \* [Obligations -> due dates of the recurrence rule]
  Lead,          \* [Obligations -> lead_time_days]
  LookBack,      \* how many days back a due date is still considered (14)
  Year,          \* days from an anniversary to the next
  AnchorDates,   \* the dates the operator may set as an anchor
  NoDate,        \* an anchor that is not set
  NoKey,         \* a run that is between two instances
  Mondays,       \* the days of the anchor-missing digest
  Runs,          \* processes that can execute the daily check
  Requests,      \* concurrent /done and /skip requests of the operator
  Outcomes,      \* what a send to Telegram may come to: "ok", "failed"
  LastDay,       \* bound: the last day modelled
  Horizon,       \* bound: the last due date an instance can have
  MaxRuns,       \* bound: runs started in one day
  MaxMissed,     \* bound: days on which the scheduler is down
  MaxCrashes,    \* bound: runs that die
  PauseDays      \* the lengths of a pause the operator may ask for

Days == 0..LastDay
Keys == Obligations \X (0..Horizon)   \* unique (obligation_id, due_date)
AnchorDriven == AnchorDated \cup AnchorGated

ASSUME CatalogAssumption ==
  /\ Mandatory \subseteq Obligations
  /\ AnchorDated \subseteq Obligations /\ AnchorGated \subseteq Obligations
  /\ Recurrence \in [Obligations -> SUBSET Nat]
  /\ Lead \in [Obligations -> Nat]
  /\ Year \in Nat \ {0} /\ LookBack \in Nat \ {0}
  /\ AnchorDates \subseteq Nat /\ NoDate \notin Nat
  /\ NoKey \notin Keys

ASSUME BoundAssumption ==
  /\ LastDay \in Nat /\ Horizon \in Nat
  /\ \A o \in Obligations : LastDay + Lead[o] <= Horizon
  /\ MaxRuns \in Nat \ {0} /\ MaxMissed \in Nat /\ MaxCrashes \in Nat
  /\ PauseDays \subseteq Nat
  /\ Outcomes \subseteq {"ok", "failed"}

VARIABLES
  \* the database, as committed
  inst,         \* obligation_instances: status of each instance
  log,          \* notification_log: pairs <<instance, day>>
  audits,       \* today's "reminders.anchor_missing" rows per obligation
  anchor,       \* anchor_dates
  pausedUntil,  \* the day of pause_state.paused_until, -1 when NULL
  \* the clock
  today, runsToday, missed, crashes,
  \* each run of the daily check: its position, and its open transaction
  pc, todo, missing, cur, loaded, expired,
  upd, newLog, newAudit,
  \* each request of the operator
  req,
  \* what Telegram was asked to send today, and what it delivered
  sent, delivered, nudged

db       == <<inst, log, audits>>
settings == <<anchor, pausedUntil>>
clock    == <<today, runsToday, missed, crashes>>
local    == <<pc, todo, missing, cur, loaded, expired>>
txn      == <<upd, newLog, newAudit>>
wire     == <<sent, delivered, nudged>>
vars     == <<db, settings, clock, local, txn, req, wire>>

Terminal  == {"done", "skipped"}
Status    == {"pending", "notified", "escalated"} \cup Terminal
NoRequest == [op |-> "none"]
NoWrites  == [k \in Keys |-> "none"]

-----------------------------------------------------------------------------
(* What a run computes from the catalog, the anchors and the date.          *)

IsPaused == pausedUntil >= today

MissingAnchors == {o \in AnchorDriven : anchor[o] = NoDate}

(* An anchor stands for its day of every year: next_anchor_occurrence      *)
(* keeps month and day and ignores the year, even one still to come.       *)
Occurrences(o) ==
  IF o \in AnchorDated THEN {d \in 0..(Horizon + Year) : (d - anchor[o]) % Year = 0}
                       ELSE Recurrence[o]

(* The first occurrence strictly after the given day: count = 1.            *)
NextDue(o, after) ==
  {d \in Occurrences(o) :
     d > after /\ \A e \in Occurrences(o) : e > after => d <= e}

MutShortLookBack ==
  UNION {{<<o, d>> : d \in NextDue(o, today - (LookBack - 1))}
           : o \in Obligations \ MissingAnchors}

DueComputations ==
  UNION {{<<o, d>> : d \in NextDue(o, today - LookBack)}
           : o \in Obligations \ MissingAnchors}

InWindow(k) == today >= k[2] - Lead[k[1]]

MutStatusWithoutMandatory(k) == IF today > k[2] THEN "escalated" ELSE "notified"

NotifiedStatus(k) ==
  IF today > k[2] /\ k[1] \in Mandatory THEN "escalated" ELSE "notified"

-----------------------------------------------------------------------------
(* Transactions.                                                            *)

(* The unique indexes and the row locks of Postgres: an insert waits for a *)
(* transaction that inserted the same key, an update for one that updated  *)
(* the same row, until that transaction ends.                              *)
WaitsFor(r, q) ==
  /\ q # r
  /\ \/ pc[r] = "create" /\ inst[cur[r]] = "absent" /\ upd[q][cur[r]] # "none"
     \/ pc[r] = "record" /\ cur[r] \in newLog[q]
     \/ pc[r] = "update" /\ upd[q][cur[r]] # "none"

Blocked(r) == \E q \in Runs : WaitsFor(r, q)

Rollback(r) ==
  /\ upd' = [upd EXCEPT ![r] = NoWrites]
  /\ newLog' = [newLog EXCEPT ![r] = {}]
  /\ newAudit' = [newAudit EXCEPT ![r] = {}]

(* The run's session is closed: nothing of it is left.                      *)
CloseSession(r) ==
  /\ pc' = [pc EXCEPT ![r] = "idle"]
  /\ todo' = [todo EXCEPT ![r] = {}]
  /\ missing' = [missing EXCEPT ![r] = {}]
  /\ cur' = [cur EXCEPT ![r] = NoKey]
  /\ loaded' = [loaded EXCEPT ![r] = "absent"]
  /\ expired' = [expired EXCEPT ![r] = FALSE]

(* An exception leaves run_daily_check: session_scope rolls back.           *)
Fail(r) == Rollback(r) /\ CloseSession(r)

(* The loop's "continue": the current item is done with.                    *)
Advance(r, k) ==
  /\ pc' = [pc EXCEPT ![r] = "pick"]
  /\ todo' = [todo EXCEPT ![r] = @ \ {k}]
  /\ cur' = [cur EXCEPT ![r] = NoKey]
  /\ loaded' = [loaded EXCEPT ![r] = "absent"]

-----------------------------------------------------------------------------
(* A run of the daily check.                                                *)

StartPaused(r) ==
  /\ pc[r] = "idle" /\ runsToday < MaxRuns
  /\ IsPaused
  /\ runsToday' = runsToday + 1
  /\ UNCHANGED <<db, settings, today, missed, crashes, local, txn, req, wire>>

Start(r) ==
  /\ pc[r] = "idle" /\ runsToday < MaxRuns
  /\ ~IsPaused
  /\ runsToday' = runsToday + 1
  /\ pc' = [pc EXCEPT ![r] = "pick"]
  /\ todo' = [todo EXCEPT ![r] = DueComputations]
  /\ missing' = [missing EXCEPT ![r] = MissingAnchors]
  /\ UNCHANGED <<db, settings, today, missed, crashes, cur, loaded, expired,
                 txn, req, wire>>

(* An obligation without its anchor: nothing to do except on a Monday, and *)
(* nothing on a Monday whose digest is already in the audit log.           *)
SkipNudge(r, o) ==
  /\ pc[r] = "pick" /\ o \in missing[r]
  /\ today \in Mondays => ~expired[r] /\ audits[o] = 1
  /\ missing' = [missing EXCEPT ![r] = @ \ {o}]
  /\ UNCHANGED <<db, settings, clock, pc, todo, cur, loaded, expired, txn, req, wire>>

Nudge(r, o) ==
  /\ pc[r] = "pick" /\ o \in missing[r]
  /\ today \in Mondays /\ ~expired[r] /\ audits[o] = 0
  /\ nudged' = [nudged EXCEPT ![o] = @ + 1]
  /\ newAudit' = [newAudit EXCEPT ![r] = @ \cup {o}]
  /\ missing' = [missing EXCEPT ![r] = @ \ {o}]
  /\ UNCHANGED <<db, settings, clock, pc, todo, cur, loaded, expired,
                 upd, newLog, req, sent, delivered>>

(* scalar_one_or_none() raises when two rows match.                         *)
NudgeAmbiguous(r, o) ==
  /\ pc[r] = "pick" /\ o \in missing[r]
  /\ today \in Mondays /\ ~expired[r] /\ audits[o] > 1
  /\ Fail(r)
  /\ UNCHANGED <<db, settings, clock, req, wire>>

(* After a rollback every object of the session is expired. Reading an     *)
(* attribute of the next obligation would need I/O that an AsyncSession    *)
(* does not do from an attribute access: the run raises.                   *)
PickExpired(r) ==
  /\ pc[r] = "pick" /\ expired[r]
  /\ todo[r] # {} \/ (missing[r] # {} /\ today \in Mondays)
  /\ Fail(r)
  /\ UNCHANGED <<db, settings, clock, req, wire>>

SkipEarly(r, k) ==
  /\ pc[r] = "pick" /\ ~expired[r] /\ k \in todo[r]
  /\ ~InWindow(k)
  /\ Advance(r, k)
  /\ UNCHANGED <<db, settings, clock, missing, expired, txn, req, wire>>

(* The SELECT of _get_or_create_instance, and the status the run goes on   *)
(* with. The order of the items is the order of a SELECT without ORDER BY. *)
LoadTerminal(r, k) ==
  /\ pc[r] = "pick" /\ ~expired[r] /\ k \in todo[r]
  /\ InWindow(k) /\ inst[k] \in Terminal
  /\ Advance(r, k)
  /\ UNCHANGED <<db, settings, clock, missing, expired, txn, req, wire>>

MutLoadSkipped(r, k) ==
  /\ pc[r] = "pick" /\ ~expired[r] /\ k \in todo[r]
  /\ InWindow(k) /\ inst[k] \notin {"done"}
  /\ cur' = [cur EXCEPT ![r] = k]
  /\ loaded' = [loaded EXCEPT ![r] = inst[k]]
  /\ pc' = [pc EXCEPT ![r] = IF inst[k] = "absent" THEN "create" ELSE "record"]
  /\ UNCHANGED <<db, settings, clock, todo, missing, expired, txn, req, wire>>

MutLoadPops(r, k) ==
  /\ pc[r] = "pick" /\ ~expired[r] /\ k \in todo[r]
  /\ InWindow(k) /\ inst[k] \notin Terminal
  /\ cur' = [cur EXCEPT ![r] = k]
  /\ loaded' = [loaded EXCEPT ![r] = inst[k]]
  /\ todo' = [todo EXCEPT ![r] = @ \ {k}]
  /\ pc' = [pc EXCEPT ![r] = IF inst[k] = "absent" THEN "create" ELSE "record"]
  /\ UNCHANGED <<db, settings, clock, missing, expired, txn, req, wire>>

Load(r, k) ==
  /\ pc[r] = "pick" /\ ~expired[r] /\ k \in todo[r]
  /\ InWindow(k) /\ inst[k] \notin Terminal
  /\ cur' = [cur EXCEPT ![r] = k]
  /\ loaded' = [loaded EXCEPT ![r] = inst[k]]
  /\ pc' = [pc EXCEPT ![r] = IF inst[k] = "absent" THEN "create" ELSE "record"]
  /\ UNCHANGED <<db, settings, clock, todo, missing, expired, txn, req, wire>>

(* _get_or_create_instance, the INSERT ... *)
CreateInserted(r) ==
  /\ pc[r] = "create" /\ ~Blocked(r) /\ inst[cur[r]] = "absent"
  /\ upd' = [upd EXCEPT ![r][cur[r]] = "pending"]
  /\ loaded' = [loaded EXCEPT ![r] = "pending"]
  /\ pc' = [pc EXCEPT ![r] = "record"]
  /\ UNCHANGED <<db, settings, clock, todo, missing, cur, expired,
                 newLog, newAudit, req, wire>>

(* ... and its IntegrityError: the whole transaction of the run is rolled  *)
(* back, and the row the other run committed is read instead.              *)
CreateConflict(r) ==
  /\ pc[r] = "create" /\ inst[cur[r]] # "absent"
  /\ Rollback(r)
  /\ expired' = [expired EXCEPT ![r] = TRUE]
  /\ IF inst[cur[r]] \in Terminal
       THEN Advance(r, cur[r])
       ELSE /\ loaded' = [loaded EXCEPT ![r] = inst[cur[r]]]
            /\ pc' = [pc EXCEPT ![r] = "record"]
            /\ UNCHANGED <<todo, cur>>
  /\ UNCHANGED <<db, settings, clock, missing, req, wire>>

MutRecordIgnoresLog(r) ==
  /\ pc[r] = "record" /\ ~Blocked(r)
  /\ newLog' = [newLog EXCEPT ![r] = @ \cup {cur[r]}]
  /\ pc' = [pc EXCEPT ![r] = "send"]
  /\ UNCHANGED <<db, settings, clock, todo, missing, cur, loaded, expired,
                 upd, newAudit, req, wire>>

(* _record_notification, the INSERT ... *)
RecordInserted(r) ==
  /\ pc[r] = "record" /\ ~Blocked(r) /\ <<cur[r], today>> \notin log
  /\ newLog' = [newLog EXCEPT ![r] = @ \cup {cur[r]}]
  /\ pc' = [pc EXCEPT ![r] = "send"]
  /\ UNCHANGED <<db, settings, clock, todo, missing, cur, loaded, expired,
                 upd, newAudit, req, wire>>

MutRecordRetried(r) ==
  /\ pc[r] = "record" /\ <<cur[r], today>> \in log
  /\ Rollback(r)
  /\ expired' = [expired EXCEPT ![r] = TRUE]
  /\ UNCHANGED <<db, settings, clock, pc, todo, missing, cur, loaded, req, wire>>

(* ... and its IntegrityError: again the whole transaction is rolled back, *)
(* then the item is skipped as already notified.                           *)
RecordConflict(r) ==
  /\ pc[r] = "record" /\ <<cur[r], today>> \in log
  /\ Rollback(r)
  /\ expired' = [expired EXCEPT ![r] = TRUE]
  /\ Advance(r, cur[r])
  /\ UNCHANGED <<db, settings, clock, missing, req, wire>>

MutSendSkipped(r) ==
  /\ pc[r] = "send"
  /\ pc' = [pc EXCEPT ![r] = "update"]
  /\ UNCHANGED <<db, settings, clock, todo, missing, cur, loaded, expired,
                 txn, req, wire>>

(* notifier.send swallows every failure and returns None: the run goes on. *)
(* (A run that a conflict rolled back does not come here, see              *)
(* RolledBackIsSilent; it could not read the obligation it has to format.) *)
Send(r) ==
  /\ pc[r] = "send"
  /\ sent' = [sent EXCEPT ![cur[r]] = @ + 1]
  /\ \E outcome \in Outcomes :
       delivered' = IF outcome = "ok" THEN delivered \cup {cur[r]} ELSE delivered
  /\ pc' = [pc EXCEPT ![r] = "update"]
  /\ UNCHANGED <<db, settings, clock, todo, missing, cur, loaded, expired,
                 txn, req, nudged>>

(* The flush of the instance. SQLAlchemy writes the status column only     *)
(* when it differs from the status the run loaded; notified_at it always   *)
(* writes, so the row is locked either way.                                *)
Update(r) ==
  /\ pc[r] = "update" /\ ~Blocked(r)
  /\ LET status == NotifiedStatus(cur[r])
     IN upd' = [upd EXCEPT ![r][cur[r]] =
                  IF status = loaded[r] THEN "touched" ELSE status]
  /\ Advance(r, cur[r])
  /\ UNCHANGED <<db, settings, clock, missing, expired, newLog, newAudit, req, wire>>

MutCommitLosesLog(r) ==
  /\ pc[r] = "pick" /\ todo[r] = {} /\ missing[r] = {}
  /\ inst' = [k \in Keys |-> IF upd[r][k] \in Status THEN upd[r][k] ELSE inst[k]]
  /\ audits' = [o \in Obligations |-> IF o \in newAudit[r] THEN audits[o] + 1
                                                           ELSE audits[o]]
  /\ Rollback(r) /\ CloseSession(r)
  /\ UNCHANGED <<log, settings, clock, req, wire>>

(* run_daily_check returns and session_scope commits.                       *)
Commit(r) ==
  /\ pc[r] = "pick" /\ todo[r] = {} /\ missing[r] = {}
  /\ inst' = [k \in Keys |-> IF upd[r][k] \in Status THEN upd[r][k] ELSE inst[k]]
  /\ log' = log \cup (newLog[r] \X {today})
  /\ audits' = [o \in Obligations |-> IF o \in newAudit[r] THEN audits[o] + 1
                                                           ELSE audits[o]]
  /\ Rollback(r) /\ CloseSession(r)
  /\ UNCHANGED <<settings, clock, req, wire>>

(* The process of the run dies: Postgres rolls its transaction back.        *)
Crash(r) ==
  /\ pc[r] # "idle" /\ crashes < MaxCrashes
  /\ crashes' = crashes + 1
  /\ Fail(r)
  /\ UNCHANGED <<db, settings, today, runsToday, missed, req, wire>>

(* Postgres breaks a cycle of waiting transactions by failing one of them: *)
(* not an IntegrityError, so the run raises.                               *)
DeadlockVictim(r) ==
  /\ \E S \in SUBSET Runs : r \in S /\ \A x \in S : \E y \in S : WaitsFor(x, y)
  /\ Fail(r)
  /\ UNCHANGED <<db, settings, clock, req, wire>>

-----------------------------------------------------------------------------
(* The operator: /done and /skip (mark_done, mark_skip), /pause, /anchor.   *)

(* A request reads the instance; an absent one is answered 404.             *)
LoadRequest(q, k, op) ==
  /\ req[q] = NoRequest /\ inst[k] # "absent"
  /\ req' = [req EXCEPT ![q] = [op |-> op, key |-> k, read |-> inst[k]]]
  /\ UNCHANGED <<db, settings, clock, local, txn, wire>>

RowFree(k) == \A r \in Runs : upd[r][k] = "none"

(* It flushes and commits, after any run that has the row locked. The      *)
(* status column is written only when it differs from the one read.        *)
CommitRequest(q) ==
  /\ req[q] # NoRequest
  /\ RowFree(req[q].key)
  /\ inst' = IF req[q].read = req[q].op THEN inst
             ELSE [inst EXCEPT ![req[q].key] = req[q].op]
  /\ req' = [req EXCEPT ![q] = NoRequest]
  /\ UNCHANGED <<log, audits, settings, clock, local, txn, wire>>

DropRequest(q) ==
  /\ req[q] # NoRequest
  /\ req' = [req EXCEPT ![q] = NoRequest]
  /\ UNCHANGED <<db, settings, clock, local, txn, wire>>

SetPause(days) ==
  /\ pausedUntil' = today + days
  /\ UNCHANGED <<db, anchor, clock, local, txn, req, wire>>

Resume ==
  /\ pausedUntil # -1
  /\ pausedUntil' = -1
  /\ UNCHANGED <<db, anchor, clock, local, txn, req, wire>>

SetAnchor(o, d) ==
  /\ anchor' = [anchor EXCEPT ![o] = d]
  /\ UNCHANGED <<db, pausedUntil, clock, local, txn, req, wire>>

-----------------------------------------------------------------------------
(* Midnight: the labels and the digest of the new day are new. The         *)
(* scheduler has run the check unless it was down at that hour.            *)
NextDay ==
  /\ today < LastDay
  /\ \A r \in Runs : pc[r] = "idle"
  /\ runsToday > 0 \/ missed < MaxMissed
  /\ today' = today + 1
  /\ runsToday' = 0
  /\ missed' = IF runsToday > 0 THEN missed ELSE missed + 1
  /\ audits' = [o \in Obligations |-> 0]
  /\ sent' = [k \in Keys |-> 0]
  /\ delivered' = {}
  /\ nudged' = [o \in Obligations |-> 0]
  /\ UNCHANGED <<inst, log, settings, crashes, local, txn, req>>

Init ==
  /\ inst = [k \in Keys |-> "absent"]
  /\ log = {}
  /\ audits = [o \in Obligations |-> 0]
  /\ anchor = [o \in AnchorDriven |-> NoDate]
  /\ pausedUntil = -1
  /\ today = 0 /\ runsToday = 0 /\ missed = 0 /\ crashes = 0
  /\ pc = [r \in Runs |-> "idle"]
  /\ todo = [r \in Runs |-> {}]
  /\ missing = [r \in Runs |-> {}]
  /\ cur = [r \in Runs |-> NoKey]
  /\ loaded = [r \in Runs |-> "absent"]
  /\ expired = [r \in Runs |-> FALSE]
  /\ upd = [r \in Runs |-> NoWrites]
  /\ newLog = [r \in Runs |-> {}]
  /\ newAudit = [r \in Runs |-> {}]
  /\ req = [q \in Requests |-> NoRequest]
  /\ sent = [k \in Keys |-> 0]
  /\ delivered = {}
  /\ nudged = [o \in Obligations |-> 0]

RunStep(r) ==
  \/ \E o \in missing[r] : SkipNudge(r, o) \/ Nudge(r, o) \/ NudgeAmbiguous(r, o)
  \/ PickExpired(r)
  \/ \E k \in todo[r] : SkipEarly(r, k) \/ LoadTerminal(r, k) \/ Load(r, k)
  \/ CreateInserted(r) \/ CreateConflict(r)
  \/ RecordInserted(r) \/ RecordConflict(r)
  \/ Send(r)
  \/ Update(r)
  \/ Commit(r)
  \/ DeadlockVictim(r)

Operator ==
  \/ \E q \in Requests : \/ \E k \in Keys, op \in Terminal : LoadRequest(q, k, op)
                         \/ CommitRequest(q)
                         \/ DropRequest(q)
  \/ \E days \in PauseDays : SetPause(days)
  \/ Resume
  \/ \E o \in AnchorDriven, d \in AnchorDates : SetAnchor(o, d)

Next ==
  \/ \E r \in Runs : StartPaused(r) \/ Start(r) \/ RunStep(r) \/ Crash(r)
  \/ Operator
  \/ NextDay

Spec == Init /\ [][Next]_vars

(* The scheduler fires the check every day, a run in progress goes on, and *)
(* time passes. Nothing is assumed of the operator.                        *)
Fairness ==
  /\ \A r \in Runs : WF_vars(RunStep(r))
  /\ WF_vars(runsToday = 0 /\ \E r \in Runs : StartPaused(r) \/ Start(r))
  /\ WF_vars(NextDay)

FairSpec == Spec /\ Fairness

-----------------------------------------------------------------------------
(* Properties.                                                              *)

Working == {"create", "record", "send", "update"}

(* Type correctness, and that a run works on an item it still has to do.    *)
TypeOK ==
  /\ inst \in [Keys -> Status \cup {"absent"}]
  /\ log \subseteq Keys \X Days
  /\ audits \in [Obligations -> Nat]
  /\ anchor \in [AnchorDriven -> AnchorDates \cup {NoDate}]
  /\ pausedUntil \in Nat \cup {-1}
  /\ today \in Days /\ runsToday \in 0..MaxRuns
  /\ missed \in 0..MaxMissed /\ crashes \in 0..MaxCrashes
  /\ pc \in [Runs -> {"idle", "pick"} \cup Working]
  /\ todo \in [Runs -> SUBSET (Obligations \X Nat)]
  /\ missing \in [Runs -> SUBSET Obligations]
  /\ cur \in [Runs -> Keys \cup {NoKey}]
  /\ \A r \in Runs : pc[r] \in Working => cur[r] \in Keys /\ cur[r] \in todo[r]
  /\ loaded \in [Runs -> Status \cup {"absent"}]
  /\ expired \in [Runs -> BOOLEAN]
  /\ upd \in [Runs -> [Keys -> Status \cup {"none", "touched"}]]
  /\ newLog \in [Runs -> SUBSET Keys]
  /\ newAudit \in [Runs -> SUBSET Obligations]
  /\ req \in [Requests -> {NoRequest} \cup
                [op : Terminal, key : Keys, read : Status]]
  /\ sent \in [Keys -> Nat]
  /\ delivered \subseteq Keys
  /\ nudged \in [Obligations -> Nat]

(* A committed row of notification_log stands for a message: the engine    *)
(* never records today's reminder of an instance without having sent it.   *)
RecordedWasSent == \A k \in Keys : <<k, today>> \in log => sent[k] >= 1

(* The de-duplication of README.md:133, as far as it goes: once the row of *)
(* a label is committed, no run sends that label again.                    *)
RecordedIsFinal ==
  [][\A k \in Keys : today' = today /\ <<k, today>> \in log => sent'[k] = sent[k]]_vars

(* A run that a conflict has rolled back sends no further reminder: the    *)
(* conflict of its insert is always followed by one of its log row, so it  *)
(* never reports twice what another run has just reported.                 *)
RolledBackIsSilent == \A r \in Runs : expired[r] => pc[r] \notin {"send", "update"}

(* An instance row appears together with the reminder that announces it,   *)
(* and so never appears as PENDING: nothing in the program moves a PENDING *)
(* instance on except a run that reaches it.                               *)
StoredInstanceWasAnnounced ==
  \A k \in Keys : inst[k] # "absent" =>
     inst[k] # "pending" /\ \E d \in Days : <<k, d>> \in log

(* Some run has read instance k and has not ended since.                    *)
InFlight(k) ==
  \E r \in Runs : (pc[r] \in Working /\ cur[r] = k) \/ upd[r][k] # "none"

(* An instance acknowledged while no run is at work on it is silent from   *)
(* then on: it stays acknowledged, no run takes it up again and no message *)
(* is sent for it ("next reminder only at next cycle").                    *)
AcknowledgedIsSilent ==
  [][\A k \in Keys : inst[k] \in Terminal /\ ~InFlight(k) =>
       /\ inst'[k] \in Terminal /\ ~InFlight(k)'
       /\ today' = today => sent'[k] = sent[k]]_vars

(* Only one thing undoes an acknowledgement: the first escalation of an    *)
(* overdue mandatory instance. An optional one stays acknowledged, however *)
(* the request and the run interleave.                                     *)
OnlyEscalationReopens ==
  [][\A k \in Keys : inst[k] \in Terminal /\ inst'[k] \notin Terminal =>
       inst'[k] = "escalated" /\ k[1] \in Mandatory /\ today > k[2]]_vars

(* A run that commits, and that no conflict made roll back, has dealt with *)
(* every instance in its window: acknowledged, or recorded as notified.    *)
CommitCoversWindow ==
  [][\A r \in Runs : Commit(r) /\ ~expired[r] =>
       \A k \in DueComputations \cap Keys : k[1] \notin AnchorDriven /\ InWindow(k) =>
          inst'[k] \in Terminal \/ <<k, today>> \in log']_vars

(* docs/freelancer-obligations-calendar.md:442: "if today == due_date - X  *)
(* -> send notification". The first day on which that can be is the lead   *)
(* day of a due date, or the day on which the date before it leaves the    *)
(* look-back, whichever is later: of the weekly rules in obligations.json, *)
(* it is a week after the due date. On that day every due date of every    *)
(* rule is announced, by each run that commits and was not rolled back.    *)
NoticeDay(o, d) ==
  LET freed == {e + LookBack : e \in {x \in Recurrence[o] : x < d}}
      days  == {d - Lead[o]} \cup freed
  IN today \in days /\ \A t \in days : t <= today
DueDateAnnounced ==
  [][\A r \in Runs : Commit(r) /\ ~expired[r] =>
       \A o \in Obligations \ AnchorDriven :
         \A d \in Recurrence[o] \cap (0..Horizon) : NoticeDay(o, d) =>
            inst'[<<o, d>>] \in Terminal \/ <<<<o, d>>, today>> \in log']_vars

(* Every run ends: overlapping runs wait for each other's inserts, and a   *)
(* cycle of them is broken.                                                *)
RunsEnd == \A r \in Runs : pc[r] # "idle" ~> pc[r] = "idle"

(* README.md:134, "escalates overdue mandatory items": the look-back is    *)
(* long enough for the days on which no run completes.                     *)
OverdueEscalates ==
  \A k \in Keys : k[1] \in Mandatory =>
    (inst[k] = "notified" /\ today > k[2] ~> inst[k] \in {"escalated"} \cup Terminal)

(* README.md:132-134: "sends a Telegram notification once per (instance,   *)
(* lead-time-label) pair (de-duped via notification_log)".                 *)
OneMessagePerLabel == \A k \in Keys : sent[k] <= 1

-----------------------------------------------------------------------------
(* The inductive invariant behind the safety properties.                    *)

(* What the open transactions hold of notification_log: at most one run    *)
(* holds a label, nobody holds a committed one, and a label is held over a *)
(* message already sent unless the run is just about to send it.           *)
LabelInv ==
  /\ \A r \in Runs : pc[r] = "idle" => upd[r] = NoWrites /\ newLog[r] = {}
  /\ \A k \in Keys, d \in Days : <<k, d>> \in log => d <= today
  /\ \A r \in Runs : \A k \in newLog[r] : <<k, today>> \notin log
  /\ \A r, q \in Runs : \A k \in newLog[r] : k \in newLog[q] => r = q
  /\ \A r \in Runs : pc[r] \in {"send", "update"} => cur[r] \in newLog[r]
  /\ \A r \in Runs : \A k \in newLog[r] :
       sent[k] >= 1 \/ (pc[r] = "send" /\ cur[r] = k)

(* What they hold of obligation_instances: at most one run writes a row;   *)
(* an insert is followed by its update within the item; every other write  *)
(* goes with the run's log row; a write that changes the status of a       *)
(* stored instance is a first escalation.                                  *)
WriteInv ==
  /\ \A r, q \in Runs, k \in Keys : upd[r][k] # "none" /\ upd[q][k] # "none" => r = q
  /\ \A r \in Runs, k \in Keys : upd[r][k] = "pending" =>
       pc[r] \in {"record", "send", "update"} /\ cur[r] = k
  /\ \A r \in Runs, k \in Keys : upd[r][k] \notin {"none", "pending"} => k \in newLog[r]
  /\ \A r \in Runs, k \in Keys : upd[r][k] \notin Terminal
  /\ \A r \in Runs, k \in Keys : upd[r][k] = "notified" => inst[k] = "absent"
  /\ \A r \in Runs, k \in Keys :
       upd[r][k] = "escalated" => k[1] \in Mandatory /\ today > k[2]

(* What a run knows of the instance it works on, however stale.             *)
LoadedInv ==
  \A r \in Runs : pc[r] \in {"record", "send", "update"} =>
    \/ loaded[r] = "pending" /\ inst[cur[r]] = "absent" /\ upd[r][cur[r]] = "pending"
    \/ loaded[r] = "notified"
    \/ loaded[r] = "escalated" /\ cur[r][1] \in Mandatory /\ today > cur[r][2]

InstanceInv ==
  /\ \A k \in Keys : inst[k] = "escalated" => k[1] \in Mandatory /\ today > k[2]
  /\ \A q \in Requests : req[q] # NoRequest => inst[req[q].key] # "absent"

(* What a run that has not been rolled back has dealt with so far.          *)
CoverInv ==
  \A r \in Runs : pc[r] # "idle" /\ ~expired[r] =>
    \A k \in DueComputations \cap Keys : k[1] \notin AnchorDriven /\ InWindow(k) =>
       \/ k \in todo[r] \cup newLog[r]
       \/ inst[k] \in Terminal
       \/ <<k, today>> \in log

(* An instance that appears under a run's insert is there with the label.   *)
ConflictInv ==
  /\ \A r \in Runs : pc[r] = "create" =>
       /\ ~expired[r]
       /\ inst[cur[r]] \in Terminal \cup {"absent"} \/ <<cur[r], today>> \in log
  /\ \A r \in Runs : expired[r] /\ pc[r] = "record" => <<cur[r], today>> \in log

IInv ==
  /\ RecordedWasSent /\ StoredInstanceWasAnnounced
  /\ RolledBackIsSilent /\ ConflictInv
  /\ LabelInv /\ WriteInv /\ LoadedInv /\ InstanceInv /\ CoverInv
=============================================================================
