------------------------------ MODULE Dunning ------------------------------
(* Mahnwesen: the scheduler's dunning_job and the API's /dunning/prepare,  *)
(* which draft reminder letters for overdue invoices, and /dunning/send,   *)
(* which the operator's /send_mahnung calls to send one. Each is one       *)
(* transaction at READ COMMITTED; the Lexware sync changes the status of   *)
(* invoices between any two steps.                                         *)
(*                                                                         *)
(* Abstracted: texts, amounts and interest. A row of dunning_runs is its   *)
(* unique key <<invoice, stage>>. The due date of a finalised invoice does *)
(* not change, and no job or prepare request runs past midnight. A letter  *)
(* is the Conversation and Message rows of the stubbed e-mail transport.   *)
EXTENDS Integers, FiniteSets

CONSTANTS
  Invoices,
  Due,          \* [Invoices -> due day]
  Threshold,    \* STAGE_THRESHOLDS: [Stages -> days past due] (14, 30, 45)
  Cutoff,       \* the days past due from which compute_drafts looks (14)
  Job,          \* the scheduler's dunning_job
  Requests,     \* concurrent /dunning/prepare requests
  Senders,      \* concurrent /send_mahnung commands
  NoRun,        \* no row of dunning_runs
  LastDay,      \* bound: the last day modelled
  MaxPrepares,  \* bound: /dunning/prepare requests
  MaxMissed,    \* bound: days on which the scheduler is down
  MaxCrashes    \* bound: jobs and requests that die

Stages     == 1..3
DunningRun == Invoices \X Stages   \* uq_dunning_invoice_stufe
Preparers  == {Job} \cup Requests
Days       == 0..LastDay

ASSUME DunningAssumption ==
  /\ Due \in [Invoices -> Int]
  /\ Threshold \in [Stages -> Nat] /\ Cutoff \in Nat
  /\ \A s, t \in Stages : s < t => Threshold[s] < Threshold[t]
  /\ NoRun \notin DunningRun
  /\ LastDay \in Nat /\ MaxPrepares \in Nat /\ MaxMissed \in Nat /\ MaxCrashes \in Nat

VARIABLES
  \* the database, as committed
  status,      \* invoices.status, "absent" before the first sync
  level,       \* invoices.mahnstufe
  drafted,     \* dunning_runs
  sent,        \* the rows of dunning_runs with sent_at
  messages,    \* the letters stored for each row
  \* the clock and the counters behind the bounds
  today, fired, missed, prepares, crashes,
  \* each preparer: its position, its list, its open transaction
  pc, todo, cur, pending,
  \* each command of the operator
  req,
  \* the drafts announced in Telegram
  announced

db    == <<status, level, drafted, sent, messages>>
clock == <<today, fired, missed, prepares, crashes>>
local == <<pc, todo, cur, pending>>
vars  == <<db, clock, local, req, announced>>

InvoiceStatus == {"absent", "open", "overdue", "paid"}
Collectable   == {"open", "overdue"}
NoRequest     == [at |-> "none"]

-----------------------------------------------------------------------------
(* compute_drafts.                                                          *)

DaysOverdue(i) == today - Due[i]

Reached(i) == {s \in Stages : DaysOverdue(i) >= Threshold[s]}

MutEveryStage(i) == {s \in Reached(i) : s > level[i]}

(* next_mahnstufe: the highest stage reached, if it is above the current.   *)
NextStage(i) ==
  {s \in Reached(i) : s > level[i] /\ \A t \in Reached(i) : t > level[i] => t <= s}

MutDraftsOfOpen ==
  {r \in DunningRun : /\ status[r[1]] = "open"
                      /\ DaysOverdue(r[1]) >= Cutoff /\ r[2] \in NextStage(r[1])}

Drafts ==
  {r \in DunningRun : /\ status[r[1]] \in Collectable
                      /\ DaysOverdue(r[1]) >= Cutoff /\ r[2] \in NextStage(r[1])}

-----------------------------------------------------------------------------
(* dunning_job and prepare.                                                 *)

(* An insert waits for a transaction that inserted the same key.            *)
WaitsFor(p, q) == q # p /\ pc[p] = "insert" /\ cur[p] \in pending[q]

(* The transaction rolls back and the process or the request ends.          *)
Abort(p) ==
  /\ pc' = [pc EXCEPT ![p] = "idle"]
  /\ todo' = [todo EXCEPT ![p] = {}]
  /\ cur' = [cur EXCEPT ![p] = NoRun]
  /\ pending' = [pending EXCEPT ![p] = {}]

StartJob ==
  /\ pc[Job] = "idle" /\ ~fired
  /\ fired' = TRUE
  /\ pc' = [pc EXCEPT ![Job] = "scan"]
  /\ todo' = [todo EXCEPT ![Job] = Drafts]
  /\ UNCHANGED <<db, today, missed, prepares, crashes, cur, pending, req, announced>>

StartPrepare(p) ==
  /\ p # Job /\ pc[p] = "idle" /\ prepares < MaxPrepares
  /\ prepares' = prepares + 1
  /\ pc' = [pc EXCEPT ![p] = "scan"]
  /\ todo' = [todo EXCEPT ![p] = Drafts]
  /\ UNCHANGED <<db, today, fired, missed, crashes, cur, pending, req, announced>>

SelectExisting(p, r) ==
  /\ pc[p] = "scan" /\ r \in todo[p] /\ r \in drafted
  /\ todo' = [todo EXCEPT ![p] = @ \ {r}]
  /\ UNCHANGED <<db, clock, pc, cur, pending, req, announced>>

MutSelectPops(p, r) ==
  /\ pc[p] = "scan" /\ r \in todo[p] /\ r \notin drafted
  /\ cur' = [cur EXCEPT ![p] = r]
  /\ todo' = [todo EXCEPT ![p] = @ \ {r}]
  /\ pc' = [pc EXCEPT ![p] = "insert"]
  /\ UNCHANGED <<db, clock, pending, req, announced>>

SelectNew(p, r) ==
  /\ pc[p] = "scan" /\ r \in todo[p] /\ r \notin drafted
  /\ cur' = [cur EXCEPT ![p] = r]
  /\ pc' = [pc EXCEPT ![p] = "insert"]
  /\ UNCHANGED <<db, clock, todo, pending, req, announced>>

Insert(p) ==
  /\ pc[p] = "insert" /\ cur[p] \notin drafted /\ ~\E q \in Preparers : WaitsFor(p, q)
  /\ pending' = [pending EXCEPT ![p] = @ \cup {cur[p]}]
  /\ todo' = [todo EXCEPT ![p] = @ \ {cur[p]}]
  /\ cur' = [cur EXCEPT ![p] = NoRun]
  /\ pc' = [pc EXCEPT ![p] = "scan"]
  /\ UNCHANGED <<db, clock, req, announced>>

(* Nobody catches the IntegrityError: the whole batch is rolled back.       *)
InsertConflict(p) ==
  /\ pc[p] = "insert" /\ cur[p] \in drafted
  /\ Abort(p)
  /\ UNCHANGED <<db, clock, req, announced>>

(* Postgres fails one transaction of a cycle of waiting ones.               *)
DeadlockVictim(p) ==
  /\ \E S \in SUBSET Preparers : p \in S /\ \A x \in S : \E y \in S : WaitsFor(x, y)
  /\ Abort(p)
  /\ UNCHANGED <<db, clock, req, announced>>

MutAnnounceAll(p) ==
  /\ pc[p] = "scan" /\ todo[p] = {}
  /\ drafted' = drafted \cup pending[p]
  /\ pending' = [pending EXCEPT ![p] = {}]
  /\ todo' = [todo EXCEPT ![p] = IF p = Job THEN Drafts ELSE {}]
  /\ pc' = [pc EXCEPT ![p] = IF p = Job THEN "announce" ELSE "idle"]
  /\ UNCHANGED <<status, level, sent, messages, clock, cur, req, announced>>

(* The job goes on to tell Telegram; a request answers and is over.         *)
CommitPrepare(p) ==
  /\ pc[p] = "scan" /\ todo[p] = {}
  /\ drafted' = drafted \cup pending[p]
  /\ pending' = [pending EXCEPT ![p] = {}]
  /\ todo' = [todo EXCEPT ![p] = IF p = Job THEN pending[p] ELSE {}]
  /\ pc' = [pc EXCEPT ![p] = IF p = Job THEN "announce" ELSE "idle"]
  /\ UNCHANGED <<status, level, sent, messages, clock, cur, req, announced>>

Announce(p, r) ==
  /\ pc[p] = "announce" /\ r \in todo[p]
  /\ announced' = [announced EXCEPT ![r] = @ + 1]
  /\ todo' = [todo EXCEPT ![p] = @ \ {r}]
  /\ UNCHANGED <<db, clock, pc, cur, pending, req>>

EndJob(p) ==
  /\ pc[p] = "announce" /\ todo[p] = {}
  /\ pc' = [pc EXCEPT ![p] = "idle"]
  /\ UNCHANGED <<db, clock, todo, cur, pending, req, announced>>

Crash(p) ==
  /\ pc[p] # "idle" /\ crashes < MaxCrashes
  /\ crashes' = crashes + 1
  /\ Abort(p)
  /\ UNCHANGED <<db, today, fired, missed, prepares, req, announced>>

-----------------------------------------------------------------------------
(* /send_mahnung and send.                                                  *)

(* The command lists the runs and takes the unsent one of highest stage    *)
(* among the invoices whose id starts with the prefix given.               *)
PickDraft(q, S, r) ==
  /\ req[q] = NoRequest
  /\ r \in drafted \ sent /\ r[1] \in S
  /\ \A t \in drafted \ sent : t[1] \in S => t[2] <= r[2]
  /\ req' = [req EXCEPT ![q] = [at |-> "posted", run |-> r, level |-> 0]]
  /\ UNCHANGED <<db, clock, local, announced>>

(* The API loads the run; one that is already sent is only returned ...     *)
LoadSentRun(q) ==
  /\ req[q].at = "posted" /\ req[q].run \in sent
  /\ req' = [req EXCEPT ![q] = NoRequest]
  /\ UNCHANGED <<db, clock, local, announced>>

LoadRun(q) ==
  /\ req[q].at = "posted" /\ req[q].run \notin sent
  /\ req' = [req EXCEPT ![q].at = "run"]
  /\ UNCHANGED <<db, clock, local, announced>>

(* ... then the invoice, with the stage it shows.                           *)
LoadInvoice(q) ==
  /\ req[q].at = "run"
  /\ req' = [req EXCEPT ![q].at = "both", ![q].level = level[req[q].run[1]]]
  /\ UNCHANGED <<db, clock, local, announced>>

MutSendForgetsRun(q) ==
  /\ req[q].at = "both"
  /\ LET r == req[q].run
     IN /\ messages' = [messages EXCEPT ![r] = @ + 1]
        /\ level' = IF r[2] > req[q].level THEN [level EXCEPT ![r[1]] = r[2]] ELSE level
  /\ messages[req[q].run] < 2
  /\ req' = [req EXCEPT ![q] = NoRequest]
  /\ UNCHANGED <<status, drafted, sent, clock, local, announced>>

MutLevelPlusOne(q) ==
  /\ req[q].at = "both"
  /\ LET r == req[q].run
     IN /\ messages' = [messages EXCEPT ![r] = @ + 1]
        /\ sent' = sent \cup {r}
        /\ level' = IF req[q].level < 3 THEN [level EXCEPT ![r[1]] = req[q].level + 1]
                                        ELSE level
  /\ req' = [req EXCEPT ![q] = NoRequest]
  /\ UNCHANGED <<status, drafted, clock, local, announced>>

(* The letter, the mark and the stage commit together. mahnstufe becomes   *)
(* max(loaded, stage): a column that is written only when that changes it. *)
CommitSend(q) ==
  /\ req[q].at = "both"
  /\ LET r == req[q].run
     IN /\ messages' = [messages EXCEPT ![r] = @ + 1]
        /\ sent' = sent \cup {r}
        /\ level' = IF r[2] > req[q].level THEN [level EXCEPT ![r[1]] = r[2]] ELSE level
  /\ req' = [req EXCEPT ![q] = NoRequest]
  /\ UNCHANGED <<status, drafted, clock, local, announced>>

DropSend(q) ==
  /\ req[q].at \in {"posted", "run", "both"}
  /\ req' = [req EXCEPT ![q] = NoRequest]
  /\ UNCHANGED <<db, clock, local, announced>>

-----------------------------------------------------------------------------
(* The Lexware sync mirrors what the accounting shows.                      *)
Sync(i, s) ==
  /\ s # status[i]
  /\ status' = [status EXCEPT ![i] = s]
  /\ UNCHANGED <<level, drafted, sent, messages, clock, local, req, announced>>

NextDay ==
  /\ today < LastDay
  /\ \A p \in Preparers : pc[p] = "idle"
  /\ fired \/ missed < MaxMissed
  /\ today' = today + 1
  /\ fired' = FALSE
  /\ missed' = IF fired THEN missed ELSE missed + 1
  /\ UNCHANGED <<db, prepares, crashes, local, req, announced>>

Init ==
  /\ status = [i \in Invoices |-> "absent"]
  /\ level = [i \in Invoices |-> 0]
  /\ drafted = {} /\ sent = {}
  /\ messages = [r \in DunningRun |-> 0]
  /\ today = 0 /\ fired = FALSE /\ missed = 0 /\ prepares = 0 /\ crashes = 0
  /\ pc = [p \in Preparers |-> "idle"]
  /\ todo = [p \in Preparers |-> {}]
  /\ cur = [p \in Preparers |-> NoRun]
  /\ pending = [p \in Preparers |-> {}]
  /\ req = [q \in Senders |-> NoRequest]
  /\ announced = [r \in DunningRun |-> 0]

PrepareStep(p) ==
  \/ \E r \in todo[p] : SelectExisting(p, r) \/ SelectNew(p, r) \/ Announce(p, r)
  \/ Insert(p) \/ InsertConflict(p) \/ DeadlockVictim(p)
  \/ CommitPrepare(p) \/ EndJob(p)

SendStep(q) == LoadSentRun(q) \/ LoadRun(q) \/ LoadInvoice(q) \/ CommitSend(q) \/ DropSend(q)

Next ==
  \/ StartJob
  \/ \E p \in Preparers : StartPrepare(p) \/ PrepareStep(p) \/ Crash(p)
  \/ \E q \in Senders :
       (\E S \in SUBSET Invoices, r \in drafted : PickDraft(q, S, r)) \/ SendStep(q)
  \/ \E i \in Invoices, s \in InvoiceStatus \ {"absent"} : Sync(i, s)
  \/ NextDay

Spec == Init /\ [][Next]_vars

(* The job fires once a day, what has started goes on, and time passes.     *)
Fairness ==
  /\ WF_vars(StartJob)
  /\ \A p \in Preparers : WF_vars(PrepareStep(p))
  /\ \A q \in Senders : WF_vars(SendStep(q))
  /\ WF_vars(NextDay)

FairSpec == Spec /\ Fairness

-----------------------------------------------------------------------------
(* Properties.                                                              *)

(* Type correctness, and that what is inserted is on the list.              *)
TypeOK ==
  /\ status \in [Invoices -> InvoiceStatus]
  /\ level \in [Invoices -> {0} \cup Stages]
  /\ drafted \subseteq DunningRun /\ sent \subseteq DunningRun
  /\ messages \in [DunningRun -> Nat]
  /\ today \in Days /\ fired \in BOOLEAN
  /\ missed \in 0..MaxMissed /\ prepares \in 0..MaxPrepares /\ crashes \in 0..MaxCrashes
  /\ pc \in [Preparers -> {"idle", "scan", "insert", "announce"}]
  /\ todo \in [Preparers -> SUBSET DunningRun]
  /\ cur \in [Preparers -> DunningRun \cup {NoRun}]
  /\ \A p \in Preparers : pc[p] = "insert" => cur[p] \in todo[p]
  /\ pending \in [Preparers -> SUBSET DunningRun]
  /\ req \in [Senders -> {NoRequest} \cup
       [at : {"posted", "run", "both"}, run : DunningRun, level : {0} \cup Stages]]
  /\ announced \in [DunningRun -> Nat]

(* The stage an invoice shows is that of a letter that was written, and a  *)
(* run is marked sent exactly when a letter was, whichever commands        *)
(* overlapped (PHASE2.md:123-125).                                         *)
LevelWasSent ==
  /\ \A i \in Invoices : level[i] # 0 => <<i, level[i]>> \in sent
  /\ \A r \in DunningRun : r \in sent <=> messages[r] >= 1

(* A draft is announced in Telegram at most once, and only when its row is *)
(* there to be approved: the job and the requests do not duplicate each    *)
(* other's entries (router.py:41).                                         *)
AnnouncedOnce ==
  \A r \in DunningRun : announced[r] <= 1 /\ (announced[r] = 1 => r \in drafted)

(* Letters of an invoice are drafted in ascending stages: a late batch     *)
(* never adds a lower stage to what another has drafted or sent meanwhile. *)
DraftsAscend ==
  [][\A r \in drafted' \ drafted : \A t \in drafted' : t[1] = r[1] /\ t # r => t[2] < r[2]]_vars

(* PHASE2.md:116: an invoice that is and stays collectable when it reaches *)
(* a stage gets a draft of that stage or of a later one, however a job     *)
(* dies, is missed, or loses its batch to a request that drafts the same   *)
(* letter. Each loss that is still allowed may cost a day: a state from    *)
(* which the modelled days would not suffice to make up for them is left   *)
(* out.                                                                    *)
LossesLeft == (MaxCrashes - crashes) + (MaxMissed - missed) + (MaxPrepares - prepares)
OverdueDrafted ==
  \A i \in Invoices, s \in Stages :
    (/\ status[i] \in Collectable /\ DaysOverdue(i) >= Threshold[s]
     /\ today + LossesLeft < LastDay)
      ~> status[i] \notin Collectable \/ \E t \in Stages : t >= s /\ <<i, t>> \in drafted

-----------------------------------------------------------------------------
(* What the rows amount to, seen as the ledger of DunningLedger.            *)
letter == [r \in DunningRun |-> IF r \in sent THEN "sent"
                                ELSE IF r \in drafted THEN "draft" ELSE "none"]

Ledger == INSTANCE DunningLedger
  WITH Invoices <- Invoices, Stages <- Stages, letter <- letter, level <- level

(* The jobs, requests and commands implement the ledger.                    *)
LedgerSpec == Ledger!LedgerSpec

-----------------------------------------------------------------------------
(* The inductive invariant behind the safety properties.                    *)

(* What lists and open transactions hold are drafts of today.               *)
DraftInv ==
  /\ \A r \in drafted : r[2] \in Reached(r[1])
  /\ \A p \in Preparers : pc[p] \in {"scan", "insert"} =>
       \A r \in todo[p] \cup pending[p] :
         r[2] \in Reached(r[1]) /\ \A s \in Reached(r[1]) : s <= r[2]
  /\ \A p \in Preparers : pc[p] \notin {"scan", "insert"} => pending[p] = {}

(* A key is held by one transaction, and by none once it is committed; what *)
(* is still to be announced is a row nobody announced.                      *)
KeyInv ==
  /\ \A p \in Preparers : pending[p] \cap drafted = {}
  /\ \A p, q \in Preparers : p # q => pending[p] \cap pending[q] = {}
  /\ \A p \in Preparers : pc[p] = "announce" => p = Job /\ todo[p] \subseteq drafted
  /\ \A p \in Preparers : pc[p] = "announce" => \A r \in todo[p] : announced[r] = 0
  /\ \A r \in DunningRun : announced[r] # 0 => r \in drafted

SendInv ==
  /\ sent \subseteq drafted
  /\ \A q \in Senders : req[q] # NoRequest => req[q].run \in drafted

IInv == LevelWasSent /\ AnnouncedOnce /\ DraftInv /\ KeyInv /\ SendInv
=============================================================================
