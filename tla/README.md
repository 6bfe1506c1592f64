# Formal model of mdk_bot

TLA+ specifications of `mdk_bot`, TLC configurations that check them on small
instances, and TLAPS proofs that carry the main results to every instance. Most
of what can go wrong here lies in the order in which several processes touch one
Postgres database, one disk and one remote ledger; the rest is date arithmetic.
Paths are relative to `src/mdk_bot/` of the repository unless they start with
`docs/`, `migrations/`, `README.md` or `PHASE2.md`.

Contents: [the system](#the-system), [modules](#modules), [runs](#runs),
[fairness](#fairness), [where the code differs from what is said of
it](#where-the-code-differs-from-what-is-said-of-it), [proofs](#proofs),
[only model-checked](#only-model-checked), [not modelled](#not-modelled).

## The system

Four processes share one Postgres database (READ COMMITTED): the **API**
(FastAPI, two uvicorn workers), the **Telegram bot** (a polling client of the
API, 30 s HTTP timeout), the **scheduler** (APScheduler, cron jobs) and the
**web UI**, served by the API. All are restarted when they die.

| Component | State | Operations | Meets | What is hard | What makes it correct | Module |
|---|---|---|---|---|---|---|
| Reminder engine `capabilities/reminders/engine.py` | `obligation_instances`, `notification_log`, anchor-missing rows of `audit_log` | `run_daily_check` (cron, or by hand) | notifier, operator requests, other runs | sends inside an open transaction; a rollback inside a run; runs that overlap | a recorded message is final; acknowledged means silent; nothing in the window is missed; overdue is escalated | `Reminders` |
| Operator requests `api/routers/obligations.py`, `anchors.py` | the same rows, `anchor_dates`, `pause_state` | done, skip, pause, resume, set anchor | a run in flight | read then write without versions | an acknowledgement is not lost, but for one documented race | `Reminders` |
| Recurrence `capabilities/reminders/rrule.py` | none | next occurrences, holiday shift, anniversaries | engine | quarters, holidays, 29 February | the next due date, on a business day | `Calendar` |
| Catalog loader `capabilities/reminders/loader.py` | `obligations` | reload at each start and by cron | file, engine | upsert without delete, duplicate ids | table = file, where the file speaks | `Scheduler` |
| Scheduler `scheduler/app.py`, `jobs.py` | job store | seven cron jobs | all jobs | restarts, coalescing, grace, the pause row | each firing begun at most once; lost only when down | `Scheduler` |
| Dunning `capabilities/dunning/` | `dunning_runs`, `invoices.mahnstufe`, letters | `dunning_job`, prepare, send, `/send_mahnung` | Lexware sync, Telegram | batches that collide; `sent_at` checked without a lock; announcement after commit | stages ascend, announced once, stage shown = letter sent | `Dunning` over `DunningLedger` |
| Lexware sync `capabilities/lexware/` | organizations, invoices, receipts, transactions | cron sync, manual sync | paged lists that move, dunning, liquidity | overlapping syncs, failure half way | a mirror that only moves forward and converges | `LexwareSync` over `Mirror` |
| UStVA `capabilities/ustva/` | `ustva_periods` | prepare, approve, preview job | invoices, receipts | overlapping writes of one row | an approval is stamped; who may undo it or replace the figures under it | `Ustva` |
| Liquidity, expenses, time tracking | snapshots, recurring expenses, time entries | snapshot, burn, hours | invoices | dates at the edges of months and of the horizon | projection = sum of known flows | `Liquidity`, `Calendar` |
| Master data, tasks, web forms `api/routers/`, `web/views.py` | six tables, `audit_log` | create, update, complete, toggle, mark billed, delete | each other | deletes against creates; the session's own unlinking | no dangling reference; the audit log accounts for the tables | `Records` |
| DATEV, VIES | files, `vat_validations` | yearly export, `/vat` | disk, VIES service | files written before the row commits; three processes | a row refers to the file it tells of | `Documents` |

`PROJECT.json` lists every component with its status and, under `hazards`, each
place of the code where one of these difficulties bites.

The components meet through the database, and each module carries what its
component sees of the others: `Dunning` lets the sync change an invoice's status
between any two steps, `Ustva` mirrors the books while figures are computed,
`Documents` books postings between two SELECTs, `Scheduler` keeps of every job
what matters for starting it again, and `Reminders` contains the operator's
requests together with the runs they race.

## Modules

| Module | Role |
|---|---|
| `Reminders` | daily-check runs, operator requests, pauses, anchors, the clock |
| `RemindersProofs` | types, log, status and acknowledgement theorems; the full inductive invariant and what a committed run has covered |
| `DunningLedger` | abstract: letters are drafted in ascending stages, then sent |
| `Dunning`, `DunningProofs` | the job, prepare and send as overlapping transactions; types, invariant, step properties, refinement |
| `Mirror` | abstract: what is shown of an item moves forward and is never ahead of the source |
| `LexwareSync`, `LexwareSyncProofs` | run_sync over paged lists, failing requests, overlapping syncs and their duplicates; refines `Mirror` when they do not overlap |
| `Ustva`, `UstvaProofs` | prepare, approve and the job on the row of a quarter |
| `Scheduler`, `SchedulerProofs` | the job store through deaths, restarts and held-up loops; the catalog |
| `Calendar` | dates, business days, recurrences, quarters, weeks, months as operators |
| `Liquidity` | the projection day by day, burn, hours, value of open hours |
| `LiquidityProofs` | theorems about `Calendar` and `Liquidity`: periods, due dates, the projection, sums |
| `Records`, `RecordsProofs` | the CRUD routes as overlapping transactions with foreign keys and audit |
| `Documents`, `DocumentsProofs` | files of VIES and DATEV beside the tables |
| `MC...` with `..._*.cfg` | instances for TLC |

Operators named `Mut...` stand before the definition they vary. Nothing uses
them; each is a plausible mistake in that piece of code, and substituting it
for the definition makes TLC report a stated property as violated.

### Reminders

State: `inst`, `log`, `audits`, `anchor` and `pausedUntil` are the committed
tables. Per run: `pc` is where it is in the loop, `todo` and `missing` what
`compute_due_dates` returned and is still to do, `cur` and `loaded` the
instance in hand and the status it was *read* with, `expired` whether a
rollback has expired the session's objects, and `upd`, `newLog`, `newAudit`
the uncommitted writes. `req` holds operator requests between read and commit.
`sent`, `delivered` and `nudged` are the history of the day's messages.

One action per step between which another process can act:
`Start`/`StartPaused` (pause check and `compute_due_dates`), `SkipNudge`/
`Nudge`/`NudgeAmbiguous` (Monday digest), `SkipEarly`/`LoadTerminal`/`Load`
(the window and the SELECT), `CreateInserted`/`CreateConflict`,
`RecordInserted`/`RecordConflict` (the two flushes and their
`IntegrityError`), `Send`, `Update`, `Commit`. After a conflict
`session.rollback()` empties the whole transaction; the next attribute read
of an expired object raises, so the run ends in `PickExpired` unless nothing
was left to do. Between the two no reminder is sent (`RolledBackIsSilent`): the
other run's instance and log row arrive together. Postgres contributes the waits
(`WaitsFor`) and deadlock detection (`DeadlockVictim`).

Abstractions. A label is a function of instance and day, so a log row is a pair
`<<instance, day>>`. `compute_due_dates` and the catalog read are one step: two
SELECTs of tables no modelled action writes, and `anchor_dates`, read once; an
anchor of 29 February and a rule that does not parse are left out
(`engine.py:105`, `122`). Recurrence rules are sets of due dates; `NextDue`
compares the cut-off with the date in the set, where the code compares it with
the raw date and shifts holidays afterwards (`Calendar` has both). Anniversaries
are a fixed number of days apart. A run ends on the day it starts. The catalog
is not reloaded. Texts and write-only audit rows are left out.

### Dunning

A row of `dunning_runs` is its unique key `<<invoice, stage>>`. `status` and
`level` are the invoice's `status` and `mahnstufe`, `messages` counts the
letters stored for a row, `announced` the Telegram messages for it. The job and
the prepare requests share their loop (`SelectExisting`, `SelectNew`, `Insert`,
`InsertConflict`, `CommitPrepare`); only the job goes on to `Announce`. A
command of the operator is `PickDraft` (the bot lists the runs), `LoadRun` or
`LoadSentRun`, `LoadInvoice`, `CommitSend`: three reads at three moments and
one write. Of the statuses of an invoice, draft and cancelled are one: neither
is collectable. `CommitSend` writes `mahnstufe` only when the stage exceeds the
value read, as SQLAlchemy writes only changed columns. `Sync` lets the
accounting change an invoice's status between any two steps.

`Ledger == INSTANCE DunningLedger` maps a row to "draft" or "sent". The ledger
deliberately does not promise one letter per row, nor that the stage shown is
the highest: the code guarantees neither.

### LexwareSync

`remote` is the source, `rows` the committed tables, `work[s]` what the open
transaction of sync `s` has written, `sync[s]` where it is: which list, which
page, which items of the page are still to do, and the row in hand with the
value it was *loaded* with. `FetchPage`, `Load`, `Write`, `Turn`, `Complete` are
`_paginate` and the loop of each pass; `FetchFails` is a `LexwareError`, which
`run_sync` catches and whose caller commits what there is (for transactions the
client swallows it), `Dies` a transport error or a death, which rolls back.
`RemoteMove` changes an item between any two steps, which shifts the pages of a
list under the sync that reads it. Amounts and dates change with the status and
are not kept apart; a row keeps the raw status and whether it is linked to its
customer. `steady` is history: the items that since the start of a sync kept
their status and their place, that is, none before them left a list they are on
(`MovedUp`), and so is `alone`: the running syncs beside which no other one has
run. `shown` maps the rows to `Mirror`. A write takes its row lock at once; the
new name of a known contact the code flushes a little later, with the next
insert or voucher (`sync.py:115`).

### Ustva

`period[q]` is the committed row of a quarter. A prepare, an approval and the
job are the same transaction skeleton: load, compute, flush (which takes the
row's lock or the unique key), commit. `was` is the status loaded and `had` the
payload; `Stored` is what SQLAlchemy leaves of the row when only attributes that
differ from the loaded ones are written. A process that dies ends its actor
("dead"). What the job sends after its commit is not kept. `SyncBooks` mirrors
an invoice and its payment under a computation; `total_net` is what `sync.py`
stores, the open amount.

### Scheduler

Time is counted in slots; job `j` fires in the slots `t` with `t % Period[j] =
Offset[j]`. `next_run` is the job store, `run` what each job is doing, `up` the
process. `Submit` is APScheduler's `_process_jobs`: coalescing under the last
firing the job is behind, the grace time, and `max_instances`. `Launch` is
`build_scheduler`, which re-adds every job with `replace_existing`, so that a
due time stored before a death gives way to the trigger's next. `Submit` judges
the grace time, which APScheduler does a moment later, when the job's coroutine
begins. `started`,
`down` and `busy` account for firings. The catalog is part of this module
because its reload is the first thing a start does and one of the jobs: `Parse`
reads the file whole, `Load` upserts; an id that is new and named twice fails
the flush, and an obligation the file no longer names stays.

### Calendar and Liquidity

Dates are day numbers; `date`, `year`, `month`, `dayOf`, `weekday` convert.
Each operator follows its function of `rrule.py`, `ustva/engine.py`,
`timetracking/engine.py` and `liquidity/engine.py`; `DueDatesRight` compares
due dates with a search over days, `PeriodsTile` periods with their neighbours.
`is_business_day` knows the holidays of every year, as the code's calendar does:
the library adds a year when it is asked about a day of it, so that the `years`
of `rrule.py:51` only load some of them ahead. `monthly_burn` is the exact sum,
rounded once; the code multiplies by a third and a twelfth of 28 digits, which
can differ by a cent where quarterly and yearly amounts together hit the middle
between two cents. `Liquidity`
walks `_project_until` one turn of its loop per step; money is in cents (the
balance in hundredths of a cent, which makes a percentage exact), hours in
hundredths, and `Quantize` rounds half to even as `Decimal` does. `WarnsInTime`
looks no further than the walk does: the loop ends at the horizon without a look
at the balance of that day.

### Records

A request is one transaction: `Begin` loads the row (or has a new id), `Gather`
is what the session loads when an organization is deleted (its persons and
projects, `relationship()` without `passive_deletes`), `Flush` finds the errors
the code can meet, `Commit` leaves row, referring rows and audit row. The
operations per table are those of the routers, forms and commands (`Offers`).
Columns are one value, "open" or "done", and the references. An update tells
the audit log what it was asked for (`Told`) and writes the column only when that
differs from the value it has loaded (`Sets`), as `setattr` on a mapped object
does; `raced` is history: the rows whose last update was written from a value
that another request had changed since. `link` is a PUT that sets a reference or
date: its audit payload is no JSON, and it fails.

### Documents

`files`, `csv` and `meta` are on disk, `validations` and `exports` in tables;
a file stays when the row that would tell of it is lost. The two workers of the
API (`docker-compose.prod.yml:32`) and the scheduler are processes of one event
loop each (`HasLoop`): between the two writes of an export nothing else of its
process runs, but the other processes do. `alone` remembers whether another
export of the year has overlapped.

## Runs

Every passing run explores its whole state space.

| Run | Instance | Shows |
|---|---|---|
| `reminders_core` | 2 obligations (one mandatory, one anchored), 2 overlapping runs a day, 4 days, due dates closer together than the look-back, 1 acknowledging request, a pause, failed sends, 1 crash | recorded was sent and is final; acknowledged is silent; only escalation reopens; committed runs covered their window; every due date is announced on its day of notice |
| `reminders_live` | 1 missed day, 1 crash, 2 runs a day, 6 days, look-back 4 | runs end; overdue mandatory items are escalated |
| `reminders_duplicate` | 1 run a time, 3 a day | **violation**: a label is sent twice |
| `dunning_core` | 1 invoice through all three stages, job, request, 2 senders, 1 missed day, 1 crash | stages ascend; announced once; stage shown was sent; implements `DunningLedger` |
| `dunning_live` | 2 invoices due a day apart, 2 stages, job against request, 1 missed day, 1 crash | each stage reached is drafted, or a later one |
| `lexware_serial` | a contact and two invoices of it; page size 1; 4 moves, 1 fault; any number of syncs one after the other | a completed sync is fresh; refines `Mirror`; converges |
| `lexware_waits` | a new contact and two mirrored invoices of it, page size 2, 3 syncs of 2 processes that may overlap, 2 moves | syncs end; a second row of an item comes only of a sync that overlapped another |
| `ustva_core` | 2 prepares, 1 approval, the job, 2 quarters, 2 invoices, 1 crash | approval stamped; only a prepare reopens; who may replace approved figures; a prepare or job that does not die leads to a period |
| `scheduler_core` | 4 jobs with different triggers and sends, 1 death, 2 held-up slots, 1 failure, 1 pause, 1 edit of the file to one of four contents | firings begin once; lost only when down; grace holds; catalog in sync |
| `liquidity_days` | every day from 2024 to March 2026 (leap year, 29 February, two Easters, three turns of the year) with the Bavarian holidays; 3 ledgers on 8 days | due dates, periods and the projection against reference definitions |
| `records_core` | a row of each of six tables and one still to create, 3 requests on 2 connections, 1 fault | no dangling references; audit accounts for the tables, values of raced rows excepted |
| `documents_core` | 3 of 4 requests in 3 processes, 1 VAT id, 3 postings at the turns of a year, 2 days of 2 seconds, 1 fault | files match rows |

**Bounds.** Look-back, lead times, stage thresholds and years are scaled down
together: 14/30/45 days become 1/2/3 (the liveness run has two stages, reached
one and two days after the earlier invoice is due), the look-back of 14 becomes
2, 3 or 4. What the properties depend on is the order of these numbers: in
`reminders_core` a rule has dates closer together than look-back plus lead time,
as the weekly rules of `obligations.json` have. Two transactions suffice for
every conflict between two, two obligations for a rollback that takes an
innocent row with it, and cycles of waits need two rows. With a page of one item
every change moves the pages of a list. Two quarters are one that has ended and
one that runs. Periods of 2 and 3 slots, offsets that differ and a grace of one
slot make firings coincide, be coalesced and be too late within five slots. 800
days hold every weekday of every date that matters in a leap and a common year.
`MaxRuns`, `MaxMissed`, `MaxCrashes`, `MaxPrepares`, `MaxSyncs`, `MaxMoves`,
`MaxFaults`, `MaxDeaths`, `MaxStalls`, `MaxFailures`, `MaxPauses`, `MaxEdits`,
`MaxRequests`, `LastDay`, `SecondsADay` and `Horizon` only cap counters or end
time. The proofs need none of these values.

`CHECK_DEADLOCK FALSE` stands wherever the modelled time or the allowance of
requests runs out and the system stops; in `lexware_serial`, where syncs go on
for ever, deadlock is checked.

In `ustva_core` the job runs on the last day of the quarter, inside its window,
so that its interplay with the requests is explored. With the real numbers it
never is (item 9 below).

`lexware_serial` starts a sync only when none is running. The code does not
enforce this (the cron job and `POST /lexware/sync` may overlap):
`CompletedIsFresh`, `MirrorSpec` and `Converges` are what holds as long as
nobody overlaps them. In `lexware_waits` they do (`Overlap = TRUE`): two syncs
can both miss an item and insert it, and every later sync then fails on it.
`SecondRowNeedsOverlap` says that nothing else makes duplicates.

## Fairness

Weak fairness of each process's own steps throughout: a coroutine of a live
process is resumed, and a wait ends when its holder ends or the deadlock
detector acts. Besides:

- `reminders_live`, `dunning_live`: the daily trigger while no run has been made
  that day, and midnight. In `OverdueEscalates` a missed day or a crash costs a
  day each; the look-back is longer than what the bounds allow to be lost, as 14
  days are in the code. In `OverdueDrafted` the final days, on which the model
  has no day left to make up for a loss, are excluded.
- `lexware_serial`, `lexware_waits`: `WF(Start)`, the cron trigger. `Converges`
  needs that Lexware's changes and the faults come to an end, which the bounds
  see to.
- `ustva_core`: midnight (weakly) and the job's trigger (strongly: it is enabled
  on its days only).

Nothing is assumed of the operator, of Lexware, of crashes or of faults.

## Where the code differs from what is said of it

One has a run with a counterexample:

1. `reminders_duplicate`: README.md:132-134 promises one notification per
   (instance, label). A run that meets a recorded label calls
   `session.rollback()` on the whole run (`engine.py:188`), which forgets labels
   it has sent already, and then fails on expired objects; the next run repeats
   them.

The others were met while modelling. The modules contain the behaviour, and the
properties are stated so as to say exactly what remains true:

2. ESCALATED is written over a `/done` committed while the message was being
   sent (`engine.py:267`): `OnlyEscalationReopens` permits that write only,
   `AcknowledgedIsSilent` leaves out instances in flight.
3. With `count=1` after `today - 14` a weekly rule always yields a past date
   (`engine.py:120`): the three weekly rules of `obligations.json` are announced
   not before their due date, as
   `docs/freelancer-obligations-calendar.md:442` says, but a week after it.
   `DueDateAnnounced` holds of the day on which the code does announce a date
   (`NoticeDay`): the lead day or, if later, the day on which the date before
   leaves the look-back.
4. Two runs at once send the Monday digest twice (`engine.py:234`), and after
   the second audit row every further run of the day raises
   (`NudgeAmbiguous`).
5. Two overlapping sends of one dunning run each store a letter
   (`capabilities/dunning/router.py:92`); a draft is also sent when the invoice
   has been paid since.
6. Overlapping Lexware syncs insert an item twice, `lexware_id` not being
   unique (`lexware/sync.py:137`). An item that leaves a list while the list is
   read makes those behind it move up, one of them perhaps to a page already
   read (`lexware/client.py:102`): that one is passed over until the next sync
   though nothing about it changed. The attempt to prove that a completed sync
   is fresh met this case, and `CompletedIsFresh` leaves out items that moved
   up. A voided voucher leaves every list and stays as it was mirrored.
7. `total_net` of an invoice is its open amount (`lexware/sync.py:148`), so that
   the output VAT of a paid invoice is its whole gross and that of an open one
   zero (`compute_payload`).
8. Preparing an approved period puts it back into review (`ustva/router.py:54`).
   An approval that overlaps a prepare ends approved with figures nobody has
   approved: the prepare writes its payload, and leaves a status it has loaded
   as `REVIEW` alone. The job replaces the figures of an approved period, too,
   and leaves it approved (`jobs.py:99`). `ApprovedFiguresKept` says that nobody
   else does.
9. The UStVA preview is never sent. PHASE2.md:78 says of the job "Jan/Apr/Jul/Oct,
   day 3, 09:00 — fires when within 7 days of quarter end", and `jobs.py:67` that
   it prepares a preview around the end of a quarter. On the 3rd of these months
   (`app.py:65`) a quarter has just begun; the job looks at that one
   (`jobs.py:75`), whose end is three months away, and returns.
10. After a restart a missed firing is forgotten whatever
    `misfire_grace_time` says (`scheduler/app.py:45`).
11. `/pause` silences the daily check only; the other jobs go on announcing, and
    a run that has read the row goes on too.
12. An anchor of 29 February raises `ValueError` in most years
    (`rrule.py:96`); the daily check then fails until it is changed.
13. An obligation taken out of `obligations.json` stays in the table
    (`loader.py:102`); a new id named twice fails the whole reload.
14. An overdue invoice is listed as open and never arrives in the projection
    (`liquidity/engine.py:84`); the burn is charged at the month's end, where
    the docstring says the first.
15. Of two updates of a row that overlap, one may tell the audit log a value it
    does not write, because it is the one it had loaded (`api/routers/tasks.py:65`
    and its siblings): a task is done and its log ends with "open".
    `AuditAccounts` says of such rows (`raced`) only that their value was told at
    some time.
16. A PUT that sets a reference or a date is answered with an error: its audit
    payload is not JSON (`api/routers/tasks.py:74` and its siblings).
17. A send that fails is swallowed (`bot/notifier.py:47`) and recorded as sent.
    The properties of `Reminders` are about attempts.
18. Drafts committed by a job that dies before it announces them are never
    announced (`jobs.py:171`); `AnnouncedOnce` promises at most one message.
19. Two exports of a year from two processes leave rows of one and counts of the
    other; a second VIES check in the same second overwrites the first's proof.
    `FilesMatchRows` compares id and moment, and exports that ran alone.

## Proofs

Every safety property of the passing runs is a theorem, for every number of
obligations, runs, invoices, requests, jobs, rows and files, and every value of
the bounds, from the named assumptions on the constants and nothing else. The
assumptions say what the constants are (finite sets of items where something is
summed or counted, positive periods, lengths and page sizes, bounds in `Nat`);
TLC evaluates them in every run. Two theorems have a hypothesis,
`ImplementsMirror` and `CompletedIsFreshThm` (`Overlap = FALSE`). Each invariant
below was checked by TLC on the run's instance before it was proved.

*Reminders.* `TypeCorrect` first; its last conjunct, that a run at work has its
item on its list, is what the later proofs need. `RecordedWasSent` is not
inductive: a label becomes committed long after it was sent, so `LabelInv`
says who holds an uncommitted label (one run), that nobody holds a committed
one, and that a held label has been sent unless its holder is just about to.
`WriteInv` does the same for uncommitted writes of instances, `LoadedInv` says
what a stale read may still be, `InstanceInv` that only overdue mandatory
instances are escalated, `ConflictInv` that an instance appearing under a run's
insert comes with its label. From these follow `RecordedIsFinalThm`,
`StoredInstanceWasAnnouncedThm`, `OnlyEscalationReopensThm` and
`AcknowledgedIsSilentThm`. `CoverInv` says what a run that was
not rolled back has dealt with so far; with it `CommitCoversWindowThm` follows,
and `DueDateAnnouncedThm` by `NoticeDayIsNext`: on its day of notice a date is
the one `next_occurrences` yields, however close the rule's dates are. From
`ConflictInv` comes `RolledBackIsSilentThm`.

*Dunning.* `IInv`: lists and open transactions hold only the highest stage
reached (`DraftInv`), which is why a batch computed before another committed
cannot insert a lower stage; a key is held by one transaction, by none once
committed, and is announced by the one job that committed it (`KeyInv`); what
a command works on is a row of the table (`SendInv`). From it
`DraftsAscendThm`, `AnnouncedOnceThm`, `LevelWasSentThm`, and
`LedgerSpecThm`: `CommitSend` maps to `Send`, a commit that adds rows to
`Prepare`, everything else stutters.

*Scheduler.* `Min` and `Max` of the community modules are `CHOOSE` terms, so
`NextFireIsNext` and `LastFireIsLast` come first, from well-foundedness of `<`.
`DueInv`: a job is due at one of its firings, and nothing has begun under a
firing the job is still due for; this gives `StartedOnceThm` and, with
`LastFireIsLast`, `GraceHoldsWhileUpThm`. `LostOnlyWhenDown` speaks of firings
before now only; `CoverInv` adds those before a due time, and that no due time
is passed while nothing was held up. `CatalogInSync` says nothing of a reload
that is still at work: `ReloadInv` says what it has read, and that an edit makes
every reload begun so far an old one.

*Records.* `RequestInv`: a request in progress works on a row that was created,
or has a new id to itself. `HeldInv`: what a flushed transaction holds until it
commits is still there and nobody else's, which is what the row and key-share
locks (`Waits`) are for. `ToggleInv`: a toggle always changes what it has
loaded. With them `NoDangling` and `AuditAccounts` are inductive.

*LexwareSync.* `SyncInv` (a sync works on items of the list it reads, and an
idle one has written nothing) goes with the types (`TypeCorrect`). `BehindInv`:
no row, uncommitted row or page entry shows a status Lexware has not reached
(`NeverAheadOfLexware`). `LoneInv`: while a sync is alone, what it has inserted
or is about to insert is of items without a committed row; so a commit that adds
a second row is of one that was not (`SecondRowNeedsOverlapThm`). These hold
however syncs overlap. The other two theorems are about syncs that do not, since
with two at once the properties fail (item 6 above). `AloneInv` says that one
runs at a time; `RowInv` then, that each item has at most one row in its view,
that what it writes is not older than what it replaces and that the row it
loaded is still as loaded. They give `ImplementsMirror`: a commit maps to the
mirror's refresh, a change in Lexware to a change of the source, everything else
stutters. `CompletedIsFreshThm` needs a statement about the middle of a sync:
by `FreshInv` each steady item is written as it is, or on the page in hand, or
still ahead, its place on its list (`Rank`) not yet reached by the pages read.
Behind it are two lemmas: no page up to an item's own comes back empty
(`NoEmptyPageBetween`), and contacts come first (`CustomersComeFirst`).

*Ustva.* `FlushedInv`: whoever has flushed the row of a quarter holds it alone,
and one that inserts it still finds none. With it `OnlyPrepareReopensThm` and
`ApprovedFiguresKeptThm` follow from what each flush is meant to write
(`Stored`). The figures are sums over the invoices of a quarter;
`SumIsNat` and `SumGrows` show by a smallest counterexample among the subsets of
a finite set that they are numbers, and that the net is within the gross.

*Calendar and Liquidity.* `DateOf` and `DateIs` show that the conversions
between day numbers and dates are inverse to each other, from which months,
quarters and weeks tile the days (`PeriodsTileThm`). `DueDatesRightThm` goes by
the loop of the holiday shift (`ShiftIsFirst`), the next date of a rule
(`NextDue`: it comes, is not early, and none lies between) and the anniversary,
with 29 February a case of its own (`LeapAnchorRight`). `SnapshotAddsUp` speaks
of finished walks only; `WalkInv` (`WalkCorrect`) says of every morning of the
walk that the balance is the opening one, plus what fell due, less the burn of
the months charged and the reserve for what those months received, that the
revenue kept aside is what came in since, and that no earlier morning was
negative. `SnapshotAddsUpThm` adds that the outflows listed are the month ends
charged (`OutflowsAre`: the n-th first of a month ahead) and that hours cut by
week, project and price add up (`TotalUnion`, `TotalByKey`, `TotalScale`). The
assumptions here are that no rule of the catalog names 29 February (an anchor
may), that business days are at most 29 days apart, so that the code's thirty
steps reach one, and a horizon of at most 700 days, the code's being 540.

*Documents.* `FilesInv`: a file is the proof its name tells of and no proof is
taken away; `SelectedInv`, `AloneInv` and `ExportsInv`: what an export has
selected lies between what stood when it began and what is booked, and while it
is alone nobody else writes its year.

## Only model-checked

Liveness, which the prover cannot treat (it has no rule for `ENABLED` and so
none for fairness): `RunsEnd`, `OverdueEscalates`, `OverdueDrafted`, `SyncsEnd`,
`Converges`, `PreparedInTheEnd`. And the counterexample of
`reminders_duplicate`.

## Not modelled

- Configuration, logging, the LLM stub, login and sessions of the web UI, pages
  and read-only commands, formatting and texts: no protocol to check.
- What a client was answered. A request's commit runs after its response
  (`api/deps.py:20`); a failed commit acts on the tables as a rolled-back
  request, and no module keeps the answer.
- The list of missing receipts of the UStVA, rules for ad-hoc events of the
  catalog (replaced whole), and columns that are only copied.
- Tables of later phases, which nothing writes, and the migrations themselves.
