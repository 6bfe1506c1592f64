----------------------------- MODULE Scheduler -----------------------------
(* The scheduler process (scheduler/app.py, jobs.py): its cron jobs in one  *)
(* APScheduler, the restarts of the process, and the catalog of obligations *)
(* that is loaded at each start and by one of the jobs                      *)
(* (reminders/loader.py). What another job does to the tables is in the     *)
(* module of its capability; here a run reads the pause row or not,         *)
(* commits, and sends before or after it commits.                           *)
(*                                                                          *)
(* Time is counted in slots; a trigger fires at the start of a slot.        *)
EXTENDS Integers, FiniteSets, FiniteSetsExt

CONSTANTS
  Jobs,
  Period, Offset,  \* job j fires in the slots t with t % Period[j] = Offset[j]
  Grace,           \* misfire_grace_time
  Pausable,        \* jobs that look at the pause row (the daily check)
  Announcing,      \* jobs that send after their commit
  Reload,          \* reload_obligations
  Ids, Texts,      \* the obligations, and what the file may say of one
  Files, First,    \* contents obligations.json may be given, and has at first
  Horizon,
  MaxDeaths, MaxStalls, MaxFailures, MaxPauses, MaxEdits

ASSUME JobsAssumption ==
  /\ Period \in [Jobs -> Nat \ {0}] /\ Offset \in [Jobs -> Nat] /\ Grace \in [Jobs -> Nat]
  /\ \A j \in Jobs : Offset[j] < Period[j]
  /\ Pausable \subseteq Jobs /\ Announcing \subseteq Jobs \ Pausable
  /\ Reload \in Jobs \ (Pausable \cup Announcing)
(* A file that is no JSON, or lacks a field, says nothing.                  *)
Contents == [valid : BOOLEAN, texts : [Ids -> Texts \cup {"absent"}], twice : SUBSET Ids]
ASSUME FilesAssumption == First \in Files /\ Files \subseteq Contents
ASSUME BoundsAssumption ==
  {Horizon, MaxDeaths, MaxStalls, MaxFailures, MaxPauses, MaxEdits} \subseteq Nat

VARIABLES
  now, up,
  next_run,     \* the job store: when each job is due
  run,          \* what each job is doing
  paused,       \* PauseState holds a time that has not come
  file, table,  \* obligations.json, and the obligations table
  read,         \* the file as the reload at work has parsed it
  edited,       \* the slot of the last edit
  started,      \* firings that began
  down, busy,   \* slots the process was not there, or the job still ran
  deaths, stalls, failures, pauses, edits

catalog == <<file, table, read, edited>>
vars == <<now, up, next_run, run, paused, catalog, started, down, busy,
          deaths, stalls, failures, pauses, edits>>
budgets == <<deaths, stalls, failures, pauses, edits>>
history == <<started, down, busy>>

-----------------------------------------------------------------------------
Slots == 0..Horizon
Never == Horizon + 1
Fires(j) == {t \in Slots : t % Period[j] = Offset[j]}

MutInterval(j, t) == IF t < Horizon THEN t + Period[j] ELSE Never
MutSkipsOne(j, t) ==
  IF \E u \in Fires(j) : u > t + 1 THEN Min({u \in Fires(j) : u > t + 1}) ELSE Never

(* CronTrigger.get_next_fire_time after slot t.                             *)
NextFire(j, t) ==
  IF \E u \in Fires(j) : u > t THEN Min({u \in Fires(j) : u > t}) ELSE Never

Idle == [at |-> "idle", fire |-> Never]
Startup == [at |-> "work", fire |-> Never]
Runs == [at : {"idle", "work", "load", "announce"}, fire : Slots \cup {Never}]

TypeOK ==
  /\ now \in Slots /\ up \in {"down", "starting", "up"} /\ paused \in BOOLEAN
  /\ next_run \in [Jobs -> Slots \cup {Never}]
  /\ run \in [Jobs -> Runs]
  /\ {started, busy} \subseteq [Jobs -> SUBSET Slots]
  /\ down \subseteq Slots
  /\ deaths \in 0..MaxDeaths /\ stalls \in 0..MaxStalls
  /\ failures \in 0..MaxFailures /\ pauses \in 0..MaxPauses /\ edits \in 0..MaxEdits
  /\ {file, read} \subseteq Files
  /\ table \in [Ids -> Texts \cup {"absent"}] /\ edited \in {-1} \cup Slots

Init ==
  /\ now = 0 /\ up = "starting" /\ paused = FALSE
  /\ next_run = [j \in Jobs |-> Never]
  /\ run = [j \in Jobs |-> IF j = Reload THEN Startup ELSE Idle]
  /\ file = First /\ read = First /\ edited = -1
  /\ table = [i \in Ids |-> "absent"]
  /\ started = [j \in Jobs |-> {}] /\ busy = started
  /\ down = {0}     \* the process has come up in slot 0
  /\ deaths = 0 /\ stalls = 0 /\ failures = 0 /\ pauses = 0 /\ edits = 0

-----------------------------------------------------------------------------
Due(j) == up = "up" /\ next_run[j] <= now

(* run_scheduler first loads the catalog, whatever comes of it.             *)
Restart ==
  /\ up = "down" /\ up' = "starting"
  /\ run' = [run EXCEPT ![Reload] = Startup]
  /\ down' = down \cup {now}
  /\ UNCHANGED <<now, next_run, paused, catalog, started, busy, budgets>>

MutLaunchNow ==
  /\ up = "starting" /\ run[Reload] = Idle /\ up' = "up"
  /\ next_run' = [j \in Jobs |-> IF now \in Fires(j) THEN now ELSE NextFire(j, now)]
  /\ down' = down \cup {now}
  /\ UNCHANGED <<now, run, paused, catalog, started, busy, budgets>>

(* build_scheduler adds every job with replace_existing, so the stored due  *)
(* time gives way to the trigger's next one.                                *)
Launch ==
  /\ up = "starting" /\ run[Reload] = Idle /\ up' = "up"
  /\ next_run' = [j \in Jobs |-> NextFire(j, now)]
  /\ down' = down \cup {now}
  /\ UNCHANGED <<now, run, paused, catalog, started, busy, budgets>>

Die ==
  /\ up # "down" /\ deaths < MaxDeaths /\ deaths' = deaths + 1
  /\ up' = "down"
  /\ run' = [j \in Jobs |-> Idle]
  /\ down' = down \cup {now}
  /\ UNCHANGED <<now, next_run, paused, catalog, started, busy, stalls, failures, pauses, edits>>

(* A slot passes. While something is due the loop must have been held up.   *)
Tick ==
  /\ now < Horizon /\ now' = now + 1
  /\ IF \E j \in Jobs : Due(j)
     THEN stalls < MaxStalls /\ stalls' = stalls + 1
     ELSE UNCHANGED stalls
  /\ down' = IF up = "up" THEN down ELSE down \cup {now}
  /\ UNCHANGED <<up, next_run, run, paused, catalog, started, busy, deaths, failures, pauses, edits>>

MutFirstFire(j) == Min({t \in Fires(j) : next_run[j] <= t /\ t <= now})

(* A due job is submitted once for all the firings it is behind (coalesce), *)
(* under the last of them. It is dropped when its previous run goes on      *)
(* (max_instances), or when that firing is older than its grace time.       *)
LastFire(j) == Max({t \in Fires(j) : next_run[j] <= t /\ t <= now})
Late(j) == now - LastFire(j) > Grace[j]

Submit(j) ==
  /\ Due(j)
  /\ next_run' = [next_run EXCEPT ![j] = NextFire(j, now)]
  /\ IF run[j].at = "idle" /\ ~Late(j)
     THEN /\ run' = [run EXCEPT ![j] = [at |-> "work", fire |-> LastFire(j)]]
          /\ started' = [started EXCEPT ![j] = @ \cup {LastFire(j)}]
          /\ UNCHANGED busy
     ELSE /\ busy' = [busy EXCEPT ![j] = @ \cup (IF run[j].at = "idle" THEN {} ELSE {LastFire(j)})]
          /\ UNCHANGED <<run, started>>
  /\ UNCHANGED <<now, up, paused, catalog, down, budgets>>

(* run_daily_check reads the pause row once, before anything else.          *)
Hush(j) ==
  /\ run[j].at = "work" /\ j \in Pausable /\ paused
  /\ run' = [run EXCEPT ![j] = Idle]
  /\ UNCHANGED <<now, up, next_run, paused, catalog, history, budgets>>

Wake(j) ==
  /\ run[j].at = "work" /\ j \in Pausable /\ ~paused
  /\ run' = [run EXCEPT ![j].at = "announce"]
  /\ UNCHANGED <<now, up, next_run, paused, catalog, history, budgets>>

(* The work of every other job, up to its commit.                           *)
Work(j) ==
  /\ run[j].at = "work" /\ j \notin Pausable \cup {Reload}
  /\ run' = [run EXCEPT ![j] = IF j \in Announcing THEN [@ EXCEPT !.at = "announce"] ELSE Idle]
  /\ UNCHANGED <<now, up, next_run, paused, catalog, history, budgets>>

(* An exception of the work: rolled back, logged by APScheduler.            *)
Fail(j) ==
  /\ run[j].at \in {"work", "load"} /\ failures < MaxFailures /\ failures' = failures + 1
  /\ run' = [run EXCEPT ![j] = Idle]
  /\ UNCHANGED <<now, up, next_run, paused, catalog, history, deaths, stalls, pauses, edits>>

Announce(j) ==
  /\ run[j].at = "announce"
  /\ UNCHANGED failures \/ (failures < MaxFailures /\ failures' = failures + 1)
  /\ run' = [run EXCEPT ![j] = Idle]
  /\ UNCHANGED <<now, up, next_run, paused, catalog, history, deaths, stalls, pauses, edits>>

(* load_obligations_from_file: the file is parsed whole, then each          *)
(* obligation is inserted or overwritten. One it names twice fails the      *)
(* flush, unless its row is there already; one it no longer names stays.    *)
Parse ==
  /\ run[Reload].at = "work"
  /\ IF file.valid THEN run' = [run EXCEPT ![Reload].at = "load"] /\ read' = file
                   ELSE run' = [run EXCEPT ![Reload] = Idle] /\ UNCHANGED read
  /\ UNCHANGED <<now, up, next_run, paused, file, table, edited, history, budgets>>

Loads(f) == f.valid /\ \A i \in f.twice : table[i] # "absent"
MutUpserted(f) == [i \in Ids |-> IF table[i] = "absent" THEN f.texts[i] ELSE table[i]]
Upserted(f) == [i \in Ids |-> IF f.texts[i] = "absent" THEN table[i] ELSE f.texts[i]]
Load ==
  /\ run[Reload].at = "load"
  /\ table' = IF Loads(read) THEN Upserted(read) ELSE table
  /\ run' = [run EXCEPT ![Reload] = Idle]
  /\ UNCHANGED <<now, up, next_run, paused, file, read, edited, history, budgets>>

(* The operator changes obligations.json.                                   *)
Edit(f) ==
  /\ f # file /\ edits < MaxEdits /\ edits' = edits + 1
  /\ file' = f /\ edited' = now
  /\ UNCHANGED <<now, up, next_run, run, paused, table, read, history, deaths, stalls, failures, pauses>>

(* PUT /pause from the bot; /resume, or the time passes.                    *)
Pause ==
  /\ pauses < MaxPauses /\ pauses' = pauses + 1
  /\ paused' = TRUE
  /\ UNCHANGED <<now, up, next_run, run, catalog, history, deaths, stalls, failures, edits>>
Resume ==
  /\ paused /\ paused' = FALSE
  /\ UNCHANGED <<now, up, next_run, run, catalog, history, budgets>>

JobStep(j) == Hush(j) \/ Wake(j) \/ Work(j) \/ Announce(j)
Next == Restart \/ Launch \/ Die \/ Tick \/ Parse \/ Load \/ Pause \/ Resume
        \/ (\E f \in Files : Edit(f))
        \/ \E j \in Jobs : Submit(j) \/ JobStep(j) \/ Fail(j)

Spec == Init /\ [][Next]_vars

-----------------------------------------------------------------------------
(* No firing begins a second run, whatever is restarted, held up, coalesced *)
(* or re-added to the store.                                                *)
StartedOnce ==
  [][\A j \in Jobs : Due(j) /\ run[j].at = "idle" /\ run'[j].at = "work"
       => run'[j].fire \notin started[j]]_vars

(* While the loop is never held up, a firing is lost only to a slot in      *)
(* which the process was down, or to the job's own previous run.            *)
LostOnlyWhenDown ==
  stalls = 0 => \A j \in Jobs : \A t \in Fires(j) :
    t < now => t \in started[j] \cup down \cup busy[j]

(* Held up for no longer than the grace time, a job still runs: a firing    *)
(* within its grace is neither begun nor dropped behind the job's back.     *)
GraceHoldsWhileUp ==
  [][\A j \in Jobs : Due(j) /\ run[j].at = "idle" /\ next_run'[j] # next_run[j]
       => \A t \in Fires(j) : next_run[j] <= t /\ t <= now /\ now - t <= Grace[j]
            => started'[j] # started[j]]_vars

(* "On startup the catalog is also reloaded from disk so the DB stays in    *)
(* sync with obligations.json": once a reload has begun after the last      *)
(* edit, or the process has started and nothing was edited, and nothing     *)
(* failed, the table says what a file that can be loaded says of each       *)
(* obligation in it, through deaths, restarts and reloads dropped for       *)
(* another.                                                                 *)
InSync == \A i \in Ids : file.texts[i] # "absent" => table[i] = file.texts[i]
CatalogInSync ==
  /\ up = "up" /\ run[Reload] = Idle /\ failures = 0 /\ Loads(file)
  /\ edited = -1 \/ \E t \in started[Reload] : t > edited
  => InSync

-----------------------------------------------------------------------------
(* The inductive invariant behind the safety properties.                    *)

(* A job is due at one of its firings, or never again; nothing has begun    *)
(* under a firing that is still to come, nor, while the process is up,      *)
(* under one the job is still due for.                                      *)
DueInv ==
  \A j \in Jobs :
    /\ next_run[j] \in Fires(j) \cup {Never}
    /\ \A t \in started[j] : t <= now /\ (up = "up" => t < next_run[j])

(* Without a stall no due time is passed, and every firing before it, or    *)
(* before now, is accounted for.                                            *)
Covered(j, t) == t \in started[j] \cup down \cup busy[j]
CoverInv ==
  stalls = 0 => \A j \in Jobs :
    /\ up = "up" => next_run[j] >= now
    /\ \A t \in Fires(j) : t < now \/ (up = "up" /\ t < next_run[j]) => Covered(j, t)

(* A reload begun after the last edit is still to parse the file, or has    *)
(* parsed it as it is, or has put it in the table if it could.              *)
Fresh == edited = -1 \/ \E t \in started[Reload] : t > edited
ReloadInv ==
  /\ run[Reload].at # "announce"
  /\ edited <= now
  /\ failures = 0 /\ Fresh /\ up # "down" =>
       /\ run[Reload].at = "load" => read = file /\ file.valid
       /\ run[Reload].at = "idle" /\ Loads(file) => InSync

IInv == TypeOK /\ DueInv /\ CoverInv /\ ReloadInv
=============================================================================
