-------------------------- MODULE SchedulerProofs --------------------------
(* Proofs about Scheduler, for every set of jobs and of triggers, every     *)
(* grace time, every content of obligations.json, and every bound.          *)
EXTENDS Scheduler, WellFoundedInduction, TLAPS

-----------------------------------------------------------------------------
(* The smallest and the largest of a set of slots.                          *)
LEMMA SmallestOfSome ==
  ASSUME NEW T, T \subseteq Nat, T # {}
  PROVE  \E x \in T : \A y \in T : x <= y
<1> DEFINE R == {ss \in Nat \X Nat : ss[1] < ss[2]}
<1>1. IsWellFoundedOn(R, Nat)
  BY NatLessThanWellFounded DEF OpToRel
<1>2. \A a, b \in Nat : <<a, b>> \in R <=> a < b
  OBVIOUS
<1> HIDE DEF R
<1>3. PICK x \in T : \A y \in T : ~(<<y, x>> \in R)
  BY <1>1, WFMin
<1>4. \A y \in T : ~(y < x)
  BY <1>2, <1>3
<1>5. QED
  BY <1>4

LEMMA MinIsSmallest ==
  ASSUME NEW T, T \subseteq Nat, T # {}
  PROVE  Min(T) \in T /\ \A y \in T : Min(T) <= y
<1> DEFINE P(x) == x \in T /\ \A y \in T : x =< y
<1>1. \E x : P(x)
  BY SmallestOfSome
<1>2. P(CHOOSE x : P(x))
  BY <1>1, Zenon
<1>3. Min(T) = CHOOSE x : P(x)
  BY DEF Min
<1>4. QED
  BY <1>2, <1>3

LEMMA MaxIsLargest ==
  ASSUME NEW n \in Nat, NEW T, T \subseteq 0..n, T # {}
  PROVE  Max(T) \in T /\ \A y \in T : Max(T) >= y
<1> DEFINE U == {n - y : y \in T}
<1>1. U \subseteq Nat /\ U # {}
  <2>1. \A y \in 0..n : n - y \in Nat
    OBVIOUS
  <2>2. QED
    BY <2>1
<1>2. PICK u \in U : \A v \in U : u <= v
  BY <1>1, SmallestOfSome
<1>3. PICK x \in T : u = n - x
  BY <1>2
<1>4. ASSUME NEW y \in T PROVE x >= y
  <2>1. n - y \in U /\ x \in Nat /\ y \in Nat
    OBVIOUS
  <2>2. n - x <= n - y
    BY <1>2, <1>3, <2>1
  <2>3. QED
    BY <2>1, <2>2
<1> DEFINE P(z) == z \in T /\ \A y \in T : z >= y
<1>5. P(CHOOSE z : P(z))
  <2>1. P(x)
    BY <1>4
  <2>2. QED
    BY <2>1, Zenon
<1>6. Max(T) = CHOOSE z : P(z)
  BY DEF Max
<1>7. QED
  BY <1>5, <1>6

-----------------------------------------------------------------------------
(* The triggers.                                                            *)
LEMMA SlotFacts ==
  /\ Horizon \in Nat /\ Never \in Nat /\ Slots \subseteq Nat /\ 0 \in Slots
  /\ \A t \in Slots : t < Never /\ t <= Horizon
  /\ \A j \in Jobs : Fires(j) \subseteq Slots /\ Grace[j] \in Nat
  /\ Reload \in Jobs /\ Reload \notin Pausable /\ Reload \notin Announcing
BY BoundsAssumption, JobsAssumption DEF Slots, Never, Fires

(* The next firing of a trigger is the first one after the slot.            *)
LEMMA NextFireIsNext ==
  ASSUME NEW j \in Jobs, NEW t \in Slots
  PROVE  /\ NextFire(j, t) \in Fires(j) \cup {Never} /\ NextFire(j, t) > t
         /\ \A u \in Fires(j) : u > t => NextFire(j, t) <= u
         /\ NextFire(j, t) \in Nat
         /\ \A u \in Fires(j) : u < NextFire(j, t) => u <= t
<1> DEFINE later == {u \in Fires(j) : u > t}
<1>1. later \subseteq Nat
  BY SlotFacts
<1> DEFINE Following == /\ NextFire(j, t) \in Fires(j) \cup {Never} /\ NextFire(j, t) > t
                    /\ \A u \in Fires(j) : u > t => NextFire(j, t) <= u
<1>2. ASSUME later # {} PROVE Following
  <2>1. Min(later) \in later /\ \A u \in later : Min(later) <= u
    BY <1>1, <1>2, MinIsSmallest
  <2>2. NextFire(j, t) = Min(later)
    BY <1>2 DEF NextFire
  <2> HIDE DEF later
  <2>3. Min(later) \in Fires(j) /\ Min(later) > t
    BY <2>1 DEF later
  <2>4. \A u \in Fires(j) : u > t => u \in later
    BY DEF later
  <2>5. QED
    BY <2>1, <2>2, <2>3, <2>4
<1>3. ASSUME later = {} PROVE Following
  <2>1. NextFire(j, t) = Never /\ \A u \in Fires(j) : ~(u > t)
    BY <1>3 DEF NextFire
  <2>2. QED
    BY <2>1, SlotFacts
<1>4. /\ NextFire(j, t) \in Fires(j) \cup {Never} /\ NextFire(j, t) > t
      /\ \A u \in Fires(j) : u > t => NextFire(j, t) <= u
  BY <1>2, <1>3
<1>5. NextFire(j, t) \in Nat /\ t \in Nat /\ \A u \in Fires(j) : u \in Nat
  BY <1>4, SlotFacts
<1>6. ASSUME NEW u \in Fires(j), u < NextFire(j, t) PROVE u <= t
  BY <1>4, <1>5, <1>6
<1>7. QED
  BY <1>4, <1>5, <1>6

(* The firing a due job runs under is the last one that it is behind.       *)
LEMMA LastFireIsLast ==
  ASSUME now \in Slots, NEW j \in Jobs, Due(j), next_run[j] \in Fires(j) \cup {Never}
  PROVE  /\ LastFire(j) \in Fires(j) /\ next_run[j] <= LastFire(j) /\ LastFire(j) <= now
         /\ next_run[j] \in Fires(j)
         /\ \A t \in Fires(j) : next_run[j] <= t /\ t <= now => t <= LastFire(j)
<1> DEFINE behind == {t \in Fires(j) : next_run[j] <= t /\ t <= now}
<1>1. next_run[j] \in Fires(j) /\ next_run[j] \in Nat
  <2>1. now < Never /\ now \in Nat /\ Never \in Nat /\ next_run[j] <= now
    BY SlotFacts DEF Due
  <2>2. next_run[j] # Never
    BY <2>1
  <2>3. QED
    BY <2>2, SlotFacts
<1>2. behind # {} /\ behind \subseteq 0..Horizon
  BY <1>1, SlotFacts DEF Due, Slots
<1>3. Max(behind) \in behind /\ \A t \in behind : Max(behind) >= t
  BY <1>2, SlotFacts, MaxIsLargest
<1>4. LastFire(j) = Max(behind)
  BY DEF LastFire
<1> HIDE DEF behind
<1>5. Max(behind) \in Fires(j) /\ next_run[j] <= Max(behind) /\ Max(behind) <= now
  BY <1>3 DEF behind
<1>6. \A t \in Fires(j) : next_run[j] <= t /\ t <= now => t \in behind
  BY DEF behind
<1>7. \A t \in behind : t \in Nat
  BY SlotFacts DEF behind
<1>8. Max(behind) \in Nat
  BY <1>5, SlotFacts
<1>9. QED
  BY <1>1, <1>3, <1>4, <1>5, <1>6, <1>7, <1>8

-----------------------------------------------------------------------------
(* Type correctness.                                                        *)
LEMMA RunTypes ==
  /\ Idle \in Runs /\ Startup \in Runs /\ Idle.at = "idle" /\ Startup.at = "work"
  /\ \A t \in Slots : [at |-> "work", fire |-> t] \in Runs
  /\ \A a \in Runs, p \in {"idle", "work", "load", "announce"} :
       [a EXCEPT !.at = p] \in Runs /\ [a EXCEPT !.at = p].at = p
BY DEF Idle, Startup, Runs

LEMMA InitTypeOK == Init => TypeOK
<1> SUFFICES ASSUME Init PROVE TypeOK
  OBVIOUS
<1>1. First \in Files
  BY FilesAssumption
<1>2. 0 \in 0..MaxDeaths /\ 0 \in 0..MaxStalls /\ 0 \in 0..MaxFailures
      /\ 0 \in 0..MaxPauses /\ 0 \in 0..MaxEdits
  BY BoundsAssumption
<1>3. run \in [Jobs -> Runs] /\ next_run \in [Jobs -> Slots \cup {Never}]
      /\ {started, busy} \subseteq [Jobs -> SUBSET Slots] /\ down \subseteq Slots
  BY RunTypes, SlotFacts DEF Init
<1>4. QED
  BY <1>1, <1>2, <1>3, SlotFacts DEF Init, TypeOK

(* What Submit does to its job, by whether the job begins.                  *)
LEMMA SubmitCases ==
  ASSUME TypeOK, DueInv, NEW j \in Jobs, Submit(j)
  PROVE  /\ LastFire(j) \in Fires(j) /\ LastFire(j) \in Slots
         /\ next_run' = [next_run EXCEPT ![j] = NextFire(j, now)]
         /\ \/ /\ run[j].at = "idle" /\ ~Late(j)
               /\ run' = [run EXCEPT ![j] = [at |-> "work", fire |-> LastFire(j)]]
               /\ started' = [started EXCEPT ![j] = @ \cup {LastFire(j)}] /\ busy' = busy
            \/ /\ UNCHANGED <<run, started>>
               /\ run[j].at = "idle" => Late(j) /\ busy' = busy
               /\ run[j].at # "idle" =>
                    busy' = [busy EXCEPT ![j] = @ \cup {LastFire(j)}]
               /\ busy' \in [Jobs -> SUBSET Slots]
<1>1. LastFire(j) \in Fires(j) /\ LastFire(j) \in Slots
  BY LastFireIsLast, SlotFacts DEF Submit, TypeOK, DueInv
<1>2. CASE run[j].at = "idle" /\ ~Late(j)
  BY <1>1, <1>2 DEF Submit
<1>3. CASE run[j].at = "idle" /\ Late(j)
  <2>1. UNCHANGED <<run, started>> /\ busy' = [busy EXCEPT ![j] = @ \cup {}]
    BY <1>3 DEF Submit
  <2>2. busy' = busy
    BY <2>1 DEF TypeOK
  <2>3. QED
    BY <1>1, <1>3, <2>1, <2>2 DEF Submit, TypeOK
<1>4. CASE run[j].at # "idle"
  BY <1>1, <1>4 DEF Submit, TypeOK
<1>5. QED
  BY <1>2, <1>3, <1>4

LEMMA StepTypeOK == TypeOK /\ DueInv /\ [Next]_vars => TypeOK'
<1> SUFFICES ASSUME TypeOK, DueInv, [Next]_vars PROVE TypeOK'
  OBVIOUS
<1> USE DEF budgets, history, catalog
<1>0. now \in Slots /\ run \in [Jobs -> Runs] /\ next_run \in [Jobs -> Slots \cup {Never}]
  BY DEF TypeOK
<1>01. \A j \in Jobs, t \in Slots : NextFire(j, t) \in Slots \cup {Never}
  BY NextFireIsNext, SlotFacts
<1>1. CASE Restart
  BY <1>1, RunTypes, SlotFacts DEF Restart, TypeOK
<1>2. CASE Launch
  BY <1>01, <1>2, SlotFacts DEF Launch, TypeOK
<1>3. CASE Die
  <2>1. deaths' \in 0..MaxDeaths
    BY <1>3, BoundsAssumption DEF Die, TypeOK
  <2>2. QED
    BY <1>3, <2>1, RunTypes DEF Die, TypeOK
<1>4. CASE Tick
  <2>1. now' \in Slots /\ stalls' \in 0..MaxStalls
    BY <1>4, BoundsAssumption DEF Tick, TypeOK, Slots
  <2>2. down' \subseteq Slots
    BY <1>4 DEF Tick, TypeOK
  <2>3. QED
    BY <1>4, <2>1, <2>2 DEF Tick, TypeOK
<1>5. CASE Parse
  <2>1. run' \in [Jobs -> Runs] /\ read' \in Files
    <3>0. /\ run[Reload] \in Runs /\ file \in Files
          /\ [run[Reload] EXCEPT !.at = "load"] \in Runs
      BY <1>0, RunTypes, SlotFacts DEF TypeOK
    <3>1. CASE file.valid
      <4>1. run' = [run EXCEPT ![Reload] = [run[Reload] EXCEPT !.at = "load"]] /\ read' = file
        BY <1>5, <3>1 DEF Parse
      <4>2. QED
        BY <1>0, <3>0, <4>1
    <3>2. CASE ~file.valid
      BY <1>0, <1>5, <3>2, RunTypes, SlotFacts DEF Parse, TypeOK
    <3>3. QED
      BY <3>1, <3>2
  <2>2. QED
    BY <1>5, <2>1 DEF Parse, TypeOK
<1>6. CASE Load
  <2>1. read.texts \in [Ids -> Texts \cup {"absent"}]
    BY FilesAssumption DEF TypeOK, Contents
  <2>2. Upserted(read) \in [Ids -> Texts \cup {"absent"}]
    BY <2>1 DEF Upserted, TypeOK
  <2>3. table' \in [Ids -> Texts \cup {"absent"}]
    BY <1>6, <2>2 DEF Load, TypeOK
  <2>4. QED
    BY <1>6, <2>3, RunTypes, SlotFacts DEF Load, TypeOK
<1>7. CASE Pause
  BY <1>7, BoundsAssumption DEF Pause, TypeOK
<1>8. CASE Resume
  BY <1>8 DEF Resume, TypeOK
<1>9. ASSUME NEW f \in Files, Edit(f) PROVE TypeOK'
  BY <1>9, BoundsAssumption DEF Edit, TypeOK
<1>10. ASSUME NEW j \in Jobs, Submit(j) PROVE TypeOK'
  <2>1. next_run' \in [Jobs -> Slots \cup {Never}]
    BY <1>0, <1>01, <1>10, SubmitCases
  <2>2. /\ run' \in [Jobs -> Runs] /\ started' \in [Jobs -> SUBSET Slots]
        /\ busy' \in [Jobs -> SUBSET Slots]
    <3>1. started \in [Jobs -> SUBSET Slots] /\ busy \in [Jobs -> SUBSET Slots]
      BY DEF TypeOK
    <3>2. QED
      BY <1>0, <1>10, <3>1, SubmitCases, RunTypes
  <2>3. QED
    BY <1>10, <2>1, <2>2 DEF Submit, TypeOK
<1>11. ASSUME NEW j \in Jobs, JobStep(j) PROVE TypeOK'
  <2>1. failures' \in 0..MaxFailures
    BY <1>11, BoundsAssumption DEF JobStep, Hush, Wake, Work, Announce, TypeOK
  <2>2. run' \in [Jobs -> Runs]
    <3>1. [run[j] EXCEPT !.at = "announce"] \in Runs
      BY <1>0, RunTypes
    <3>2. \/ run' = [run EXCEPT ![j] = Idle]
          \/ run' = [run EXCEPT ![j] = [run[j] EXCEPT !.at = "announce"]]
      BY <1>11 DEF JobStep, Hush, Wake, Work, Announce
    <3>3. QED
      BY <1>0, <3>1, <3>2, RunTypes
  <2>3. QED
    BY <1>11, <2>1, <2>2 DEF JobStep, Hush, Wake, Work, Announce, TypeOK
<1>12. ASSUME NEW j \in Jobs, Fail(j) PROVE TypeOK'
  <2>1. failures' \in 0..MaxFailures
    BY <1>12, BoundsAssumption DEF Fail, TypeOK
  <2>2. QED
    BY <1>12, <2>1, RunTypes DEF Fail, TypeOK
<1>13. CASE UNCHANGED vars
  BY <1>13 DEF vars, TypeOK
<1>14. QED
  BY <1>1, <1>2, <1>3, <1>4, <1>5, <1>6, <1>7, <1>8, <1>9, <1>10, <1>11, <1>12, <1>13 DEF Next

-----------------------------------------------------------------------------
(* The due times.                                                           *)
LEMMA InitDueInv == Init => DueInv
BY DEF Init, DueInv

LEMMA StepDueInv == TypeOK /\ DueInv /\ [Next]_vars => DueInv'
<1> SUFFICES ASSUME TypeOK, DueInv, [Next]_vars PROVE DueInv'
  OBVIOUS
<1> USE DEF budgets, history
<1>0. now \in Slots /\ now \in Nat /\ next_run \in [Jobs -> Slots \cup {Never}]
      /\ started \in [Jobs -> SUBSET Slots]
  BY SlotFacts DEF TypeOK
<1>1. ASSUME UNCHANGED <<now, next_run, started>>, up' = "up" => up = "up" PROVE DueInv'
  BY <1>1 DEF DueInv, Fires
<1>2. CASE Launch
  <2>1. \A j \in Jobs : next_run'[j] = NextFire(j, now)
    BY <1>2 DEF Launch
  <2>2. \A j \in Jobs : \A t \in started[j] : t <= now /\ t \in Nat
    BY <1>0, SlotFacts DEF DueInv
  <2>3. ASSUME NEW j \in Jobs
        PROVE  next_run'[j] \in Fires(j) \cup {Never} /\ \A t \in started[j] : t < next_run'[j]
    <3>1. next_run'[j] \in Fires(j) \cup {Never} /\ next_run'[j] > now
      BY <1>0, <2>1, NextFireIsNext
    <3>2. next_run'[j] \in Nat
      BY <3>1, SlotFacts
    <3>3. QED
      BY <1>0, <2>2, <3>1, <3>2
  <2>4. now' = now /\ started' = started
    BY <1>2 DEF Launch
  <2>5. QED
    BY <2>2, <2>3, <2>4 DEF DueInv
<1>3. CASE Tick
  <2>1. now' = now + 1 /\ UNCHANGED <<up, next_run, started>>
    BY <1>3 DEF Tick
  <2>2. \A j \in Jobs : \A t \in started[j] : t <= now' /\ (up = "up" => t < next_run[j])
    BY <1>0, <2>1, SlotFacts DEF DueInv
  <2>3. QED
    BY <2>1, <2>2 DEF DueInv, Fires
<1>4. ASSUME NEW k \in Jobs, Submit(k) PROVE DueInv'
  <2> SUFFICES ASSUME NEW j \in Jobs
               PROVE  /\ next_run'[j] \in Fires(j) \cup {Never}
                      /\ \A t \in started'[j] : t <= now' /\ (up' = "up" => t < next_run'[j])
    BY DEF DueInv
  <2>1. now' = now /\ up' = up
    BY <1>4 DEF Submit
  <2>2. CASE j # k
    <3>1. next_run'[j] = next_run[j] /\ started'[j] = started[j]
      BY <1>0, <1>4, <2>2, SubmitCases
    <3>2. QED
      BY <2>1, <3>1 DEF DueInv
  <2>3. CASE j = k
    <3>1. /\ next_run'[j] \in Fires(j) \cup {Never} /\ next_run'[j] > now
          /\ next_run'[j] \in Nat
      <4>1. next_run'[j] = NextFire(j, now)
        BY <1>0, <1>4, <2>3, SubmitCases
      <4>2. QED
        BY <1>0, <4>1, NextFireIsNext
    <3>2. LastFire(j) \in Nat /\ LastFire(j) <= now
      BY <1>4, <2>3, LastFireIsLast, SlotFacts DEF Submit, TypeOK, DueInv
    <3>3. \A t \in started'[j] : t \in started[j] \/ t = LastFire(j)
      BY <1>0, <1>4, <2>3, SubmitCases
    <3>4. \A t \in started[j] : t <= now /\ t \in Nat
      BY <1>0, SlotFacts DEF DueInv
    <3>5. QED
      BY <1>0, <2>1, <3>1, <3>2, <3>3, <3>4
  <2>4. QED
    BY <2>2, <2>3
<1>5. QED
  BY <1>1, <1>2, <1>3, <1>4
     DEF Next, Restart, Die, Parse, Load, Pause, Resume, Edit, JobStep, Hush, Wake, Work,
         Announce, Fail, vars

-----------------------------------------------------------------------------
(* What is accounted for while the loop is never held up.                   *)
LEMMA InitCoverInv == Init => CoverInv
<1> SUFFICES ASSUME Init PROVE CoverInv
  OBVIOUS
<1>1. up # "up" /\ now = 0
  BY DEF Init
<1>2. ASSUME NEW j \in Jobs, NEW t \in Fires(j) PROVE ~(t < now)
  <2>1. t \in Nat
    BY SlotFacts
  <2>2. QED
    BY <1>1, <2>1
<1>3. ASSUME NEW j \in Jobs PROVE up = "up" => next_run[j] >= now
  BY <1>1
<1>4. ASSUME NEW j \in Jobs, NEW t \in Fires(j)
      PROVE  t < now \/ (up = "up" /\ t < next_run[j]) => Covered(j, t)
  BY <1>1, <1>2
<1>5. QED
  BY <1>3, <1>4 DEF CoverInv

LEMMA StepCoverInv == TypeOK /\ DueInv /\ CoverInv /\ [Next]_vars => CoverInv'
<1> SUFFICES ASSUME TypeOK, DueInv, CoverInv, [Next]_vars, stalls' = 0 PROVE CoverInv'
  BY DEF CoverInv
<1> USE DEF budgets, history
<1>0. /\ now \in Slots /\ now \in Nat /\ next_run \in [Jobs -> Slots \cup {Never}]
      /\ started \in [Jobs -> SUBSET Slots] /\ busy \in [Jobs -> SUBSET Slots]
      /\ \A j \in Jobs : next_run[j] \in Nat
      /\ \A j \in Jobs : \A t \in Fires(j) : t \in Nat
  BY SlotFacts DEF TypeOK
<1>1. ASSUME UNCHANGED <<now, next_run, started, busy, stalls>>, up' = "up" => up = "up",
             down \subseteq down' PROVE CoverInv'
  BY <1>1 DEF CoverInv, Covered, Fires
<1>2. CASE Launch
  <2>1. /\ stalls = 0 /\ now' = now /\ down' = down \cup {now} /\ UNCHANGED <<started, busy>>
        /\ \A j \in Jobs : next_run'[j] = NextFire(j, now)
    BY <1>2 DEF Launch
  <2>2. ASSUME NEW j \in Jobs, NEW t \in Fires(j), t < now \/ t < next_run'[j]
        PROVE  t \in started[j] \cup down \cup {now} \cup busy[j]
    <3>1. t <= now
      BY <1>0, <2>1, <2>2, NextFireIsNext
    <3>2. CASE t = now
      BY <3>2
    <3>3. CASE t # now
      <4>1. t < now
        BY <1>0, <3>1, <3>3
      <4>2. QED
        BY <2>1, <4>1 DEF CoverInv, Covered
    <3>4. QED
      BY <3>2, <3>3
  <2>3. \A j \in Jobs : next_run'[j] >= now
    BY <1>0, <2>1, NextFireIsNext, SlotFacts
  <2>4. QED
    BY <2>1, <2>2, <2>3 DEF CoverInv, Covered, Fires
<1>3. CASE Tick
  <2>1. /\ now' = now + 1 /\ stalls = 0 /\ \A j \in Jobs : ~Due(j)
        /\ UNCHANGED <<up, next_run, started, busy>>
        /\ down \subseteq down' /\ (up # "up" => now \in down')
    <3>1. stalls \in Nat
      BY BoundsAssumption DEF TypeOK
    <3>2. QED
      BY <1>3, <3>1 DEF Tick
  <2>2. ASSUME NEW j \in Jobs, up = "up" PROVE next_run[j] >= now + 1
    BY <1>0, <2>1, <2>2 DEF Due
  <2>3. ASSUME NEW j \in Jobs, NEW t \in Fires(j),
               t < now + 1 \/ (up = "up" /\ t < next_run[j])
        PROVE  t \in started[j] \cup down' \cup busy[j]
    <3>1. CASE up = "up"
      <4>1. t < next_run[j]
        BY <1>0, <2>2, <2>3, <3>1
      <4>2. QED
        BY <2>1, <3>1, <4>1 DEF CoverInv, Covered
    <3>2. CASE up # "up" /\ t # now
      <4>1. t < now
        BY <1>0, <2>3, <3>2
      <4>2. QED
        BY <2>1, <4>1 DEF CoverInv, Covered
    <3>3. CASE up # "up" /\ t = now
      BY <2>1, <3>3
    <3>4. QED
      BY <3>1, <3>2, <3>3
  <2>4. QED
    BY <2>1, <2>2, <2>3 DEF CoverInv, Covered, Fires
<1>4. ASSUME NEW k \in Jobs, Submit(k) PROVE CoverInv'
  <2>1. stalls = 0 /\ UNCHANGED <<now, up, down>> /\ up = "up" /\ next_run[k] <= now
    BY <1>4 DEF Submit, Due
  <2>2. /\ LastFire(k) = now /\ ~Late(k) /\ next_run[k] = now
    <3>1. next_run[k] >= now
      BY <2>1 DEF CoverInv
    <3>2. next_run[k] <= LastFire(k) /\ LastFire(k) <= now /\ LastFire(k) \in Fires(k)
      BY <1>4, LastFireIsLast DEF Submit, TypeOK, DueInv
    <3>3. LastFire(k) = now /\ next_run[k] = now
      BY <1>0, <2>1, <3>1, <3>2
    <3>4. QED
      BY <1>0, <3>3, SlotFacts DEF Late
  <2>3. /\ \A j \in Jobs : started[j] \subseteq started'[j] /\ busy[j] \subseteq busy'[j]
        /\ now \in started'[k] \cup busy'[k]
    BY <1>0, <1>4, <2>2, SubmitCases
  <2>4. /\ next_run'[k] = NextFire(k, now)
        /\ \A j \in Jobs \ {k} : next_run'[j] = next_run[j]
    BY <1>0, <1>4, SubmitCases
  <2>5. \A j \in Jobs : next_run'[j] >= now
    <3>1. next_run'[k] \in Nat /\ next_run'[k] > now
      BY <1>0, <2>4, NextFireIsNext, SlotFacts
    <3>2. QED
      BY <1>0, <2>1, <2>4, <3>1 DEF CoverInv
  <2>6. ASSUME NEW j \in Jobs, NEW t \in Fires(j), t < now \/ t < next_run'[j]
        PROVE  t \in started'[j] \cup down \cup busy'[j]
    <3>1. CASE t < now \/ t < next_run[j]
      BY <2>1, <2>3, <3>1 DEF CoverInv, Covered
    <3>2. CASE ~(t < now \/ t < next_run[j])
      <4>1. j = k
        BY <2>4, <2>6, <3>2
      <4>2. t < NextFire(k, now) /\ t \in Fires(k) /\ ~(t < now)
        BY <2>4, <2>6, <3>2, <4>1
      <4>4. t = now
        BY <1>0, <4>2, NextFireIsNext
      <4>5. QED
        BY <2>3, <4>1, <4>4
    <3>3. QED
      BY <3>1, <3>2
  <2>7. QED
    BY <2>1, <2>5, <2>6 DEF CoverInv, Covered, Fires
<1>5. QED
  BY <1>1, <1>2, <1>3, <1>4
     DEF Next, Restart, Die, Parse, Load, Pause, Resume, Edit, JobStep, Hush, Wake, Work,
         Announce, Fail, vars

-----------------------------------------------------------------------------
(* What a reload leaves in the table.                                       *)
LEMMA InitReloadInv == Init => ReloadInv
<1> SUFFICES ASSUME Init PROVE ReloadInv
  OBVIOUS
<1>1. run[Reload] = Startup /\ edited = -1 /\ now = 0
  BY SlotFacts DEF Init
<1>2. QED
  BY <1>1, RunTypes DEF ReloadInv

(* A firing that begins now is under a slot no edit can have passed.        *)
LEMMA StepReloadInv == TypeOK /\ DueInv /\ ReloadInv /\ [Next]_vars => ReloadInv'
<1> SUFFICES ASSUME TypeOK, DueInv, ReloadInv, [Next]_vars PROVE ReloadInv'
  OBVIOUS
<1> USE DEF budgets, history, catalog
<1>0. /\ now \in Slots /\ now \in Nat /\ run \in [Jobs -> Runs] /\ Reload \in Jobs
      /\ started \in [Jobs -> SUBSET Slots] /\ edited \in Int /\ failures \in Nat
  BY SlotFacts, BoundsAssumption DEF TypeOK
<1>1. ASSUME now' = now \/ now' = now + 1, UNCHANGED <<file, table, read, edited>>,
             run'[Reload] = run[Reload], started'[Reload] = started[Reload],
             failures' = failures, up' # "down" => up # "down"
      PROVE  ReloadInv'
  <2>1. Loads(file)' = Loads(file) /\ InSync' = InSync /\ Fresh' = Fresh
    BY <1>1 DEF Loads, InSync, Fresh
  <2>2. edited' <= now'
    BY <1>0, <1>1 DEF ReloadInv
  <2>3. QED
    BY <1>1, <2>1, <2>2 DEF ReloadInv
<1>2. ASSUME run'[Reload].at = "work", UNCHANGED <<now, edited>> PROVE ReloadInv'
  BY <1>2 DEF ReloadInv
<1>3. CASE Restart
  BY <1>0, <1>2, <1>3, RunTypes DEF Restart
<1>4. CASE Launch
  BY <1>1, <1>4 DEF Launch
<1>5. CASE Die
  <2>1. run'[Reload] = Idle /\ up' = "down" /\ UNCHANGED <<now, edited>>
    BY <1>0, <1>5 DEF Die
  <2>2. QED
    BY <2>1, RunTypes DEF ReloadInv
<1>6. CASE Tick
  BY <1>1, <1>6 DEF Tick
<1>7. CASE Parse
  <2>0. UNCHANGED <<now, file, table, edited, started, failures, up>>
    BY <1>7 DEF Parse
  <2>1. CASE file.valid
    <3>1. run'[Reload].at = "load" /\ read' = file
      BY <1>0, <1>7, <2>1 DEF Parse, Runs
    <3>2. QED
      BY <2>0, <2>1, <3>1 DEF ReloadInv
  <2>2. CASE ~file.valid
    <3>1. run'[Reload].at = "idle"
      BY <1>0, <1>7, <2>2, RunTypes DEF Parse
    <3>2. ~Loads(file)'
      BY <2>0, <2>2 DEF Loads
    <3>3. QED
      BY <2>0, <3>1, <3>2 DEF ReloadInv
  <2>3. QED
    BY <2>1, <2>2
<1>8. CASE Load
  <2>0. /\ UNCHANGED <<now, file, read, edited, started, failures, up>>
        /\ run'[Reload].at = "idle" /\ run[Reload].at = "load"
        /\ table' = IF Loads(read) THEN Upserted(read) ELSE table
    BY <1>0, <1>8, RunTypes DEF Load
  <2>1. ASSUME failures' = 0, Fresh', up' # "down", Loads(file)' PROVE InSync'
    <3>1. read = file
      <4>1. Fresh
        BY <2>0, <2>1 DEF Fresh
      <4>2. QED
        BY <2>0, <2>1, <4>1 DEF ReloadInv
    <3>2. CASE Loads(read)
      <4>1. table' = [i \in Ids |-> IF file.texts[i] = "absent" THEN table[i] ELSE file.texts[i]]
        BY <2>0, <3>1, <3>2 DEF Upserted
      <4>2. QED
        BY <2>0, <4>1 DEF InSync
    <3>3. CASE ~Loads(read)
      <4>1. table' = table
        BY <2>0, <3>3
      <4>2. ~Loads(file)'
        BY <2>0, <3>1, <3>3, <4>1 DEF Loads
      <4>3. QED
        BY <2>1, <4>2
    <3>4. QED
      BY <3>2, <3>3
  <2>2. QED
    BY <2>0, <2>1 DEF ReloadInv
<1>9. CASE Pause
  BY <1>1, <1>9 DEF Pause
<1>10. CASE Resume
  BY <1>1, <1>10 DEF Resume
<1>11. ASSUME NEW f \in Files, Edit(f) PROVE ReloadInv'
  <2>1. edited' = now /\ UNCHANGED <<now, run, started>>
    BY <1>11 DEF Edit
  <2>2. \A t \in started[Reload] : t <= now /\ t \in Nat
    BY <1>0, SlotFacts DEF DueInv
  <2>3. ~Fresh'
    BY <1>0, <2>1, <2>2 DEF Fresh
  <2>4. edited' <= now' /\ run'[Reload].at # "announce"
    BY <1>0, <2>1 DEF ReloadInv
  <2>5. QED
    BY <2>3, <2>4 DEF ReloadInv
<1>12. ASSUME NEW j \in Jobs, Submit(j) PROVE ReloadInv'
  <2>0. UNCHANGED <<now, up, file, table, read, edited, failures>>
    BY <1>12 DEF Submit
  <2>1. \/ run'[Reload].at = "work"
        \/ run'[Reload] = run[Reload] /\ started'[Reload] = started[Reload]
    BY <1>0, <1>12, SubmitCases
  <2>2. QED
    BY <1>1, <1>2, <2>0, <2>1
<1>13. ASSUME NEW j \in Jobs, Fail(j) PROVE ReloadInv'
  <2>1. failures' = failures + 1 /\ UNCHANGED <<now, edited>>
    BY <1>13 DEF Fail
  <2>2. run'[Reload] = Idle \/ run'[Reload] = run[Reload]
    BY <1>0, <1>13 DEF Fail
  <2>3. failures' # 0 /\ run'[Reload].at # "announce"
    BY <1>0, <2>1, <2>2, RunTypes DEF ReloadInv
  <2>4. QED
    BY <1>0, <2>1, <2>3 DEF ReloadInv
<1>14. ASSUME NEW j \in Jobs, JobStep(j) PROVE ReloadInv'
  <2>1. j # Reload
    BY <1>14, SlotFacts DEF JobStep, Hush, Wake, Work, Announce, ReloadInv
  <2>2. run'[Reload] = run[Reload] /\ UNCHANGED <<now, up, file, table, read, edited, started>>
    BY <1>0, <1>14, <2>1 DEF JobStep, Hush, Wake, Work, Announce
  <2>3. CASE failures' = failures
    BY <1>1, <2>2, <2>3
  <2>4. CASE failures' = failures + 1
    <3>1. failures' # 0
      BY <1>0, <2>4
    <3>2. QED
      BY <2>2, <3>1 DEF ReloadInv
  <2>5. QED
    BY <1>14, <2>3, <2>4 DEF JobStep, Hush, Wake, Work, Announce
<1>15. CASE UNCHANGED vars
  BY <1>1, <1>15 DEF vars
<1>16. QED
  BY <1>3, <1>4, <1>5, <1>6, <1>7, <1>8, <1>9, <1>10, <1>11, <1>12, <1>13, <1>14, <1>15 DEF Next

-----------------------------------------------------------------------------
(* What a step may not do.                                                  *)
LEMMA BehindNotStarted ==
  ASSUME TypeOK, DueInv, NEW j \in Jobs, Due(j)
  PROVE  LastFire(j) \notin started[j]
<1>1. /\ next_run[j] <= LastFire(j) /\ LastFire(j) \in Nat /\ next_run[j] \in Nat
  BY LastFireIsLast, SlotFacts DEF TypeOK, DueInv
<1>2. \A t \in started[j] : t < next_run[j] /\ t \in Nat
  BY SlotFacts DEF TypeOK, DueInv, Due
<1>3. QED
  BY <1>1, <1>2

LEMMA StepStartsOnce ==
  ASSUME TypeOK, DueInv, [Next]_vars, NEW j \in Jobs,
         Due(j), run[j].at = "idle", run'[j].at = "work"
  PROVE  run'[j].fire \notin started[j]
<1>0. run \in [Jobs -> Runs] /\ up = "up"
  BY DEF TypeOK, Due
<1>1. ASSUME NEW k \in Jobs, Submit(k) PROVE run'[j].fire \notin started[j]
  <2>1. k = j /\ run'[j].fire = LastFire(j)
    BY <1>0, <1>1, SubmitCases
  <2>2. QED
    BY <2>1, BehindNotStarted
<1>2. ASSUME NEW k \in Jobs, JobStep(k) \/ Fail(k) PROVE FALSE
  <2>1. run'[k] = Idle \/ run'[k] = [run[k] EXCEPT !.at = "announce"]
    BY <1>0, <1>2 DEF JobStep, Hush, Wake, Work, Announce, Fail
  <2>2. run'[k].at # "work"
    BY <1>0, <2>1, RunTypes
  <2>3. k # j => run'[j] = run[j]
    BY <1>0, <1>2 DEF JobStep, Hush, Wake, Work, Announce, Fail
  <2>4. QED
    BY <2>2, <2>3
<1>3. ~Parse /\ ~Load
  <2>1. ASSUME Parse \/ Load PROVE FALSE
    <3>1. run[Reload].at # "idle"
      BY <2>1 DEF Parse, Load
    <3>2. run'[j] = run[j]
      BY <1>0, <2>1, <3>1 DEF Parse, Load
    <3>3. QED
      BY <3>2
  <2>2. QED
    BY <2>1
<1>4. ~Restart /\ ~Die
  BY <1>0, RunTypes DEF Restart, Die
<1>5. run' # run
  OBVIOUS
<1>6. QED
  BY <1>1, <1>2, <1>3, <1>4, <1>5 DEF Next, Launch, Tick, Pause, Resume, Edit, vars

LEMMA StepKeepsGrace ==
  ASSUME TypeOK, DueInv, [Next]_vars, NEW j \in Jobs,
         Due(j), run[j].at = "idle", next_run'[j] # next_run[j],
         NEW t \in Fires(j), next_run[j] <= t, t <= now, now - t <= Grace[j]
  PROVE  started'[j] # started[j]
<1>0. up = "up" /\ next_run \in [Jobs -> Slots \cup {Never}] /\ started \in [Jobs -> SUBSET Slots]
  BY DEF TypeOK, Due
<1>1. PICK k \in Jobs : Submit(k)
  BY <1>0 DEF Next, Restart, Launch, Die, Tick, Parse, Load, Pause, Resume, Edit, JobStep, Hush,
     Wake, Work, Announce, Fail, vars
<1>2. k = j
  BY <1>0, <1>1, SubmitCases
<1>3. ~Late(j)
  <2>1. t <= LastFire(j) /\ LastFire(j) \in Fires(j) /\ LastFire(j) <= now
    BY LastFireIsLast DEF TypeOK, DueInv
  <2>2. LastFire(j) \in Nat /\ t \in Nat /\ now \in Nat /\ Grace[j] \in Nat
    BY <2>1, SlotFacts DEF TypeOK
  <2>3. QED
    BY <2>1, <2>2 DEF Late
<1>4. LastFire(j) \in started'[j]
  BY <1>0, <1>1, <1>2, <1>3, SubmitCases
<1>5. QED
  BY <1>4, BehindNotStarted

-----------------------------------------------------------------------------
(* Every reachable state satisfies the inductive invariant.                 *)
THEOREM InductiveInvariantThm == Spec => []IInv
<1>1. Init => IInv
  BY InitTypeOK, InitDueInv, InitCoverInv, InitReloadInv DEF IInv
<1>2. IInv /\ [Next]_vars => IInv'
  BY StepTypeOK, StepDueInv, StepCoverInv, StepReloadInv DEF IInv
<1>3. QED
  BY <1>1, <1>2, PTL DEF Spec

(* The variables keep their types.                                          *)
THEOREM TypeCorrect == Spec => []TypeOK
<1>1. IInv => TypeOK
  BY DEF IInv
<1>2. QED
  BY <1>1, InductiveInvariantThm, PTL

(* While the loop is not held up, a firing that has passed has begun a run, *)
(* unless the process was down or the job's previous run still went on.     *)
THEOREM LostOnlyWhenDownThm == Spec => []LostOnlyWhenDown
<1>1. IInv => LostOnlyWhenDown
  BY DEF IInv, CoverInv, Covered, LostOnlyWhenDown
<1>2. QED
  BY <1>1, InductiveInvariantThm, PTL

(* After a reload that began since the last edit and did not fail, the      *)
(* table says what the file says.                                           *)
THEOREM CatalogInSyncThm == Spec => []CatalogInSync
<1>1. IInv => CatalogInSync
  BY RunTypes DEF IInv, ReloadInv, Fresh, CatalogInSync
<1>2. QED
  BY <1>1, InductiveInvariantThm, PTL

(* No firing begins a second run of its job.                                *)
THEOREM StartedOnceThm == Spec => StartedOnce
<1>1. IInv /\ [Next]_vars
        => [\A j \in Jobs : Due(j) /\ run[j].at = "idle" /\ run'[j].at = "work"
              => run'[j].fire \notin started[j]]_vars
  BY StepStartsOnce DEF IInv
<1>2. QED
  BY <1>1, InductiveInvariantThm, PTL DEF Spec, StartedOnce

(* A job that is idle and within the grace time of a firing is not dropped. *)
THEOREM GraceHoldsWhileUpThm == Spec => GraceHoldsWhileUp
<1>1. IInv /\ [Next]_vars
        => [\A j \in Jobs : Due(j) /\ run[j].at = "idle" /\ next_run'[j] # next_run[j]
              => \A t \in Fires(j) : next_run[j] <= t /\ t <= now /\ now - t <= Grace[j]
                   => started'[j] # started[j]]_vars
  BY StepKeepsGrace DEF IInv
<1>2. QED
  BY <1>1, InductiveInvariantThm, PTL DEF Spec, GraceHoldsWhileUp
=============================================================================
