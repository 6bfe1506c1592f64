------------------------------- MODULE Ustva -------------------------------
(* The UStVA preparation (capabilities/ustva): prepare computes the figures *)
(* of the current quarter from the mirrored books and stores them in the    *)
(* quarter's period, approve marks a period approved, and a job prepares    *)
(* the period when the quarter is about to end (the message it sends after  *)
(* its commit changes no state). Requests and the job are overlapping       *)
(* transactions: each loads the row, works, flushes (taking the row's lock, *)
(* or the unique key of a new one) and commits. An attribute is written     *)
(* only when it differs from what was loaded.                               *)
(*                                                                          *)
(* The books are the invoices; receipts enter the same way and are mirrored *)
(* without VAT. Quarters are runs of QuarterLength days.                    *)
EXTENDS Integers, FiniteSets, Functions

CONSTANTS
  Invoices, QuarterOf, Gross,   \* the quarter each is issued in, its amount
  QuarterLength, LastDay,
  Lead,        \* days before the quarter's end the job prepares (7)
  JobDays,     \* days of the quarter, from 0, the job is started on ({2})
  Prepares, Approvals,          \* requests, each made once
  Job,
  MaxCrashes

Actors == Prepares \cup Approvals \cup {Job}
Quarters == 0..(LastDay \div QuarterLength)

ASSUME BooksAssumption ==
  /\ IsFiniteSet(Invoices)
  /\ QuarterOf \in [Invoices -> Nat] /\ Gross \in [Invoices -> Nat]
ASSUME BoundsAssumption ==
  /\ QuarterLength \in Nat \ {0} /\ {LastDay, Lead, MaxCrashes} \subseteq Nat
  /\ JobDays \subseteq Nat
  /\ Job \notin Prepares \cup Approvals /\ Prepares \cap Approvals = {}

VARIABLES
  day,
  books,       \* how each invoice is mirrored
  period,      \* the committed row of each quarter
  actor,       \* where each request and the job is, the row it loaded
  crashes

vars == <<day, books, period, actor, crashes>>

-----------------------------------------------------------------------------
current_quarter(d) == d \div QuarterLength
is_in_preview_window(d) ==
  (current_quarter(d) + 1) * QuarterLength - 1 - d <= Lead

(* sync.py stores a voucher's openAmount as total_net: all of it while the  *)
(* invoice is open, nothing when it is paid.                                *)
total_net(i) == IF books[i] = "open" THEN Gross[i] ELSE 0
Booked(q) == {i \in Invoices : books[i] # "none" /\ QuarterOf[i] = q}
SumOver(Amount, S) == FoldFunctionOnSet(+, 0, Amount, S)

compute_payload(q) ==
  LET net == SumOver([i \in Invoices |-> total_net(i)], Booked(q))
  IN [revenue_net |-> net, output_vat |-> SumOver(Gross, Booked(q)) - net]

UstvaStatus == {"none", "review", "approved"}
NoFigures == [revenue_net |-> 0, output_vat |-> 0]
Figures == [revenue_net : Nat, output_vat : Nat]
NoPeriod == [status |-> "none", payload |-> NoFigures, approved_at |-> FALSE]
Asleep == [at |-> "idle", q |-> 0, was |-> "none", had |-> NoFigures, payload |-> NoFigures]

TypeOK ==
  /\ day \in 0..LastDay
  /\ books \in [Invoices -> {"none", "open", "paid"}]
  /\ period \in [Quarters -> [status : UstvaStatus, payload : Figures, approved_at : BOOLEAN]]
  /\ actor \in [Actors -> [at : {"idle", "loaded", "computed", "flushed", "done", "failed", "dead"},
                           q : Quarters, was : UstvaStatus, had : Figures, payload : Figures]]
  /\ crashes \in 0..MaxCrashes

Init ==
  /\ day = 0
  /\ books = [i \in Invoices |-> "none"]
  /\ period = [q \in Quarters |-> NoPeriod]
  /\ actor = [a \in Actors |-> Asleep]
  /\ crashes = 0

-----------------------------------------------------------------------------
Become(a, at) == actor' = [actor EXCEPT ![a].at = at]
End(a, how) == actor' = [actor EXCEPT ![a] = [Asleep EXCEPT !.at = how]]
At(a, at) == actor[a].at = at

LoadPeriod(a, q) ==
  /\ actor' = [actor EXCEPT ![a] = [Asleep EXCEPT !.at = "loaded", !.q = q,
                    !.was = period[q].status, !.had = period[q].payload]]
  /\ UNCHANGED <<day, books, period, crashes>>

(* prepare_current, and the job on a day of its trigger inside its window.  *)
StartPrepare(a) == a \in Prepares /\ At(a, "idle") /\ LoadPeriod(a, current_quarter(day))
StartJob ==
  /\ At(Job, "idle")
  /\ day % QuarterLength \in JobDays
  /\ is_in_preview_window(day)
  /\ LoadPeriod(Job, current_quarter(day))

Compute(a) ==
  /\ a \in Prepares \cup {Job} /\ At(a, "loaded")
  /\ actor' = [actor EXCEPT ![a].at = "computed",
                            ![a].payload = compute_payload(actor[a].q)]
  /\ UNCHANGED <<day, books, period, crashes>>

(* /approve_ustva lists the committed periods and takes the newest, or the  *)
(* one named by its prefix.                                                 *)
Approve(a) ==
  \E q \in Quarters :
    /\ a \in Approvals /\ At(a, "idle")
    /\ period[q].status # "none"
    /\ LoadPeriod(a, q)

(* The flush waits for whoever has flushed the same row. A new row whose    *)
(* quarter another request has filled meanwhile is an IntegrityError.       *)
Ready(a) == At(a, IF a \in Approvals THEN "loaded" ELSE "computed")
Taken(a) == \E b \in Actors \ {a} : At(b, "flushed") /\ actor[b].q = actor[a].q
Conflict(a) == actor[a].was = "none" /\ period[actor[a].q].status # "none"

MutFailsAtOnce(a) ==
  /\ Ready(a)
  /\ IF Taken(a) \/ Conflict(a) THEN End(a, "failed") ELSE Become(a, "flushed")
  /\ UNCHANGED <<day, books, period, crashes>>

Flush(a) ==
  /\ Ready(a) /\ ~Taken(a)
  /\ IF Conflict(a) THEN End(a, "failed") ELSE Become(a, "flushed")
  /\ UNCHANGED <<day, books, period, crashes>>

MutJobReviews(a) == IF a \in Approvals THEN "approved" ELSE "review"
MutPrepareAsJob(a) ==
  IF a \in Approvals THEN "approved"
  ELSE IF actor[a].was = "none" THEN "review" ELSE actor[a].was

MutLeavesDefault(a) ==
  IF a \in Approvals THEN "approved"
  ELSE IF actor[a].was = "none" THEN "preparing" ELSE "review"

(* The status an actor means its row to have: the job leaves it alone.      *)
Meant(a) == IF a \in Approvals THEN "approved"
            ELSE IF a \in Prepares \/ actor[a].was = "none" THEN "review" ELSE actor[a].was

MutPrepareUnstamps(a) ==
  [status      |-> IF Meant(a) # actor[a].was THEN Meant(a) ELSE period[actor[a].q].status,
   payload     |-> IF a \in Approvals THEN period[actor[a].q].payload ELSE actor[a].payload,
   approved_at |-> a \in Approvals]

(* What the row becomes.                                                    *)
Stored(a) ==
  LET row == period[actor[a].q]
  IN [status      |-> IF Meant(a) # actor[a].was THEN Meant(a) ELSE row.status,
      payload     |-> IF a \in Approvals \/ actor[a].payload = actor[a].had
                      THEN row.payload ELSE actor[a].payload,
      approved_at |-> row.approved_at \/ a \in Approvals]

Commit(a) ==
  /\ At(a, "flushed")
  /\ period' = [period EXCEPT ![actor[a].q] = Stored(a)]
  /\ End(a, "done")
  /\ UNCHANGED <<day, books, crashes>>

Crash(a) ==
  /\ actor[a].at \in {"loaded", "computed", "flushed"}
  /\ crashes < MaxCrashes /\ crashes' = crashes + 1
  /\ End(a, "dead")
  /\ UNCHANGED <<day, books, period>>

(* The sync mirrors an invoice of a quarter begun, and its payment.         *)
SyncBooks(i) ==
  /\ \/ books[i] = "none" /\ QuarterOf[i] <= current_quarter(day)
        /\ books' = [books EXCEPT ![i] = "open"]
     \/ books[i] = "open" /\ books' = [books EXCEPT ![i] = "paid"]
  /\ UNCHANGED <<day, period, actor, crashes>>

(* The job runs at most once a day; a request is made once.                 *)
NextDay ==
  /\ day < LastDay
  /\ day' = day + 1
  /\ actor' = IF actor[Job].at \in {"done", "failed", "dead"}
              THEN [actor EXCEPT ![Job] = Asleep] ELSE actor
  /\ UNCHANGED <<books, period, crashes>>

Step(a) == Compute(a) \/ Flush(a) \/ Commit(a)
Next ==
  \/ \E a \in Actors : StartPrepare(a) \/ Approve(a) \/ Step(a) \/ Crash(a)
  \/ \E i \in Invoices : SyncBooks(i)
  \/ StartJob \/ NextDay

Spec == Init /\ [][Next]_vars

(* The job is started on its days, and what was begun goes on.              *)
FairSpec ==
  /\ Spec /\ WF_vars(NextDay) /\ SF_vars(StartJob)
  /\ \A a \in Actors : WF_vars(Step(a))

-----------------------------------------------------------------------------
(* An approved period has the time of its approval, whatever prepare, job   *)
(* and approvals write of one row between each other's load and flush.      *)
StampedWhenApproved ==
  \A q \in Quarters : period[q].status = "approved" => period[q].approved_at

(* Only a prepare request that has seen the approval takes it back; the     *)
(* job, and a prepare that loaded the row before it was approved, do not.   *)
OnlyPrepareReopens ==
  [][\A q \in Quarters : period[q].status = "approved" /\ period'[q].status # "approved"
       => \E a \in Prepares : At(a, "flushed") /\ actor[a].q = q
                              /\ actor[a].was = "approved"]_vars

(* The figures of an approved period are replaced without taking the        *)
(* approval back only by the job, and by a prepare that loaded the row      *)
(* before it was approved: it writes what it computed, and its status only  *)
(* when that differs from the one it has loaded.                            *)
ApprovedFiguresKept ==
  [][\A q \in Quarters :
       /\ period[q].status = "approved" /\ period'[q].status = "approved"
       /\ period'[q].payload # period[q].payload
       => \E a \in Prepares \cup {Job} :
            /\ At(a, "flushed") /\ actor[a].q = q
            /\ a # Job => actor[a].was = "review"]_vars

(* Of the prepares that race to insert the period of a quarter, one wins:   *)
(* one that waits for another's row goes on when the other dies, so that a  *)
(* prepare that does not die itself leads to a period.                      *)
PreparedInTheEnd ==
  \A a \in Prepares \cup {Job} : \A q \in Quarters :
    At(a, "loaded") /\ actor[a].q = q
      ~> period[q].status # "none" \/ At(a, "dead")

-----------------------------------------------------------------------------
(* The inductive invariant behind the safety properties, with the types.    *)

(* Whoever has flushed the row of a quarter holds it alone, and one that is *)
(* inserting it still finds none.                                           *)
FlushedInv ==
  \A a \in Actors : At(a, "flushed") =>
    /\ actor[a].was = "none" => period[actor[a].q].status = "none"
    /\ \A b \in Actors \ {a} : At(b, "flushed") => actor[b].q # actor[a].q
=============================================================================
