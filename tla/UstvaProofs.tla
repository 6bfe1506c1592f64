---------------------------- MODULE UstvaProofs ----------------------------
(* Proofs about Ustva, for every set of invoices, of requests and of days   *)
(* of the job, and every length of the quarter.                             *)
EXTENDS Ustva, TLAPS, WellFoundedInduction, FiniteSetTheorems

-----------------------------------------------------------------------------
(* Induction over the subsets of a finite set: what holds of a set when it  *)
(* holds of the set without any one of its members holds of every subset.   *)
LEMMA SubsetInduction ==
  ASSUME NEW S, IsFiniteSet(S), NEW T,
         \A s \in SUBSET S : (\A x \in s : s \ {x} \in T) => s \in T
  PROVE  SUBSET S \subseteq T
<1> SUFFICES ASSUME (SUBSET S) \ T # {} PROVE FALSE
  OBVIOUS
<1>1. FiniteSubsetsOf(S) = SUBSET S
  BY FS_FiniteSubsetsOfFinite, Zenon
<1>2. IsWellFoundedOn(StrictSubsetOrdering(S), SUBSET S)
  <2>1. IsWellFoundedOn(StrictSubsetOrdering(S), FiniteSubsetsOf(S))
    BY FS_StrictSubsetOrderingWellFounded, Zenon
  <2>2. QED
    BY <1>1, <2>1, Zenon
<1>3. PICK s \in (SUBSET S) \ T :
        \A t \in (SUBSET S) \ T : <<t, s>> \notin StrictSubsetOrdering(S)
  <2>1. (SUBSET S) \ T \subseteq SUBSET S
    OBVIOUS
  <2>2. QED
    BY <1>2, <2>1, WFMin, Zenon
<1>4. PICK x \in s : s \ {x} \notin T
  OBVIOUS
<1>5. <<s \ {x}, s>> \in StrictSubsetOrdering(S)
  BY DEF StrictSubsetOrdering
<1>6. QED
  BY <1>3, <1>4, <1>5

(* The sum over S is what one function over the subsets of S says of S.     *)
Foremost(s) == CHOOSE x \in s : TRUE
Adds(g, A, S) ==
  g = [s \in SUBSET S |-> IF s = {} THEN 0 ELSE A[Foremost(s)] + g[s \ {Foremost(s)}]]

(* SumOver is this function, when there is one.                              *)
LEMMA SumIs ==
  ASSUME NEW A, NEW S
  PROVE  SumOver(A, S) = (CHOOSE g : Adds(g, A, S))[S]
BY DEF SumOver, FoldFunctionOnSet, MapThenFoldSet, Adds, Foremost

LEMMA ForemostIn == ASSUME NEW s, s # {} PROVE Foremost(s) \in s
BY DEF Foremost

LEMMA AddsAt ==
  ASSUME NEW A, NEW S, NEW g, Adds(g, A, S), NEW s \in SUBSET S
  PROVE  g[s] = IF s = {} THEN 0 ELSE A[Foremost(s)] + g[s \ {Foremost(s)}]
<1>1. g = [t \in SUBSET S |-> IF t = {} THEN 0 ELSE A[Foremost(t)] + g[t \ {Foremost(t)}]]
  BY DEF Adds
<1>2. PICK h : h = g
  OBVIOUS
<1>3. g = [t \in SUBSET S |-> IF t = {} THEN 0 ELSE A[Foremost(t)] + h[t \ {Foremost(t)}]]
  BY <1>1, <1>2
<1>4. g[s] = IF s = {} THEN 0 ELSE A[Foremost(s)] + h[s \ {Foremost(s)}]
  BY <1>3
<1>5. QED
  BY <1>2, <1>4

(* Two such functions agree wherever both are defined.                      *)
LEMMA AddsAgree ==
  ASSUME NEW A, NEW R, IsFiniteSet(R), NEW S, NEW g, NEW h, Adds(g, A, R), Adds(h, A, S)
  PROVE  \A s \in SUBSET (R \cap S) : g[s] = h[s]
<1> DEFINE T == {s \in SUBSET (R \cap S) : g[s] = h[s]}
<1>1. ASSUME NEW s \in SUBSET (R \cap S), \A x \in s : s \ {x} \in T PROVE s \in T
  <2>0. s \in SUBSET R /\ s \in SUBSET S
    OBVIOUS
  <2>1. g[s] = IF s = {} THEN 0 ELSE A[Foremost(s)] + g[s \ {Foremost(s)}]
    BY <2>0, AddsAt
  <2>11. h[s] = IF s = {} THEN 0 ELSE A[Foremost(s)] + h[s \ {Foremost(s)}]
    BY <2>0, AddsAt
  <2>2. s # {} => g[s \ {Foremost(s)}] = h[s \ {Foremost(s)}]
    BY <1>1, ForemostIn
  <2>3. QED
    BY <2>1, <2>11, <2>2
<1>2. IsFiniteSet(R \cap S)
  BY FS_Intersection
<1>3. SUBSET (R \cap S) \subseteq T
  <2> HIDE DEF T
  <2>1. PICK U : U = R \cap S
    OBVIOUS
  <2>2. \A s \in SUBSET U : (\A x \in s : s \ {x} \in T) => s \in T
    BY <1>1, <2>1
  <2>3. IsFiniteSet(U)
    BY <1>2, <2>1
  <2>4. SUBSET U \subseteq T
    BY <2>2, <2>3, SubsetInduction
  <2>5. QED
    BY <2>1, <2>4
<1>4. QED
  BY <1>3

(* There is one: at each subset it takes the value of the next smaller one. *)
LEMMA AddsExists ==
  ASSUME NEW A, NEW S, IsFiniteSet(S)
  PROVE  \E g : Adds(g, A, S)
<1> DEFINE Known(s) == \A u \in SUBSET s : \E g : Adds(g, A, u)
           T == {s \in SUBSET S : Known(s)}
           c == [u \in SUBSET S |-> CHOOSE g : Adds(g, A, u)]
           d == [u \in SUBSET S |-> c[u][u]]
           e(s) == [t \in SUBSET s |-> IF t = {} THEN 0 ELSE A[Foremost(t)] + d[t \ {Foremost(t)}]]
<1>1. ASSUME NEW u \in SUBSET S, Known(u)
      PROVE  d[u] = IF u = {} THEN 0 ELSE A[Foremost(u)] + d[u \ {Foremost(u)}]
  <2>1. Adds(c[u], A, u)
    BY <1>1
  <2>2. c[u][u] = IF u = {} THEN 0 ELSE A[Foremost(u)] + c[u][u \ {Foremost(u)}]
    BY <2>1, AddsAt
  <2>3. ASSUME u # {} PROVE c[u][u \ {Foremost(u)}] = d[u \ {Foremost(u)}]
    <3> DEFINE v == u \ {Foremost(u)}
    <3>1. v \in SUBSET S /\ v \in SUBSET u /\ v \in SUBSET (u \cap v)
      OBVIOUS
    <3>2. Adds(c[v], A, v)
      BY <1>1, <3>1
    <3>3. IsFiniteSet(u)
      BY FS_Subset
    <3> HIDE DEF c, v
    <3>4. c[u][v] = c[v][v]
      BY <2>1, <3>1, <3>2, <3>3, AddsAgree
    <3>5. QED
      BY <3>1, <3>4 DEF v
  <2>4. QED
    BY <2>2, <2>3
<1> HIDE DEF c, d
<1>2. ASSUME NEW s \in SUBSET S, \A x \in s : s \ {x} \in T PROVE s \in T
  <2>1. ASSUME NEW u \in SUBSET s, u # s PROVE Known(u)
    <3>1. PICK x \in s : x \notin u
      BY <2>1
    <3>2. QED
      BY <1>2, <3>1
  <2>2. ASSUME NEW u \in SUBSET s, u # s PROVE e(s)[u] = d[u]
    <3>1. d[u] = IF u = {} THEN 0 ELSE A[Foremost(u)] + d[u \ {Foremost(u)}]
      BY <1>1, <2>1, <2>2
    <3>2. QED
      BY <3>1
  <2>3. ASSUME NEW t \in SUBSET s, t # {}
        PROVE  e(s)[t \ {Foremost(t)}] = d[t \ {Foremost(t)}]
    BY <2>2, <2>3, ForemostIn
  <2>4. e(s) = [t \in SUBSET s |-> IF t = {} THEN 0
                                   ELSE A[Foremost(t)] + e(s)[t \ {Foremost(t)}]]
    <3>1. PICK f : f = e(s)
      OBVIOUS
    <3>2. \A t \in SUBSET s : t # {} => f[t \ {Foremost(t)}] = d[t \ {Foremost(t)}]
      BY <2>3, <3>1
    <3>3. f = [t \in SUBSET s |-> IF t = {} THEN 0 ELSE A[Foremost(t)] + f[t \ {Foremost(t)}]]
      BY <3>1, <3>2
    <3>4. QED
      BY <3>1, <3>3
  <2>5. Adds(e(s), A, s)
    BY <2>4 DEF Adds
  <2>6. QED
    <3> HIDE DEF e
    <3>1. ASSUME NEW u \in SUBSET s PROVE \E g : Adds(g, A, u)
      BY <2>1, <2>5
    <3>2. QED
      BY <3>1
<1>3. SUBSET S \subseteq T
  <2> HIDE DEF T
  <2>1. QED
    BY <1>2, SubsetInduction
<1>4. QED
  BY <1>3

(* A sum of naturals is a natural.                                          *)
LEMMA SumIsNat ==
  ASSUME NEW S, IsFiniteSet(S), NEW A, \A x \in S : A[x] \in Nat
  PROVE  SumOver(A, S) \in Nat
<1>1. PICK g : Adds(g, A, S) /\ SumOver(A, S) = g[S]
  BY AddsExists, SumIs
<1> DEFINE T == {s \in SUBSET S : g[s] \in Nat}
<1>2. ASSUME NEW s \in SUBSET S, \A x \in s : s \ {x} \in T PROVE s \in T
  <2>1. g[s] = IF s = {} THEN 0 ELSE A[Foremost(s)] + g[s \ {Foremost(s)}]
    BY <1>1, AddsAt
  <2>2. s # {} => g[s \ {Foremost(s)}] \in Nat /\ A[Foremost(s)] \in Nat
    BY <1>2, ForemostIn
  <2>3. QED
    BY <2>1, <2>2
<1>3. SUBSET S \subseteq T
  <2> HIDE DEF T
  <2>1. QED
    BY <1>2, SubsetInduction
<1>4. QED
  BY <1>1, <1>3

(* A sum of no larger terms is no larger.                                   *)
LEMMA SumGrows ==
  ASSUME NEW S, IsFiniteSet(S), NEW A, NEW B,
         \A x \in S : A[x] \in Nat /\ B[x] \in Nat /\ A[x] <= B[x]
  PROVE  SumOver(A, S) <= SumOver(B, S)
<1>1. PICK g : Adds(g, A, S) /\ SumOver(A, S) = g[S]
  BY AddsExists, SumIs
<1>2. PICK h : Adds(h, B, S) /\ SumOver(B, S) = h[S]
  BY AddsExists, SumIs
<1> DEFINE T == {s \in SUBSET S : g[s] \in Nat /\ h[s] \in Nat /\ g[s] <= h[s]}
<1>3. ASSUME NEW s \in SUBSET S, \A x \in s : s \ {x} \in T PROVE s \in T
  <2>1. g[s] = IF s = {} THEN 0 ELSE A[Foremost(s)] + g[s \ {Foremost(s)}]
    BY <1>1, AddsAt
  <2>2. h[s] = IF s = {} THEN 0 ELSE B[Foremost(s)] + h[s \ {Foremost(s)}]
    BY <1>2, AddsAt
  <2>3. s # {} => /\ s \ {Foremost(s)} \in T
                  /\ A[Foremost(s)] \in Nat /\ B[Foremost(s)] \in Nat
                  /\ A[Foremost(s)] <= B[Foremost(s)]
    BY <1>3, ForemostIn
  <2>4. QED
    BY <2>1, <2>2, <2>3
<1>4. SUBSET S \subseteq T
  <2> HIDE DEF T
  <2>1. QED
    BY <1>3, SubsetInduction
<1>5. QED
  BY <1>1, <1>2, <1>4

-----------------------------------------------------------------------------
(* A day of the model belongs to one of its quarters.                       *)
LEMMA DivisionGrows ==
  ASSUME NEW n \in Nat \ {0}, NEW a \in Nat, NEW b \in Nat, a <= b
  PROVE  a \div n \in Nat /\ b \div n \in Nat /\ a \div n <= b \div n
<1>1. /\ a \div n \in Nat /\ a % n \in Nat /\ a % n < n
      /\ b \div n \in Nat /\ b % n \in Nat /\ b % n < n
  OBVIOUS
<1>2. a = n * (a \div n) + (a % n) /\ b = n * (b \div n) + (b % n)
  OBVIOUS
<1>3. ASSUME NEW x \in Nat, NEW y \in Nat, NEW r \in Nat, NEW s \in Nat,
             r < n, s < n, n * x + r <= n * y + s
      PROVE  x <= y
  <2>1. SUFFICES ASSUME x >= y + 1 PROVE FALSE
    OBVIOUS
  <2>2. n * x >= n * (y + 1)
    BY <2>1
  <2>3. n * (y + 1) = n * y + n
    OBVIOUS
  <2>4. QED
    BY <1>3, <2>2, <2>3
<1>4. QED
  BY <1>1, <1>2, <1>3

LEMMA DayIsInAQuarter ==
  ASSUME NEW d \in 0..LastDay
  PROVE  current_quarter(d) \in Quarters
<1>1. QuarterLength \in Nat \ {0} /\ LastDay \in Nat /\ d \in Nat /\ d <= LastDay
  BY BoundsAssumption
<1>2. d \div QuarterLength \in Nat /\ LastDay \div QuarterLength \in Nat
      /\ d \div QuarterLength <= LastDay \div QuarterLength
  BY <1>1, DivisionGrows
<1>3. QED
  BY <1>2 DEF current_quarter, Quarters

LEMMA ActorFacts ==
  /\ 0 \in Quarters
  /\ Job \in Actors /\ Job \notin Approvals /\ Job \notin Prepares
  /\ Prepares \cap Approvals = {}
  /\ LastDay \in Nat
<1>1. LastDay \in Nat /\ QuarterLength \in Nat \ {0}
  BY BoundsAssumption
<1>2. LastDay \div QuarterLength \in Nat
  BY <1>1, DivisionGrows
<1>3. 0 \in Quarters
  BY <1>2 DEF Quarters
<1>4. QED
  BY <1>1, <1>3, BoundsAssumption DEF Actors

-----------------------------------------------------------------------------
(* The types.                                                               *)
Places == {"idle", "loaded", "computed", "flushed", "done", "failed", "dead"}
Rows == [status : UstvaStatus, payload : Figures, approved_at : BOOLEAN]
States == [at : Places, q : Quarters, was : UstvaStatus, had : Figures, payload : Figures]
Typed == period \in [Quarters -> Rows] /\ actor \in [Actors -> States]
Mirrored == books \in [Invoices -> {"none", "open", "paid"}] /\ crashes \in 0..MaxCrashes
Shape == day \in 0..LastDay /\ Typed /\ Mirrored

LEMMA AsleepType ==
  /\ Asleep \in States /\ NoPeriod \in Rows
  /\ \A how \in Places : [Asleep EXCEPT !.at = how] \in States
BY ActorFacts DEF Asleep, NoPeriod, NoFigures, Figures, States, Rows, Places, UstvaStatus

(* The figures of a quarter are naturals: what is open is part of the whole.*)
LEMMA PayloadType ==
  ASSUME Mirrored, NEW q
  PROVE  compute_payload(q) \in Figures
<1> DEFINE A == [i \in Invoices |-> total_net(i)]
<1>1. Booked(q) \subseteq Invoices /\ IsFiniteSet(Booked(q))
  BY BooksAssumption, FS_Subset DEF Booked
<1>2. \A i \in Booked(q) : A[i] \in Nat /\ Gross[i] \in Nat /\ A[i] <= Gross[i]
  BY <1>1, BooksAssumption DEF total_net
<1> HIDE DEF A
<1>3. SumOver(A, Booked(q)) \in Nat /\ SumOver(Gross, Booked(q)) \in Nat
  BY <1>1, <1>2, SumIsNat
<1>4. SumOver(A, Booked(q)) <= SumOver(Gross, Booked(q))
  BY <1>1, <1>2, SumGrows
<1>5. compute_payload(q) = [revenue_net |-> SumOver(A, Booked(q)),
                            output_vat |-> SumOver(Gross, Booked(q)) - SumOver(A, Booked(q))]
  BY DEF compute_payload, A
<1>6. QED
  BY <1>3, <1>4, <1>5 DEF Figures

LEMMA StoredType ==
  ASSUME Typed, NEW a \in Actors
  PROVE  Stored(a) \in Rows
<1>1. actor[a] \in States /\ period[actor[a].q] \in Rows
  BY DEF Typed, States
<1>2. Meant(a) \in UstvaStatus
  BY <1>1 DEF Meant, States, UstvaStatus
<1>3. QED
  BY <1>1, <1>2 DEF Stored, States, Rows

LEMMA InitShape == Init => Shape
<1> SUFFICES ASSUME Init PROVE Shape
  OBVIOUS
<1>1. Typed
  BY AsleepType DEF Init, Typed
<1>2. day \in 0..LastDay /\ Mirrored
  BY ActorFacts, BoundsAssumption DEF Init, Mirrored
<1>3. QED
  BY <1>1, <1>2 DEF Shape

(* What the steps of an actor leave of the others, and of its own state.    *)
LEMMA LoadKeeps ==
  ASSUME Typed, NEW a \in Actors, NEW q \in Quarters, LoadPeriod(a, q)
  PROVE  /\ Typed' /\ actor'[a].at = "loaded" /\ actor'[a].q = q
         /\ \A b \in Actors \ {a} : actor'[b] = actor[b]
<1> DEFINE new == [Asleep EXCEPT !.at = "loaded", !.q = q,
                     !.was = period[q].status, !.had = period[q].payload]
<1>1. actor' = [actor EXCEPT ![a] = new]
  BY DEF LoadPeriod
<1>2. Asleep \in States /\ period[q].status \in UstvaStatus /\ period[q].payload \in Figures
  BY AsleepType DEF Typed, Rows
<1>3. new \in States /\ new.at = "loaded" /\ new.q = q
  BY <1>2 DEF States, Places
<1> HIDE DEF new
<1>4. actor' \in [Actors -> States] /\ actor'[a] = new
      /\ \A b \in Actors \ {a} : actor'[b] = actor[b]
  BY <1>1, <1>3 DEF Typed
<1>5. QED
  BY <1>3, <1>4 DEF Typed, LoadPeriod

LEMMA EndKeeps ==
  ASSUME Typed, NEW a \in Actors, NEW how \in {"done", "failed", "dead"}, End(a, how)
  PROVE  /\ actor' \in [Actors -> States]
         /\ actor'[a].at = how
         /\ \A b \in Actors \ {a} : actor'[b] = actor[b]
<1>1. [Asleep EXCEPT !.at = how] \in States
  BY AsleepType DEF Typed, Places
<1>2. actor' \in [Actors -> States] /\ actor'[a] = [Asleep EXCEPT !.at = how]
      /\ \A b \in Actors \ {a} : actor'[b] = actor[b]
  BY <1>1 DEF End, Typed
<1>3. QED
  BY <1>2 DEF Asleep

LEMMA BecomeKeeps ==
  ASSUME Typed, NEW a \in Actors, NEW at \in Places, Become(a, at)
  PROVE  /\ actor' \in [Actors -> States]
         /\ actor'[a].at = at /\ actor'[a].q = actor[a].q
         /\ actor'[a].was = actor[a].was
         /\ \A b \in Actors \ {a} : actor'[b] = actor[b]
BY DEF Become, Typed, States

LEMMA ComputeKeeps ==
  ASSUME Typed, Mirrored, NEW a \in Actors, Compute(a)
  PROVE  /\ Typed'
         /\ actor'[a].at = "computed" /\ actor'[a].q = actor[a].q
         /\ \A b \in Actors \ {a} : actor'[b] = actor[b]
<1>1. PICK f \in Figures : f = compute_payload(actor[a].q)
  BY PayloadType
<1> DEFINE new == [actor[a] EXCEPT !.at = "computed", !.payload = f]
<1>2. actor' = [actor EXCEPT ![a] = new]
  BY <1>1 DEF Compute
<1>3. new \in States /\ new.at = "computed" /\ new.q = actor[a].q
  BY DEF Typed, States, Places
<1> HIDE DEF new
<1>4. actor' \in [Actors -> States] /\ actor'[a] = new
      /\ \A b \in Actors \ {a} : actor'[b] = actor[b]
  BY <1>2, <1>3 DEF Typed
<1>5. QED
  BY <1>3, <1>4 DEF Typed, Compute

-----------------------------------------------------------------------------
(* The inductive invariant.                                                 *)
IInv == Shape /\ StampedWhenApproved /\ FlushedInv

LEMMA InitInv == Init => IInv
<1> SUFFICES ASSUME Init PROVE IInv
  OBVIOUS
<1>1. Asleep.at = "idle" /\ NoPeriod.status = "none"
  BY DEF Asleep, NoPeriod
<1>2. QED
  BY <1>1, InitShape DEF IInv, Init, StampedWhenApproved, FlushedInv, At

(* A step of one actor that writes no period and does not flush.            *)
LEMMA QuietStep ==
  ASSUME IInv, Shape', NEW a \in Actors, period' = period,
         \A b \in Actors \ {a} : actor'[b] = actor[b],
         actor'[a].at # "flushed"
  PROVE  IInv'
BY DEF IInv, StampedWhenApproved, FlushedInv, At

LEMMA StoredStatus ==
  ASSUME IInv, NEW a \in Actors, At(a, "flushed"), Stored(a).status = "approved"
  PROVE  Stored(a).approved_at
<1>1. Typed
  BY DEF IInv, Shape
<1>2. actor[a].q \in Quarters /\ period[actor[a].q].approved_at \in BOOLEAN
  BY <1>1 DEF Typed, States, Rows
<1>3. CASE a \in Approvals
  BY <1>2, <1>3 DEF Stored
<1>4. CASE a \notin Approvals
  <2>1. period[actor[a].q].status = "approved"
    BY <1>4 DEF Stored, Meant
  <2>2. QED
    BY <1>2, <2>1 DEF IInv, StampedWhenApproved, Stored
<1>5. QED
  BY <1>3, <1>4

LEMMA StepInv == IInv /\ [Next]_vars => IInv'
<1> SUFFICES ASSUME IInv, [Next]_vars PROVE IInv'
  OBVIOUS
<1>0. Typed /\ Mirrored /\ day \in 0..LastDay
  BY DEF IInv, Shape
<1>1. ASSUME NEW a \in Actors, StartPrepare(a) PROVE IInv'
  BY <1>0, <1>1, LoadKeeps, DayIsInAQuarter, QuietStep
     DEF StartPrepare, LoadPeriod, Shape, Mirrored
<1>2. ASSUME StartJob PROVE IInv'
  BY <1>0, <1>2, ActorFacts, LoadKeeps, DayIsInAQuarter, QuietStep
     DEF StartJob, LoadPeriod, Shape, Mirrored
<1>3. ASSUME NEW a \in Actors, Approve(a) PROVE IInv'
  <2>1. PICK q \in Quarters : a \in Approvals /\ LoadPeriod(a, q)
    BY <1>3 DEF Approve
  <2>2. QED
    BY <1>0, <2>1, LoadKeeps, QuietStep DEF LoadPeriod, Shape, Mirrored
<1>4. ASSUME NEW a \in Actors, Compute(a) PROVE IInv'
  BY <1>0, <1>4, ComputeKeeps, QuietStep DEF Compute, Shape, Mirrored
<1>5. ASSUME NEW a \in Actors, Flush(a) PROVE IInv'
  <2>1. CASE Conflict(a)
    <3>1. End(a, "failed")
      BY <1>5, <2>1 DEF Flush
    <3>2. Shape'
      BY <1>0, <1>5, <3>1, EndKeeps DEF Flush, Shape, Mirrored, Typed
    <3>3. QED
      BY <1>0, <1>5, <3>1, <3>2, EndKeeps, QuietStep DEF Flush
  <2>2. CASE ~Conflict(a)
    <3>1. Become(a, "flushed") /\ "flushed" \in Places
      BY <1>5, <2>2 DEF Flush, Places
    <3>2. /\ actor' \in [Actors -> States]
          /\ actor'[a].q = actor[a].q
          /\ actor'[a].was = actor[a].was
          /\ \A b \in Actors \ {a} : actor'[b] = actor[b]
      BY <1>0, <3>1, BecomeKeeps
    <3>3. period' = period /\ day' = day /\ Mirrored'
      BY <1>0, <1>5 DEF Flush, Mirrored
    <3>4. Shape'
      BY <1>0, <3>2, <3>3 DEF Shape, Typed
    <3>5. /\ actor[a].was = "none" => period[actor[a].q].status = "none"
          /\ \A b \in Actors \ {a} : At(b, "flushed") => actor[b].q # actor[a].q
      BY <1>5, <2>2 DEF Conflict, Flush, Taken
    <3>6. FlushedInv'
      BY <3>2, <3>3, <3>5 DEF IInv, FlushedInv, At
    <3>7. StampedWhenApproved'
      BY <3>3 DEF IInv, StampedWhenApproved
    <3>8. QED
      BY <3>4, <3>6, <3>7 DEF IInv
  <2>3. QED
    BY <2>1, <2>2
<1>6. ASSUME NEW a \in Actors, Commit(a) PROVE IInv'
  <2>1. /\ actor' \in [Actors -> States] /\ actor'[a].at = "done"
        /\ \A b \in Actors \ {a} : actor'[b] = actor[b]
    BY <1>0, <1>6, EndKeeps DEF Commit
  <2>2. actor[a].q \in Quarters /\ Stored(a) \in Rows /\ day' = day
    BY <1>0, <1>6, StoredType DEF Commit, Typed, States
  <2>3. /\ period' \in [Quarters -> Rows] /\ period'[actor[a].q] = Stored(a)
        /\ \A q \in Quarters \ {actor[a].q} : period'[q] = period[q]
    BY <1>0, <1>6, <2>2 DEF Commit, Typed
  <2>31. Mirrored'
    BY <1>0, <1>6, <2>2 DEF Commit, Mirrored
  <2>4. Shape'
    BY <1>0, <2>1, <2>2, <2>3, <2>31 DEF Shape, Typed
  <2>5. StampedWhenApproved'
    BY <1>6, <2>3, StoredStatus DEF IInv, StampedWhenApproved, Commit
  <2>6. \A b \in Actors \ {a} : At(b, "flushed") =>
          actor[b].q # actor[a].q /\ actor[b].q \in Quarters
    BY <1>0, <1>6 DEF IInv, FlushedInv, Commit, Typed, States
  <2>7. FlushedInv'
    BY <2>1, <2>3, <2>6 DEF IInv, FlushedInv, At
  <2>8. QED
    BY <2>4, <2>5, <2>7 DEF IInv
<1>7. ASSUME NEW a \in Actors, Crash(a) PROVE IInv'
  <2>1. Shape'
    <3>1. Mirrored'
      BY <1>0, <1>7, BoundsAssumption DEF Crash, Mirrored
    <3>2. day' = day /\ period' = period /\ actor' \in [Actors -> States]
      BY <1>0, <1>7, EndKeeps DEF Crash
    <3>3. QED
      BY <1>0, <3>1, <3>2 DEF Shape, Typed
  <2>2. QED
    BY <1>0, <1>7, <2>1, EndKeeps, QuietStep DEF Crash
<1>8. ASSUME NEW i \in Invoices, SyncBooks(i) PROVE IInv'
  <2>1. Mirrored'
    BY <1>0, <1>8 DEF SyncBooks, Mirrored
  <2>2. UNCHANGED <<day, period, actor>>
    BY <1>8 DEF SyncBooks
  <2>3. Shape'
    BY <1>0, <2>1, <2>2 DEF Shape, Typed
  <2>4. StampedWhenApproved' /\ FlushedInv'
    BY <2>2 DEF IInv, StampedWhenApproved, FlushedInv, At
  <2>5. QED
    BY <2>3, <2>4 DEF IInv
<1>9. ASSUME NextDay PROVE IInv'
  <2>1. day' \in 0..LastDay /\ period' = period /\ Mirrored'
    BY <1>0, <1>9, ActorFacts DEF NextDay, Mirrored
  <2>2. CASE UNCHANGED actor
    BY <1>0, <2>1, <2>2
       DEF IInv, Shape, Typed, StampedWhenApproved, FlushedInv, At
  <2>3. CASE actor' = [actor EXCEPT ![Job] = Asleep]
    <3>1. /\ actor' \in [Actors -> States] /\ actor'[Job] = Asleep
          /\ \A b \in Actors \ {Job} : actor'[b] = actor[b]
      BY <1>0, <2>3, ActorFacts, AsleepType DEF Typed
    <3>2. Shape'
      BY <1>0, <2>1, <3>1 DEF Shape, Typed
    <3>3. Asleep.at = "idle"
      BY DEF Asleep
    <3>4. QED
      BY <2>1, <3>1, <3>2, <3>3, ActorFacts, QuietStep
  <2>4. QED
    BY <1>9, <2>2, <2>3 DEF NextDay
<1>10. CASE UNCHANGED vars
  BY <1>10 DEF vars, IInv, Shape, Mirrored, Typed, StampedWhenApproved, FlushedInv, At
<1>11. QED
  BY <1>1, <1>2, <1>3, <1>4, <1>5, <1>6, <1>7, <1>8, <1>9, <1>10 DEF Next, Step

(* IInv holds at first, and no request, job, crash or sync breaks it.       *)
THEOREM InductiveInvariantThm == Spec => []IInv
<1>1. QED
  BY InitInv, StepInv, PTL DEF Spec

(* The figures of every period and every computation are naturals, and what *)
(* the requests keep is of its type, whatever the books become meanwhile.   *)
THEOREM TypeCorrect == Spec => []TypeOK
<1>1. IInv => TypeOK
  BY DEF IInv, Shape, Typed, Mirrored, Rows, States, Places, TypeOK
<1>2. QED
  BY <1>1, InductiveInvariantThm, PTL

(* An approved period has the time of its approval, however prepares, the   *)
(* job and approvals of one quarter overlap.                                *)
THEOREM StampedWhenApprovedThm == Spec => []StampedWhenApproved
<1>1. IInv => StampedWhenApproved
  BY DEF IInv
<1>2. QED
  BY <1>1, InductiveInvariantThm, PTL

-----------------------------------------------------------------------------
(* The action properties: a period changes only when somebody commits it.   *)
LEMMA ChangedByCommit ==
  ASSUME [Next]_vars, period' # period
  PROVE  \E a \in Actors : Commit(a)
BY DEF Next, Step, StartPrepare, StartJob, LoadPeriod, Approve, Compute, Flush, Crash,
       SyncBooks, NextDay, vars

LEMMA CommitStores ==
  ASSUME Typed, NEW a \in Actors, Commit(a), NEW q \in Quarters
  PROVE  IF q = actor[a].q THEN period'[q] = Stored(a) ELSE period'[q] = period[q]
BY DEF Commit, Typed

LEMMA StepReopens ==
  ASSUME IInv, [Next]_vars, NEW q \in Quarters,
         period[q].status = "approved", period'[q].status # "approved"
  PROVE  \E a \in Prepares : At(a, "flushed") /\ actor[a].q = q /\ actor[a].was = "approved"
<1>1. Typed
  BY DEF IInv, Shape
<1>2. PICK a \in Actors : Commit(a)
  BY ChangedByCommit
<1>3. At(a, "flushed") /\ actor[a].q = q /\ Stored(a).status # "approved"
  BY <1>1, <1>2, CommitStores DEF Commit
<1>4. Meant(a) # actor[a].was /\ Meant(a) # "approved"
  BY <1>3 DEF Stored
<1>5. actor[a].was # "none" /\ actor[a].was \in UstvaStatus
  BY <1>1, <1>3 DEF IInv, FlushedInv, Typed, States
<1>6. a \in Prepares /\ actor[a].was = "approved"
  BY <1>4, <1>5 DEF Meant, UstvaStatus
<1>7. QED
  BY <1>3, <1>6

(* Only a prepare request that has seen the approval takes it back.         *)
THEOREM OnlyPrepareReopensThm == Spec => OnlyPrepareReopens
<1>1. IInv /\ [Next]_vars =>
        [\A q \in Quarters : period[q].status = "approved" /\ period'[q].status # "approved"
           => \E a \in Prepares : At(a, "flushed") /\ actor[a].q = q
                                  /\ actor[a].was = "approved"]_vars
  BY StepReopens
<1>2. QED
  BY <1>1, InductiveInvariantThm, PTL DEF Spec, OnlyPrepareReopens

LEMMA StepRefigures ==
  ASSUME IInv, [Next]_vars, NEW q \in Quarters,
         period[q].status = "approved", period'[q].status = "approved",
         period'[q].payload # period[q].payload
  PROVE  \E a \in Prepares \cup {Job} :
           /\ At(a, "flushed") /\ actor[a].q = q
           /\ a # Job => actor[a].was = "review"
<1>1. Typed
  BY DEF IInv, Shape
<1>2. PICK a \in Actors : Commit(a)
  BY ChangedByCommit
<1>3. /\ At(a, "flushed") /\ actor[a].q = q
      /\ Stored(a).payload # period[q].payload /\ Stored(a).status = "approved"
  BY <1>1, <1>2, CommitStores DEF Commit
<1>4. a \in Prepares \cup {Job}
  BY <1>3 DEF Stored, Actors
<1>5. actor[a].was # "none" /\ actor[a].was \in UstvaStatus
  BY <1>1, <1>3 DEF IInv, FlushedInv, Typed, States
<1>6. ASSUME a \in Prepares PROVE actor[a].was # "approved"
  BY <1>3, <1>6, ActorFacts DEF Stored, Meant
<1>7. QED
  BY <1>3, <1>4, <1>5, <1>6 DEF UstvaStatus

(* The figures of an approved period are replaced under its approval only   *)
(* by the job, or by a prepare that loaded the row while it was in review,  *)
(* whatever requests overlap and die.                                       *)
THEOREM ApprovedFiguresKeptThm == Spec => ApprovedFiguresKept
<1>1. IInv /\ [Next]_vars =>
        [\A q \in Quarters :
           /\ period[q].status = "approved" /\ period'[q].status = "approved"
           /\ period'[q].payload # period[q].payload
           => \E a \in Prepares \cup {Job} :
                /\ At(a, "flushed") /\ actor[a].q = q
                /\ a # Job => actor[a].was = "review"]_vars
  BY StepRefigures
<1>2. QED
  BY <1>1, InductiveInvariantThm, PTL DEF Spec, ApprovedFiguresKept
=============================================================================
