----------------------------- MODULE Liquidity -----------------------------
(* The liquidity snapshot (liquidity/engine.py) with what it adds up: the   *)
(* monthly burn of the recurring expenses (expenses/engine.py), the open    *)
(* invoices, and the unbilled hours (timetracking/engine.py). The           *)
(* projection walks from the day of the snapshot to the day the balance     *)
(* falls below zero; each step is one turn of its loop.                     *)
(*                                                                          *)
(* Money is in cents, the balance of the walk in hundredths of a cent, so   *)
(* that a percentage of an amount is exact. A date or amount that is NULL   *)
(* is Never or NoAmount.                                                    *)
EXTENDS Calendar, Functions

CONSTANTS
  Ledgers,       \* the tables a snapshot may find
  SnapshotDays,  \* the days one is asked for, by the Monday job or the API
  Horizon,       \* days of the walk (540), within the calendar of the model
  WarningDays,   \* LIQUIDITY_RUNWAY_WARNING_DAYS
  NoAmount

Never == LastDay + 10000
Dated == Int
Amount == Nat \cup {NoAmount}

Expense == [amount : Nat, cadence : {1, 3, 12}, active : BOOLEAN, from : Dated, until : Dated,
            next_amount : Nat, next_from : Dated]
Invoice == [number : Nat, status : {"open", "overdue", "paid", "draft", "cancelled"},
            due : Dated, gross : Amount]
Entry   == [id : Nat, date : Dated, hours : Nat, project : STRING, billable : BOOLEAN,
            billed : BOOLEAN]
ASSUME LedgersAssumption ==
  \A L \in Ledgers :
    /\ L.opening \in Nat \ {0} /\ L.rate \in 0..100
    /\ L.expenses \subseteq Expense /\ L.invoices \subseteq Invoice /\ L.entries \subseteq Entry
    /\ IsFiniteSet(L.expenses) /\ IsFiniteSet(L.invoices)
    /\ IsFiniteSet(L.entries) /\ IsFiniteSet(DOMAIN L.projects)
    /\ \A p \in DOMAIN L.projects : p # "none" /\ L.projects[p].hourly_rate \in Amount
    /\ \A e \in L.entries : e.project \in DOMAIN L.projects \cup {"none"}
ASSUME SnapshotAssumption ==
  Horizon \in 0..700 /\ WarningDays \in Nat /\ NoAmount \notin Nat

VARIABLE walk

-----------------------------------------------------------------------------
(* Decimal.quantize: half to even.                                          *)
Quantize(x, k) ==
  LET q == x \div k
      r == 2 * (x % k)
  IN IF r > k \/ (r = k /\ q % 2 = 1) THEN q + 1 ELSE q

is_active_on(e, n) == e.active /\ e.from <= n /\ n <= e.until
effective_amount(e, n) == IF e.next_from <= n THEN e.next_amount ELSE e.amount
(* In twelfths of a cent: a cadence is one, three or twelve months.         *)
yearly_cost(L, n) ==
  SumFunction([e \in {x \in L.expenses : is_active_on(x, n)} |->
                 effective_amount(e, n) * (12 \div e.cadence)])
monthly_burn(L, n) == Quantize(yearly_cost(L, n), 12)

_open_invoices(L) ==
  {i \in L.invoices : i.status \in {"open", "overdue"} /\ i.due # Never /\ i.gross # NoAmount}
inflow(L, n) == SumFunction([i \in {x \in _open_invoices(L) : x.due = n} |-> i.gross])

(* Twelve month ends, as the digest lists them.                             *)
scheduled_outflows(n) ==
  LET cursor[k \in 1..12] == _end_of_month(IF k = 1 THEN n ELSE cursor[k - 1] + 1)
  IN {cursor[k] : k \in 1..12}

-----------------------------------------------------------------------------
(* Hours in hundredths. Projects of the same name share a line, as do       *)
(* entries without a project.                                               *)
Hours(E) == SumFunction([e \in E |-> e.hours])
hours_summary(L, b) ==
  LET E == {e \in L.entries : b.start <= e.date /\ e.date <= b.end}
      name(e) == IF e.project = "none" THEN "(no project)" ELSE L.projects[e.project].name
  IN [total |-> Hours(E), billable |-> Hours({e \in E : e.billable}),
      billed |-> Hours({e \in E : e.billed}),
      by_project |-> [x \in {name(e) : e \in E} |-> Hours({e \in E : name(e) = x})]]
Priced(L) ==
  {e \in L.entries : e.billable /\ ~e.billed /\ e.project # "none"
                     /\ L.projects[e.project].hourly_rate # NoAmount}
unbilled_value(L) ==
  Quantize(SumFunction([e \in Priced(L) |-> e.hours * L.projects[e.project].hourly_rate]), 100)

-----------------------------------------------------------------------------
Idle == [at |-> "idle"]
TypeOK ==
  /\ day \in 0..LastDay
  /\ walk.at \in {"idle", "walking", "done"}
  /\ walk.at # "idle" =>
       /\ walk.ledger \in Ledgers
       /\ walk.cursor \in day..day + Horizon
       /\ {walk.balance, walk.revenue, walk.burn} \subseteq Int
       /\ walk.charged \subseteq day..day + Horizon
       /\ walk.runway \in (day..day + Horizon) \cup {Never}

WalkInit == Init /\ walk = Idle

(* compute_snapshot: the balance is set by hand, burn and invoices read.    *)
Snapshot(L) ==
  /\ walk.at = "idle" /\ day \in SnapshotDays
  /\ walk' = [at |-> "walking", ledger |-> L, cursor |-> day, balance |-> 100 * L.opening,
              revenue |-> 0, burn |-> monthly_burn(L, day), charged |-> {}, runway |-> Never]
  /\ UNCHANGED day

MutForgetsRevenue(w) ==
  IF w.cursor # _end_of_month(w.cursor) THEN w
  ELSE [w EXCEPT !.balance = @ - 100 * w.burn - w.ledger.rate * w.revenue,
                 !.charged = @ \cup {w.cursor}]
MonthEnd(w) ==
  IF w.cursor # _end_of_month(w.cursor) THEN w
  ELSE [w EXCEPT !.balance = @ - 100 * w.burn - w.ledger.rate * w.revenue,
                 !.charged = @ \cup {w.cursor},
                 !.revenue = 0]

MutWalksOn ==
  LET received == inflow(walk.ledger, walk.cursor)
      w == [walk EXCEPT !.balance = @ + 100 * received, !.revenue = @ + received]
  IN /\ walk.at = "walking" /\ walk.cursor <= day + Horizon
     /\ walk' = IF w.balance < 0 THEN [w EXCEPT !.at = "done", !.runway = w.cursor]
                ELSE [MonthEnd(w) EXCEPT !.cursor = @ + 1]
     /\ UNCHANGED day
(* One turn of the loop of _project_until.                                  *)
WalkDay ==
  LET received == inflow(walk.ledger, walk.cursor)
      w == [walk EXCEPT !.balance = @ + 100 * received, !.revenue = @ + received]
  IN /\ walk.at = "walking" /\ walk.cursor < day + Horizon
     /\ walk' = IF w.balance < 0 THEN [w EXCEPT !.at = "done", !.runway = w.cursor]
                ELSE [MonthEnd(w) EXCEPT !.cursor = @ + 1]
     /\ UNCHANGED day

WalkEnds ==
  /\ walk.at = "walking" /\ walk.cursor = day + Horizon
  /\ walk' = [walk EXCEPT !.at = "done"]
  /\ UNCHANGED day

(* The snapshot is stored with its alerts; the next one starts afresh.      *)
alerts(w) == w.runway # Never /\ w.runway - day <= WarningDays
Store == walk.at = "done" /\ walk' = Idle /\ UNCHANGED day

NextDay == walk.at = "idle" /\ Tomorrow /\ UNCHANGED walk

Next == (\E L \in Ledgers : Snapshot(L)) \/ WalkDay \/ WalkEnds \/ Store \/ NextDay
Spec == WalkInit /\ [][Next]_<<day, walk>>

-----------------------------------------------------------------------------
(* What is in the account on the morning of a day: every open invoice due   *)
(* from the snapshot on, less the burn of every month that ended, less the  *)
(* reserve for what those months received. An invoice already overdue is    *)
(* not counted.                                                             *)
MonthEnds(n) == {k \in day..n - 1 : dayOf(k + 1) = 1}
Received(L, n) ==
  SumFunction([i \in {x \in _open_invoices(L) : day <= x.due /\ x.due <= n} |-> i.gross])
Worth(w, n) ==
  LET ends == MonthEnds(n)
      taxed == IF ends = {} THEN 0 ELSE Received(w.ledger, Max(ends))
  IN 100 * (w.ledger.opening + Received(w.ledger, n) - Cardinality(ends) * w.burn)
       - w.ledger.rate * taxed

RunwayIsFirstNegative(w) ==
  /\ \A n \in day..w.cursor - 1 : Worth(w, n) >= 0
  /\ IF w.runway = Never THEN w.cursor = day + Horizon
     ELSE w.runway = w.cursor /\ Worth(w, w.runway) < 0
WarnsInTime(w) ==
  alerts(w) <=> \E n \in day..day + WarningDays :
                  n < day + Horizon /\ n <= w.cursor /\ Worth(w, n) < 0
OutflowsAreCharged(w) ==
  {n \in w.charged : n < day + 330} = {n \in scheduled_outflows(day) : n < w.cursor /\ n < day + 330}

(* The same hours, cut by week, by project and by price; the burn is the    *)
(* yearly cost of what is active, to half a cent a month.                   *)
HoursAddUp(L) ==
  LET weeks == {week_bounds(n) : n \in day - 35..day + 35}
      s == hours_summary(L, [start |-> week_bounds(day - 35).start, end |-> week_bounds(day + 35).end])
      rated == {p \in DOMAIN L.projects : L.projects[p].hourly_rate # NoAmount}
      open(p) == Hours({e \in L.entries : e.project = p /\ e.billable /\ ~e.billed})
      priced == SumFunction([p \in rated |-> open(p) * L.projects[p].hourly_rate])
  IN /\ SumFunction([b \in weeks |-> hours_summary(L, b).total]) = s.total
     /\ SumFunction(s.by_project) = s.total
     /\ 200 * unbilled_value(L) - 2 * priced \in -100..100
     /\ 2 * (12 * monthly_burn(L, day) - yearly_cost(L, day)) \in -12..12

(* "Walk forward day-by-day; return the first date balance goes negative":  *)
(* it is negative then and on no day before, the warning goes out exactly   *)
(* when it is near, the outflows listed are those the walk charged, and     *)
(* burn and potential are what expenses and hours add up to.                *)
SnapshotAddsUp ==
  walk.at = "done" => /\ RunwayIsFirstNegative(walk) /\ WarnsInTime(walk)
                      /\ OutflowsAreCharged(walk) /\ HoursAddUp(walk.ledger)
=============================================================================
