------------------------------ MODULE Calendar ------------------------------
(* The date arithmetic of the capabilities: business days and recurrences   *)
(* (reminders/rrule.py), quarters (ustva/engine.py), the windows of the     *)
(* time report (timetracking/engine.py) and the end of a month              *)
(* (liquidity/engine.py). The operators are pure; the specification walks   *)
(* through the days so that every one of them is asked about.               *)
(*                                                                          *)
(* A day is a number, 0 being 1 January of FirstYear, a leap year like      *)
(* every fourth (the model ends before 2100).                               *)
EXTENDS Integers, FiniteSets, FiniteSetsExt

CONSTANTS
  FirstYear, FirstWeekday,   \* 1 January 2024 is a Monday (0)
  LastDay,                   \* the last day asked about
  Fixed,                     \* holidays <<month, day>> of every year
  Moveable,                  \* holidays as day numbers
  Anchors,                   \* anchor dates <<month, day>>
  Rules                      \* recurrence rules: the <<month, day>> of a year

ASSUME CalendarAssumption ==
  FirstYear % 4 = 0 /\ FirstYear \in Nat /\ FirstWeekday \in 0..6 /\ LastDay \in Nat

VARIABLE day

-----------------------------------------------------------------------------
(* The proleptic calendar of Python's date.                                 *)
Years == FirstYear - 2 .. FirstYear + LastDay \div 365 + 4
IsLeap(y) == y % 4 = 0
MonthLength == <<31, 28, 31, 30, 31, 30, 31, 31, 30, 31, 30, 31>>
MonthDays == {x \in (1..12) \X (1..31) : x[2] <= MonthLength[x[1]]}
ASSUME DueAssumption ==   \* no rule has 29 February
  /\ \A r \in Rules : r # {} /\ r \subseteq MonthDays
  /\ Anchors \subseteq MonthDays \cup {<<2, 29>>}

monthrange(y, m) == MonthLength[m] + (IF m = 2 /\ IsLeap(y) THEN 1 ELSE 0)
DaysBefore == <<0, 31, 59, 90, 120, 151, 181, 212, 243, 273, 304, 334>>
JanFirst(y) == 365 * (y - FirstYear) + (y - FirstYear + 3) \div 4
MonthFirst(y, m) == JanFirst(y) + DaysBefore[m] + (IF m > 2 /\ IsLeap(y) THEN 1 ELSE 0)
date(y, m, d) == MonthFirst(y, m) + d - 1

Dates ==
  [n \in -400..LastDay + 800 |->
     LET y == CHOOSE y \in Years : JanFirst(y) <= n /\ n < JanFirst(y + 1)
         m == Max({k \in 1..12 : MonthFirst(y, k) <= n})
     IN [year |-> y, month |-> m, day |-> n - MonthFirst(y, m) + 1]]
year(n) == Dates[n].year
month(n) == Dates[n].month
dayOf(n) == Dates[n].day
weekday(n) == (n + FirstWeekday) % 7

-----------------------------------------------------------------------------
(* rrule.py: the holidays of a year are those of the library, which adds a  *)
(* year to its calendar when it is asked about a day of it.                 *)
is_business_day(n) ==
  weekday(n) < 5 /\ <<month(n), dayOf(n)>> \notin Fixed /\ n \notin Moveable

(* No run of free days is longer than 30.                                   *)
ASSUME HolidaysAssumption ==
  \A n \in 0..LastDay + 366 : \E k \in 0..29 : is_business_day(n + k)

MutOnlyWeekends(n) ==
  IF weekday(n) < 5 THEN n ELSE n + 7 - weekday(n)
(* The loop of shift_for_holidays.                                          *)
shift_for_holidays(n) ==
  LET shift[k \in 0..30] ==
        IF k = 30 \/ is_business_day(n + k) THEN n + k ELSE shift[k + 1]
  IN shift[0]

(* rrulestr expands a rule from 1 January of the year of "after".           *)
Expand(rule, after) ==
  {n \in {date(y, r[1], r[2]) : y \in {year(after), year(after) + 1}, r \in rule} : n > after}
next_occurrences(rule, after) == shift_for_holidays(Min(Expand(rule, after)))

(* date(year, month, day) raises ValueError for 29 February in most years.  *)
ValueError == -1000
yearly(anchor, y) ==
  IF anchor[2] > monthrange(y, anchor[1]) THEN ValueError ELSE date(y, anchor[1], anchor[2])
next_anchor_occurrence(anchor, after) ==
  LET this == yearly(anchor, year(after))
      next == yearly(anchor, year(after) + 1)
  IN IF this = ValueError THEN ValueError
     ELSE IF this > after THEN shift_for_holidays(this)
     ELSE IF next = ValueError THEN ValueError
     ELSE shift_for_holidays(next)

-----------------------------------------------------------------------------
(* ustva/engine.py                                                          *)
MutThirtyDays(n) ==
  LET q == (month(n) - 1) \div 3 + 1
      first == (q - 1) * 3 + 1
  IN [year |-> year(n), quarter |-> q,
      start |-> date(year(n), first, 1), end |-> date(year(n), first + 2, 30)]
current_quarter(n) ==
  LET q == (month(n) - 1) \div 3 + 1
      first == (q - 1) * 3 + 1
  IN [year |-> year(n), quarter |-> q,
      start |-> date(year(n), first, 1),
      end   |-> date(year(n), first + 2, monthrange(year(n), first + 2))]
days_until_quarter_end(n) == current_quarter(n).end - n
is_in_preview_window(n) == days_until_quarter_end(n) \in 0..7
ustva_preview == {<<1, 3>>, <<4, 3>>, <<7, 3>>, <<10, 3>>}

(* timetracking/engine.py and liquidity/engine.py                           *)
week_bounds(n) == [start |-> n - weekday(n), end |-> n - weekday(n) + 6]
month_bounds(n) ==
  [start |-> date(year(n), month(n), 1),
   end |-> (IF month(n) = 12 THEN date(year(n) + 1, 1, 1)
            ELSE date(year(n), month(n) + 1, 1)) - 1]
_end_of_month(n) == date(year(n), month(n), monthrange(year(n), month(n)))

-----------------------------------------------------------------------------
Init == day = 0
Tomorrow == day < LastDay /\ day' = day + 1

-----------------------------------------------------------------------------
(* A deadline is shifted to the first business day there is, never further  *)
(* and never back, across Christmas, Easter and the turn of the year.       *)
FirstBusinessDay(n, s) == is_business_day(s) /\ s >= n /\ \A k \in n..s - 1 : ~is_business_day(k)

(* "Return the next N due dates strictly after after": the one found is the *)
(* rule's next, in this year or the next. "Return the next yearly           *)
(* recurrence of anchor's month/day strictly after after": within a year;   *)
(* the code has none for 29 February when a common year comes first.        *)
On(n) == <<month(n), dayOf(n)>>
NextOf(days, n) == Min({k \in n + 1..n + 366 : On(k) \in days})
DueDatesRight ==
  /\ FirstBusinessDay(day, shift_for_holidays(day))
  /\ \A rule \in Rules :
       FirstBusinessDay(NextOf(rule, day), next_occurrences(rule, day))
  /\ \A a \in Anchors :
       IF next_anchor_occurrence(a, day) = ValueError
       THEN a = <<2, 29>> /\ \E y \in {year(day), year(day) + 1} : ~IsLeap(y)
       ELSE FirstBusinessDay(NextOf({a}, day), next_anchor_occurrence(a, day))

(* Quarters tile the years: a day is in its quarter, its first and its last *)
(* day are in the same one (one row of ustva_periods), and the day after is *)
(* the first of the quarter that follows, in the next year after the        *)
(* fourth. So do the weeks and the months of the time report, and the two   *)
(* ways of finding a month's end agree.                                     *)
PeriodsTile ==
  LET q == current_quarter(day)
      w == week_bounds(day)
      m == month_bounds(day)
      next == current_quarter(q.end + 1)
  IN /\ \A b \in {q, w, m} : b.start <= day /\ day <= b.end
     /\ current_quarter(q.start) = q /\ current_quarter(q.end) = q
     /\ next.start = q.end + 1 /\ next.year * 4 + next.quarter = q.year * 4 + q.quarter + 1
     /\ week_bounds(w.end + 1).start = w.end + 1 /\ weekday(w.start) = 0
     /\ month_bounds(m.end + 1).start = m.end + 1
     /\ _end_of_month(day) = m.end
=============================================================================
