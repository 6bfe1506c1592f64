-------------------------- MODULE LiquidityProofs --------------------------
(* Proofs about Calendar and Liquidity.                                     *)
EXTENDS Liquidity, FiniteSetTheorems, WellFoundedInduction, TLAPS

-----------------------------------------------------------------------------
(* The table of the months.                                                 *)
LEMMA DaysTable ==
  /\ DaysBefore[1] = 0 /\ DaysBefore[2] = 31 /\ DaysBefore[3] = 59 /\ DaysBefore[4] = 90
  /\ DaysBefore[5] = 120 /\ DaysBefore[6] = 151 /\ DaysBefore[7] = 181
  /\ DaysBefore[8] = 212 /\ DaysBefore[9] = 243 /\ DaysBefore[10] = 273
  /\ DaysBefore[11] = 304 /\ DaysBefore[12] = 334
BY DEF DaysBefore

LEMMA TwelveMonths ==
  ASSUME NEW m \in 1..12
  PROVE  m = 1 \/ m = 2 \/ m = 3 \/ m = 4 \/ m = 5 \/ m = 6 \/ m = 7 \/ m = 8 \/ m = 9
         \/ m = 10 \/ m = 11 \/ m = 12
OBVIOUS

LEMMA MonthTable ==
  ASSUME NEW m \in 1..12
  PROVE  /\ MonthLength[m] \in 28..31 /\ DaysBefore[m] \in 0..334
         /\ m # 2 => MonthLength[m] >= 30
         /\ m < 12 => DaysBefore[m + 1] = DaysBefore[m] + MonthLength[m]
         /\ MonthLength[2] = 28 /\ MonthLength[12] = 31
         /\ DaysBefore[1] = 0 /\ DaysBefore[12] = 334
<1>1. /\ MonthLength[1] = 31 /\ MonthLength[2] = 28 /\ MonthLength[3] = 31
      /\ MonthLength[4] = 30 /\ MonthLength[5] = 31 /\ MonthLength[6] = 30
      /\ MonthLength[7] = 31 /\ MonthLength[8] = 31 /\ MonthLength[9] = 30
      /\ MonthLength[10] = 31 /\ MonthLength[11] = 30 /\ MonthLength[12] = 31
  BY DEF MonthLength
<1>2. QED
  BY <1>1, DaysTable, TwelveMonths

(* A year has 365 days, and a leap year one more.                           *)
LEMMA YearLength ==
  ASSUME NEW y \in Int
  PROVE  /\ JanFirst(y) \in Int
         /\ JanFirst(y + 1) = JanFirst(y) + 365 + (IF IsLeap(y) THEN 1 ELSE 0)
<1>1. FirstYear \in Nat /\ FirstYear % 4 = 0
  BY CalendarAssumption
<1>2. PICK d \in Int : d = y - FirstYear
  BY <1>1
<1>3. JanFirst(y) = 365 * d + (d + 3) \div 4 /\ JanFirst(y + 1) = 365 * (d + 1) + (d + 4) \div 4
  BY <1>1, <1>2 DEF JanFirst
<1>4. IsLeap(y) <=> d % 4 = 0
  BY <1>1, <1>2 DEF IsLeap
<1>5. QED
  BY <1>3, <1>4

LEMMA MonthFacts ==
  ASSUME NEW y \in Int, NEW m \in 1..12
  PROVE  /\ MonthFirst(y, m) \in Int /\ monthrange(y, m) \in 28..31
         /\ m # 2 => monthrange(y, m) = MonthLength[m]
         /\ MonthFirst(y, 1) = JanFirst(y)
         /\ m < 12 => MonthFirst(y, m + 1) = MonthFirst(y, m) + monthrange(y, m)
         /\ m = 12 => JanFirst(y + 1) = MonthFirst(y, m) + monthrange(y, m)
         /\ MonthFirst(y, m) >= JanFirst(y)
         /\ MonthFirst(y, m) + monthrange(y, m) <= JanFirst(y + 1)
<1>1. JanFirst(y) \in Int /\ JanFirst(y + 1) = JanFirst(y) + 365 + (IF IsLeap(y) THEN 1 ELSE 0)
  BY YearLength
<1>2. QED
  BY <1>1, MonthTable DEF MonthFirst, monthrange

LEMMA MonthWithin ==
  ASSUME NEW y \in Int, NEW m \in 1..12, m # 12
  PROVE  MonthFirst(y, m + 1) = MonthFirst(y, m) + monthrange(y, m)
<1>1. m < 12
  OBVIOUS
<1>2. QED
  BY <1>1, MonthFacts

LEMMA MonthTypes ==
  ASSUME NEW y \in Int, NEW m \in 1..12
  PROVE  /\ JanFirst(y) \in Int /\ MonthFirst(y, m) \in Int /\ monthrange(y, m) \in Int
         /\ DaysBefore[m] \in Int /\ MonthLength[m] \in Int
<1>1. JanFirst(y) \in Int
  BY YearLength
<1>2. MonthFirst(y, m) \in Int /\ monthrange(y, m) \in 28..31
  BY MonthFacts
<1>3. DaysBefore[m] \in 0..334 /\ MonthLength[m] \in 28..31
  BY MonthTable
<1>4. QED
  BY <1>1, <1>2, <1>3

(* Years do not overlap, nor do the months of a year.                       *)
LEMMA YearsApart ==
  ASSUME NEW y \in Int, NEW z \in Int, y < z
  PROVE  JanFirst(y) + 365 <= JanFirst(z)
<1>1. FirstYear \in Nat
  BY CalendarAssumption
<1>2. PICK d \in Int, e \in Int : d = y - FirstYear /\ e = z - FirstYear
  BY <1>1
<1>3. JanFirst(y) = 365 * d + (d + 3) \div 4 /\ JanFirst(z) = 365 * e + (e + 3) \div 4
  BY <1>1, <1>2 DEF JanFirst
<1>4. QED
  BY <1>1, <1>2, <1>3

LEMMA MonthsApart ==
  ASSUME NEW y \in Int, NEW m \in 1..12, NEW k \in 1..12, m < k
  PROVE  MonthFirst(y, m) + monthrange(y, m) <= MonthFirst(y, k)
<1>1. DaysBefore[m] + MonthLength[m] <= DaysBefore[k]
  <2>1. \A j \in 1..11 : DaysBefore[j + 1] = DaysBefore[j] + MonthLength[j]
                         /\ MonthLength[j] \in 28..31 /\ DaysBefore[j] \in 0..334
    BY MonthTable
  <2>2. ASSUME NEW i \in 1..12, NEW j \in 1..12, i <= j PROVE DaysBefore[i] <= DaysBefore[j]
    <3>1. i = 1 \/ i = 2 \/ i = 3 \/ i = 4 \/ i = 5 \/ i = 6 \/ i = 7 \/ i = 8 \/ i = 9
          \/ i = 10 \/ i = 11 \/ i = 12
      BY TwelveMonths
    <3>2. j = 1 \/ j = 2 \/ j = 3 \/ j = 4 \/ j = 5 \/ j = 6 \/ j = 7 \/ j = 8 \/ j = 9
          \/ j = 10 \/ j = 11 \/ j = 12
      BY TwelveMonths
    <3>3. QED
      BY <2>2, <3>1, <3>2, DaysTable
  <2>3. m \in 1..11 /\ m + 1 \in 1..12 /\ m + 1 <= k
    OBVIOUS
  <2>4. DaysBefore[m + 1] <= DaysBefore[k]
    BY <2>2, <2>3
  <2>5. DaysBefore[m + 1] = DaysBefore[m] + MonthLength[m]
    BY <2>1, <2>3
  <2>6. QED
    BY <2>4, <2>5
<1>2. JanFirst(y) \in Int /\ DaysBefore[m] \in Int /\ MonthLength[m] \in Int /\ DaysBefore[k] \in Int
  BY MonthTypes
<1>3. CASE IsLeap(y)
  BY <1>1, <1>2, <1>3 DEF MonthFirst, monthrange
<1>4. CASE ~IsLeap(y)
  BY <1>1, <1>2, <1>4 DEF MonthFirst, monthrange
<1>5. QED
  BY <1>3, <1>4

Known == -400..LastDay + 800
LEMMA KnownDays == ASSUME NEW n \in Known PROVE n \in Int /\ LastDay \in Nat
BY CalendarAssumption DEF Known

(* Every day has a year and a month.                                        *)
LEMMA YearExists ==
  ASSUME NEW n \in Known
  PROVE  \E y \in Years : JanFirst(y) <= n /\ n < JanFirst(y + 1)
<1>1. FirstYear \in Nat /\ LastDay \in Nat /\ n \in Int
  BY CalendarAssumption, KnownDays
<1>2. PICK d \in Int : d = (4 * n) \div 1461
  BY <1>1
<1>3. 1461 * d <= 4 * n /\ 4 * n < 1461 * d + 1461
  BY <1>1, <1>2
<1>4. d >= -2 /\ d <= LastDay \div 365 + 4
  BY <1>1, <1>3 DEF Known
<1>5. FirstYear + d \in Years
  BY <1>1, <1>4 DEF Years
<1>6. /\ JanFirst(FirstYear + d) = 365 * d + (d + 3) \div 4
      /\ JanFirst(FirstYear + d + 1) = 365 * (d + 1) + (d + 4) \div 4
  BY <1>1 DEF JanFirst
<1>7. JanFirst(FirstYear + d) <= n /\ n < JanFirst(FirstYear + d + 1)
  BY <1>1, <1>3, <1>6
<1>8. QED
  BY <1>5, <1>7

LEMMA MonthExists ==
  ASSUME NEW y \in Int, NEW n \in Int, JanFirst(y) <= n, n < JanFirst(y + 1)
  PROVE  \E m \in 1..12 : MonthFirst(y, m) <= n /\ n < MonthFirst(y, m) + monthrange(y, m)
<1>1. \A m \in 1..12 :
        /\ MonthFirst(y, m) \in Int /\ monthrange(y, m) \in 28..31
        /\ MonthFirst(y, 1) = JanFirst(y)
        /\ m < 12 => MonthFirst(y, m + 1) = MonthFirst(y, m) + monthrange(y, m)
        /\ m = 12 => JanFirst(y + 1) = MonthFirst(y, m) + monthrange(y, m)
  BY MonthFacts
<1>2. SUFFICES ASSUME \A m \in 1..12 : MonthFirst(y, m) <= n =>
                                       MonthFirst(y, m) + monthrange(y, m) <= n
               PROVE  FALSE
  BY <1>1
<1>3. \A m \in 1..11 : MonthFirst(y, m) <= n => MonthFirst(y, m + 1) <= n
  BY <1>1, <1>2
<1>4. /\ MonthFirst(y, 2) <= n /\ MonthFirst(y, 3) <= n
      /\ MonthFirst(y, 4) <= n /\ MonthFirst(y, 5) <= n
  BY <1>1, <1>3
<1>5. /\ MonthFirst(y, 6) <= n /\ MonthFirst(y, 7) <= n
      /\ MonthFirst(y, 8) <= n /\ MonthFirst(y, 9) <= n
  BY <1>3, <1>4
<1>6. MonthFirst(y, 10) <= n /\ MonthFirst(y, 11) <= n /\ MonthFirst(y, 12) <= n
  BY <1>3, <1>5
<1>7. QED
  BY <1>1, <1>2, <1>6

(* What the calendar says of a day: its year, its month, its day.           *)
LEMMA DateOf ==
  ASSUME NEW n \in Known
  PROVE  /\ year(n) \in Int /\ month(n) \in 1..12
         /\ JanFirst(year(n)) <= n /\ n < JanFirst(year(n) + 1)
         /\ n = MonthFirst(year(n), month(n)) + dayOf(n) - 1
         /\ dayOf(n) \in 1..monthrange(year(n), month(n))
<1> DEFINE y == CHOOSE x \in Years : JanFirst(x) <= n /\ n < JanFirst(x + 1)
           m == Max({k \in 1..12 : MonthFirst(y, k) <= n})
<1>1. y \in Years /\ JanFirst(y) <= n /\ n < JanFirst(y + 1)
  BY YearExists
<1>2. year(n) = y /\ month(n) = m /\ dayOf(n) = n - MonthFirst(y, m) + 1
  <2>1. Dates[n] = [year |-> y, month |-> m, day |-> n - MonthFirst(y, m) + 1]
    BY DEF Dates, Known
  <2> HIDE DEF y, m
  <2>2. QED
    BY <2>1 DEF year, month, dayOf
<1>3. y \in Int /\ n \in Int
  BY <1>1, CalendarAssumption, KnownDays DEF Years
<1> HIDE DEF y
<1>4. PICK k \in 1..12 : MonthFirst(y, k) <= n /\ n < MonthFirst(y, k) + monthrange(y, k)
  BY <1>1, <1>3, MonthExists
<1>5. ASSUME NEW j \in 1..12, MonthFirst(y, j) <= n PROVE k >= j
  <2>1. MonthFirst(y, k) \in Int /\ monthrange(y, k) \in Int /\ MonthFirst(y, j) \in Int
    BY <1>3, MonthTypes
  <2>2. k < j => MonthFirst(y, k) + monthrange(y, k) <= MonthFirst(y, j)
    BY <1>3, MonthsApart
  <2>3. QED
    BY <1>3, <1>4, <1>5, <2>1, <2>2
<1>6. m = k
  <2> DEFINE S == {j \in 1..12 : MonthFirst(y, j) <= n}
  <2>1. k \in S /\ \A j \in S : k >= j
    BY <1>4, <1>5
  <2>2. \A x \in S : (\A j \in S : x >= j) => x = k
    BY <2>1
  <2>3. QED
    BY <2>1, <2>2 DEF Max
<1> HIDE DEF m
<1>7. MonthFirst(y, k) \in Int /\ monthrange(y, k) \in Int
  BY <1>3, MonthTypes
<1>8. QED
  BY <1>1, <1>2, <1>3, <1>4, <1>6, <1>7

LEMMA DateIs ==
  ASSUME NEW n \in Known, NEW y \in Int, NEW m \in 1..12, NEW d \in 1..monthrange(y, m),
         n = MonthFirst(y, m) + d - 1
  PROVE  year(n) = y /\ month(n) = m /\ dayOf(n) = d
<1>1. /\ year(n) \in Int /\ month(n) \in 1..12 /\ n \in Int
      /\ JanFirst(year(n)) <= n /\ n < JanFirst(year(n) + 1)
      /\ n = MonthFirst(year(n), month(n)) + dayOf(n) - 1
      /\ dayOf(n) \in 1..monthrange(year(n), month(n))
  BY DateOf, KnownDays
<1>2. /\ MonthFirst(y, m) \in Int /\ monthrange(y, m) \in 28..31
      /\ JanFirst(y) <= n /\ n < JanFirst(y + 1)
  <2>1. MonthFirst(y, m) \in Int /\ monthrange(y, m) \in 28..31 /\ JanFirst(y) \in Int
    BY MonthFacts, MonthTypes
  <2>2. MonthFirst(y, m) >= JanFirst(y) /\ MonthFirst(y, m) + monthrange(y, m) <= JanFirst(y + 1)
    BY MonthFacts
  <2>3. JanFirst(y + 1) \in Int
    BY YearLength
  <2>4. QED
    BY <2>1, <2>2, <2>3
<1>3. year(n) = y
  <2>1. JanFirst(y) \in Int /\ JanFirst(year(n)) \in Int
        /\ JanFirst(y + 1) \in Int /\ JanFirst(year(n) + 1) \in Int
    BY <1>1, YearLength
  <2>2. CASE year(n) < y
    <3>1. CASE year(n) + 1 = y
      BY <1>1, <1>2, <2>1, <3>1
    <3>2. CASE year(n) + 1 < y
      BY <1>1, <1>2, <2>1, <3>2, YearsApart
    <3>3. QED
      BY <1>1, <2>2, <3>1, <3>2
  <2>3. CASE y < year(n)
    <3>1. CASE y + 1 = year(n)
      BY <1>1, <1>2, <2>1, <3>1
    <3>2. CASE y + 1 < year(n)
      BY <1>1, <1>2, <2>1, <3>2, YearsApart
    <3>3. QED
      BY <1>1, <2>3, <3>1, <3>2
  <2>4. QED
    BY <1>1, <2>2, <2>3
<1>4. MonthFirst(y, month(n)) \in Int /\ monthrange(y, month(n)) \in 28..31
  BY <1>1, MonthFacts
<1>5. month(n) = m
  BY <1>1, <1>2, <1>3, <1>4, MonthsApart
<1>6. QED
  BY <1>1, <1>2, <1>3, <1>5

-----------------------------------------------------------------------------
(* Months: where one ends the next begins.                                  *)
NextYear(y, m) == IF m = 12 THEN y + 1 ELSE y
NextMonth(m) == IF m = 12 THEN 1 ELSE m + 1

LEMMA NextMonthFirst ==
  ASSUME NEW y \in Int, NEW m \in 1..12
  PROVE  /\ NextYear(y, m) \in Int /\ NextMonth(m) \in 1..12
         /\ MonthFirst(NextYear(y, m), NextMonth(m)) = MonthFirst(y, m) + monthrange(y, m)
<1>1. CASE m = 12
  <2>1. MonthFirst(y + 1, 1) = JanFirst(y + 1)
    BY MonthFacts
  <2>2. JanFirst(y + 1) = MonthFirst(y, m) + monthrange(y, m)
    BY <1>1, MonthFacts
  <2>3. QED
    BY <1>1, <2>1, <2>2 DEF NextYear, NextMonth
<1>2. CASE m # 12
  <2>1. MonthFirst(y, m + 1) = MonthFirst(y, m) + monthrange(y, m)
    BY <1>2, MonthWithin
  <2>2. QED
    BY <1>2, <2>1 DEF NextYear, NextMonth
<1>3. QED
  BY <1>1, <1>2

LEMMA MonthStarts ==
  ASSUME NEW y \in Int, NEW m \in 1..12, MonthFirst(y, m) \in Known
  PROVE  /\ year(MonthFirst(y, m)) = y /\ month(MonthFirst(y, m)) = m
         /\ dayOf(MonthFirst(y, m)) = 1
<1>1. MonthFirst(y, m) \in Int /\ 1 \in 1..monthrange(y, m)
  <2>1. monthrange(y, m) \in 28..31
    BY MonthFacts
  <2>2. MonthFirst(y, m) \in Int
    BY MonthTypes
  <2>3. QED
    BY <2>1, <2>2
<1>2. PICK n \in Known : n = MonthFirst(y, m)
  OBVIOUS
<1>3. n = MonthFirst(y, m) + 1 - 1
  BY <1>1, <1>2
<1>4. QED
  BY <1>1, <1>2, <1>3, DateIs

(* The first day of the next month, and the last one of this.               *)
LEMMA EndOfMonth ==
  ASSUME NEW n \in Known
  PROVE  LET y == year(n)
             m == month(n)
         IN /\ _end_of_month(n) = MonthFirst(y, m) + monthrange(y, m) - 1
            /\ _end_of_month(n) + 1 = MonthFirst(NextYear(y, m), NextMonth(m))
            /\ month_bounds(n) = [start |-> MonthFirst(y, m), end |-> _end_of_month(n)]
            /\ _end_of_month(n) \in Int /\ MonthFirst(y, m) \in Int
            /\ MonthFirst(y, m) <= n /\ n <= _end_of_month(n) /\ _end_of_month(n) <= n + 30
<1> DEFINE y == year(n)
           m == month(n)
<1>1. /\ y \in Int /\ m \in 1..12 /\ n \in Int
      /\ n = MonthFirst(y, m) + dayOf(n) - 1 /\ dayOf(n) \in 1..monthrange(y, m)
  BY DateOf, KnownDays
<1> HIDE DEF y, m
<1>2. MonthFirst(y, m) \in Int /\ monthrange(y, m) \in 28..31
  BY <1>1, MonthFacts
<1>3. _end_of_month(n) = MonthFirst(y, m) + monthrange(y, m) - 1
  BY DEF _end_of_month, date, y, m
<1>4. /\ NextYear(y, m) \in Int /\ NextMonth(m) \in 1..12
      /\ MonthFirst(NextYear(y, m), NextMonth(m)) = MonthFirst(y, m) + monthrange(y, m)
  BY <1>1, NextMonthFirst
<1>5. month_bounds(n) =
        [start |-> MonthFirst(y, m), end |-> _end_of_month(n)]
  <2>1. month_bounds(n) =
          [start |-> date(y, m, 1),
           end |-> (IF m = 12 THEN date(y + 1, 1, 1) ELSE date(y, m + 1, 1)) - 1]
    BY DEF month_bounds, y, m
  <2>2. date(NextYear(y, m), NextMonth(m), 1) =
          IF m = 12 THEN date(y + 1, 1, 1) ELSE date(y, m + 1, 1)
    BY DEF NextYear, NextMonth
  <2>3. date(y, m, 1) = MonthFirst(y, m)
    BY <1>2 DEF date
  <2>4. date(NextYear(y, m), NextMonth(m), 1) - 1 = _end_of_month(n)
    BY <1>2, <1>3, <1>4 DEF date
  <2>5. QED
    BY <2>1, <2>2, <2>3, <2>4
<1>6. QED
  BY <1>1, <1>2, <1>3, <1>4, <1>5 DEF y, m

-----------------------------------------------------------------------------
(* Quarters.                                                                *)
Start(y, q) == MonthFirst(y, 3 * q - 2)
End(y, q) == MonthFirst(y, 3 * q) + monthrange(y, 3 * q) - 1
Quarter(y, q) == [year |-> y, quarter |-> q, start |-> Start(y, q), end |-> End(y, q)]

LEMMA QuarterMonths ==
  ASSUME NEW q \in 1..4
  PROVE  /\ 3 * q - 2 \in 1..12 /\ 3 * q - 1 \in 1..12 /\ 3 * q \in 1..12
         /\ (3 * q - 2) + 1 = 3 * q - 1 /\ (3 * q - 1) + 1 = 3 * q
         /\ 3 * q - 2 # 12 /\ 3 * q - 1 # 12
         /\ 3 * q = 12 <=> q = 4
OBVIOUS

LEMMA QuarterFacts ==
  ASSUME NEW y \in Int, NEW q \in 1..4
  PROVE  /\ Start(y, q) \in Int /\ End(y, q) \in Int
         /\ Start(y, q) + 89 <= End(y, q) /\ End(y, q) <= Start(y, q) + 92
         /\ q < 4 => End(y, q) + 1 = Start(y, q + 1)
         /\ q = 4 => End(y, q) + 1 = Start(y + 1, 1)
<1>1. /\ MonthFirst(y, 3 * q - 2) \in Int /\ MonthFirst(y, 3 * q - 1) \in Int
      /\ MonthFirst(y, 3 * q) \in Int
  BY QuarterMonths, MonthTypes
<1>2. /\ monthrange(y, 3 * q - 2) \in 28..31 /\ monthrange(y, 3 * q - 1) \in 28..31
      /\ monthrange(y, 3 * q) \in 28..31
  BY QuarterMonths, MonthFacts
<1>3. /\ MonthFirst(y, 3 * q - 1) = MonthFirst(y, 3 * q - 2) + monthrange(y, 3 * q - 2)
      /\ MonthFirst(y, 3 * q) = MonthFirst(y, 3 * q - 1) + monthrange(y, 3 * q - 1)
  <2>1. PICK a \in 1..11, b \in 1..11 : a = 3 * q - 2 /\ b = 3 * q - 1
    OBVIOUS
  <2>2. a + 1 = b /\ b + 1 = 3 * q /\ a \in 1..12 /\ b \in 1..12 /\ a < 12 /\ b < 12
    BY <2>1
  <2>3. MonthFirst(y, a + 1) = MonthFirst(y, a) + monthrange(y, a)
    BY <2>2, MonthWithin
  <2>4. MonthFirst(y, b + 1) = MonthFirst(y, b) + monthrange(y, b)
    BY <2>2, MonthWithin
  <2>5. QED
    BY <2>1, <2>2, <2>3, <2>4
<1>4. monthrange(y, 3 * q - 2) + monthrange(y, 3 * q - 1) + monthrange(y, 3 * q) >= 90
  <2>1. /\ 3 * q - 2 # 2 /\ 3 * q # 2
        /\ 3 * q - 1 = 2 => 3 * q - 2 = 1 /\ 3 * q = 3
    OBVIOUS
  <2>2. \A m \in 1..12 : m # 2 => MonthLength[m] >= 30
    BY MonthTable
  <2>3. MonthLength[1] = 31 /\ MonthLength[3] = 31
    BY DEF MonthLength
  <2>4. \A m \in 1..12 : m # 2 => monthrange(y, m) >= 30 /\ (m = 1 \/ m = 3 => monthrange(y, m) = 31)
    BY <2>2, <2>3, MonthFacts
  <2>5. QED
    BY <1>2, <2>1, <2>4, QuarterMonths
<1>5. End(y, q) + 1 = MonthFirst(NextYear(y, 3 * q), NextMonth(3 * q))
  <2>1. MonthFirst(NextYear(y, 3 * q), NextMonth(3 * q)) = MonthFirst(y, 3 * q) + monthrange(y, 3 * q)
    BY QuarterMonths, NextMonthFirst
  <2>2. QED
    BY <1>1, <1>2, <2>1 DEF End
<1>6. ASSUME q < 4 PROVE End(y, q) + 1 = Start(y, q + 1)
  <2>1. 3 * (q + 1) - 2 = 3 * q + 1 /\ 3 * q # 12
    BY <1>6
  <2>2. QED
    BY <1>5, <2>1 DEF Start, NextYear, NextMonth
<1>7. ASSUME q = 4 PROVE End(y, q) + 1 = Start(y + 1, 1)
  <2>1. 3 * 1 - 2 = 1 /\ 3 * q = 12
    BY <1>7
  <2>2. QED
    BY <1>5, <2>1 DEF Start, NextYear, NextMonth
<1>8. QED
  BY <1>1, <1>2, <1>3, <1>4, <1>6, <1>7 DEF Start, End

LEMMA QuarterIs ==
  ASSUME NEW n \in Known, NEW q \in 1..4, month(n) \in 3 * q - 2..3 * q
  PROVE  current_quarter(n) = Quarter(year(n), q)
<1>1. month(n) \in Int /\ year(n) \in Int
  BY DateOf
<1>2. (month(n) - 1) \div 3 + 1 = q
  BY <1>1
<1>3. (q - 1) * 3 + 1 = 3 * q - 2 /\ 3 * q - 2 + 2 = 3 * q
  OBVIOUS
<1>4. MonthFirst(year(n), 3 * q - 2) \in Int
  BY <1>1, QuarterMonths, MonthTypes
<1>5. current_quarter(n) = [year |-> year(n), quarter |-> q,
                            start |-> date(year(n), 3 * q - 2, 1),
                            end |-> date(year(n), 3 * q, monthrange(year(n), 3 * q))]
  BY <1>2, <1>3 DEF current_quarter
<1>6. date(year(n), 3 * q - 2, 1) = Start(year(n), q)
  BY <1>4 DEF date, Start
<1>7. QED
  BY <1>5, <1>6 DEF date, Quarter, End

(* Each day lies in its quarter, and each quarter between two others.       *)
LEMMA QuarterOfDay ==
  ASSUME NEW n \in Known
  PROVE  \E q \in 1..4 : /\ month(n) \in 3 * q - 2..3 * q
                         /\ current_quarter(n) = Quarter(year(n), q)
                         /\ Start(year(n), q) <= n /\ n <= End(year(n), q)
<1> DEFINE y == year(n)
           m == month(n)
<1>1. /\ y \in Int /\ m \in 1..12 /\ n \in Int
      /\ n = MonthFirst(y, m) + dayOf(n) - 1 /\ dayOf(n) \in 1..monthrange(y, m)
  BY DateOf, KnownDays
<1> HIDE DEF y, m
<1>2. PICK q \in 1..4 : m \in 3 * q - 2..3 * q
  BY <1>1, TwelveMonths
<1>3. MonthFirst(y, m) \in Int /\ monthrange(y, m) \in Int
  BY <1>1, MonthTypes
<1>4. MonthFirst(y, m) <= n /\ n <= MonthFirst(y, m) + monthrange(y, m) - 1
  BY <1>1, <1>3
<1>5. PICK a \in 1..12, c \in 1..12 : a = 3 * q - 2 /\ c = 3 * q
  OBVIOUS
<1>6. MonthFirst(y, a) <= n
  <2>1. MonthFirst(y, a) \in Int /\ monthrange(y, a) \in 28..31
    BY <1>1, MonthFacts
  <2>2. a < m => MonthFirst(y, a) + monthrange(y, a) <= MonthFirst(y, m)
    BY <1>1, MonthsApart
  <2>3. a <= m
    BY <1>2, <1>5
  <2>4. QED
    BY <1>1, <1>3, <1>4, <2>1, <2>2, <2>3
<1>7. n <= MonthFirst(y, c) + monthrange(y, c) - 1
  <2>1. MonthFirst(y, c) \in Int /\ monthrange(y, c) \in 28..31
    BY <1>1, MonthFacts
  <2>2. m < c => MonthFirst(y, m) + monthrange(y, m) <= MonthFirst(y, c)
    BY <1>1, MonthsApart
  <2>3. m <= c
    BY <1>2, <1>5
  <2>4. QED
    BY <1>1, <1>3, <1>4, <2>1, <2>2, <2>3
<1>8. QED
  BY <1>2, <1>5, <1>6, <1>7, QuarterIs DEF Start, End, y, m

LEMMA QuarterStarts ==
  ASSUME NEW y \in Int, NEW q \in 1..4, Start(y, q) \in Known
  PROVE  current_quarter(Start(y, q)) = Quarter(y, q)
<1>1. PICK a \in 1..12 : a = 3 * q - 2
  OBVIOUS
<1>2. year(Start(y, q)) = y /\ month(Start(y, q)) = a
  BY <1>1, MonthStarts DEF Start
<1>3. a \in 3 * q - 2..3 * q
  BY <1>1
<1>4. QED
  BY <1>2, <1>3, QuarterIs

LEMMA QuarterEnds ==
  ASSUME NEW y \in Int, NEW q \in 1..4, End(y, q) \in Known
  PROVE  current_quarter(End(y, q)) = Quarter(y, q)
<1>1. PICK c \in 1..12 : c = 3 * q
  OBVIOUS
<1>2. MonthFirst(y, c) \in Int /\ monthrange(y, c) \in 28..31
  BY MonthFacts
<1>3. monthrange(y, c) \in 1..monthrange(y, c)
  BY <1>2
<1>4. End(y, q) = MonthFirst(y, c) + monthrange(y, c) - 1
  BY <1>1 DEF End
<1>5. year(End(y, q)) = y /\ month(End(y, q)) = c
  BY <1>2, <1>3, <1>4, DateIs
<1>6. c \in 3 * q - 2..3 * q
  BY <1>1
<1>7. QED
  BY <1>5, <1>6, QuarterIs

LEMMA QuartersTile ==
  ASSUME NEW n \in 0..LastDay
  PROVE  LET q == current_quarter(n)
             next == current_quarter(q.end + 1)
         IN /\ q.start <= n /\ n <= q.end
            /\ current_quarter(q.start) = q /\ current_quarter(q.end) = q
            /\ next.start = q.end + 1
            /\ next.year * 4 + next.quarter = q.year * 4 + q.quarter + 1
<1>1. n \in Known /\ n \in Int /\ LastDay \in Nat
  BY CalendarAssumption DEF Known
<1>2. PICK q \in 1..4 : /\ month(n) \in 3 * q - 2..3 * q
                        /\ current_quarter(n) = Quarter(year(n), q)
                        /\ Start(year(n), q) <= n /\ n <= End(year(n), q)
  BY <1>1, QuarterOfDay
<1>3. PICK y \in Int : y = year(n)
  BY <1>1, DateOf
<1>4. /\ Start(y, q) \in Int /\ End(y, q) \in Int
      /\ End(y, q) <= Start(y, q) + 92 /\ Start(y, q) <= n /\ n <= End(y, q)
  BY <1>2, <1>3, QuarterFacts
<1>5. PICK z \in Int, r \in 1..4 : /\ End(y, q) + 1 = Start(z, r)
                                    /\ z * 4 + r = y * 4 + q + 1
  <2>1. CASE q < 4
    <3>1. q + 1 \in 1..4
      BY <2>1
    <3>2. End(y, q) + 1 = Start(y, q + 1)
      BY <2>1, QuarterFacts
    <3>3. y * 4 + (q + 1) = y * 4 + q + 1
      OBVIOUS
    <3>4. QED
      BY <3>1, <3>2, <3>3
  <2>2. CASE q = 4
    <3>1. y + 1 \in Int /\ End(y, q) + 1 = Start(y + 1, 1)
      BY <2>2, QuarterFacts
    <3>2. (y + 1) * 4 + 1 = y * 4 + q + 1
      BY <2>2
    <3>3. QED
      BY <3>1, <3>2
  <2>3. QED
    BY <2>1, <2>2
<1>6. Start(y, q) + 89 <= End(y, q)
  BY QuarterFacts
<1>7. Start(y, q) \in Known /\ End(y, q) \in Known /\ Start(z, r) \in Known
  BY <1>1, <1>4, <1>5, <1>6 DEF Known
<1>8. /\ current_quarter(Start(y, q)) = Quarter(y, q)
      /\ current_quarter(End(y, q)) = Quarter(y, q)
      /\ current_quarter(Start(z, r)) = Quarter(z, r)
  BY <1>7, QuarterStarts, QuarterEnds
<1>9. QED
  BY <1>2, <1>3, <1>4, <1>5, <1>8 DEF Quarter

LEMMA WeeksTile ==
  ASSUME NEW n \in Int
  PROVE  LET w == week_bounds(n)
         IN /\ w.start \in Int /\ w.end = w.start + 6 /\ w.start <= n /\ n <= w.end
            /\ week_bounds(w.end + 1).start = w.end + 1 /\ weekday(w.start) = 0
            /\ \A k \in w.start..w.end : week_bounds(k) = w
<1>1. FirstWeekday \in Int
  BY CalendarAssumption
<1>2. PICK a \in Int : a = n - ((n + FirstWeekday) % 7)
  BY <1>1
<1>3. (a + FirstWeekday) % 7 = 0 /\ a <= n /\ n <= a + 6
  BY <1>1, <1>2
<1>4. \A k \in a..a + 6 : (k + FirstWeekday) % 7 = k - a
  BY <1>1, <1>3
<1>5. \A k \in a..a + 6 : week_bounds(k) = [start |-> a, end |-> a + 6]
  <2>1. ASSUME NEW k \in a..a + 6 PROVE k - ((k + FirstWeekday) % 7) = a
    BY <1>1, <1>4
  <2>2. QED
    BY <2>1 DEF week_bounds, weekday
<1>6. (a + 6 + 1) - ((a + 6 + 1 + FirstWeekday) % 7) = a + 6 + 1
  BY <1>1, <1>3
<1>7. n \in a..a + 6
  BY <1>3
<1>8. week_bounds(a + 6 + 1).start = a + 6 + 1
  BY <1>6 DEF week_bounds, weekday
<1>9. week_bounds(n) = [start |-> a, end |-> a + 6]
  BY <1>5, <1>7
<1>10. QED
  BY <1>3, <1>5, <1>8, <1>9 DEF weekday

LEMMA MonthsTile ==
  ASSUME NEW n \in 0..LastDay
  PROVE  LET m == month_bounds(n)
         IN /\ m.start <= n /\ n <= m.end /\ _end_of_month(n) = m.end
            /\ month_bounds(m.end + 1).start = m.end + 1
<1>1. n \in Known /\ n \in Int /\ LastDay \in Nat
  BY CalendarAssumption DEF Known
<1>2. year(n) \in Int /\ month(n) \in 1..12
  BY <1>1, DateOf
<1>3. PICK y \in Int, m \in 1..12 : y = NextYear(year(n), month(n)) /\ m = NextMonth(month(n))
  BY <1>2, NextMonthFirst
<1>4. /\ _end_of_month(n) \in Int /\ _end_of_month(n) <= n + 30 /\ n <= _end_of_month(n)
      /\ MonthFirst(year(n), month(n)) <= n
      /\ month_bounds(n) = [start |-> MonthFirst(year(n), month(n)), end |-> _end_of_month(n)]
      /\ _end_of_month(n) + 1 = MonthFirst(y, m)
  BY <1>1, <1>3, EndOfMonth
<1>5. MonthFirst(y, m) \in Known
  BY <1>1, <1>4 DEF Known
<1>6. year(MonthFirst(y, m)) = y /\ month(MonthFirst(y, m)) = m
  BY <1>5, MonthStarts
<1>7. month_bounds(MonthFirst(y, m)).start = MonthFirst(y, m)
  BY <1>5, <1>6, EndOfMonth
<1>8. QED
  BY <1>4, <1>7

-----------------------------------------------------------------------------
DayInv == day \in 0..LastDay

LEMMA InitDay == WalkInit => DayInv
BY CalendarAssumption DEF WalkInit, Init, DayInv

LEMMA StepDay == DayInv /\ [Next]_<<day, walk>> => DayInv'
BY CalendarAssumption
   DEF DayInv, Next, Snapshot, WalkDay, WalkEnds, Store, NextDay, Tomorrow

LEMMA DayCorrect == Spec => []DayInv
<1>1. QED
  BY InitDay, StepDay, PTL DEF Spec

(* Quarters, months and weeks tile the days, whatever year the calendar     *)
(* begins in, and on whatever weekday.                                      *)
THEOREM PeriodsTileThm == Spec => []PeriodsTile
<1>1. DayInv => PeriodsTile
  BY QuartersTile, WeeksTile, MonthsTile DEF DayInv, PeriodsTile
<1>2. QED
  BY <1>1, DayCorrect, PTL

-----------------------------------------------------------------------------
(* The least and the greatest of some days.                                 *)
LEMMA LeastNat ==
  ASSUME NEW T, T \subseteq Nat, T # {}
  PROVE  \E x \in T : \A y \in T : x <= y
<1> DEFINE R == {ss \in Nat \X Nat : ss[1] < ss[2]}
<1>1. IsWellFoundedOn(R, Nat)
  BY NatLessThanWellFounded DEF OpToRel
<1>2. \A i, j \in Nat : <<i, j>> \in R <=> i < j
  OBVIOUS
<1> HIDE DEF R
<1>3. PICK x \in T : \A y \in T : ~(<<y, x>> \in R)
  BY <1>1, WFMin
<1>4. \A y \in T : ~(y < x)
  BY <1>2, <1>3
<1>5. QED
  BY <1>4

LEMMA MinIs ==
  ASSUME NEW T, T \subseteq Int, NEW x \in T, \A y \in T : x <= y
  PROVE  Min(T) = x
<1>1. \A z \in T : (\A y \in T : z <= y) => z = x
  OBVIOUS
<1>2. QED
  BY <1>1 DEF Min

-----------------------------------------------------------------------------
(* The loop over the days finds the first business day.                     *)
Stops(n, k) == k = 30 \/ is_business_day(n + k)
Shifts(g, n) == g = [k \in 0..30 |-> IF Stops(n, k) THEN n + k ELSE g[k + 1]]
First(n, k, j) == j \in k..30 /\ Stops(n, j) /\ \A i \in k..j - 1 : ~Stops(n, i)

LEMMA FirstExists ==
  ASSUME NEW n \in Int, NEW k \in 0..30
  PROVE  \E j \in 0..30 : First(n, k, j)
<1> DEFINE T == {j \in k..30 : Stops(n, j)}
<1>1. 30 \in T /\ T \subseteq Nat
  BY DEF Stops
<1>2. PICK j \in T : \A i \in T : j <= i
  <2> HIDE DEF T
  <2>1. QED
    BY <1>1, LeastNat
<1>3. First(n, k, j)
  BY <1>2 DEF First
<1>4. QED
  BY <1>2, <1>3

LEMMA FirstUnique ==
  ASSUME NEW n \in Int, NEW k \in 0..30, NEW i, NEW j, First(n, k, i), First(n, k, j)
  PROVE  i = j
BY DEF First

LEMMA ShiftsExists ==
  ASSUME NEW n \in Int
  PROVE  \E g : Shifts(g, n)
<1> DEFINE f == [k \in 0..30 |-> CHOOSE j \in 0..30 : First(n, k, j)]
           g == [k \in 0..30 |-> n + f[k]]
<1>1. \A k \in 0..30 : f[k] \in 0..30 /\ First(n, k, f[k])
  BY FirstExists
<1> HIDE DEF f
<1>2. ASSUME NEW k \in 0..30 PROVE g[k] = IF Stops(n, k) THEN n + k ELSE g[k + 1]
  <2>1. CASE Stops(n, k)
    <3>1. First(n, k, k)
      BY <2>1 DEF First
    <3>2. QED
      BY <1>1, <2>1, <3>1, FirstUnique
  <2>2. CASE ~Stops(n, k)
    <3>1. k + 1 \in 0..30
      BY <2>2 DEF Stops
    <3>2. First(n, k, f[k + 1])
      BY <1>1, <2>2, <3>1 DEF First
    <3>3. f[k] = f[k + 1]
      BY <1>1, <3>2, FirstUnique
    <3>4. QED
      BY <2>2, <3>1, <3>3
  <2>3. QED
    BY <2>1, <2>2
<1>3. PICK h : h = g
  OBVIOUS
<1>4. \A k \in 0..30 : h[k] = IF Stops(n, k) THEN n + k ELSE h[k + 1]
  BY <1>2, <1>3
<1>5. h = [k \in 0..30 |-> h[k]]
  BY <1>3
<1>6. h = [k \in 0..30 |-> IF Stops(n, k) THEN n + k ELSE h[k + 1]]
  BY <1>4, <1>5
<1>7. QED
  BY <1>6 DEF Shifts

LEMMA ShiftIsFirst ==
  ASSUME NEW n \in Int, NEW j, First(n, 0, j)
  PROVE  shift_for_holidays(n) = n + j
<1>1. PICK g : Shifts(g, n) /\ shift_for_holidays(n) = g[0]
  BY ShiftsExists DEF shift_for_holidays, Shifts, Stops
<1>2. \A k \in 0..30 : g[k] = IF Stops(n, k) THEN n + k ELSE g[k + 1]
  <2>1. PICK h : h = g
    OBVIOUS
  <2>2. g = [k \in 0..30 |-> IF Stops(n, k) THEN n + k ELSE h[k + 1]]
    BY <1>1, <2>1 DEF Shifts
  <2>3. QED
    BY <2>1, <2>2
<1>3. j \in 0..30 /\ Stops(n, j) /\ \A i \in 0..j - 1 : ~Stops(n, i)
  BY DEF First
<1> DEFINE T == {k \in 0..j : g[k] # g[0]}
<1>4. T = {}
  <2>1. SUFFICES ASSUME T # {} PROVE FALSE
    OBVIOUS
  <2>2. PICK k \in T : \A i \in T : k <= i
    <3>1. T \subseteq Nat
      BY <1>3
    <3> HIDE DEF T
    <3>2. QED
      BY <2>1, <3>1, LeastNat
  <2>3. k \in 1..j /\ k - 1 \in 0..j - 1 /\ k - 1 \in 0..30 /\ k - 1 + 1 = k
    BY <1>3, <2>2
  <2>4. g[k - 1] = g[0]
    BY <1>3, <2>2, <2>3
  <2>5. g[k - 1] = g[k]
    BY <1>2, <1>3, <2>3
  <2>6. QED
    BY <2>2, <2>4, <2>5
<1>5. g[j] = g[0]
  BY <1>3, <1>4
<1>6. QED
  BY <1>1, <1>2, <1>3, <1>5

LEMMA ShiftRight ==
  ASSUME NEW n \in 0..LastDay + 366
  PROVE  FirstBusinessDay(n, shift_for_holidays(n)) /\ shift_for_holidays(n) >= 0
<1>1. n \in Int /\ n >= 0
  BY CalendarAssumption
<1>2. PICK j \in 0..30 : First(n, 0, j)
  BY <1>1, FirstExists
<1>3. PICK k \in 0..29 : is_business_day(n + k)
  BY HolidaysAssumption
<1>4. Stops(n, k)
  BY <1>3 DEF Stops
<1>5. j <= k
  BY <1>2, <1>4 DEF First
<1>6. is_business_day(n + j) /\ \A i \in 0..j - 1 : ~is_business_day(n + i)
  BY <1>2, <1>5 DEF First, Stops
<1>7. \A d \in n..n + j - 1 : ~is_business_day(d)
  <2>1. ASSUME NEW d \in n..n + j - 1 PROVE ~is_business_day(d)
    <3>1. d - n \in 0..j - 1 /\ n + (d - n) = d
      BY <1>1
    <3>2. QED
      BY <1>6, <3>1
  <2>2. QED
    BY <2>1
<1>8. shift_for_holidays(n) = n + j
  BY <1>1, <1>2, ShiftIsFirst
<1>9. QED
  BY <1>1, <1>6, <1>7, <1>8 DEF FirstBusinessDay

-----------------------------------------------------------------------------
(* The date of a month and day in a year: each year has one, in order.      *)
LEMMA DateFacts ==
  ASSUME NEW y \in Int, NEW m \in 1..12, NEW d \in 1..monthrange(y, m)
  PROVE  /\ date(y, m, d) \in Int /\ date(y, m, d) = MonthFirst(y, m) + d - 1
         /\ JanFirst(y) <= date(y, m, d) /\ date(y, m, d) < JanFirst(y + 1)
         /\ date(y, m, d) \in Known => On(date(y, m, d)) = <<m, d>> /\ year(date(y, m, d)) = y
<1>1. /\ MonthFirst(y, m) \in Int /\ monthrange(y, m) \in 28..31
      /\ MonthFirst(y, m) >= JanFirst(y)
      /\ MonthFirst(y, m) + monthrange(y, m) <= JanFirst(y + 1)
  BY MonthFacts
<1>2. JanFirst(y) \in Int /\ JanFirst(y + 1) \in Int
  BY YearLength
<1>3. PICK n \in Int : n = MonthFirst(y, m) + d - 1 /\ date(y, m, d) = n
  BY <1>1 DEF date
<1>4. JanFirst(y) <= n /\ n < JanFirst(y + 1)
  BY <1>1, <1>2, <1>3
<1>5. n \in Known => month(n) = m /\ dayOf(n) = d /\ year(n) = y
  BY <1>3, DateIs
<1>6. QED
  BY <1>3, <1>4, <1>5 DEF On

LEMMA DayOfAnyYear ==
  ASSUME NEW x \in MonthDays, NEW y \in Int
  PROVE  x[1] \in 1..12 /\ x[2] \in 1..monthrange(y, x[1]) /\ x = <<x[1], x[2]>>
<1>1. x[1] \in 1..12 /\ x[2] \in 1..31 /\ x[2] <= MonthLength[x[1]] /\ x = <<x[1], x[2]>>
  BY DEF MonthDays
<1>2. MonthLength[x[1]] \in Int /\ monthrange(y, x[1]) \in Int
  BY <1>1, MonthTypes
<1>3. MonthLength[x[1]] <= monthrange(y, x[1])
  BY <1>1, <1>2 DEF monthrange
<1>4. QED
  BY <1>1, <1>2, <1>3

LEMMA OnIs ==
  ASSUME NEW k \in Known, NEW x, On(k) = x
  PROVE  /\ year(k) \in Int /\ x[1] \in 1..12 /\ x[2] \in 1..monthrange(year(k), x[1])
         /\ k = date(year(k), x[1], x[2])
<1>1. x[1] = month(k) /\ x[2] = dayOf(k)
  BY DEF On
<1>2. /\ year(k) \in Int /\ month(k) \in 1..12 /\ dayOf(k) \in 1..monthrange(year(k), month(k))
      /\ k = MonthFirst(year(k), month(k)) + dayOf(k) - 1
  BY DateOf
<1>3. QED
  BY <1>1, <1>2 DEF date

Dues(days, n) == {k \in n + 1..n + 366 : On(k) \in days}

(* A year from a day on: the year it is in, the next, and never a third.    *)
LEMMA YearAhead ==
  ASSUME NEW n \in 0..LastDay
  PROVE  /\ n \in Known /\ n \in Int /\ year(n) \in Int
         /\ JanFirst(year(n)) <= n /\ n < JanFirst(year(n) + 1)
         /\ JanFirst(year(n)) \in Int /\ JanFirst(year(n) + 1) \in Int
         /\ JanFirst(year(n) + 2) \in Int
         /\ JanFirst(year(n) + 1) <= n + 366 /\ JanFirst(year(n) + 2) <= n + 732
         /\ n + 1..n + 732 \subseteq Known /\ n + 366 \in Int
<1>1. n \in Known /\ n \in Int /\ LastDay \in Nat
  BY CalendarAssumption DEF Known
<1>2. year(n) \in Int /\ JanFirst(year(n)) <= n /\ n < JanFirst(year(n) + 1)
  BY <1>1, DateOf
<1>3. PICK y \in Int : y = year(n)
  BY <1>2
<1>4. JanFirst(y) \in Int /\ JanFirst(y + 1) = JanFirst(y) + 365 + (IF IsLeap(y) THEN 1 ELSE 0)
  BY YearLength
<1>5. /\ y + 1 + 1 = y + 2
      /\ JanFirst(y + 1 + 1) = JanFirst(y + 1) + 365 + (IF IsLeap(y + 1) THEN 1 ELSE 0)
  BY YearLength
<1>6. n + 1..n + 732 \subseteq Known
  BY <1>1 DEF Known
<1>7. QED
  BY <1>1, <1>2, <1>3, <1>4, <1>5, <1>6

(* A day of the year comes again within a year and a day, this year or the  *)
(* next.                                                                    *)
LEMMA ComesAgain ==
  ASSUME NEW n \in 0..LastDay, NEW x \in MonthDays
  PROVE  \E y \in {year(n), year(n) + 1} :
           date(y, x[1], x[2]) \in n + 1..n + 366 /\ On(date(y, x[1], x[2])) = x
<1>1. PICK y \in Int : y = year(n)
  BY YearAhead
<1>2. /\ n \in Int /\ JanFirst(y) <= n /\ n < JanFirst(y + 1)
      /\ JanFirst(y + 1) <= n + 366 /\ n + 1..n + 732 \subseteq Known
      /\ JanFirst(y) \in Int /\ JanFirst(y + 1) \in Int
  BY <1>1, YearAhead
<1>n. PICK z \in Int : z = y + 1
  OBVIOUS
<1>r. /\ x[1] \in 1..12 /\ x[2] \in 1..31 /\ x = <<x[1], x[2]>>
      /\ x[2] \in 1..monthrange(y, x[1])
  BY DayOfAnyYear DEF MonthDays
<1>s. x[2] \in 1..monthrange(z, x[1])
  BY DayOfAnyYear
<1>3. PICK m \in 1..12, d \in Int : x = <<m, d>> /\ d \in 1..monthrange(y, m)
                                    /\ d \in 1..monthrange(y + 1, m)
  BY <1>n, <1>r, <1>s
<1>4. PICK a \in Int, b \in Int : a = date(y, m, d) /\ b = date(y + 1, m, d)
  BY <1>3, DateFacts
<1>5. /\ JanFirst(y) <= a /\ a < JanFirst(y + 1) /\ a = MonthFirst(y, m) + d - 1
      /\ a \in Known => On(a) = x
  BY <1>3, <1>4, DateFacts
<1>6. /\ JanFirst(y + 1) <= b /\ b = MonthFirst(y + 1, m) + d - 1
      /\ b \in Known => On(b) = x
  BY <1>3, <1>4, DateFacts
<1>7. CASE a > n
  <2>1. a \in n + 1..n + 366 /\ a \in Known
    BY <1>2, <1>5, <1>7
  <2>2. QED
    BY <1>1, <1>3, <1>4, <1>5, <2>1
<1>8. CASE a <= n
  <2>1. b - a <= 366
    <3>0. MonthFirst(z, m) \in Int
      BY MonthTypes
    <3>1. MonthFirst(y, m) \in Int /\ MonthFirst(y + 1, m) \in Int /\ DaysBefore[m] \in Int
      BY <1>n, <3>0, MonthTypes
    <3>2. JanFirst(y + 1) = JanFirst(y) + 365 + (IF IsLeap(y) THEN 1 ELSE 0)
      BY YearLength
    <3>3. IsLeap(y) => ~IsLeap(y + 1)
      BY DEF IsLeap
    <3>4. MonthFirst(y + 1, m) - MonthFirst(y, m) <= 366
      BY <1>2, <3>1, <3>2, <3>3 DEF MonthFirst
    <3>5. QED
      BY <1>5, <1>6, <3>1, <3>4
  <2>2. b \in n + 1..n + 366
    BY <1>2, <1>6, <1>8, <2>1
  <2>3. b \in Known
    BY <1>2, <2>2
  <2>4. QED
    BY <1>1, <1>3, <1>4, <1>6, <2>2, <2>3
<1>9. QED
  BY <1>2, <1>7, <1>8

(* No day is in an earlier year than a day before it.                       *)
LEMMA YearsInOrder ==
  ASSUME NEW n \in 0..LastDay, NEW k \in n + 1..n + 732
  PROVE  /\ k \in Known /\ k \in Int /\ year(k) \in Int /\ year(k) >= year(n)
         /\ JanFirst(year(k)) <= k /\ k < JanFirst(year(k) + 1)
         /\ k < JanFirst(year(n) + 2) => year(k) \in {year(n), year(n) + 1}
<1>1. PICK y \in Int : y = year(n)
  BY YearAhead
<1>2. n \in Int /\ JanFirst(y) <= n /\ JanFirst(y) \in Int /\ JanFirst(y + 2) \in Int
      /\ n + 1..n + 732 \subseteq Known
  BY <1>1, YearAhead
<1>3. k \in Known /\ k \in Int
  BY <1>2
<1>4. PICK z \in Int : z = year(k) /\ JanFirst(z) <= k /\ k < JanFirst(z + 1)
  BY <1>3, DateOf
<1>5. JanFirst(z) \in Int /\ JanFirst(z + 1) \in Int
  BY YearLength
<1>6. z + 1 < y => JanFirst(z + 1) <= JanFirst(y)
  <2>1. PICK c \in Int : c = z + 1
    OBVIOUS
  <2>2. JanFirst(c) \in Int /\ (c < y => JanFirst(c) + 365 <= JanFirst(y))
    BY YearLength, YearsApart
  <2>3. QED
    BY <1>2, <2>1, <2>2
<1>7. z >= y
  BY <1>2, <1>3, <1>4, <1>5, <1>6
<1>8. z > y + 2 => JanFirst(y + 2) <= JanFirst(z)
  <2>1. PICK c \in Int : c = y + 2
    OBVIOUS
  <2>2. c < z => JanFirst(c) + 365 <= JanFirst(z)
    BY YearsApart
  <2>3. QED
    BY <1>2, <1>5, <2>1, <2>2
<1>9. k < JanFirst(y + 2) => z = y \/ z = y + 1
  BY <1>2, <1>3, <1>4, <1>5, <1>7, <1>8
<1>10. QED
  BY <1>1, <1>3, <1>4, <1>7, <1>9

(* The next due date, found among the dates of this year and the next.      *)
LEMMA NextDue ==
  ASSUME NEW n \in 0..LastDay, NEW days, days \subseteq MonthDays, days # {}
  PROVE  /\ NextOf(days, n) \in n + 1..n + 366 /\ NextOf(days, n) \in Expand(days, n)
         /\ \A e \in Expand(days, n) : e \in Int /\ NextOf(days, n) <= e
<1>1. PICK y \in Int : y = year(n)
  BY YearAhead
<1>2. /\ n \in Int /\ JanFirst(y + 1) <= n + 366 /\ n + 1..n + 732 \subseteq Known
      /\ JanFirst(y + 1) \in Int /\ JanFirst(y + 2) \in Int /\ n >= 0
  BY <1>1, YearAhead
<1>3. PICK z \in Int : z = y + 1 /\ z + 1 = y + 2
  OBVIOUS
<1>4. Dues(days, n) # {} /\ Dues(days, n) \subseteq Int /\ Dues(days, n) \subseteq Nat
  <2>1. PICK x \in days : x \in MonthDays
    OBVIOUS
  <2>2. QED
    BY <1>2, <2>1, ComesAgain DEF Dues
<1>5. PICK k \in Dues(days, n) : \A j \in Dues(days, n) : k <= j
  BY <1>4, LeastNat
<1>6. NextOf(days, n) = k
  <2>1. Min(Dues(days, n)) = k
    BY <1>4, <1>5, MinIs
  <2>2. QED
    BY <2>1 DEF NextOf, Dues
<1>7. k \in n + 1..n + 366 /\ k \in Int /\ k \in n + 1..n + 732 /\ k \in Known
  BY <1>2, <1>5 DEF Dues
<1>8. PICK x \in days : x \in MonthDays /\ On(k) = x
  BY <1>5 DEF Dues
<1>9. k < JanFirst(y + 2)
  <2>1. PICK v \in {y, z} : date(v, x[1], x[2]) \in n + 1..n + 366
                            /\ On(date(v, x[1], x[2])) = x
    BY <1>1, <1>3, <1>8, ComesAgain
  <2>2. PICK e \in Int : e = date(v, x[1], x[2])
    BY <1>2, <2>1
  <2>3. e \in Dues(days, n)
    BY <1>8, <2>1, <2>2 DEF Dues
  <2>4. k <= e
    BY <1>5, <2>3
  <2>5. x[1] \in 1..12 /\ x[2] \in 1..monthrange(v, x[1])
    BY <1>8, DayOfAnyYear
  <2>6. e < JanFirst(v + 1)
    BY <2>2, <2>5, DateFacts
  <2>7. JanFirst(y + 1) < JanFirst(y + 2)
    BY <1>2, <1>3, YearLength
  <2>8. QED
    BY <1>2, <1>3, <1>7, <2>2, <2>4, <2>6, <2>7
<1>10. year(k) \in {y, y + 1}
  BY <1>1, <1>7, <1>9, YearsInOrder
<1>11. k \in Expand(days, n)
  <2>1. k = date(year(k), x[1], x[2])
    BY <1>7, <1>8, OnIs
  <2>2. k > n
    BY <1>2, <1>7
  <2>3. QED
    BY <1>1, <1>8, <1>10, <2>1, <2>2 DEF Expand
<1>12. ASSUME NEW e \in Expand(days, n) PROVE e \in Int /\ k <= e
  <2>1. PICK v \in {y, y + 1}, r \in days : e = date(v, r[1], r[2]) /\ e > n
    BY <1>1 DEF Expand
  <2>2. v \in Int /\ r \in MonthDays
    BY <2>1
  <2>3. r[1] \in 1..12 /\ r[2] \in 1..monthrange(v, r[1]) /\ r = <<r[1], r[2]>>
    BY <2>2, DayOfAnyYear
  <2>4. e \in Int /\ (e \in Known => On(e) = r)
    BY <2>1, <2>2, <2>3, DateFacts
  <2>5. CASE e > n + 366
    BY <1>2, <1>7, <2>4, <2>5
  <2>6. CASE e <= n + 366
    <3>1. e \in n + 1..n + 366 /\ e \in Known
      BY <1>2, <2>1, <2>4, <2>6
    <3>2. QED
      BY <1>5, <2>1, <2>4, <3>1 DEF Dues
  <2>7. QED
    BY <1>2, <2>4, <2>5, <2>6
<1>13. QED
  BY <1>6, <1>7, <1>11, <1>12

LEMMA RuleRight ==
  ASSUME NEW n \in 0..LastDay, NEW rule \in Rules
  PROVE  FirstBusinessDay(NextOf(rule, n), next_occurrences(rule, n))
<1>1. rule \subseteq MonthDays /\ rule # {}
  BY DueAssumption
<1>2. PICK k : k = NextOf(rule, n)
  OBVIOUS
<1>3. /\ k \in n + 1..n + 366 /\ k \in Expand(rule, n)
      /\ \A e \in Expand(rule, n) : e \in Int /\ k <= e
  BY <1>1, <1>2, NextDue
<1>4. Min(Expand(rule, n)) = k
  <2>1. Expand(rule, n) \subseteq Int
    BY <1>3
  <2>2. QED
    BY <1>3, <2>1, MinIs
<1>5. k \in 0..LastDay + 366
  BY <1>3, CalendarAssumption
<1>6. FirstBusinessDay(k, shift_for_holidays(k))
  BY <1>5, ShiftRight
<1>7. QED
  BY <1>2, <1>4, <1>6 DEF next_occurrences

(* The loop gives a day, never an error.                                    *)
LEMMA ShiftIsNoError ==
  ASSUME NEW n \in 0..LastDay + 366
  PROVE  shift_for_holidays(n) # ValueError
<1>1. FirstBusinessDay(n, shift_for_holidays(n))
  BY ShiftRight
<1>2. QED
  BY <1>1, CalendarAssumption DEF FirstBusinessDay, ValueError

LEMMA AnchorRight ==
  ASSUME NEW n \in 0..LastDay, NEW a \in MonthDays
  PROVE  /\ next_anchor_occurrence(a, n) # ValueError
         /\ FirstBusinessDay(NextOf({a}, n), next_anchor_occurrence(a, n))
<1>1. PICK y \in Int, z \in Int : y = year(n) /\ z = y + 1
  BY YearAhead
<1>2. /\ a[1] \in 1..12 /\ a[2] \in 1..monthrange(y, a[1]) /\ a[2] \in 1..monthrange(z, a[1])
      /\ monthrange(y, a[1]) \in Int /\ monthrange(z, a[1]) \in Int
  <2>1. a[1] \in 1..12 /\ a[2] \in 1..monthrange(y, a[1])
    BY DayOfAnyYear
  <2>2. a[2] \in 1..monthrange(z, a[1])
    BY DayOfAnyYear
  <2>3. QED
    BY <2>1, <2>2, MonthTypes
<1>3. PICK this \in Int, next \in Int :
        this = date(y, a[1], a[2]) /\ next = date(z, a[1], a[2])
  BY <1>2, DateFacts
<1>4. yearly(a, y) = this /\ yearly(a, z) = next
  BY <1>2, <1>3 DEF yearly
<1>5. this < next /\ this # ValueError /\ next # ValueError
  <2>1. JanFirst(y) <= this /\ this < JanFirst(y + 1)
    BY <1>2, <1>3, DateFacts
  <2>2. JanFirst(z) <= next
    BY <1>2, <1>3, DateFacts
  <2>3. n \in Int /\ n >= 0 /\ n < JanFirst(y + 1) /\ JanFirst(y) \in Int /\ JanFirst(z) \in Int
        /\ JanFirst(z) = JanFirst(y) + 365 + (IF IsLeap(y) THEN 1 ELSE 0)
    BY <1>1, YearAhead, YearLength
  <2>4. QED
    BY <1>1, <2>1, <2>2, <2>3 DEF ValueError
<1>6. Expand({a}, n) = {e \in {this, next} : e > n}
  BY <1>1, <1>3 DEF Expand
<1>7. PICK k : k = NextOf({a}, n)
  OBVIOUS
<1>8. /\ k \in n + 1..n + 366 /\ k \in Expand({a}, n)
      /\ \A e \in Expand({a}, n) : e \in Int /\ k <= e
  BY <1>7, NextDue
<1>9. k = (IF this > n THEN this ELSE next)
  BY <1>5, <1>6, <1>8
<1>10. k \in 0..LastDay + 366
  BY <1>8, CalendarAssumption
<1>11. next_anchor_occurrence(a, n) = shift_for_holidays(k)
  BY <1>1, <1>4, <1>5, <1>9 DEF next_anchor_occurrence
<1>12. QED
  BY <1>7, <1>10, <1>11, ShiftRight, ShiftIsNoError

LEMMA LeapAnchorRight ==
  ASSUME NEW n \in 0..LastDay, NEW a, a = <<2, 29>>
  PROVE  IF next_anchor_occurrence(a, n) = ValueError
         THEN \E y \in {year(n), year(n) + 1} : ~IsLeap(y)
         ELSE FirstBusinessDay(NextOf({a}, n), next_anchor_occurrence(a, n))
<1>1. PICK y \in Int, z \in Int : y = year(n) /\ z = y + 1
  BY YearAhead
<1>2. CASE ~IsLeap(y)
  <2>1. ~IsLeap(y) => next_anchor_occurrence(a, n) = ValueError
    <3>1. monthrange(y, 2) = 28 + (IF IsLeap(y) THEN 1 ELSE 0)
      BY DEF monthrange, MonthLength
    <3>2. ~IsLeap(y) => yearly(a, y) = ValueError
      BY <3>1 DEF yearly
    <3>3. QED
      BY <1>1, <3>2 DEF next_anchor_occurrence
  <2>2. QED
    BY <1>1, <1>2, <2>1
<1>3. CASE IsLeap(y) /\ next_anchor_occurrence(a, n) # ValueError
  <2>1. ~IsLeap(z) /\ IsLeap(y)
    BY <1>1, <1>3 DEF IsLeap
  <2>2. monthrange(y, 2) = 29 /\ monthrange(z, 2) = 28
    BY <2>1 DEF monthrange, MonthLength
  <2>3. PICK this \in Int : this = date(y, 2, 29)
    BY <2>2, DateFacts
  <2>4. yearly(a, y) = this /\ yearly(a, z) = ValueError
    BY <2>2, <2>3 DEF yearly
  <2>5. /\ n \in Int /\ n >= 0 /\ JanFirst(y) <= n /\ JanFirst(y + 1) <= n + 366
        /\ JanFirst(y) \in Int /\ JanFirst(y + 1) \in Int
        /\ n + 1..n + 732 \subseteq Known
    BY <1>1, YearAhead
  <2>6. /\ JanFirst(y) <= this /\ this < JanFirst(y + 1)
        /\ this \in Known => On(this) = a
    BY <2>2, <2>3, DateFacts
  <2>7. this > n /\ next_anchor_occurrence(a, n) = shift_for_holidays(this)
    BY <1>1, <1>3, <2>4 DEF next_anchor_occurrence
  <2>8. this \in n + 1..n + 366 /\ this \in Known
    BY <2>5, <2>6, <2>7
  <2>9. this \in Dues({a}, n)
    BY <2>6, <2>8 DEF Dues
  <2>10. ASSUME NEW j \in Dues({a}, n) PROVE this <= j
    <3>1. j \in n + 1..n + 366 /\ On(j) = a
      BY DEF Dues
    <3>2. j \in n + 1..n + 732 /\ j \in Int
      BY <2>5, <3>1
    <3>3. PICK v \in Int : v = year(j) /\ v >= y /\ JanFirst(v) <= j /\ j \in Known
      BY <1>1, <3>2, YearsInOrder
    <3>4. j = date(v, a[1], a[2])
      BY <3>1, <3>3, OnIs
    <3>5. CASE v = y
      BY <2>3, <3>4, <3>5
    <3>6. CASE v > y
      <4>1. JanFirst(v) \in Int /\ JanFirst(y + 1) <= JanFirst(v)
        <5>1. v = z \/ z < v
          BY <1>1, <3>3, <3>6
        <5>2. JanFirst(v) \in Int /\ JanFirst(z) \in Int
          BY YearLength
        <5>3. z < v => JanFirst(z) + 365 <= JanFirst(v)
          BY YearsApart
        <5>4. QED
          BY <1>1, <5>1, <5>2, <5>3
      <4>2. QED
        BY <2>5, <2>6, <3>2, <3>3, <4>1
    <3>7. QED
      BY <3>3, <3>5, <3>6
  <2>11. NextOf({a}, n) = this
    <3>1. Dues({a}, n) \subseteq Int
      BY <2>5 DEF Dues
    <3>2. Min(Dues({a}, n)) = this
      BY <2>9, <2>10, <3>1, MinIs
    <3>3. QED
      BY <3>2 DEF NextOf, Dues
  <2>12. this \in 0..LastDay + 366
    BY <2>8, CalendarAssumption
  <2>13. QED
    BY <1>3, <2>7, <2>11, <2>12, ShiftRight
<1>4. CASE IsLeap(y) /\ next_anchor_occurrence(a, n) = ValueError
  <2>1. ~IsLeap(z)
    BY <1>1, <1>4 DEF IsLeap
  <2>2. QED
    BY <1>1, <1>4, <2>1
<1>5. QED
  BY <1>2, <1>3, <1>4

(* Deadlines are shifted to the first business day there is, and recurring  *)
(* ones found at their next date, for every calendar of holidays and every  *)
(* set of rules and anchors; only 29 February has years without one.        *)
THEOREM DueDatesRightThm == Spec => []DueDatesRight
<1>1. ASSUME DayInv PROVE DueDatesRight
  <2>1. day \in 0..LastDay
    BY <1>1 DEF DayInv
  <2>2. day \in 0..LastDay + 366
    BY <2>1, CalendarAssumption
  <2>3. FirstBusinessDay(day, shift_for_holidays(day))
    BY <2>2, ShiftRight
  <2>4. \A rule \in Rules : FirstBusinessDay(NextOf(rule, day), next_occurrences(rule, day))
    BY <2>1, RuleRight
  <2>5. ASSUME NEW a \in Anchors
        PROVE  IF next_anchor_occurrence(a, day) = ValueError
               THEN a = <<2, 29>> /\ \E y \in {year(day), year(day) + 1} : ~IsLeap(y)
               ELSE FirstBusinessDay(NextOf({a}, day), next_anchor_occurrence(a, day))
    <3>1. a \in MonthDays \/ a = <<2, 29>>
      BY DueAssumption
    <3>2. CASE a \in MonthDays
      BY <2>1, <3>2, AnchorRight
    <3>3. CASE a = <<2, 29>>
      BY <2>1, <3>3, LeapAnchorRight
    <3>4. QED
      BY <3>1, <3>2, <3>3
  <2>6. QED
    BY <2>3, <2>4, <2>5 DEF DueDatesRight
<1>2. QED
  BY <1>1, DayCorrect, PTL

-----------------------------------------------------------------------------
(* Sums. Induction over the subsets of a finite set: what holds of a set    *)
(* when it holds of the set without any one of its members holds of every   *)
(* subset.                                                                  *)
LEMMA SubsetInduction ==
  ASSUME NEW S, IsFiniteSet(S), NEW T,
         \A s \in SUBSET S : (\A x \in s : s \ {x} \in T) => s \in T
  PROVE  SUBSET S \subseteq T
<1> SUFFICES ASSUME (SUBSET S) \ T # {} PROVE FALSE
  OBVIOUS
<1>1. FiniteSubsetsOf(S) = SUBSET S
  BY FS_FiniteSubsetsOfFinite, Zenon
<1>2. IsWellFoundedOn(StrictSubsetOrdering(S), SUBSET S)
  <2>1. IsWellFoundedOn(StrictSubsetOrdering(S), FiniteSubsetsOf(S))
    BY FS_StrictSubsetOrderingWellFounded, Zenon
  <2>2. QED
    BY <1>1, <2>1, Zenon
<1>3. PICK s \in (SUBSET S) \ T :
        \A t \in (SUBSET S) \ T : <<t, s>> \notin StrictSubsetOrdering(S)
  <2>1. (SUBSET S) \ T \subseteq SUBSET S
    OBVIOUS
  <2>2. QED
    BY <1>2, <2>1, WFMin, Zenon
<1>4. PICK x \in s : s \ {x} \notin T
  OBVIOUS
<1>5. <<s \ {x}, s>> \in StrictSubsetOrdering(S)
  BY DEF StrictSubsetOrdering
<1>6. QED
  BY <1>3, <1>4, <1>5

Total(A, S) == SumFunctionOnSet(A, S)
(* The sum over S is what one function over the subsets of S says of S.     *)
Foremost(s) == CHOOSE x \in s : TRUE
Adds(g, A, S) ==
  g = [s \in SUBSET S |-> IF s = {} THEN 0 ELSE A[Foremost(s)] + g[s \ {Foremost(s)}]]

LEMMA SumIs ==
  ASSUME NEW A, NEW S
  PROVE  Total(A, S) = (CHOOSE g : Adds(g, A, S))[S]
BY DEF Total, SumFunctionOnSet, FoldFunctionOnSet, MapThenFoldSet, Adds, Foremost

LEMMA ForemostIn == ASSUME NEW s, s # {} PROVE Foremost(s) \in s
BY DEF Foremost

LEMMA AddsAt ==
  ASSUME NEW A, NEW S, NEW g, Adds(g, A, S), NEW s \in SUBSET S
  PROVE  g[s] = IF s = {} THEN 0 ELSE A[Foremost(s)] + g[s \ {Foremost(s)}]
<1>1. g = [t \in SUBSET S |-> IF t = {} THEN 0 ELSE A[Foremost(t)] + g[t \ {Foremost(t)}]]
  BY DEF Adds
<1>2. PICK h : h = g
  OBVIOUS
<1>3. g = [t \in SUBSET S |-> IF t = {} THEN 0 ELSE A[Foremost(t)] + h[t \ {Foremost(t)}]]
  BY <1>1, <1>2
<1>4. g[s] = IF s = {} THEN 0 ELSE A[Foremost(s)] + h[s \ {Foremost(s)}]
  BY <1>3
<1>5. QED
  BY <1>2, <1>4

LEMMA AddsAgree ==
  ASSUME NEW A, NEW R, IsFiniteSet(R), NEW S, NEW g, NEW h, Adds(g, A, R), Adds(h, A, S)
  PROVE  \A s \in SUBSET (R \cap S) : g[s] = h[s]
<1> DEFINE T == {s \in SUBSET (R \cap S) : g[s] = h[s]}
<1>1. ASSUME NEW s \in SUBSET (R \cap S), \A x \in s : s \ {x} \in T PROVE s \in T
  <2>0. s \in SUBSET R /\ s \in SUBSET S
    OBVIOUS
  <2>1. g[s] = IF s = {} THEN 0 ELSE A[Foremost(s)] + g[s \ {Foremost(s)}]
    BY <2>0, AddsAt
  <2>11. h[s] = IF s = {} THEN 0 ELSE A[Foremost(s)] + h[s \ {Foremost(s)}]
    BY <2>0, AddsAt
  <2>2. s # {} => g[s \ {Foremost(s)}] = h[s \ {Foremost(s)}]
    BY <1>1, ForemostIn
  <2>3. QED
    BY <2>1, <2>11, <2>2
<1>2. IsFiniteSet(R \cap S)
  BY FS_Intersection
<1>3. SUBSET (R \cap S) \subseteq T
  <2> HIDE DEF T
  <2>1. PICK U : U = R \cap S
    OBVIOUS
  <2>2. \A s \in SUBSET U : (\A x \in s : s \ {x} \in T) => s \in T
    BY <1>1, <2>1
  <2>3. IsFiniteSet(U)
    BY <1>2, <2>1
  <2>4. SUBSET U \subseteq T
    BY <2>2, <2>3, SubsetInduction
  <2>5. QED
    BY <2>1, <2>4
<1>4. QED
  BY <1>3

LEMMA AddsExists ==
  ASSUME NEW A, NEW S, IsFiniteSet(S)
  PROVE  \E g : Adds(g, A, S)
<1> DEFINE Has(s) == \A u \in SUBSET s : \E g : Adds(g, A, u)
           T == {s \in SUBSET S : Has(s)}
           c == [u \in SUBSET S |-> CHOOSE g : Adds(g, A, u)]
           d == [u \in SUBSET S |-> c[u][u]]
           e(s) == [t \in SUBSET s |-> IF t = {} THEN 0 ELSE A[Foremost(t)] + d[t \ {Foremost(t)}]]
<1>1. ASSUME NEW u \in SUBSET S, Has(u)
      PROVE  d[u] = IF u = {} THEN 0 ELSE A[Foremost(u)] + d[u \ {Foremost(u)}]
  <2>1. Adds(c[u], A, u)
    BY <1>1
  <2>2. c[u][u] = IF u = {} THEN 0 ELSE A[Foremost(u)] + c[u][u \ {Foremost(u)}]
    BY <2>1, AddsAt
  <2>3. ASSUME u # {} PROVE c[u][u \ {Foremost(u)}] = d[u \ {Foremost(u)}]
    <3> DEFINE v == u \ {Foremost(u)}
    <3>1. v \in SUBSET S /\ v \in SUBSET u /\ v \in SUBSET (u \cap v)
      OBVIOUS
    <3>2. Adds(c[v], A, v)
      BY <1>1, <3>1
    <3>3. IsFiniteSet(u)
      BY FS_Subset
    <3> HIDE DEF c, v
    <3>4. c[u][v] = c[v][v]
      BY <2>1, <3>1, <3>2, <3>3, AddsAgree
    <3>5. QED
      BY <3>1, <3>4 DEF v
  <2>4. QED
    BY <2>2, <2>3
<1> HIDE DEF c, d
<1>2. ASSUME NEW s \in SUBSET S, \A x \in s : s \ {x} \in T PROVE s \in T
  <2>1. ASSUME NEW u \in SUBSET s, u # s PROVE Has(u)
    <3>1. PICK x \in s : x \notin u
      BY <2>1
    <3>2. QED
      BY <1>2, <3>1
  <2>2. ASSUME NEW u \in SUBSET s, u # s PROVE e(s)[u] = d[u]
    <3>1. d[u] = IF u = {} THEN 0 ELSE A[Foremost(u)] + d[u \ {Foremost(u)}]
      BY <1>1, <2>1, <2>2
    <3>2. QED
      BY <3>1
  <2>3. ASSUME NEW t \in SUBSET s, t # {}
        PROVE  e(s)[t \ {Foremost(t)}] = d[t \ {Foremost(t)}]
    BY <2>2, <2>3, ForemostIn
  <2>4. e(s) = [t \in SUBSET s |-> IF t = {} THEN 0
                                   ELSE A[Foremost(t)] + e(s)[t \ {Foremost(t)}]]
    <3>1. PICK f : f = e(s)
      OBVIOUS
    <3>2. \A t \in SUBSET s : t # {} => f[t \ {Foremost(t)}] = d[t \ {Foremost(t)}]
      BY <2>3, <3>1
    <3>3. f = [t \in SUBSET s |-> IF t = {} THEN 0 ELSE A[Foremost(t)] + f[t \ {Foremost(t)}]]
      BY <3>1, <3>2
    <3>4. QED
      BY <3>1, <3>3
  <2>5. Adds(e(s), A, s)
    BY <2>4 DEF Adds
  <2>6. QED
    <3> HIDE DEF e
    <3>1. ASSUME NEW u \in SUBSET s PROVE \E g : Adds(g, A, u)
      BY <2>1, <2>5
    <3>2. QED
      BY <3>1
<1>3. SUBSET S \subseteq T
  <2> HIDE DEF T
  <2>1. QED
    BY <1>2, SubsetInduction
<1>4. QED
  BY <1>3

(* A sum of naturals is a natural.                                          *)
LEMMA SumIsNat ==
  ASSUME NEW S, IsFiniteSet(S), NEW A, \A x \in S : A[x] \in Nat
  PROVE  Total(A, S) \in Nat
<1>1. PICK g : Adds(g, A, S) /\ Total(A, S) = g[S]
  BY AddsExists, SumIs
<1> DEFINE T == {s \in SUBSET S : g[s] \in Nat}
<1>2. ASSUME NEW s \in SUBSET S, \A x \in s : s \ {x} \in T PROVE s \in T
  <2>1. g[s] = IF s = {} THEN 0 ELSE A[Foremost(s)] + g[s \ {Foremost(s)}]
    BY <1>1, AddsAt
  <2>2. s # {} => g[s \ {Foremost(s)}] \in Nat /\ A[Foremost(s)] \in Nat
    BY <1>2, ForemostIn
  <2>3. QED
    BY <2>1, <2>2
<1>3. SUBSET S \subseteq T
  <2> HIDE DEF T
  <2>1. QED
    BY <1>2, SubsetInduction
<1>4. QED
  BY <1>1, <1>3

(* The function over the subsets, with integers to add.                     *)
LEMMA TotalExists ==
  ASSUME NEW S, IsFiniteSet(S), NEW A, \A x \in S : A[x] \in Int
  PROVE  \E g : /\ Adds(g, A, S)
                /\ \A s \in SUBSET S : g[s] \in Int /\ g[s] = Total(A, s)
<1>1. PICK g : Adds(g, A, S)
  BY AddsExists
<1>a. ASSUME NEW s \in SUBSET S
      PROVE  g[s] = IF s = {} THEN 0 ELSE A[Foremost(s)] + g[s \ {Foremost(s)}]
  <2>1. Adds(g, A, S)
    BY <1>1
  <2>2. QED
    BY ONLY <2>1, s \in SUBSET S, AddsAt
<1> DEFINE T == {s \in SUBSET S : g[s] \in Int}
<1>2. ASSUME NEW s \in SUBSET S, \A x \in s : s \ {x} \in T PROVE s \in T
  <2>1. g[s] = IF s = {} THEN 0 ELSE A[Foremost(s)] + g[s \ {Foremost(s)}]
    BY <1>a
  <2>2. s # {} => g[s \ {Foremost(s)}] \in Int /\ A[Foremost(s)] \in Int
    BY <1>2, ForemostIn
  <2>3. QED
    BY <2>1, <2>2
<1>3. SUBSET S \subseteq T
  <2> HIDE DEF T
  <2>1. QED
    BY <1>2, SubsetInduction
<1>4. ASSUME NEW s \in SUBSET S PROVE g[s] = Total(A, s)
  <2>1. IsFiniteSet(s)
    BY FS_Subset
  <2>2. PICK h : Adds(h, A, s) /\ Total(A, s) = h[s]
    BY <2>1, AddsExists, SumIs
  <2>3. s \in SUBSET (s \cap S)
    OBVIOUS
  <2>4. h[s] = g[s]
    BY <1>1, <2>1, <2>2, <2>3, AddsAgree
  <2>5. QED
    BY <2>2, <2>4
<1>5. QED
  BY <1>1, <1>3, <1>4

LEMMA TotalTypes ==
  ASSUME NEW S, IsFiniteSet(S), NEW A, \A x \in S : A[x] \in Int
  PROVE  Total(A, S) \in Int
<1>1. PICK g : \A s \in SUBSET S : g[s] \in Int /\ g[s] = Total(A, s)
  BY TotalExists
<1>2. g[S] \in Int /\ g[S] = Total(A, S)
  BY <1>1
<1>3. QED
  BY <1>2

LEMMA TotalNone ==
  ASSUME NEW A
  PROVE  Total(A, {}) = 0
<1>1. IsFiniteSet({})
  BY FS_EmptySet
<1>2. PICK g : Adds(g, A, {}) /\ Total(A, {}) = g[{}]
  BY <1>1, AddsExists, SumIs
<1>3. g[{}] = IF {} = {} THEN 0 ELSE A[Foremost({})] + g[{} \ {Foremost({})}]
  BY <1>2, AddsAt
<1>4. QED
  BY <1>2, <1>3

(* The order of adding does not matter: any one of the terms may come last. *)
LEMMA TotalLess ==
  ASSUME NEW S, IsFiniteSet(S), NEW A, \A x \in S : A[x] \in Int, NEW x \in S
  PROVE  Total(A, S) = A[x] + Total(A, S \ {x})
<1>1. PICK g : /\ Adds(g, A, S)
               /\ \A s \in SUBSET S : g[s] \in Int /\ g[s] = Total(A, s)
  BY TotalExists
<1> DEFINE T == {s \in SUBSET S : \A z \in s : g[s] = A[z] + g[s \ {z}]}
<1>2. ASSUME NEW s \in SUBSET S, \A z \in s : s \ {z} \in T PROVE s \in T
  <2> SUFFICES ASSUME NEW z \in s PROVE g[s] = A[z] + g[s \ {z}]
    OBVIOUS
  <2>1. PICK f \in s : f = Foremost(s)
    BY ForemostIn
  <2>2. g[s] = A[f] + g[s \ {f}]
    <3>1. g[s] = IF s = {} THEN 0 ELSE A[Foremost(s)] + g[s \ {Foremost(s)}]
      BY <1>1, AddsAt
    <3>2. QED
      BY <2>1, <3>1
  <2>3. CASE z = f
    BY <2>2, <2>3
  <2>4. CASE z # f
    <3>1. PICK r \in SUBSET S : r = (s \ {f}) \ {z} /\ r = (s \ {z}) \ {f}
      BY <2>4
    <3>2. s \ {f} \in T /\ z \in s \ {f} /\ s \ {z} \in T /\ f \in s \ {z}
      BY <1>2, <2>1, <2>4
    <3>3. g[s \ {f}] = A[z] + g[r] /\ g[s \ {z}] = A[f] + g[r]
      BY <3>1, <3>2
    <3>4. A[z] \in Int /\ A[f] \in Int /\ g[r] \in Int
      BY <1>1
    <3>5. QED
      BY <2>2, <3>3, <3>4
  <2>5. QED
    BY <2>3, <2>4
<1>3. SUBSET S \subseteq T
  <2> HIDE DEF T
  <2>1. QED
    BY <1>2, SubsetInduction
<1>4. g[S] = A[x] + g[S \ {x}]
  BY <1>3
<1>5. g[S] = Total(A, S) /\ g[S \ {x}] = Total(A, S \ {x})
  BY <1>1
<1>6. QED
  BY <1>4, <1>5

LEMMA TotalMore ==
  ASSUME NEW S, IsFiniteSet(S), NEW x, x \notin S,
         NEW A, \A y \in S \cup {x} : A[y] \in Int
  PROVE  Total(A, S \cup {x}) = A[x] + Total(A, S)
<1>1. PICK U : U = S \cup {x}
  OBVIOUS
<1>2. IsFiniteSet(U)
  BY <1>1, FS_AddElement
<1>3. x \in U /\ U \ {x} = S /\ \A y \in U : A[y] \in Int
  BY <1>1
<1>4. QED
  BY <1>1, <1>2, <1>3, TotalLess

LEMMA TotalAgree ==
  ASSUME NEW S, IsFiniteSet(S), NEW A, NEW B, \A x \in S : A[x] \in Int /\ A[x] = B[x]
  PROVE  Total(A, S) = Total(B, S)
<1> DEFINE T == {s \in SUBSET S : Total(A, s) = Total(B, s)}
<1>1. ASSUME NEW s \in SUBSET S, \A x \in s : s \ {x} \in T PROVE s \in T
  <2>1. CASE s = {}
    BY <2>1, TotalNone
  <2>2. CASE s # {}
    <3>1. PICK x \in s : s \ {x} \in T
      BY <1>1, <2>2
    <3>2. IsFiniteSet(s) /\ \A y \in s : A[y] \in Int /\ B[y] \in Int
      BY FS_Subset
    <3>3. Total(A, s) = A[x] + Total(A, s \ {x})
      BY <3>2, TotalLess
    <3>4. Total(B, s) = B[x] + Total(B, s \ {x})
      BY <3>2, TotalLess
    <3>5. QED
      BY <3>1, <3>3, <3>4
  <2>3. QED
    BY <2>1, <2>2
<1>2. SUBSET S \subseteq T
  <2> HIDE DEF T
  <2>1. QED
    BY <1>1, SubsetInduction
<1>3. QED
  BY <1>2

(* Two disjoint sets of terms add up to their union.                        *)
LEMMA TotalUnion ==
  ASSUME NEW S, IsFiniteSet(S), NEW R, IsFiniteSet(R), S \cap R = {},
         NEW A, \A x \in S \cup R : A[x] \in Int
  PROVE  Total(A, S \cup R) = Total(A, S) + Total(A, R)
<1> DEFINE T == {s \in SUBSET R : Total(A, S \cup s) = Total(A, S) + Total(A, s)}
<1>0. Total(A, S) \in Int
  BY TotalTypes
<1>1. ASSUME NEW s \in SUBSET R, \A x \in s : s \ {x} \in T PROVE s \in T
  <2>1. CASE s = {}
    <3>1. S \cup s = S
      BY <2>1
    <3>2. QED
      BY <1>0, <2>1, <3>1, TotalNone
  <2>2. CASE s # {}
    <3>1. PICK x \in s : s \ {x} \in T
      BY <1>1, <2>2
    <3>2. IsFiniteSet(s) /\ IsFiniteSet(S \cup (s \ {x})) /\ IsFiniteSet(s \ {x})
      <4>1. IsFiniteSet(s)
        BY FS_Subset
      <4>2. s \ {x} \subseteq s
        OBVIOUS
      <4>3. IsFiniteSet(s \ {x})
        BY <4>1, <4>2, FS_Subset
      <4>4. QED
        BY <4>1, <4>3, FS_Union
    <3>3. Total(A, s) = A[x] + Total(A, s \ {x})
      BY <3>2, TotalLess
    <3>4. x \notin S \cup (s \ {x}) /\ (S \cup (s \ {x})) \cup {x} = S \cup s
      OBVIOUS
    <3>5. Total(A, S \cup s) = A[x] + Total(A, S \cup (s \ {x}))
      <4>1. PICK U : U = S \cup (s \ {x})
        OBVIOUS
      <4>2. \A y \in U \cup {x} : A[y] \in Int
        BY <4>1
      <4>3. QED
        BY <3>2, <3>4, <4>1, <4>2, TotalMore
    <3>6. A[x] \in Int /\ Total(A, s \ {x}) \in Int
      <4>1. \A y \in s \ {x} : A[y] \in Int
        OBVIOUS
      <4>2. Total(A, s \ {x}) \in Int
        BY <3>2, <4>1, TotalTypes
      <4>3. QED
        BY <4>2
    <3>7. QED
      BY <1>0, <3>1, <3>3, <3>5, <3>6
  <2>3. QED
    BY <2>1, <2>2
<1>2. SUBSET R \subseteq T
  <2> HIDE DEF T
  <2>1. QED
    BY <1>1, SubsetInduction
<1>3. QED
  BY <1>2

LEMMA TotalScale ==
  ASSUME NEW S, IsFiniteSet(S), NEW c \in Int, NEW A, NEW B,
         \A x \in S : A[x] \in Int /\ B[x] = A[x] * c
  PROVE  Total(B, S) = Total(A, S) * c
<1> DEFINE T == {s \in SUBSET S : Total(B, s) = Total(A, s) * c}
<1>1. ASSUME NEW s \in SUBSET S, \A x \in s : s \ {x} \in T PROVE s \in T
  <2>1. CASE s = {}
    BY <2>1, TotalNone
  <2>2. CASE s # {}
    <3>1. PICK x \in s : s \ {x} \in T
      BY <1>1, <2>2
    <3>2. IsFiniteSet(s) /\ \A y \in s : A[y] \in Int /\ B[y] \in Int
      BY FS_Subset
    <3>3. Total(A, s) = A[x] + Total(A, s \ {x})
      BY <3>2, TotalLess
    <3>4. Total(B, s) = B[x] + Total(B, s \ {x})
      BY <3>2, TotalLess
    <3>5. Total(A, s \ {x}) \in Int
      <4>1. s \ {x} \subseteq s
        OBVIOUS
      <4>2. IsFiniteSet(s \ {x}) /\ \A y \in s \ {x} : A[y] \in Int
        BY <3>2, <4>1, FS_Subset
      <4>3. QED
        BY <4>2, TotalTypes
    <3>6. A[x] \in Int /\ B[x] = A[x] * c
      OBVIOUS
    <3>7. Total(B, s \ {x}) = Total(A, s \ {x}) * c
      BY <3>1
    <3>8. \A p, q \in Int : p * c + q * c = (p + q) * c
      OBVIOUS
    <3>9. QED
      BY <3>3, <3>4, <3>5, <3>6, <3>7, <3>8
  <2>3. QED
    BY <2>1, <2>2
<1>2. SUBSET S \subseteq T
  <2> HIDE DEF T
  <2>1. QED
    BY <1>1, SubsetInduction
<1>3. QED
  BY <1>2

(* Cut by a key and added up by key, the terms add up to the same.          *)
Cut(S, key, k) == {x \in S : key[x] = k}

LEMMA TotalByKey ==
  ASSUME NEW S, IsFiniteSet(S), NEW K, IsFiniteSet(K), NEW key, \A x \in S : key[x] \in K,
         NEW A, \A x \in S : A[x] \in Int,
         NEW B, \A k \in K : B[k] = Total(A, Cut(S, key, k))
  PROVE  Total(B, K) = Total(A, S)
<1> DEFINE Of(s) == {x \in S : key[x] \in s}
           T == {s \in SUBSET K : Total(B, s) = Total(A, Of(s))}
<1>0. ASSUME NEW k \in K PROVE B[k] \in Int
  <2>1. PICK U : U = Cut(S, key, k)
    OBVIOUS
  <2>2. IsFiniteSet(U) /\ \A x \in U : A[x] \in Int
    BY <2>1, FS_Subset DEF Cut
  <2>3. QED
    BY <2>1, <2>2, TotalTypes
<1>1. ASSUME NEW s \in SUBSET K, \A k \in s : s \ {k} \in T PROVE s \in T
  <2>1. CASE s = {}
    <3>1. Of(s) = {}
      BY <2>1
    <3>2. QED
      BY <2>1, <3>1, TotalNone
  <2>2. CASE s # {}
    <3>1. PICK k \in s : s \ {k} \in T
      BY <1>1, <2>2
    <3>2. IsFiniteSet(s) /\ \A j \in s : B[j] \in Int
      BY <1>0, FS_Subset
    <3>3. Total(B, s) = B[k] + Total(B, s \ {k})
      BY <3>2, TotalLess
    <3>4. PICK U, V : U = Cut(S, key, k) /\ V = Of(s \ {k})
      OBVIOUS
    <3>5. U \cap V = {} /\ V \cup U = Of(s) /\ U \subseteq S /\ V \subseteq S
      BY <3>4 DEF Cut
    <3>6. IsFiniteSet(U) /\ IsFiniteSet(V) /\ \A x \in V \cup U : A[x] \in Int
      BY <3>5, FS_Subset
    <3>7. Total(A, V \cup U) = Total(A, V) + Total(A, U)
      BY <3>5, <3>6, TotalUnion
    <3>8. Total(A, V) \in Int /\ Total(A, U) \in Int
      BY <3>6, TotalTypes
    <3>9. B[k] = Total(A, U) /\ Total(B, s \ {k}) = Total(A, V)
      BY <3>1, <3>4
    <3>10. Total(B, s) = Total(A, V \cup U)
      BY ONLY <3>3, <3>7, <3>8, <3>9
    <3>11. QED
      BY <3>5, <3>10
  <2>3. QED
    BY <2>1, <2>2
<1>2. SUBSET K \subseteq T
  <2> HIDE DEF T
  <2>1. QED
    BY <1>1, SubsetInduction
<1>3. Of(K) = S
  OBVIOUS
<1>4. Total(B, K) = Total(A, Of(K))
  BY <1>2
<1>5. QED
  BY <1>3, <1>4

-----------------------------------------------------------------------------
(* Month ends: the days after which a first of the month comes.             *)
LEMMA MonthTurns ==
  ASSUME NEW n \in Known, n + 1 \in Known
  PROVE  n = _end_of_month(n) <=> dayOf(n + 1) = 1
<1>1. PICK y, m : y = year(n) /\ m = month(n)
  OBVIOUS
<1>2. /\ y \in Int /\ m \in 1..12 /\ n \in Int
      /\ n = MonthFirst(y, m) + dayOf(n) - 1 /\ dayOf(n) \in 1..monthrange(y, m)
      /\ monthrange(y, m) \in Int /\ MonthFirst(y, m) \in Int
  BY <1>1, DateOf, KnownDays, MonthTypes
<1>3. /\ _end_of_month(n) = MonthFirst(y, m) + monthrange(y, m) - 1
      /\ _end_of_month(n) + 1 = MonthFirst(NextYear(y, m), NextMonth(m))
      /\ n <= _end_of_month(n) /\ _end_of_month(n) \in Int
  BY <1>1, EndOfMonth
<1>4. CASE n = _end_of_month(n)
  <2>1. NextYear(y, m) \in Int /\ NextMonth(m) \in 1..12
    BY <1>2, NextMonthFirst
  <2>2. n + 1 = MonthFirst(NextYear(y, m), NextMonth(m))
    BY <1>3, <1>4
  <2>3. dayOf(n + 1) = 1
    BY <2>1, <2>2, MonthStarts
  <2>4. QED
    BY <1>4, <2>3
<1>5. CASE n # _end_of_month(n)
  <2>1. PICK d \in Int : d = dayOf(n) + 1
    BY <1>2
  <2>2. d \in 1..monthrange(y, m) /\ n + 1 = MonthFirst(y, m) + d - 1
    BY <1>2, <1>3, <1>5, <2>1
  <2>3. dayOf(n + 1) = d
    BY <1>2, <2>2, DateIs
  <2>4. QED
    BY <1>2, <1>5, <2>1, <2>3
<1>6. QED
  BY <1>4, <1>5

LEMMA Asked ==
  ASSUME day \in 0..LastDay, NEW c \in day..day + Horizon
  PROVE  /\ day \in Int /\ c \in Int /\ c \in Known /\ c + 1 \in Known /\ day <= c
         /\ Horizon \in Nat /\ c <= LastDay + 700 /\ LastDay \in Nat
         /\ day \in day..day + Horizon
BY CalendarAssumption, SnapshotAssumption DEF Known

LEMMA EndsFacts ==
  ASSUME day \in 0..LastDay, NEW c \in day..day + Horizon
  PROVE  /\ IsFiniteSet(MonthEnds(c)) /\ MonthEnds(c) \subseteq day..c - 1
         /\ Cardinality(MonthEnds(c)) \in Nat
<1>1. day \in Int /\ c \in Int
  BY Asked
<1>2. MonthEnds(c) \subseteq day..c - 1
  BY DEF MonthEnds
<1>3. IsFiniteSet(day..c - 1)
  BY <1>1, FS_Interval
<1>4. IsFiniteSet(MonthEnds(c))
  BY <1>2, <1>3, FS_Subset
<1>5. QED
  BY <1>2, <1>4, FS_CardinalityType

LEMMA NoEndsYet ==
  ASSUME day \in 0..LastDay
  PROVE  MonthEnds(day) = {} /\ Cardinality(MonthEnds(day)) = 0
<1>1. MonthEnds(day) = {}
  BY CalendarAssumption DEF MonthEnds
<1>2. QED
  BY <1>1, FS_EmptySet

LEMMA MaxIs ==
  ASSUME NEW T, T \subseteq Int, NEW x \in T, \A y \in T : x >= y
  PROVE  Max(T) = x
<1>1. \A z \in T : (\A y \in T : z >= y) => z = x
  OBVIOUS
<1>2. QED
  BY <1>1 DEF Max

LEMMA GreatestIn ==
  ASSUME NEW T, T \subseteq Int, T # {}, IsFiniteSet(T)
  PROVE  Max(T) \in T
<1>1. \E x \in T : \A y \in T : x >= y
  <2> DEFINE U == {s \in SUBSET T : s = {} \/ \E x \in s : \A y \in s : x >= y}
  <2>1. ASSUME NEW s \in SUBSET T, \A x \in s : s \ {x} \in U PROVE s \in U
    <3>1. SUFFICES ASSUME s # {} PROVE \E x \in s : \A y \in s : x >= y
      OBVIOUS
    <3>2. PICK x \in s : s \ {x} \in U
      BY <2>1, <3>1
    <3>3. s \subseteq Int
      OBVIOUS
    <3>4. CASE s \ {x} = {}
      BY <3>3, <3>4
    <3>5. CASE s \ {x} # {}
      <4>1. PICK z \in s \ {x} : \A y \in s \ {x} : z >= y
        BY <3>2, <3>5
      <4>2. CASE x >= z
        <5>1. \A y \in s : x >= y
          BY <3>3, <4>1, <4>2
        <5>2. QED
          BY <5>1
      <4>3. CASE z >= x
        BY <3>3, <4>1, <4>3
      <4>4. QED
        BY <3>3, <4>2, <4>3
    <3>6. QED
      BY <3>4, <3>5
  <2>2. SUBSET T \subseteq U
    <3> HIDE DEF U
    <3>1. QED
      BY <2>1, SubsetInduction
  <2>3. T \in U
    BY <2>2
  <2>4. QED
    BY <2>3
<1>2. QED
  BY <1>1 DEF Max

LEMMA NextEnds ==
  ASSUME day \in 0..LastDay, NEW c \in day..day + Horizon
  PROVE  /\ c # _end_of_month(c) => MonthEnds(c + 1) = MonthEnds(c)
         /\ c = _end_of_month(c) =>
              /\ MonthEnds(c + 1) = MonthEnds(c) \cup {c}
              /\ Cardinality(MonthEnds(c + 1)) = Cardinality(MonthEnds(c)) + 1
              /\ Max(MonthEnds(c + 1)) = c /\ MonthEnds(c + 1) # {}
<1>1. /\ day \in Int /\ c \in Int /\ day <= c
      /\ c = _end_of_month(c) <=> dayOf(c + 1) = 1
  BY Asked, MonthTurns
<1>2. IsFiniteSet(MonthEnds(c)) /\ MonthEnds(c) \subseteq day..c - 1
  BY EndsFacts
<1>3. \A k : k \in day..(c + 1) - 1 <=> k \in day..c - 1 \/ k = c
  BY <1>1
<1>4. c # _end_of_month(c) => MonthEnds(c + 1) = MonthEnds(c)
  BY <1>1, <1>3 DEF MonthEnds
<1>5. ASSUME c = _end_of_month(c) PROVE MonthEnds(c + 1) = MonthEnds(c) \cup {c}
  BY <1>1, <1>3, <1>5 DEF MonthEnds
<1>6. c \notin MonthEnds(c)
  BY <1>1, <1>2
<1>7. PICK T : T = MonthEnds(c) \cup {c}
  OBVIOUS
<1>8. Cardinality(T) = Cardinality(MonthEnds(c)) + 1
  BY <1>2, <1>6, <1>7, FS_AddElement
<1>9. T \subseteq Int /\ c \in T /\ \A y \in T : c >= y
  BY <1>1, <1>2, <1>7
<1>10. Max(T) = c
  BY <1>9, MaxIs
<1>11. QED
  BY <1>4, <1>5, <1>7, <1>8, <1>9, <1>10

-----------------------------------------------------------------------------
(* What comes in.                                                           *)
Grosses(L) == [i \in _open_invoices(L) |-> i.gross]

LEMMA InvoiceFacts ==
  ASSUME NEW L \in Ledgers
  PROVE  /\ IsFiniteSet(_open_invoices(L)) /\ L.opening \in Nat /\ L.rate \in Nat
         /\ \A i \in _open_invoices(L) : i.due \in Int /\ i.gross \in Nat
                                         /\ Grosses(L)[i] = i.gross
<1>1. /\ L.opening \in Nat \ {0} /\ L.rate \in 0..100
      /\ L.invoices \subseteq Invoice /\ IsFiniteSet(L.invoices)
  BY LedgersAssumption
<1>2. _open_invoices(L) \subseteq L.invoices
  BY DEF _open_invoices
<1>3. IsFiniteSet(_open_invoices(L))
  BY <1>1, <1>2, FS_Subset
<1>4. ASSUME NEW i \in _open_invoices(L)
      PROVE  i.due \in Int /\ i.gross \in Nat /\ Grosses(L)[i] = i.gross
  <2>1. i \in Invoice /\ i.gross # NoAmount
    BY <1>1, <1>2 DEF _open_invoices
  <2>2. i.due \in Int /\ i.gross \in Nat \cup {NoAmount}
    BY <2>1 DEF Invoice, Dated, Amount
  <2>3. QED
    BY <2>1, <2>2 DEF Grosses
<1>5. QED
  BY <1>1, <1>3, <1>4

LEMMA GrossTotal ==
  ASSUME NEW L \in Ledgers, NEW S, S \subseteq _open_invoices(L)
  PROVE  /\ SumFunction([i \in S |-> i.gross]) = Total(Grosses(L), S)
         /\ IsFiniteSet(S) /\ \A i \in S : Grosses(L)[i] \in Int
         /\ Total(Grosses(L), S) \in Nat
<1>1. /\ IsFiniteSet(_open_invoices(L))
      /\ \A i \in _open_invoices(L) : i.gross \in Nat /\ Grosses(L)[i] = i.gross
  BY InvoiceFacts
<1>2. IsFiniteSet(S)
  BY <1>1, FS_Subset
<1>3. PICK A : A = [i \in S |-> i.gross]
  OBVIOUS
<1>4. DOMAIN A = S /\ \A i \in S : A[i] \in Int /\ A[i] = Grosses(L)[i]
  BY <1>1, <1>3
<1>5. SumFunction(A) = Total(A, S)
  BY <1>4 DEF SumFunction, Total
<1>6. Total(A, S) = Total(Grosses(L), S)
  BY <1>2, <1>4, TotalAgree
<1>7. \A i \in S : Grosses(L)[i] \in Nat
  BY <1>1
<1>8. Total(Grosses(L), S) \in Nat
  BY <1>2, <1>7, SumIsNat
<1>9. QED
  BY <1>2, <1>3, <1>5, <1>6, <1>7, <1>8

(* A day adds what is due on it, and nothing was received before the first. *)
LEMMA ReceivedNext ==
  ASSUME day \in 0..LastDay, NEW L \in Ledgers, NEW n \in Int, day <= n
  PROVE  /\ Received(L, n) \in Nat /\ inflow(L, n) \in Nat /\ Received(L, n - 1) \in Nat
         /\ Received(L, n) = Received(L, n - 1) + inflow(L, n)
<1> DEFINE O == _open_invoices(L)
           Till(k) == {x \in O : day <= x.due /\ x.due <= k}
<1>1. PICK S, R, U : S = Till(n - 1) /\ R = {x \in O : x.due = n} /\ U = Till(n)
  OBVIOUS
<1>2. day \in Int /\ \A x \in O : x.due \in Int
  BY CalendarAssumption, InvoiceFacts
<1>3. S \subseteq O /\ R \subseteq O /\ U \subseteq O
  BY <1>1
<1>4. S \cup R = U /\ S \cap R = {}
  BY <1>1, <1>2
<1>5. /\ Received(L, n - 1) = Total(Grosses(L), S) /\ Received(L, n - 1) \in Nat
      /\ IsFiniteSet(S) /\ \A i \in S : Grosses(L)[i] \in Int
  BY <1>1, <1>3, GrossTotal DEF Received
<1>6. /\ inflow(L, n) = Total(Grosses(L), R) /\ inflow(L, n) \in Nat
      /\ IsFiniteSet(R) /\ \A i \in R : Grosses(L)[i] \in Int
  BY <1>1, <1>3, GrossTotal DEF inflow
<1>7. Received(L, n) = Total(Grosses(L), U) /\ Received(L, n) \in Nat
  BY <1>1, <1>3, GrossTotal DEF Received
<1>8. Total(Grosses(L), S \cup R) = Total(Grosses(L), S) + Total(Grosses(L), R)
  <2>1. \A i \in S \cup R : Grosses(L)[i] \in Int
    BY <1>5, <1>6
  <2> HIDE DEF O
  <2>2. QED
    BY <1>4, <1>5, <1>6, <2>1, TotalUnion
<1>9. QED
  BY <1>4, <1>5, <1>6, <1>7, <1>8

LEMMA NothingYet ==
  ASSUME day \in 0..LastDay, NEW L \in Ledgers
  PROVE  Received(L, day - 1) = 0
<1>1. PICK S : S = {x \in _open_invoices(L) : day <= x.due /\ x.due <= day - 1}
  OBVIOUS
<1>2. day \in Int /\ \A x \in _open_invoices(L) : x.due \in Int
  BY CalendarAssumption, InvoiceFacts
<1>3. S = {}
  BY <1>1, <1>2
<1>4. Received(L, day - 1) = Total(Grosses(L), {})
  BY <1>1, <1>3, GrossTotal DEF Received
<1>5. QED
  BY <1>4, TotalNone

-----------------------------------------------------------------------------
(* The burn of a month, rounded from twelfths.                              *)
LEMMA Twelfths ==
  ASSUME NEW x \in Nat
  PROVE  Quantize(x, 12) \in Nat /\ 2 * (12 * Quantize(x, 12) - x) \in -12..12
BY DEF Quantize

LEMMA Hundredths ==
  ASSUME NEW x \in Nat
  PROVE  Quantize(x, 100) \in Nat /\ 200 * Quantize(x, 100) - 2 * x \in -100..100
BY DEF Quantize

LEMMA BurnIsNat ==
  ASSUME NEW L \in Ledgers, NEW n \in Int
  PROVE  yearly_cost(L, n) \in Nat /\ monthly_burn(L, n) \in Nat
<1>1. PICK S : S = {x \in L.expenses : is_active_on(x, n)}
  OBVIOUS
<1>2. IsFiniteSet(S) /\ S \subseteq Expense
  <2>1. L.expenses \subseteq Expense /\ IsFiniteSet(L.expenses) /\ S \subseteq L.expenses
    BY <1>1, LedgersAssumption
  <2>2. QED
    BY <2>1, FS_Subset
<1>3. ASSUME NEW e \in S PROVE effective_amount(e, n) * (12 \div e.cadence) \in Nat
  <2>1. effective_amount(e, n) \in Nat /\ e.cadence \in {1, 3, 12}
    BY <1>2 DEF Expense, effective_amount
  <2>2. PICK a \in Nat, k \in Nat : a = effective_amount(e, n) /\ k = 12 \div e.cadence
    BY <2>1
  <2>3. a * k \in Nat
    OBVIOUS
  <2>4. QED
    BY <2>2, <2>3
<1>4. PICK A : A = [e \in S |-> effective_amount(e, n) * (12 \div e.cadence)]
  OBVIOUS
<1>5. DOMAIN A = S /\ \A e \in S : A[e] \in Nat
  BY <1>3, <1>4
<1>6. Total(A, S) \in Nat
  BY <1>2, <1>5, SumIsNat
<1>7. SumFunction(A) = Total(A, S)
  BY <1>5 DEF SumFunction, Total
<1>8. yearly_cost(L, n) \in Nat
  BY <1>1, <1>4, <1>6, <1>7 DEF yearly_cost
<1>9. QED
  BY <1>8, Twelfths DEF monthly_burn

-----------------------------------------------------------------------------
(* The walk. Before a day's invoices it holds what the day before was       *)
(* worth, less the burn and the reserve of a month that ended then; the     *)
(* revenue is what came in since. All days it has passed were worth zero or *)
(* more, and it stops at the first that is not.                             *)
Walks ==
  [at : {"walking", "done"}, ledger : Ledgers, cursor : Int, balance : Int, revenue : Int,
   burn : Nat, charged : SUBSET Int, runway : Int]
Taxed(L, c) == IF MonthEnds(c) = {} THEN 0 ELSE Received(L, Max(MonthEnds(c)))
Saldo(w, c, received) ==
  100 * (w.ledger.opening + received - Cardinality(MonthEnds(c)) * w.burn)
    - w.ledger.rate * Taxed(w.ledger, c)
WalkOK(w) ==
  /\ w \in Walks
  /\ w.cursor \in day..day + Horizon
  /\ w.charged = MonthEnds(w.cursor)
  /\ \A n \in day..w.cursor - 1 : Worth(w, n) >= 0
  /\ IF w.runway = Never
     THEN /\ w.revenue = Received(w.ledger, w.cursor - 1) - Taxed(w.ledger, w.cursor)
          /\ w.balance = Saldo(w, w.cursor, Received(w.ledger, w.cursor - 1))
          /\ w.at = "done" => w.cursor = day + Horizon
     ELSE /\ w.at = "done" /\ w.runway = w.cursor
          /\ w.cursor < day + Horizon /\ Worth(w, w.cursor) < 0
WalkInv == DayInv /\ (walk = Idle \/ WalkOK(walk))

LEMMA WorthIs ==
  ASSUME NEW w, NEW n
  PROVE  Worth(w, n) = Saldo(w, n, Received(w.ledger, n))
BY DEF Worth, Saldo, Taxed

LEMMA TaxedIsNat ==
  ASSUME day \in 0..LastDay, NEW L \in Ledgers, NEW c \in day..day + Horizon
  PROVE  Taxed(L, c) \in Nat
<1>1. CASE MonthEnds(c) = {}
  BY <1>1 DEF Taxed
<1>2. CASE MonthEnds(c) # {}
  <2>1. /\ IsFiniteSet(MonthEnds(c)) /\ MonthEnds(c) \subseteq day..c - 1
        /\ day \in Int /\ day >= 0 /\ c \in Int
    BY EndsFacts, Asked
  <2>2. PICK T : T = MonthEnds(c) /\ T # {} /\ T \subseteq Int /\ IsFiniteSet(T)
    BY <1>2, <2>1
  <2>3. Max(T) \in T
    BY <2>2, GreatestIn
  <2>4. Received(L, Max(T)) \in Nat
    BY <2>1, <2>2, <2>3, ReceivedNext
  <2>5. QED
    BY <1>2, <2>2, <2>4 DEF Taxed
<1>3. QED
  BY <1>1, <1>2

LEMMA SaldoIsInt ==
  ASSUME day \in 0..LastDay, NEW w \in Walks, NEW c \in day..day + Horizon, NEW r \in Int
  PROVE  Saldo(w, c, r) \in Int
<1>1. w.ledger \in Ledgers /\ w.burn \in Nat
  BY DEF Walks
<1>2. w.ledger.opening \in Nat /\ w.ledger.rate \in Nat
  BY <1>1, InvoiceFacts
<1>3. Taxed(w.ledger, c) \in Nat /\ Cardinality(MonthEnds(c)) \in Nat
  BY <1>1, TaxedIsNat, EndsFacts
<1>4. Cardinality(MonthEnds(c)) * w.burn \in Nat /\ w.ledger.rate * Taxed(w.ledger, c) \in Nat
  BY <1>1, <1>2, <1>3
<1>5. QED
  BY <1>2, <1>4 DEF Saldo

LEMMA WalkBegins ==
  ASSUME WalkInv, NEW L \in Ledgers, Snapshot(L)
  PROVE  WalkInv'
<1>1. day \in 0..LastDay /\ day' = day /\ day \in Int /\ day \in day..day + Horizon
  BY Asked, CalendarAssumption, SnapshotAssumption DEF WalkInv, DayInv, Snapshot
<1>2. PICK w : w = [at |-> "walking", ledger |-> L, cursor |-> day, balance |-> 100 * L.opening,
                    revenue |-> 0, burn |-> monthly_burn(L, day), charged |-> {},
                    runway |-> Never]
  OBVIOUS
<1>3. walk' = w
  BY <1>2 DEF Snapshot
<1>4. L.opening \in Nat /\ L.rate \in Nat /\ Never \in Int /\ monthly_burn(L, day) \in Nat
  BY <1>1, InvoiceFacts, BurnIsNat, CalendarAssumption DEF Never
<1>5. w \in Walks
  BY <1>1, <1>2, <1>4 DEF Walks
<1>6. /\ MonthEnds(day) = {} /\ Cardinality(MonthEnds(day)) = 0 /\ Received(L, day - 1) = 0
      /\ Taxed(L, day) = 0
  BY <1>1, NoEndsYet, NothingYet DEF Taxed
<1>7. Saldo(w, day, 0) = 100 * L.opening
  BY <1>2, <1>4, <1>6 DEF Saldo
<1>8. WalkOK(w)
  <2>1. w.cursor = day /\ w.charged = {} /\ w.runway = Never /\ w.revenue = 0
        /\ w.balance = 100 * L.opening /\ w.at = "walking" /\ w.ledger = L
    BY <1>2
  <2>2. \A n \in day..w.cursor - 1 : Worth(w, n) >= 0
    BY <1>1, <2>1
  <2>3. QED
    BY <1>1, <1>5, <1>6, <1>7, <2>1, <2>2 DEF WalkOK
<1>9. WalkOK(w)'
  BY <1>1, <1>2, <1>3, <1>8 DEF WalkOK, Worth, Saldo, Taxed, Received, MonthEnds
<1>10. QED
  BY <1>1, <1>3, <1>9 DEF WalkInv, DayInv

LEMMA WorthSame ==
  ASSUME NEW v, NEW w, v.ledger = w.ledger, v.burn = w.burn, NEW n
  PROVE  Worth(v, n) = Worth(w, n)
BY DEF Worth

LEMMA SaldoSame ==
  ASSUME NEW v, NEW w, v.ledger = w.ledger, v.burn = w.burn, NEW n, NEW r
  PROVE  Saldo(v, n, r) = Saldo(w, n, r)
BY DEF Saldo

(* What a day's invoices add.                                               *)
LEMMA SaldoReceives ==
  ASSUME day \in 0..LastDay, NEW w \in Walks, NEW c \in day..day + Horizon,
         NEW a \in Int, NEW r \in Int
  PROVE  Saldo(w, c, a + r) = Saldo(w, c, a) + 100 * r
<1>1. w.ledger \in Ledgers /\ w.burn \in Nat
  BY DEF Walks
<1>2. w.ledger.opening \in Nat /\ w.ledger.rate \in Nat
  BY <1>1, InvoiceFacts
<1>3. Taxed(w.ledger, c) \in Nat /\ Cardinality(MonthEnds(c)) \in Nat
  BY <1>1, TaxedIsNat, EndsFacts
<1>4. PICK k \in Nat, t \in Nat :
        k = Cardinality(MonthEnds(c)) * w.burn /\ t = w.ledger.rate * Taxed(w.ledger, c)
  BY <1>1, <1>2, <1>3
<1>5. \A x \in Int : Saldo(w, c, x) = 100 * (w.ledger.opening + x - k) - t
  BY <1>4 DEF Saldo
<1>6. QED
  BY <1>2, <1>5

(* What the end of a month takes.                                           *)
LEMMA SaldoCharged ==
  ASSUME day \in 0..LastDay, NEW w \in Walks, NEW c \in day..day + Horizon,
         c = _end_of_month(c), NEW a \in Int, a = Received(w.ledger, c)
  PROVE  /\ Taxed(w.ledger, c + 1) = a
         /\ Saldo(w, c + 1, a)
              = Saldo(w, c, a) - 100 * w.burn - w.ledger.rate * (a - Taxed(w.ledger, c))
<1>1. w.ledger \in Ledgers /\ w.burn \in Nat
  BY DEF Walks
<1>2. w.ledger.opening \in Nat /\ w.ledger.rate \in Nat
  BY <1>1, InvoiceFacts
<1>3. Taxed(w.ledger, c) \in Nat /\ Cardinality(MonthEnds(c)) \in Nat
  BY <1>1, TaxedIsNat, EndsFacts
<1>4. /\ Cardinality(MonthEnds(c + 1)) = Cardinality(MonthEnds(c)) + 1
      /\ Max(MonthEnds(c + 1)) = c /\ MonthEnds(c + 1) # {}
  BY NextEnds
<1>5. Taxed(w.ledger, c + 1) = a
  BY <1>4 DEF Taxed
<1>6. PICK k \in Int, b \in Int, p \in Int, t \in Int, o \in Int :
        /\ k = Cardinality(MonthEnds(c)) /\ b = w.burn /\ p = w.ledger.rate
        /\ t = Taxed(w.ledger, c) /\ o = w.ledger.opening
  BY <1>1, <1>2, <1>3
<1>7. Saldo(w, c, a) = 100 * (o + a - k * b) - p * t
  BY <1>6 DEF Saldo
<1>8. Saldo(w, c + 1, a) = 100 * (o + a - (k + 1) * b) - p * a
  BY <1>4, <1>5, <1>6 DEF Saldo
<1>9. (k + 1) * b = k * b + b /\ p * (a - t) = p * a - p * t
  OBVIOUS
<1>10. k * b \in Int /\ p * t \in Int /\ p * a \in Int
  OBVIOUS
<1>11. Saldo(w, c + 1, a) = Saldo(w, c, a) - 100 * b - p * (a - t)
  BY <1>7, <1>8, <1>9, <1>10
<1>12. QED
  BY <1>5, <1>6, <1>11

LEMMA WalkTypes ==
  ASSUME NEW w \in Walks
  PROVE  /\ w.ledger \in Ledgers /\ w.cursor \in Int /\ w.balance \in Int /\ w.revenue \in Int
         /\ w.burn \in Nat /\ w.charged \subseteq Int /\ w.at \in {"walking", "done"}
BY DEF Walks

LEMMA WalkGoesOn ==
  ASSUME WalkInv, WalkDay
  PROVE  WalkInv'
<1> DEFINE L == walk.ledger
           c == walk.cursor
           r == inflow(L, c)
           w == [walk EXCEPT !.balance = @ + 100 * r, !.revenue = @ + r]
<1>1. walk.at = "walking" /\ c < day + Horizon /\ day' = day
  BY DEF WalkDay
<1>2. walk' = IF w.balance < 0 THEN [w EXCEPT !.at = "done", !.runway = w.cursor]
              ELSE [MonthEnd(w) EXCEPT !.cursor = @ + 1]
  BY DEF WalkDay
<1>3. day \in 0..LastDay /\ WalkOK(walk)
  BY <1>1 DEF WalkInv, DayInv, Idle
<1>4. /\ walk \in Walks /\ c \in day..day + Horizon /\ walk.charged = MonthEnds(c)
      /\ \A n \in day..c - 1 : Worth(walk, n) >= 0
      /\ walk.runway = Never
      /\ walk.revenue = Received(L, c - 1) - Taxed(L, c)
      /\ walk.balance = Saldo(walk, c, Received(L, c - 1))
  BY <1>1, <1>3 DEF WalkOK
<1>5. /\ L \in Ledgers /\ c \in Int /\ day \in Int /\ day <= c /\ Horizon \in Nat /\ Never \in Int
      /\ walk.burn \in Nat /\ walk.balance \in Int /\ walk.revenue \in Int
      /\ walk.charged \subseteq Int
      /\ c + 1 \in day..day + Horizon
  <2>1. c \in Int /\ day \in Int /\ day <= c /\ Horizon \in Nat /\ LastDay \in Nat
    BY <1>3, <1>4, Asked
  <2>2. Never \in Int
    BY <2>1 DEF Never
  <2>3. c + 1 \in day..day + Horizon
    BY <1>1, <2>1
  <2>4. QED
    BY <1>4, <2>1, <2>2, <2>3, WalkTypes
<1>6. /\ r \in Nat /\ Received(L, c - 1) \in Nat /\ Received(L, c) \in Nat
      /\ Received(L, c) = Received(L, c - 1) + r
  BY <1>3, <1>5, ReceivedNext
<1>7. PICK a \in Int : a = Received(L, c)
  BY <1>6
<1>8. w \in Walks /\ w.ledger = L /\ w.cursor = c /\ w.burn = walk.burn
      /\ w.charged = walk.charged /\ w.runway = Never /\ w.at = "walking"
      /\ w.balance = walk.balance + 100 * r /\ w.revenue = walk.revenue + r
  <2>1. PICK b \in Int, v \in Int : b = walk.balance + 100 * r /\ v = walk.revenue + r
    BY <1>5, <1>6
  <2>2. w = [walk EXCEPT !.balance = b, !.revenue = v]
    BY <2>1
  <2>3. walk \in Walks /\ walk.at = "walking" /\ walk.runway = Never
    BY <1>1, <1>4
  <2> HIDE DEF w, r, L, c
  <2>4. w \in Walks /\ w.ledger = walk.ledger /\ w.cursor = walk.cursor /\ w.burn = walk.burn
        /\ w.charged = walk.charged /\ w.runway = Never /\ w.at = "walking"
        /\ w.balance = b /\ w.revenue = v
    BY <2>2, <2>3 DEF Walks
  <2>5. QED
    BY <2>1, <2>4 DEF L, c
<1> HIDE DEF w, r
<1>9. w.balance = Saldo(w, c, a) /\ w.revenue = a - Taxed(L, c) /\ Taxed(L, c) \in Nat
  <2>1. Saldo(w, c, Received(L, c - 1) + r) = Saldo(w, c, Received(L, c - 1)) + 100 * r
    BY <1>3, <1>4, <1>6, <1>8, SaldoReceives
  <2>2. Saldo(w, c, Received(L, c - 1)) = Saldo(walk, c, Received(L, c - 1))
    BY <1>8, SaldoSame
  <2>3. Taxed(L, c) \in Nat
    BY <1>3, <1>4, <1>5, TaxedIsNat
  <2>4. QED
    BY <1>4, <1>6, <1>7, <1>8, <2>1, <2>2, <2>3
<1>10. Worth(w, c) = w.balance
  BY <1>7, <1>8, <1>9, WorthIs
<1>11. \A n \in day..c - 1 : Worth(w, n) >= 0
  BY <1>4, <1>8, WorthSame
<1>12. ASSUME NEW v, walk' = v, WalkOK(v) PROVE WalkInv'
  <2>1. WalkOK(v)'
    BY <1>1, <1>12 DEF WalkOK, Worth, Saldo, Taxed, Received, MonthEnds
  <2>2. QED
    BY <1>1, <1>3, <1>12, <2>1 DEF WalkInv, DayInv
<1>13. CASE w.balance < 0
  <2>1. PICK v : v = [w EXCEPT !.at = "done", !.runway = w.cursor]
    OBVIOUS
  <2>2. v \in Walks /\ v.ledger = L /\ v.cursor = c /\ v.burn = w.burn /\ v.runway = c
        /\ v.charged = w.charged /\ v.at = "done"
    BY <1>5, <1>8, <2>1 DEF Walks
  <2>3. c # Never
    BY <1>3, <1>4, Asked DEF Never
  <2>4. \A n \in day..c - 1 : Worth(v, n) >= 0
    BY <1>8, <1>11, <2>2, WorthSame
  <2>5. Worth(v, c) < 0
    BY <1>8, <1>10, <1>13, <2>2, WorthSame
  <2>6. WalkOK(v)
    BY <1>1, <1>4, <1>8, <2>2, <2>3, <2>4, <2>5 DEF WalkOK
  <2>7. QED
    BY <1>2, <1>12, <1>13, <2>1, <2>6
<1>14. CASE ~(w.balance < 0)
  <2>1. ASSUME NEW v \in Walks, v.ledger = L, v.cursor = c + 1, v.burn = w.burn,
               v.runway = Never, v.charged = MonthEnds(c + 1), v.at = "walking",
               v.revenue = a - Taxed(L, c + 1), v.balance = Saldo(w, c + 1, a)
        PROVE  WalkOK(v)
    <3>1. \A n \in day..c : Worth(v, n) >= 0
      <4>1. \A n : Worth(v, n) = Worth(w, n)
        BY <1>8, <2>1, WorthSame
      <4>2. Worth(w, c) >= 0
        <5>1. w.balance \in Int
          BY <1>8, WalkTypes
        <5>2. QED
          BY <1>10, <1>14, <5>1
      <4>3. QED
        BY <1>5, <1>11, <4>1, <4>2
    <3>2. (c + 1) - 1 = c
      BY <1>5
    <3>3. v.balance = Saldo(v, c + 1, a)
      BY <1>8, <2>1, SaldoSame
    <3>4. QED
      BY <1>5, <1>7, <2>1, <3>1, <3>2, <3>3 DEF WalkOK
  <2>2. PICK v : v = [MonthEnd(w) EXCEPT !.cursor = @ + 1]
    OBVIOUS
  <2>3. CASE c # _end_of_month(c)
    <3>1. v = [w EXCEPT !.cursor = c + 1]
      BY <1>8, <2>2, <2>3 DEF MonthEnd
    <3>2. v \in Walks /\ v.ledger = L /\ v.cursor = c + 1 /\ v.burn = w.burn
          /\ v.runway = Never /\ v.charged = w.charged /\ v.at = "walking"
          /\ v.revenue = w.revenue /\ v.balance = w.balance
      BY <1>5, <1>8, <3>1 DEF Walks
    <3>3. MonthEnds(c + 1) = MonthEnds(c)
      BY <1>3, <1>4, <2>3, NextEnds
    <3>4. Taxed(L, c + 1) = Taxed(L, c) /\ Saldo(w, c + 1, a) = Saldo(w, c, a)
      BY <1>8, <3>3 DEF Taxed, Saldo
    <3>5. WalkOK(v)
      BY <1>4, <1>8, <1>9, <2>1, <3>2, <3>3, <3>4
    <3>6. QED
      BY <1>2, <1>12, <1>14, <2>2, <3>5
  <2>4. CASE c = _end_of_month(c)
    <3>0. PICK C \in SUBSET Int : C = w.charged \cup {c}
      BY <1>5, <1>8
    <3>1. PICK b \in Int : b = w.balance - 100 * w.burn - w.ledger.rate * w.revenue
      <4>1. w.ledger.rate \in Nat /\ w.burn \in Nat /\ w.revenue \in Int /\ w.balance \in Int
        BY <1>5, <1>8, InvoiceFacts, WalkTypes
      <4>2. w.ledger.rate * w.revenue \in Int
        BY <4>1
      <4>3. QED
        BY <4>1, <4>2
    <3>2. v = [w EXCEPT !.balance = b, !.charged = C, !.revenue = 0, !.cursor = c + 1]
      <4>1. MonthEnd(w) = [w EXCEPT !.balance = b, !.charged = C, !.revenue = 0]
        BY <1>8, <2>4, <3>0, <3>1 DEF MonthEnd
      <4>2. MonthEnd(w).cursor = c
        BY <1>8, <4>1 DEF Walks
      <4>3. QED
        BY <1>8, <2>2, <4>1, <4>2 DEF Walks
    <3>3. v \in Walks /\ v.ledger = L /\ v.cursor = c + 1 /\ v.burn = w.burn
          /\ v.runway = Never /\ v.charged = C /\ v.at = "walking"
          /\ v.revenue = 0 /\ v.balance = b
      <4>1. PICK x \in Int, z \in Int : x = c + 1 /\ z = 0
        BY <1>5
      <4>0. PICK u \in Walks : u = w
        BY <1>8
      <4>2. v = [u EXCEPT !.balance = b, !.charged = C, !.revenue = z, !.cursor = x]
        BY <3>2, <4>0, <4>1
      <4>3. /\ v \in Walks /\ v.ledger = u.ledger /\ v.cursor = x /\ v.burn = u.burn
            /\ v.runway = u.runway /\ v.charged = C /\ v.at = u.at
            /\ v.revenue = z /\ v.balance = b
        BY <4>2 DEF Walks
      <4>4. QED
        BY <1>8, <4>0, <4>1, <4>3
    <3>4. C = MonthEnds(c + 1)
      BY <1>3, <1>4, <1>8, <2>4, <3>0, NextEnds
    <3>5. Taxed(L, c + 1) = a /\ b = Saldo(w, c + 1, a)
      BY <1>3, <1>4, <1>7, <1>8, <1>9, <2>4, <3>1, SaldoCharged
    <3>6. a - Taxed(L, c + 1) = 0
      BY <3>5
    <3>7. WalkOK(v)
      BY <2>1, <3>3, <3>4, <3>5, <3>6
    <3>8. QED
      BY <1>2, <1>12, <1>14, <2>2, <3>7
  <2>5. QED
    BY <2>3, <2>4
<1>15. QED
  BY <1>13, <1>14

LEMMA WalkReachesItsEnd ==
  ASSUME WalkInv, WalkEnds
  PROVE  WalkInv'
<1>1. /\ walk.at = "walking" /\ walk.cursor = day + Horizon /\ day' = day
      /\ walk' = [walk EXCEPT !.at = "done"]
  BY DEF WalkEnds
<1>2. WalkOK(walk) /\ day \in 0..LastDay
  BY <1>1 DEF WalkInv, DayInv, Idle
<1>3. PICK v : v = [walk EXCEPT !.at = "done"]
  OBVIOUS
<1>4. walk \in Walks
  BY <1>2 DEF WalkOK
<1>5. /\ v \in Walks /\ v.ledger = walk.ledger /\ v.cursor = walk.cursor /\ v.burn = walk.burn
      /\ v.runway = walk.runway /\ v.charged = walk.charged /\ v.at = "done"
      /\ v.revenue = walk.revenue /\ v.balance = walk.balance
  BY <1>3, <1>4 DEF Walks
<1>6. \A n : Worth(v, n) = Worth(walk, n)
  BY <1>5, WorthSame
<1>7. \A n, r : Saldo(v, n, r) = Saldo(walk, n, r)
  BY <1>5, SaldoSame
<1>8. WalkOK(v)
  BY <1>1, <1>2, <1>5, <1>6, <1>7 DEF WalkOK
<1>9. WalkOK(v)'
  BY <1>1, <1>8 DEF WalkOK, Worth, Saldo, Taxed, Received, MonthEnds
<1>10. QED
  BY <1>1, <1>2, <1>3, <1>9 DEF WalkInv, DayInv

(* The walk as it goes: the inductive invariant behind the two theorems on   *)
(* the snapshot.                                                            *)
THEOREM WalkCorrect == Spec => []WalkInv
<1>1. WalkInit => WalkInv
  BY CalendarAssumption DEF WalkInit, Init, WalkInv, DayInv
<1>2. WalkInv /\ [Next]_<<day, walk>> => WalkInv'
  <2> SUFFICES ASSUME WalkInv, [Next]_<<day, walk>> PROVE WalkInv'
    OBVIOUS
  <2>1. CASE UNCHANGED <<day, walk>>
    <3>1. PICK v : v = walk
      OBVIOUS
    <3>2. WalkOK(v) => WalkOK(v)'
      BY <2>1 DEF WalkOK, Worth, Saldo, Taxed, Received, MonthEnds
    <3>3. QED
      BY <2>1, <3>1, <3>2 DEF WalkInv, DayInv
  <2>2. CASE \E L \in Ledgers : Snapshot(L)
    BY <2>2, WalkBegins
  <2>3. CASE WalkDay
    BY <2>3, WalkGoesOn
  <2>4. CASE WalkEnds
    BY <2>4, WalkReachesItsEnd
  <2>5. CASE Store
    BY <2>5 DEF Store, WalkInv, DayInv
  <2>6. CASE NextDay
    <3>1. walk = Idle /\ walk' = walk
      BY <2>6 DEF NextDay, WalkInv, WalkOK, Walks
    <3>2. DayInv'
      BY <2>6, CalendarAssumption DEF NextDay, Tomorrow, WalkInv, DayInv
    <3>3. QED
      BY <3>1, <3>2 DEF WalkInv
  <2>7. QED
    BY <2>1, <2>2, <2>3, <2>4, <2>5, <2>6 DEF Next
<1>3. QED
  BY <1>1, <1>2, PTL DEF Spec

(* The walk stays within its horizon and its figures are numbers.           *)
THEOREM TypeCorrect == Spec => []TypeOK
<1>1. ASSUME WalkInv PROVE TypeOK
  <2>1. day \in 0..LastDay
    BY <1>1 DEF WalkInv, DayInv
  <2>2. CASE walk = Idle
    BY <2>1, <2>2 DEF TypeOK, Idle
  <2>3. CASE WalkOK(walk)
    <3>1. /\ walk \in Walks /\ walk.cursor \in day..day + Horizon
          /\ walk.charged = MonthEnds(walk.cursor)
          /\ walk.runway \in {Never, walk.cursor}
      BY <2>3 DEF WalkOK
    <3>2. MonthEnds(walk.cursor) \subseteq day..walk.cursor - 1
      BY <2>1, <3>1, EndsFacts
    <3>3. /\ walk.ledger \in Ledgers /\ walk.balance \in Int /\ walk.revenue \in Int
          /\ walk.burn \in Nat /\ walk.at \in {"walking", "done"}
      BY <3>1, WalkTypes
    <3>4. day..walk.cursor - 1 \subseteq day..day + Horizon
      BY <2>1, <3>1, Asked
    <3>5. {walk.balance, walk.revenue, walk.burn} \subseteq Int
      BY <3>3
    <3>6. QED
      BY <2>1, <3>1, <3>2, <3>3, <3>4, <3>5 DEF TypeOK
  <2>4. QED
    BY <1>1, <2>2, <2>3 DEF WalkInv
<1>2. QED
  BY <1>1, WalkCorrect, PTL

-----------------------------------------------------------------------------
(* The runway of a finished walk, and the warning.                          *)
LEMMA RunwayRight ==
  ASSUME WalkInv, walk.at = "done"
  PROVE  RunwayIsFirstNegative(walk) /\ WarnsInTime(walk)
<1>1. day \in 0..LastDay /\ WalkOK(walk)
  BY DEF WalkInv, DayInv, Idle
<1>2. PICK c \in day..day + Horizon, v \in Int :
        c = walk.cursor /\ v = walk.runway
  BY <1>1, WalkTypes DEF WalkOK, Walks
<1>3. /\ day \in Int /\ c \in Int /\ day <= c /\ c <= day + Horizon /\ Horizon \in Nat
      /\ WarningDays \in Nat
  BY <1>1, <1>2, Asked, SnapshotAssumption
<1>4. c # Never
  BY <1>1, <1>2, Asked DEF Never
<1>5. /\ \A n \in day..c - 1 : Worth(walk, n) >= 0
      /\ v = Never => c = day + Horizon
      /\ v # Never => v = c /\ c < day + Horizon /\ Worth(walk, c) < 0
  BY <1>1, <1>2 DEF WalkOK
<1>6. RunwayIsFirstNegative(walk)
  BY <1>2, <1>5 DEF RunwayIsFirstNegative
<1>7. ASSUME NEW n \in day..c - 1 PROVE ~(Worth(walk, n) < 0)
  <2>1. walk \in Walks /\ walk.ledger \in Ledgers /\ n \in day..day + Horizon /\ n \in Int /\ day <= n
    BY <1>1, <1>3, WalkTypes DEF WalkOK
  <2>2. Received(walk.ledger, n) \in Nat
    BY <1>1, <2>1, ReceivedNext
  <2>3. Worth(walk, n) \in Int
    BY <1>1, <2>1, <2>2, WorthIs, SaldoIsInt
  <2>4. QED
    BY <1>5, <2>3
<1>8. CASE v = Never
  <2>1. ~alerts(walk)
    BY <1>2, <1>8 DEF alerts
  <2>2. ASSUME NEW n \in day..day + WarningDays, n < day + Horizon, Worth(walk, n) < 0
        PROVE  FALSE
    <3>1. n \in day..c - 1
      BY <1>3, <1>5, <1>8, <2>2
    <3>2. QED
      BY <1>7, <2>2, <3>1
  <2>3. QED
    BY <1>6, <2>1, <2>2 DEF WarnsInTime
<1>9. CASE v # Never
  <2>1. alerts(walk) <=> c <= day + WarningDays
    BY <1>2, <1>3, <1>5, <1>9 DEF alerts
  <2>2. ASSUME c <= day + WarningDays
        PROVE  \E n \in day..day + WarningDays :
                 n < day + Horizon /\ n <= walk.cursor /\ Worth(walk, n) < 0
    <3>1. c \in day..day + WarningDays
      BY <1>3, <2>2
    <3>2. QED
      BY <1>2, <1>3, <1>5, <1>9, <3>1
  <2>3. ASSUME NEW n \in day..day + WarningDays, n <= c, Worth(walk, n) < 0
        PROVE  c <= day + WarningDays
    <3>1. n \notin day..c - 1
      BY <1>7, <2>3
    <3>2. QED
      BY <1>3, <2>3, <3>1
  <2>4. QED
    BY <1>2, <1>6, <2>1, <2>2, <2>3 DEF WarnsInTime
<1>10. QED
  BY <1>8, <1>9

-----------------------------------------------------------------------------
(* The months of a year and of the next, counted through: 13 is January.    *)
Nth(y, j) == IF j <= 12 THEN MonthFirst(y, j) ELSE MonthFirst(y + 1, j - 12)

LEMMA NthFacts ==
  ASSUME NEW y \in Int, NEW j \in 1..24
  PROVE  /\ Nth(y, j) \in Int /\ JanFirst(y) <= Nth(y, j) /\ Nth(y, j) <= JanFirst(y + 2)
         /\ \E z \in Int, m \in 1..12 :
              /\ Nth(y, j) = MonthFirst(z, m)
              /\ j < 24 => Nth(y, j + 1) = MonthFirst(NextYear(z, m), NextMonth(m))
<1>1. PICK x \in Int : x = y + 1 /\ x + 1 = y + 2
  OBVIOUS
<1>2. /\ JanFirst(y) \in Int /\ JanFirst(x) \in Int /\ JanFirst(y + 2) \in Int
      /\ JanFirst(y) <= JanFirst(x) /\ JanFirst(x) <= JanFirst(y + 2)
  <2>1. JanFirst(y) \in Int /\ JanFirst(y + 1) = JanFirst(y) + 365 + (IF IsLeap(y) THEN 1 ELSE 0)
    BY YearLength
  <2>2. JanFirst(x) \in Int /\ JanFirst(x + 1) = JanFirst(x) + 365 + (IF IsLeap(x) THEN 1 ELSE 0)
    BY YearLength
  <2>3. QED
    BY <1>1, <2>1, <2>2
<1>3. CASE j <= 12
  <2>1. j \in 1..12 /\ Nth(y, j) = MonthFirst(y, j)
    BY <1>3 DEF Nth
  <2>2. /\ MonthFirst(y, j) \in Int /\ monthrange(y, j) \in 28..31 /\ MonthFirst(y, j) >= JanFirst(y)
        /\ MonthFirst(y, j) + monthrange(y, j) <= JanFirst(y + 1)
    BY <2>1, MonthFacts
  <2>3. Nth(y, j + 1) = MonthFirst(NextYear(y, j), NextMonth(j))
    BY <2>1 DEF Nth, NextYear, NextMonth
  <2>4. QED
    BY <1>1, <1>2, <2>1, <2>2, <2>3
<1>4. CASE j > 12
  <2>1. PICK m \in 1..12 : m = j - 12 /\ Nth(y, j) = MonthFirst(x, m)
    BY <1>1, <1>4 DEF Nth
  <2>2. /\ MonthFirst(x, m) \in Int /\ monthrange(x, m) \in 28..31 /\ MonthFirst(x, m) >= JanFirst(x)
        /\ MonthFirst(x, m) + monthrange(x, m) <= JanFirst(x + 1)
    BY MonthFacts
  <2>3. j < 24 => Nth(y, j + 1) = MonthFirst(NextYear(x, m), NextMonth(m))
    BY <1>1, <1>4, <2>1 DEF Nth, NextYear, NextMonth
  <2>4. QED
    BY <1>1, <1>2, <2>1, <2>2, <2>3
<1>5. QED
  BY <1>3, <1>4

LEMMA NthGrows ==
  ASSUME NEW y \in Int, NEW m \in 1..12, NEW k \in 1..12
  PROVE  Nth(y, m + 1) <= Nth(y, m + k)
<1>1. PICK i \in 1..24, j \in 1..24 : i = m + 1 /\ j = m + k /\ i <= j
  OBVIOUS
<1>2. PICK x \in Int : x = y + 1
  OBVIOUS
<1>3. Nth(y, i) \in Int /\ Nth(y, j) \in Int
  BY NthFacts
<1>4. CASE j <= 12
  <2>1. i \in 1..12 /\ j \in 1..12
    BY <1>1, <1>4
  <2>2. i < j => MonthFirst(y, i) + monthrange(y, i) <= MonthFirst(y, j)
    BY <2>1, MonthsApart
  <2>3. MonthFirst(y, i) \in Int /\ MonthFirst(y, j) \in Int /\ monthrange(y, i) \in 28..31
    BY <2>1, MonthFacts
  <2>4. QED
    BY <1>1, <1>3, <2>1, <2>2, <2>3 DEF Nth
<1>5. CASE j > 12 /\ i <= 12
  <2>1. i \in 1..12 /\ j - 12 \in 1..12
    BY <1>1, <1>5
  <2>2. /\ MonthFirst(y, i) \in Int /\ monthrange(y, i) \in 28..31
        /\ MonthFirst(y, i) + monthrange(y, i) <= JanFirst(y + 1)
    BY <2>1, MonthFacts
  <2>3. MonthFirst(x, j - 12) \in Int /\ MonthFirst(x, j - 12) >= JanFirst(x)
    BY <2>1, MonthFacts
  <2>4. JanFirst(x) \in Int
    BY YearLength
  <2>5. QED
    BY <1>1, <1>2, <1>5, <2>2, <2>3, <2>4 DEF Nth
<1>6. CASE i > 12
  <2>1. i - 12 \in 1..12 /\ j - 12 \in 1..12 /\ (i = j \/ i - 12 < j - 12)
    BY <1>1, <1>6
  <2>2. i - 12 < j - 12 => MonthFirst(x, i - 12) + monthrange(x, i - 12) <= MonthFirst(x, j - 12)
    BY <2>1, MonthsApart
  <2>3. MonthFirst(x, i - 12) \in Int /\ MonthFirst(x, j - 12) \in Int
        /\ monthrange(x, i - 12) \in 28..31
    BY <2>1, MonthFacts
  <2>4. QED
    BY <1>1, <1>2, <1>3, <1>6, <2>1, <2>2, <2>3 DEF Nth
<1>7. QED
  BY <1>4, <1>5, <1>6

LEMMA NthEnds ==
  ASSUME NEW y \in Int, NEW j \in 1..23, Nth(y, j) \in Known
  PROVE  _end_of_month(Nth(y, j)) = Nth(y, j + 1) - 1 /\ dayOf(Nth(y, j)) = 1
<1>1. PICK z \in Int, m \in 1..12 :
        /\ Nth(y, j) = MonthFirst(z, m)
        /\ Nth(y, j + 1) = MonthFirst(NextYear(z, m), NextMonth(m))
  <2>1. PICK i \in 1..24 : i = j
    OBVIOUS
  <2>2. \E z \in Int, m \in 1..12 :
          /\ Nth(y, i) = MonthFirst(z, m)
          /\ i < 24 => Nth(y, i + 1) = MonthFirst(NextYear(z, m), NextMonth(m))
    BY NthFacts
  <2>3. QED
    BY <2>1, <2>2
<1>2. PICK n \in Known : n = MonthFirst(z, m) /\ n = Nth(y, j)
  BY <1>1
<1>3. year(n) = z /\ month(n) = m /\ dayOf(n) = 1
  BY <1>2, MonthStarts
<1>4. _end_of_month(n) + 1 = MonthFirst(NextYear(z, m), NextMonth(m)) /\ _end_of_month(n) \in Int
  BY <1>3, EndOfMonth
<1>5. QED
  BY <1>1, <1>2, <1>3, <1>4

(* The months after a day's are known, and its own ends before the first.   *)
LEMMA MonthsAhead ==
  ASSUME NEW n \in 0..LastDay
  PROVE  /\ year(n) \in Int /\ month(n) \in 1..12 /\ n \in Int
         /\ Nth(year(n), month(n)) <= n /\ n < Nth(year(n), month(n) + 1)
         /\ _end_of_month(n) = Nth(year(n), month(n) + 1) - 1
         /\ \A j \in 1..24 : Nth(year(n), j) \in Known /\ Nth(year(n), j) \in Int
<1>1. PICK y, m : y = year(n) /\ m = month(n)
  OBVIOUS
<1>2. /\ y \in Int /\ m \in 1..12 /\ n \in Int /\ n \in Known
      /\ JanFirst(y) <= n /\ n < JanFirst(y + 1) /\ JanFirst(y) \in Int
      /\ JanFirst(y + 1) \in Int /\ JanFirst(y + 2) \in Int
      /\ JanFirst(y + 2) <= n + 732
  BY <1>1, YearAhead, DateOf
<1>3. JanFirst(y) > n - 400
  <2>1. JanFirst(y + 1) = JanFirst(y) + 365 + (IF IsLeap(y) THEN 1 ELSE 0)
    BY <1>2, YearLength
  <2>2. QED
    BY <1>2, <2>1
<1>4. ASSUME NEW j \in 1..24 PROVE Nth(y, j) \in Known /\ Nth(y, j) \in Int
  <2>1. Nth(y, j) \in Int /\ JanFirst(y) <= Nth(y, j) /\ Nth(y, j) <= JanFirst(y + 2)
    BY <1>2, NthFacts
  <2>2. QED
    BY <1>2, <1>3, <2>1, CalendarAssumption DEF Known
<1>5. /\ _end_of_month(n) + 1 = MonthFirst(NextYear(y, m), NextMonth(m))
      /\ _end_of_month(n) \in Int /\ MonthFirst(y, m) <= n /\ n <= _end_of_month(n)
  BY <1>1, <1>2, EndOfMonth
<1>6. Nth(y, m) = MonthFirst(y, m) /\ Nth(y, m + 1) = MonthFirst(NextYear(y, m), NextMonth(m))
  BY <1>2 DEF Nth, NextYear, NextMonth
<1>7. QED
  BY <1>1, <1>2, <1>4, <1>5, <1>6

(* The loop over twelve months lists the ends of twelve months on end.      *)
Cursors(g, n) == g = [k \in 1..12 |-> _end_of_month(IF k = 1 THEN n ELSE g[k - 1] + 1)]

LEMMA CursorsAre ==
  ASSUME NEW n \in 0..LastDay
  PROVE  scheduled_outflows(n) = {Nth(year(n), month(n) + k) - 1 : k \in 1..12}
<1>1. PICK y \in Int, m \in 1..12 : y = year(n) /\ m = month(n)
  BY MonthsAhead
<1>2. /\ n \in Int /\ _end_of_month(n) = Nth(y, m + 1) - 1
      /\ \A j \in 1..24 : Nth(y, j) \in Known /\ Nth(y, j) \in Int
  BY <1>1, MonthsAhead
<1>3. ASSUME NEW k \in 1..12, k # 1
      PROVE  _end_of_month(Nth(y, m + (k - 1)) - 1 + 1) = Nth(y, m + k) - 1
  <2>1. PICK j \in 1..23 : j = m + (k - 1) /\ j + 1 = m + k
    BY <1>3
  <2>2. Nth(y, j) \in Known /\ Nth(y, j) - 1 + 1 = Nth(y, j)
    BY <1>2
  <2>3. QED
    BY <2>1, <2>2, NthEnds
<1>4. PICK h : h = [k \in 1..12 |-> Nth(y, m + k) - 1]
  OBVIOUS
<1>5. \A k \in 1..12 : h[k] = _end_of_month(IF k = 1 THEN n ELSE h[k - 1] + 1)
  <2>1. SUFFICES ASSUME NEW k \in 1..12
                 PROVE  h[k] = _end_of_month(IF k = 1 THEN n ELSE h[k - 1] + 1)
    OBVIOUS
  <2>2. h[k] = Nth(y, m + k) - 1
    BY <1>4
  <2>3. CASE k = 1
    BY <1>2, <2>2, <2>3
  <2>4. CASE k # 1
    <3>1. k - 1 \in 1..12
      BY <2>4
    <3>2. h[k - 1] = Nth(y, m + (k - 1)) - 1
      BY <1>4, <3>1
    <3>3. QED
      BY <1>3, <2>2, <2>4, <3>2
  <2>5. QED
    BY <2>3, <2>4
<1>6. Cursors(h, n)
  <2>1. h = [k \in 1..12 |-> h[k]]
    BY <1>4
  <2>2. h = [k \in 1..12 |-> _end_of_month(IF k = 1 THEN n ELSE h[k - 1] + 1)]
    BY <1>5, <2>1
  <2>3. QED
    BY <2>2 DEF Cursors
<1>7. PICK g : Cursors(g, n) /\ scheduled_outflows(n) = {g[k] : k \in 1..12}
  <2>1. PICK g : g = CHOOSE f : Cursors(f, n)
    OBVIOUS
  <2>2. Cursors(g, n)
    BY <1>6, <2>1
  <2>3. scheduled_outflows(n) = {g[k] : k \in 1..12}
    BY <2>1 DEF scheduled_outflows, Cursors
  <2>4. QED
    BY <2>2, <2>3
<1>8. \A k \in 1..12 : g[k] = _end_of_month(IF k = 1 THEN n ELSE g[k - 1] + 1)
  <2>1. PICK f : f = g
    OBVIOUS
  <2>2. g = [k \in 1..12 |-> _end_of_month(IF k = 1 THEN n ELSE f[k - 1] + 1)]
    BY <1>7, <2>1 DEF Cursors
  <2>3. QED
    BY <2>1, <2>2
<1> DEFINE T == {k \in 1..12 : g[k] # h[k]}
<1>9. T = {}
  <2>1. SUFFICES ASSUME T # {} PROVE FALSE
    OBVIOUS
  <2>2. PICK k \in T : \A i \in T : k <= i
    <3>1. T \subseteq Nat
      OBVIOUS
    <3> HIDE DEF T
    <3>2. QED
      BY <2>1, <3>1, LeastNat
  <2>3. CASE k = 1
    BY <1>5, <1>8, <2>2, <2>3
  <2>4. CASE k # 1
    <3>1. k - 1 \in 1..12 /\ k - 1 \notin T
      BY <2>2, <2>4
    <3>2. g[k - 1] = h[k - 1]
      BY <3>1
    <3>3. g[k] = h[k]
      BY <1>5, <1>8, <2>2, <2>4, <3>2
    <3>4. QED
      BY <2>2, <3>3
  <2>5. QED
    BY <2>3, <2>4
<1>10. \A k \in 1..12 : g[k] = Nth(y, m + k) - 1
  BY <1>4, <1>9
<1>11. QED
  BY <1>1, <1>7, <1>10

(* For eleven months these are all the month ends there are.                *)
LEMMA OutflowsAre ==
  ASSUME NEW n \in 0..LastDay, NEW x \in n..n + 329
  PROVE  x \in scheduled_outflows(n) <=> dayOf(x + 1) = 1
<1>1. PICK y \in Int, m \in 1..12 : y = year(n) /\ m = month(n)
  BY MonthsAhead
<1>2. /\ n \in Int /\ Nth(y, m) <= n /\ n < Nth(y, m + 1)
      /\ \A j \in 1..24 : Nth(y, j) \in Known /\ Nth(y, j) \in Int
  BY <1>1, MonthsAhead
<1>3. x \in Int /\ x + 1 \in n + 1..n + 732
  BY <1>2
<1>4. ASSUME NEW k \in 1..12, x = Nth(y, m + k) - 1 PROVE dayOf(x + 1) = 1
  <2>1. CASE m + k = 24
    <3>1. m = 12 /\ k = 12
      BY <2>1
    <3>2. PICK z \in Int, d \in 1..12 : z = y + 1 /\ d = 12
      OBVIOUS
    <3>3. x = MonthFirst(z, d) - 1
      BY <1>4, <3>1, <3>2 DEF Nth
    <3>4. JanFirst(z) \in Int /\ MonthFirst(z, d) \in Int /\ MonthFirst(z, d) >= JanFirst(z) + 334
      <4>1. JanFirst(z) \in Int /\ MonthFirst(z, d) \in Int
        BY MonthTypes
      <4>2. DaysBefore[12] = 334
        BY DaysTable
      <4>3. QED
        BY <3>2, <4>1, <4>2 DEF MonthFirst
    <3>5. n < JanFirst(z)
      BY <1>1, <3>2, YearAhead
    <3>6. QED
      BY <1>2, <1>3, <3>3, <3>4, <3>5
  <2>2. CASE m + k # 24
    <3>1. PICK j \in 1..23 : j = m + k
      BY <2>2
    <3>2. x + 1 = Nth(y, j) /\ Nth(y, j) \in Known
      BY <1>2, <1>4, <3>1
    <3>3. QED
      BY <3>2, NthEnds
  <2>3. QED
    BY <2>1, <2>2
<1>5. ASSUME dayOf(x + 1) = 1 PROVE \E k \in 1..12 : x = Nth(y, m + k) - 1
  <2>1. PICK c \in Int : c = x + 1 /\ c \in n + 1..n + 732 /\ c \in n + 1..n + 330
    BY <1>2, <1>3
  <2>2. /\ c \in Known /\ year(c) \in Int /\ year(c) >= y
        /\ c < JanFirst(y + 2) => year(c) \in {y, y + 1}
    BY <1>1, <2>1, YearsInOrder
  <2>3. c < JanFirst(y + 2)
    <3>1. PICK z \in Int : z = y + 1 /\ z + 1 = y + 2
      OBVIOUS
    <3>2. JanFirst(z) \in Int /\ JanFirst(z + 1) = JanFirst(z) + 365 + (IF IsLeap(z) THEN 1 ELSE 0)
      BY YearLength
    <3>3. n < JanFirst(y + 1)
      BY <1>1, YearAhead
    <3>4. QED
      BY <1>2, <2>1, <3>1, <3>2, <3>3
  <2>4. PICK z \in {y, y + 1}, p \in 1..12 : z = year(c) /\ p = month(c) /\ c = MonthFirst(z, p)
    <3>1. year(c) \in {y, y + 1} /\ month(c) \in 1..12
      BY <2>2, <2>3, DateOf
    <3>2. c = MonthFirst(year(c), month(c)) + dayOf(c) - 1
      BY <2>2, DateOf
    <3>3. MonthFirst(year(c), month(c)) \in Int /\ dayOf(c) = 1
      BY <1>5, <2>1, <2>2, <3>1, MonthTypes
    <3>4. QED
      BY <3>1, <3>2, <3>3
  <2>5. CASE z = y
    <3>1. p > m
      <4>1. CASE p = m
        BY <1>2, <2>1, <2>4, <2>5, <4>1 DEF Nth
      <4>2. CASE p < m
        <5>1. MonthFirst(y, p) + monthrange(y, p) <= MonthFirst(y, m)
          BY <4>2, MonthsApart
        <5>2. MonthFirst(y, p) \in Int /\ monthrange(y, p) \in 28..31 /\ MonthFirst(y, m) \in Int
          BY MonthFacts
        <5>3. QED
          BY <1>2, <2>1, <2>4, <2>5, <5>1, <5>2 DEF Nth
      <4>3. QED
        BY <4>1, <4>2
    <3>2. PICK k \in 1..12 : k = p - m /\ m + k = p
      BY <3>1
    <3>3. x = Nth(y, m + k) - 1
      BY <1>3, <2>1, <2>4, <2>5, <3>2 DEF Nth
    <3>4. QED
      BY <3>3
  <2>6. CASE z = y + 1
    <3>1. p <= m
      <4>1. SUFFICES ASSUME p > m PROVE FALSE
        OBVIOUS
      <4>2. PICK q \in 1..12 : q = m + 1
        BY <4>1
      <4>3. n < MonthFirst(y, q) /\ MonthFirst(y, q) \in Int
        <5>1. MonthFirst(y, q) \in Int
          BY MonthTypes
        <5>2. Nth(y, m + 1) = MonthFirst(y, q)
          BY <4>2 DEF Nth
        <5>3. QED
          BY <1>2, <5>1, <5>2
      <4>4. PICK v \in Int : v = y + 1
        OBVIOUS
      <4>5. MonthFirst(v, q) \in Int /\ MonthFirst(v, p) \in Int /\ MonthFirst(v, q) <= MonthFirst(v, p)
        <5>1. MonthFirst(v, q) \in Int /\ MonthFirst(v, p) \in Int /\ monthrange(v, q) \in 28..31
          BY MonthFacts
        <5>2. q < p => MonthFirst(v, q) + monthrange(v, q) <= MonthFirst(v, p)
          BY MonthsApart
        <5>3. q = p \/ q < p
          BY <4>1, <4>2
        <5>4. QED
          BY <5>1, <5>2, <5>3
      <4>6. MonthFirst(v, q) - MonthFirst(y, q) >= 365
        <5>1. /\ JanFirst(y) \in Int
              /\ JanFirst(y + 1) = JanFirst(y) + 365 + (IF IsLeap(y) THEN 1 ELSE 0)
          BY YearLength
        <5>2. DaysBefore[q] \in Int
          BY MonthTypes
        <5>3. CASE q <= 2
          BY <4>4, <5>1, <5>2, <5>3 DEF MonthFirst
        <5>4. CASE q > 2
          BY <4>4, <5>1, <5>2, <5>4 DEF MonthFirst
        <5>5. QED
          BY <5>3, <5>4
      <4>7. QED
        BY <1>2, <2>1, <2>4, <2>6, <4>3, <4>4, <4>5, <4>6
    <3>2. PICK k \in 1..12 : k = p + 12 - m /\ m + k = p + 12
      BY <3>1
    <3>3. x = Nth(y, m + k) - 1
      BY <1>3, <2>1, <2>4, <2>6, <3>2 DEF Nth
    <3>4. QED
      BY <3>3
  <2>7. QED
    BY <2>5, <2>6
<1>6. QED
  BY <1>1, <1>4, <1>5, CursorsAre

LEMMA OutflowsRight ==
  ASSUME WalkInv, walk.at = "done"
  PROVE  OutflowsAreCharged(walk)
<1>1. day \in 0..LastDay /\ WalkOK(walk)
  BY DEF WalkInv, DayInv, Idle
<1>2. PICK c \in day..day + Horizon : c = walk.cursor
  BY <1>1 DEF WalkOK
<1>3. walk.charged = MonthEnds(c) /\ day \in Int /\ c \in Int
  BY <1>1, <1>2, Asked DEF WalkOK
<1>4. ASSUME NEW n, n < day + 330
      PROVE  n \in MonthEnds(c) <=> n \in scheduled_outflows(day) /\ n < c
  <2>1. CASE n \in day..day + 329
    <3>1. n \in scheduled_outflows(day) <=> dayOf(n + 1) = 1
      BY <1>1, <2>1, OutflowsAre
    <3>2. QED
      BY <1>3, <2>1, <3>1 DEF MonthEnds
  <2>2. CASE n \notin day..day + 329
    <3>1. n \notin MonthEnds(c)
      BY <1>3, <1>4, <2>2 DEF MonthEnds
    <3>2. n \notin scheduled_outflows(day)
      <4>1. SUFFICES ASSUME n \in scheduled_outflows(day) PROVE FALSE
        OBVIOUS
      <4>2. PICK y \in Int, m \in 1..12 : y = year(day) /\ m = month(day)
        BY <1>1, MonthsAhead
      <4>3. PICK k \in 1..12 : n = Nth(y, m + k) - 1
        BY <1>1, <4>1, <4>2, CursorsAre
      <4>4. Nth(y, m + k) \in Int /\ day < Nth(y, m + 1) /\ Nth(y, m + 1) \in Int
        BY <1>1, <4>2, MonthsAhead
      <4>5. Nth(y, m + 1) <= Nth(y, m + k)
        BY NthGrows
      <4>6. QED
        BY <1>3, <1>4, <2>2, <4>3, <4>4, <4>5
    <3>3. QED
      BY <3>1, <3>2
  <2>3. QED
    BY <2>1, <2>2
<1>5. QED
  BY <1>2, <1>3, <1>4 DEF OutflowsAreCharged

-----------------------------------------------------------------------------
(* Hours: cut by week, by project and by price.                             *)
LEMMA FiniteImage ==
  ASSUME NEW S, IsFiniteSet(S), NEW f
  PROVE  IsFiniteSet({f[x] : x \in S})
<1>1. PICK T : T = {f[x] : x \in S}
  OBVIOUS
<1>2. PICK g : g = [x \in S |-> f[x]]
  OBVIOUS
<1>3. g \in Surjection(S, T)
  BY <1>1, <1>2 DEF Surjection
<1>4. IsFiniteSet(T)
  BY <1>3, FS_Surjection
<1>5. QED
  BY <1>1, <1>4

LEMMA WeekIs ==
  ASSUME NEW n \in Int, NEW k \in Int
  PROVE  /\ week_bounds(n).start <= k /\ k <= week_bounds(n).end
              <=> week_bounds(k) = week_bounds(n)
         /\ week_bounds(n).start \in Int /\ week_bounds(n).end \in Int
         /\ n <= k => week_bounds(n).start <= week_bounds(k).start
                      /\ week_bounds(n).end <= week_bounds(k).end
<1>1. FirstWeekday \in 0..6
  BY CalendarAssumption
<1>2. PICK a \in Int, b \in Int : a = n - weekday(n) /\ b = k - weekday(k)
  BY <1>1 DEF weekday
<1>3. /\ week_bounds(n) = [start |-> a, end |-> a + 6]
      /\ week_bounds(k) = [start |-> b, end |-> b + 6]
  BY <1>2 DEF week_bounds
<1>4. PICK u \in Int, v \in Int : u = (n + FirstWeekday) \div 7 /\ v = (k + FirstWeekday) \div 7
  BY <1>1
<1>5. a = 7 * u - FirstWeekday /\ b = 7 * v - FirstWeekday
  BY <1>1, <1>2, <1>4 DEF weekday
<1>6. n <= k => a <= b
  BY <1>1, <1>4, <1>5
<1>7. b <= k /\ k <= b + 6
  BY <1>1, <1>4, <1>5
<1>8. a <= k /\ k <= a + 6 <=> a = b
  BY <1>1, <1>5, <1>7
<1>9. week_bounds(k) = week_bounds(n) <=> a = b
  BY <1>3
<1>10. QED
  BY <1>3, <1>6, <1>8, <1>9

HoursOf(L) == [e \in L.entries |-> e.hours]

LEMMA HoursTotal ==
  ASSUME NEW L \in Ledgers, NEW S, S \subseteq L.entries
  PROVE  /\ Hours(S) = Total(HoursOf(L), S) /\ IsFiniteSet(S) /\ S \subseteq Entry
         /\ \A e \in S : HoursOf(L)[e] \in Nat /\ HoursOf(L)[e] \in Int /\ HoursOf(L)[e] = e.hours
<1>1. L.entries \subseteq Entry /\ IsFiniteSet(L.entries)
  BY LedgersAssumption
<1>2. IsFiniteSet(S)
  BY <1>1, FS_Subset
<1>3. \A e \in S : HoursOf(L)[e] = e.hours /\ e.hours \in Nat
  BY <1>1 DEF HoursOf, Entry
<1>4. PICK A : A = [e \in S |-> e.hours]
  OBVIOUS
<1>5. DOMAIN A = S /\ \A e \in S : A[e] \in Int /\ A[e] = HoursOf(L)[e]
  BY <1>3, <1>4
<1>6. Hours(S) = Total(A, S)
  BY <1>4, <1>5 DEF Hours, SumFunction, Total
<1>7. Total(A, S) = Total(HoursOf(L), S)
  BY <1>2, <1>5, TotalAgree
<1>8. QED
  BY <1>1, <1>2, <1>3, <1>6, <1>7

LEMMA WeeksAddUp ==
  ASSUME day \in 0..LastDay, NEW L \in Ledgers
  PROVE  LET weeks == {week_bounds(n) : n \in day - 35..day + 35}
             span == [start |-> week_bounds(day - 35).start, end |-> week_bounds(day + 35).end]
         IN SumFunction([b \in weeks |-> hours_summary(L, b).total]) = hours_summary(L, span).total
<1>1. PICK p \in Int, q \in Int : p = day - 35 /\ q = day + 35
  BY CalendarAssumption
<1>2. PICK W : W = {week_bounds(n) : n \in p..q}
  OBVIOUS
<1>3. PICK lo \in Int, hi \in Int : lo = week_bounds(p).start /\ hi = week_bounds(q).end
  BY WeekIs
<1>4. PICK E : E = {e \in L.entries : lo <= e.date /\ e.date <= hi}
  OBVIOUS
<1>5. \A e \in L.entries : e.date \in Int
  BY LedgersAssumption DEF Entry, Dated
<1>6. PICK key : key = [e \in E |-> week_bounds(e.date)]
  OBVIOUS
<1>7. \A b : hours_summary(L, b).total = Hours({e \in L.entries : b.start <= e.date /\ e.date <= b.end})
  BY DEF hours_summary
<1>8. ASSUME NEW e \in E PROVE key[e] \in W
  <2>1. PICK d \in Int : d = e.date /\ lo <= d /\ d <= hi /\ key[e] = week_bounds(d)
    BY <1>4, <1>5, <1>6
  <2>2. CASE d \in p..q
    BY <1>2, <2>1, <2>2
  <2>3. CASE d < p
    <3>1. d <= week_bounds(p).end
      <4>1. week_bounds(p).start <= p /\ p <= week_bounds(p).end /\ week_bounds(p).end \in Int
        BY WeekIs
      <4>2. QED
        BY <2>3, <4>1
    <3>2. week_bounds(d) = week_bounds(p)
      BY <1>3, <2>1, <3>1, WeekIs
    <3>3. p \in p..q
      BY <1>1, CalendarAssumption
    <3>4. QED
      BY <1>2, <2>1, <3>2, <3>3
  <2>4. CASE d > q
    <3>1. week_bounds(q).start <= d
      <4>1. week_bounds(q).start <= q /\ q <= week_bounds(q).end /\ week_bounds(q).start \in Int
        BY WeekIs
      <4>2. QED
        BY <2>4, <4>1
    <3>2. week_bounds(d) = week_bounds(q)
      BY <1>3, <2>1, <3>1, WeekIs
    <3>3. q \in p..q
      BY <1>1, CalendarAssumption
    <3>4. QED
      BY <1>2, <2>1, <3>2, <3>3
  <2>5. QED
    BY <2>2, <2>3, <2>4
<1>9. ASSUME NEW b \in W
      PROVE  hours_summary(L, b).total = Total(HoursOf(L), Cut(E, key, b))
  <2>1. PICK n \in p..q : b = week_bounds(n)
    BY <1>2
  <2>2. n \in Int /\ p <= n /\ n <= q
    BY <1>1, <2>1
  <2>3. lo <= b.start /\ b.end <= hi /\ b.start \in Int /\ b.end \in Int
    BY <1>3, <2>1, <2>2, WeekIs
  <2>4. PICK S : S = {e \in L.entries : b.start <= e.date /\ e.date <= b.end}
    OBVIOUS
  <2>5. ASSUME NEW e \in L.entries
        PROVE  e \in S <=> e \in E /\ week_bounds(e.date) = b
    <3>1. PICK d \in Int : d = e.date
      BY <1>5
    <3>2. b.start <= d /\ d <= b.end <=> week_bounds(d) = b
      BY <2>1, <2>2, WeekIs
    <3>3. b.start <= d /\ d <= b.end => lo <= d /\ d <= hi
      BY <2>3
    <3>4. QED
      BY <1>4, <2>4, <3>1, <3>2, <3>3
  <2>6. S = Cut(E, key, b) /\ S \subseteq L.entries
    BY <1>4, <1>6, <2>4, <2>5 DEF Cut
  <2>7. Hours(S) = Total(HoursOf(L), S)
    BY <2>6, HoursTotal
  <2>8. QED
    BY <1>7, <2>4, <2>6, <2>7
<1>10. /\ Hours(E) = Total(HoursOf(L), E) /\ IsFiniteSet(E)
       /\ \A e \in E : HoursOf(L)[e] \in Int
  BY <1>4, HoursTotal
<1>11. IsFiniteSet(W)
  <2>1. PICK f : f = [n \in p..q |-> week_bounds(n)]
    OBVIOUS
  <2>2. W = {f[n] : n \in p..q}
    BY <1>2, <2>1
  <2>3. IsFiniteSet(p..q)
    BY FS_Interval
  <2>4. QED
    BY <2>2, <2>3, FiniteImage
<1>12. PICK B : B = [b \in W |-> hours_summary(L, b).total]
  OBVIOUS
<1>13. \A b \in W : B[b] = Total(HoursOf(L), Cut(E, key, b))
  BY <1>9, <1>12
<1>14. Total(B, W) = Total(HoursOf(L), E)
  BY <1>8, <1>10, <1>11, <1>13, TotalByKey
<1>15. SumFunction(B) = Total(B, W)
  BY <1>12 DEF SumFunction, Total
<1>16. hours_summary(L, [start |-> lo, end |-> hi]).total = Hours(E)
  BY <1>4, <1>7
<1>17. QED
  BY <1>1, <1>2, <1>3, <1>10, <1>12, <1>14, <1>15, <1>16

LEMMA ProjectsAddUp ==
  ASSUME NEW L \in Ledgers, NEW b
  PROVE  SumFunction(hours_summary(L, b).by_project) = hours_summary(L, b).total
<1>1. PICK E : E = {e \in L.entries : b.start <= e.date /\ e.date <= b.end}
  OBVIOUS
<1>2. PICK key : key = [e \in E |-> IF e.project = "none" THEN "(no project)"
                                    ELSE L.projects[e.project].name]
  OBVIOUS
<1>3. PICK K : K = {key[e] : e \in E}
  OBVIOUS
<1>4. PICK B : B = [x \in K |-> Hours({e \in E : key[e] = x})]
  OBVIOUS
<1>5. hours_summary(L, b).by_project = B /\ hours_summary(L, b).total = Hours(E)
  <2>1. hours_summary(L, b).total = Hours(E)
    BY <1>1 DEF hours_summary
  <2>2. hours_summary(L, b).by_project =
          [x \in {IF e.project = "none" THEN "(no project)" ELSE L.projects[e.project].name : e \in E} |->
             Hours({e \in E : (IF e.project = "none" THEN "(no project)"
                               ELSE L.projects[e.project].name) = x})]
    BY <1>1 DEF hours_summary
  <2>3. K = {IF e.project = "none" THEN "(no project)" ELSE L.projects[e.project].name : e \in E}
    BY <1>2, <1>3
  <2>4. \A x : {e \in E : key[e] = x} =
                 {e \in E : (IF e.project = "none" THEN "(no project)"
                             ELSE L.projects[e.project].name) = x}
    BY <1>2
  <2>5. QED
    BY <1>4, <2>1, <2>2, <2>3, <2>4
<1>6. /\ Hours(E) = Total(HoursOf(L), E) /\ IsFiniteSet(E)
      /\ \A e \in E : HoursOf(L)[e] \in Int
  BY <1>1, HoursTotal
<1>7. IsFiniteSet(K)
  BY <1>3, <1>6, FiniteImage
<1>8. ASSUME NEW x \in K PROVE B[x] = Total(HoursOf(L), Cut(E, key, x))
  <2>1. PICK S : S = {e \in E : key[e] = x} /\ S = Cut(E, key, x)
    BY DEF Cut
  <2>2. S \subseteq L.entries
    BY <1>1, <2>1
  <2>3. Hours(S) = Total(HoursOf(L), S)
    BY <2>2, HoursTotal
  <2>4. QED
    BY <1>4, <2>1, <2>3
<1>9. \A e \in E : key[e] \in K
  BY <1>3
<1>10. Total(B, K) = Total(HoursOf(L), E)
  BY <1>6, <1>7, <1>8, <1>9, TotalByKey
<1>11. SumFunction(B) = Total(B, K)
  BY <1>4 DEF SumFunction, Total
<1>12. QED
  BY <1>5, <1>6, <1>10, <1>11

LEMMA PotentialAddsUp ==
  ASSUME NEW L \in Ledgers
  PROVE  LET rated == {p \in DOMAIN L.projects : L.projects[p].hourly_rate # NoAmount}
             open(p) == Hours({e \in L.entries : e.project = p /\ e.billable /\ ~e.billed})
             priced == SumFunction([p \in rated |-> open(p) * L.projects[p].hourly_rate])
         IN 200 * unbilled_value(L) - 2 * priced \in -100..100
<1>1. PICK R : R = {p \in DOMAIN L.projects : L.projects[p].hourly_rate # NoAmount}
  OBVIOUS
<1>2. PICK rate : rate = [p \in R |-> L.projects[p].hourly_rate]
  OBVIOUS
<1>3. /\ L.entries \subseteq Entry /\ IsFiniteSet(DOMAIN L.projects)
      /\ \A p \in DOMAIN L.projects : p # "none" /\ L.projects[p].hourly_rate \in Amount
      /\ \A e \in L.entries : e.project \in DOMAIN L.projects \cup {"none"}
  BY LedgersAssumption
<1>4. IsFiniteSet(R) /\ \A p \in R : rate[p] \in Nat /\ rate[p] = L.projects[p].hourly_rate /\ p # "none"
  <2>1. R \subseteq DOMAIN L.projects
    BY <1>1
  <2>2. IsFiniteSet(R)
    BY <1>3, <2>1, FS_Subset
  <2>3. QED
    BY <1>1, <1>2, <1>3, <2>2 DEF Amount
<1>5. PICK P : P = Priced(L)
  OBVIOUS
<1>6. P = {e \in L.entries : e.billable /\ ~e.billed /\ e.project \in R}
  BY <1>1, <1>3, <1>5 DEF Priced
<1>7. IsFiniteSet(P) /\ P \subseteq L.entries
      /\ \A e \in P : HoursOf(L)[e] \in Nat /\ HoursOf(L)[e] = e.hours /\ e.project \in R
  BY <1>6, HoursTotal
<1>8. PICK V : V = [e \in P |-> e.hours * L.projects[e.project].hourly_rate]
  OBVIOUS
<1>9. \A e \in P : V[e] = HoursOf(L)[e] * rate[e.project] /\ V[e] \in Nat
  BY <1>4, <1>7, <1>8
<1>10. PICK key : key = [e \in P |-> e.project]
  OBVIOUS
<1>11. PICK B : B = [p \in R |-> Hours({e \in L.entries : e.project = p /\ e.billable /\ ~e.billed})
                                 * L.projects[p].hourly_rate]
  OBVIOUS
<1>12. ASSUME NEW p \in R PROVE B[p] = Total(V, Cut(P, key, p))
  <2>1. PICK S : S = {e \in P : key[e] = p} /\ S = Cut(P, key, p)
    BY DEF Cut
  <2>2. S = {e \in L.entries : e.project = p /\ e.billable /\ ~e.billed} /\ S \subseteq L.entries
    BY <1>6, <1>10, <2>1
  <2>3. /\ Hours(S) = Total(HoursOf(L), S) /\ IsFiniteSet(S)
        /\ \A e \in S : HoursOf(L)[e] \in Int
    BY <2>2, HoursTotal
  <2>4. PICK c \in Int : c = rate[p]
    BY <1>4
  <2>5. \A e \in S : V[e] = HoursOf(L)[e] * c
    BY <1>9, <1>10, <2>1, <2>4
  <2>6. Total(V, S) = Total(HoursOf(L), S) * c
    BY <2>3, <2>5, TotalScale
  <2>7. B[p] = Hours(S) * c
    BY <1>4, <1>11, <2>2, <2>4
  <2>8. QED
    BY <2>1, <2>3, <2>6, <2>7
<1>13. \A e \in P : key[e] \in R /\ V[e] \in Int
  BY <1>7, <1>9, <1>10
<1>14. Total(B, R) = Total(V, P)
  BY <1>4, <1>7, <1>12, <1>13, TotalByKey
<1>15. Total(V, P) \in Nat
  BY <1>7, <1>9, SumIsNat
<1>16. SumFunction(B) = Total(B, R) /\ SumFunction(V) = Total(V, P)
  BY <1>8, <1>11 DEF SumFunction, Total
<1>17. PICK x \in Nat : x = Total(V, P)
  BY <1>15
<1>18. unbilled_value(L) = Quantize(x, 100)
  BY <1>5, <1>8, <1>16, <1>17 DEF unbilled_value
<1>19. 200 * unbilled_value(L) - 2 * x \in -100..100
  BY <1>18, Hundredths
<1>20. QED
  BY <1>1, <1>11, <1>14, <1>16, <1>17, <1>19

(* The snapshot adds up for every ledger: the runway is the first day the   *)
(* account falls below zero, the warning goes out exactly when it is near,  *)
(* the outflows listed are the ones charged, and hours, burn and potential  *)
(* are what their parts add up to.                                          *)
THEOREM SnapshotAddsUpThm == Spec => []SnapshotAddsUp
<1>1. ASSUME WalkInv PROVE SnapshotAddsUp
  <2> SUFFICES ASSUME walk.at = "done"
               PROVE  /\ RunwayIsFirstNegative(walk) /\ WarnsInTime(walk)
                      /\ OutflowsAreCharged(walk) /\ HoursAddUp(walk.ledger)
    BY DEF SnapshotAddsUp
  <2>1. day \in 0..LastDay /\ WalkOK(walk) /\ day \in Int
    BY <1>1, CalendarAssumption DEF WalkInv, DayInv, Idle
  <2>2. PICK L \in Ledgers : L = walk.ledger
    BY <2>1, WalkTypes DEF WalkOK
  <2>3. PICK x \in Nat : x = yearly_cost(L, day)
    BY <2>1, BurnIsNat
  <2>4. 2 * (12 * monthly_burn(L, day) - yearly_cost(L, day)) \in -12..12
    BY <2>3, Twelfths DEF monthly_burn
  <2>5. HoursAddUp(L)
    BY <2>1, <2>4, WeeksAddUp, ProjectsAddUp, PotentialAddsUp DEF HoursAddUp
  <2>6. QED
    BY <1>1, <2>2, <2>5, RunwayRight, OutflowsRight
<1>2. QED
  BY <1>1, WalkCorrect, PTL
=============================================================================
