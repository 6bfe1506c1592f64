---------------------------- MODULE MCLiquidity ----------------------------
(* Liquidity and Calendar from 2024, a leap year, with the Bavarian         *)
(* holidays; three small ledgers.                                           *)
EXTENDS Liquidity, TLC

BavarianHolidays == {<<1, 1>>, <<1, 6>>, <<5, 1>>, <<8, 15>>, <<10, 3>>, <<11, 1>>,
                     <<12, 25>>, <<12, 26>>}
(* Good Friday, Easter Monday, Ascension, Whit Monday, Corpus Christi.      *)
EasterHolidays == {date(2024, 3, 29), date(2024, 4, 1), date(2024, 5, 9),
                   date(2024, 5, 20), date(2024, 5, 30),
                   date(2025, 4, 18), date(2025, 4, 21), date(2025, 5, 29),
                   date(2025, 6, 9), date(2025, 6, 19)}
CatalogRules == {{<<1, 10>>, <<4, 10>>, <<7, 10>>, <<10, 10>>}, {<<12, 31>>}, {<<1, 1>>},
                 {<<m, 1>> : m \in 1..12}}
AnchorDays == {<<1, 1>>, <<3, 1>>, <<12, 31>>, <<2, 29>>}

(* The month ends around February, a Monday, the turns of the year.         *)
AskedDays == {0, 30, 58, 59, 60, 182, 365, 423}

Cost(a, c) == [amount |-> a, cadence |-> c, active |-> TRUE, from |-> -500, until |-> Never,
               next_amount |-> 0, next_from |-> Never]
Bill(n, s, d, g) == [number |-> n, status |-> s, due |-> d, gross |-> g]
Work(n, d, h, p, b) == [id |-> n, date |-> d, hours |-> h, project |-> p, billable |-> TRUE,
                        billed |-> b]
Shop == [a |-> [name |-> "site", hourly_rate |-> 95], b |-> [name |-> "site", hourly_rate |-> NoAmount]]

Dry    == [opening |-> 250, rate |-> 30, expenses |-> {Cost(198, 1), Cost(6, 12)}, invoices |-> {},
           projects |-> Shop, entries |-> {}]
Steady == [opening |-> 300, rate |-> 30,
           expenses |-> {[Cost(40, 1) EXCEPT !.next_amount = 90, !.next_from = 59], Cost(100, 3),
                         [Cost(70, 1) EXCEPT !.until = 180], [Cost(99, 12) EXCEPT !.active = FALSE]},
           invoices |-> {Bill(1, "open", 31, 500), Bill(2, "open", 60, 200), Bill(3, "overdue", 60, 99),
                         Bill(4, "open", 58, NoAmount), Bill(5, "paid", 90, 900),
                         Bill(6, "open", 200, 700)},
           projects |-> Shop,
           entries |-> {Work(1, 30, 150, "a", FALSE), Work(2, 58, 33, "a", FALSE), Work(3, 58, 25, "b", FALSE),
                        Work(4, 59, 75, "none", FALSE), Work(5, 60, 100, "a", TRUE)}]
Rich   == [opening |-> 1000, rate |-> 50, expenses |-> {Cost(18, 12)},
           invoices |-> {Bill(1, "open", 100, 40)}, projects |-> Shop, entries |-> {}]
SmallLedgers == {Dry, Steady, Rich}
=============================================================================
