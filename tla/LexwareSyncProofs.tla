------------------------- MODULE LexwareSyncProofs -------------------------
(* Proofs about LexwareSync, for every set of items and of syncs, every     *)
(* order of the lists, every page size and every bound. What needs syncs    *)
(* that do not overlap says so as a hypothesis.                             *)
EXTENDS LexwareSync, FiniteSetTheorems, WellFoundedInduction, TLAPS

-----------------------------------------------------------------------------
(* The lists of Lexware and the life of an item.                            *)
LEMMA ListFacts ==
  /\ LastQuery = 6
  /\ \A q \in 1..LastQuery :
       /\ Lists[q].kind \in Kinds
       /\ Lists[q].of \subseteq Status \ {"absent", "voided"}
       /\ Lists[q].kind = "contact" => q = 1
       /\ Lists[q].kind = "transaction" => q = LastQuery
BY DEF Lists, LastQuery, Kinds, Status

LEMMA MovesFacts ==
  ASSUME NEW k \in Kinds
  PROVE  /\ Moves[k] \subseteq AtMost
         /\ Moves[k] \subseteq Status \X Status
         /\ \A t, u \in Status : <<t, u>> \in Moves[k] =>
              /\ u # "absent"
              /\ u # "voided" => \E q \in 1..LastQuery : Lists[q].kind = k /\ u \in Lists[q].of
<1>1. Moves[k] \subseteq AtMost
  BY DEF AtMost
<1>2. CASE k = "contact"
  <2>1. Moves[k] = {<<"absent", "live">>, <<"live", "renamed">>}
    BY <1>2 DEF Moves
  <2>2. 1 \in 1..LastQuery /\ Lists[1].kind = k /\ Lists[1].of = {"live", "renamed"}
    BY <1>2 DEF Lists, LastQuery
  <2>3. QED
    BY <1>1, <2>1, <2>2 DEF Status
<1>3. CASE k = "transaction"
  <2>1. Moves[k] = {<<"absent", "live">>}
    BY <1>3 DEF Moves
  <2>2. 6 \in 1..LastQuery /\ Lists[6].kind = k /\ Lists[6].of = {"live"}
    BY <1>3 DEF Lists, LastQuery
  <2>3. QED
    BY <1>1, <2>1, <2>2 DEF Status
<1>4. CASE k \in {"invoice", "receipt"}
  <2>1. Moves[k] = VoucherMoves
    BY <1>4 DEF Moves
  <2>2. \E p, q \in 1..LastQuery :
          /\ Lists[p].kind = k /\ Lists[p].of = {"open", "partpaid", "paid"}
          /\ Lists[q].kind = k /\ Lists[q].of = {"overdue"}
    <3>1. CASE k = "invoice"
      <4>1. 2 \in 1..LastQuery /\ 3 \in 1..LastQuery
        BY ListFacts
      <4>2. QED
        BY <3>1, <4>1 DEF Lists
    <3>2. CASE k = "receipt"
      <4>1. 4 \in 1..LastQuery /\ 5 \in 1..LastQuery
        BY ListFacts
      <4>2. QED
        BY <3>2, <4>1 DEF Lists
    <3>3. QED
      BY <1>4, <3>1, <3>2
  <2>3. /\ VoucherMoves \subseteq Status \X Status
        /\ \A t, u \in Status : <<t, u>> \in VoucherMoves =>
             u \in {"open", "partpaid", "paid", "overdue", "voided"}
    BY DEF VoucherMoves, Status
  <2>4. QED
    BY <1>1, <2>1, <2>2, <2>3
<1>5. QED
  BY <1>2, <1>3, <1>4 DEF Kinds

(* An item only moves forward, and a status of it is a status.              *)
LEMMA AtMostIsAnOrder ==
  /\ AtMost \subseteq Status \X Status
  /\ \A t \in Status : <<t, t>> \in AtMost /\ <<"absent", t>> \in AtMost
  /\ \A t, u, v \in Status : <<t, u>> \in AtMost /\ <<u, v>> \in AtMost => <<t, v>> \in AtMost
<1> DEFINE All == {<<"absent", "open">>, <<"open", "partpaid">>,
                   <<"absent", "live">>, <<"live", "renamed">>}
                  \cup ({"open", "partpaid"} \X {"overdue", "paid", "voided"})
                  \cup ({"overdue"} \X {"paid", "voided"})
<1>1. UNION {Moves[k] : k \in Kinds} = All
  <2>1. \A k \in Kinds : Moves[k] \subseteq All
    BY DEF Moves, VoucherMoves, Kinds
  <2>2. All \subseteq Moves["contact"] \cup Moves["invoice"]
    BY DEF Moves, VoucherMoves
  <2>3. "contact" \in Kinds /\ "invoice" \in Kinds
    BY DEF Kinds
  <2>4. QED
    BY <2>1, <2>2, <2>3
<1> HIDE DEF All
<1>2. AtMost = {<<s, s>> : s \in Status} \cup {<<"absent", t>> : t \in Status} \cup All
  BY <1>1, Zenon DEF AtMost
<1>3. \A t, u \in Status :
        <<t, u>> \in AtMost <=>
          \/ t = u \/ t = "absent"
          \/ t = "open" /\ u \in {"partpaid", "overdue", "paid", "voided"}
          \/ t = "partpaid" /\ u \in {"overdue", "paid", "voided"}
          \/ t = "overdue" /\ u \in {"paid", "voided"}
          \/ t = "live" /\ u = "renamed"
  BY <1>2 DEF Status, All
<1>4. AtMost \subseteq Status \X Status
  BY <1>2 DEF Status, All
<1>5. QED
  BY <1>3, <1>4 DEF Status

-----------------------------------------------------------------------------
(* The states of a sync, and what becomes of it when it ends or goes on.    *)
LEMMA TableFacts ==
  /\ Untouched \in [Rows -> RowValue] /\ NoRow \in RowValue
  /\ NoRow.st = "absent" /\ NoRow.org = FALSE
  /\ Nothing \in [Items -> Status]
  /\ Asleep \in SyncState
  /\ \A r \in Rows : r[1] \in Items /\ r[2] \in Syncers /\ r = <<r[1], r[2]>>
<1>1. NoRow \in RowValue /\ NoRow.st = "absent" /\ NoRow.org = FALSE /\ "absent" \in Status
  BY DEF NoRow, RowValue, Status
<1>2. Untouched \in [Rows -> RowValue] /\ Nothing \in [Items -> Status]
  BY <1>1 DEF Untouched, Nothing
<1>3. 1 \in 1..LastQuery + 1 /\ 0 \in Nat
  BY ListFacts
<1>4. Asleep \in SyncState
  BY <1>1, <1>2, <1>3 DEF Asleep, SyncState
<1>5. \A r \in Rows : r[1] \in Items /\ r[2] \in Syncers /\ r = <<r[1], r[2]>>
  BY DEF Rows
<1>6. QED
  BY <1>1, <1>2, <1>4, <1>5

LEMMA ViewIsARow ==
  ASSUME TypeOK, NEW s \in Syncers
  PROVE  \A r \in Rows : View(s, r) \in RowValue
<1>1. rows \in [Rows -> RowValue] /\ work[s] \in [Rows -> RowValue]
  BY DEF TypeOK
<1>2. QED
  BY <1>1 DEF View

LEMMA StateFacts ==
  ASSUME TypeOK, NEW s \in Syncers
  PROVE  /\ sync[s] \in SyncState
         /\ sync[s].at \in Active \cup Ended \cup {"idle"}
         /\ sync[s].query \in 1..LastQuery + 1 /\ sync[s].page \in Nat
         /\ sync[s].todo \in [Items -> Status] /\ sync[s].more \in BOOLEAN
         /\ sync[s].row \in Rows \cup {<<>>} /\ sync[s].was \in RowValue
         /\ sync[s].known \in SUBSET Items
         /\ Todo(s) \subseteq Items
         /\ Running(s) <=> sync[s].at \in {"fetch", "load", "write"}
<1>1. sync[s] \in SyncState
  BY DEF TypeOK
<1>2. QED
  BY <1>1 DEF SyncState, Todo, Running, Active

(* Only the sync that moves changes its state.                              *)
Moved(s) == \A t \in Syncers \ {s} : sync'[t] = sync[t]

LEMMA LeaveFacts ==
  ASSUME TypeOK, NEW s \in Syncers, NEW how \in Ended, Leave(s, how)
  PROVE  /\ sync' \in [Syncers -> SyncState] /\ Moved(s)
         /\ sync'[s].at = how /\ sync'[s].todo = Nothing /\ ~Running(s)'
         /\ steady' = [steady EXCEPT ![s] = Items] /\ remote' = remote
         /\ alone' = alone \ {s}
<1> DEFINE done == [Asleep EXCEPT !.at = how]
<1>1. done \in SyncState /\ done.at = how /\ done.todo = Nothing
  <2>1. Asleep \in SyncState
    BY TableFacts
  <2>2. done \in SyncState /\ done.at = how
    BY <2>1 DEF SyncState
  <2>3. done.todo = Nothing
    BY DEF Asleep
  <2>4. QED
    BY <2>2, <2>3
<1>2. sync \in [Syncers -> SyncState] /\ sync' = [sync EXCEPT ![s] = done]
  BY DEF TypeOK, Leave
<1> HIDE DEF done
<1>3. sync'[s] = done /\ sync' \in [Syncers -> SyncState] /\ Moved(s)
  BY <1>1, <1>2 DEF Moved
<1>4. how \notin Active
  BY DEF Ended, Active
<1>5. QED
  BY <1>1, <1>3, <1>4 DEF Leave, Running

LEMMA OnwardFacts ==
  ASSUME TypeOK, NEW s \in Syncers, NEW more \in BOOLEAN,
         sync[s].query <= LastQuery, sync' = Onward(s, more)
  PROVE  /\ sync' \in [Syncers -> SyncState] /\ Moved(s)
         /\ sync'[s].at = "fetch" /\ sync'[s].todo = Nothing
         /\ sync'[s].query = IF more THEN sync[s].query ELSE sync[s].query + 1
         /\ sync'[s].page = IF more THEN sync[s].page + 1 ELSE 0
<1> DEFINE now == sync[s]
           next == [now EXCEPT !.at = "fetch", !.todo = Nothing,
                      !.page = IF more THEN now.page + 1 ELSE 0,
                      !.query = IF more THEN now.query ELSE now.query + 1,
                      !.known = IF Lists[now.query].kind = "invoice" THEN now.known ELSE {}]
<1>1. sync \in [Syncers -> SyncState] /\ now \in SyncState
  BY DEF TypeOK
<1>2. sync' = [sync EXCEPT ![s] = next]
  BY <1>1 DEF Onward
<1>3. /\ (IF more THEN now.page + 1 ELSE 0) \in Nat
      /\ (IF more THEN now.query ELSE now.query + 1) \in 1..LastQuery + 1
  BY StateFacts, ListFacts
<1>4. Nothing \in [Items -> Status] /\ "fetch" \in Active
  BY TableFacts DEF Active
<1>5. next \in SyncState
  BY <1>1, <1>3, <1>4 DEF SyncState
<1>6. sync'[s] = next /\ sync' \in [Syncers -> SyncState] /\ Moved(s)
  BY <1>1, <1>2, <1>5 DEF Moved
<1>7. /\ next.at = "fetch" /\ next.todo = Nothing
      /\ next.query = IF more THEN now.query ELSE now.query + 1
      /\ next.page = IF more THEN now.page + 1 ELSE 0
  BY <1>1 DEF SyncState
<1>8. QED
  BY <1>6, <1>7

-----------------------------------------------------------------------------
(* What the steps of a sync do.                                             *)
LEMMA RollbackFacts ==
  ASSUME TypeOK, NEW s \in Syncers, Rollback(s)
  PROVE  /\ Leave(s, "aborted") /\ "aborted" \in Ended
         /\ rows' = rows
         /\ work' = [work EXCEPT ![s] = Untouched]
BY DEF Rollback, Ended

LEMMA FetchFacts ==
  ASSUME TypeOK, NEW s \in Syncers, FetchPage(s)
  PROVE  LET q == sync[s].query
             p == sync[s].page
         IN /\ UNCHANGED <<remote, rows, work, steady, alone>>
            /\ sync[s].at = "fetch" /\ q \in 1..LastQuery
            /\ \/ OnPage(q, p) = {} /\ sync' = Onward(s, FALSE)
               \/ /\ OnPage(q, p) # {}
                  /\ sync' \in [Syncers -> SyncState] /\ Moved(s)
                  /\ sync'[s].at = "load" /\ sync'[s].query = q /\ sync'[s].page = p
                  /\ sync'[s].todo = [i \in Items |-> IF i \in OnPage(q, p) THEN remote[i]
                                                       ELSE "absent"]
                  /\ sync'[s].more = ~IsLast(q, p)
<1> DEFINE q == sync[s].query
           p == sync[s].page
           listed == [i \in Items |-> IF i \in OnPage(q, p) THEN remote[i] ELSE "absent"]
           next == [sync[s] EXCEPT !.at = "load", !.todo = listed, !.more = ~IsLast(q, p)]
<1>1. /\ UNCHANGED <<remote, rows, work, steady, alone>>
      /\ sync[s].at = "fetch" /\ q \in 1..LastQuery
  <2>1. Fetching(s) /\ UNCHANGED <<remote, rows, work, steady, alone>>
    BY DEF FetchPage
  <2>2. q \in 1..LastQuery + 1 /\ q <= LastQuery /\ LastQuery \in Nat
    BY <2>1, StateFacts, ListFacts DEF Fetching
  <2>3. q \in 1..LastQuery
    BY <2>2
  <2>4. QED
    BY <2>1, <2>3 DEF Fetching
<1>2. CASE OnPage(q, p) = {}
  BY <1>1, <1>2 DEF FetchPage
<1>3. CASE OnPage(q, p) # {}
  <2>1. sync' = [sync EXCEPT ![s] = next]
    BY <1>3 DEF FetchPage, TypeOK
  <2>2. remote \in [Items -> Status] /\ "absent" \in Status
    BY DEF TypeOK, Status
  <2>3. listed \in [Items -> Status] /\ "load" \in Active /\ (~IsLast(q, p)) \in BOOLEAN
    BY <2>2 DEF Active, IsLast
  <2>4. sync \in [Syncers -> SyncState] /\ sync[s] \in SyncState
    BY DEF TypeOK
  <2> HIDE DEF listed
  <2>5. /\ next \in SyncState /\ next.at = "load" /\ next.query = q /\ next.page = p
        /\ next.todo = listed /\ next.more = ~IsLast(q, p)
    BY <2>3, <2>4 DEF SyncState
  <2> HIDE DEF next
  <2>6. sync'[s] = next /\ sync' \in [Syncers -> SyncState] /\ Moved(s)
    BY <2>1, <2>4, <2>5 DEF Moved
  <2>7. QED
    BY <1>1, <1>3, <2>5, <2>6 DEF listed
<1>4. QED
  BY <1>2, <1>3

LEMMA LoadFacts ==
  ASSUME TypeOK, NEW s \in Syncers, Load(s), ~Rollback(s)
  PROVE  /\ UNCHANGED <<remote, rows, work, steady, alone>>
         /\ sync' \in [Syncers -> SyncState] /\ Moved(s)
         /\ sync[s].at = "load" /\ sync'[s].at = "write"
         /\ sync'[s].query = sync[s].query /\ sync'[s].page = sync[s].page
         /\ sync'[s].todo = sync[s].todo /\ sync'[s].more = sync[s].more
         /\ sync'[s].row \in Rows /\ sync'[s].row[1] \in Todo(s)
         /\ sync'[s].was = View(s, sync'[s].row) /\ OnlyRow(s, sync'[s].row)
<1>1. PICK i \in Items :
        /\ sync[s].at = "load" /\ i \in Todo(s)
        /\ UNCHANGED <<remote, rows, work, steady, alone>>
        /\ \/ /\ Visible(s, i) = {}
              /\ sync' = [sync EXCEPT ![s].at = "write", ![s].row = <<i, s>>, ![s].was = NoRow]
           \/ \E r \in Rows :
                /\ Visible(s, i) = {r}
                /\ sync' = [sync EXCEPT ![s].at = "write", ![s].row = r, ![s].was = View(s, r)]
  BY DEF Load, Foremost
<1>2. PICK r \in Rows :
        /\ r[1] = i /\ OnlyRow(s, r)
        /\ sync' = [sync EXCEPT ![s].at = "write", ![s].row = r, ![s].was = View(s, r)]
  <2>1. CASE Visible(s, i) = {}
    <3>1. <<i, s>> \in Rows /\ <<i, s>>[1] = i
      BY DEF Rows
    <3>2. View(s, <<i, s>>) = NoRow /\ OnlyRow(s, <<i, s>>)
      BY <2>1, <3>1 DEF Visible, OnlyRow
    <3>3. sync' = [sync EXCEPT ![s].at = "write", ![s].row = <<i, s>>, ![s].was = NoRow]
      BY <1>1, <2>1
    <3>4. QED
      BY <3>1, <3>2, <3>3
  <2>2. CASE Visible(s, i) # {}
    <3>1. PICK r \in Rows :
            /\ Visible(s, i) = {r}
            /\ sync' = [sync EXCEPT ![s].at = "write", ![s].row = r, ![s].was = View(s, r)]
      BY <1>1, <2>2
    <3>2. r[1] = i /\ OnlyRow(s, r)
      BY <3>1 DEF Visible, OnlyRow
    <3>3. QED
      BY <3>1, <3>2
  <2>3. QED
    BY <2>1, <2>2
<1> DEFINE now == sync[s]
           next == [now EXCEPT !.at = "write", !.row = r, !.was = View(s, r)]
<1>3. sync \in [Syncers -> SyncState] /\ now \in SyncState /\ View(s, r) \in RowValue
  BY ViewIsARow DEF TypeOK
<1>4. sync' = [sync EXCEPT ![s] = next] /\ "write" \in Active
  BY <1>2, <1>3 DEF Active
<1>5. /\ next \in SyncState /\ next.at = "write" /\ next.query = now.query
      /\ next.page = now.page /\ next.todo = now.todo /\ next.more = now.more
      /\ next.row = r /\ next.was = View(s, r)
  BY <1>3, <1>4 DEF SyncState
<1> HIDE DEF next
<1>6. sync'[s] = next /\ sync' \in [Syncers -> SyncState] /\ Moved(s)
  BY <1>3, <1>4, <1>5 DEF Moved
<1>7. QED
  BY <1>1, <1>2, <1>5, <1>6

LEMMA WrittenFacts ==
  ASSUME TypeOK, SyncInv, NEW s \in Syncers, sync[s].at = "write",
         NEW linked \in BOOLEAN
  PROVE  LET r == sync[s].row
         IN /\ r \in Rows /\ r[1] \in Items
            /\ sync[s].todo[r[1]] \in Status \ {"absent"}
            /\ Written(s, r, linked) \in RowValue
            /\ Written(s, r, linked).st \in {sync[s].todo[r[1]], View(s, r).st}
            /\ Written(s, r, linked).org = (View(s, r).org \/ linked)
            /\ sync[s].was = View(s, r) =>
                 Written(s, r, linked).st = sync[s].todo[r[1]]
            /\ Written(s, r, linked) = NoRow => View(s, r) = NoRow
<1> DEFINE r == sync[s].row
           i == r[1]
           now == View(s, r)
           st == IF sync[s].todo[i] # sync[s].was.st THEN sync[s].todo[i] ELSE now.st
<1>1. r \in Rows /\ i \in Todo(s) /\ i \in Items
  BY TableFacts DEF SyncInv, InOrder
<1>2. sync[s].todo[i] \in Status \ {"absent"}
  BY <1>1, StateFacts DEF Todo
<1>3. now \in RowValue /\ now.st \in Status /\ now.org \in BOOLEAN
  BY <1>1, ViewIsARow DEF RowValue
<1>4. st \in Status /\ st \in {sync[s].todo[i], now.st} /\ (now.org \/ linked) \in BOOLEAN
  BY <1>2, <1>3
<1>5. Written(s, r, linked) = [st |-> st, org |-> now.org \/ linked]
  BY DEF Written
<1>6. /\ Written(s, r, linked) \in RowValue /\ Written(s, r, linked).st = st
      /\ Written(s, r, linked).org = (now.org \/ linked)
  BY <1>4, <1>5 DEF RowValue
<1>7. Written(s, r, linked) = NoRow => now = NoRow
  <2>1. SUFFICES ASSUME Written(s, r, linked) = NoRow PROVE now = NoRow
    OBVIOUS
  <2>2. st = "absent" /\ now.org = FALSE
    BY <2>1, <1>3, <1>6, TableFacts
  <2>3. now.st = "absent"
    BY <2>2, <1>2
  <2>4. QED
    BY <2>2, <2>3, <1>3 DEF RowValue, NoRow
<1>8. sync[s].was = now => st = sync[s].todo[i]
  OBVIOUS
<1>9. QED
  BY <1>1, <1>2, <1>4, <1>6, <1>7, <1>8

LEMMA WriteFacts ==
  ASSUME TypeOK, SyncInv, NEW s \in Syncers, Write(s), ~Rollback(s)
  PROVE  LET r == sync[s].row
             linked == Linked(s, r[1])
         IN /\ sync[s].at = "write" /\ UNCHANGED <<remote, rows, steady, alone>>
            /\ work' \in [Syncers -> [Rows -> RowValue]]
            /\ \A t \in Syncers \ {s} : work'[t] = work[t]
            /\ \A p \in Rows : work'[s][p] # work[s][p] => work'[s][p] = Written(s, r, linked)
            /\ \A p \in Rows : View(s, p)' = IF p = r THEN Written(s, r, linked) ELSE View(s, p)
            /\ sync' \in [Syncers -> SyncState] /\ Moved(s)
            /\ sync'[s].at = "load" /\ sync'[s].query = sync[s].query
            /\ sync'[s].page = sync[s].page /\ sync'[s].more = sync[s].more
            /\ sync'[s].todo = [sync[s].todo EXCEPT ![r[1]] = "absent"]
<1> DEFINE r == sync[s].row
           i == r[1]
           linked == Linked(s, i)
           value == Written(s, r, linked)
           now == sync[s]
           known == IF linked THEN now.known \cup {ContactOf[i]} ELSE now.known
           todo == [now.todo EXCEPT ![i] = "absent"]
           next == [now EXCEPT !.at = "load", !.row = <<>>, !.was = NoRow,
                      !.todo = todo, !.known = known]
<1>1. /\ now.at = "write" /\ UNCHANGED <<remote, rows, steady, alone>>
      /\ work' = IF value = View(s, r) THEN work ELSE [work EXCEPT ![s][r] = value]
      /\ sync' = [sync EXCEPT ![s].at = "load", ![s].row = <<>>, ![s].was = NoRow,
                    ![s].todo[i] = "absent",
                    ![s].known = IF linked THEN @ \cup {ContactOf[i]} ELSE @]
  BY DEF Write
<1>2. linked \in BOOLEAN
  BY DEF Linked, Known
<1>3. /\ r \in Rows /\ i \in Items /\ value \in RowValue
      /\ value = NoRow => View(s, r) = NoRow
  BY <1>1, <1>2, WrittenFacts
<1>4. now \in SyncState /\ sync \in [Syncers -> SyncState]
  BY DEF TypeOK
<1>5. todo \in [Items -> Status] /\ known \in SUBSET Items
  <2>1. now.todo \in [Items -> Status] /\ "absent" \in Status /\ now.known \in SUBSET Items
    BY StateFacts DEF Status
  <2>2. linked => ContactOf[i] \in Items
    <3>1. ContactOf[i] \in Items \cup {NoItem}
      BY <1>3, ItemsAssumption
    <3>2. linked => ContactOf[i] \in now.known \/ ContactOf[i] # NoItem
      BY DEF Linked, Known, Customers
    <3>3. QED
      BY <2>1, <3>1, <3>2
  <2>3. QED
    BY <2>1, <2>2
<1>6. sync' = [sync EXCEPT ![s] = next]
  BY <1>1, <1>4 DEF SyncState
<1>7. /\ next \in SyncState /\ next.at = "load" /\ next.query = now.query
      /\ next.page = now.page /\ next.more = now.more /\ next.todo = todo
  <2>1. NoRow \in RowValue /\ "load" \in Active
    BY TableFacts DEF Active
  <2> HIDE DEF todo, known
  <2>2. QED
    BY <1>4, <1>5, <2>1 DEF SyncState
<1> HIDE DEF next
<1>8. sync'[s] = next /\ sync' \in [Syncers -> SyncState] /\ Moved(s)
  BY <1>4, <1>6, <1>7 DEF Moved
<1>9. work \in [Syncers -> [Rows -> RowValue]] /\ rows' = rows
  BY <1>1 DEF TypeOK
<1> HIDE DEF value
<1>10. /\ work' \in [Syncers -> [Rows -> RowValue]]
       /\ \A t \in Syncers \ {s} : work'[t] = work[t]
       /\ \A p \in Rows : work'[s][p] # work[s][p] => work'[s][p] = value
  BY <1>1, <1>3, <1>9
<1>11. ASSUME NEW p \in Rows
       PROVE  View(s, p)' = IF p = r THEN value ELSE View(s, p)
  <2>1. CASE value = View(s, r)
    BY <1>1, <1>9, <2>1 DEF View
  <2>2. CASE value # View(s, r)
    <3>1. work'[s][p] = IF p = r THEN value ELSE work[s][p]
      BY <1>1, <1>3, <1>9, <2>2
    <3>2. p = r => value # NoRow
      BY <1>3, <2>2
    <3>3. QED
      BY <1>9, <3>1, <3>2 DEF View
  <2>3. QED
    BY <2>1, <2>2
<1>12. QED
  BY <1>1, <1>7, <1>8, <1>10, <1>11 DEF value

LEMMA CommitFacts ==
  ASSUME TypeOK, NEW s \in Syncers, NEW how \in Ended, Commit(s, how)
  PROVE  /\ Leave(s, how)
         /\ rows' = [r \in Rows |-> View(s, r)] /\ rows' \in [Rows -> RowValue]
         /\ work' = [work EXCEPT ![s] = Untouched]
BY ViewIsARow DEF Commit

-----------------------------------------------------------------------------
(* Types, and the order in which a sync works.                              *)
LEMMA OthersStayInOrder ==
  ASSUME SyncInv, NEW s \in Syncers, Moved(s),
         \A t \in Syncers \ {s} : work'[t] = work[t], InOrder(s)'
  PROVE  SyncInv'
<1>1. ASSUME NEW t \in Syncers \ {s} PROVE InOrder(t)'
  <2>1. sync'[t] = sync[t] /\ work'[t] = work[t] /\ InOrder(t)
    BY DEF Moved, SyncInv
  <2>2. QED
    BY <2>1 DEF InOrder, Running, Todo
<1>2. QED
  BY <1>1 DEF SyncInv

LEMMA LeavingKeepsTypes ==
  ASSUME TypeOK, SyncInv, NEW s \in Syncers, NEW how \in Ended, Leave(s, how),
         rows' \in [Rows -> RowValue], work' = [work EXCEPT ![s] = Untouched],
         begun' \in 0..MaxSyncs, moves' \in 0..MaxMoves, faults' \in 0..MaxFaults
  PROVE  TypeOK' /\ SyncInv'
<1>1. /\ sync' \in [Syncers -> SyncState] /\ Moved(s) /\ sync'[s].todo = Nothing
      /\ sync'[s].at = how /\ ~Running(s)'
      /\ steady' = [steady EXCEPT ![s] = Items] /\ remote' = remote
      /\ alone' = alone \ {s}
  BY LeaveFacts
<1>2. work' \in [Syncers -> [Rows -> RowValue]] /\ work'[s] = Untouched
      /\ \A t \in Syncers \ {s} : work'[t] = work[t]
  BY TableFacts DEF TypeOK
<1>3. steady' \in [Syncers -> SUBSET Items]
  BY <1>1 DEF TypeOK
<1>4. TypeOK'
  BY <1>1, <1>2, <1>3 DEF TypeOK
<1>5. InOrder(s)'
  <2>1. how \notin {"load", "write"}
    BY DEF Ended
  <2>2. QED
    BY <1>1, <1>2, <2>1 DEF InOrder
<1>6. QED
  BY <1>1, <1>2, <1>4, <1>5, OthersStayInOrder

LEMMA GoingOnKeepsTypes ==
  ASSUME TypeOK, SyncInv, NEW s \in Syncers, NEW more \in BOOLEAN, Running(s),
         sync[s].query <= LastQuery, sync' = Onward(s, more),
         UNCHANGED <<remote, rows, work, steady, alone, begun, moves>>, faults' \in 0..MaxFaults
  PROVE  TypeOK' /\ SyncInv'
<1>1. /\ sync' \in [Syncers -> SyncState] /\ Moved(s)
      /\ sync'[s].at = "fetch" /\ sync'[s].todo = Nothing
  BY OnwardFacts
<1>2. TypeOK'
  BY <1>1 DEF TypeOK
<1>3. InOrder(s)'
  BY <1>1 DEF InOrder, Running, Active
<1>4. QED
  BY <1>1, <1>2, <1>3, OthersStayInOrder

LEMMA FaultTypes ==
  ASSUME TypeOK, Fault
  PROVE  begun' \in 0..MaxSyncs /\ moves' \in 0..MaxMoves /\ faults' \in 0..MaxFaults
BY BoundsAssumption DEF TypeOK, Fault

LEMMA TypesInitially == Init => TypeOK /\ SyncInv
<1> SUFFICES ASSUME Init PROVE TypeOK /\ SyncInv
  OBVIOUS
<1>1. remote \in [Items -> Status]
  BY SeedAssumption DEF Init
<1>2. rows \in [Rows -> RowValue]
  <2>1. ASSUME NEW r \in Rows
        PROVE  [st |-> Seed[r[1]], org |-> FALSE] \in RowValue /\ NoRow \in RowValue
    BY TableFacts, SeedAssumption DEF RowValue
  <2>2. QED
    BY <2>1 DEF Init
<1>3. /\ work \in [Syncers -> [Rows -> RowValue]] /\ \A s \in Syncers : work[s] = Untouched
      /\ sync \in [Syncers -> SyncState] /\ \A s \in Syncers : sync[s] = Asleep
      /\ steady \in [Syncers -> SUBSET Items] /\ alone \subseteq Syncers
  BY TableFacts DEF Init
<1>4. TypeOK
  BY <1>1, <1>2, <1>3, BoundsAssumption DEF Init, TypeOK
<1>5. Asleep.at = "idle" /\ Asleep.todo = Nothing
  BY DEF Asleep
<1>6. SyncInv
  BY <1>3, <1>5 DEF SyncInv, InOrder
<1>7. QED
  BY <1>4, <1>6

LEMMA TypesStep == TypeOK /\ SyncInv /\ [Next]_vars => TypeOK' /\ SyncInv'
<1> SUFFICES ASSUME TypeOK, SyncInv, [Next]_vars PROVE TypeOK' /\ SyncInv'
  OBVIOUS
<1> USE DEF TypeOK
<1>1. ASSUME NEW s \in Syncers, Start(s) PROVE TypeOK' /\ SyncInv'
  <2> DEFINE next == [Asleep EXCEPT !.at = "fetch"]
  <2>1. next \in SyncState /\ next.at = "fetch" /\ next.todo = Nothing
    <3>1. Asleep \in SyncState /\ "fetch" \in Active /\ Asleep.todo = Nothing
      BY TableFacts DEF Active, Asleep
    <3>2. QED
      BY <3>1 DEF SyncState
  <2>2. sync' = [sync EXCEPT ![s] = next] /\ UNCHANGED <<remote, rows, work, steady, moves, faults>>
        /\ alone' \in {{}, {s}}
    BY <1>1 DEF Start
  <2> HIDE DEF next
  <2>3. sync' \in [Syncers -> SyncState] /\ sync'[s] = next /\ Moved(s)
    BY <2>1, <2>2 DEF Moved
  <2>4. begun' \in 0..MaxSyncs
    BY <1>1, BoundsAssumption DEF Start
  <2>5. InOrder(s)'
    BY <2>1, <2>3 DEF InOrder, Running, Active
  <2>6. QED
    BY <2>2, <2>3, <2>4, <2>5, OthersStayInOrder
<1>2. ASSUME NEW s \in Syncers, FetchPage(s) PROVE TypeOK' /\ SyncInv'
  <2>1. UNCHANGED <<begun, moves, faults>>
    BY <1>2 DEF FetchPage
  <2>2. CASE sync' = Onward(s, FALSE)
    <3>1. /\ UNCHANGED <<remote, rows, work, steady, alone>>
          /\ sync[s].at = "fetch" /\ sync[s].query \in 1..LastQuery
      BY <1>2, FetchFacts
    <3>2. Running(s) /\ sync[s].query <= LastQuery
      BY <3>1, ListFacts DEF Running, Active
    <3>3. QED
      BY <2>1, <2>2, <3>1, <3>2, GoingOnKeepsTypes
  <2>3. CASE sync' # Onward(s, FALSE)
    <3>1. /\ UNCHANGED <<remote, rows, work, steady, alone>>
          /\ sync[s].query \in 1..LastQuery
          /\ sync' \in [Syncers -> SyncState] /\ Moved(s)
          /\ sync'[s].at = "load" /\ sync'[s].query = sync[s].query
          /\ sync'[s].todo = [i \in Items |-> IF i \in OnPage(sync[s].query, sync[s].page)
                                               THEN remote[i] ELSE "absent"]
      BY <1>2, <2>3, FetchFacts
    <3>2. \A i \in Todo(s)' : i \in OnPage(sync[s].query, sync[s].page)
      BY <3>1 DEF Todo
    <3>3. \A i \in Todo(s)' : Kind[i] = Lists[sync'[s].query].kind
      BY <3>1, <3>2 DEF OnPage, Listed
    <3>4. InOrder(s)'
      BY <3>1, <3>3, ListFacts DEF InOrder, Running, Active
    <3>5. QED
      BY <2>1, <3>1, <3>4, OthersStayInOrder
  <2>4. QED
    BY <2>2, <2>3
<1>3. ASSUME NEW s \in Syncers, FetchFails(s) PROVE TypeOK' /\ SyncInv'
  <2>1. /\ Running(s) /\ sync[s].query <= LastQuery
        /\ Fault
        /\ \/ sync' = Onward(s, FALSE) /\ UNCHANGED <<remote, rows, work, steady, alone>>
           \/ Commit(s, "partial")
    BY <1>3 DEF FetchFails, Fetching, Running, Active
  <2>2. begun' \in 0..MaxSyncs /\ moves' \in 0..MaxMoves /\ faults' \in 0..MaxFaults
    BY <2>1, FaultTypes
  <2>3. CASE sync' = Onward(s, FALSE) /\ UNCHANGED <<remote, rows, work, steady, alone>>
    <3>1. UNCHANGED <<begun, moves>>
      BY <2>1 DEF Fault
    <3>2. QED
      BY <2>1, <2>2, <2>3, <3>1, GoingOnKeepsTypes
  <2>4. CASE Commit(s, "partial")
    BY <2>2, <2>4, CommitFacts, LeavingKeepsTypes DEF Ended
  <2>5. QED
    BY <2>1, <2>3, <2>4
<1>4. ASSUME NEW s \in Syncers, Rollback(s),
             begun' \in 0..MaxSyncs, moves' \in 0..MaxMoves, faults' \in 0..MaxFaults
      PROVE  TypeOK' /\ SyncInv'
  BY <1>4, RollbackFacts, LeavingKeepsTypes
<1>5. ASSUME NEW s \in Syncers, Load(s) PROVE TypeOK' /\ SyncInv'
  <2>1. UNCHANGED <<begun, moves, faults>>
    BY <1>5 DEF Load
  <2>2. CASE Rollback(s)
    BY <1>4, <2>1, <2>2
  <2>3. CASE ~Rollback(s)
    <3>1. /\ UNCHANGED <<remote, rows, work, steady, alone>>
          /\ sync' \in [Syncers -> SyncState] /\ Moved(s)
          /\ sync[s].at = "load" /\ sync'[s].at = "write"
          /\ sync'[s].query = sync[s].query /\ sync'[s].todo = sync[s].todo
          /\ sync'[s].row \in Rows /\ sync'[s].row[1] \in Todo(s)
      BY <1>5, <2>3, LoadFacts
    <3>2. InOrder(s) /\ Todo(s)' = Todo(s)
      BY <3>1 DEF SyncInv, Todo
    <3>3. InOrder(s)'
      BY <3>1, <3>2 DEF InOrder, Running, Active
    <3>4. QED
      BY <2>1, <3>1, <3>3, OthersStayInOrder
  <2>4. QED
    BY <2>2, <2>3
<1>6. ASSUME NEW s \in Syncers, Write(s) PROVE TypeOK' /\ SyncInv'
  <2>1. UNCHANGED <<begun, moves, faults>>
    BY <1>6 DEF Write
  <2>2. CASE Rollback(s)
    BY <1>4, <2>1, <2>2
  <2>3. CASE ~Rollback(s)
    <3>1. /\ sync[s].at = "write" /\ UNCHANGED <<remote, rows, steady, alone>>
          /\ work' \in [Syncers -> [Rows -> RowValue]]
          /\ \A t \in Syncers \ {s} : work'[t] = work[t]
          /\ sync' \in [Syncers -> SyncState] /\ Moved(s)
          /\ sync'[s].at = "load" /\ sync'[s].query = sync[s].query
          /\ sync'[s].todo = [sync[s].todo EXCEPT ![sync[s].row[1]] = "absent"]
      BY <1>6, <2>3, WriteFacts
    <3>2. sync[s].todo \in [Items -> Status] /\ InOrder(s)
      BY StateFacts DEF SyncInv
    <3>3. Todo(s)' \subseteq Todo(s)
      BY <3>1, <3>2 DEF Todo
    <3>4. InOrder(s)'
      BY <3>1, <3>2, <3>3 DEF InOrder, Running, Active
    <3>5. QED
      BY <2>1, <3>1, <3>4, OthersStayInOrder
  <2>4. QED
    BY <2>2, <2>3
<1>7. ASSUME NEW s \in Syncers, Turn(s) PROVE TypeOK' /\ SyncInv'
  <2>1. /\ sync[s].at = "load" /\ sync' = Onward(s, sync[s].more)
        /\ UNCHANGED <<remote, rows, work, steady, alone, begun, moves, faults>>
    BY <1>7 DEF Turn
  <2>2. sync[s].more \in BOOLEAN /\ Running(s) /\ sync[s].query <= LastQuery
    BY <2>1, StateFacts DEF SyncInv, InOrder
  <2>3. QED
    BY <2>1, <2>2, GoingOnKeepsTypes
<1>8. ASSUME NEW s \in Syncers, Complete(s) PROVE TypeOK' /\ SyncInv'
  <2>1. Commit(s, "completed") /\ UNCHANGED <<begun, moves, faults>> /\ "completed" \in Ended
    BY <1>8 DEF Complete, Ended
  <2>2. QED
    BY <2>1, CommitFacts, LeavingKeepsTypes
<1>9. ASSUME NEW s \in Syncers, DeadlockVictim(s) PROVE TypeOK' /\ SyncInv'
  BY <1>4, <1>9 DEF DeadlockVictim
<1>10. ASSUME NEW s \in Syncers, Dies(s) PROVE TypeOK' /\ SyncInv'
  BY <1>4, <1>10, FaultTypes DEF Dies
<1>11. ASSUME NEW i \in Items, RemoteMove(i) PROVE TypeOK' /\ SyncInv'
  <2>1. PICK t \in Status :
          /\ moves < MaxMoves /\ moves' = moves + 1
          /\ remote' = [remote EXCEPT ![i] = t]
          /\ steady' = [s \in Syncers |->
               IF Running(s) THEN steady[s] \ ({i} \cup MovedUp(i, t)) ELSE Items]
          /\ UNCHANGED <<rows, work, sync, alone, begun, faults>>
    BY <1>11 DEF RemoteMove
  <2>2. TypeOK'
    BY <2>1, BoundsAssumption
  <2>3. SyncInv'
    BY <2>1 DEF SyncInv, InOrder, Running, Todo
  <2>4. QED
    BY <2>2, <2>3
<1>12. CASE UNCHANGED vars
  BY <1>12 DEF vars, SyncInv, InOrder, Running, Todo
<1>13. QED
  BY <1>1, <1>2, <1>3, <1>5, <1>6, <1>7, <1>8, <1>9, <1>10, <1>11, <1>12
  DEF Next, SyncStep

(* Every variable keeps its type, however the syncs overlap.                *)
THEOREM TypeCorrect == Spec => []TypeOK
<1>1. TypeOK /\ SyncInv /\ [Next]_vars => (TypeOK /\ SyncInv)'
  BY TypesStep
<1>2. QED
  BY TypesInitially, <1>1, PTL DEF Spec

-----------------------------------------------------------------------------
(* Duplicates: what a sync inserts while it is alone is of items that have  *)
(* no committed row, and stays so until it commits.                         *)
LoneFacts == TypeOK /\ SyncInv /\ LoneInv

LEMMA LoneGoesOn ==
  ASSUME LoneInv, NEW s \in Syncers, Running(s), Running(s)', Moved(s),
         UNCHANGED <<rows, alone>>,
         \A r \in Rows : Inserts(s, r)' => Inserts(s, r) \/ RowsOf(r[1]) = {}
  PROVE  LoneInv'
<1> SUFFICES ASSUME NEW t \in alone
             PROVE  /\ Running(t)' /\ \A u \in Syncers : Running(u)' => u = t
                    /\ \A r \in Rows : Inserts(t, r)' => RowsOf(r[1])' = {}
  BY DEF LoneInv
<1>1. t = s
  BY DEF LoneInv
<1>2. ASSUME NEW u \in Syncers, Running(u)' PROVE u = t
  BY <1>1, <1>2 DEF LoneInv, Moved, Running
<1>3. ASSUME NEW r \in Rows, Inserts(t, r)' PROVE RowsOf(r[1])' = {}
  <2>1. RowsOf(r[1]) = {}
    BY <1>1, <1>3 DEF LoneInv
  <2>2. QED
    BY <2>1 DEF RowsOf
<1>4. QED
  BY <1>1, <1>2, <1>3

LEMMA LoneLeaves ==
  ASSUME LoneInv, NEW s \in Syncers, Running(s), alone' = alone \ {s}
  PROVE  LoneInv'
<1>1. alone' = {}
  BY DEF LoneInv
<1>2. QED
  BY <1>1 DEF LoneInv

LEMMA LoneStep ==
  ASSUME LoneFacts, [Next]_vars
  PROVE  LoneInv'
<1> USE DEF LoneFacts
<1>1. ASSUME NEW s \in Syncers, Start(s) PROVE LoneInv'
  <2>1. CASE \E t \in Syncers : Running(t)
    BY <1>1, <2>1 DEF Start, LoneInv
  <2>2. CASE \A t \in Syncers : ~Running(t)
    <3>1. /\ alone' = {s} /\ work' = work
          /\ sync' = [sync EXCEPT ![s] = [Asleep EXCEPT !.at = "fetch"]]
      BY <1>1, <2>2 DEF Start
    <3>2. sync'[s].at = "fetch" /\ Moved(s)
      BY <3>1 DEF TypeOK, Moved, Asleep
    <3>3. work'[s] = Untouched
      BY <2>2, <3>1 DEF SyncInv, InOrder
    <3>4. \A r \in Rows : ~Inserts(s, r)'
      BY <3>2, <3>3 DEF Inserts, Untouched
    <3>5. Running(s)' /\ \A t \in Syncers : Running(t)' => t = s
      BY <2>2, <3>2 DEF Moved, Running, Active
    <3>6. QED
      BY <3>1, <3>4, <3>5 DEF LoneInv
  <2>3. QED
    BY <2>1, <2>2
<1>2. ASSUME NEW s \in Syncers, Running(s), sync[s].query <= LastQuery,
             NEW more \in BOOLEAN, sync' = Onward(s, more), UNCHANGED <<rows, work, alone>>
      PROVE  LoneInv'
  <2>1. Moved(s) /\ sync'[s].at = "fetch"
    BY <1>2, OnwardFacts
  <2>2. Running(s)' /\ \A r \in Rows : Inserts(s, r)' => Inserts(s, r)
    BY <1>2, <2>1 DEF Running, Active, Inserts
  <2>3. QED
    BY <1>2, <2>1, <2>2, LoneGoesOn
<1>3. ASSUME NEW s \in Syncers, FetchPage(s) PROVE LoneInv'
  <2>1. /\ UNCHANGED <<rows, work, alone>>
        /\ sync[s].at = "fetch" /\ sync[s].query \in 1..LastQuery
        /\ sync' = Onward(s, FALSE) \/ (Moved(s) /\ sync'[s].at = "load")
    BY <1>3, FetchFacts
  <2>2. Running(s) /\ sync[s].query <= LastQuery
    BY <2>1, ListFacts DEF Running, Active
  <2>3. CASE sync' = Onward(s, FALSE)
    BY <1>2, <2>1, <2>2, <2>3
  <2>4. CASE Moved(s) /\ sync'[s].at = "load"
    <3>1. Running(s)' /\ \A r \in Rows : Inserts(s, r)' => Inserts(s, r)
      BY <2>1, <2>4 DEF Running, Active, Inserts
    <3>2. QED
      BY <2>1, <2>2, <2>4, <3>1, LoneGoesOn
  <2>5. QED
    BY <2>1, <2>3, <2>4
<1>4. ASSUME NEW s \in Syncers, Load(s), ~Rollback(s) PROVE LoneInv'
  <2>1. /\ UNCHANGED <<rows, work, alone>> /\ Moved(s)
        /\ sync[s].at = "load" /\ sync'[s].at = "write"
        /\ sync'[s].row \in Rows /\ OnlyRow(s, sync'[s].row)
    BY <1>4, LoadFacts
  <2>2. ASSUME NEW r \in Rows, Inserts(s, r)' PROVE Inserts(s, r) \/ RowsOf(r[1]) = {}
    <3>1. CASE work[s][r] # NoRow
      BY <2>1, <2>2, <3>1 DEF Inserts
    <3>2. CASE work[s][r] = NoRow
      <4>1. rows[r] = NoRow /\ sync'[s].row = r
        BY <2>1, <2>2, <3>2 DEF Inserts
      <4>2. \A p \in Rows : p[1] = r[1] /\ rows[p] # NoRow => p = r
        BY <2>1, <4>1 DEF OnlyRow, View
      <4>3. QED
        BY <4>1, <4>2 DEF RowsOf
    <3>3. QED
      BY <3>1, <3>2
  <2>3. Running(s) /\ Running(s)'
    BY <2>1 DEF Running, Active
  <2>4. QED
    BY <2>1, <2>2, <2>3, LoneGoesOn
<1>5. ASSUME NEW s \in Syncers, Write(s), ~Rollback(s) PROVE LoneInv'
  <2>1. /\ sync[s].at = "write" /\ UNCHANGED <<rows, alone>> /\ Moved(s)
        /\ sync'[s].at = "load"
        /\ \A p \in Rows : p # sync[s].row => View(s, p)' = View(s, p)
    BY <1>5, WriteFacts
  <2>2. ASSUME NEW r \in Rows, Inserts(s, r)' PROVE Inserts(s, r)
    BY <2>1, <2>2 DEF Inserts, View
  <2>3. Running(s) /\ Running(s)'
    BY <2>1 DEF Running, Active
  <2>4. QED
    BY <2>1, <2>2, <2>3, LoneGoesOn
<1>6. ASSUME NEW s \in Syncers, Running(s), NEW how \in Ended, Leave(s, how) PROVE LoneInv'
  BY <1>6, LoneLeaves DEF Leave
<1>7. ASSUME NEW s \in Syncers, SyncStep(s) \/ FetchFails(s) \/ Dies(s) PROVE LoneInv'
  <2>1. CASE Rollback(s) /\ Running(s)
    BY <1>6, <2>1, RollbackFacts
  <2>2. CASE Load(s)
    BY <1>4, <2>1, <2>2 DEF Load, Running, Active
  <2>3. CASE Write(s)
    BY <1>5, <2>1, <2>3 DEF Write, Running, Active
  <2>4. CASE Turn(s)
    <3>1. /\ sync[s].at = "load" /\ sync' = Onward(s, sync[s].more)
          /\ UNCHANGED <<rows, work, alone>>
      BY <2>4 DEF Turn
    <3>2. sync[s].more \in BOOLEAN /\ sync[s].query <= LastQuery /\ Running(s)
      BY <3>1, StateFacts DEF SyncInv, InOrder
    <3>3. QED
      BY <1>2, <3>1, <3>2
  <2>5. CASE Complete(s)
    BY <1>6, <2>5 DEF Complete, Commit, Ended, Running, Active
  <2>6. CASE DeadlockVictim(s)
    BY <2>1, <2>6 DEF DeadlockVictim, WaitsFor, Writing, Running, Active
  <2>7. CASE Dies(s)
    BY <2>1, <2>7 DEF Dies
  <2>8. CASE FetchFails(s)
    <3>1. /\ Running(s) /\ sync[s].query <= LastQuery
          /\ \/ sync' = Onward(s, FALSE) /\ UNCHANGED <<rows, work, alone>>
             \/ Commit(s, "partial")
      BY <2>8 DEF FetchFails, Fetching, Running, Active
    <3>2. CASE Commit(s, "partial")
      BY <1>6, <3>1, <3>2 DEF Commit, Ended
    <3>3. QED
      BY <1>2, <3>1, <3>2
  <2>9. QED
    BY <1>3, <1>7, <2>2, <2>3, <2>4, <2>5, <2>6, <2>7, <2>8 DEF SyncStep
<1>8. ASSUME UNCHANGED <<rows, work, sync, alone>> PROVE LoneInv'
  BY <1>8 DEF LoneInv, Inserts, RowsOf, Running
<1>9. CASE \E i \in Items : RemoteMove(i)
  BY <1>8, <1>9 DEF RemoteMove
<1>10. CASE UNCHANGED vars
  BY <1>8, <1>10 DEF vars
<1>11. QED
  BY <1>1, <1>7, <1>9, <1>10 DEF Next

LEMMA LoneHolds == Spec => []LoneFacts
<1>1. Init => LoneFacts
  <2>1. Init => LoneInv
    BY DEF Init, LoneInv
  <2>2. QED
    BY <2>1, TypesInitially DEF LoneFacts
<1>2. LoneFacts /\ [Next]_vars => LoneFacts'
  BY TypesStep, LoneStep DEF LoneFacts
<1>3. QED
  BY <1>1, <1>2, PTL DEF Spec

LEMMA CommitNeedsOverlap ==
  ASSUME TypeOK, LoneInv, NEW s \in Syncers, Running(s), NEW how \in Ended, Commit(s, how),
         NEW i \in Items, RowsOf(i) # {}, RowsOf(i)' # RowsOf(i)
  PROVE  s \notin alone /\ Ends(s)
<1>1. Ends(s)
  BY LeaveFacts DEF Commit, Ends
<1>2. rows' = [r \in Rows |-> View(s, r)]
  BY DEF Commit
<1>3. ASSUME s \in alone, NEW r \in Rows, r \in RowsOf(i)' PROVE r \in RowsOf(i)
  <2>1. r[1] = i /\ View(s, r) # NoRow
    BY <1>2, <1>3 DEF RowsOf
  <2>2. CASE rows[r] = NoRow
    BY <1>3, <2>1, <2>2 DEF LoneInv, Inserts, View
  <2>3. QED
    BY <2>1, <2>2 DEF RowsOf
<1>4. ASSUME NEW r \in RowsOf(i) PROVE r \in RowsOf(i)'
  BY <1>2, <1>4 DEF RowsOf, View
<1>5. CASE s \in alone
  <2>1. RowsOf(i)' \subseteq Rows /\ RowsOf(i) \subseteq Rows
    BY DEF RowsOf
  <2>2. QED
    BY <1>3, <1>4, <1>5, <2>1
<1>6. QED
  BY <1>1, <1>5

(* However syncs overlap, die and commit in part: an item with a row gets   *)
(* another one only from a sync that has overlapped another one.            *)
THEOREM SecondRowNeedsOverlapThm == Spec => SecondRowNeedsOverlap
<1>1. ASSUME LoneFacts, [Next]_vars, NEW i \in Items, RowsOf(i) # {}, RowsOf(i)' # RowsOf(i)
      PROVE  \E s \in Syncers \ alone : Ends(s)
  <2>1. rows' # rows
    BY <1>1 DEF RowsOf
  <2>2. ASSUME NEW s \in Syncers, SyncStep(s) \/ FetchFails(s) \/ Dies(s) \/ Start(s)
        PROVE  Running(s) /\ \E how \in Ended : Commit(s, how)
    BY <2>1, <2>2 DEF SyncStep, FetchPage, Load, Write, Turn, Complete, DeadlockVictim,
       FetchFails, Dies, Start, Fetching, Rollback, Running, Active, Ended
  <2>3. PICK s \in Syncers : Running(s) /\ \E how \in Ended : Commit(s, how)
    BY <1>1, <2>1, <2>2 DEF Next, RemoteMove, vars
  <2>4. QED
    BY <1>1, <2>3, CommitNeedsOverlap DEF LoneFacts
<1>2. LoneFacts /\ [Next]_vars =>
        [\A i \in Items : RowsOf(i) # {} /\ RowsOf(i)' # RowsOf(i) =>
           \E s \in Syncers \ alone : Ends(s)]_vars
  BY <1>1
<1>3. QED
  BY <1>2, LoneHolds, PTL DEF Spec, SecondRowNeedsOverlap

-----------------------------------------------------------------------------
(* The tables and Lexware.                                                  *)
LEMMA TodoOnly ==
  ASSUME TypeOK, BehindInv, NEW s \in Syncers, Moved(s),
         UNCHANGED <<remote, rows, work>>,
         \A i \in Items : <<sync'[s].todo[i], remote[i]>> \in AtMost
  PROVE  BehindInv'
<1>1. \A t \in Syncers \ {s} : sync'[t] = sync[t]
  BY DEF Moved
<1>2. QED
  BY <1>1 DEF BehindInv, NeverAhead

LEMMA NothingIsBehind ==
  ASSUME TypeOK
  PROVE  /\ \A i \in Items : <<Nothing[i], remote[i]>> \in AtMost
         /\ \A r \in Rows : <<Untouched[r].st, remote[r[1]]>> \in AtMost
<1>1. \A i \in Items : Nothing[i] = "absent" /\ remote[i] \in Status
  BY DEF TypeOK, Nothing
<1>2. \A r \in Rows : Untouched[r].st = "absent" /\ r[1] \in Items
  BY TableFacts DEF Untouched
<1>3. QED
  BY <1>1, <1>2, AtMostIsAnOrder

LEMMA ViewIsBehind ==
  ASSUME BehindInv, NEW s \in Syncers
  PROVE  \A r \in Rows : <<View(s, r).st, remote[r[1]]>> \in AtMost
BY DEF BehindInv, NeverAhead, View

LEMMA LeavingIsBehind ==
  ASSUME TypeOK, BehindInv, NEW s \in Syncers, NEW how \in Ended, Leave(s, how),
         work' = [work EXCEPT ![s] = Untouched],
         rows' = rows \/ rows' = [r \in Rows |-> View(s, r)]
  PROVE  BehindInv'
<1>1. Moved(s) /\ sync'[s].todo = Nothing /\ remote' = remote
  BY LeaveFacts
<1>2. \A r \in Rows : <<rows'[r].st, remote[r[1]]>> \in AtMost
  BY ViewIsBehind DEF BehindInv, NeverAhead
<1>3. ASSUME NEW t \in Syncers
      PROVE  /\ \A r \in Rows : <<work'[t][r].st, remote[r[1]]>> \in AtMost
             /\ \A i \in Items : <<sync'[t].todo[i], remote[i]>> \in AtMost
  <2>1. CASE t = s
    <3>1. work'[s] = Untouched
      BY DEF TypeOK
    <3>2. QED
      BY <1>1, <2>1, <3>1, NothingIsBehind
  <2>2. CASE t # s
    <3>1. work'[t] = work[t] /\ sync'[t] = sync[t]
      BY <1>1, <2>2 DEF TypeOK, Moved
    <3>2. QED
      BY <3>1 DEF BehindInv
  <2>3. QED
    BY <2>1, <2>2
<1>4. QED
  BY <1>1, <1>2, <1>3 DEF BehindInv, NeverAhead

LEMMA GoingOnIsBehind ==
  ASSUME TypeOK, BehindInv, NEW s \in Syncers, NEW more \in BOOLEAN,
         sync[s].query <= LastQuery, sync' = Onward(s, more), UNCHANGED <<remote, rows, work>>
  PROVE  BehindInv'
BY OnwardFacts, NothingIsBehind, TodoOnly

LEMMA BehindInitially == Init => BehindInv
<1> SUFFICES ASSUME Init PROVE BehindInv
  OBVIOUS
<1>1. TypeOK
  BY TypesInitially
<1>2. \A r \in Rows : rows[r].st \in {"absent", remote[r[1]]} /\ remote[r[1]] \in Status
  BY TableFacts, SeedAssumption DEF Init
<1>3. NeverAhead
  BY <1>2, AtMostIsAnOrder DEF NeverAhead
<1>4. \A s \in Syncers : work[s] = Untouched /\ sync[s].todo = Nothing
  BY DEF Init, Asleep
<1>5. QED
  BY <1>1, <1>3, <1>4, NothingIsBehind DEF BehindInv

LEMMA BehindStep == TypeOK /\ SyncInv /\ BehindInv /\ [Next]_vars => BehindInv'
<1> SUFFICES ASSUME TypeOK, SyncInv, BehindInv, [Next]_vars PROVE BehindInv'
  OBVIOUS
<1>1. ASSUME NEW s \in Syncers, Start(s) PROVE BehindInv'
  <2>1. sync' = [sync EXCEPT ![s] = [Asleep EXCEPT !.at = "fetch"]]
        /\ UNCHANGED <<remote, rows, work>>
    BY <1>1 DEF Start
  <2>2. sync'[s].todo = Nothing /\ Moved(s)
    BY <2>1 DEF TypeOK, Moved, Asleep
  <2>3. QED
    BY <2>1, <2>2, NothingIsBehind, TodoOnly
<1>2. ASSUME NEW s \in Syncers, FetchPage(s) PROVE BehindInv'
  <2> DEFINE page == OnPage(sync[s].query, sync[s].page)
  <2>1. /\ UNCHANGED <<remote, rows, work>>
        /\ sync[s].query \in 1..LastQuery
        /\ \/ sync' = Onward(s, FALSE)
           \/ /\ Moved(s)
              /\ sync'[s].todo = [i \in Items |-> IF i \in page THEN remote[i] ELSE "absent"]
    BY <1>2, FetchFacts
  <2>2. sync[s].query <= LastQuery
    BY <2>1, ListFacts
  <2>3. CASE sync' = Onward(s, FALSE)
    BY <2>1, <2>2, <2>3, GoingOnIsBehind
  <2>4. CASE sync' # Onward(s, FALSE)
    <3>1. \A i \in Items : sync'[s].todo[i] \in {"absent", remote[i]} /\ remote[i] \in Status
      BY <2>1, <2>4 DEF TypeOK
    <3>2. QED
      BY <2>1, <2>4, <3>1, AtMostIsAnOrder, TodoOnly
  <2>5. QED
    BY <2>3, <2>4
<1>3. ASSUME NEW s \in Syncers, FetchFails(s) PROVE BehindInv'
  <2>1. /\ sync[s].query <= LastQuery
        /\ \/ sync' = Onward(s, FALSE) /\ UNCHANGED <<remote, rows, work>>
           \/ Commit(s, "partial")
    BY <1>3 DEF FetchFails, Fetching
  <2>2. CASE sync' = Onward(s, FALSE) /\ UNCHANGED <<remote, rows, work>>
    BY <2>1, <2>2, GoingOnIsBehind
  <2>3. CASE Commit(s, "partial")
    BY <2>3, CommitFacts, LeavingIsBehind DEF Ended
  <2>4. QED
    BY <2>1, <2>2, <2>3
<1>4. ASSUME NEW s \in Syncers, Rollback(s) PROVE BehindInv'
  BY <1>4, RollbackFacts, LeavingIsBehind
<1>5. ASSUME NEW s \in Syncers, Load(s), ~Rollback(s) PROVE BehindInv'
  <2>1. UNCHANGED <<remote, rows, work>> /\ Moved(s) /\ sync'[s].todo = sync[s].todo
    BY <1>5, LoadFacts
  <2>2. QED
    BY <2>1, TodoOnly DEF BehindInv
<1>6. ASSUME NEW s \in Syncers, Write(s), ~Rollback(s) PROVE BehindInv'
  <2> DEFINE r == sync[s].row
             linked == Linked(s, r[1])
  <2>1. /\ sync[s].at = "write" /\ UNCHANGED <<remote, rows>>
        /\ \A t \in Syncers \ {s} : work'[t] = work[t]
        /\ \A p \in Rows : work'[s][p] # work[s][p] => work'[s][p] = Written(s, r, linked)
        /\ \A p \in Rows : View(s, p)' = IF p = r THEN Written(s, r, linked) ELSE View(s, p)
        /\ Moved(s)
        /\ sync'[s].todo = [sync[s].todo EXCEPT ![r[1]] = "absent"]
    BY <1>6, WriteFacts
  <2>2. /\ r \in Rows /\ r[1] \in Items
        /\ Written(s, r, linked).st \in {sync[s].todo[r[1]], View(s, r).st}
    <3>1. linked \in BOOLEAN
      BY DEF Linked, Known
    <3>2. QED
      BY <2>1, <3>1, WrittenFacts
  <2>3. <<Written(s, r, linked).st, remote[r[1]]>> \in AtMost
    BY <2>2, ViewIsBehind DEF BehindInv
  <2>4. ASSUME NEW p \in Rows PROVE <<work'[s][p].st, remote[p[1]]>> \in AtMost
    <3>1. CASE work'[s][p] = work[s][p]
      BY <3>1 DEF BehindInv
    <3>2. CASE work'[s][p] # work[s][p]
      <4>1. work'[s][p] = Written(s, r, linked)
        BY <2>1, <3>2
      <4>2. p = r
        BY <1>6, <2>1, <3>2 DEF Write, TypeOK
      <4>3. QED
        BY <4>1, <4>2, <2>3
    <3>3. QED
      BY <3>1, <3>2
  <2>5. \A i \in Items : <<sync'[s].todo[i], remote[i]>> \in AtMost
    <3>1. sync[s].todo \in [Items -> Status] /\ remote \in [Items -> Status]
      BY StateFacts DEF TypeOK
    <3>2. \A i \in Items : sync'[s].todo[i] \in {sync[s].todo[i], "absent"}
      BY <2>1, <3>1
    <3>3. QED
      BY <3>1, <3>2, AtMostIsAnOrder DEF BehindInv
  <2>6. QED
    BY <2>1, <2>4, <2>5 DEF BehindInv, NeverAhead, Moved
<1>7. ASSUME NEW s \in Syncers, Turn(s) PROVE BehindInv'
  <2>1. /\ sync[s].at = "load" /\ sync' = Onward(s, sync[s].more)
        /\ UNCHANGED <<remote, rows, work>>
    BY <1>7 DEF Turn
  <2>2. sync[s].more \in BOOLEAN /\ sync[s].query <= LastQuery
    BY <2>1, StateFacts DEF SyncInv, InOrder
  <2>3. QED
    BY <2>1, <2>2, GoingOnIsBehind
<1>8. ASSUME NEW s \in Syncers, Complete(s) PROVE BehindInv'
  BY <1>8, CommitFacts, LeavingIsBehind DEF Complete, Ended
<1>9. ASSUME NEW i \in Items, RemoteMove(i) PROVE BehindInv'
  <2>1. PICK t \in Status :
          /\ <<remote[i], t>> \in Moves[Kind[i]] /\ remote' = [remote EXCEPT ![i] = t]
          /\ UNCHANGED <<rows, work, sync>>
    BY <1>9 DEF RemoteMove
  <2>2. \A j \in Items : /\ <<remote[j], remote'[j]>> \in AtMost
                         /\ remote[j] \in Status /\ remote'[j] \in Status
    <3>1. Kind[i] \in Kinds
      BY ItemsAssumption
    <3>2. <<remote[i], t>> \in AtMost
      BY <2>1, <3>1, MovesFacts
    <3>3. QED
      BY <2>1, <3>2, AtMostIsAnOrder DEF TypeOK
  <2>3. \A r \in Rows : r[1] \in Items /\ rows[r].st \in Status
                        /\ \A s \in Syncers : work[s][r].st \in Status
    BY TableFacts DEF TypeOK, RowValue
  <2>4. \A s \in Syncers : sync[s].todo \in [Items -> Status]
    BY StateFacts
  <2>5. NeverAhead'
    <3>1. ASSUME NEW r \in Rows PROVE <<rows[r].st, remote'[r[1]]>> \in AtMost
      <4>1. <<rows[r].st, remote[r[1]]>> \in AtMost /\ r[1] \in Items /\ rows[r].st \in Status
        BY <2>3 DEF BehindInv, NeverAhead
      <4>2. /\ <<remote[r[1]], remote'[r[1]]>> \in AtMost
            /\ remote[r[1]] \in Status /\ remote'[r[1]] \in Status
        BY <4>1, <2>2
      <4>3. QED
        BY <4>1, <4>2, AtMostIsAnOrder
    <3>2. QED
      BY <2>1, <3>1 DEF NeverAhead
  <2>6. ASSUME NEW s \in Syncers
        PROVE  /\ \A r \in Rows : <<work[s][r].st, remote'[r[1]]>> \in AtMost
               /\ \A j \in Items : <<sync[s].todo[j], remote'[j]>> \in AtMost
    BY <2>2, <2>3, <2>4, AtMostIsAnOrder DEF BehindInv
  <2>7. QED
    BY <2>1, <2>5, <2>6 DEF BehindInv
<1>10. CASE UNCHANGED vars
  BY <1>10 DEF vars, BehindInv, NeverAhead
<1>11. QED
  BY <1>1, <1>2, <1>3, <1>4, <1>5, <1>6, <1>7, <1>8, <1>9, <1>10
  DEF Next, SyncStep, DeadlockVictim, Dies

(* However syncs overlap, stop half way or read lists that change meanwhile,*)
(* no table shows a status its item has not reached in Lexware.             *)
THEOREM NeverAheadOfLexware == Spec => []NeverAhead
<1>1. TypeOK /\ SyncInv /\ BehindInv /\ [Next]_vars => (TypeOK /\ SyncInv /\ BehindInv)'
  BY TypesStep, BehindStep
<1>2. BehindInv => NeverAhead
  BY DEF BehindInv
<1>3. QED
  BY TypesInitially, BehindInitially, <1>1, <1>2, PTL DEF Spec

-----------------------------------------------------------------------------
(* One sync at a time: the rows it works on are as it loaded them.          *)
UniqueRows ==
  \A p, r \in Rows : p[1] = r[1] /\ rows[p] # NoRow /\ rows[r] # NoRow => p = r

LEMMA ViewedRowsAreUnique ==
  ASSUME NEW s \in Syncers, RowsInOrder(s)
  PROVE  /\ UniqueRows
         /\ \A p, r \in Rows : p[1] = r[1] /\ View(s, p) # NoRow /\ View(s, r) # NoRow => p = r
<1>1. \A p, r \in Rows : p[1] = r[1] /\ View(s, p) # NoRow /\ View(s, r) # NoRow => p = r
  BY DEF RowsInOrder, OnlyRow
<1>2. \A r \in Rows : rows[r] # NoRow => View(s, r) # NoRow
  BY DEF View
<1>3. QED
  BY <1>1, <1>2 DEF UniqueRows

(* Whoever does not run sees the committed rows and has nothing to do.      *)
LEMMA IdleRowsInOrder ==
  ASSUME TypeOK, SyncInv, UniqueRows, NEW t \in Syncers, ~Running(t)
  PROVE  RowsInOrder(t)
<1>1. work[t] = Untouched /\ sync[t].todo = Nothing /\ sync[t].at # "write"
  BY DEF SyncInv, InOrder, Running, Active
<1>2. \A r \in Rows : View(t, r) = rows[r] /\ rows[r].st \in Status
  BY <1>1 DEF View, Untouched, TypeOK, RowValue
<1>3. Todo(t) = {}
  BY <1>1 DEF Todo, Nothing
<1>4. \A r \in Rows : View(t, r) # NoRow => OnlyRow(t, r)
  BY <1>2 DEF OnlyRow, UniqueRows
<1>5. \A r \in Rows : <<rows[r].st, View(t, r).st>> \in AtMost
  BY <1>2, AtMostIsAnOrder
<1>6. QED
  BY <1>1, <1>3, <1>4, <1>5 DEF RowsInOrder

RunningInOrder == \A s \in Syncers : Running(s) => RowsInOrder(s)
LEMMA AllRowsInOrder == TypeOK /\ SyncInv /\ UniqueRows /\ RunningInOrder => RowInv
BY IdleRowsInOrder DEF RowInv, RunningInOrder

LEMMA AllRowsInOrderNext ==
  (TypeOK /\ SyncInv /\ UniqueRows /\ RunningInOrder)' => RowInv'
BY AllRowsInOrder, PTL

LEMMA TablesStay ==
  ASSUME NEW s \in Syncers, RowsInOrder(s), UNCHANGED <<rows, work>>,
         \A r \in Rows : r[1] \in Todo(s)' => <<View(s, r).st, sync'[s].todo[r[1]]>> \in AtMost,
         sync'[s].at = "write" =>
           sync'[s].was = View(s, sync'[s].row) /\ OnlyRow(s, sync'[s].row)
  PROVE  RowsInOrder(s)' /\ UniqueRows'
<1>1. \A r : View(s, r)' = View(s, r)
  BY DEF View
<1>2. \A r : OnlyRow(s, r)' = OnlyRow(s, r)
  BY <1>1 DEF OnlyRow
<1>3. View(s, sync[s].row)' = View(s, sync'[s].row)
  BY DEF View
<1>4. RowsInOrder(s)'
  BY <1>1, <1>2, <1>3 DEF RowsInOrder, Todo, OnlyRow, View
<1>5. UniqueRows'
  BY ViewedRowsAreUnique DEF UniqueRows
<1>6. QED
  BY <1>4, <1>5

LEMMA NobodyLeft ==
  ASSUME AloneInv, NEW s \in Syncers, Running(s), Moved(s), ~Running(s)'
  PROVE  AloneInv' /\ \A t \in Syncers : ~Running(t)'
<1>1. \A t \in Syncers \ {s} : ~Running(t)
  BY DEF AloneInv
<1>2. \A t \in Syncers : ~Running(t)'
  BY <1>1 DEF Moved, Running
<1>3. QED
  BY <1>2 DEF AloneInv

LEMMA StillAlone ==
  ASSUME AloneInv, NEW s \in Syncers, Running(s), Moved(s)
  PROVE  AloneInv' /\ \A t \in Syncers \ {s} : ~Running(t)'
<1>1. \A t \in Syncers \ {s} : ~Running(t)
  BY DEF AloneInv
<1>2. \A t \in Syncers \ {s} : ~Running(t)'
  BY <1>1 DEF Moved, Running
<1>3. QED
  BY <1>2 DEF AloneInv

SerialInv == AloneInv /\ RowInv

LEMMA SerialInitially == Init => SerialInv
<1> SUFFICES ASSUME Init PROVE SerialInv
  OBVIOUS
<1>1. TypeOK /\ SyncInv
  BY TypesInitially
<1>2. \A s \in Syncers : ~Running(s)
  BY DEF Init, Asleep, Running, Active
<1>3. \A r \in Rows : rows[r] # NoRow => r[2] = Seeder
  BY DEF Init
<1>4. UniqueRows
  BY <1>3, TableFacts DEF UniqueRows
<1>5. QED
  BY <1>1, <1>2, <1>4, AllRowsInOrder DEF SerialInv, AloneInv, RunningInOrder

LEMMA SerialLeaves ==
  ASSUME TypeOK, TypeOK', SyncInv', SerialInv, NEW s \in Syncers, NEW how \in Ended,
         Running(s), Leave(s, how), rows' = rows \/ rows' = [r \in Rows |-> View(s, r)]
  PROVE  SerialInv'
<1>1. Moved(s) /\ ~Running(s)'
  BY LeaveFacts
<1>2. AloneInv' /\ \A t \in Syncers : ~Running(t)'
  BY <1>1, NobodyLeft DEF SerialInv
<1>3. UniqueRows'
  <2>1. RowsInOrder(s)
    BY DEF SerialInv, RowInv
  <2>2. QED
    BY <2>1, ViewedRowsAreUnique DEF UniqueRows
<1>4. RowInv'
  BY <1>2, <1>3, AllRowsInOrderNext DEF RunningInOrder
<1>5. QED
  BY <1>2, <1>4 DEF SerialInv

LEMMA SerialGoesOn ==
  ASSUME TypeOK', SyncInv', AloneInv', NEW s \in Syncers,
         \A t \in Syncers \ {s} : ~Running(t)', RowsInOrder(s)', UniqueRows'
  PROVE  SerialInv'
<1>1. RunningInOrder'
  BY DEF RunningInOrder
<1>2. QED
  BY <1>1, AllRowsInOrderNext DEF SerialInv

LEMMA SerialTurns ==
  ASSUME TypeOK, TypeOK', SyncInv', SerialInv, NEW s \in Syncers, NEW more \in BOOLEAN,
         Running(s), sync[s].query <= LastQuery, sync' = Onward(s, more),
         UNCHANGED <<rows, work>>
  PROVE  SerialInv'
<1>1. Moved(s) /\ sync'[s].at = "fetch" /\ sync'[s].todo = Nothing
  BY OnwardFacts
<1>2. AloneInv' /\ \A t \in Syncers \ {s} : ~Running(t)'
  BY <1>1, StillAlone DEF SerialInv
<1>3. Todo(s)' = {}
  BY <1>1 DEF Todo, Nothing
<1>4. RowsInOrder(s)' /\ UniqueRows'
  BY <1>1, <1>3, TablesStay DEF SerialInv, RowInv
<1>5. QED
  BY <1>2, <1>4, SerialGoesOn

LEMMA SerialWrites ==
  ASSUME TypeOK, TypeOK', SyncInv, SyncInv', BehindInv, SerialInv,
         NEW s \in Syncers, Write(s), ~Rollback(s)
  PROVE  SerialInv'
<1> DEFINE r == sync[s].row
           i == r[1]
           value == Written(s, r, Linked(s, i))
<1>1. /\ sync[s].at = "write" /\ rows' = rows
      /\ \A p \in Rows : View(s, p)' = IF p = r THEN value ELSE View(s, p)
      /\ Moved(s) /\ sync'[s].at = "load"
      /\ sync'[s].todo = [sync[s].todo EXCEPT ![i] = "absent"]
  BY WriteFacts
<1>2. RowsInOrder(s) /\ sync[s].was = View(s, r) /\ OnlyRow(s, r)
  BY <1>1 DEF SerialInv, RowInv, RowsInOrder
<1>3. /\ r \in Rows /\ i \in Items /\ i \in Todo(s)
      /\ sync[s].todo[i] \in Status /\ value.st = sync[s].todo[i]
  <2>1. Linked(s, i) \in BOOLEAN
    BY DEF Linked, Known
  <2>2. QED
    BY <1>1, <1>2, <2>1, WrittenFacts DEF SyncInv, InOrder
<1> HIDE DEF value
<1>4. Running(s)
  BY <1>1 DEF Running, Active
<1>5. AloneInv' /\ \A t \in Syncers \ {s} : ~Running(t)'
  BY <1>1, <1>4, StillAlone DEF SerialInv
<1>6. ASSUME NEW p \in Rows, View(s, p)' # NoRow PROVE OnlyRow(s, p)'
  <2>1. SUFFICES ASSUME NEW z \in Rows, z[1] = p[1], View(s, z)' # NoRow PROVE z = p
    BY DEF OnlyRow
  <2>2. View(s, p) # NoRow \/ p = r
    BY <1>1, <1>6
  <2>3. View(s, z) # NoRow \/ z = r
    BY <1>1, <2>1
  <2>4. QED
    BY <1>2, <1>3, <2>1, <2>2, <2>3 DEF OnlyRow, RowsInOrder
<1>7. ASSUME NEW p \in Rows PROVE <<rows[p].st, View(s, p)'.st>> \in AtMost
  <2>1. CASE p # r
    BY <1>1, <1>2, <2>1 DEF RowsInOrder
  <2>2. CASE p = r
    <3>1. <<rows[r].st, View(s, r).st>> \in AtMost /\ <<View(s, r).st, sync[s].todo[i]>> \in AtMost
      BY <1>2, <1>3 DEF RowsInOrder
    <3>2. rows[r].st \in Status /\ View(s, r).st \in Status
      BY <3>1, AtMostIsAnOrder
    <3>3. <<rows[r].st, sync[s].todo[i]>> \in AtMost
      BY <1>3, <3>1, <3>2, AtMostIsAnOrder
    <3>4. QED
      BY <1>1, <1>3, <2>2, <3>3
  <2>3. QED
    BY <2>1, <2>2
<1>8. ASSUME NEW p \in Rows, p[1] \in Todo(s)'
      PROVE  <<View(s, p)'.st, sync'[s].todo[p[1]]>> \in AtMost
  <2>1. sync[s].todo \in [Items -> Status] /\ p[1] \in Items
    BY StateFacts, TableFacts
  <2>2. p[1] # i /\ sync'[s].todo[p[1]] = sync[s].todo[p[1]] /\ p[1] \in Todo(s)
    BY <1>1, <1>8, <2>1 DEF Todo
  <2>3. View(s, p)' = View(s, p)
    BY <1>1, <2>2
  <2>4. QED
    BY <1>2, <2>2, <2>3 DEF RowsInOrder
<1>9. RowsInOrder(s)'
  BY <1>1, <1>6, <1>7, <1>8 DEF RowsInOrder
<1>10. UniqueRows'
  BY <1>1, <1>2, ViewedRowsAreUnique DEF UniqueRows
<1>11. QED
  BY <1>5, <1>9, <1>10, SerialGoesOn

LEMMA SerialStep ==
  ASSUME Overlap = FALSE, TypeOK, TypeOK', SyncInv, SyncInv', BehindInv, SerialInv, [Next]_vars
  PROVE  SerialInv'
<1>1. ASSUME NEW s \in Syncers, Start(s) PROVE SerialInv'
  <2>1. /\ \A t \in Syncers : ~Running(t)
        /\ sync' = [sync EXCEPT ![s] = [Asleep EXCEPT !.at = "fetch"]]
        /\ UNCHANGED <<rows, work>>
    BY <1>1 DEF Start
  <2>2. sync'[s].at = "fetch" /\ sync'[s].todo = Nothing /\ Moved(s)
    BY <2>1 DEF TypeOK, Moved, Asleep
  <2>3. Todo(s)' = {}
    BY <2>2 DEF Todo, Nothing
  <2>4. RowsInOrder(s)' /\ UniqueRows'
    BY <2>1, <2>2, <2>3, TablesStay DEF SerialInv, RowInv
  <2>5. \A t \in Syncers \ {s} : ~Running(t)'
    BY <2>1, <2>2 DEF Moved, Running
  <2>6. AloneInv'
    BY <2>5 DEF AloneInv
  <2>7. QED
    BY <2>4, <2>5, <2>6, SerialGoesOn
<1>2. ASSUME NEW s \in Syncers, FetchPage(s) PROVE SerialInv'
  <2> DEFINE page == OnPage(sync[s].query, sync[s].page)
  <2>1. /\ UNCHANGED <<remote, rows, work>>
        /\ sync[s].at = "fetch" /\ sync[s].query \in 1..LastQuery
        /\ \/ sync' = Onward(s, FALSE)
           \/ /\ Moved(s) /\ sync'[s].at = "load"
              /\ sync'[s].todo = [i \in Items |-> IF i \in page THEN remote[i] ELSE "absent"]
    BY <1>2, FetchFacts
  <2>2. Running(s) /\ sync[s].query <= LastQuery
    BY <2>1, ListFacts DEF Running, Active
  <2>3. CASE sync' = Onward(s, FALSE)
    BY <2>1, <2>2, <2>3, SerialTurns
  <2>4. CASE sync' # Onward(s, FALSE)
    <3>1. AloneInv' /\ \A t \in Syncers \ {s} : ~Running(t)'
      BY <2>1, <2>2, <2>4, StillAlone DEF SerialInv
    <3>2. ASSUME NEW r \in Rows, r[1] \in Todo(s)'
          PROVE  <<View(s, r).st, sync'[s].todo[r[1]]>> \in AtMost
      <4>1. r[1] \in Items /\ sync'[s].todo[r[1]] # "absent"
        BY <3>2, TableFacts DEF Todo
      <4>2. sync'[s].todo[r[1]] = remote[r[1]]
        BY <2>1, <2>4, <4>1
      <4>3. QED
        BY <4>2, ViewIsBehind
    <3>3. RowsInOrder(s)' /\ UniqueRows'
      BY <2>1, <2>4, <3>2, TablesStay DEF SerialInv, RowInv
    <3>4. QED
      BY <3>1, <3>3, SerialGoesOn
  <2>5. QED
    BY <2>3, <2>4
<1>3. ASSUME NEW s \in Syncers, FetchFails(s) PROVE SerialInv'
  <2>1. /\ Running(s) /\ sync[s].query <= LastQuery
        /\ \/ sync' = Onward(s, FALSE) /\ UNCHANGED <<rows, work>>
           \/ Commit(s, "partial")
    BY <1>3 DEF FetchFails, Fetching, Running, Active
  <2>2. CASE sync' = Onward(s, FALSE) /\ UNCHANGED <<rows, work>>
    BY <2>1, <2>2, SerialTurns
  <2>3. CASE Commit(s, "partial")
    BY <2>1, <2>3, CommitFacts, SerialLeaves DEF Ended
  <2>4. QED
    BY <2>1, <2>2, <2>3
<1>4. ASSUME NEW s \in Syncers, Running(s), Rollback(s) PROVE SerialInv'
  BY <1>4, RollbackFacts, SerialLeaves
<1>5. ASSUME NEW s \in Syncers, Load(s) PROVE SerialInv'
  <2>1. Running(s)
    BY <1>5 DEF Load, Running, Active
  <2>2. CASE Rollback(s)
    BY <1>4, <2>1, <2>2
  <2>3. CASE ~Rollback(s)
    <3>1. /\ UNCHANGED <<rows, work>> /\ Moved(s) /\ sync'[s].todo = sync[s].todo
          /\ sync'[s].was = View(s, sync'[s].row) /\ OnlyRow(s, sync'[s].row)
      BY <1>5, <2>3, LoadFacts
    <3>2. AloneInv' /\ \A t \in Syncers \ {s} : ~Running(t)'
      BY <2>1, <3>1, StillAlone DEF SerialInv
    <3>3. Todo(s)' = Todo(s) /\ RowsInOrder(s)
      BY <3>1 DEF Todo, SerialInv, RowInv
    <3>4. \A r \in Rows : r[1] \in Todo(s)' =>
            <<View(s, r).st, sync'[s].todo[r[1]]>> \in AtMost
      BY <3>1, <3>3 DEF RowsInOrder
    <3>5. RowsInOrder(s)' /\ UniqueRows'
      BY <3>1, <3>3, <3>4, TablesStay
    <3>6. QED
      BY <3>2, <3>5, SerialGoesOn
  <2>4. QED
    BY <2>2, <2>3
<1>6. ASSUME NEW s \in Syncers, Write(s) PROVE SerialInv'
  <2>1. Running(s)
    BY <1>6 DEF Write, Running, Active
  <2>2. QED
    BY <1>4, <1>6, <2>1, SerialWrites
<1>7. ASSUME NEW s \in Syncers, Turn(s) PROVE SerialInv'
  <2>1. /\ sync[s].at = "load" /\ sync' = Onward(s, sync[s].more)
        /\ UNCHANGED <<rows, work>>
    BY <1>7 DEF Turn
  <2>2. sync[s].more \in BOOLEAN /\ sync[s].query <= LastQuery /\ Running(s)
    BY <2>1, StateFacts DEF SyncInv, InOrder
  <2>3. QED
    BY <2>1, <2>2, SerialTurns
<1>8. ASSUME NEW s \in Syncers, Complete(s) PROVE SerialInv'
  <2>1. Running(s) /\ Commit(s, "completed")
    BY <1>8 DEF Complete, Running, Active
  <2>2. QED
    BY <2>1, CommitFacts, SerialLeaves DEF Ended
<1>9. ASSUME NEW s \in Syncers, DeadlockVictim(s) PROVE SerialInv'
  <2>1. Running(s) /\ Rollback(s)
    BY <1>9 DEF DeadlockVictim, WaitsFor, Writing, Running, Active
  <2>2. QED
    BY <1>4, <2>1
<1>10. ASSUME NEW s \in Syncers, Dies(s) PROVE SerialInv'
  BY <1>4, <1>10 DEF Dies
<1>11. ASSUME UNCHANGED <<rows, work, sync>> PROVE SerialInv'
  <2>1. AloneInv'
    BY <1>11 DEF SerialInv, AloneInv, Running
  <2>2. RowInv'
    BY <1>11 DEF SerialInv, RowInv, RowsInOrder, OnlyRow, View, Todo
  <2>3. QED
    BY <2>1, <2>2 DEF SerialInv
<1>12. ASSUME NEW i \in Items, RemoteMove(i) PROVE SerialInv'
  BY <1>11, <1>12 DEF RemoteMove
<1>13. CASE UNCHANGED vars
  BY <1>11, <1>13 DEF vars
<1>14. QED
  BY <1>1, <1>2, <1>3, <1>5, <1>6, <1>7, <1>8, <1>9, <1>10, <1>12, <1>13 DEF Next, SyncStep

Inv == TypeOK /\ SyncInv /\ BehindInv /\ SerialInv

LEMMA InvHolds == Overlap = FALSE => (Spec => []Inv)
<1> SUFFICES ASSUME Overlap = FALSE PROVE Spec => []Inv
  OBVIOUS
<1>1. Init => Inv
  BY TypesInitially, BehindInitially, SerialInitially DEF Inv
<1>2. Inv /\ [Next]_vars => Inv'
  BY TypesStep, BehindStep, SerialStep DEF Inv
<1>3. QED
  BY <1>1, <1>2, PTL DEF Spec

-----------------------------------------------------------------------------
(* The tables implement the mirror: a commit refreshes it, a change in      *)
(* Lexware moves its source, and every other step leaves both alone.        *)
ShowsARow ==
  \A i \in Items : \/ RowsOf(i) = {} /\ shown[i] = "absent"
                   \/ \E r \in RowsOf(i) : shown[i] = rows[r].st

LEMMA ShownComesFromARow == ShowsARow
<1> SUFFICES ASSUME NEW i \in Items
             PROVE  \/ RowsOf(i) = {} /\ shown[i] = "absent"
                    \/ \E r \in RowsOf(i) : shown[i] = rows[r].st
  BY DEF ShowsARow
<1>1. CASE RowsOf(i) = {}
  BY <1>1 DEF shown
<1>2. CASE RowsOf(i) # {}
  <2>1. (CHOOSE r \in RowsOf(i) : TRUE) \in RowsOf(i)
    BY <1>2
  <2>2. shown[i] = rows[CHOOSE r \in RowsOf(i) : TRUE].st
    BY <1>2 DEF shown
  <2>3. QED
    BY <2>1, <2>2
<1>3. QED
  BY <1>1, <1>2

LEMMA ShownComesFromARowNext == ShowsARow'
BY ShownComesFromARow, PTL

ShownInv ==
  /\ shown \in [Items -> Status]
  /\ \A i \in Items : <<shown[i], remote[i]>> \in AtMost

LEMMA ShownIsBehind ==
  ASSUME TypeOK, BehindInv
  PROVE  /\ shown \in [Items -> Status]
         /\ \A i \in Items : <<shown[i], remote[i]>> \in AtMost
<1>1. ASSUME NEW i \in Items PROVE shown[i] \in Status /\ <<shown[i], remote[i]>> \in AtMost
  <2>1. remote[i] \in Status
    BY DEF TypeOK
  <2>2. CASE RowsOf(i) = {}
    <3>1. shown[i] = "absent"
      BY <2>2 DEF shown
    <3>2. QED
      BY <2>1, <3>1, AtMostIsAnOrder DEF Status
  <2>3. CASE RowsOf(i) # {}
    <3>1. PICK r \in RowsOf(i) : shown[i] = rows[r].st
      BY <2>3, ShownComesFromARow DEF ShowsARow
    <3>2. r \in Rows /\ r[1] = i
      BY <3>1 DEF RowsOf
    <3>3. rows[r].st \in Status /\ <<rows[r].st, remote[i]>> \in AtMost
      BY <3>2 DEF TypeOK, RowValue, BehindInv, NeverAhead
    <3>4. QED
      BY <3>1, <3>3
  <2>4. QED
    BY <2>2, <2>3
<1>2. shown = [i \in Items |-> shown[i]]
  BY DEF shown
<1>3. QED
  BY <1>1, <1>2

LEMMA ShownIsBehindNext == (TypeOK /\ BehindInv)' => ShownInv'
<1>1. TypeOK /\ BehindInv => ShownInv
  BY ShownIsBehind DEF ShownInv
<1>2. QED
  BY <1>1, PTL

LEMMA CommitRefreshes ==
  ASSUME Inv, Inv', NEW s \in Syncers, NEW how \in Ended, Commit(s, how)
  PROVE  Shown!Refresh
<1>1. /\ remote' = remote /\ rows' = [r \in Rows |-> View(s, r)]
  BY CommitFacts DEF Inv, Leave
<1>2. RowsInOrder(s) /\ remote \in [Items -> Status]
  BY DEF Inv, SerialInv, RowInv, TypeOK
<1>3. /\ shown' \in [Items -> Status]
      /\ \A i \in Items : <<shown'[i], remote[i]>> \in AtMost
  BY <1>1, ShownIsBehindNext DEF Inv, ShownInv
<1>4. ASSUME NEW i \in Items PROVE <<shown[i], shown'[i]>> \in AtMost
  <2>1. CASE RowsOf(i) = {}
    <3>1. shown[i] = "absent"
      BY <2>1 DEF shown
    <3>2. QED
      BY <1>3, <3>1, AtMostIsAnOrder
  <2>2. CASE RowsOf(i) # {}
    <3>1. PICK r \in RowsOf(i) : shown[i] = rows[r].st
      BY <2>2, ShownComesFromARow DEF ShowsARow
    <3>2. r \in Rows /\ r[1] = i /\ View(s, r) # NoRow /\ rows'[r] = View(s, r)
      BY <1>1, <3>1 DEF RowsOf, View
    <3>3. r \in RowsOf(i)'
      BY <3>2 DEF RowsOf
    <3>4. PICK z \in RowsOf(i)' : shown'[i] = rows'[z].st
      BY <3>3, ShownComesFromARowNext DEF ShowsARow
    <3>5. z \in Rows /\ z[1] = i /\ View(s, z) # NoRow
      BY <1>1, <3>4 DEF RowsOf
    <3>6. z = r
      BY <1>2, <3>2, <3>5, ViewedRowsAreUnique
    <3>7. <<rows[r].st, View(s, r).st>> \in AtMost
      BY <1>2, <3>2 DEF RowsInOrder
    <3>8. QED
      BY <3>1, <3>2, <3>4, <3>6, <3>7
  <2>3. QED
    BY <2>1, <2>2
<1>5. QED
  BY <1>1, <1>3, <1>4 DEF Shown!Refresh

LEMMA MirrorStep ==
  ASSUME Inv, Inv', [Next]_vars
  PROVE  [Shown!MirrorNext]_<<remote, shown>>
<1>1. ASSUME UNCHANGED <<remote, rows>> PROVE UNCHANGED <<remote, shown>>
  BY <1>1 DEF shown, RowsOf
<1>2. ASSUME NEW s \in Syncers, Rollback(s) PROVE UNCHANGED <<remote, rows>>
  BY <1>2 DEF Rollback, Leave
<1>3. ASSUME NEW s \in Syncers, SyncStep(s), ~Complete(s) PROVE UNCHANGED <<remote, rows>>
  <2>1. CASE FetchPage(s)
    BY <2>1 DEF FetchPage
  <2>2. CASE Load(s)
    BY <1>2, <2>2 DEF Load
  <2>3. CASE Write(s)
    BY <1>2, <2>3 DEF Write
  <2>4. CASE Turn(s)
    BY <2>4 DEF Turn
  <2>5. CASE DeadlockVictim(s)
    BY <1>2, <2>5 DEF DeadlockVictim
  <2>6. QED
    BY <1>3, <2>1, <2>2, <2>3, <2>4, <2>5 DEF SyncStep
<1>4. ASSUME NEW s \in Syncers, Complete(s) PROVE Shown!Refresh
  BY <1>4, CommitRefreshes DEF Complete, Ended
<1>5. ASSUME NEW s \in Syncers, FetchFails(s)
      PROVE  Shown!Refresh \/ UNCHANGED <<remote, rows>>
  BY <1>5, CommitRefreshes DEF FetchFails, Ended
<1>6. ASSUME NEW s \in Syncers, Start(s) \/ Dies(s) PROVE UNCHANGED <<remote, rows>>
  BY <1>2, <1>6 DEF Start, Dies
<1>7. ASSUME NEW i \in Items, RemoteMove(i) PROVE Shown!SourceMoves
  <2>1. PICK t \in Status :
          /\ <<remote[i], t>> \in Moves[Kind[i]] /\ remote' = [remote EXCEPT ![i] = t]
          /\ rows' = rows
    BY <1>7 DEF RemoteMove
  <2>2. <<remote[i], t>> \in AtMost
    <3>1. Kind[i] \in Kinds
      BY ItemsAssumption
    <3>2. QED
      BY <2>1, <3>1, MovesFacts
  <2>3. shown' = shown
    BY <2>1 DEF shown, RowsOf
  <2>4. remote \in [Items -> Status]
    BY DEF Inv, TypeOK
  <2>5. /\ remote' \in [Items -> Status]
        /\ \A j \in Items : <<remote[j], remote'[j]>> \in AtMost
    BY <2>1, <2>2, <2>4, AtMostIsAnOrder
  <2>6. QED
    BY <2>3, <2>5 DEF Shown!SourceMoves
<1>8. CASE UNCHANGED vars
  BY <1>1, <1>8 DEF vars
<1>9. QED
  BY <1>1, <1>3, <1>4, <1>5, <1>6, <1>7, <1>8 DEF Next, Shown!MirrorNext

(* While syncs do not overlap, the tables implement the mirror: what they   *)
(* show of an item only moves forward and is never ahead of Lexware, through*)
(* failed requests, deaths and syncs that commit half of what they read.    *)
THEOREM ImplementsMirror == Overlap = FALSE => (Spec => MirrorSpec)
<1> SUFFICES ASSUME Overlap = FALSE PROVE Spec => MirrorSpec
  OBVIOUS
<1>1. Init => Shown!MirrorInit
  <2> SUFFICES ASSUME Init PROVE Shown!MirrorInit
    OBVIOUS
  <2>1. TypeOK /\ BehindInv
    BY TypesInitially, BehindInitially
  <2>2. QED
    BY <2>1, ShownIsBehind DEF TypeOK, Shown!MirrorInit
<1>2. Inv /\ Inv' /\ [Next]_vars => [Shown!MirrorNext]_<<remote, shown>>
  BY MirrorStep
<1>3. Spec => []Inv
  BY InvHolds
<1>4. QED
  BY <1>1, <1>2, <1>3, PTL DEF Spec, MirrorSpec, Shown!MirrorSpec

-----------------------------------------------------------------------------
(* Pages: no page is empty while a later one is not.                        *)
LEMMA SmallestOfSome ==
  ASSUME NEW T, T \subseteq Nat, T # {}
  PROVE  \E x \in T : \A y \in T : x <= y
<1> DEFINE R == {ss \in Nat \X Nat : ss[1] < ss[2]}
<1>1. IsWellFoundedOn(R, Nat)
  BY NatLessThanWellFounded DEF OpToRel
<1>2. \A a, b \in Nat : <<a, b>> \in R <=> a < b
  OBVIOUS
<1> HIDE DEF R
<1>3. PICK x \in T : \A y \in T : ~(<<y, x>> \in R)
  BY <1>1, WFMin
<1>4. \A y \in T : ~(y < x)
  BY <1>2, <1>3
<1>5. QED
  BY <1>4

LEMMA PageOfRank ==
  ASSUME NEW d \in Nat \ {0}, NEW n \in Nat, NEW p \in Nat
  PROVE  n \div d \in Nat /\ (n >= d * p <=> n \div d >= p)
<1>1. n \div d \in Nat /\ n % d \in Nat /\ n % d < d /\ n = d * (n \div d) + (n % d)
  OBVIOUS
<1>2. ASSUME NEW k \in Nat, NEW m \in Nat, m < d, n = d * k + m
      PROVE  n >= d * p <=> k >= p
  <2>1. ASSUME k >= p PROVE n >= d * p
    <3>1. d * k >= d * p /\ d * p \in Nat /\ d * k \in Nat
      BY <2>1
    <3>2. QED
      BY <1>2, <3>1
  <2>2. ASSUME k < p PROVE n < d * p
    <3>1. d * p >= d * (k + 1)
      BY <2>2
    <3>2. d * (k + 1) = d * k + d /\ d * k \in Nat /\ d * p \in Nat
      OBVIOUS
    <3>3. QED
      BY <1>2, <3>1, <3>2
  <2>3. QED
    BY <2>1, <2>2
<1>3. QED
  BY <1>1, <1>2

Before(i, q) == {j \in Listed(q) : Order[j] < Order[i]}

LEMMA RankFacts ==
  ASSUME NEW q, NEW i \in Items
  PROVE  /\ Rank(i, q) \in Nat /\ Rank(i, q) = Cardinality(Before(i, q))
         /\ IsFiniteSet(Before(i, q)) /\ Before(i, q) \subseteq Listed(q)
         /\ Listed(q) \subseteq Items
<1>1. Before(i, q) \subseteq Items /\ Before(i, q) \subseteq Listed(q) /\ Listed(q) \subseteq Items
  BY DEF Before, Listed
<1>2. IsFiniteSet(Before(i, q))
  BY <1>1, ItemsAssumption, FS_Subset
<1>3. QED
  BY <1>1, <1>2, FS_CardinalityType DEF Rank, Before

(* The items before an item are those before the last of them, and that one.*)
LEMMA RankSucceeds ==
  ASSUME NEW q, NEW i \in Listed(q), Before(i, q) # {}
  PROVE  \E m \in Before(i, q) : Rank(i, q) = Rank(m, q) + 1
<1>1. /\ Order \in [Items -> Nat] /\ i \in Items /\ Before(i, q) \subseteq Items
      /\ \A j, k \in Items : Order[j] = Order[k] => j = k
  BY ItemsAssumption, RankFacts DEF Listed
<1> DEFINE T == {Order[i] - Order[j] : j \in Before(i, q)}
<1>2. T \subseteq Nat /\ T # {}
  <2>1. \A j \in Before(i, q) : Order[i] - Order[j] \in Nat
    BY <1>1 DEF Before
  <2>2. QED
    BY <2>1
<1>3. PICK x \in T : \A y \in T : x <= y
  BY <1>2, SmallestOfSome
<1>4. PICK m \in Before(i, q) : x = Order[i] - Order[m]
  BY <1>3
<1>5. \A j \in Before(i, q) : Order[j] <= Order[m]
  <2>1. ASSUME NEW j \in Before(i, q) PROVE Order[j] <= Order[m]
    <3>1. Order[i] - Order[j] \in T /\ Order[i] - Order[m] <= Order[i] - Order[j]
      BY <1>3, <1>4
    <3>2. Order[i] \in Nat /\ Order[j] \in Nat /\ Order[m] \in Nat
      BY <1>1
    <3>3. QED
      BY <3>1, <3>2
  <2>2. QED
    BY <2>1
<1>6. m \in Listed(q) /\ m \in Items /\ Order[m] < Order[i]
  BY <1>1 DEF Before
<1>7. Before(i, q) = Before(m, q) \cup {m} /\ m \notin Before(m, q)
  <2>1. ASSUME NEW j \in Before(i, q), j # m PROVE j \in Before(m, q)
    <3>1. j \in Items /\ Order[j] # Order[m] /\ Order[j] <= Order[m] /\ j \in Listed(q)
      BY <1>1, <1>5, <1>6, <2>1 DEF Before
    <3>2. Order[j] \in Nat /\ Order[m] \in Nat
      BY <1>1, <1>6, <3>1
    <3>3. QED
      BY <3>1, <3>2 DEF Before
  <2>2. ASSUME NEW j \in Before(m, q) PROVE j \in Before(i, q)
    <3>1. j \in Listed(q) /\ j \in Items /\ Order[j] < Order[m]
      BY DEF Before, Listed
    <3>2. Order[j] \in Nat /\ Order[m] \in Nat /\ Order[i] \in Nat
      BY <1>1, <1>6, <3>1
    <3>3. QED
      BY <1>6, <3>1, <3>2 DEF Before
  <2>3. m \notin Before(m, q)
    BY <1>1, <1>6 DEF Before
  <2>4. QED
    BY <2>1, <2>2, <2>3
<1>8. IsFiniteSet(Before(m, q)) /\ Cardinality(Before(m, q)) = Rank(m, q)
  BY <1>6, RankFacts
<1>9. Cardinality(Before(i, q)) = Rank(m, q) + 1
  BY <1>7, <1>8, FS_AddElement
<1>10. QED
  BY <1>1, <1>9, RankFacts

LEMMA NoEmptyPageBetween ==
  ASSUME NEW q, NEW p \in Nat, NEW i \in Listed(q), Rank(i, q) >= PageSize * p
  PROVE  OnPage(q, p) # {}
<1>1. PageSize \in Nat \ {0} /\ PageSize * p \in Nat /\ Order \in [Items -> Nat]
  BY BoundsAssumption, ItemsAssumption
<1> DEFINE Late == {j \in Listed(q) : Rank(j, q) >= PageSize * p}
           T == {Order[j] : j \in Late}
<1>2. T \subseteq Nat /\ T # {}
  BY <1>1 DEF Listed
<1>3. PICK x \in T : \A y \in T : x <= y
  BY <1>2, SmallestOfSome
<1>4. PICK j \in Late : x = Order[j]
  BY <1>3
<1>5. j \in Items /\ j \in Listed(q) /\ Rank(j, q) \in Nat /\ Rank(j, q) >= PageSize * p
  BY RankFacts DEF Listed
<1>6. Rank(j, q) <= PageSize * p
  <2>1. CASE Before(j, q) = {}
    <3>1. Rank(j, q) = 0
      BY <1>5, <2>1, RankFacts, FS_EmptySet
    <3>2. QED
      BY <1>1, <3>1
  <2>2. CASE Before(j, q) # {}
    <3>1. PICK m \in Before(j, q) : Rank(j, q) = Rank(m, q) + 1
      BY <1>5, <2>2, RankSucceeds
    <3>2. m \in Listed(q) /\ m \in Items /\ Order[m] < Order[j]
      BY DEF Before, Listed
    <3>3. m \notin Late
      <4>1. SUFFICES ASSUME m \in Late PROVE FALSE
        OBVIOUS
      <4>2. Order[j] <= Order[m]
        BY <1>3, <1>4, <4>1
      <4>3. Order[j] \in Nat /\ Order[m] \in Nat
        BY <1>1, <1>5, <3>2
      <4>4. QED
        BY <3>2, <4>2, <4>3
    <3>4. Rank(m, q) < PageSize * p /\ Rank(m, q) \in Nat
      <4>1. Rank(m, q) \in Nat
        BY <3>2, RankFacts
      <4>2. QED
        BY <1>1, <3>2, <3>3, <4>1
    <3>5. QED
      BY <1>1, <3>1, <3>4
  <2>3. QED
    BY <2>1, <2>2
<1>7. Rank(j, q) \div PageSize = p
  <2>1. /\ Rank(j, q) \div PageSize \in Nat /\ Rank(j, q) \div PageSize >= p
    BY <1>1, <1>5, PageOfRank
  <2>2. ~(Rank(j, q) >= PageSize * (p + 1))
    <3>1. PageSize * (p + 1) = PageSize * p + PageSize
      BY <1>1
    <3>2. QED
      BY <1>1, <1>5, <1>6, <3>1
  <2>3. ~(Rank(j, q) \div PageSize >= p + 1)
    BY <1>1, <1>5, <2>2, PageOfRank
  <2>4. QED
    BY <2>1, <2>3
<1>8. QED
  BY <1>5, <1>7 DEF OnPage

-----------------------------------------------------------------------------
(* What stays as it is while a sync runs is written as it is.               *)
LEMMA OnSomeList ==
  ASSUME TypeOK, LifeInv, NEW i \in Items, Everlisted(i)
  PROVE  \E q \in 1..LastQuery : i \in Listed(q)
<1>1. PICK t \in Status : <<t, remote[i]>> \in Moves[Kind[i]]
  BY DEF LifeInv, Everlisted
<1>2. Kind[i] \in Kinds /\ remote[i] \in Status /\ remote[i] # "voided"
  BY ItemsAssumption DEF TypeOK, Everlisted
<1>3. PICK q \in 1..LastQuery : Lists[q].kind = Kind[i] /\ remote[i] \in Lists[q].of
  BY <1>1, <1>2, MovesFacts
<1>4. QED
  BY <1>3 DEF Listed

LEMMA SeesTheSame ==
  ASSUME NEW s, NEW i, UNCHANGED <<remote, rows, work, steady>>
  PROVE  /\ Fresh(s, i)' <=> Fresh(s, i)
         /\ Steady(s, i)' <=> Steady(s, i)
         /\ \A q : Listed(q)' = Listed(q) /\ Rank(i, q)' = Rank(i, q)
<1>1. \A j : Steady(s, j)' <=> Steady(s, j)
  BY DEF Steady, Everlisted
<1>2. HasCustomer(s, i)' <=> HasCustomer(s, i)
  BY <1>1 DEF HasCustomer
<1>3. \A r : View(s, r)' = View(s, r)
  BY DEF View
<1>4. Fresh(s, i)' <=> Fresh(s, i)
  BY <1>2, <1>3 DEF Fresh
<1>5. \A q : Listed(q)' = Listed(q)
  BY DEF Listed
<1>6. \A q : Rank(i, q)' = Rank(i, q)
  BY <1>5 DEF Rank
<1>7. QED
  BY <1>1, <1>4, <1>5, <1>6

LEMMA FreshWhileAlone ==
  ASSUME LifeInv', NEW s \in Syncers, \A t \in Syncers \ {s} : ~Running(t)',
         Running(s)' => \A i \in steady'[s] : Caught(s, i)'
  PROVE  FreshInv'
BY DEF FreshInv

LEMMA LifeGoesOn == ASSUME LifeInv, UNCHANGED remote PROVE LifeInv'
BY DEF LifeInv

Later(s, i, more) ==
  \E q \in sync[s].query..LastQuery :
    /\ i \in Listed(q)
    /\ q = sync[s].query => more /\ Rank(i, q) >= PageSize * (sync[s].page + 1)

LEMMA FreshTurns ==
  ASSUME Inv, FreshInv, NEW s \in Syncers, NEW more \in BOOLEAN, Running(s),
         sync[s].query <= LastQuery, sync' = Onward(s, more),
         UNCHANGED <<remote, rows, work, steady, alone>>,
         \A i \in steady[s] : Steady(s, i) => Fresh(s, i) \/ Later(s, i, more)
  PROVE  FreshInv'
<1>1. TypeOK /\ AloneInv /\ LifeInv
  BY DEF Inv, SerialInv, FreshInv
<1>2. /\ Moved(s) /\ sync'[s].at = "fetch" /\ sync'[s].todo = Nothing
      /\ sync'[s].query = IF more THEN sync[s].query ELSE sync[s].query + 1
      /\ sync'[s].page = IF more THEN sync[s].page + 1 ELSE 0
  BY <1>1, OnwardFacts
<1>3. \A t \in Syncers \ {s} : ~Running(t)'
  BY <1>1, <1>2, StillAlone
<1>4. ASSUME NEW i \in steady[s] PROVE Caught(s, i)'
  <2>1. Todo(s)' = {} /\ i \in Items
    BY <1>1, <1>2 DEF Todo, Nothing, TypeOK
  <2>2. ASSUME Steady(s, i), Later(s, i, more) PROVE Ahead(s, i)'
    <3>1. PICK q \in sync[s].query..LastQuery :
            /\ i \in Listed(q)
            /\ q = sync[s].query => more /\ Rank(i, q) >= PageSize * (sync[s].page + 1)
      BY <2>2 DEF Later
    <3>2. /\ sync[s].query \in Nat /\ sync[s].page \in Nat /\ LastQuery \in Nat
          /\ PageSize \in Nat /\ Rank(i, q) \in Nat
      BY <1>1, <2>1, StateFacts, ListFacts, BoundsAssumption, RankFacts
    <3>3. i \in Listed(q)' /\ Rank(i, q)' = Rank(i, q)
      BY <3>1, SeesTheSame
    <3>4. CASE more
      BY <1>2, <3>1, <3>2, <3>3, <3>4 DEF Ahead
    <3>5. CASE ~more
      <4>1. q \in sync'[s].query..LastQuery
        BY <1>2, <3>1, <3>2, <3>5
      <4>2. PageSize * 0 = 0
        BY <3>2
      <4>3. Rank(i, q)' >= PageSize * sync'[s].page
        BY <1>2, <3>2, <3>3, <3>5, <4>2
      <4>4. QED
        BY <1>2, <3>3, <4>1, <4>3 DEF Ahead
    <3>6. QED
      BY <3>4, <3>5
  <2>3. Steady(s, i)' => Fresh(s, i)' \/ Ahead(s, i)'
    BY <2>2, SeesTheSame
  <2>4. QED
    BY <2>1, <2>3 DEF Caught
<1>5. QED
  BY <1>1, <1>3, <1>4, LifeGoesOn, FreshWhileAlone

LEMMA FreshLeaves ==
  ASSUME Inv, FreshInv, NEW s \in Syncers, NEW how \in Ended, Running(s), Leave(s, how)
  PROVE  FreshInv'
<1>1. Moved(s) /\ ~Running(s)' /\ remote' = remote
  BY LeaveFacts DEF Inv
<1>2. \A t \in Syncers : ~Running(t)'
  BY <1>1, NobodyLeft DEF Inv, SerialInv
<1>3. QED
  BY <1>1, <1>2, LifeGoesOn DEF FreshInv

LEMMA FreshFetches ==
  ASSUME Inv, FreshInv, NEW s \in Syncers, FetchPage(s)
  PROVE  FreshInv'
<1> DEFINE q0 == sync[s].query
           p0 == sync[s].page
           page == OnPage(q0, p0)
<1>1. TypeOK /\ SyncInv /\ AloneInv /\ LifeInv
  BY DEF Inv, SerialInv, FreshInv
<1>2. /\ UNCHANGED <<remote, rows, work, steady, alone>>
      /\ sync[s].at = "fetch" /\ q0 \in 1..LastQuery
      /\ \/ page = {} /\ sync' = Onward(s, FALSE)
         \/ /\ page # {} /\ Moved(s)
            /\ sync'[s].at = "load" /\ sync'[s].query = q0 /\ sync'[s].page = p0
            /\ sync'[s].todo = [i \in Items |-> IF i \in page THEN remote[i] ELSE "absent"]
            /\ sync'[s].more = ~IsLast(q0, p0)
  BY <1>1, FetchFacts
<1>3. /\ Running(s) /\ q0 <= LastQuery /\ q0 \in Nat /\ p0 \in Nat
      /\ PageSize \in Nat \ {0} /\ LastQuery \in Nat
  BY <1>1, <1>2, ListFacts, StateFacts, BoundsAssumption DEF Running, Active
<1>4. Todo(s) = {}
  BY <1>1, <1>2 DEF SyncInv, InOrder, Todo, Nothing
<1>5. ASSUME NEW i \in steady[s], Steady(s, i), ~Fresh(s, i)
      PROVE  \E q \in q0..LastQuery : i \in Listed(q) /\ (q = q0 => Rank(i, q) >= PageSize * p0)
  BY <1>2, <1>3, <1>4, <1>5 DEF FreshInv, Caught, Ahead
<1>6. CASE page = {}
  <2>1. ASSUME NEW i \in steady[s], Steady(s, i), ~Fresh(s, i) PROVE Later(s, i, FALSE)
    <3>1. PICK q \in q0..LastQuery : i \in Listed(q) /\ (q = q0 => Rank(i, q) >= PageSize * p0)
      BY <1>5, <2>1
    <3>2. q # q0
      BY <1>3, <1>6, <3>1, NoEmptyPageBetween
    <3>3. QED
      BY <3>1, <3>2 DEF Later
  <2>2. QED
    BY <1>2, <1>3, <1>6, <2>1, FreshTurns
<1>7. CASE page # {}
  <2>1. \A t \in Syncers \ {s} : ~Running(t)'
    BY <1>1, <1>2, <1>3, <1>7, StillAlone
  <2>2. ASSUME NEW i \in steady[s] PROVE Caught(s, i)'
    <3>1. i \in Items /\ remote[i] \in Status
      BY <1>1 DEF TypeOK
    <3>2. i \in Todo(s)' => sync'[s].todo[i] = remote'[i]
      BY <1>2, <1>7, <3>1 DEF Todo
    <3>3. ASSUME Steady(s, i), ~Fresh(s, i) PROVE i \in Todo(s)' \/ Ahead(s, i)'
      <4>1. PICK q \in q0..LastQuery : i \in Listed(q) /\ (q = q0 => Rank(i, q) >= PageSize * p0)
        BY <1>5, <3>3
      <4>2. i \in Listed(q)' /\ Rank(i, q)' = Rank(i, q) /\ Rank(i, q) \in Nat
        BY <1>2, <3>1, <4>1, SeesTheSame, RankFacts
      <4>3. CASE q # q0
        BY <1>2, <1>7, <4>1, <4>2, <4>3 DEF Ahead
      <4>4. CASE q = q0 /\ i \in page
        <5>1. sync'[s].todo[i] = remote[i] /\ remote[i] # "absent"
          BY <1>2, <1>7, <3>1, <3>3, <4>4 DEF Steady, Everlisted
        <5>2. QED
          BY <3>1, <5>1 DEF Todo
      <4>5. CASE q = q0 /\ i \notin page
        <5>1. Rank(i, q) \div PageSize \in Nat /\ Rank(i, q) \div PageSize >= p0
          BY <1>3, <4>1, <4>2, <4>5, PageOfRank
        <5>2. Rank(i, q) \div PageSize # p0
          BY <4>1, <4>5 DEF OnPage
        <5>3. Rank(i, q) \div PageSize >= p0 + 1
          BY <1>3, <5>1, <5>2
        <5>4. Rank(i, q) >= PageSize * (p0 + 1)
          BY <1>3, <4>2, <5>3, PageOfRank
        <5>5. ~IsLast(q0, p0)
          <6>1. ~(Rank(i, q) \div PageSize <= p0)
            BY <1>3, <5>1, <5>2
          <6>2. QED
            BY <4>1, <4>5, <6>1 DEF IsLast
        <5>6. QED
          BY <1>2, <1>7, <4>1, <4>2, <4>5, <5>4, <5>5 DEF Ahead
      <4>6. QED
        BY <4>3, <4>4, <4>5
    <3>4. QED
      BY <1>2, <3>2, <3>3, SeesTheSame DEF Caught
  <2>3. QED
    BY <1>1, <1>2, <2>1, <2>2, LifeGoesOn, FreshWhileAlone
<1>8. QED
  BY <1>6, <1>7

LEMMA FreshLoads ==
  ASSUME Inv, FreshInv, NEW s \in Syncers, Load(s), ~Rollback(s)
  PROVE  FreshInv'
<1>1. TypeOK /\ AloneInv /\ LifeInv
  BY DEF Inv, SerialInv, FreshInv
<1>2. /\ UNCHANGED <<remote, rows, work, steady, alone>> /\ Moved(s)
      /\ sync[s].at = "load" /\ sync'[s].at = "write"
      /\ sync'[s].query = sync[s].query /\ sync'[s].page = sync[s].page
      /\ sync'[s].todo = sync[s].todo /\ sync'[s].more = sync[s].more
  BY <1>1, LoadFacts
<1>3. Running(s)
  BY <1>2 DEF Running, Active
<1>4. \A t \in Syncers \ {s} : ~Running(t)'
  BY <1>1, <1>2, <1>3, StillAlone
<1>5. ASSUME NEW i \in steady[s] PROVE Caught(s, i)'
  <2>1. Caught(s, i) /\ Todo(s)' = Todo(s)
    BY <1>2, <1>3 DEF FreshInv, Todo
  <2>2. Ahead(s, i) => Ahead(s, i)'
    BY <1>2, SeesTheSame DEF Ahead
  <2>3. QED
    BY <1>2, <2>1, <2>2, SeesTheSame DEF Caught
<1>6. QED
  BY <1>1, <1>2, <1>4, <1>5, LifeGoesOn, FreshWhileAlone

(* A steady customer was written before the first list of invoices began.   *)
LEMMA CustomersComeFirst ==
  ASSUME Inv, FreshInv, NEW s \in Syncers, sync[s].at = "write",
         NEW i \in Todo(s), i \in steady[s], HasCustomer(s, i)
  PROVE  Linked(s, i)
<1> DEFINE c == ContactOf[i]
<1>1. TypeOK /\ SyncInv
  BY DEF Inv
<1>2. /\ Kind[i] = "invoice" /\ c # NoItem /\ Steady(s, c) /\ c \in steady[s]
      /\ c \in Items /\ Kind[c] = "contact"
  <2>1. i \in Items /\ steady[s] \subseteq Items
    BY <1>1 DEF Todo, TypeOK
  <2>2. QED
    BY <2>1, ItemsAssumption DEF HasCustomer, Steady
<1>3. sync[s].query \in 1..LastQuery /\ Lists[sync[s].query].kind = "invoice"
  <2>1. sync[s].query \in 1..LastQuery + 1 /\ sync[s].query <= LastQuery /\ LastQuery \in Nat
    BY <1>1, StateFacts, ListFacts DEF SyncInv, InOrder
  <2>2. Lists[sync[s].query].kind = Kind[i]
    BY <1>1 DEF SyncInv, InOrder
  <2>3. QED
    BY <1>2, <2>1, <2>2
<1>4. Running(s)
  BY DEF Running, Active
<1>5. c \notin Todo(s)
  BY <1>1, <1>2, <1>3 DEF SyncInv, InOrder
<1>6. ~Ahead(s, c)
  <2>1. SUFFICES ASSUME NEW q \in sync[s].query..LastQuery, c \in Listed(q) PROVE FALSE
    BY DEF Ahead
  <2>2. Lists[q].kind = "contact" /\ q \in 1..LastQuery
    BY <1>2, <1>3, <2>1, ListFacts DEF Listed
  <2>3. q = 1 /\ sync[s].query = 1
    BY <1>3, <2>2, ListFacts
  <2>4. QED
    BY <1>3, <2>2, <2>3
<1>7. Fresh(s, c)
  BY <1>2, <1>4, <1>5, <1>6 DEF FreshInv, Caught
<1>8. Visible(s, c) # {}
  BY <1>7 DEF Fresh, Visible
<1>9. QED
  BY <1>2, <1>8 DEF Linked, Customers

LEMMA FreshWrites ==
  ASSUME Inv, FreshInv, NEW s \in Syncers, Write(s), ~Rollback(s)
  PROVE  FreshInv'
<1> DEFINE r == sync[s].row
           w == r[1]
           linked == Linked(s, w)
           value == Written(s, r, linked)
<1>1. TypeOK /\ SyncInv /\ AloneInv /\ LifeInv /\ RowsInOrder(s)
  BY DEF Inv, SerialInv, FreshInv, RowInv
<1>2. /\ sync[s].at = "write" /\ UNCHANGED <<remote, rows, steady, alone>>
      /\ \A p \in Rows : View(s, p)' = IF p = r THEN value ELSE View(s, p)
      /\ Moved(s) /\ sync'[s].at = "load" /\ sync'[s].query = sync[s].query
      /\ sync'[s].page = sync[s].page /\ sync'[s].more = sync[s].more
      /\ sync'[s].todo = [sync[s].todo EXCEPT ![w] = "absent"]
  BY <1>1, WriteFacts
<1>3. /\ r \in Rows /\ w \in Items /\ w \in Todo(s) /\ sync[s].todo[w] # "absent"
      /\ value.st = sync[s].todo[w] /\ value.org = (View(s, r).org \/ linked)
  <2>1. linked \in BOOLEAN /\ sync[s].was = View(s, r)
    BY <1>1, <1>2 DEF Linked, Known, RowsInOrder
  <2>2. QED
    BY <1>1, <1>2, <2>1, WrittenFacts DEF SyncInv, InOrder
<1> HIDE DEF value
<1>4. Running(s)
  BY <1>2 DEF Running, Active
<1>5. \A t \in Syncers \ {s} : ~Running(t)'
  BY <1>1, <1>2, <1>4, StillAlone
<1>6. \A i : /\ Steady(s, i)' <=> Steady(s, i)
             /\ HasCustomer(s, i)' <=> HasCustomer(s, i)
  BY <1>2 DEF Steady, Everlisted, HasCustomer
<1>7. ASSUME NEW i \in steady[s], i # w PROVE Caught(s, i)'
  <2>1. Caught(s, i) /\ i \in Items
    BY <1>1, <1>4 DEF FreshInv, TypeOK
  <2>2. sync[s].todo \in [Items -> Status]
    BY <1>1, StateFacts
  <2>3. /\ i \in Todo(s)' <=> i \in Todo(s)
        /\ sync'[s].todo[i] = sync[s].todo[i]
    BY <1>2, <1>7, <2>1, <2>2 DEF Todo
  <2>4. \A p \in Rows : p[1] = i => View(s, p)' = View(s, p)
    BY <1>2, <1>7
  <2>5. Fresh(s, i) => Fresh(s, i)'
    BY <1>2, <1>6, <2>4 DEF Fresh
  <2>6. \A q : Listed(q)' = Listed(q) /\ Rank(i, q)' = Rank(i, q)
    BY <1>2 DEF Listed, Rank
  <2>7. Ahead(s, i) => Ahead(s, i)'
    BY <1>2, <2>6 DEF Ahead
  <2>8. QED
    BY <1>2, <1>6, <2>1, <2>3, <2>5, <2>7 DEF Caught
<1>8. ASSUME NEW i \in steady[s], i = w PROVE Caught(s, i)'
  <2>1. PICK p \in Rows : p = r /\ p[1] = i
    BY <1>3, <1>8
  <2>2. sync[s].todo[i] = remote[i]
    BY <1>3, <1>4, <1>8 DEF FreshInv, Caught
  <2>3. i \notin Todo(s)'
    <3>1. sync[s].todo \in [Items -> Status]
      BY <1>1, StateFacts
    <3>2. QED
      BY <1>2, <1>3, <1>8, <3>1 DEF Todo
  <2>4. HasCustomer(s, i) => value.org
    BY <1>2, <1>3, <1>8, CustomersComeFirst
  <2>5. value # NoRow
    BY <1>3, TableFacts
  <2>6. View(s, p)' = value /\ value.st = remote'[i]
    BY <1>2, <1>3, <1>8, <2>1, <2>2
  <2>7. Fresh(s, i)'
    BY <1>6, <2>1, <2>4, <2>5, <2>6 DEF Fresh
  <2>8. QED
    BY <2>3, <2>7 DEF Caught
<1>9. QED
  BY <1>1, <1>2, <1>5, <1>7, <1>8, LifeGoesOn, FreshWhileAlone

LEMMA FreshStarts ==
  ASSUME Overlap = FALSE, Inv, FreshInv, NEW s \in Syncers, Start(s)
  PROVE  FreshInv'
<1>1. TypeOK /\ LifeInv
  BY DEF Inv, FreshInv
<1>2. /\ \A t \in Syncers : ~Running(t)
      /\ sync' = [sync EXCEPT ![s] = [Asleep EXCEPT !.at = "fetch"]]
      /\ UNCHANGED <<remote, rows, work, steady>>
  BY DEF Start
<1>3. /\ sync'[s].at = "fetch" /\ sync'[s].todo = Nothing /\ sync'[s].query = 1
      /\ sync'[s].page = 0 /\ Moved(s)
  BY <1>1, <1>2 DEF TypeOK, Moved, Asleep
<1>4. \A t \in Syncers \ {s} : ~Running(t)'
  BY <1>2, <1>3 DEF Moved, Running
<1>5. ASSUME NEW i \in steady'[s] PROVE Caught(s, i)'
  <2>1. i \in Items /\ Todo(s)' = {}
    BY <1>1, <1>2, <1>3 DEF TypeOK, Todo, Nothing
  <2>2. ASSUME Steady(s, i) PROVE Ahead(s, i)'
    <3>1. PICK q \in 1..LastQuery : i \in Listed(q)
      BY <1>1, <2>1, <2>2, OnSomeList DEF Steady
    <3>2. i \in Listed(q)' /\ Rank(i, q)' = Rank(i, q) /\ Rank(i, q) \in Nat
      BY <1>2, <2>1, <3>1, SeesTheSame, RankFacts
    <3>3. PageSize * 0 = 0
      BY BoundsAssumption
    <3>4. QED
      BY <1>3, <3>1, <3>2, <3>3 DEF Ahead
  <2>3. QED
    BY <1>2, <2>1, <2>2, SeesTheSame DEF Caught
<1>6. QED
  BY <1>1, <1>2, <1>4, <1>5, LifeGoesOn, FreshWhileAlone

LEMMA FreshWhileMoving ==
  ASSUME Inv, FreshInv, NEW k \in Items, RemoteMove(k)
  PROVE  FreshInv'
<1>1. TypeOK /\ LifeInv
  BY DEF Inv, FreshInv
<1>2. PICK t \in Status :
        /\ <<remote[k], t>> \in Moves[Kind[k]] /\ remote' = [remote EXCEPT ![k] = t]
        /\ steady' = [s \in Syncers |->
             IF Running(s) THEN steady[s] \ ({k} \cup MovedUp(k, t)) ELSE Items]
        /\ UNCHANGED <<rows, work, sync>>
  BY DEF RemoteMove
<1>3. remote \in [Items -> Status] /\ remote'[k] = t
      /\ \A j \in Items \ {k} : remote'[j] = remote[j]
  BY <1>1, <1>2 DEF TypeOK
<1>4. LifeInv'
  <2>1. \A j \in Items : \/ remote'[j] = "absent"
                         \/ \E u \in Status : <<u, remote'[j]>> \in Moves[Kind[j]]
    BY <1>1, <1>2, <1>3 DEF LifeInv
  <2>2. QED
    BY <2>1 DEF LifeInv
<1>5. ASSUME NEW s \in Syncers, Running(s)', NEW i \in steady'[s] PROVE Caught(s, i)'
  <2>1. Running(s)
    BY <1>2, <1>5 DEF Running
  <2>2. i \in steady[s] /\ i # k /\ i \notin MovedUp(k, t) /\ i \in Items
        /\ steady'[s] \subseteq steady[s] \ {k} /\ steady[s] \subseteq Items
    BY <1>1, <1>2, <1>5, <2>1 DEF TypeOK
  <2>3. remote'[i] = remote[i] /\ Caught(s, i)
    BY <1>3, <2>1, <2>2 DEF FreshInv
  <2>4. \A j \in Items : Steady(s, j)' => Steady(s, j)
    BY <1>3, <2>2 DEF Steady, Everlisted
  <2>5. HasCustomer(s, i)' => HasCustomer(s, i)
    <3>1. ContactOf[i] # NoItem => ContactOf[i] \in Items
      BY <2>2, ItemsAssumption
    <3>2. QED
      BY <2>4, <3>1 DEF HasCustomer
  <2>6. \A r \in Rows : View(s, r)' = View(s, r)
    BY <1>2 DEF View
  <2>7. Fresh(s, i) => Fresh(s, i)'
    BY <2>3, <2>5, <2>6 DEF Fresh
  <2>8. ASSUME NEW q \in 1..LastQuery, i \in Listed(q)
        PROVE  i \in Listed(q)' /\ Rank(i, q)' \in Nat /\ Rank(i, q)' >= Rank(i, q)
    <3>1. i \in Listed(q)'
      BY <2>2, <2>3, <2>8 DEF Listed
    <3>2. ASSUME NEW j \in Before(i, q) PROVE j \in Before(i, q)'
      <4>1. j \in Listed(q) /\ j \in Items /\ Order[j] < Order[i]
        BY DEF Before, Listed
      <4>2. j \in Listed(q)'
        <5>1. CASE j # k
          BY <1>3, <4>1, <5>1 DEF Listed
        <5>2. CASE j = k
          <6>1. t \in Lists[q].of
            BY <2>2, <2>8, <4>1, <5>2 DEF MovedUp
          <6>2. QED
            BY <1>3, <4>1, <5>2, <6>1 DEF Listed
        <5>3. QED
          BY <5>1, <5>2
      <4>3. QED
        BY <4>1, <4>2 DEF Before
    <3>3. Before(i, q)' \subseteq Items /\ IsFiniteSet(Items)
      BY ItemsAssumption DEF Before, Listed
    <3>4. IsFiniteSet(Before(i, q)') /\ Before(i, q) \in SUBSET (Before(i, q)')
      BY <3>2, <3>3, FS_Subset
    <3>5. Cardinality(Before(i, q)) <= Cardinality(Before(i, q)')
          /\ Cardinality(Before(i, q)') \in Nat
      BY <3>4, FS_Subset, FS_CardinalityType
    <3>6. Rank(i, q)' = Cardinality(Before(i, q)') /\ Rank(i, q) = Cardinality(Before(i, q))
      BY DEF Rank, Before
    <3>7. QED
      BY <3>1, <3>5, <3>6, <2>2, RankFacts
  <2>9. Ahead(s, i) => Ahead(s, i)'
    <3>1. SUFFICES ASSUME Ahead(s, i) PROVE Ahead(s, i)'
      OBVIOUS
    <3>2. PICK q \in sync[s].query..LastQuery :
            /\ i \in Listed(q)
            /\ q = sync[s].query =>
                 /\ Rank(i, q) >= PageSize * (IF sync[s].at = "fetch" THEN sync[s].page
                                              ELSE sync[s].page + 1)
                 /\ sync[s].at = "fetch" \/ sync[s].more
      BY <3>1 DEF Ahead
    <3>3. /\ q \in 1..LastQuery /\ PageSize \in Nat /\ sync[s].page \in Nat
          /\ Rank(i, q) \in Nat
      BY <1>1, <2>2, <3>2, StateFacts, ListFacts, BoundsAssumption, RankFacts
    <3>4. i \in Listed(q)' /\ Rank(i, q)' \in Nat /\ Rank(i, q)' >= Rank(i, q)
      BY <2>8, <3>2, <3>3
    <3> DEFINE first == PageSize * (IF sync[s].at = "fetch" THEN sync[s].page
                                    ELSE sync[s].page + 1)
    <3>5. first \in Nat /\ (q = sync[s].query => Rank(i, q)' >= first)
      <4>1. first \in Nat
        BY <3>3
      <4> HIDE DEF first
      <4>2. q = sync[s].query => Rank(i, q) >= first
        BY <3>2 DEF first
      <4>3. QED
        BY <3>3, <3>4, <4>1, <4>2
    <3>6. sync' = sync
      BY <1>2
    <3>7. QED
      BY <3>2, <3>4, <3>5, <3>6 DEF Ahead
  <2>10. i \in Todo(s)' <=> i \in Todo(s)
    BY <1>2 DEF Todo
  <2>11. Steady(s, i)' => Fresh(s, i)' \/ i \in Todo(s)' \/ Ahead(s, i)'
    BY <2>2, <2>3, <2>4, <2>7, <2>9, <2>10 DEF Caught
  <2>12. i \in Todo(s)' => sync'[s].todo[i] = remote'[i]
    BY <1>2, <2>3, <2>10 DEF Caught
  <2>13. QED
    BY <2>11, <2>12 DEF Caught
<1>6. QED
  BY <1>4, <1>5 DEF FreshInv

LEMMA FreshStep ==
  ASSUME Overlap = FALSE, Inv, FreshInv, [Next]_vars
  PROVE  FreshInv'
<1> USE DEF Inv
<1>1. ASSUME NEW s \in Syncers, Running(s), Rollback(s) PROVE FreshInv'
  BY <1>1, RollbackFacts, FreshLeaves
<1>2. ASSUME NEW s \in Syncers, FetchFails(s) PROVE FreshInv'
  <2>1. /\ Running(s) /\ sync[s].at = "fetch" /\ sync[s].query <= LastQuery
        /\ \/ /\ Lists[sync[s].query].kind = "transaction"
              /\ sync' = Onward(s, FALSE) /\ UNCHANGED <<remote, rows, work, steady, alone>>
           \/ Commit(s, "partial")
    BY <1>2 DEF FetchFails, Fetching, Running, Active
  <2>2. CASE Commit(s, "partial")
    BY <2>1, <2>2, CommitFacts, FreshLeaves DEF Ended
  <2>3. CASE ~Commit(s, "partial")
    <3>1. ASSUME NEW i \in steady[s], Steady(s, i), ~Fresh(s, i) PROVE Later(s, i, FALSE)
      <4>1. i \notin Todo(s)
        BY <2>1 DEF SyncInv, InOrder, Todo, Nothing
      <4>2. Ahead(s, i)
        BY <2>1, <3>1, <4>1 DEF FreshInv, Caught
      <4>3. PICK q \in sync[s].query..LastQuery : i \in Listed(q)
        BY <4>2 DEF Ahead
      <4>4. q # sync[s].query
        BY <2>1, <2>3, <3>1, <4>3 DEF Listed, Steady
      <4>5. QED
        BY <4>3, <4>4 DEF Later
    <3>2. QED
      BY <2>1, <2>3, <3>1, FreshTurns
  <2>4. QED
    BY <2>2, <2>3
<1>3. ASSUME NEW s \in Syncers, Load(s) PROVE FreshInv'
  BY <1>1, <1>3, FreshLoads DEF Load, Running, Active
<1>4. ASSUME NEW s \in Syncers, Write(s) PROVE FreshInv'
  BY <1>1, <1>4, FreshWrites DEF Write, Running, Active
<1>5. ASSUME NEW s \in Syncers, Turn(s) PROVE FreshInv'
  <2>1. /\ sync[s].at = "load" /\ Todo(s) = {} /\ sync' = Onward(s, sync[s].more)
        /\ UNCHANGED <<remote, rows, work, steady, alone>>
    BY <1>5 DEF Turn
  <2>2. sync[s].more \in BOOLEAN /\ sync[s].query <= LastQuery /\ Running(s)
    BY <2>1, StateFacts DEF SyncInv, InOrder
  <2>3. ASSUME NEW i \in steady[s], Steady(s, i), ~Fresh(s, i) PROVE Later(s, i, sync[s].more)
    BY <2>1, <2>2, <2>3 DEF FreshInv, Caught, Ahead, Later
  <2>4. QED
    BY <2>1, <2>2, <2>3, FreshTurns
<1>6. ASSUME NEW s \in Syncers, Complete(s) PROVE FreshInv'
  <2>1. Running(s) /\ Commit(s, "completed")
    BY <1>6 DEF Complete, Running, Active
  <2>2. QED
    BY <2>1, CommitFacts, FreshLeaves DEF Ended
<1>7. ASSUME NEW s \in Syncers, DeadlockVictim(s) PROVE FreshInv'
  BY <1>1, <1>7 DEF DeadlockVictim, WaitsFor, Writing, Running, Active
<1>8. ASSUME NEW s \in Syncers, Dies(s) PROVE FreshInv'
  BY <1>1, <1>8 DEF Dies
<1>9. CASE UNCHANGED vars
  <2>1. \A s \in Syncers : \A i \in steady[s] : Caught(s, i)' <=> Caught(s, i)
    <3>1. UNCHANGED <<remote, rows, work, steady, alone, sync>>
      BY <1>9 DEF vars
    <3>2. ASSUME NEW s, NEW i PROVE Ahead(s, i)' <=> Ahead(s, i)
      BY <3>1, SeesTheSame DEF Ahead
    <3>3. QED
      BY <3>1, <3>2, SeesTheSame DEF Caught, Todo
  <2>2. QED
    BY <1>9, <2>1 DEF vars, FreshInv, LifeInv, Running
<1>10. QED
  BY <1>2, <1>3, <1>4, <1>5, <1>6, <1>7, <1>8, <1>9, FreshStarts, FreshFetches, FreshWhileMoving
  DEF Next, SyncStep

LEMMA OnlyCompleteCompletes ==
  ASSUME Inv, [Next]_vars, NEW s \in Syncers, Completes(s)
  PROVE  Complete(s)
<1>1. TypeOK /\ SyncInv /\ Running(s) /\ sync'[s].at = "completed" /\ sync'[s].at # sync[s].at
  BY DEF Inv, Completes, Running, Active
<1>2. ASSUME NEW t \in Syncers, Moved(t), sync'[t].at # "completed" PROVE FALSE
  BY <1>1, <1>2 DEF Moved
<1>3. ASSUME NEW t \in Syncers, NEW how \in Ended, Leave(t, how), how # "completed" PROVE FALSE
  BY <1>1, <1>2, <1>3, LeaveFacts
<1>4. ASSUME NEW t \in Syncers, NEW more \in BOOLEAN, sync[t].query <= LastQuery,
             sync' = Onward(t, more)
      PROVE  FALSE
  BY <1>1, <1>2, <1>4, OnwardFacts
<1>5. ASSUME NEW t \in Syncers, Rollback(t) PROVE FALSE
  BY <1>1, <1>3, <1>5, RollbackFacts
<1>6. ASSUME NEW t \in Syncers, FetchPage(t) PROVE FALSE
  <2>1. /\ sync[t].query \in 1..LastQuery
        /\ sync' = Onward(t, FALSE) \/ (Moved(t) /\ sync'[t].at = "load")
    BY <1>1, <1>6, FetchFacts
  <2>2. sync[t].query <= LastQuery
    BY <2>1, ListFacts
  <2>3. QED
    BY <1>2, <1>4, <2>1, <2>2
<1>7. ASSUME NEW t \in Syncers, FetchFails(t) PROVE FALSE
  <2>1. sync[t].query <= LastQuery /\ (sync' = Onward(t, FALSE) \/ Leave(t, "partial"))
    BY <1>7 DEF FetchFails, Fetching, Commit
  <2>2. QED
    BY <1>3, <1>4, <2>1 DEF Ended
<1>8. ASSUME NEW t \in Syncers, Load(t) PROVE FALSE
  BY <1>1, <1>2, <1>5, <1>8, LoadFacts
<1>9. ASSUME NEW t \in Syncers, Write(t) PROVE FALSE
  BY <1>1, <1>2, <1>5, <1>9, WriteFacts
<1>10. ASSUME NEW t \in Syncers, Turn(t) PROVE FALSE
  <2>1. sync[t].at = "load" /\ sync' = Onward(t, sync[t].more)
    BY <1>10 DEF Turn
  <2>2. sync[t].more \in BOOLEAN /\ sync[t].query <= LastQuery
    BY <1>1, <2>1, StateFacts DEF SyncInv, InOrder
  <2>3. QED
    BY <1>4, <2>1, <2>2
<1>11. ASSUME NEW t \in Syncers, Start(t) PROVE FALSE
  BY <1>1, <1>2, <1>11 DEF Start, Moved, TypeOK, Asleep
<1>12. ASSUME NEW t \in Syncers, Complete(t) PROVE t = s
  <2>1. Moved(t)
    BY <1>1, <1>12, CommitFacts, LeaveFacts DEF Complete, Ended
  <2>2. QED
    BY <1>1, <2>1 DEF Moved
<1>13. ASSUME sync' = sync PROVE FALSE
  BY <1>1, <1>13
<1>14. QED
  BY <1>5, <1>6, <1>7, <1>8, <1>9, <1>10, <1>11, <1>12, <1>13
  DEF Next, SyncStep, DeadlockVictim, Dies, RemoteMove, vars

(* While syncs do not overlap, one that completes leaves every contact and  *)
(* voucher that stayed as and where it was mirrored as it is, and an        *)
(* invoice linked to its customer: whatever else was changed meanwhile, on  *)
(* whatever pages the items came.                                           *)
THEOREM CompletedIsFreshThm == Overlap = FALSE => (Spec => CompletedIsFresh)
<1> SUFFICES ASSUME Overlap = FALSE PROVE Spec => CompletedIsFresh
  OBVIOUS
<1> DEFINE Mirrored(s, i) ==
             /\ RowsOf(i)' # {}
             /\ \A r \in RowsOf(i)' : /\ rows'[r].st = remote[i]
                                      /\ HasCustomer(s, i) => rows'[r].org
<1>1. Init => FreshInv
  <2> SUFFICES ASSUME Init PROVE FreshInv
    OBVIOUS
  <2>1. \A s \in Syncers : ~Running(s)
    BY DEF Init, Asleep, Running, Active
  <2>2. LifeInv
    BY SeedAssumption DEF Init, LifeInv, Status
  <2>3. QED
    BY <2>1, <2>2 DEF FreshInv
<1>2. Inv /\ FreshInv /\ [Next]_vars => FreshInv'
  BY FreshStep
<1>3. ASSUME Inv, FreshInv, [Next]_vars
      PROVE  \A s \in Syncers : Completes(s) => \A i \in Items : Steady(s, i) => Mirrored(s, i)
  <2> SUFFICES ASSUME NEW s \in Syncers, Completes(s), NEW i \in Items, Steady(s, i)
               PROVE  Mirrored(s, i)
    OBVIOUS
  <2>1. /\ sync[s].at = "fetch" /\ ~(sync[s].query <= LastQuery)
        /\ Commit(s, "completed") /\ Running(s)
    BY <1>3, OnlyCompleteCompletes DEF Complete, Fetching, Completes
  <2>2. Caught(s, i)
    BY <1>3, <2>1 DEF FreshInv, Steady
  <2>3. i \notin Todo(s)
    BY <1>3, <2>1 DEF Inv, SyncInv, InOrder, Todo, Nothing
  <2>4. ~Ahead(s, i)
    <3>1. sync[s].query \in Nat /\ LastQuery \in Nat
      BY <1>3, StateFacts, ListFacts DEF Inv
    <3>2. sync[s].query..LastQuery = {}
      BY <2>1, <3>1
    <3>3. QED
      BY <3>2 DEF Ahead
  <2>5. PICK r \in Rows : /\ r[1] = i /\ View(s, r) # NoRow /\ View(s, r).st = remote[i]
                          /\ HasCustomer(s, i) => View(s, r).org
    BY <2>2, <2>3, <2>4 DEF Caught, Fresh
  <2>6. rows' = [z \in Rows |-> View(s, z)]
    BY <2>1 DEF Commit
  <2>7. r \in RowsOf(i)' /\ rows'[r] = View(s, r)
    BY <2>5, <2>6 DEF RowsOf
  <2>8. ASSUME NEW z \in RowsOf(i)' PROVE z = r
    <3>1. z \in Rows /\ z[1] = i /\ View(s, z) # NoRow
      BY <2>6 DEF RowsOf
    <3>2. QED
      BY <1>3, <2>5, <3>1, ViewedRowsAreUnique DEF Inv, SerialInv, RowInv
  <2>9. QED
    BY <2>5, <2>7, <2>8
<1>4. Inv /\ FreshInv /\ [Next]_vars =>
        [\A s \in Syncers : Completes(s) => \A i \in Items : Steady(s, i) => Mirrored(s, i)]_vars
  BY <1>3
<1>5. Spec => []Inv
  BY InvHolds
<1>6. QED
  BY <1>1, <1>2, <1>4, <1>5, PTL DEF Spec, CompletedIsFresh

=============================================================================
