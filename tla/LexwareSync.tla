---------------------------- MODULE LexwareSync ----------------------------
(* Mirroring Lexware Office into the organizations, invoices, receipts and  *)
(* transactions tables (capabilities/lexware). One sync is one database     *)
(* transaction: it pulls six paged lists in a fixed order, looks every      *)
(* listed item up by its Lexware id and inserts or updates its row. The     *)
(* 05:00 job and POST /lexware/sync run the same code and nothing keeps     *)
(* them apart; no unique constraint stands behind the look-up. Lexware      *)
(* itself goes on changing between any two pages.                           *)
(*                                                                          *)
(* A row holds what was last written of the item: the status of the raw     *)
(* voucher (metadata_json, from which the status columns are derived) and   *)
(* whether an invoice is linked to its customer. Amounts and dates change   *)
(* with the status and are not kept apart. An attribute is written when the *)
(* listed value differs from the loaded one, which is what SQLAlchemy does. *)
(* Reads see committed rows and the sync's own writes (READ COMMITTED).     *)
EXTENDS Integers, Sequences, FiniteSets

CONSTANTS
  Items,       \* contacts, invoices, receipts and transactions of Lexware
  Kind,        \* the kind of each item
  Order,       \* the position of an item in Lexware's lists
  ContactOf,   \* the customer of an invoice, or NoItem
  NoItem,
  Seed,        \* what an earlier sync had mirrored, "absent" for nothing
  Syncers,     \* who may run a sync: the scheduler's job, an API request
  Overlap,     \* FALSE: a sync starts only when no other one runs
  PageSize,    \* items on a page (100 in the code)
  MaxSyncs,    \* syncs begun, when they may overlap
  MaxMoves,    \* changes in Lexware
  MaxFaults    \* failed requests and deaths of a process

Kinds == {"contact", "invoice", "receipt", "transaction"}

ASSUME ItemsAssumption ==
  /\ IsFiniteSet(Items)
  /\ Kind \in [Items -> Kinds]
  /\ Order \in [Items -> Nat]
  /\ \A i, j \in Items : Order[i] = Order[j] => i = j
  /\ ContactOf \in [Items -> Items \cup {NoItem}] /\ NoItem \notin Items
  /\ \A i \in Items : ContactOf[i] # NoItem => Kind[ContactOf[i]] = "contact"
ASSUME BoundsAssumption ==
  Overlap \in BOOLEAN /\ PageSize \in Nat \ {0} /\ {MaxSyncs, MaxMoves} \subseteq Nat /\ MaxFaults \in Nat

VARIABLES
  remote,      \* status of each item in Lexware
  rows,        \* committed rows: <<item, the syncer that inserted it>>
  work,        \* rows a running sync has written and not committed
  sync,        \* where each sync is
  steady,      \* items that kept status and place since the sync began
  alone,       \* history: syncs beside which no other one has run
  begun, moves, faults

vars == <<remote, rows, work, sync, steady, alone, begun, moves, faults>>

-----------------------------------------------------------------------------
(* Lexware: what an item may become, and which statuses each list asks for. *)
(* A partly paid voucher is still on the list of open ones.                 *)
Status == {"absent", "live", "renamed", "open", "partpaid", "overdue", "paid", "voided"}

VoucherMoves == {<<"absent", "open">>, <<"open", "partpaid">>}
  \cup ({"open", "partpaid"} \X {"overdue", "paid", "voided"})
  \cup ({"overdue"} \X {"paid", "voided"})
Moves == [contact |-> {<<"absent", "live">>, <<"live", "renamed">>},
          invoice |-> VoucherMoves, receipt |-> VoucherMoves,
          transaction |-> {<<"absent", "live">>}]

ASSUME SeedAssumption ==
  /\ Seed \in [Items -> Status]
  /\ \A i \in Items : Seed[i] = "absent" \/ <<"absent", Seed[i]>> \in Moves[Kind[i]]

(* s at or before t in the life of an item.                                 *)
AtMost == {<<s, s>> : s \in Status} \cup {<<"absent", t>> : t \in Status}
          \cup (UNION {Moves[k] : k \in Kinds})

MutWithoutOverdue == <<[kind |-> "contact", of |-> {"live", "renamed"}],
                       [kind |-> "invoice", of |-> {"open", "partpaid", "paid"}],
                       [kind |-> "receipt", of |-> {"open", "partpaid", "paid"}],
                       [kind |-> "transaction", of |-> {"live"}]>>

Lists == <<[kind |-> "contact",     of |-> {"live", "renamed"}],
           [kind |-> "invoice",     of |-> {"open", "partpaid", "paid"}],
           [kind |-> "invoice",     of |-> {"overdue"}],
           [kind |-> "receipt",     of |-> {"open", "partpaid", "paid"}],
           [kind |-> "receipt",     of |-> {"overdue"}],
           [kind |-> "transaction", of |-> {"live"}]>>

LastQuery == Len(Lists)

Listed(q) == {i \in Items : Kind[i] = Lists[q].kind /\ remote[i] \in Lists[q].of}
Rank(i, q) == Cardinality({j \in Listed(q) : Order[j] < Order[i]})

(* Page p of list q: the items of the page, and whether more follow.        *)
OnPage(q, p) == {i \in Listed(q) : Rank(i, q) \div PageSize = p}
IsLast(q, p) == \A i \in Listed(q) : Rank(i, q) \div PageSize <= p

Everlisted(i) == remote[i] \notin {"absent", "voided"}

-----------------------------------------------------------------------------
(* Tables. A row of item i inserted by s is <<i, s>>: s finds the row it    *)
(* inserted in every later sync, so it inserts no second one.               *)
Rows == Items \X Syncers
NoRow == [st |-> "absent", org |-> FALSE]
RowValue == [st : Status, org : BOOLEAN]

Active == {"fetch", "load", "write"}
Ended == {"completed", "partial", "aborted"}
Running(s) == sync[s].at \in Active

View(s, r) == IF work[s][r] # NoRow THEN work[s][r] ELSE rows[r]
Visible(s, i) == {r \in Rows : r[1] = i /\ View(s, r) # NoRow}

(* An UPDATE waits while another open sync has written the committed row.   *)
Locked(s, r) == rows[r] # NoRow /\ \E t \in Syncers \ {s} : work[t][r] # NoRow

Untouched == [r \in Rows |-> NoRow]
Nothing == [i \in Items |-> "absent"]
Asleep == [at |-> "idle", query |-> 1, page |-> 0, todo |-> Nothing, more |-> FALSE,
           row |-> <<>>, was |-> NoRow, known |-> {}]

SyncState ==
  [at : Active \cup Ended \cup {"idle"}, query : 1..LastQuery + 1, page : Nat,
   todo : [Items -> Status], more : BOOLEAN, row : Rows \cup {<<>>},
   was : RowValue, known : SUBSET Items]

TypeOK ==
  /\ remote \in [Items -> Status]
  /\ rows \in [Rows -> RowValue]
  /\ work \in [Syncers -> [Rows -> RowValue]]
  /\ sync \in [Syncers -> SyncState]
  /\ steady \in [Syncers -> SUBSET Items]
  /\ alone \subseteq Syncers
  /\ begun \in 0..MaxSyncs
  /\ moves \in 0..MaxMoves
  /\ faults \in 0..MaxFaults

Seeder == CHOOSE s \in Syncers : TRUE
Init ==
  /\ remote = Seed
  /\ rows = [r \in Rows |-> IF Seed[r[1]] # "absent" /\ r[2] = Seeder
                             THEN [st |-> Seed[r[1]], org |-> FALSE] ELSE NoRow]
  /\ work = [s \in Syncers |-> Untouched]
  /\ sync = [s \in Syncers |-> Asleep]
  /\ steady = [s \in Syncers |-> Items]
  /\ alone = {}
  /\ begun = 0
  /\ moves = 0
  /\ faults = 0

-----------------------------------------------------------------------------
(* Ending a sync: commit what was written, or roll it back.                 *)
Leave(s, how) ==
  /\ sync' = [sync EXCEPT ![s] = [Asleep EXCEPT !.at = how]]
  /\ steady' = [steady EXCEPT ![s] = Items]
  /\ alone' = alone \ {s}
  /\ UNCHANGED remote

MutReplaceTables(s, how) == rows' = work[s] /\ work' = [work EXCEPT ![s] = Untouched]
                            /\ Leave(s, how)

Commit(s, how) ==
  /\ rows' = [r \in Rows |-> View(s, r)]
  /\ work' = [work EXCEPT ![s] = Untouched]
  /\ Leave(s, how)

Rollback(s) ==
  /\ work' = [work EXCEPT ![s] = Untouched]
  /\ Leave(s, "aborted")
  /\ UNCHANGED rows

Fault == faults < MaxFaults /\ faults' = faults + 1 /\ UNCHANGED <<begun, moves>>

Start(s) ==
  /\ ~Running(s)
  /\ IF Overlap
     THEN begun < MaxSyncs /\ begun' = begun + 1
     ELSE (\A t \in Syncers : ~Running(t)) /\ UNCHANGED begun
  /\ sync' = [sync EXCEPT ![s] = [Asleep EXCEPT !.at = "fetch"]]
  /\ alone' = IF \E t \in Syncers : Running(t) THEN {} ELSE {s}
  /\ UNCHANGED <<remote, rows, work, steady, moves, faults>>

(* The page p of the list q is done: the next page, or the next list.       *)
MutSamePage(s, more) ==
  [sync EXCEPT ![s].at = "fetch", ![s].todo = Nothing,
    ![s].query = IF sync[s].at = "load" THEN @ ELSE @ + 1, ![s].known = {}]

Onward(s, more) ==
  [sync EXCEPT ![s].at = "fetch", ![s].todo = Nothing,
    ![s].page = IF more THEN @ + 1 ELSE 0,
    ![s].query = IF more THEN @ ELSE @ + 1,
    ![s].known = IF Lists[sync[s].query].kind = "invoice" THEN @ ELSE {}]

Fetching(s) == sync[s].at = "fetch" /\ sync[s].query <= LastQuery

FetchPage(s) ==
  LET q == sync[s].query
      p == sync[s].page
  IN /\ Fetching(s)
     /\ sync' = IF OnPage(q, p) = {} THEN Onward(s, FALSE) ELSE [sync EXCEPT
          ![s].at = "load",
          ![s].todo = [i \in Items |-> IF i \in OnPage(q, p) THEN remote[i] ELSE "absent"],
          ![s].more = ~IsLast(q, p)]
     /\ UNCHANGED <<remote, rows, work, steady, alone, begun, moves, faults>>

(* A status of 400 or more: LexwareError. run_sync returns, and its caller  *)
(* commits what was written so far. For transactions list_transactions      *)
(* swallows it.                                                             *)
FetchFails(s) ==
  /\ Fetching(s) /\ Fault
  /\ IF Lists[sync[s].query].kind = "transaction"
     THEN /\ sync' = Onward(s, FALSE)
          /\ UNCHANGED <<remote, rows, work, steady, alone>>
     ELSE Commit(s, "partial")

Todo(s) == {i \in Items : sync[s].todo[i] # "absent"}
Foremost(s, i) == i \in Todo(s) /\ \A j \in Todo(s) : Order[i] <= Order[j]

(* The SELECT by Lexware id. scalar_one_or_none raises on several rows.     *)
MutInsertAlways(s) ==
  \E i \in Items :
    /\ sync[s].at = "load" /\ Foremost(s, i)
    /\ sync' = [sync EXCEPT ![s].at = "write", ![s].row = <<i, s>>, ![s].was = NoRow]
    /\ UNCHANGED <<remote, rows, work, steady, alone, begun, moves, faults>>

Load(s) ==
  \E i \in Items :
    /\ sync[s].at = "load" /\ Foremost(s, i)
    /\ \/ /\ Cardinality(Visible(s, i)) > 1
          /\ Rollback(s)
       \/ /\ Visible(s, i) = {}
          /\ sync' = [sync EXCEPT ![s].at = "write", ![s].row = <<i, s>>, ![s].was = NoRow]
          /\ UNCHANGED <<remote, rows, work, steady, alone>>
       \/ \E r \in Rows :
            /\ Visible(s, i) = {r}
            /\ sync' = [sync EXCEPT ![s].at = "write", ![s].row = r,
                                    ![s].was = View(s, r)]
            /\ UNCHANGED <<remote, rows, work, steady, alone>>
    /\ UNCHANGED <<begun, moves, faults>>

(* The customer's row: once found it is kept for the rest of the list.      *)
Customers(s, i) ==
  IF Kind[i] = "invoice" /\ ContactOf[i] # NoItem THEN Visible(s, ContactOf[i]) ELSE {}
Known(s, i) == Kind[i] = "invoice" /\ ContactOf[i] \in sync[s].known

(* The row as it stands with the listed status and the link put in.         *)
MutInsertOnly(s, r, linked) ==
  IF View(s, r) # NoRow THEN View(s, r)
  ELSE [st |-> sync[s].todo[r[1]], org |-> linked]
MutRawStatus(s, r, linked) ==
  [st |-> IF sync[s].todo[r[1]] = "overdue" THEN "due" ELSE sync[s].todo[r[1]], org |-> linked]

Written(s, r, linked) ==
  LET i == r[1]
      now == View(s, r)
  IN [st  |-> IF sync[s].todo[i] # sync[s].was.st THEN sync[s].todo[i] ELSE now.st,
      org |-> now.org \/ linked]

Linked(s, i) == Known(s, i) \/ Customers(s, i) # {}
Writing(s) ==
  /\ sync[s].at = "write"
  /\ Written(s, sync[s].row, Linked(s, sync[s].row[1])) # View(s, sync[s].row)

Write(s) ==
  LET r == sync[s].row
      i == r[1]
      linked == Linked(s, i)
  IN /\ sync[s].at = "write"
     /\ Writing(s) => ~Locked(s, r)
     /\ IF ~Known(s, i) /\ Cardinality(Customers(s, i)) > 1
        THEN Rollback(s)
        ELSE /\ work' = IF Written(s, r, linked) = View(s, r) THEN work
                        ELSE [work EXCEPT ![s][r] = Written(s, r, linked)]
             /\ sync' = [sync EXCEPT
                  ![s].at = "load", ![s].row = <<>>, ![s].was = NoRow,
                  ![s].todo[i] = "absent",
                  ![s].known = IF linked THEN @ \cup {ContactOf[i]} ELSE @]
             /\ UNCHANGED <<remote, rows, steady, alone>>
     /\ UNCHANGED <<begun, moves, faults>>

Turn(s) ==
  /\ sync[s].at = "load" /\ Todo(s) = {}
  /\ sync' = Onward(s, sync[s].more)
  /\ UNCHANGED <<remote, rows, work, steady, alone, begun, moves, faults>>

Complete(s) ==
  /\ sync[s].at = "fetch" /\ ~Fetching(s)
  /\ Commit(s, "completed")
  /\ UNCHANGED <<begun, moves, faults>>

(* Two syncs that wait for each other's rows: PostgreSQL aborts one.        *)
WaitsFor(s, t) ==
  /\ s # t /\ Writing(s)
  /\ rows[sync[s].row] # NoRow /\ work[t][sync[s].row] # NoRow
DeadlockVictim(s) ==
  /\ \E t \in Syncers : WaitsFor(s, t) /\ WaitsFor(t, s)
  /\ Rollback(s)
  /\ UNCHANGED <<begun, moves, faults>>

(* The process dies, or a request fails five times over with a transport    *)
(* error or 429/502/503/504: httpx.HTTPError, which run_sync does not catch.*)
Dies(s) == Running(s) /\ Fault /\ Rollback(s)

(* The items behind i on a list that i leaves by becoming t: each of them   *)
(* moves up by one place, perhaps to a page that was already read.          *)
MovedUp(i, t) ==
  {j \in Items : \E q \in 1..LastQuery :
     {i, j} \subseteq Listed(q) /\ t \notin Lists[q].of /\ Order[i] < Order[j]}

(* Lexware changes an item while syncs run or not.                          *)
RemoteMove(i) ==
  \E t \in Status :
    /\ moves < MaxMoves /\ moves' = moves + 1
    /\ <<remote[i], t>> \in Moves[Kind[i]]
    /\ remote' = [remote EXCEPT ![i] = t]
    /\ steady' = [s \in Syncers |->
         IF Running(s) THEN steady[s] \ ({i} \cup MovedUp(i, t)) ELSE Items]
    /\ UNCHANGED <<rows, work, sync, alone, begun, faults>>

SyncStep(s) ==
  FetchPage(s) \/ Load(s) \/ Write(s) \/ Turn(s) \/ Complete(s) \/ DeadlockVictim(s)
Next ==
  \/ \E s \in Syncers : SyncStep(s) \/ Start(s) \/ FetchFails(s) \/ Dies(s)
  \/ \E i \in Items : RemoteMove(i)

Spec == Init /\ [][Next]_vars

(* A running process goes on; the cron trigger starts the job every day.    *)
FairSpec ==
  /\ Spec
  /\ \A s \in Syncers : WF_vars(SyncStep(s)) /\ WF_vars(Start(s))

-----------------------------------------------------------------------------
(* "The sync is idempotent and keyed on lexware_id": an item that has a     *)
(* committed row gets another one, and loses none, unless the sync that     *)
(* ends then has overlapped another one, however many syncs died, committed *)
(* a part or left duplicates behind before it.                              *)
RowsOf(i) == {r \in Rows : r[1] = i /\ rows[r] # NoRow}
Ends(s) == Running(s) /\ ~Running(s)'
SecondRowNeedsOverlap ==
  [][\A i \in Items : RowsOf(i) # {} /\ RowsOf(i)' # RowsOf(i) =>
       \E s \in Syncers \ alone : Ends(s)]_vars

(* A sync that completes has mirrored every contact and voucher that stayed *)
(* as it was, on one of the lists, from the sync's start to its end ("Order *)
(* matters: invoices reference the orgs created in the contacts pass"): it  *)
(* has linked every such invoice to such a customer. Not one that moved up  *)
(* on its list meanwhile: the pages are cut afresh at every request, and it *)
(* may move to a page already read. (The list of transactions may fail      *)
(* unnoticed.)                                                              *)
Completes(s) == Running(s) /\ sync'[s].at = "completed"
Steady(s, i) == i \in steady[s] /\ Everlisted(i) /\ Kind[i] # "transaction"
HasCustomer(s, i) == Kind[i] = "invoice" /\ ContactOf[i] # NoItem /\ Steady(s, ContactOf[i])
CompletedIsFresh ==
  [][\A s \in Syncers : Completes(s) => \A i \in Items : Steady(s, i) =>
       /\ RowsOf(i)' # {}
       /\ \A r \in RowsOf(i)' : /\ rows'[r].st = remote[i]
                                /\ HasCustomer(s, i) => rows'[r].org]_vars

(* Whatever two syncs wait for, each of them ends.                          *)
SyncsEnd == \A s \in Syncers : Running(s) ~> ~Running(s)

(* Once Lexware and the faults have settled, the tables show every listed   *)
(* item as it is, and keep showing it.                                      *)
Converges ==
  \A i \in Items : <>[](Everlisted(i) => \E r \in RowsOf(i) : rows[r].st = remote[i])

(* What a table shows of an item: the mirror of module Mirror.              *)
shown == [i \in Items |-> IF RowsOf(i) = {} THEN "absent"
                          ELSE rows[CHOOSE r \in RowsOf(i) : TRUE].st]
Shown == INSTANCE Mirror
  WITH Items <- Items, Status <- Status, AtMost <- AtMost,
       remote <- remote, shown <- shown
MirrorSpec == Shown!MirrorSpec

-----------------------------------------------------------------------------
(* The inductive invariant behind the safety properties, with the types.    *)

(* A sync works on items of the list it reads, and on their rows; one that  *)
(* does not run has written nothing.                                        *)
InOrder(s) ==
  /\ ~Running(s) => work[s] = Untouched
  /\ sync[s].at \notin {"load", "write"} => sync[s].todo = Nothing
  /\ sync[s].at \in {"load", "write"} =>
       /\ sync[s].query <= LastQuery
       /\ \A i \in Todo(s) : Kind[i] = Lists[sync[s].query].kind
  /\ sync[s].at = "write" => sync[s].row \in Rows /\ sync[s].row[1] \in Todo(s)
SyncInv == \A s \in Syncers : InOrder(s)

(* Nothing is shown, written or read that Lexware has not reached.          *)
NeverAhead == \A r \in Rows : <<rows[r].st, remote[r[1]]>> \in AtMost
BehindInv ==
  /\ NeverAhead
  /\ \A s \in Syncers :
       /\ \A r \in Rows : <<work[s][r].st, remote[r[1]]>> \in AtMost
       /\ \A i \in Items : <<sync[s].todo[i], remote[i]>> \in AtMost

(* While a sync is alone, what it has inserted or is about to insert is of  *)
(* items without a committed row.                                           *)
Inserts(s, r) ==
  rows[r] = NoRow /\ (work[s][r] # NoRow \/ (sync[s].at = "write" /\ sync[s].row = r))
LoneInv ==
  \A s \in alone :
    /\ Running(s) /\ \A t \in Syncers : Running(t) => t = s
    /\ \A r \in Rows : Inserts(s, r) => RowsOf(r[1]) = {}

(* The rest is about syncs that do not overlap: what one of them has loaded *)
(* is still so when it writes.                                              *)
AloneInv == \A s, t \in Syncers : Running(s) /\ Running(t) => s = t
OnlyRow(s, r) == \A p \in Rows : p[1] = r[1] /\ View(s, p) # NoRow => p = r
RowsInOrder(s) ==
  /\ \A r \in Rows :
       /\ View(s, r) # NoRow => OnlyRow(s, r)
       /\ <<rows[r].st, View(s, r).st>> \in AtMost
       /\ r[1] \in Todo(s) => <<View(s, r).st, sync[s].todo[r[1]]>> \in AtMost
  /\ sync[s].at = "write" =>
       sync[s].was = View(s, sync[s].row) /\ OnlyRow(s, sync[s].row)
RowInv == \A s \in Syncers : RowsInOrder(s)

(* A steady item was written as it is, or is on the page being worked on,   *)
(* or lies ahead: on a later list, or on a later page of this one.          *)
Fresh(s, i) ==
  \E r \in Rows : /\ r[1] = i /\ View(s, r) # NoRow /\ View(s, r).st = remote[i]
                  /\ HasCustomer(s, i) => View(s, r).org
Ahead(s, i) ==
  \E q \in sync[s].query..LastQuery :
    /\ i \in Listed(q)
    /\ q = sync[s].query =>
         /\ Rank(i, q) >= PageSize * (IF sync[s].at = "fetch" THEN sync[s].page
                                      ELSE sync[s].page + 1)
         /\ sync[s].at = "fetch" \/ sync[s].more
Caught(s, i) ==
  /\ i \in Todo(s) => sync[s].todo[i] = remote[i]
  /\ Steady(s, i) => Fresh(s, i) \/ i \in Todo(s) \/ Ahead(s, i)
LifeInv ==
  \A i \in Items : remote[i] = "absent" \/ \E t \in Status : <<t, remote[i]>> \in Moves[Kind[i]]
FreshInv ==
  /\ LifeInv
  /\ \A s \in Syncers : Running(s) => \A i \in steady[s] : Caught(s, i)

=============================================================================
