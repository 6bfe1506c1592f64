------------------------------ MODULE Records ------------------------------
(* The master data: organizations, persons, projects, tasks, time entries   *)
(* and recurring expenses, as the API routers and the web forms create,     *)
(* change and delete them. A request is one transaction: it loads its row,  *)
(* writes what it changes together with a row of audit_log in one flush,    *)
(* and commits when the handler has returned. Requests overlap; the         *)
(* database is PostgreSQL at READ COMMITTED with the foreign keys of the    *)
(* migrations, all of them ON DELETE SET NULL.                              *)
(*                                                                          *)
(* A row keeps the rows it refers to and one value, open or done, for the   *)
(* columns a form changes: the status of a task, billed, active, a name.    *)
(* A request for a row that is not there answers 404 (the web form: an      *)
(* unchanged list) and changes nothing; it is left out.                     *)
EXTENDS Integers, Sequences, FiniteSets

CONSTANTS
  Rows, KindOf,        \* ids, and the table of each
  Seed,                \* rows that are there at first, with their references
  Requests,            \* connections: each serves one request at a time
  MaxRequests, MaxFaults

Kinds == {"organization", "person", "project", "task", "time_entry", "expense"}

(* ForeignKey(...) columns by migration, child table first.                 *)
CoreForeignKeys == {<<"person", "organization">>, <<"project", "organization">>}
TaskForeignKeys == {<<"task", "project">>, <<"task", "person">>}
FinanceForeignKeys == {<<"expense", "organization">>, <<"time_entry", "project">>}
ForeignKeys == CoreForeignKeys \cup TaskForeignKeys \cup FinanceForeignKeys

(* Organization.persons and .projects: relationship() without              *)
(* passive_deletes, so that the session itself unlinks them on a delete.    *)
Relationships == {<<"person", "organization">>, <<"project", "organization">>}

MayRefer(x) == {y \in Rows : <<KindOf[x], KindOf[y]>> \in ForeignKeys}

ASSUME RowsAssumption ==
  /\ Rows # {}
  /\ KindOf \in [Rows -> Kinds]
  /\ DOMAIN Seed \subseteq Rows
  /\ \A x \in DOMAIN Seed : Seed[x] \subseteq MayRefer(x) \cap DOMAIN Seed
ASSUME BoundsAssumption == MaxRequests \in Nat /\ MaxFaults \in Nat

VARIABLES
  live,        \* rows committed and not deleted
  ref, value,  \* their references and their value
  audit,       \* committed audit_log of each row, in the order of the commits
  raced,       \* history: rows last updated from a value that another request
               \* had replaced meanwhile
  req,         \* what each connection is doing
  begun, faults

vars == <<live, ref, value, audit, raced, req, begun, faults>>

-----------------------------------------------------------------------------
Values == {"open", "done"}
Writes == {"update", "complete", "mark_billed", "toggle"}
Ops == Writes \cup {"create", "unlink", "link", "delete"}

(* The columns an Update schema names: a PUT can write a value, clear a     *)
(* reference, unlink, or set one, link, which stands for a date of a task   *)
(* or an expense too. An organization refers to nothing.                    *)
OrganizationUpdate == {"update"}
PersonUpdate == {"update", "unlink", "link"}
ProjectUpdate == {"update", "unlink", "link"}
TaskUpdate == {"update", "unlink", "link"}
RecurringExpenseUpdate == {"update", "unlink", "link"}
TimeEntryUpdate == {"update", "unlink", "link"}

(* What each router offers on its table; complete stands for skip as well.  *)
OrganizationApi == {"create", "delete"} \cup OrganizationUpdate
PersonApi == {"create", "delete"} \cup PersonUpdate
ProjectApi == {"create", "delete"} \cup ProjectUpdate
TaskApi == {"create", "complete", "delete"} \cup TaskUpdate
ExpenseApi == {"create", "delete"} \cup RecurringExpenseUpdate
TimeApi == {"create", "mark_billed", "delete"} \cup TimeEntryUpdate

(* The forms of the web interface, on the same tables.                      *)
OrganizationWeb == {"create", "delete"}
PersonWeb == {"create", "delete"}
ProjectWeb == {"create"}
TaskWeb == {"create", "complete"}
ExpenseWeb == {"create", "toggle"}
TimeWeb == {"create"}

(* The commands of the bot, through the API.                                *)
ExpenseBot == {"create", "update"}
TimeBot == {"create"}

Offers ==
  [organization |-> OrganizationApi \cup OrganizationWeb, person |-> PersonApi \cup PersonWeb,
   project |-> ProjectApi \cup ProjectWeb, task |-> TaskApi \cup TaskWeb,
   expense |-> ExpenseApi \cup ExpenseWeb \cup ExpenseBot,
   time_entry |-> TimeApi \cup TimeWeb \cup TimeBot]

Free == [at |-> "free", op |-> "update", row |-> CHOOSE x \in Rows : TRUE,
         want |-> "open", seen |-> "open", refs |-> {}]
Request == [at : {"free", "loaded", "gathered", "flushed"}, op : Ops, row : Rows,
            want : Values, seen : Values, refs : SUBSET Rows]
Entry == [op : Ops, set : Values \cup {"nothing"}]

TypeOK ==
  /\ live \subseteq Rows
  /\ ref \in [Rows -> SUBSET Rows]
  /\ \A x \in Rows : ref[x] \subseteq MayRefer(x)
  /\ value \in [Rows -> Values]
  /\ audit \in [Rows -> Seq(Entry)]
  /\ raced \subseteq Rows
  /\ req \in [Requests -> Request]
  /\ begun \in 0..MaxRequests /\ faults \in 0..MaxFaults

Init ==
  /\ live = DOMAIN Seed
  /\ ref = [x \in Rows |-> IF x \in DOMAIN Seed THEN Seed[x] ELSE {}]
  /\ value = [x \in Rows |-> "open"]
  /\ audit = [x \in Rows |-> IF x \in DOMAIN Seed THEN <<[op |-> "create", set |-> "open"]>>
                                                  ELSE <<>>]
  /\ raced = {}
  /\ req = [r \in Requests |-> Free]
  /\ begun = 0 /\ faults = 0

-----------------------------------------------------------------------------
At(r, at) == req[r].at = at
Op(r) == req[r].op
Row(r) == req[r].row

(* A request comes in and loads its row. A create brings a new id and the   *)
(* references of its form, to rows there are or were.                       *)
Flip(v) == IF v = "open" THEN "done" ELSE "open"
Want(op, seen, v) ==
  CASE op \in {"complete", "mark_billed"} -> "done" [] op = "toggle" -> Flip(seen) [] OTHER -> v

Fresh(x) == audit[x] = <<>> /\ \A r \in Requests : ~At(r, "free") => Row(r) # x
Known == {x \in Rows : audit[x] # <<>>}

Begin(r, op, x, v, R) ==
  /\ At(r, "free") /\ begun < MaxRequests
  /\ op \in Offers[KindOf[x]]
  /\ IF op = "create" THEN Fresh(x) ELSE x \in live
  /\ R \subseteq IF op = "create" THEN Known ELSE {}
  /\ op = "link" => MayRefer(x) # {}
  /\ begun' = begun + 1
  /\ req' = [req EXCEPT ![r] = [at |-> "loaded", op |-> op, row |-> x,
               want |-> Want(op, value[x], v), seen |-> value[x],
               refs |-> IF op = "unlink" THEN ref[x] ELSE R]]
  /\ UNCHANGED <<live, ref, value, audit, raced, faults>>

(* The flush of a deleted organization first loads the persons and projects *)
(* that refer to it.                                                        *)
Gather(r) ==
  /\ At(r, "loaded") /\ Op(r) = "delete"
  /\ req' = [req EXCEPT ![r].at = "gathered", ![r].refs =
       {y \in live : Row(r) \in ref[y] /\ <<KindOf[y], KindOf[Row(r)]>> \in Relationships}]
  /\ UNCHANGED <<live, ref, value, audit, raced, begun, faults>>

(* SQLAlchemy writes a column when the new value differs from the loaded    *)
(* one; complete always writes completed_at.                                *)
Changes(r) ==
  \/ Op(r) \in {"create", "delete", "complete"}
  \/ Op(r) = "unlink" /\ req[r].refs # {}
  \/ Op(r) \in Writes /\ req[r].want # req[r].seen

Children(x) == {y \in live : x \in ref[y]}
Locks(r) == IF ~Changes(r) THEN {}
            ELSE {Row(r)} \cup (IF Op(r) = "delete" THEN req[r].refs \cup Children(Row(r)) ELSE {})
Shares(r) == IF Op(r) = "create" THEN req[r].refs ELSE {}

(* A row lock excludes another; a reference keeps its row from being        *)
(* deleted.                                                                 *)
Deletes(r) == IF Op(r) = "delete" THEN {Row(r)} ELSE {}
Waits(r) ==
  \E q \in Requests \ {r} :
    /\ At(q, "flushed")
    /\ \/ Locks(r) \cap Locks(q) # {}
       \/ Shares(r) \cap Deletes(q) # {}
       \/ Deletes(r) \cap Shares(q) # {}

MutCanFlush(r) ==
  CASE Op(r) = "create" -> req[r].refs \subseteq live
    [] Op(r) = "delete" -> req[r].refs \subseteq live
    [] Op(r) = "link"   -> FALSE
    [] OTHER            -> TRUE

(* What the flush finds: a reference to a row that is gone is an            *)
(* IntegrityError, an UPDATE of one a StaleDataError (a DELETE only warns), *)
(* and the audit payload of a PUT that sets a reference is not JSON.        *)
CanFlush(r) ==
  CASE Op(r) = "create" -> req[r].refs \subseteq live
    [] Op(r) = "delete" -> req[r].refs \subseteq live
    [] Op(r) = "link"   -> FALSE
    [] OTHER            -> Changes(r) => Row(r) \in live

Flush(r) ==
  /\ At(r, IF Op(r) = "delete" THEN "gathered" ELSE "loaded") /\ ~Waits(r)
  /\ req' = IF CanFlush(r) THEN [req EXCEPT ![r].at = "flushed"] ELSE [req EXCEPT ![r] = Free]
  /\ UNCHANGED <<live, ref, value, audit, raced, begun, faults>>

(* What the transaction leaves in its row, the rows that referred to it and *)
(* the audit log: complete writes the status only when it was another, and  *)
(* the log holds what was asked for, also when no column is written.        *)
Sets(r) == Op(r) = "create" \/ (Op(r) \in Writes /\ req[r].want # req[r].seen)
Tells(r) == Op(r) \in Writes \cup {"create"}
Told(r) == [op |-> Op(r), set |-> IF Tells(r) THEN req[r].want ELSE "nothing"]

MutUnlinks(r, y) ==
  CASE y = Row(r) /\ Op(r) = "create"      -> req[r].refs
    [] y = Row(r) /\ Op(r) \in {"unlink", "delete"} -> {}
    [] OTHER                               -> ref[y]
MutPassesOn(r, y) ==
  CASE y = Row(r) /\ Op(r) = "create"      -> req[r].refs
    [] y = Row(r) /\ Op(r) \in {"unlink", "delete"} -> {}
    [] y \in Children(Row(r)) /\ Op(r) = "delete" -> (ref[y] \ {Row(r)}) \cup ref[Row(r)]
    [] OTHER                               -> ref[y]

Unlinks(r, y) ==
  CASE y = Row(r) /\ Op(r) = "create"      -> req[r].refs
    [] y = Row(r) /\ Op(r) \in {"unlink", "delete"} -> {}
    [] y # Row(r) /\ Op(r) = "delete"      -> ref[y] \ {Row(r)}
    [] OTHER                               -> ref[y]

Commit(r) ==
  /\ At(r, "flushed")
  /\ live' = CASE Op(r) = "create" -> live \cup {Row(r)}
               [] Op(r) = "delete" -> live \ {Row(r)}
               [] OTHER            -> live
  /\ ref' = [y \in Rows |-> Unlinks(r, y)]
  /\ value' = IF Sets(r) THEN [value EXCEPT ![Row(r)] = req[r].want] ELSE value
  /\ audit' = [audit EXCEPT ![Row(r)] = Append(@, Told(r))]
  /\ raced' = IF ~Tells(r) THEN raced
              ELSE IF value[Row(r)] = req[r].seen THEN raced \ {Row(r)} ELSE raced \cup {Row(r)}
  /\ req' = [req EXCEPT ![r] = Free]
  /\ UNCHANGED <<begun, faults>>

(* The process dies or the connection breaks: rolled back.                  *)
Fail(r) ==
  /\ ~At(r, "free") /\ faults < MaxFaults /\ faults' = faults + 1
  /\ req' = [req EXCEPT ![r] = Free]
  /\ UNCHANGED <<live, ref, value, audit, raced, begun>>

Next ==
  \E r \in Requests :
    \/ \E op \in Ops, x \in Rows, v \in Values :
         \E R \in SUBSET MayRefer(x) : Begin(r, op, x, v, R)
    \/ Gather(r) \/ Flush(r) \/ Commit(r) \/ Fail(r)

Spec == Init /\ [][Next]_vars

-----------------------------------------------------------------------------
(* No row refers to one that is not there, whatever is deleted while it is  *)
(* created or changed.                                                      *)
NoDangling == \A x \in live : ref[x] \subseteq live

(* "Every mutation worth knowing about should call record": the committed   *)
(* log of a row accounts for it. A row is there when its creation is told   *)
(* and no deletion is. Its value is one that was asked for, and the one the *)
(* last entry asks for unless that request had loaded the row before        *)
(* another changed it: then it may have written nothing, and the log ends   *)
(* with a value the row does not have. After a deletion nothing more is     *)
(* told that needs the row: no creation, completion or toggle.              *)
Says(x, op) == \E i \in DOMAIN audit[x] : audit[x][i].op = op
Setting(x) == {i \in DOMAIN audit[x] : audit[x][i].set # "nothing"}
NeedsNoRow == {"delete", "update", "mark_billed", "unlink"}
AuditAccounts ==
  \A x \in Rows :
    /\ x \in live <=> Says(x, "create") /\ ~Says(x, "delete")
    /\ x \in live => \E i \in Setting(x) :
         audit[x][i].set = value[x] /\ (x \in raced \/ \A j \in Setting(x) : j <= i)
    /\ \A i, j \in DOMAIN audit[x] :
         i < j /\ audit[x][i].op = "delete" => audit[x][j].op \in NeedsNoRow

-----------------------------------------------------------------------------
(* The inductive invariant behind the three of them.                        *)

(* Every request in progress works on a row that has been created, except   *)
(* the one that creates it, and that one has its new id to itself.          *)
RequestInv ==
  \A r \in Requests : ~At(r, "free") =>
    IF Op(r) = "create"
      THEN /\ audit[Row(r)] = <<>> /\ req[r].refs \subseteq MayRefer(Row(r))
           /\ \A q \in Requests \ {r} : ~At(q, "free") => Row(q) # Row(r)
      ELSE Says(Row(r), "create")

(* A toggle always changes the row it has loaded.                           *)
ToggleInv == \A r \in Requests : ~At(r, "free") /\ Op(r) = "toggle" => Changes(r)

(* What a flushed transaction holds until it commits: the row it changes is *)
(* there and nobody else's, and so are the rows it has come to refer to.    *)
HeldInv ==
  \A r \in Requests : At(r, "flushed") =>
    /\ Op(r) # "link"
    /\ Op(r) = "create" => req[r].refs \subseteq live
    /\ Changes(r) /\ Op(r) \notin {"create", "delete"} => Row(r) \in live
    /\ \A q \in Requests \ {r} : At(q, "flushed") =>
         /\ Changes(r) /\ Changes(q) => Row(r) # Row(q)
         /\ Shares(r) \cap Deletes(q) = {}

IInv == TypeOK /\ NoDangling /\ AuditAccounts /\ RequestInv /\ ToggleInv /\ HeldInv
=============================================================================
