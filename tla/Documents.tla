----------------------------- MODULE Documents -----------------------------
(* The documents the program leaves on disk beside its tables: the PDF that *)
(* proves a VIES check, and the DATEV export of a year with its metadata.   *)
(* A file is not part of a transaction: it is written before the row that   *)
(* tells of it commits, and it stays when the row is lost.                  *)
(*                                                                          *)
(* Requests of the API, which runs two worker processes, and the yearly job *)
(* share the disk. Each process is one event loop: between two awaits       *)
(* nothing else of the process runs, but the other processes do.            *)
EXTENDS Integers, FiniteSets

CONSTANTS
  Requests, Process,        \* connections and the job, and the process of each
  VatIds,
  Postings, Kind, Date,     \* invoices and receipts, and their <<year, month, day>>
  Priced,                   \* those whose total is not NULL
  Years,
  LastDay, SecondsADay,     \* the time a model lasts
  MaxRequests, MaxFaults

Workers == {"worker1", "worker2"}
ASSUME ProcessAssumption == Process \in [Requests -> Workers \cup {"scheduler"}]
ASSUME PostingsAssumption ==
  /\ IsFiniteSet(Postings)
  /\ Kind \in [Postings -> {"invoice", "receipt"}]
  /\ Date \in [Postings -> Nat \X (1..12) \X (1..31)]
  /\ Priced \subseteq Postings /\ Years \subseteq Nat
ASSUME BoundsAssumption ==
  {LastDay, MaxRequests, MaxFaults} \subseteq Nat /\ SecondsADay \in Nat \ {0}

VARIABLES
  now,                  \* <<day, second>>
  booked,               \* postings the sync has committed
  files,                \* the proofs on disk, by name
  csv, meta,            \* the export of each year, and its metadata
  validations, exports, \* committed rows of vat_validations, and of audit_log
  req, begun, faults

vars == <<now, booked, files, csv, meta, validations, exports, req, begun, faults>>

-----------------------------------------------------------------------------
Moments == (0..LastDay) \X (0..SecondsADay - 1)
Proof == [vat : VatIds, at : Moments, valid : BOOLEAN]
MutKey(p) == <<p.at[1], p.vat>>
(* The file is named for the day, the VAT id and the second of the answer.  *)
Key(p) == <<p.at[1], p.vat, p.at[2]>>

InYear(p, y) == Date[p] \in {y} \X (1..12) \X (1..31)
MutSelected(k, y) == {p \in booked : InYear(p, y)}
Selected(k, y) == {p \in booked : Kind[p] = k /\ InYear(p, y)}

Free == [op |-> "none"]
Nothing == [rows |-> {}, invoices |-> 0, receipts |-> 0]
Export(r) == [rows |-> (req[r].invoices \cup req[r].receipts) \cap Priced,
              invoices |-> Cardinality(req[r].invoices), receipts |-> Cardinality(req[r].receipts)]
Exports == [rows : SUBSET Priced, invoices : 0..Cardinality(Postings),
            receipts : 0..Cardinality(Postings)]

Check  == [op : {"check"}, at : {"asked"}, vat : VatIds]
          \cup [op : {"check"}, at : {"stored"}, vat : VatIds, proof : Proof]
Dump   == [op : {"export"}, at : {"invoices", "receipts", "csv", "meta"}, year : Years,
           invoices : SUBSET Postings, receipts : SUBSET Postings,
           stood : SUBSET Postings, alone : BOOLEAN]

TypeOK ==
  /\ now \in Moments /\ booked \subseteq Postings
  /\ \A k \in DOMAIN files : files[k] \in Proof
  /\ csv \in [Years -> Exports] /\ meta \in [Years -> Exports]
  /\ validations \subseteq Proof
  /\ \A e \in exports : e.year \in Years /\ e.invoices + e.receipts <= Cardinality(Postings)
  /\ req \in [Requests -> {Free} \cup Check \cup Dump]
  /\ begun \in 0..MaxRequests /\ faults \in 0..MaxFaults

Init ==
  /\ now = <<0, 0>> /\ booked = {}
  /\ files = [k \in {} |-> Free]
  /\ csv = [y \in Years |-> Nothing] /\ meta = [y \in Years |-> Nothing]
  /\ validations = {} /\ exports = {}
  /\ req = [r \in Requests |-> Free]
  /\ begun = 0 /\ faults = 0

-----------------------------------------------------------------------------
At(r, op, at) == req[r].op = op /\ req[r].at = at
Dumping(q, y) == req[q].op = "export" /\ req[q].year = y

(* Between csv_path.write_text and the metadata there is no await.          *)
HasLoop(r) == \A q \in Requests \ {r} : Process[q] = Process[r] => ~At(q, "export", "csv")

Begin(r) == req[r] = Free /\ HasLoop(r) /\ begun < MaxRequests /\ begun' = begun + 1

(* POST /vies/check: the question goes out.                                 *)
Ask(r, v) ==
  /\ Begin(r) /\ Process[r] \in Workers
  /\ req' = [req EXCEPT ![r] = [op |-> "check", at |-> "asked", vat |-> v]]
  /\ UNCHANGED <<now, booked, files, csv, meta, validations, exports, faults>>

(* The answer: from its moment a name is made, and the PDF is put.          *)
Put(r, valid) ==
  LET p == [vat |-> req[r].vat, at |-> now, valid |-> valid]
  IN /\ At(r, "check", "asked") /\ HasLoop(r)
     /\ files' = [k \in DOMAIN files \cup {Key(p)} |-> IF k = Key(p) THEN p ELSE files[k]]
     /\ req' = [req EXCEPT ![r] = [op |-> "check", at |-> "stored", vat |-> p.vat, proof |-> p]]
     /\ UNCHANGED <<now, booked, csv, meta, validations, exports, begun, faults>>

CommitCheck(r) ==
  /\ At(r, "check", "stored") /\ HasLoop(r)
  /\ validations' = validations \cup {req[r].proof}
  /\ req' = [req EXCEPT ![r] = Free]
  /\ UNCHANGED <<now, booked, files, csv, meta, exports, begun, faults>>

(* POST /datev/export, or the job: two SELECTs, each of what is committed.  *)
SelectInvoices(r, y) ==
  LET others == {q \in Requests : Dumping(q, y)}
  IN /\ Begin(r)
     /\ req' = [q \in Requests |->
          IF q = r THEN [op |-> "export", at |-> "invoices", year |-> y,
                         invoices |-> Selected("invoice", y), receipts |-> {},
                         stood |-> booked, alone |-> others = {}]
          ELSE IF q \in others THEN [req[q] EXCEPT !.alone = FALSE] ELSE req[q]]
     /\ UNCHANGED <<now, booked, files, csv, meta, validations, exports, faults>>

SelectReceipts(r) ==
  /\ At(r, "export", "invoices") /\ HasLoop(r)
  /\ req' = [req EXCEPT ![r].at = "receipts", ![r].receipts = Selected("receipt", req[r].year)]
  /\ UNCHANGED <<now, booked, files, csv, meta, validations, exports, begun, faults>>

WriteCsv(r) ==
  /\ At(r, "export", "receipts") /\ HasLoop(r)
  /\ csv' = [csv EXCEPT ![req[r].year] = Export(r)]
  /\ req' = [req EXCEPT ![r].at = "csv"]
  /\ UNCHANGED <<now, booked, files, meta, validations, exports, begun, faults>>

WriteMeta(r) ==
  /\ At(r, "export", "csv")
  /\ meta' = [meta EXCEPT ![req[r].year] = Export(r)]
  /\ req' = [req EXCEPT ![r].at = "meta"]
  /\ UNCHANGED <<now, booked, files, csv, validations, exports, begun, faults>>

(* The audit row, and the commit.                                           *)
CommitExport(r) ==
  /\ At(r, "export", "meta") /\ HasLoop(r)
  /\ exports' = exports \cup {[year |-> req[r].year, invoices |-> Export(r).invoices,
                               receipts |-> Export(r).receipts]}
  /\ req' = [req EXCEPT ![r] = Free]
  /\ UNCHANGED <<now, booked, files, csv, meta, validations, begun, faults>>

(* A VIESError, a broken connection, the death of the process: no row.      *)
Fail(r) ==
  /\ req[r] # Free /\ faults < MaxFaults /\ faults' = faults + 1
  /\ req' = [req EXCEPT ![r] = Free]
  /\ UNCHANGED <<now, booked, files, csv, meta, validations, exports, begun>>

(* A sync commits more of the year.                                         *)
Book(p) ==
  /\ p \notin booked /\ booked' = booked \cup {p}
  /\ UNCHANGED <<now, files, csv, meta, validations, exports, req, begun, faults>>

Tick ==
  /\ now # <<LastDay, SecondsADay - 1>>
  /\ now' = IF now[2] + 1 < SecondsADay THEN <<now[1], now[2] + 1>> ELSE <<now[1] + 1, 0>>
  /\ UNCHANGED <<booked, files, csv, meta, validations, exports, req, begun, faults>>

Next ==
  \/ \E r \in Requests :
       \/ \E v \in VatIds : Ask(r, v)
       \/ \E valid \in BOOLEAN : Put(r, valid)
       \/ CommitCheck(r)
       \/ \E y \in Years : SelectInvoices(r, y)
       \/ SelectReceipts(r) \/ WriteCsv(r) \/ WriteMeta(r) \/ CommitExport(r)
       \/ Fail(r)
  \/ (\E p \in Postings : Book(p))
  \/ Tick

Spec == Init /\ [][Next]_vars

-----------------------------------------------------------------------------
(* Every validation there is a row of has its proof on disk, and the file   *)
(* it names still is the proof of that id at that moment, whatever was      *)
(* checked since, at the same time, or lost.                                *)
ProofIsOwn(v) == Key(v) \in DOMAIN files /\ files[Key(v)].vat = v.vat /\ files[Key(v)].at = v.at

(* An export that commits, no other of its year having overlapped it, is on *)
(* disk: with every posting of the year that stood when it began and has a  *)
(* price, with nothing that is not booked, and with its own metadata.       *)
OfYear(P, y) == {p \in P : Date[p][1] = y}
ExportIsOwn(r) ==
  At(r, "export", "meta") /\ req[r].alone =>
    LET y == req[r].year
    IN /\ OfYear(req[r].stood \cap Priced, y) \subseteq csv[y].rows
       /\ csv[y].rows \subseteq OfYear(booked, y)
       /\ csv[y] = meta[y] /\ meta[y] = Export(r)

FilesMatchRows ==
  (\A v \in validations : ProofIsOwn(v)) /\ (\A r \in Requests : ExportIsOwn(r))

-----------------------------------------------------------------------------
(* The inductive invariant behind it, with the types.                       *)

(* A file is the proof its name tells of, and no proof is ever taken away.  *)
FilesInv ==
  /\ \A k \in DOMAIN files : Key(files[k]) = k
  /\ \A v \in validations : Key(v) \in DOMAIN files
  /\ \A r \in Requests : At(r, "check", "stored") => Key(req[r].proof) \in DOMAIN files

(* What an export has selected lies between what stood when it began and    *)
(* what is booked; and while it is alone what it wrote is what is there.    *)
SelectedInv(r) ==
  LET y == req[r].year
  IN /\ req[r].stood \subseteq booked
     /\ req[r].invoices = {p \in req[r].stood : Kind[p] = "invoice" /\ InYear(p, y)}
     /\ req[r].receipts \subseteq Selected("receipt", y)
     /\ req[r].at # "invoices" =>
          {p \in req[r].stood : Kind[p] = "receipt" /\ InYear(p, y)} \subseteq req[r].receipts
AloneInv(r) ==
  LET y == req[r].year
  IN req[r].alone =>
       /\ \A q \in Requests \ {r} : ~Dumping(q, y)
       /\ req[r].at \in {"csv", "meta"} => csv[y] = Export(r)
       /\ req[r].at = "meta" => meta[y] = Export(r)

ExportsInv == \A r \in Requests : req[r].op = "export" => SelectedInv(r) /\ AloneInv(r)

IInv == TypeOK /\ FilesInv /\ ExportsInv
=============================================================================
