-------------------------- MODULE DocumentsProofs --------------------------
(* Proofs about Documents, for every finite set of postings, any number of *)
(* requests and of years, and every value of the bounds.                    *)
EXTENDS Documents, FiniteSetTheorems, TLAPS

-----------------------------------------------------------------------------
(* Facts about the operators the model is built from.                       *)

LEMMA DateFacts ==
  ASSUME NEW p \in Postings, NEW y \in Nat
  PROVE  InYear(p, y) <=> Date[p][1] = y
<1>1. Date[p] \in Nat \X (1..12) \X (1..31)
  <2>1. Date \in [Postings -> Nat \X (1..12) \X (1..31)]
    BY PostingsAssumption
  <2>2. QED
    BY <2>1
<1>2. /\ Date[p] = <<Date[p][1], Date[p][2], Date[p][3]>>
      /\ Date[p][1] \in Nat /\ Date[p][2] \in 1..12 /\ Date[p][3] \in 1..31
  BY <1>1
<1>3. \A a \in Nat, b \in 1..12, c \in 1..31 :
        <<a, b, c>> \in {y} \X (1..12) \X (1..31) <=> a = y
  OBVIOUS
<1>4. QED
  BY <1>2, <1>3 DEF InYear

(* A name belongs to the proofs of one id at one moment.                    *)
LEMMA KeyTells ==
  ASSUME NEW v \in Proof, NEW w \in Proof, Key(v) = Key(w)
  PROVE  v.vat = w.vat /\ v.at = w.at
<1>1. v.at \in Moments /\ w.at \in Moments
  BY DEF Proof
<1>2. v.at = <<v.at[1], v.at[2]>> /\ w.at = <<w.at[1], w.at[2]>>
  BY <1>1 DEF Moments
<1>3. QED
  BY <1>2 DEF Key

(* An export counts no more than there is: its two lists share nothing.     *)
LEMMA CountsBounded ==
  ASSUME NEW I \in SUBSET Postings, NEW R \in SUBSET Postings
  PROVE  /\ Cardinality(I) \in 0..Cardinality(Postings)
         /\ Cardinality(R) \in 0..Cardinality(Postings)
         /\ I \cap R = {} => Cardinality(I) + Cardinality(R) <= Cardinality(Postings)
<1>1. IsFiniteSet(Postings) /\ IsFiniteSet(I) /\ IsFiniteSet(R)
  BY PostingsAssumption, FS_Subset
<1>2. /\ Cardinality(I) \in Nat /\ Cardinality(R) \in Nat /\ Cardinality(Postings) \in Nat
      /\ Cardinality(I) <= Cardinality(Postings) /\ Cardinality(R) <= Cardinality(Postings)
  BY <1>1, FS_CardinalityType, FS_Subset
<1>3. ASSUME I \cap R = {} PROVE Cardinality(I) + Cardinality(R) <= Cardinality(Postings)
  <2>1. Cardinality(I \cup R) = Cardinality(I) + Cardinality(R) - Cardinality(I \cap R)
    BY <1>1, FS_Union
  <2>2. Cardinality(I \cap R) = 0
    BY <1>3, FS_EmptySet
  <2>3. I \cup R \subseteq Postings
    OBVIOUS
  <2>4. Cardinality(I \cup R) <= Cardinality(Postings)
    BY <1>1, <2>3, FS_Subset
  <2>5. QED
    BY <1>2, <2>1, <2>2, <2>4
<1>4. QED
  BY <1>2, <1>3

(* A request by what it does.                                               *)
LEMMA RequestTypes ==
  ASSUME TypeOK, NEW r \in Requests
  PROVE  /\ req[r] # Free /\ req[r].op # "export" => req[r] \in Check
         /\ req[r].op = "export" => req[r] \in Dump
         /\ At(r, "check", "asked") => req[r] \in Check /\ req[r].vat \in VatIds
         /\ At(r, "check", "stored") => req[r] \in Check /\ req[r].proof \in Proof
         /\ req[r].op \in {"check", "export"} => req[r] # Free
<1>1. req[r] \in {Free} \cup Check \cup Dump
  BY DEF TypeOK
<1>2. CASE req[r] = Free
  BY <1>2 DEF Free, At
<1>3. CASE req[r] \in Check
  BY <1>3 DEF Check, At, Free
<1>4. CASE req[r] \in Dump
  BY <1>4 DEF Dump, At, Free
<1>5. QED
  BY <1>1, <1>2, <1>3, <1>4

LEMMA ExportType ==
  ASSUME TypeOK, NEW r \in Requests, req[r].op = "export"
  PROVE  Export(r) \in Exports
<1>1. req[r] \in Dump
  BY RequestTypes
<1>2. req[r].invoices \in SUBSET Postings /\ req[r].receipts \in SUBSET Postings
  BY <1>1 DEF Dump
<1>3. QED
  BY <1>2, CountsBounded DEF Export, Exports

-----------------------------------------------------------------------------
(* What a step of one request leaves of the requests: those of the others.  *)
LEMMA Freed ==
  ASSUME TypeOK, NEW r \in Requests, req' = [req EXCEPT ![r] = Free]
  PROVE  /\ req' \in [Requests -> {Free} \cup Check \cup Dump] /\ req'[r] = Free
         /\ req'[r].op = "none"
         /\ \A q \in Requests \ {r} : req'[q] = req[q]
BY DEF TypeOK, Free

LEMMA DumpGoesOn ==
  ASSUME TypeOK, NEW r \in Requests, req[r].op = "export",
         NEW at \in {"csv", "meta"}, req' = [req EXCEPT ![r].at = at]
  PROVE  /\ req' \in [Requests -> {Free} \cup Check \cup Dump]
         /\ req'[r].op = "export" /\ req'[r].at = at /\ req'[r].year = req[r].year
         /\ req'[r].invoices = req[r].invoices /\ req'[r].receipts = req[r].receipts
         /\ req'[r].stood = req[r].stood /\ req'[r].alone = req[r].alone
         /\ \A q \in Requests \ {r} : req'[q] = req[q]
<1>1. req[r] \in Dump
  BY RequestTypes
<1> DEFINE new == [req[r] EXCEPT !.at = at]
<1>2. /\ new \in Dump /\ new.op = "export" /\ new.at = at /\ new.year = req[r].year
      /\ new.invoices = req[r].invoices /\ new.receipts = req[r].receipts
      /\ new.stood = req[r].stood /\ new.alone = req[r].alone
  BY <1>1 DEF Dump
<1>3. req' = [req EXCEPT ![r] = new]
  OBVIOUS
<1> HIDE DEF new
<1>4. QED
  BY <1>2, <1>3 DEF TypeOK

LEMMA SelectedMore ==
  ASSUME TypeOK, NEW r \in Requests, SelectReceipts(r)
  PROVE  /\ req' \in [Requests -> {Free} \cup Check \cup Dump]
         /\ req'[r].op = "export" /\ req'[r].at = "receipts" /\ req'[r].year = req[r].year
         /\ req'[r].invoices = req[r].invoices
         /\ req'[r].receipts = Selected("receipt", req[r].year)
         /\ req'[r].stood = req[r].stood /\ req'[r].alone = req[r].alone
         /\ \A q \in Requests \ {r} : req'[q] = req[q]
<1>1. req[r] \in Dump
  BY RequestTypes DEF SelectReceipts, At
<1>2. PICK R \in SUBSET Postings : R = Selected("receipt", req[r].year)
  BY DEF Selected, TypeOK
<1> DEFINE new == [req[r] EXCEPT !.at = "receipts", !.receipts = R]
<1>3. /\ new \in Dump /\ new.op = "export" /\ new.at = "receipts" /\ new.year = req[r].year
      /\ new.invoices = req[r].invoices /\ new.receipts = R
      /\ new.stood = req[r].stood /\ new.alone = req[r].alone
  BY <1>1 DEF Dump
<1>4. req' = [req EXCEPT ![r] = new]
  BY <1>2 DEF SelectReceipts
<1> HIDE DEF new
<1>5. QED
  BY <1>2, <1>3, <1>4 DEF TypeOK

(* An export that begins: whoever dumps the same year is alone no more.     *)
LEMMA SelectedFirst ==
  ASSUME TypeOK, NEW r \in Requests, NEW y \in Years, SelectInvoices(r, y)
  PROVE  /\ req' \in [Requests -> {Free} \cup Check \cup Dump]
         /\ req'[r].op = "export" /\ req'[r].at = "invoices" /\ req'[r].year = y
         /\ req'[r].invoices = Selected("invoice", y) /\ req'[r].receipts = {}
         /\ req'[r].stood = booked
         /\ req'[r].alone <=> \A q \in Requests : ~Dumping(q, y)
         /\ \A q \in Requests \ {r} : ~Dumping(q, y) => req'[q] = req[q]
         /\ \A q \in Requests \ {r} : Dumping(q, y) =>
              /\ req'[q].op = "export" /\ req'[q].at = req[q].at /\ req'[q].year = req[q].year
              /\ req'[q].invoices = req[q].invoices /\ req'[q].receipts = req[q].receipts
              /\ req'[q].stood = req[q].stood /\ req'[q].alone = FALSE
<1> DEFINE others == {q \in Requests : Dumping(q, y)}
<1>1. PICK I \in SUBSET Postings : I = Selected("invoice", y)
  BY DEF Selected, TypeOK
<1>2. PICK b \in BOOLEAN : b = (others = {})
  OBVIOUS
<1> DEFINE new == [op |-> "export", at |-> "invoices", year |-> y, invoices |-> I,
                   receipts |-> {}, stood |-> booked, alone |-> b]
           less(q) == [req[q] EXCEPT !.alone = FALSE]
<1>3. new \in Dump
  BY DEF Dump, TypeOK
<1>4. \A q \in others :
        /\ less(q) \in Dump
        /\ less(q).op = "export" /\ less(q).at = req[q].at /\ less(q).year = req[q].year
        /\ less(q).invoices = req[q].invoices /\ less(q).receipts = req[q].receipts
        /\ less(q).stood = req[q].stood /\ less(q).alone = FALSE
  <2> TAKE q \in others
  <2>1. req[q] \in Dump /\ req[q].op = "export"
    BY RequestTypes DEF Dumping
  <2>2. QED
    BY <2>1 DEF Dump
<1>5. req' = [q \in Requests |-> IF q = r THEN new ELSE IF q \in others THEN less(q) ELSE req[q]]
  BY <1>1, <1>2 DEF SelectInvoices
<1>6. /\ new.op = "export" /\ new.at = "invoices" /\ new.year = y /\ new.invoices = I
      /\ new.receipts = {} /\ new.stood = booked /\ new.alone = b
  OBVIOUS
<1> HIDE DEF new, less
<1>7. req' \in [Requests -> {Free} \cup Check \cup Dump]
  BY <1>3, <1>4, <1>5 DEF TypeOK
<1>8. /\ req'[r] = new
      /\ \A q \in Requests \ {r} : ~Dumping(q, y) => req'[q] = req[q]
      /\ \A q \in Requests \ {r} : Dumping(q, y) => q \in others /\ req'[q] = less(q)
  BY <1>5
<1>9. b <=> \A q \in Requests : ~Dumping(q, y)
  BY <1>2
<1>10. QED
  BY <1>1, <1>4, <1>6, <1>7, <1>8, <1>9

-----------------------------------------------------------------------------
(* Type correctness.                                                        *)
LEMMA InitTypeOK == Init => TypeOK
<1> SUFFICES ASSUME Init PROVE TypeOK
  OBVIOUS
<1>1. Nothing \in Exports
  <2>1. IsFiniteSet(Postings) /\ Cardinality(Postings) \in Nat
    BY PostingsAssumption, FS_CardinalityType
  <2>2. QED
    BY <2>1 DEF Nothing, Exports
<1>2. <<0, 0>> \in Moments
  <2>1. 0 \in 0..LastDay /\ 0 \in 0..(SecondsADay - 1)
    BY BoundsAssumption
  <2>2. QED
    BY <2>1 DEF Moments
<1>3. QED
  BY <1>1, <1>2, BoundsAssumption DEF Init, TypeOK

(* The lists of an export share no posting.                                 *)
LEMMA ListsApart ==
  ASSUME TypeOK, NEW r \in Requests, req[r].op = "export", SelectedInv(r)
  PROVE  Export(r).invoices + Export(r).receipts <= Cardinality(Postings)
<1>1. req[r].invoices \in SUBSET Postings /\ req[r].receipts \in SUBSET Postings
  BY RequestTypes DEF Dump
<1>2. req[r].invoices \cap req[r].receipts = {}
  BY DEF SelectedInv, Selected
<1>3. QED
  BY <1>1, <1>2, CountsBounded DEF Export

LEMMA NextMoment ==
  ASSUME now \in Moments, Tick
  PROVE  now' \in Moments
<1>1. /\ now = <<now[1], now[2]>> /\ now[1] \in 0..LastDay /\ now[2] \in 0..(SecondsADay - 1)
      /\ LastDay \in Nat /\ SecondsADay \in Nat \ {0}
  BY BoundsAssumption DEF Moments
<1>2. CASE now[2] + 1 < SecondsADay
  <2>1. now' = <<now[1], now[2] + 1>> /\ now[2] + 1 \in 0..(SecondsADay - 1)
    BY <1>1, <1>2 DEF Tick
  <2>2. QED
    BY <1>1, <2>1 DEF Moments
<1>3. CASE ~(now[2] + 1 < SecondsADay)
  <2>1. now[2] = SecondsADay - 1
    BY <1>1, <1>3
  <2>2. now[1] # LastDay
    BY <1>1, <2>1 DEF Tick
  <2>3. now' = <<now[1] + 1, 0>> /\ now[1] + 1 \in 0..LastDay /\ 0 \in 0..(SecondsADay - 1)
    BY <1>1, <1>3, <2>2 DEF Tick
  <2>4. QED
    BY <2>3 DEF Moments
<1>4. QED
  BY <1>2, <1>3

LEMMA StepTypeOK == TypeOK /\ ExportsInv /\ [Next]_vars => TypeOK'
<1> SUFFICES ASSUME TypeOK, ExportsInv, [Next]_vars PROVE TypeOK'
  OBVIOUS
<1>0. ASSUME NEW r \in Requests, Begin(r) PROVE begun' \in 0..MaxRequests
  BY <1>0, BoundsAssumption DEF Begin, TypeOK
<1>1. ASSUME NEW r \in Requests, NEW v \in VatIds, Ask(r, v) PROVE TypeOK'
  <2>1. [op |-> "check", at |-> "asked", vat |-> v] \in Check
    BY DEF Check
  <2>2. req' \in [Requests -> {Free} \cup Check \cup Dump]
    BY <1>1, <2>1 DEF Ask, TypeOK
  <2>3. QED
    BY <1>0, <1>1, <2>2 DEF Ask, TypeOK
<1>2. ASSUME NEW r \in Requests, NEW valid \in BOOLEAN, Put(r, valid) PROVE TypeOK'
  <2> DEFINE p == [vat |-> req[r].vat, at |-> now, valid |-> valid]
  <2>1. p \in Proof /\ p.vat = req[r].vat
    BY <1>2, RequestTypes DEF Put, Proof, TypeOK
  <2>2. [op |-> "check", at |-> "stored", vat |-> p.vat, proof |-> p] \in Check
    BY <2>1 DEF Check, Proof
  <2>3. req' \in [Requests -> {Free} \cup Check \cup Dump]
    BY <1>2, <2>2 DEF Put, TypeOK
  <2>4. files' = [k \in DOMAIN files \cup {Key(p)} |-> IF k = Key(p) THEN p ELSE files[k]]
    BY <1>2 DEF Put
  <2> HIDE DEF p
  <2>5. \A k \in DOMAIN files' : files'[k] \in Proof
    BY <2>1, <2>4 DEF TypeOK
  <2>6. QED
    BY <1>2, <2>3, <2>5 DEF Put, TypeOK
<1>3. ASSUME NEW r \in Requests, CommitCheck(r) PROVE TypeOK'
  <2>1. req[r].proof \in Proof
    BY <1>3, RequestTypes DEF CommitCheck
  <2>2. QED
    BY <1>3, <2>1, Freed DEF CommitCheck, TypeOK
<1>4. ASSUME NEW r \in Requests, NEW y \in Years, SelectInvoices(r, y) PROVE TypeOK'
  BY <1>0, <1>4, SelectedFirst DEF SelectInvoices, TypeOK
<1>5. ASSUME NEW r \in Requests, SelectReceipts(r) PROVE TypeOK'
  BY <1>5, SelectedMore DEF SelectReceipts, TypeOK
<1>6. ASSUME NEW r \in Requests, WriteCsv(r) PROVE TypeOK'
  <2>1. req[r].op = "export" /\ Export(r) \in Exports
    BY <1>6, ExportType DEF WriteCsv, At
  <2>2. req' \in [Requests -> {Free} \cup Check \cup Dump]
    BY <1>6, <2>1, DumpGoesOn DEF WriteCsv
  <2>3. csv' \in [Years -> Exports]
    BY <1>6, <2>1 DEF WriteCsv, TypeOK
  <2>4. QED
    BY <1>6, <2>2, <2>3 DEF WriteCsv, TypeOK
<1>7. ASSUME NEW r \in Requests, WriteMeta(r) PROVE TypeOK'
  <2>1. req[r].op = "export" /\ Export(r) \in Exports
    BY <1>7, ExportType DEF WriteMeta, At
  <2>2. req' \in [Requests -> {Free} \cup Check \cup Dump]
    BY <1>7, <2>1, DumpGoesOn DEF WriteMeta
  <2>3. meta' \in [Years -> Exports]
    BY <1>7, <2>1 DEF WriteMeta, TypeOK
  <2>4. QED
    BY <1>7, <2>2, <2>3 DEF WriteMeta, TypeOK
<1>8. ASSUME NEW r \in Requests, CommitExport(r) PROVE TypeOK'
  <2>1. req[r].op = "export" /\ req[r].year \in Years
    BY <1>8, RequestTypes DEF CommitExport, At, Dump
  <2>2. Export(r).invoices + Export(r).receipts <= Cardinality(Postings)
    BY <2>1, ListsApart DEF ExportsInv
  <2>3. \A e \in exports' : e.year \in Years /\ e.invoices + e.receipts <= Cardinality(Postings)
    BY <1>8, <2>1, <2>2 DEF CommitExport, TypeOK
  <2>4. req' \in [Requests -> {Free} \cup Check \cup Dump]
    BY <1>8, Freed DEF CommitExport
  <2>5. QED
    BY <1>8, <2>3, <2>4 DEF CommitExport, TypeOK
<1>9. ASSUME NEW r \in Requests, Fail(r) PROVE TypeOK'
  <2>1. req' \in [Requests -> {Free} \cup Check \cup Dump]
    BY <1>9, Freed DEF Fail
  <2>2. faults' \in 0..MaxFaults
    BY <1>9, BoundsAssumption DEF Fail, TypeOK
  <2>3. QED
    BY <1>9, <2>1, <2>2 DEF Fail, TypeOK
<1>10. ASSUME NEW p \in Postings, Book(p) PROVE TypeOK'
  BY <1>10 DEF Book, TypeOK
<1>11. ASSUME Tick PROVE TypeOK'
  <2>1. now' \in Moments
    BY <1>11, NextMoment DEF TypeOK
  <2>2. QED
    BY <1>11, <2>1 DEF Tick, TypeOK
<1>12. CASE UNCHANGED vars
  BY <1>12 DEF vars, TypeOK
<1>13. QED
  BY <1>1, <1>2, <1>3, <1>4, <1>5, <1>6, <1>7, <1>8, <1>9, <1>10, <1>11, <1>12 DEF Next

-----------------------------------------------------------------------------
(* The proofs of VAT ids.                                                   *)
LEMMA InitFilesInv == Init => FilesInv
BY DEF Init, FilesInv, At, Free

LEMMA StepFilesInv == TypeOK /\ FilesInv /\ [Next]_vars => FilesInv'
<1> SUFFICES ASSUME TypeOK, FilesInv, [Next]_vars PROVE FilesInv'
  OBVIOUS
<1>0. ASSUME UNCHANGED <<files, validations>>,
             \A r \in Requests : At(r, "check", "stored")' =>
               At(r, "check", "stored") /\ req'[r] = req[r]
      PROVE  FilesInv'
  BY <1>0 DEF FilesInv
<1>1. ASSUME NEW r \in Requests, NEW v \in VatIds, Ask(r, v) PROVE FilesInv'
  <2>1. req'[r].at = "asked" /\ \A q \in Requests \ {r} : req'[q] = req[q]
    BY <1>1 DEF Ask, TypeOK
  <2>2. QED
    BY <1>0, <1>1, <2>1 DEF Ask, At
<1>2. ASSUME NEW r \in Requests, NEW valid \in BOOLEAN, Put(r, valid) PROVE FilesInv'
  <2> DEFINE p == [vat |-> req[r].vat, at |-> now, valid |-> valid]
  <2>1. /\ files' = [k \in DOMAIN files \cup {Key(p)} |-> IF k = Key(p) THEN p ELSE files[k]]
        /\ req'[r].proof = p /\ \A q \in Requests \ {r} : req'[q] = req[q]
        /\ validations' = validations
    BY <1>2 DEF Put, TypeOK
  <2> HIDE DEF p
  <2>2. /\ DOMAIN files' = DOMAIN files \cup {Key(p)} /\ files'[Key(p)] = p
        /\ \A k \in DOMAIN files : k # Key(p) => files'[k] = files[k]
    BY <2>1
  <2>3. \A k \in DOMAIN files' : Key(files'[k]) = k
    BY <2>2 DEF FilesInv
  <2>4. \A v \in validations' : Key(v) \in DOMAIN files'
    BY <2>1, <2>2 DEF FilesInv
  <2>5. \A q \in Requests : At(q, "check", "stored")' => Key(req'[q].proof) \in DOMAIN files'
    BY <2>1, <2>2 DEF FilesInv, At
  <2>6. QED
    BY <2>3, <2>4, <2>5 DEF FilesInv, Key
<1>3. ASSUME NEW r \in Requests, CommitCheck(r) PROVE FilesInv'
  <2>1. req'[r].op = "none" /\ \A q \in Requests \ {r} : req'[q] = req[q]
    BY <1>3, Freed DEF CommitCheck
  <2>2. validations' = validations \cup {req[r].proof} /\ files' = files
        /\ Key(req[r].proof) \in DOMAIN files
    BY <1>3 DEF CommitCheck, FilesInv
  <2>3. QED
    BY <2>1, <2>2 DEF FilesInv, At
<1>4. ASSUME NEW r \in Requests, NEW y \in Years, SelectInvoices(r, y) PROVE FilesInv'
  <2>1. \A q \in Requests : req'[q].op = "export" \/ req'[q] = req[q]
    BY <1>4, SelectedFirst
  <2>2. QED
    BY <1>0, <1>4, <2>1 DEF SelectInvoices, At
<1>5. ASSUME NEW r \in Requests, SelectReceipts(r) PROVE FilesInv'
  BY <1>0, <1>5, SelectedMore DEF SelectReceipts, At
<1>6. ASSUME NEW r \in Requests, WriteCsv(r) PROVE FilesInv'
  BY <1>0, <1>6, DumpGoesOn DEF WriteCsv, At
<1>7. ASSUME NEW r \in Requests, WriteMeta(r) PROVE FilesInv'
  BY <1>0, <1>7, DumpGoesOn DEF WriteMeta, At
<1>8. ASSUME NEW r \in Requests, CommitExport(r) PROVE FilesInv'
  BY <1>0, <1>8, Freed DEF CommitExport, At
<1>9. ASSUME NEW r \in Requests, Fail(r) PROVE FilesInv'
  BY <1>0, <1>9, Freed DEF Fail, At
<1>10. ASSUME NEW p \in Postings, Book(p) PROVE FilesInv'
  BY <1>0, <1>10 DEF Book, At
<1>11. ASSUME Tick PROVE FilesInv'
  BY <1>0, <1>11 DEF Tick, At
<1>12. CASE UNCHANGED vars
  BY <1>0, <1>12 DEF vars, At
<1>13. QED
  BY <1>1, <1>2, <1>3, <1>4, <1>5, <1>6, <1>7, <1>8, <1>9, <1>10, <1>11, <1>12 DEF Next

-----------------------------------------------------------------------------
(* The exports.                                                             *)
LEMMA InitExportsInv == Init => ExportsInv
BY DEF Init, ExportsInv, Free

(* An export another step passes over: nobody else has begun to dump its    *)
(* year, and nobody has written its files.                                  *)
LEMMA PassedOver ==
  ASSUME ExportsInv, NEW q \in Requests, req'[q] = req[q], req[q].op = "export",
         booked \subseteq booked',
         csv'[req[q].year] = csv[req[q].year] \/ ~req[q].alone,
         meta'[req[q].year] = meta[req[q].year] \/ ~req[q].alone,
         \A r \in Requests \ {q} : Dumping(r, req[q].year)' => Dumping(r, req[q].year)
                                   \/ ~req[q].alone
  PROVE  SelectedInv(q)' /\ AloneInv(q)'
<1>1. SelectedInv(q) /\ AloneInv(q)
  BY DEF ExportsInv
<1>2. SelectedInv(q)'
  BY <1>1 DEF SelectedInv, Selected, InYear
<1>3. Export(q)' = Export(q)
  BY DEF Export
<1>4. AloneInv(q)'
  BY <1>1, <1>3 DEF AloneInv, Dumping
<1>5. QED
  BY <1>2, <1>4

LEMMA StepExportsInv == TypeOK /\ ExportsInv /\ [Next]_vars => ExportsInv'
<1> SUFFICES ASSUME TypeOK, ExportsInv, [Next]_vars PROVE ExportsInv'
  OBVIOUS
(* Steps that write no export and leave the exports in progress alone.      *)
<1>0. ASSUME NEW r \in Requests, booked \subseteq booked', UNCHANGED <<csv, meta>>,
             req'[r].op # "export", \A q \in Requests \ {r} : req'[q] = req[q]
      PROVE  ExportsInv'
  <2> SUFFICES ASSUME NEW q \in Requests, req'[q].op = "export"
               PROVE  SelectedInv(q)' /\ AloneInv(q)'
    BY DEF ExportsInv
  <2>1. q # r /\ req'[q] = req[q] /\ req[q].op = "export"
    BY <1>0
  <2>2. \A p \in Requests \ {q} : Dumping(p, req[q].year)' => Dumping(p, req[q].year)
    BY <1>0, <2>1 DEF Dumping
  <2>3. QED
    BY <1>0, <2>1, <2>2, PassedOver
<1>1. ASSUME NEW r \in Requests, NEW v \in VatIds, Ask(r, v) PROVE ExportsInv'
  <2>1. req'[r].op = "check" /\ \A q \in Requests \ {r} : req'[q] = req[q]
    BY <1>1 DEF Ask, TypeOK
  <2>2. QED
    BY <1>0, <1>1, <2>1 DEF Ask
<1>2. ASSUME NEW r \in Requests, NEW valid \in BOOLEAN, Put(r, valid) PROVE ExportsInv'
  <2>1. req'[r].op = "check" /\ \A q \in Requests \ {r} : req'[q] = req[q]
    BY <1>2 DEF Put, TypeOK
  <2>2. QED
    BY <1>0, <1>2, <2>1 DEF Put
<1>3. ASSUME NEW r \in Requests, CommitCheck(r) PROVE ExportsInv'
  BY <1>0, <1>3, Freed DEF CommitCheck
<1>4. ASSUME NEW r \in Requests, NEW y \in Years, SelectInvoices(r, y) PROVE ExportsInv'
  <2> SUFFICES ASSUME NEW q \in Requests, req'[q].op = "export"
               PROVE  SelectedInv(q)' /\ AloneInv(q)'
    BY DEF ExportsInv
  <2>0. UNCHANGED <<booked, csv, meta>>
    BY <1>4 DEF SelectInvoices
  <2>1. CASE q = r
    <3>1. /\ req'[q].at = "invoices" /\ req'[q].year = y /\ req'[q].stood = booked
          /\ req'[q].invoices = Selected("invoice", y) /\ req'[q].receipts = {}
          /\ req'[q].alone => \A p \in Requests : ~Dumping(p, y)
          /\ \A p \in Requests \ {q} : ~Dumping(p, y) => req'[p] = req[p]
      BY <1>4, <2>1, SelectedFirst
    <3>2. SelectedInv(q)'
      <4>1. req'[q].invoices = {p \in req'[q].stood : Kind[p] = "invoice" /\ InYear(p, req'[q].year)}
        BY <3>1 DEF Selected
      <4>2. req'[q].stood \subseteq booked' /\ req'[q].receipts = {} /\ req'[q].at = "invoices"
        BY <2>0, <3>1
      <4>3. QED
        BY <4>1, <4>2 DEF SelectedInv, InYear
    <3>3. ASSUME req'[q].alone, NEW p \in Requests \ {q} PROVE ~Dumping(p, req[q].year)'
      <4>1. req'[p] = req[p] /\ ~Dumping(p, y)
        BY <3>1, <3>3
      <4>2. QED
        BY <3>1, <4>1 DEF Dumping
    <3>4. AloneInv(q)'
      BY <3>1, <3>3 DEF AloneInv
    <3>5. QED
      BY <3>2, <3>4
  <2>2. CASE q # r /\ ~Dumping(q, y)
    <3>0. /\ \A p \in Requests \ {r} : ~Dumping(p, y) => req'[p] = req[p]
          /\ \A p \in Requests \ {r} : Dumping(p, y) => req'[p].year = req[p].year
          /\ req'[r].year = y
      BY <1>4, SelectedFirst
    <3>1. req'[q] = req[q] /\ req[q].op = "export" /\ req[q].year # y
      BY <2>2, <3>0 DEF Dumping
    <3>2. ASSUME NEW p \in Requests \ {q}, Dumping(p, req[q].year)'
          PROVE  Dumping(p, req[q].year)
      <4>1. p # r /\ req'[p].year = req[q].year /\ req'[p].op = "export"
        BY <3>0, <3>1, <3>2 DEF Dumping
      <4>2. ~Dumping(p, y)
        BY <3>0, <3>1, <4>1 DEF Dumping
      <4>3. QED
        BY <3>0, <4>1, <4>2 DEF Dumping
    <3>3. QED
      BY <2>0, <3>1, <3>2, PassedOver
  <2>3. CASE q # r /\ Dumping(q, y)
    <3>1. /\ req'[q].at = req[q].at /\ req'[q].year = req[q].year
          /\ req'[q].invoices = req[q].invoices /\ req'[q].receipts = req[q].receipts
          /\ req'[q].stood = req[q].stood /\ req'[q].alone = FALSE
      BY <1>4, <2>3, SelectedFirst
    <3>2. SelectedInv(q)
      BY <2>3 DEF ExportsInv, Dumping
    <3>3. SelectedInv(q)'
      BY <2>0, <3>1, <3>2 DEF SelectedInv, Selected, InYear
    <3>4. QED
      BY <3>1, <3>3 DEF AloneInv
  <2>4. QED
    BY <2>1, <2>2, <2>3
(* The steps of an export from its first list to its metadata: the others   *)
(* are passed over, and those of its year are not alone.                    *)
<1>5. ASSUME NEW r \in Requests, req[r].op = "export", req'[r].op = "export",
             req'[r].year = req[r].year, booked' = booked,
             \A q \in Requests \ {r} : req'[q] = req[q],
             \A y : y # req[r].year => csv'[y] = csv[y] /\ meta'[y] = meta[y],
             SelectedInv(r)' /\ AloneInv(r)'
      PROVE  ExportsInv'
  <2> SUFFICES ASSUME NEW q \in Requests, req'[q].op = "export", q # r
               PROVE  SelectedInv(q)' /\ AloneInv(q)'
    BY <1>5 DEF ExportsInv
  <2>1. req'[q] = req[q] /\ req[q].op = "export"
    BY <1>5
  <2>2. req[q].year = req[r].year => ~req[q].alone
    BY <1>5, <2>1 DEF ExportsInv, AloneInv, Dumping
  <2>3. \A p \in Requests \ {q} : Dumping(p, req[q].year)' => Dumping(p, req[q].year)
    BY <1>5, <2>1 DEF Dumping
  <2>4. QED
    BY <1>5, <2>1, <2>2, <2>3, PassedOver
<1>6. ASSUME NEW r \in Requests, SelectReceipts(r) PROVE ExportsInv'
  <2>1. /\ req[r].op = "export" /\ req[r].at = "invoices" /\ UNCHANGED <<booked, csv, meta>>
        /\ SelectedInv(r) /\ AloneInv(r)
    BY <1>6 DEF SelectReceipts, At, ExportsInv
  <2>2. /\ req'[r].op = "export" /\ req'[r].at = "receipts" /\ req'[r].year = req[r].year
        /\ req'[r].invoices = req[r].invoices
        /\ req'[r].receipts = Selected("receipt", req[r].year)
        /\ req'[r].stood = req[r].stood /\ req'[r].alone = req[r].alone
        /\ \A q \in Requests \ {r} : req'[q] = req[q]
    BY <1>6, SelectedMore
  <2>3. SelectedInv(r)'
    BY <2>1, <2>2 DEF SelectedInv, Selected, InYear
  <2>4. AloneInv(r)'
    BY <2>1, <2>2 DEF AloneInv, Dumping
  <2>5. QED
    BY <1>5, <2>1, <2>2, <2>3, <2>4
<1>7. ASSUME NEW r \in Requests, NEW at \in {"csv", "meta"}, req[r].op = "export",
             req[r].at # "invoices", req' = [req EXCEPT ![r].at = at], booked' = booked,
             \A y : y # req[r].year => csv'[y] = csv[y] /\ meta'[y] = meta[y],
             req[r].alone => csv'[req[r].year] = Export(r),
             req[r].alone /\ at = "meta" => meta'[req[r].year] = Export(r)
      PROVE  ExportsInv'
  <2>1. /\ req'[r].op = "export" /\ req'[r].at = at /\ req'[r].year = req[r].year
        /\ req'[r].invoices = req[r].invoices /\ req'[r].receipts = req[r].receipts
        /\ req'[r].stood = req[r].stood /\ req'[r].alone = req[r].alone
        /\ \A q \in Requests \ {r} : req'[q] = req[q]
    BY <1>7, DumpGoesOn
  <2>2. SelectedInv(r) /\ AloneInv(r)
    BY <1>7 DEF ExportsInv
  <2>3. Export(r)' = Export(r)
    BY <2>1 DEF Export
  <2>4. SelectedInv(r)'
    BY <1>7, <2>1, <2>2 DEF SelectedInv, Selected, InYear
  <2>5. AloneInv(r)'
    BY <1>7, <2>1, <2>2, <2>3 DEF AloneInv, Dumping
  <2>6. QED
    BY <1>5, <1>7, <2>1, <2>4, <2>5
<1>8. ASSUME NEW r \in Requests, WriteCsv(r) PROVE ExportsInv'
  <2>1. /\ req[r].op = "export" /\ req[r].at = "receipts" /\ req[r].year \in Years
        /\ booked' = booked /\ meta' = meta /\ req' = [req EXCEPT ![r].at = "csv"]
    BY <1>8, RequestTypes DEF WriteCsv, At, Dump
  <2>2. csv'[req[r].year] = Export(r) /\ \A y : y # req[r].year => csv'[y] = csv[y]
    BY <1>8, <2>1 DEF WriteCsv, TypeOK
  <2>3. QED
    BY <1>7, <2>1, <2>2
<1>9. ASSUME NEW r \in Requests, WriteMeta(r) PROVE ExportsInv'
  <2>1. /\ req[r].op = "export" /\ req[r].at = "csv" /\ req[r].year \in Years
        /\ booked' = booked /\ csv' = csv /\ req' = [req EXCEPT ![r].at = "meta"]
    BY <1>9, RequestTypes DEF WriteMeta, At, Dump
  <2>2. meta'[req[r].year] = Export(r) /\ \A y : y # req[r].year => meta'[y] = meta[y]
    BY <1>9, <2>1 DEF WriteMeta, TypeOK
  <2>3. req[r].alone => csv[req[r].year] = Export(r)
    BY <2>1 DEF ExportsInv, AloneInv
  <2>4. QED
    BY <1>7, <2>1, <2>2, <2>3
<1>10. ASSUME NEW r \in Requests, CommitExport(r) PROVE ExportsInv'
  BY <1>0, <1>10, Freed DEF CommitExport
<1>11. ASSUME NEW r \in Requests, Fail(r) PROVE ExportsInv'
  BY <1>0, <1>11, Freed DEF Fail
<1>12. ASSUME req' = req, booked \subseteq booked', UNCHANGED <<csv, meta>> PROVE ExportsInv'
  BY <1>12, PassedOver DEF ExportsInv, Dumping
<1>13. QED
  BY <1>1, <1>2, <1>3, <1>4, <1>6, <1>8, <1>9, <1>10, <1>11, <1>12
     DEF Next, Book, Tick, vars

-----------------------------------------------------------------------------
(* What the invariant says of the files.                                    *)
LEMMA ProofsAreOwn ==
  ASSUME IInv, NEW v \in validations
  PROVE  ProofIsOwn(v)
<1>1. /\ Key(v) \in DOMAIN files /\ files[Key(v)] \in Proof /\ v \in Proof
      /\ Key(files[Key(v)]) = Key(v)
  BY DEF IInv, TypeOK, FilesInv
<1>2. files[Key(v)].vat = v.vat /\ files[Key(v)].at = v.at
  BY <1>1, KeyTells
<1>3. QED
  BY <1>1, <1>2 DEF ProofIsOwn

LEMMA ExportsAreOwn ==
  ASSUME IInv, NEW r \in Requests
  PROVE  ExportIsOwn(r)
<1> SUFFICES ASSUME At(r, "export", "meta"), req[r].alone PROVE ExportIsOwn(r)
  BY DEF ExportIsOwn
<1> DEFINE y == req[r].year
<1>1. req[r] \in Dump /\ req[r].op = "export" /\ req[r].at = "meta"
  BY RequestTypes DEF IInv, At
<1>2. y \in Years /\ y \in Nat /\ req[r].stood \subseteq Postings /\ booked \subseteq Postings
  BY <1>1, PostingsAssumption DEF Dump, IInv, TypeOK
<1>3. SelectedInv(r) /\ csv[y] = Export(r) /\ meta[y] = Export(r)
  BY <1>1 DEF IInv, ExportsInv, AloneInv
<1>4. Export(r).rows = (req[r].invoices \cup req[r].receipts) \cap Priced
  BY DEF Export
<1>5. \A p \in Postings : InYear(p, y) <=> Date[p][1] = y
  BY <1>2, DateFacts
<1>6. \A p \in Postings : Kind[p] = "invoice" \/ Kind[p] = "receipt"
  BY PostingsAssumption
<1> HIDE DEF y
<1>7. ASSUME NEW p \in OfYear(req[r].stood \cap Priced, y) PROVE p \in Export(r).rows
  <2>1. p \in req[r].stood /\ p \in Priced /\ p \in Postings /\ InYear(p, y)
    BY <1>2, <1>5 DEF OfYear
  <2>2. p \in req[r].invoices \cup req[r].receipts
    BY <1>1, <1>3, <1>6, <2>1 DEF SelectedInv, y
  <2>3. QED
    BY <1>4, <2>1, <2>2
<1>8. ASSUME NEW p \in Export(r).rows PROVE p \in OfYear(booked, y)
  <2>1. p \in req[r].invoices \cup req[r].receipts
    BY <1>4
  <2>2. p \in booked /\ InYear(p, y)
    BY <1>3, <2>1 DEF SelectedInv, Selected, y
  <2>3. QED
    BY <1>2, <1>5, <2>2 DEF OfYear
<1>9. QED
  BY <1>3, <1>7, <1>8 DEF ExportIsOwn, y

(* IInv holds at first, and no request, job, fault or sync breaks it.       *)
THEOREM InductiveInvariantThm == Spec => []IInv
<1>1. Init => IInv
  BY InitTypeOK, InitFilesInv, InitExportsInv DEF IInv
<1>2. IInv /\ [Next]_vars => IInv'
  BY StepTypeOK, StepFilesInv, StepExportsInv DEF IInv
<1>3. QED
  BY <1>1, <1>2, PTL DEF Spec

(* The files, the rows and the requests keep their types; an export counts  *)
(* no posting twice.                                                        *)
THEOREM TypeCorrect == Spec => []TypeOK
<1>1. IInv => TypeOK
  BY DEF IInv
<1>2. QED
  BY <1>1, InductiveInvariantThm, PTL

(* The files on disk are what the rows say they are: the proof of every     *)
(* validation is its own, and an export that none of its year overlapped is *)
(* complete, invents nothing and has its own metadata.                      *)
THEOREM FilesMatchRowsThm == Spec => []FilesMatchRows
<1>1. IInv => FilesMatchRows
  BY ProofsAreOwn, ExportsAreOwn DEF FilesMatchRows
<1>2. QED
  BY <1>1, InductiveInvariantThm, PTL
=============================================================================
