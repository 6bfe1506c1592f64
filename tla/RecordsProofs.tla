--------------------------- MODULE RecordsProofs ---------------------------
(* Proofs about Records, for every set of rows, every table of each, any    *)
(* number of connections and every value of the bounds: the types, the      *)
(* references and the audit log, from one inductive invariant.              *)
EXTENDS Records, SequenceTheorems, TLAPS

-----------------------------------------------------------------------------
(* Facts about the operators the model is built from.                       *)

LEMMA RowsFacts ==
  /\ KindOf \in [Rows -> Kinds] /\ DOMAIN Seed \subseteq Rows
  /\ \A x \in DOMAIN Seed : Seed[x] \subseteq MayRefer(x) /\ Seed[x] \subseteq DOMAIN Seed
  /\ \A x \in Rows : MayRefer(x) \subseteq Rows
  /\ MaxRequests \in Nat /\ MaxFaults \in Nat
BY RowsAssumption, BoundsAssumption DEF MayRefer

LEMMA FreeType == Free \in Request /\ Free.at = "free"
<1>1. (CHOOSE x \in Rows : TRUE) \in Rows
  BY RowsAssumption
<1>2. QED
  BY <1>1 DEF Free, Request, Ops, Writes, Values

LEMMA RequestType ==
  ASSUME NEW f \in Request
  PROVE  /\ f.at \in {"free", "loaded", "gathered", "flushed"} /\ f.op \in Ops /\ f.row \in Rows
         /\ f.want \in Values /\ f.seen \in Values /\ f.refs \subseteq Rows
BY DEF Request

(* What an entry appended to the log of a row leaves of the log.            *)
LEMMA AppendKeeps ==
  ASSUME NEW s \in Seq(Entry), NEW e \in Entry
  PROVE  /\ Append(s, e) \in Seq(Entry) /\ Len(s) \in Nat
         /\ DOMAIN s = 1..Len(s) /\ DOMAIN Append(s, e) = 1..(Len(s) + 1)
         /\ \A i \in DOMAIN s : Append(s, e)[i] = s[i] /\ s[i] \in Entry
         /\ Append(s, e)[Len(s) + 1] = e
<1>1. /\ Append(s, e) \in Seq(Entry) /\ Len(Append(s, e)) = Len(s) + 1
      /\ \A i \in 1..Len(s) : Append(s, e)[i] = s[i] /\ Append(s, e)[Len(s) + 1] = e
      /\ Append(s, e)[Len(s) + 1] = e
  BY AppendProperties
<1>2. DOMAIN s = 1..Len(s) /\ DOMAIN Append(s, e) = 1..Len(Append(s, e)) /\ Len(s) \in Nat
      /\ \A i \in 1..Len(s) : s[i] \in Entry
  BY <1>1, LenProperties, ElementOfSeq
<1>3. QED
  BY <1>1, <1>2

LEMMA ToldType ==
  ASSUME TypeOK, NEW r \in Requests
  PROVE  Told(r) \in Entry
<1>1. req[r] \in Request
  BY DEF TypeOK
<1>2. Op(r) \in Ops /\ req[r].want \in Values
  BY <1>1 DEF Op, Request
<1>3. QED
  BY <1>2 DEF Told, Entry

(* The log of a row after a commit: one entry more for the row of the       *)
(* request, and the same for every other.                                   *)
LEMMA CommitTells ==
  ASSUME TypeOK, NEW r \in Requests, Commit(r)
  PROVE  /\ Row(r) \in Rows /\ audit[Row(r)] \in Seq(Entry)
         /\ audit' \in [Rows -> Seq(Entry)]
         /\ audit'[Row(r)] = Append(audit[Row(r)], Told(r))
         /\ \A x \in Rows \ {Row(r)} : audit'[x] = audit[x]
         /\ \A x \in Rows, op \in Ops :
              Says(x, op)' <=> Says(x, op) \/ (x = Row(r) /\ op = Op(r))
<1>1. Row(r) \in Rows
  BY DEF TypeOK, Request, Row
<1>2. audit[Row(r)] \in Seq(Entry) /\ Told(r) \in Entry
  BY <1>1, ToldType DEF TypeOK
<1>3. /\ audit'[Row(r)] = Append(audit[Row(r)], Told(r))
      /\ \A x \in Rows \ {Row(r)} : audit'[x] = audit[x]
  BY <1>1 DEF Commit, TypeOK
<1>4. audit' \in [Rows -> Seq(Entry)]
  BY <1>1, <1>2, AppendKeeps DEF Commit, TypeOK
<1>5. /\ Len(audit[Row(r)]) \in Nat /\ DOMAIN audit[Row(r)] = 1..Len(audit[Row(r)])
      /\ DOMAIN audit'[Row(r)] = 1..(Len(audit[Row(r)]) + 1)
      /\ \A i \in DOMAIN audit[Row(r)] : audit'[Row(r)][i] = audit[Row(r)][i]
      /\ audit'[Row(r)][Len(audit[Row(r)]) + 1] = Told(r)
  BY <1>2, <1>3, AppendKeeps
<1>6. Told(r).op = Op(r)
  BY DEF Told
<1>7. ASSUME NEW x \in Rows, NEW op \in Ops
      PROVE  Says(x, op)' <=> Says(x, op) \/ (x = Row(r) /\ op = Op(r))
  <2>1. CASE x = Row(r)
    <3> DEFINE n == Len(audit[x]) + 1
    <3>1. /\ DOMAIN audit'[x] = DOMAIN audit[x] \cup {n} /\ audit'[x][n].op = Op(r)
          /\ \A i \in DOMAIN audit[x] : audit'[x][i].op = audit[x][i].op
      BY <2>1, <1>5, <1>6
    <3> HIDE DEF n
    <3>2. QED
      BY <2>1, <3>1 DEF Says
  <2>2. CASE x # Row(r)
    BY <2>2, <1>3 DEF Says
  <2>3. QED
    BY <2>1, <2>2
<1>8. QED
  BY <1>1, <1>2, <1>3, <1>4, <1>7

-----------------------------------------------------------------------------
(* The request a connection has come to serve.                              *)
LEMMA BeginRequest ==
  ASSUME TypeOK, NEW r \in Requests, NEW op \in Ops, NEW x \in Rows, NEW v \in Values,
         NEW R \in SUBSET MayRefer(x), Begin(r, op, x, v, R)
  PROVE  /\ req' \in [Requests -> Request]
         /\ req'[r].at = "loaded" /\ req'[r].op = op /\ req'[r].row = x
         /\ op = "create" => req'[r].refs = R
         /\ op = "toggle" => req'[r].want # req'[r].seen
         /\ \A q \in Requests \ {r} : req'[q] = req[q]
<1>1. value[x] \in Values /\ ref[x] \subseteq Rows /\ R \subseteq Rows
  BY RowsFacts DEF TypeOK
<1>2. Want(op, value[x], v) \in Values
  BY <1>1 DEF Want, Flip, Values
<1>3. [at |-> "loaded", op |-> op, row |-> x, want |-> Want(op, value[x], v),
       seen |-> value[x], refs |-> IF op = "unlink" THEN ref[x] ELSE R] \in Request
  BY <1>1, <1>2 DEF Request
<1>4. op = "toggle" => Want(op, value[x], v) # value[x]
  BY <1>1 DEF Want, Flip, Values
<1>5. QED
  BY <1>3, <1>4 DEF Begin, TypeOK

LEMMA GatherRequest ==
  ASSUME TypeOK, NEW r \in Requests, Gather(r)
  PROVE  /\ req' \in [Requests -> Request]
         /\ req'[r].at = "gathered" /\ req'[r].op = "delete" /\ req'[r].row = req[r].row
         /\ req[r].at = "loaded" /\ req[r].op = "delete"
         /\ \A q \in Requests \ {r} : req'[q] = req[q]
<1> DEFINE found == {y \in live : Row(r) \in ref[y] /\ <<KindOf[y], KindOf[Row(r)]>> \in Relationships}
<1>1. found \subseteq Rows
  BY DEF TypeOK
<1>2. req' = [req EXCEPT ![r] = [@ EXCEPT !.at = "gathered", !.refs = found]]
  BY DEF Gather
<1>3. req[r] \in Request
  BY DEF TypeOK
<1> HIDE DEF found
<1>4. [req[r] EXCEPT !.at = "gathered", !.refs = found] \in Request
  BY <1>1, <1>3 DEF Request
<1>5. QED
  BY <1>2, <1>3, <1>4 DEF TypeOK, Gather, At, Op, Request

(* A flush leaves the request as it was, or there is none any more.         *)
LEMMA FlushRequest ==
  ASSUME TypeOK, NEW r \in Requests, Flush(r)
  PROVE  /\ req' \in [Requests -> Request]
         /\ req[r].at # "free" /\ req[r].at # "flushed"
         /\ \A q \in Requests \ {r} : req'[q] = req[q]
         /\ \/ req'[r] = Free
            \/ /\ CanFlush(r) /\ req'[r].at = "flushed" /\ req'[r].op = req[r].op
               /\ req'[r].row = req[r].row /\ req'[r].refs = req[r].refs
               /\ req'[r].want = req[r].want /\ req'[r].seen = req[r].seen
<1>1. req[r] \in Request
  BY DEF TypeOK
<1>2. [req[r] EXCEPT !.at = "flushed"] \in Request
  BY <1>1 DEF Request
<1>3. CASE CanFlush(r)
  BY <1>1, <1>2, <1>3 DEF Flush, TypeOK, At, Request
<1>4. CASE ~CanFlush(r)
  BY <1>1, <1>4, FreeType DEF Flush, TypeOK, At
<1>5. QED
  BY <1>3, <1>4

LEMMA FreedRequest ==
  ASSUME TypeOK, NEW r \in Requests, req' = [req EXCEPT ![r] = Free]
  PROVE  /\ req' \in [Requests -> Request] /\ req'[r] = Free /\ req'[r].at = "free"
         /\ \A q \in Requests \ {r} : req'[q] = req[q]
BY FreeType DEF TypeOK

-----------------------------------------------------------------------------
(* Type correctness. That a new row refers to the right tables only needs  *)
(* what RequestInv says of the request that creates it.                     *)
LEMMA InitTypeOK == Init => TypeOK
<1> SUFFICES ASSUME Init PROVE TypeOK
  OBVIOUS
<1> DEFINE born == [op |-> "create", set |-> "open"]
<1>1. born \in Entry
  BY DEF Entry, Ops, Values
<1> HIDE DEF born
<1>2. <<born>> \in Seq(Entry) /\ << >> \in Seq(Entry)
  BY <1>1
<1>3. audit \in [Rows -> Seq(Entry)]
  BY <1>2 DEF Init, born
<1>4. QED
  BY <1>3, RowsFacts, FreeType DEF Init, TypeOK, Values

LEMMA StepTypeOK == TypeOK /\ RequestInv /\ [Next]_vars => TypeOK'
<1> SUFFICES ASSUME TypeOK, RequestInv, [Next]_vars PROVE TypeOK'
  OBVIOUS
<1>1. ASSUME NEW r \in Requests, NEW op \in Ops, NEW x \in Rows, NEW v \in Values,
             NEW R \in SUBSET MayRefer(x), Begin(r, op, x, v, R) PROVE TypeOK'
  <2>1. req' \in [Requests -> Request]
    BY <1>1, BeginRequest
  <2>2. begun' \in 0..MaxRequests
    BY <1>1, BoundsAssumption DEF TypeOK, Begin
  <2>3. QED
    BY <1>1, <2>1, <2>2 DEF TypeOK, Begin
<1>2. ASSUME NEW r \in Requests, Gather(r) PROVE TypeOK'
  BY <1>2, GatherRequest DEF TypeOK, Gather
<1>3. ASSUME NEW r \in Requests, Flush(r) PROVE TypeOK'
  BY <1>3, FlushRequest DEF TypeOK, Flush
<1>4. ASSUME NEW r \in Requests, Commit(r) PROVE TypeOK'
  <2>1. Row(r) \in Rows /\ req[r].want \in Values
    BY DEF TypeOK, Request, Row
  <2>2. \A y \in Rows : Unlinks(r, y) \subseteq MayRefer(y)
    BY <1>4, RowsFacts DEF Commit, Unlinks, TypeOK, RequestInv, At
  <2>3. ref' \in [Rows -> SUBSET Rows] /\ \A y \in Rows : ref'[y] \subseteq MayRefer(y)
    BY <1>4, <2>2, RowsFacts DEF Commit
  <2>4. live' \subseteq Rows /\ value' \in [Rows -> Values]
    BY <1>4, <2>1 DEF Commit, TypeOK
  <2>5. audit' \in [Rows -> Seq(Entry)]
    BY <1>4, CommitTells
  <2>6. req' \in [Requests -> Request]
    BY <1>4, FreedRequest DEF Commit
  <2>7. raced' \subseteq Rows
    BY <1>4, <2>1 DEF Commit, TypeOK
  <2>8. QED
    BY <1>4, <2>3, <2>4, <2>5, <2>6, <2>7 DEF Commit, TypeOK
<1>5. ASSUME NEW r \in Requests, Fail(r) PROVE TypeOK'
  <2>1. req' \in [Requests -> Request]
    BY <1>5, FreedRequest DEF Fail
  <2>2. faults' \in 0..MaxFaults
    BY <1>5, BoundsAssumption DEF TypeOK, Fail
  <2>3. QED
    BY <1>5, <2>1, <2>2 DEF TypeOK, Fail
<1>6. CASE UNCHANGED vars
  BY <1>6 DEF vars, TypeOK
<1>7. QED
  BY <1>1, <1>2, <1>3, <1>4, <1>5, <1>6 DEF Next

-----------------------------------------------------------------------------
(* The requests in progress: a new id is in no other request and in no log, *)
(* and nothing takes the creation of a row out of its log.                  *)
LEMMA InitRequestInv == Init => RequestInv
BY FreeType DEF Init, RequestInv, At

LEMMA StepRequestInv ==
  TypeOK /\ AuditAccounts /\ RequestInv /\ [Next]_vars => RequestInv'
<1> SUFFICES ASSUME TypeOK, AuditAccounts, RequestInv, [Next]_vars PROVE RequestInv'
  OBVIOUS
<1>0. ASSUME NEW r \in Requests, audit' = audit, \A q \in Requests \ {r} : req'[q] = req[q],
             \/ req'[r].at = "free"
             \/ /\ req[r].at # "free" /\ req'[r].op = req[r].op /\ req'[r].row = req[r].row
                /\ req[r].op = "create" => req'[r].refs = req[r].refs
      PROVE  RequestInv'
  BY <1>0 DEF RequestInv, At, Op, Row, Says
<1>1. ASSUME NEW r \in Requests, NEW op \in Ops, NEW x \in Rows, NEW v \in Values,
             NEW R \in SUBSET MayRefer(x), Begin(r, op, x, v, R) PROVE RequestInv'
  <2>1. /\ req'[r].op = op /\ req'[r].row = x /\ (op = "create" => req'[r].refs = R)
        /\ \A q \in Requests \ {r} : req'[q] = req[q]
    BY <1>1, BeginRequest
  <2>2. audit' = audit /\ IF op = "create" THEN Fresh(x) ELSE x \in live
    BY <1>1 DEF Begin
  <2>3. op # "create" => Says(x, "create")
    BY <2>2 DEF AuditAccounts
  <2>4. \A y \in Rows, o \in Ops : Says(y, o)' <=> Says(y, o)
    BY <2>2 DEF Says
  <2>5. \A q \in Requests : ~At(q, "free") => Row(q) \in Rows
    BY DEF TypeOK, Request, Row
  <2>6. op = "create" => audit[x] = << >> /\ \A q \in Requests : ~At(q, "free") => Row(q) # x
    BY <2>2 DEF Fresh
  <2>7. op # "create" => \A q \in Requests \ {r} : ~At(q, "free") /\ Op(q) = "create" => Row(q) # x
    BY <2>3 DEF RequestInv, Says
  <2>8. SUFFICES ASSUME NEW q \in Requests, req'[q].at # "free"
        PROVE  IF req'[q].op = "create"
                 THEN /\ audit'[req'[q].row] = << >> /\ req'[q].refs \subseteq MayRefer(req'[q].row)
                      /\ \A p \in Requests \ {q} : req'[p].at # "free" => req'[p].row # req'[q].row
                 ELSE Says(req'[q].row, "create")
    BY <2>2 DEF RequestInv, At, Op, Row, Says
  <2>9. CASE q = r
    BY <2>1, <2>2, <2>3, <2>4, <2>6, <2>9 DEF At, Row, Ops
  <2>10. CASE q # r
    BY <2>1, <2>2, <2>4, <2>5, <2>6, <2>7, <2>8, <2>10 DEF RequestInv, At, Op, Row, Ops
  <2>11. QED
    BY <2>9, <2>10
<1>2. ASSUME NEW r \in Requests, Gather(r) PROVE RequestInv'
  BY <1>0, <1>2, GatherRequest DEF Gather
<1>3. ASSUME NEW r \in Requests, Flush(r) PROVE RequestInv'
  BY <1>0, <1>3, FlushRequest, FreeType DEF Flush
<1>4. ASSUME NEW r \in Requests, Commit(r) PROVE RequestInv'
  <2>1. req'[r].at = "free" /\ \A q \in Requests \ {r} : req'[q] = req[q]
    BY <1>4, FreedRequest DEF Commit
  <2>2. /\ \A x \in Rows \ {Row(r)} : audit'[x] = audit[x]
        /\ \A x \in Rows : Says(x, "create") => Says(x, "create")'
    BY <1>4, CommitTells DEF Ops
  <2>3. \A q \in Requests : Row(q) \in Rows
    BY DEF TypeOK, Request, Row
  <2>4. \A q \in Requests \ {r} : ~At(q, "free") /\ Op(q) = "create" => Row(q) # Row(r)
    BY <1>4 DEF RequestInv, Commit, At
  <2>5. QED
    BY <2>1, <2>2, <2>3, <2>4 DEF RequestInv, At, Op, Row
<1>5. ASSUME NEW r \in Requests, Fail(r) PROVE RequestInv'
  BY <1>0, <1>5, FreedRequest DEF Fail
<1>6. CASE UNCHANGED vars
  BY <1>6 DEF vars, RequestInv, At, Op, Row, Says
<1>7. QED
  BY <1>1, <1>2, <1>3, <1>4, <1>5, <1>6 DEF Next

-----------------------------------------------------------------------------
(* The toggles in progress.                                                 *)
LEMMA InitToggleInv == Init => ToggleInv
BY FreeType DEF Init, ToggleInv, At

LEMMA StepToggleInv == TypeOK /\ ToggleInv /\ [Next]_vars => ToggleInv'
<1> SUFFICES ASSUME TypeOK, ToggleInv, [Next]_vars PROVE ToggleInv'
  OBVIOUS
<1>0. ASSUME NEW r \in Requests, \A q \in Requests \ {r} : req'[q] = req[q],
             \/ req'[r].at = "free" \/ req'[r].op # "toggle" \/ req'[r].want # req'[r].seen
             \/ /\ req[r].at # "free" /\ req'[r].op = req[r].op
                /\ req'[r].want = req[r].want /\ req'[r].seen = req[r].seen
      PROVE  ToggleInv'
  BY <1>0 DEF ToggleInv, At, Op, Changes, Writes
<1>1. ASSUME NEW r \in Requests, NEW op \in Ops, NEW x \in Rows, NEW v \in Values,
             NEW R \in SUBSET MayRefer(x), Begin(r, op, x, v, R) PROVE ToggleInv'
  BY <1>0, <1>1, BeginRequest
<1>2. ASSUME NEW r \in Requests, Gather(r) PROVE ToggleInv'
  BY <1>0, <1>2, GatherRequest
<1>3. ASSUME NEW r \in Requests, Flush(r) PROVE ToggleInv'
  BY <1>0, <1>3, FlushRequest, FreeType
<1>4. ASSUME NEW r \in Requests, Commit(r) PROVE ToggleInv'
  BY <1>0, <1>4, FreedRequest DEF Commit
<1>5. ASSUME NEW r \in Requests, Fail(r) PROVE ToggleInv'
  BY <1>0, <1>5, FreedRequest DEF Fail
<1>6. CASE UNCHANGED vars
  BY <1>6 DEF vars, ToggleInv, At, Op, Changes
<1>7. QED
  BY <1>1, <1>2, <1>3, <1>4, <1>5, <1>6 DEF Next

-----------------------------------------------------------------------------
(* The transactions that have flushed: nothing another one commits takes    *)
(* from them the rows they hold.                                            *)

(* A request that goes on as it was locks and refers to what it did.        *)
LEMMA SameHolds ==
  ASSUME NEW q \in Requests, req'[q] = req[q]
  PROVE  /\ Row(q)' = Row(q) /\ Op(q)' = Op(q) /\ Changes(q)' = Changes(q)
         /\ Shares(q)' = Shares(q) /\ Deletes(q)' = Deletes(q)
         /\ \A a : At(q, a)' = At(q, a)
BY DEF Row, Op, Changes, Shares, Deletes, At

LEMMA InitHeldInv == Init => HeldInv
BY FreeType DEF Init, HeldInv, At

LEMMA StepHeldInv == TypeOK /\ HeldInv /\ [Next]_vars => HeldInv'
<1> SUFFICES ASSUME TypeOK, HeldInv, [Next]_vars PROVE HeldInv'
  OBVIOUS
<1>0. ASSUME NEW r \in Requests, live' = live, req'[r].at # "flushed",
             \A q \in Requests \ {r} : req'[q] = req[q] PROVE HeldInv'
  BY <1>0, SameHolds DEF HeldInv, At
<1>1. ASSUME NEW r \in Requests, NEW op \in Ops, NEW x \in Rows, NEW v \in Values,
             NEW R \in SUBSET MayRefer(x), Begin(r, op, x, v, R) PROVE HeldInv'
  BY <1>0, <1>1, BeginRequest DEF Begin
<1>2. ASSUME NEW r \in Requests, Gather(r) PROVE HeldInv'
  BY <1>0, <1>2, GatherRequest DEF Gather
<1>3. ASSUME NEW r \in Requests, Flush(r) PROVE HeldInv'
  <2>1. CASE req'[r] = Free
    BY <1>0, <1>3, <2>1, FlushRequest, FreeType DEF Flush
  <2>2. CASE req'[r] # Free
    <3>1. /\ CanFlush(r) /\ Op(r)' = Op(r) /\ Row(r)' = Row(r) /\ req'[r].refs = req[r].refs
          /\ Changes(r)' = Changes(r) /\ Shares(r)' = Shares(r) /\ Deletes(r)' = Deletes(r)
      BY <1>3, <2>2, FlushRequest DEF Op, Row, Changes, Shares, Deletes
    <3>2. \A q \in Requests \ {r} : At(q, "flushed") =>
            /\ Changes(r) /\ Changes(q) => Row(r) # Row(q)
            /\ Shares(r) \cap Deletes(q) = {} /\ Shares(q) \cap Deletes(r) = {}
      BY <1>3 DEF Flush, Waits, Locks
    <3>3. /\ Op(r) # "link" /\ (Op(r) = "create" => req[r].refs \subseteq live)
          /\ Changes(r) /\ Op(r) \notin {"create", "delete"} => Row(r) \in live
      BY <3>1 DEF CanFlush
    <3>4. live' = live /\ \A q \in Requests \ {r} : req'[q] = req[q]
      BY <1>3, FlushRequest DEF Flush
    <3>5. QED
      BY <3>1, <3>2, <3>3, <3>4, SameHolds DEF HeldInv, At
  <2>3. QED
    BY <2>1, <2>2
<1>4. ASSUME NEW r \in Requests, Commit(r) PROVE HeldInv'
  <2>1. req'[r].at = "free" /\ \A q \in Requests \ {r} : req'[q] = req[q]
    BY <1>4, FreedRequest DEF Commit
  <2>2. live \ Deletes(r) \subseteq live'
    BY <1>4 DEF Commit, Deletes
  <2>3. ASSUME NEW q \in Requests \ {r}, At(q, "flushed")
        PROVE  /\ Op(q) = "create" => req[q].refs \subseteq live'
               /\ Changes(q) /\ Op(q) \notin {"create", "delete"} => Row(q) \in live'
    <3>1. Shares(q) \cap Deletes(r) = {}
      BY <1>4, <2>3 DEF Commit, HeldInv
    <3>2. Changes(q) => Row(q) \notin Deletes(r)
      BY <1>4, <2>3 DEF Commit, HeldInv, Deletes, Changes
    <3>3. QED
      BY <2>2, <2>3, <3>1, <3>2 DEF HeldInv, Shares
  <2>4. QED
    BY <2>1, <2>3, SameHolds DEF HeldInv, At
<1>5. ASSUME NEW r \in Requests, Fail(r) PROVE HeldInv'
  BY <1>0, <1>5, FreedRequest DEF Fail
<1>6. CASE UNCHANGED vars
  BY <1>6, SameHolds DEF vars, HeldInv
<1>7. QED
  BY <1>1, <1>2, <1>3, <1>4, <1>5, <1>6 DEF Next

-----------------------------------------------------------------------------
(* The references of the rows there are.                                    *)
LEMMA InitNoDangling == Init => NoDangling
BY RowsFacts DEF Init, NoDangling

LEMMA StepNoDangling ==
  TypeOK /\ NoDangling /\ HeldInv /\ [Next]_vars => NoDangling'
<1> SUFFICES ASSUME TypeOK, NoDangling, HeldInv, [Next]_vars PROVE NoDangling'
  OBVIOUS
<1>1. ASSUME NEW r \in Requests, Commit(r) PROVE NoDangling'
  <2>1. Row(r) \in Rows /\ live \subseteq Rows
    BY DEF TypeOK, Request, Row
  <2>2. \A y \in Rows : ref'[y] = Unlinks(r, y)
    BY <1>1 DEF Commit
  <2>3. CASE Op(r) = "create"
    <3>1. live' = live \cup {Row(r)} /\ req[r].refs \subseteq live
      BY <1>1, <2>3 DEF Commit, HeldInv
    <3>2. QED
      BY <2>1, <2>2, <2>3, <3>1 DEF Unlinks, NoDangling
  <2>4. CASE Op(r) = "delete"
    <3>1. live' = live \ {Row(r)}
      BY <1>1, <2>4 DEF Commit
    <3>2. QED
      BY <2>1, <2>2, <2>4, <3>1 DEF Unlinks, NoDangling
  <2>5. CASE Op(r) \notin {"create", "delete"}
    <3>1. live' = live
      BY <1>1, <2>5 DEF Commit
    <3>2. QED
      BY <2>1, <2>2, <2>5, <3>1 DEF Unlinks, NoDangling
  <2>6. QED
    BY <2>3, <2>4, <2>5
<1>2. ASSUME UNCHANGED <<live, ref>> PROVE NoDangling'
  BY <1>2 DEF NoDangling
<1>3. QED
  BY <1>1, <1>2 DEF Next, Begin, Gather, Flush, Fail, vars

-----------------------------------------------------------------------------
(* The audit log. The three parts of AuditAccounts change only in the row   *)
(* of the request that commits.                                             *)
Exists(x) == x \in live <=> Says(x, "create") /\ ~Says(x, "delete")
Valued(x) == x \in live => \E i \in Setting(x) :
               audit[x][i].set = value[x] /\ (x \in raced \/ \A j \in Setting(x) : j <= i)
Quiet(x) == \A i, j \in DOMAIN audit[x] :
              i < j /\ audit[x][i].op = "delete" => audit[x][j].op \in NeedsNoRow

LEMMA AuditByRow == AuditAccounts <=> \A x \in Rows : Exists(x) /\ Valued(x) /\ Quiet(x)
BY DEF AuditAccounts, Exists, Valued, Quiet

LEMMA InitAudit == Init => AuditAccounts
<1> SUFFICES ASSUME Init, NEW x \in Rows PROVE Exists(x) /\ Valued(x) /\ Quiet(x)
  BY AuditByRow
<1> DEFINE born == [op |-> "create", set |-> "open"]
<1>1. CASE x \in DOMAIN Seed
  <2>1. audit[x] = <<born>> /\ x \in live /\ value[x] = "open"
    BY <1>1 DEF Init
  <2>2. DOMAIN audit[x] = {1} /\ audit[x][1].op = "create" /\ audit[x][1].set = "open"
    BY <2>1
  <2>3. QED
    BY <2>1, <2>2 DEF Exists, Valued, Quiet, Says, Setting
<1>2. CASE x \notin DOMAIN Seed
  <2>1. audit[x] = << >> /\ x \notin live
    BY <1>2 DEF Init
  <2>2. DOMAIN audit[x] = {}
    BY <2>1
  <2>3. QED
    BY <2>1, <2>2 DEF Exists, Valued, Quiet, Says
<1>3. QED
  BY <1>1, <1>2

LEMMA StepAudit ==
  TypeOK /\ AuditAccounts /\ RequestInv /\ ToggleInv /\ HeldInv /\ [Next]_vars => AuditAccounts'
<1> SUFFICES ASSUME TypeOK, AuditAccounts, RequestInv, ToggleInv, HeldInv, [Next]_vars
             PROVE  AuditAccounts'
  OBVIOUS
<1>1. ASSUME NEW r \in Requests, Commit(r) PROVE AuditAccounts'
  <2> DEFINE z == Row(r)
             n == Len(audit[z]) + 1
  <2>1. /\ z \in Rows /\ audit[z] \in Seq(Entry) /\ Told(r) \in Entry
        /\ audit'[z] = Append(audit[z], Told(r))
        /\ \A x \in Rows \ {z} : audit'[x] = audit[x]
        /\ \A x \in Rows, op \in Ops :
             Says(x, op)' <=> Says(x, op) \/ (x = z /\ op = Op(r))
    BY <1>1, CommitTells, ToldType
  <2>2. /\ Len(audit[z]) \in Nat /\ DOMAIN audit[z] = 1..(n - 1) /\ DOMAIN audit'[z] = 1..n
        /\ \A i \in DOMAIN audit[z] : audit'[z][i] = audit[z][i]
        /\ audit'[z][n] = Told(r) /\ n \in Nat /\ n >= 1
    BY <2>1, AppendKeeps
  <2>3. /\ Told(r).op = Op(r)
        /\ Tells(r) => Told(r).set = req[r].want
        /\ ~Tells(r) => Told(r).set = "nothing"
        /\ Sets(r) => Tells(r)
        /\ Tells(r) /\ ~Sets(r) => req[r].want = req[r].seen
    BY DEF Told, Sets, Tells
  <2>4. /\ Op(r) = "create" => live' = live \cup {z}
        /\ Op(r) = "delete" => live' = live \ {z}
        /\ Op(r) \notin {"create", "delete"} => live' = live
        /\ Sets(r) => value' = [value EXCEPT ![z] = req[r].want]
        /\ ~Sets(r) => value' = value
        /\ ~Tells(r) => raced' = raced
        /\ Tells(r) => (z \in raced' <=> value[z] # req[r].seen)
        /\ raced' \ {z} = raced \ {z}
    BY <1>1 DEF Commit
  <2>5. req[r].want \in Values /\ "nothing" \notin Values /\ value \in [Rows -> Values]
        /\ Op(r) \in Ops
    BY DEF TypeOK, Request, Values, Op
  <2>6. /\ Op(r) = "create" => audit[z] = << >>
        /\ Op(r) # "create" => Says(z, "create")
        /\ Op(r) \notin NeedsNoRow \cup {"create"} => z \in live
        /\ Op(r) = "create" => Sets(r)
        /\ Op(r) = "delete" => ~Sets(r)
    <3>1. At(r, "flushed")
      BY <1>1 DEF Commit
    <3>2. /\ Op(r) = "create" => audit[z] = << >>
          /\ Op(r) # "create" => Says(z, "create")
      BY <3>1 DEF RequestInv, At
    <3>3. Op(r) \notin NeedsNoRow \cup {"create"} => z \in live
      <4>1. Op(r) \in Ops
        BY DEF TypeOK, Request, Op
      <4>2. Op(r) \notin NeedsNoRow \cup {"create"} => Op(r) \in {"complete", "toggle", "link"}
        BY <4>1 DEF Ops, Writes, NeedsNoRow
      <4>3. Op(r) = "toggle" => Changes(r)
        BY <3>1 DEF ToggleInv, At
      <4>4. QED
        BY <3>1, <4>2, <4>3 DEF HeldInv, Changes
    <3>4. (Op(r) = "create" => Sets(r)) /\ (Op(r) = "delete" => ~Sets(r))
      BY DEF Sets, Writes
    <3>5. QED
      BY <3>2, <3>3, <3>4
  <2>7. ASSUME NEW x \in Rows \ {z} PROVE (Exists(x) /\ Valued(x) /\ Quiet(x))'
    <3>1. audit'[x] = audit[x] /\ (x \in live' <=> x \in live) /\ value'[x] = value[x]
          /\ (x \in raced' <=> x \in raced)
      BY <2>1, <2>4, <2>5
    <3>2. Exists(x) /\ Valued(x) /\ Quiet(x)
      BY AuditByRow
    <3>3. QED
      BY <3>1, <3>2 DEF Exists, Valued, Quiet, Says, Setting
  <2> HIDE DEF z, n
  <2>8. ASSUME NEW x \in Rows, x = z PROVE Exists(x)'
    <3>1. Exists(x)
      BY AuditByRow
    <3>2. "create" \in Ops /\ "delete" \in Ops
      BY DEF Ops
    <3>3. /\ Says(x, "create")' <=> Says(x, "create") \/ Op(r) = "create"
          /\ Says(x, "delete")' <=> Says(x, "delete") \/ Op(r) = "delete"
      BY <2>1, <2>8, <3>2
    <3>4. Op(r) = "create" => ~Says(x, "delete")
      BY <2>6, <2>8 DEF Says
    <3>5. QED
      BY <2>4, <2>6, <2>8, <3>1, <3>3, <3>4 DEF Exists
  <2>9. ASSUME NEW x \in Rows, x = z PROVE Valued(x)'
    <3>0. /\ \A i \in DOMAIN audit[x] : i \in DOMAIN audit'[x] /\ audit'[x][i] = audit[x][i]
          /\ \A i \in DOMAIN audit'[x] : i # n => i \in DOMAIN audit[x]
          /\ n \in DOMAIN audit'[x] /\ audit'[x][n] = Told(r)
          /\ \A j \in DOMAIN audit'[x] : j <= n
      BY <2>2, <2>9
    <3>1. CASE Tells(r) /\ value'[x] = req[r].want
      <4>1. audit'[x][n].set = value'[x] /\ value'[x] # "nothing"
        BY <2>3, <2>5, <3>0, <3>1
      <4>2. QED
        BY <3>0, <4>1 DEF Valued, Setting
    <3>2. CASE Tells(r) /\ value'[x] # req[r].want
      <4>1. ~Sets(r) /\ value[x] # req[r].seen /\ value' = value /\ x \in raced'
        BY <2>3, <2>4, <2>5, <2>9, <3>2
      <4>2. x \in live' => x \in live
        BY <2>4, <2>6, <4>1
      <4>3. x \in live => \E i \in Setting(x) : audit[x][i].set = value[x]
        BY AuditByRow DEF Valued
      <4>4. \A i \in Setting(x) : i \in Setting(x)' /\ audit'[x][i] = audit[x][i]
        BY <3>0 DEF Setting
      <4>5. QED
        BY <4>1, <4>2, <4>3, <4>4 DEF Valued
    <3>3. CASE ~Tells(r)
      <4>1. x \in live' => x \in live
        BY <2>3, <2>4, <2>6, <3>3
      <4>2. value' = value /\ raced' = raced /\ Valued(x)
        BY <2>3, <2>4, <3>3, AuditByRow
      <4>3. audit'[x][n].set = "nothing"
        BY <2>3, <3>0, <3>3
      <4>4. Setting(x)' = Setting(x)
        BY <3>0, <4>3 DEF Setting
      <4>5. \A i \in Setting(x) : audit'[x][i] = audit[x][i]
        BY <3>0 DEF Setting
      <4>6. QED
        BY <4>1, <4>2, <4>4, <4>5 DEF Valued
    <3>4. QED
      BY <3>1, <3>2, <3>3
  <2>10. ASSUME NEW x \in Rows, x = z PROVE Quiet(x)'
    <3> SUFFICES ASSUME NEW i \in DOMAIN audit'[x], NEW j \in DOMAIN audit'[x],
                        i < j, audit'[x][i].op = "delete"
                 PROVE  audit'[x][j].op \in NeedsNoRow
      BY DEF Quiet
    <3>1. i \in DOMAIN audit[x] /\ audit[x][i].op = "delete" /\ Says(x, "delete")
      BY <2>2, <2>10 DEF Says
    <3>2. Exists(x) /\ Quiet(x)
      BY AuditByRow
    <3>3. CASE j = n
      <4>1. x \notin live /\ Op(r) # "create"
        BY <2>6, <2>10, <3>1, <3>2 DEF Exists
      <4>2. QED
        BY <2>2, <2>3, <2>6, <2>10, <3>3, <4>1
    <3>4. CASE j # n
      <4>1. j \in DOMAIN audit[x] /\ audit'[x][j] = audit[x][j]
        BY <2>2, <2>10, <3>4
      <4>2. QED
        BY <3>1, <3>2, <4>1 DEF Quiet
    <3>5. QED
      BY <3>3, <3>4
  <2>11. \A x \in Rows : (Exists(x) /\ Valued(x) /\ Quiet(x))'
    BY <2>7, <2>8, <2>9, <2>10
  <2>12. QED
    BY <2>11 DEF AuditAccounts, Exists, Valued, Quiet
<1>2. ASSUME UNCHANGED <<live, value, audit, raced>> PROVE AuditAccounts'
  BY <1>2 DEF AuditAccounts, Says, Setting
<1>3. QED
  BY <1>1, <1>2 DEF Next, Begin, Gather, Flush, Fail, vars

-----------------------------------------------------------------------------
(* IInv holds at first, and no request, failure or restart breaks it.        *)
THEOREM InductiveInvariantThm == Spec => []IInv
<1>1. Init => IInv
  BY InitTypeOK, InitNoDangling, InitAudit, InitRequestInv, InitToggleInv, InitHeldInv DEF IInv
<1>2. IInv /\ [Next]_vars => IInv'
  BY StepTypeOK, StepNoDangling, StepAudit, StepRequestInv, StepToggleInv, StepHeldInv DEF IInv
<1>3. QED
  BY <1>1, <1>2, PTL DEF Spec

(* The rows, their references and the requests keep their types; a row      *)
(* refers to rows of the tables that its foreign keys name.                 *)
THEOREM TypeCorrect == Spec => []TypeOK
<1>1. IInv => TypeOK
  BY DEF IInv
<1>2. QED
  BY <1>1, InductiveInvariantThm, PTL

(* No row refers to one that is not there, however creations, changes and   *)
(* deletions of the two overlap.                                            *)
THEOREM NoDanglingThm == Spec => []NoDangling
<1>1. IInv => NoDangling
  BY DEF IInv
<1>2. QED
  BY <1>1, InductiveInvariantThm, PTL

(* The committed audit log of every row accounts for it: whether it is      *)
(* there, that its value was asked for, by the last update unless another   *)
(* request came between, and that nothing completes it once it is deleted.  *)
THEOREM AuditAccountsThm == Spec => []AuditAccounts
<1>1. IInv => AuditAccounts
  BY DEF IInv
<1>2. QED
  BY <1>1, InductiveInvariantThm, PTL
=============================================================================
