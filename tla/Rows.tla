-------------------------------- MODULE Rows --------------------------------
(***************************************************************************)
(* What INSERT, UPDATE, DELETE, TRUNCATE, CREATE UNIQUE INDEX and COPY do  *)
(* to rows, index entries, foreign keys and serial counters on main        *)
(* (executor/dml.go, upsert.go, advanced_dml.go, constraints.go,           *)
(* deferred.go, index.go, defaults.go, ddl.go), and how a statement runs:  *)
(* in autocommit it is retried on a write conflict (Execute), between      *)
(* BEGIN and COMMIT it joins the session's transaction.                    *)
(*                                                                         *)
(* P(id serial primary key, val) has a unique index on val once it is      *)
(* created; C(id primary key, val) has a foreign key val -> P.id.  A       *)
(* statement only reads the snapshot and the buffer of its transaction, so *)
(* it is one step; Begin, Commit and what other sessions commit in between *)
(* are steps of their own.                                                 *)
(***************************************************************************)
EXTENDS Naturals, Sequences

CONSTANTS
    Client, Absent, Keep,
    Null,
    Default,     \* the DEFAULT keyword, or a column the INSERT does not name
    Ids,         \* the ids of P are 1..Ids
    CIds,        \* the ids of C are 1..CIds
    Val,         \* the non-null values of P.val
    Rejected,    \* the values that NOT NULL, CHECK or a policy's WITH CHECK refuses
    Setups,      \* the declarations of the foreign key, protocols and rows to start from
    Stmts,       \* the statements to consider
    MaxStmts,    \* bound on the statements of all clients
    MaxRetries,  \* Execute's maxRetries
    None

Id == 1..Ids
CId == 1..CIds

P(i) == <<"P", i>>
C(i) == <<"C", i>>
I(v, i) == <<"I", v, i>>
Seq1 == <<"seq">>
Idx == <<"idx">>

PRows == {P(i) : i \in Id}
CRows == {C(i) : i \in CId}
Entries == {I(v, i) : v \in Val, i \in Id}
Key == PRows \cup CRows \cup Entries \cup {Seq1, Idx}

VARIABLES
    db, txn,
    fk,      \* [del, upd: action, deferrable, initially: BOOLEAN]
    ext,     \* statements arrive by the extended protocol
    ph,      \* per client: idle, open, aborted; autocommit: exec, commit
    stmt,    \* the autocommit statement being executed
    at,      \* the row of it that comes next
    tries,   \* its attempts so far
    pend,    \* the deferred checks of the open transaction
    mode,    \* its SET CONSTRAINTS override
    odd,     \* rows the transaction wrote past a check: [index, check] (see Overlap)
    loose,   \* the same, of committed rows
    spent    \* statements begun so far

vars == <<db, txn, fk, ext, ph, stmt, at, tries, pend, mode, odd, loose, spent>>

INSTANCE KVTxn

\* The cells of the rows of P and of C.
PCell == Val \cup {Null}
CCell == Id \cup {Null}

\* The statements, as far as the tables are concerned.
InsertStmt ==
    [op : {"insert"}, tab : {"P"}, rows : Seq([id : Id \cup {Default}, val : PCell]) \ {<<>>},
     oc : {"error", "nothing", "update"}, how : {"values", "copy"}]
    \cup
    [op : {"insert"}, tab : {"C"}, rows : Seq([id : CId, val : CCell]) \ {<<>>},
     oc : {"error", "nothing", "update"}, how : {"values", "copy"}]

UpdateStmt ==
    [op : {"update"}, tab : {"P"}, where : SUBSET Id, col : {"id"}, val : Id]
    \cup [op : {"update"}, tab : {"P"}, where : SUBSET Id, col : {"val"}, val : PCell]
    \cup [op : {"update"}, tab : {"C"}, where : SUBSET CId, col : {"val"}, val : CCell]

DeleteStmt ==
    [op : {"delete"}, tab : {"P"}, where : SUBSET Id]
    \cup [op : {"delete"}, tab : {"C"}, where : SUBSET CId]

Statement == InsertStmt \cup UpdateStmt \cup DeleteStmt \cup [op : {"truncate", "index"}]

\* Rows to start from satisfy the constraints.
Valid(rows, indexed) ==
    /\ DOMAIN rows \subseteq PRows \cup CRows
    /\ \A i \in Id : P(i) \in DOMAIN rows => rows[P(i)] \in PCell \ Rejected
    /\ \A j \in CId : C(j) \in DOMAIN rows /\ rows[C(j)] # Null =>
           rows[C(j)] \in Id /\ P(rows[C(j)]) \in DOMAIN rows
    /\ indexed => \A i, j \in Id :
           i # j /\ {P(i), P(j)} \subseteq DOMAIN rows /\ rows[P(i)] # Null => rows[P(i)] # rows[P(j)]

ASSUME RowsAssumption ==
    /\ Ids \in Nat /\ CIds \in Nat
    /\ Rejected \subseteq Val
    /\ MaxStmts <= Ids   \* so that the counter stays among the ids
    /\ Stmts \subseteq Statement
    /\ \A x \in Setups : Valid(x.rows, x.indexed)

ASSUME MarkersAssumption ==
    /\ Absent # Keep /\ Absent # Null /\ Keep # Null
    /\ \A x \in {Absent, Keep, Null} : x \notin Val /\ x \notin Nat /\ x # "unique"

-----------------------------------------------------------------------------
(* A statement maps a state of its transaction to the next: the            *)
(* transaction, its deferred checks, the rows it leaves unchecked, and     *)
(* whether an error has ended it.                                          *)

\* Buffer the mutations w, a function from some of the keys.
Put(s, w) ==
    [s EXCEPT !.t.buf = [k \in Key |-> IF k \in DOMAIN w THEN w[k] ELSE @[k]]]

Nothing == [k \in {} |-> Absent]

One(k, v) == [x \in {k} |-> v]

\* The mutations f, and g on the other keys.
Over(f, g) == [k \in DOMAIN f \cup DOMAIN g |-> IF k \in DOMAIN f THEN f[k] ELSE g[k]]

Fail(s) == [s EXCEPT !.ok = FALSE]

\* F(s) if there was no error so far; binding s makes TLC evaluate it once.
Then(s, F(_)) == CHOOSE r \in {IF x.ok THEN F(x) ELSE x : x \in {s}} : TRUE

\* F for 1, 2, .. n in turn, until an error.
Fold(s, n, F(_, _)) ==
    LET go[i \in 0..n] == IF i = 0 THEN s ELSE Then(go[i - 1], LAMBDA r : F(r, i))
    IN  go[n]

Has(s, k) == Read(s.t, k) # Absent

Indexed(s) == Has(s, Idx)

Unchecked(s, keys) == [s EXCEPT !.check = @ \cup keys]
Unindexed(s, keys) == [s EXCEPT !.index = @ \cup keys]

\* indexEntries: none for NULL, none before the index exists.
IndexEntries(s, i, v, add) ==
    IF v = Null \/ ~Indexed(s) THEN Nothing
    ELSE One(I(v, i), IF add THEN i ELSE Absent)

\* indexHasOtherPK
HasOtherPK(s, v, i) == \E j \in Id \ {i} : Has(s, I(v, j))

\* nextSequenceVal
NextVal(s) == IF Has(s, Seq1) THEN Read(s.t, Seq1) + 1 ELSE 1

-----------------------------------------------------------------------------
(* Foreign keys.                                                           *)

\* isDeferred and effectiveDeferral: never in autocommit.
Deferred(c) ==
    /\ ph[c] = "open"
    /\ fk.deferrable
    /\ IF mode[c] = None THEN fk.initially ELSE mode[c]

Record(s, kind, i) == [s EXCEPT !.pend = Append(@, [kind |-> kind, val |-> i])]

\* enforceFKChild; the parent is probed by its row key.
EnforceFKChild(s, ref) ==
    IF ref = Null THEN s
    ELSE IF s.late THEN Record(s, "child", ref)
    ELSE IF Has(s, P(ref)) THEN s ELSE Fail(s)

\* applyFKDeleteActions and applyFKUpdateActions: what becomes of row j of C if it
\* references row i; new is what its reference becomes.
OnChild(s, j, i, action, new) ==
    IF Read(s.t, C(j)) # i THEN s
    ELSE IF action \in {"CASCADE", "SET_NULL"}
    THEN Put(s, One(C(j), IF action = "CASCADE" THEN new ELSE Null))
    ELSE IF s.late THEN Record(s, "parent", i) ELSE Fail(s)

OnChildren(s, i, action, new) ==
    Fold(s, CIds, LAMBDA r, j : OnChild(r, j, i, action, new))

FKDelete(s, i) == OnChildren(s, i, fk.del, Absent)

\* parentRowRefChanged fires on a change of any column.
FKUpdate(s, i, v, newI, newV) ==
    IF newI = i /\ newV = v THEN s ELSE OnChildren(s, i, fk.upd, newI)

\* runOnePending
Violated(t, p) ==
    /\ Read(t, P(p.val)) = Absent
    /\ p.kind = "parent" => \E j \in CId : Read(t, C(j)) = p.val

\* runPendingChecks stops at the first check that fails.
FirstViolated(t, checks) ==
    LET failing == {n \in 1..Len(checks) : Violated(t, checks[n])}
    IN  IF failing = {} THEN 0 ELSE CHOOSE n \in failing : \A m \in failing : n <= m

-----------------------------------------------------------------------------
(* Statements.                                                             *)

\* A row of P with its index entries, in place of one whose cells were i and v.
Replace(s, i, v, newI, newV) ==
    Put(s, Over(IndexEntries(s, newI, newV, TRUE),
                Over(One(P(newI), newV), IndexEntries(s, i, v, FALSE))))

\* handleOnConflict, DO UPDATE SET val = EXCLUDED.val: no check of any kind.
DoUpdate(s, tab, i, v) ==
    Unchecked(IF tab = "C" THEN Put(s, One(C(i), v)) ELSE Replace(s, i, Read(s.t, P(i)), i, v),
              {<<tab, i>>})

\* The primary key is taken: the error, or what ON CONFLICT says.
OnConflict(s, tab, i, v, oc) ==
    CASE oc = "error"   -> Fail(s)
      [] oc = "nothing" -> s
      [] oc = "update"  -> DoUpdate(s, tab, i, v)

InsertC(s, i, v, oc) ==
    Then(EnforceFKChild(s, v), LAMBDA r :
        IF Has(r, C(i)) THEN OnConflict(r, "C", i, v, oc) ELSE Put(r, One(C(i), v)))

\* Variant: UNIQUE is not enforced on INSERT.
InsertPAnyway(s, i, v, oc) ==
    IF v \in Rejected THEN Fail(s)
    ELSE IF Has(s, P(i)) THEN OnConflict(s, "P", i, v, oc)
    ELSE Replace(s, i, Null, i, v)

InsertP(s, i, v, oc) ==
    IF v \in Rejected THEN Fail(s)
    ELSE IF Has(s, P(i)) THEN OnConflict(s, "P", i, v, oc)
    ELSE IF v # Null /\ HasOtherPK(s, v, i) THEN Fail(s)
    ELSE Replace(s, i, Null, i, v)

\* execInsert, one row.
InsertRow(s, tab, r, oc) ==
    IF tab = "C" THEN InsertC(s, r.id, r.val, oc)
    ELSE IF r.id # Default THEN InsertP(s, r.id, r.val, oc)
    ELSE Then(Put(s, One(Seq1, NextVal(s))), LAMBDA q : InsertP(q, Read(q.t, Seq1), r.val, oc))

\* Variant: the entry of the old value stays in the index.
UpdatePKeeping(s, i, v, newI, newV) ==
    IF newV \in Rejected THEN Fail(s)
    ELSE Then(FKUpdate(s, i, v, newI, newV), LAMBDA r :
        IF newV \notin {Null, v} /\ HasOtherPK(r, newV, newI) THEN Fail(r)
        ELSE Replace(r, i, Null, newI, newV))

\* execUpdate, one row of P whose cells the scan read as i and v.  A new primary key
\* writes the new row and leaves the old one.
UpdateP(s, i, v, newI, newV) ==
    IF newV \in Rejected THEN Fail(s)
    ELSE Then(FKUpdate(s, i, v, newI, newV), LAMBDA r :
        IF newV \notin {Null, v} /\ HasOtherPK(r, newV, newI) THEN Fail(r)
        ELSE LET moved == IF newI = i THEN {} ELSE {P(i), P(newI)}
             IN  Unchecked(Unindexed(Replace(r, i, v, newI, newV), moved), moved))

UpdateC(s, i, v) == Then(EnforceFKChild(s, v), LAMBDA r : Put(r, One(C(i), v)))

DeleteP(s, i, v) ==
    Then(FKDelete(s, i), LAMBDA r : Put(r, Over(One(P(i), Absent), IndexEntries(r, i, v, FALSE))))

\* The rows that scanTable yields on main and that WHERE selects.
Selected(s, tab, where) == {i \in where : Has(s, <<tab, i>>)}

\* execUpdate and execUpdateFrom, one row
UpdateRow(s, u, i, v) ==
    IF u.tab = "C" THEN UpdateC(s, i, u.val)
    ELSE IF u.col = "id" THEN UpdateP(s, i, v, u.val, v)
    ELSE UpdateP(s, i, v, i, u.val)

\* execDelete and execDeleteUsing, one row
DeleteRow(s, d, i, v) ==
    IF d.tab = "C" THEN Put(s, One(C(i), Absent)) ELSE DeleteP(s, i, v)

\* Row n of VALUES, or of the table: these are taken in key order, as scanned in s,
\* before the first of them is written.
RowStep(r, s, st, n) ==
    IF st.op = "insert" THEN InsertRow(r, st.tab, st.rows[n], st.oc)
    ELSE IF n \notin Selected(s, st.tab, st.where) THEN r
    ELSE LET v == Read(s.t, <<st.tab, n>>)
         IN  IF st.op = "update" THEN UpdateRow(r, st, n, v) ELSE DeleteRow(r, st, n, v)

\* execInsertMultiRow, row by row through execInsert, and the loops of execUpdate and
\* execDelete.
RowByRow(s, st) ==
    Fold(s, IF st.op = "insert" THEN Len(st.rows) ELSE IF st.tab = "P" THEN Ids ELSE CIds,
         LAMBDA r, n : RowStep(r, s, st, n))

\* execTruncate of P: no foreign key is looked at.
Truncate(s) ==
    LET gone == {k \in PRows \cup Entries : Has(s, k)}
    IN  Unchecked(Put(s, [k \in gone |-> Absent]), gone \cap PRows)

\* execCreateIndex: the definition, then an entry per row in key order up to the first
\* value seen again.  What is buffered by then stays buffered.
CreateIndex(s) ==
    LET val(i) == Read(s.t, P(i))
        live == {i \in Id : val(i) \in Val}
        again == {j \in live : \E i \in live : i < j /\ val(i) = val(j)}
        done == {i \in live : \A j \in again : i < j}
        rest == {P(i) : i \in live \ done}
        built == Put(s, Over(One(Idx, "unique"), [k \in {I(val(i), i) : i \in done} |-> k[3]]))
        q == Unchecked(Unindexed(built, rest), rest)
    IN  IF Indexed(s) THEN Fail(s) ELSE IF again = {} THEN q ELSE Fail(q)

\* executeOnce
Exec(s, st) ==
    CASE st.op \in {"insert", "update", "delete"} -> RowByRow(s, st)
      [] st.op = "truncate" -> Truncate(s)
      [] st.op = "index"    -> CreateIndex(s)

-----------------------------------------------------------------------------
(* Sessions.                                                               *)

NoOdd == [index |-> {}, check |-> {}]

State(c, t) ==
    [ok |-> TRUE, t |-> t, pend |-> pend[c], late |-> Deferred(c),
     index |-> odd[c].index, check |-> odd[c].check]

Store(c, s) ==
    /\ txn' = [txn EXCEPT ![c] = s.t]
    /\ pend' = [pend EXCEPT ![c] = s.pend]
    /\ odd' = [odd EXCEPT ![c] = [index |-> s.index, check |-> s.check]]

\* The transaction of c is over, and its statement if it is in autocommit.
Done(c, t) ==
    /\ txn' = t
    /\ ph' = [ph EXCEPT ![c] = "idle"]
    /\ stmt' = [stmt EXCEPT ![c] = None]
    /\ at' = [at EXCEPT ![c] = 0]
    /\ tries' = [tries EXCEPT ![c] = 0]
    /\ pend' = [pend EXCEPT ![c] = <<>>]
    /\ mode' = [mode EXCEPT ![c] = None]
    /\ odd' = [odd EXCEPT ![c] = NoOdd]
    /\ UNCHANGED <<fk, ext, spent>>

\* Rows that a check or an index build of t did not see, or that did not see it,
\* because their writers overlapped.
Overlap(t) ==
    [index |-> IF Idx \in t.since THEN PRows \cap Written(t)
               ELSE IF Idx \in Written(t) THEN PRows \cap t.since ELSE {},
     check |-> (IF t.since \cap (PRows \cup CRows \cup {Idx}) # {} THEN PRows \cap Written(t) ELSE {})
               \cup (IF t.since \cap PRows # {} THEN CRows \cap Written(t) ELSE {})
               \cup (IF Idx \in Written(t) THEN PRows \cap t.since ELSE {})]

Installed(c) ==
    /\ db' = Install(txn[c])
    /\ loose' = LET o == Overlap(txn[c])
                IN  [index |-> loose.index \cup odd[c].index \cup o.index,
                     check |-> loose.check \cup odd[c].check \cup o.check]

Spend == spent < MaxStmts /\ spent' = spent + 1

\* BeginExplicit
Begin(c) ==
    /\ ph[c] = "idle" /\ spent < MaxStmts
    /\ ph' = [ph EXCEPT ![c] = "open"]
    /\ txn' = [txn EXCEPT ![c] = Fresh]
    /\ UNCHANGED <<db, fk, ext, stmt, at, tries, pend, mode, odd, loose, spent>>

\* A statement in the open transaction.  The simple protocol aborts the transaction
\* on an error, the extended one goes on with what the statement has buffered.
Run(c, st) ==
    /\ ph[c] = "open" /\ Spend
    /\ \E s \in {Exec(State(c, txn[c]), st)} :
           /\ Store(c, s)
           /\ ph' = [ph EXCEPT ![c] = IF s.ok \/ ext THEN "open" ELSE "aborted"]
    /\ UNCHANGED <<db, fk, ext, stmt, at, tries, mode, loose>>

\* SetConstraints: IMMEDIATE runs the pending checks; an error leaves the failed one
\* and forgets those after it.
SetConstraints(c, deferred) ==
    /\ ph[c] = "open" /\ fk.deferrable /\ Spend
    /\ mode' = [mode EXCEPT ![c] = deferred]
    /\ LET n == FirstViolated(txn[c], pend[c])
           lost == {pend[c][m].val : m \in (n + 1)..Len(pend[c])}
       IN  \/ deferred /\ UNCHANGED <<pend, odd>>
           \/ /\ ~deferred
              /\ pend' = [pend EXCEPT ![c] = IF n = 0 THEN <<>> ELSE <<@[n]>>]
              /\ odd' = [odd EXCEPT ![c].check =
                             IF n = 0 THEN @ ELSE @ \cup {P(i) : i \in lost}]
    /\ UNCHANGED <<db, txn, fk, ext, ph, stmt, at, tries, loose>>

\* Variant: COMMIT does not run the deferred checks.
CommitUnchecked(c) ==
    /\ ph[c] = "open"
    /\ \/ ~Conflict(txn[c]) /\ Installed(c) /\ Done(c, AfterCommit(c))
       \/ Conflict(txn[c]) /\ Done(c, Ended(c)) /\ UNCHANGED <<db, loose>>

\* CommitExplicit: the deferred checks, then the commit; either may refuse.
Commit(c) ==
    /\ ph[c] = "open"
    /\ \/ /\ FirstViolated(txn[c], pend[c]) = 0
          /\ ~Conflict(txn[c])
          /\ Installed(c) /\ Done(c, AfterCommit(c))
       \/ /\ FirstViolated(txn[c], pend[c]) # 0 \/ Conflict(txn[c])
          /\ Done(c, Ended(c)) /\ UNCHANGED <<db, loose>>

\* RollbackExplicit; COMMIT of an aborted transaction does the same.
Rollback(c) ==
    /\ ph[c] \in {"open", "aborted"}
    /\ Done(c, Ended(c)) /\ UNCHANGED <<db, loose>>

\* Execute in autocommit.
Start(c, st) ==
    /\ ph[c] = "idle" /\ Spend
    /\ ph' = [ph EXCEPT ![c] = "exec"]
    /\ stmt' = [stmt EXCEPT ![c] = st]
    /\ at' = [at EXCEPT ![c] = 1]
    /\ UNCHANGED <<db, txn, fk, ext, tries, pend, mode, odd, loose>>

Rows(st) == IF st.op = "insert" THEN Len(st.rows) ELSE 1

\* In autocommit every row of an INSERT or a COPY begins and commits by itself.
Part(st, n) == IF st.op = "insert" THEN [st EXCEPT !.rows = <<st.rows[n]>>] ELSE st

AutoExec(c) ==
    /\ ph[c] = "exec"
    /\ \E s \in {Exec(State(c, Fresh), Part(stmt[c], at[c]))} :
           \/ /\ s.ok /\ Store(c, s)
              /\ ph' = [ph EXCEPT ![c] = "commit"]
              /\ UNCHANGED <<fk, ext, stmt, at, tries, mode, spent>>
           \/ ~s.ok /\ Done(c, txn)
    /\ UNCHANGED <<db, loose>>

\* The whole statement is retried on a conflict, a COPY from the row at hand.
AutoCommit(c) ==
    /\ ph[c] = "commit"
    /\ \/ /\ ~Conflict(txn[c])
          /\ Installed(c)
          /\ \/ at[c] = Rows(stmt[c]) /\ Done(c, AfterCommit(c))
             \/ /\ at[c] < Rows(stmt[c])
                /\ ph' = [ph EXCEPT ![c] = "exec"]
                /\ at' = [at EXCEPT ![c] = @ + 1]
                /\ tries' = [tries EXCEPT ![c] = IF stmt[c].how = "copy" THEN 0 ELSE @]
                /\ txn' = AfterCommit(c)
                /\ odd' = [odd EXCEPT ![c] = NoOdd]
                /\ UNCHANGED <<fk, ext, stmt, pend, mode, spent>>
       \/ /\ Conflict(txn[c])
          /\ UNCHANGED <<db, loose>>
          /\ \/ tries[c] = MaxRetries /\ Done(c, Ended(c))
             \/ /\ tries[c] < MaxRetries
                /\ ph' = [ph EXCEPT ![c] = "exec"]
                /\ tries' = [tries EXCEPT ![c] = @ + 1]
                /\ at' = [at EXCEPT ![c] = IF stmt[c].op = "insert" /\ stmt[c].how = "copy"
                                           THEN @ ELSE 1]
                /\ txn' = Ended(c)
                /\ odd' = [odd EXCEPT ![c] = NoOdd]
                /\ UNCHANGED <<fk, ext, stmt, pend, mode, spent>>

\* Start from rows that satisfy the constraints, with or without the index.
Init ==
    /\ \E x \in Setups :
          /\ fk = x.fk
          /\ ext = x.ext
          /\ KVInit([k \in Key |->
                CASE k \in DOMAIN x.rows -> x.rows[k]
                  [] k = Idx /\ x.indexed -> "unique"
                  [] k \in Entries /\ x.indexed /\ <<P(k[3]), k[2]>> \in
                        {<<r, x.rows[r]>> : r \in DOMAIN x.rows} -> k[3]
                  [] OTHER -> Absent])
    /\ ph = [c \in Client |-> "idle"]
    /\ stmt = [c \in Client |-> None]
    /\ at = [c \in Client |-> 0]
    /\ tries = [c \in Client |-> 0]
    /\ pend = [c \in Client |-> <<>>]
    /\ mode = [c \in Client |-> None]
    /\ odd = [c \in Client |-> NoOdd]
    /\ loose = NoOdd
    /\ spent = 0

Next ==
    \E c \in Client :
        \/ Begin(c) \/ Commit(c) \/ Rollback(c) \/ AutoExec(c) \/ AutoCommit(c)
        \/ \E st \in Stmts : Run(c, st) \/ Start(c, st)
        \/ \E d \in BOOLEAN : SetConstraints(c, d)

Spec == Init /\ [][Next]_vars

-----------------------------------------------------------------------------
\* The unique index has exactly one entry per row with a value, whatever the order of
\* statements, conflicts and commits, but for rows whose primary key an UPDATE changed,
\* rows written while the index was built, and rows that the back-fill of a CREATE UNIQUE
\* INDEX did not reach because it failed, in a block of the extended protocol that
\* committed nevertheless (indexEntries at every write, execCreateIndex).
IndexAgrees ==
    db[Idx] # Absent =>
        \A i \in Id : P(i) \notin loose.index =>
            \A v \in Val : (db[I(v, i)] # Absent) = (db[P(i)] = v)

\* Once the index exists, two committed rows share a value, and a row holds a value
\* that its checks refuse, only if one of them was written by ON CONFLICT DO UPDATE,
\* by a change of primary key, or by a transaction that overlapped another's writes, or
\* was there when CREATE UNIQUE INDEX failed on it and its block committed.
ViolationsExplained ==
    \A i, j \in Id :
        /\ db[P(i)] \in Rejected => P(i) \in loose.check
        /\ i # j /\ db[Idx] # Absent /\ db[P(i)] \in Val /\ db[P(i)] = db[P(j)] =>
              {P(i), P(j)} \cap loose.check # {}

\* A committed row of C references a row of P, immediate or deferred and whatever the
\* referential actions, unless one of the two was written by a transaction that
\* overlapped another's writes, by ON CONFLICT DO UPDATE, or by TRUNCATE, or the check
\* was behind a failed one in SET CONSTRAINTS IMMEDIATE.
OrphansExplained ==
    \A j \in CId :
        db[C(j)] \in Id /\ db[P(db[C(j)])] = Absent =>
            {C(j), P(db[C(j)])} \cap loose.check # {}

Count(x) == IF x = Absent THEN 0 ELSE x

\* No commit gives a serial value that another has given, or skips one: it moves the
\* counter on by exactly what its own statements took (nextSequenceVal: "gap-free,
\* collision-free").  The values of statements that failed inside it are among those.
SerialDense ==
    [][\A c \in Client : db' # db /\ txn[c].buf[Seq1] # Keep /\ ~txn'[c].open =>
          Count(db'[Seq1]) - Count(db[Seq1]) = txn[c].buf[Seq1] - Count(txn[c].snap[Seq1])]_vars
=============================================================================
