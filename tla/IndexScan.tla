----------------------------- MODULE IndexScan -----------------------------
(***************************************************************************)
(* SELECT from one table with its secondary indexes: how index entries are *)
(* made (index.go), how planIndexScan chooses between an index and a full  *)
(* scan (index_scan.go), and what execSelectFrom does with the rows.       *)
(*                                                                         *)
(* A row has a key pk, two columns a and b that may be NULL, a flag f and  *)
(* an expression x over it that can be indexed.  A query is a conjunction  *)
(* of comparisons with constants, tests of the flag and disjunctions, with *)
(* an ORDER BY of a column and a LIMIT.  What it lists are the rows, or of *)
(* the column it is ordered by the groups with their counts, the DISTINCT  *)
(* values or a row per value (DISTINCT ON), or each row with a window      *)
(* count of all.  With row-level security the flag is also the policy's    *)
(* USING predicate.                                                        *)
(***************************************************************************)
EXTENDS Values

-----------------------------------------------------------------------------
(* Indexes: [cols, partial, expr].  The table t gives the type of column a *)
(* and of the expression x, and whether it has a primary key.              *)

TypeOf(t, c) == IF c = "a" THEN t.type ELSE IF c = "x" THEN t.xtype ELSE "int"

\* rowMatchesPartial, encodeIndexKey: only rows that satisfy the predicate and have
\* no NULL in the index's columns get an entry.
Entered(d, r) == (d.partial # "none" => r.f) /\ \A i \in DOMAIN d.cols : r[d.cols[i]] # NULL

\* encodeIndexTuple: the key of an entry, with the type its value was encoded as.
EntryKey(t, d, r) == [i \in DOMAIN d.cols |-> OrderKey(TypeOf(t, d.cols[i]), r[d.cols[i]])]

\* Entries in key order, the row's key last.
RECURSIVE CmpTuple(_, _)
CmpTuple(s, u) ==
    IF s = <<>> THEN 0
    ELSE IF Head(s) # Head(u) THEN Sign(Head(s) - Head(u)) ELSE CmpTuple(Tail(s), Tail(u))

Entries(t, d) ==
    StableSort(SelectSeq(t.rows, LAMBDA r : Entered(d, r)),
               LAMBDA r, s : CmpTuple(EntryKey(t, d, r) \o <<r.pk>>, EntryKey(t, d, s) \o <<s.pk>>))

\* The flag's predicate may be written f, f = true or f IS TRUE (booleanEquivForms).
EquivForms(form) == IF form = "is" THEN {"is"} ELSE {"bare", "eq", "is"}

\* predicateImplies.
Implies(q, partial) ==
    \/ partial = "none"
    \/ \E i \in DOMAIN q.where : q.where[i].k = "flag" /\ q.where[i].form \in EquivForms(partial)

-----------------------------------------------------------------------------
(* scanIndexRange: the entries whose leading columns are between lo and hi,*)
(* forward or in reverse, each followed to its row by the key stored in    *)
(* the entry.  Without a primary key that is the row's whole storage key,  *)
(* and RowKey of it names no row.                                          *)

Between(key, lo, hi) ==
    /\ lo # NULL => CmpTuple(lo, SubSeq(key, 1, Len(lo))) <= 0
    /\ hi # NULL => CmpTuple(SubSeq(key, 1, Len(hi)), hi) <= 0

Scan(t, d, lo, hi, desc, limit) ==
    LET E == SelectSeq(Entries(t, d), LAMBDA r : Between(EntryKey(t, d, r), lo, hi))
        S == IF desc THEN Reverse(E) ELSE E
        F == IF t.keyed THEN S ELSE <<>>
    IN  IF limit # NULL /\ limit < Len(F) THEN SubSeq(F, 1, limit) ELSE F

-----------------------------------------------------------------------------
(* The planner.                                                            *)

\* boundFromComparisonP: the bounds that one comparison gives.
IsCol(c) == c.k = "cmp" /\ c.col # "x"
Lower == {"=", ">", ">="}
Upper == {"=", "<", "<="}

\* collectEqualities: the last equality on a column counts.
Equalities(q) == {i \in DOMAIN q.where : IsCol(q.where[i]) /\ q.where[i].op = "="}
EqCols(q) == {q.where[i].col : i \in Equalities(q)}
EqVal(q, col) == q.where[Max({i \in Equalities(q) : q.where[i].col = col})].n

\* extractColBounds: every conjunct compares the same column; mergeBounds keeps the
\* last lower and the last upper bound.
BoundsOK(q) ==
    /\ q.where # <<>>
    /\ \A i \in DOMAIN q.where : IsCol(q.where[i]) /\ q.where[i].col = q.where[1].col
Bound(q, ops) ==
    LET I == {i \in DOMAIN q.where : IsCol(q.where[i]) /\ q.where[i].op \in ops}
    IN  IF I = {} THEN NULL ELSE q.where[Max(I)].n

Usable(t, q) == {i \in DOMAIN t.indexes : Implies(q, t.indexes[i].partial)}

FullScan(t) == [rows |-> t.rows, ordered |-> FALSE, by |-> NULL]

\* tryExprEquality: x = n by an index on x.  The constant is encoded as text,
\* whatever type the entries were encoded as.
ExprScans(t, q) ==
    {[rows |-> IF t.xtype = "text" THEN Scan(t, t.indexes[i], <<OrderKey("text", q.where[j].n)>>,
                                               <<OrderKey("text", q.where[j].n)>>, FALSE, NULL)
               ELSE <<>>,
      ordered |-> FALSE, by |-> i] :
        i \in {k \in Usable(t, q) : t.indexes[k].expr},
        j \in {k \in DOMAIN q.where : q.where[k].k = "cmp" /\ q.where[k].col = "x"
                                        /\ q.where[k].op = "="}}

\* A scan for the tuple of equality constants.
Tuple(t, q, d) == [i \in DOMAIN d.cols |-> OrderKey(TypeOf(t, d.cols[i]), EqVal(q, d.cols[i]))]
TupleScan(t, q, i) ==
    [rows |-> Scan(t, t.indexes[i], Tuple(t, q, t.indexes[i]), Tuple(t, q, t.indexes[i]), FALSE, NULL),
     ordered |-> FALSE, by |-> i]

\* tryCompositeEquality, findIndexForEquality: equality on all columns of an index of
\* several; the first of those with most columns.
CompositeScans(t, q) ==
    LET C == {i \in Usable(t, q) : /\ ~t.indexes[i].expr
                                   /\ ToSet(t.indexes[i].cols) \subseteq EqCols(q)}
        Most == {i \in C : \A j \in C : Len(t.indexes[j].cols) <= Len(t.indexes[i].cols)}
    IN  IF C = {} \/ Len(t.indexes[Min(Most)].cols) < 2 THEN {} ELSE {TupleScan(t, q, Min(Most))}

\* trySingleColEquality: columns in Go's map order; on each, a partial index that the
\* query implies before a full one.
SingleScans(t, q) ==
    LET On(col) == {i \in Usable(t, q) : ~t.indexes[i].expr /\ t.indexes[i].cols = <<col>>}
        Partial(col) == {i \in On(col) : t.indexes[i].partial # "none"}
    IN  {TupleScan(t, q, Min(IF Partial(col) # {} THEN Partial(col) ELSE On(col))) :
            col \in {c \in EqCols(q) : On(c) # {}}}

\* findIndexOn: a single-column index on the column, else one that it leads; without
\* a WHERE no partial index.
Leading(t, q, col) ==
    LET U == {i \in Usable(t, q) : ~t.indexes[i].expr /\ t.indexes[i].cols[1] = col}
        One == {i \in U : Len(t.indexes[i].cols) = 1}
    IN  IF One # {} THEN {Min(One)} ELSE IF U # {} THEN {Min(U)} ELSE {}

\* Variant: the LIMIT stops the scan whether or not there is a WHERE.
EarlyStopAlways(q, ordered) == IF ordered THEN q.limit ELSE NULL

\* A LIMIT stops the scan early without a WHERE and without DISTINCT, whatever else the
\* query does with the rows.
EarlyStop(q, ordered) ==
    IF ordered /\ q.where = <<>> /\ q.list \notin {"distinct", "distinct on"} THEN q.limit ELSE NULL

\* The range scan, or the scan in the order of ORDER BY.
RangeScans(t, q) ==
    LET orderOK == q.order # NULL /\ (BoundsOK(q) => q.where[1].col = q.order.col)
        col == IF BoundsOK(q) THEN q.where[1].col ELSE q.order.col
        End(ops) == IF BoundsOK(q) /\ Bound(q, ops) # NULL
                    THEN <<OrderKey(TypeOf(t, col), Bound(q, ops))>> ELSE NULL
    IN  IF ~BoundsOK(q) /\ ~orderOK THEN {}
        ELSE IF /\ BoundsOK(q) /\ ~orderOK /\ col = "pk" /\ t.keyed
                /\ Bound(q, Lower) # NULL /\ Bound(q, Lower) = Bound(q, Upper)
        THEN {[rows |-> SelectSeq(t.rows, LAMBDA r : r.pk = Bound(q, Lower)),
               ordered |-> TRUE, by |-> 0]}
        ELSE {[rows |-> Scan(t, t.indexes[i], End(Lower), End(Upper), q.order # NULL /\ q.order.desc,
                             EarlyStop(q, orderOK)),
               ordered |-> orderOK, by |-> i] : i \in Leading(t, q, col)}

\* planIndexScan: the first of them that applies.
Plans(t, q) ==
    LET noSort == q.order = NULL
        P == <<IF noSort THEN ExprScans(t, q) ELSE {},
               IF noSort /\ Cardinality(EqCols(q)) >= 2 THEN CompositeScans(t, q) ELSE {},
               IF noSort THEN SingleScans(t, q) ELSE {},
               RangeScans(t, q), {FullScan(t)}>>
    IN  P[Min({i \in DOMAIN P : P[i] # {}})]

-----------------------------------------------------------------------------
(* execSelectFrom: the policies, WHERE again on every path, groups, ORDER  *)
(* BY unless the index gave the order, DISTINCT ON, LIMIT, projection; the *)
(* LIMIT comes last with DISTINCT and window functions.                    *)

RECURSIVE Satisfies(_, _)
Satisfies(r, c) ==
    CASE c.k = "cmp" -> r[c.col] # NULL /\ Holds(c.op, Sign(r[c.col] - c.n))
      [] c.k = "flag" -> r.f
      [] c.k = "or" -> Satisfies(r, c.l) \/ Satisfies(r, c.r)

\* applyRLSSelect, then WHERE.
Where(t, q, r) == (t.rls => r.f) /\ \A i \in DOMAIN q.where : Satisfies(r, q.where[i])

\* sortRows, with NULL last under ASC and first under DESC.
SortKey(t, q, n) == IF n = NULL THEN NULL ELSE OrderKey(TypeOf(t, q.order.col), n)
CmpKeys(t, q, m, n) ==
    (IF q.order.desc THEN -1 ELSE 1) * CmpDatum(SortKey(t, q, m), SortKey(t, q, n))

Limited(q, s) == IF q.limit # NULL /\ q.limit < Len(s) THEN SubSeq(s, 1, q.limit) ELSE s

\* execAggregate: the groups in the order their first rows come, with their counts.
Groups(q, rows) ==
    LET col == q.order.col
        first == {i \in DOMAIN rows : \A h \in 1 .. i - 1 : rows[h][col] # rows[i][col]}
        Of(n) == SelectSeq(rows, LAMBDA r : r[col] = n)
    IN  FlattenSeq([i \in DOMAIN rows |->
            IF i \in first THEN <<<<rows[i][col], Len(Of(rows[i][col]))>>>> ELSE <<>>])

\* distinctOnRows: the first of adjacent rows with one value.
FirstOfEach(q, rows) ==
    LET col == q.order.col
    IN  FlattenSeq([i \in DOMAIN rows |->
            IF i > 1 /\ rows[i - 1][col] = rows[i][col] THEN <<>> ELSE <<rows[i]>>])

\* projectRows and dedupRows: one column, all columns and a window count over the rows
\* that are there by then.
Values(q, rows) ==
    FlattenSeq([i \in DOMAIN rows |->
        IF \E h \in 1 .. i - 1 : rows[h][q.order.col] = rows[i][q.order.col] THEN <<>>
        ELSE <<rows[i][q.order.col]>>])
Counted(rows) == [i \in DOMAIN rows |-> <<rows[i], Len(rows)>>]

Select(t, q, p) ==
    LET kept == SelectSeq(p.rows, LAMBDA r : Where(t, q, r))
        sorted == IF q.order = NULL \/ p.ordered THEN kept
                  ELSE StableSort(kept, LAMBDA r, s : CmpKeys(t, q, r[q.order.col], s[q.order.col]))
    IN  Limited(q, CASE q.list = "rows"        -> sorted
                     [] q.list = "groups"      -> StableSort(Groups(q, kept), LAMBDA r, s : CmpKeys(t, q, r[1], s[1]))
                     [] q.list = "distinct on" -> FirstOfEach(q, sorted)
                     [] q.list = "distinct"    -> Values(q, sorted)
                     [] q.list = "window"      -> Counted(sorted))

Answers(t, q) == {[rows |-> Select(t, q, p), by |-> p.by] : p \in Plans(t, q)}

-----------------------------------------------------------------------------
(* The reference.                                                          *)

Selected(t, q) == SelectSeq(t.rows, LAMBDA r : Where(t, q, r))

\* What can be in the result, and the value that the order looks at.
Whole(t, q) ==
    LET rows == Selected(t, q)
    IN  CASE q.list \in {"rows", "distinct on"} -> ToSet(rows)
          [] q.list = "groups"   -> {<<r[q.order.col], Cardinality({s \in ToSet(rows) : s[q.order.col] = r[q.order.col]})>> :
                                        r \in ToSet(rows)}
          [] q.list = "distinct" -> {r[q.order.col] : r \in ToSet(rows)}
          [] q.list = "window"   -> {<<r, Len(rows)>> : r \in ToSet(rows)}

At(q, z) ==
    CASE q.list \in {"rows", "distinct on"} -> z[q.order.col]
      [] q.list = "groups"   -> z[1]
      [] q.list = "distinct" -> z
      [] q.list = "window"   -> z[1][q.order.col]

InOrder(q, x, y) ==
    q.order = NULL \/ (IF q.order.desc THEN -1 ELSE 1) * CmpDatum(At(q, x), At(q, y)) <= 0

\* All that the query can list, DISTINCT ON one row per value of it, in order; with a
\* LIMIT, that many first ones.
Correct(t, q, rows) ==
    LET W == Whole(t, q)
        Id(x) == IF q.list = "distinct on" THEN At(q, x) ELSE x
        ids == {Id(x) : x \in ToSet(rows)}
        all == Cardinality({Id(x) : x \in W})
    IN  /\ ToSet(rows) \subseteq W
        /\ Cardinality(ids) = Len(rows)
        /\ Len(rows) = IF q.limit = NULL THEN all ELSE Min({q.limit, all})
        /\ \A i, j \in DOMAIN rows : i < j => InOrder(q, rows[i], rows[j])
        /\ \A i \in DOMAIN rows, x \in W : Id(x) \notin ids => InOrder(q, rows[i], x)

\* What an index can be relied on for: rows that have an entry in it, followed by a
\* primary key, in an order that its encoding keeps, and not cut short by a LIMIT that
\* applies to something else than the scanned rows: to groups, to the rows that a policy
\* shows, or to the rows that a window function has counted.
Reliable(t, q, by) ==
    /\ q.order # NULL => TypeOf(t, q.order.col) = "int"
    /\ by \notin {NULL, 0} =>
        LET d == t.indexes[by]
        IN  /\ t.keyed
            /\ \A r \in ToSet(Selected(t, q)) : Entered(d, r)
            /\ d.expr => t.xtype = "text"
            /\ \/ t.type = "int" \/ "a" \notin ToSet(d.cols)
               \/ \A i \in DOMAIN q.where : q.where[i].k = "cmp" => q.where[i].op = "="
            /\ EarlyStop(q, q.order # NULL) # NULL => q.list \notin {"groups", "window"} /\ ~t.rls
=============================================================================
