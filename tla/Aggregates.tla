----------------------------- MODULE Aggregates -----------------------------
(***************************************************************************)
(* Aggregates, GROUP BY (agg.go) and window functions (window.go) over     *)
(* sequences of rows [g, v, keep]: a grouping value, an argument, either of*)
(* which may be NULL, and whether a FILTER keeps the row.                  *)
(***************************************************************************)
EXTENDS Expressions

CONSTANT FloatBits  \* the significant bits of a float64 (53 in the code)

Column(rows, c) == [i \in DOMAIN rows |-> rows[i][c]]
NonNull(s) == SelectSeq(s, LAMBDA x : x # NULL)
First(s) == FlattenSeq([i \in DOMAIN s |-> IF \E h \in 1 .. i - 1 : s[h] = s[i] THEN <<>> ELSE <<s[i]>>])

Total(s) == LET sum[i \in 0 .. Len(s)] == IF i = 0 THEN 0 ELSE sum[i - 1] + s[i] IN sum[Len(s)]

\* The least and the greatest by the order encoding of the type.
ByKey(type, n) == OrderKey(type, n)
Least(type, s) == CHOOSE x \in ToSet(s) : \A y \in ToSet(s) : ByKey(type, x) <= ByKey(type, y)
Greatest(type, s) == CHOOSE x \in ToSet(s) : \A y \in ToSet(s) : ByKey(type, x) >= ByKey(type, y)

\* The values that an aggregate sees: FILTER, then DISTINCT, which also drops NULLs.
Seen(f, rows) ==
    LET kept == Column(IF f.filter THEN SelectSeq(rows, LAMBDA r : r.keep) ELSE rows, "v")
    IN  IF f.distinct THEN First(NonNull(kept)) ELSE kept

\* percentile_disc(f.num / f.den).
Ceil(a, b) == (a + b - 1) \div b
Disc(f, s) ==
    LET sorted == StableSort(s, CmpDatum)
        i == Ceil(f.num * Len(s), f.den)
    IN  sorted[IF i < 1 THEN 1 ELSE IF i > Len(s) THEN Len(s) ELSE i]

\* mode: every value that is most frequent, as ties are taken in Go's map order.
Modes(vals) == {x \in ToSet(vals) : \A y \in ToSet(vals) : Count(vals, y) <= Count(vals, x)}

\* bool_and and bool_or of v > f.above; a NULL counts as false.
IsTrue(f, x) == x # NULL /\ x > f.above
BoolAnd(f, s) == \A i \in DOMAIN s : IsTrue(f, s[i])
BoolOr(f, s) == \E i \in DOMAIN s : IsTrue(f, s[i])

\* count(v) skips NULLs.
CountValues(s) == Len(NonNull(s))

\* evalAggregate.  The result is a set, of one value but for mode.
EvalAggregate(f, rows) ==
    LET s == Seen(f, rows)
        vals == NonNull(s)
        OrNull(x) == IF vals = <<>> THEN NULL ELSE x
    IN  CASE f.name = "count(*)" -> {Len(IF f.filter THEN SelectSeq(rows, LAMBDA r : r.keep) ELSE rows)}
          [] f.name = "count" -> {CountValues(s)}
          [] f.name = "sum" -> {OrNull(Wrap(Total(vals)))}
          [] f.name = "avg" -> {OrNull(<<Total(vals), Len(vals)>>)}
          [] f.name = "min" -> {OrNull(Least(f.type, vals))}
          [] f.name = "max" -> {OrNull(Greatest(f.type, vals))}
          [] f.name = "bool_and" -> {BoolAnd(f, s)}
          [] f.name = "bool_or" -> {BoolOr(f, s)}
          [] f.name \in {"array_agg", "string_agg"} -> {OrNull(vals)}
          [] f.name = "json_agg" -> {s}
          [] f.name = "percentile_disc" -> {OrNull(Disc(f, vals))}
          [] f.name = "mode" -> IF vals = <<>> THEN {NULL} ELSE Modes(vals)
          [] f.name = "first" -> {OrNull(vals[1])}
          [] f.name = "last" -> {OrNull(vals[Len(vals)])}

-----------------------------------------------------------------------------
(* execAggregate: GROUP BY g (or one group), HAVING count of rows, ORDER BY*)
(* g, DISTINCT over the projected aggregate, LIMIT.                        *)

Buckets(q, rows) ==
    IF ~q.group THEN <<[g |-> NULL, rows |-> rows]>>
    ELSE LET keys == First(Column(rows, "g"))
         IN  [i \in DOMAIN keys |-> [g |-> keys[i], rows |-> SelectSeq(rows, LAMBDA r : r.g = keys[i])]]

\* One answer, for aggregates without ties.
ExecAggregate(q, rows) ==
    LET bs == SelectSeq(Buckets(q, rows), LAMBDA b : Len(b.rows) >= q.having)
        out == [i \in DOMAIN bs |-> [g |-> bs[i].g, val |-> CHOOSE x \in EvalAggregate(q.f, bs[i].rows) : TRUE]]
        sorted == IF q.order = "none" THEN out
                  ELSE StableSort(out, LAMBDA a, b : (IF q.order = "desc" THEN -1 ELSE 1) * CmpDatum(a.g, b.g))
        kept == IF q.distinct THEN First(Column(sorted, "val")) ELSE sorted
    IN  IF q.limit < Len(kept) THEN SubSeq(kept, 1, q.limit) ELSE kept

-----------------------------------------------------------------------------
(* Window functions.                                                       *)

\* compareOrderKeys.
CmpOver(w, r, s) ==
    IF w.order = "none" THEN 0
    ELSE (IF w.order = "desc" THEN -1 ELSE 1) * CmpDatum(r.v, s.v)

\* The positions of the rows of a partition, in its order.
Partition(w, rows, i) ==
    LET idx == SelectSeq([k \in DOMAIN rows |-> k], LAMBDA k : w.partition => rows[k].g = rows[i].g)
    IN  StableSort(idx, LAMBDA k, l : CmpOver(w, rows[k], rows[l]))

\* The float64 nearest to a whole number, the even one of two.
ToFloat(x) ==
    LET a == IF x < 0 THEN -x ELSE x
        e == CHOOSE k \in 0 .. a : a < 2^(FloatBits + k) /\ (k = 0 \/ a >= 2^(FloatBits + k - 1))
        q == a \div 2^e
        over == 2 * (a % 2^e)
    IN  Sign(x) * 2^e * (IF over > 2^e \/ (over = 2^e /\ q % 2 = 1) THEN q + 1 ELSE q)

FloatSum(s) == LET sum[i \in 0 .. Len(s)] == IF i = 0 THEN 0 ELSE ToFloat(sum[i - 1] + ToFloat(s[i])) IN sum[Len(s)]

\* aggregateOver.  An average is the pair of what is divided.
AggregateOver(w, s) ==
    LET vals == NonNull(s)
    IN  CASE w.name = "count(*)" -> Len(s)
          [] w.name = "count" -> Len(vals)
          [] w.name = "sum" -> IF vals = <<>> THEN NULL ELSE FloatSum(vals)
          [] w.name = "avg" -> IF vals = <<>> THEN NULL ELSE <<FloatSum(vals), Len(vals)>>
          [] w.name = "min" -> IF vals = <<>> THEN NULL ELSE Min(ToSet(vals))
          [] w.name = "max" -> IF vals = <<>> THEN NULL ELSE Max(ToSet(vals))

\* Variant: a running frame ends at the row and not at its last peer.
FrameEndRow(w, rows, idx, p) == p

\* The last peer of position p, or the whole partition without an ORDER BY.
FrameEnd(w, rows, idx, p) ==
    Max({e \in DOMAIN idx : e >= p /\ \A k \in p + 1 .. e : CmpOver(w, rows[idx[k - 1]], rows[idx[k]]) = 0})

\* The first peer, by the same comparisons of neighbours.
FirstPeer(w, rows, idx, p) ==
    Min({b \in DOMAIN idx : b <= p /\ \A k \in b + 1 .. p : CmpOver(w, rows[idx[k - 1]], rows[idx[k]]) = 0})

\* computePartition: the value at position p of a partition.
WindowAt(w, rows, idx, p) ==
    CASE w.name = "row_number" -> p
      [] w.name = "rank" -> FirstPeer(w, rows, idx, p)
      [] w.name = "dense_rank" -> Cardinality({b \in 1 .. p : FirstPeer(w, rows, idx, b) = b})
      [] w.name \notin {"row_number", "rank", "dense_rank"} ->
            AggregateOver(w, [k \in 1 .. FrameEnd(w, rows, idx, p) |-> rows[idx[k]].v])

\* computeOneWindow: a value for every row.
ComputeWindow(w, rows) ==
    [i \in DOMAIN rows |->
        LET idx == Partition(w, rows, i)
        IN  WindowAt(w, rows, idx, CHOOSE p \in DOMAIN idx : idx[p] = i)]

-----------------------------------------------------------------------------
(* The references.                                                         *)

Kept(f, rows) == {i \in DOMAIN rows : f.filter => rows[i].keep}
Args(f, rows) == {i \in Kept(f, rows) : rows[i].v # NULL}

\* Where an aggregate is known to depart from SQL: overflow of a sum, minimum of a
\* type encoded as text, NULLs left out of array_agg, and bool_and and bool_or of
\* NULLs or of nothing.
AggDeparts(f, rows) ==
    \/ f.name = "sum" /\ LET t == Total(NonNull(Seen(f, rows))) IN Wrap(t) # t
    \/ f.name \in {"min", "max"} /\ f.type # "int"
    \/ f.name \in {"bool_and", "bool_or"} /\ Args(f, rows) = {}
    \/ f.name \in {"array_agg", "bool_and"} /\ Args(f, rows) # Kept(f, rows)

\* An aggregate's value by its definition over the set of the values V, how often
\* each occurs and, for those that depend on it, the order of the rows.
AggIsRight(f, rows, x) ==
    LET V == {rows[i].v : i \in Args(f, rows)}
        Times(v) == IF f.distinct THEN 1 ELSE Cardinality({i \in Args(f, rows) : rows[i].v = v})
        n == MapThenSumSet(Times, V)
        sum == MapThenSumSet(LAMBDA v : v * Times(v), V)
        Lists(s, I) == Len(s) = Cardinality(I) /\ \A i \in I : s[Cardinality({j \in I : j <= i})] = rows[i].v
        UpTo(v) == MapThenSumSet(Times, {u \in V : u <= v})
    IN  CASE f.name = "count(*)" -> x = Cardinality(Kept(f, rows))
          [] f.name = "count" -> x = n
          [] f.name = "json_agg" -> IF f.distinct THEN Len(x) = n /\ ToSet(x) = V ELSE Lists(x, Kept(f, rows))
          [] f.name \notin {"count(*)", "count", "json_agg"} /\ V = {} -> x = NULL
          [] f.name = "sum" /\ V # {} -> x = sum
          [] f.name = "avg" /\ V # {} -> x[1] * n = sum * x[2]
          [] f.name = "min" /\ V # {} -> x = Min(V)
          [] f.name = "max" /\ V # {} -> x = Max(V)
          [] f.name = "bool_and" /\ V # {} -> x = (Min(V) > f.above)
          [] f.name = "bool_or" /\ V # {} -> x = (Max(V) > f.above)
          [] f.name \in {"array_agg", "string_agg"} /\ V # {} ->
                IF f.distinct THEN Len(x) = n /\ ToSet(x) = V ELSE Lists(x, Args(f, rows))
          [] f.name = "percentile_disc" /\ V # {} -> x = Min({v \in V : UpTo(v) * f.den >= f.num * n})
          [] f.name = "mode" /\ V # {} -> x \in V /\ \A v \in V : Times(v) <= Times(x)
          [] f.name = "first" /\ V # {} -> x = rows[Min(Args(f, rows))].v
          [] f.name = "last" /\ V # {} -> IF f.distinct THEN x \in V ELSE x = rows[Max(Args(f, rows))].v

\* Every group that HAVING keeps has one row with its aggregate, in order, up to the
\* limit; DISTINCT keeps one row of each value.
GroupsAreRight(q, rows, out) ==
    LET G == IF q.group THEN {rows[i].g : i \in DOMAIN rows} ELSE {NULL}
        Of(g) == IF q.group THEN SelectSeq(rows, LAMBDA r : r.g = g) ELSE rows
        K == {g \in G : Len(Of(g)) >= q.having}
        vals == {x \in UNION {EvalAggregate(q.f, Of(g)) : g \in K} : TRUE}
        size == Cardinality(IF q.distinct THEN vals ELSE K)
    IN  /\ Len(out) = Min({q.limit, size})
        /\ Cardinality(ToSet(out)) = Len(out)
        /\ IF q.distinct THEN ToSet(out) \subseteq vals
           ELSE /\ \A i \in DOMAIN out :
                      /\ out[i].g \in K
                      /\ AggDeparts(q.f, Of(out[i].g)) \/ AggIsRight(q.f, Of(out[i].g), out[i].val)
                /\ \A i, j \in DOMAIN out : i < j /\ q.order # "none" =>
                      (IF q.order = "desc" THEN -1 ELSE 1) * CmpDatum(out[i].g, out[j].g) <= 0

\* Where a window function is known to depart from SQL: a sum or an average whose partial
\* sums have more bits than a float64.
WindowDeparts(w, rows) ==
    /\ w.name \in {"sum", "avg"}
    /\ MapThenSumSet(LAMBDA i : IF rows[i].v = NULL THEN 0 ELSE rows[i].v, DOMAIN rows) > 2^FloatBits

\* A window value by the set of the rows that come before the row, or beside it.
WindowIsRight(w, rows, out) ==
    LET P(i) == {k \in DOMAIN rows : w.partition => rows[k].g = rows[i].g}
        Before(i) == {k \in P(i) : CmpOver(w, rows[k], rows[i]) < 0}
        Frame(i) == {k \in P(i) : CmpOver(w, rows[k], rows[i]) <= 0}
        V(i) == {k \in Frame(i) : rows[k].v # NULL}
        Or(i, x) == IF V(i) = {} THEN NULL ELSE x
    IN  \A i \in DOMAIN rows :
        CASE w.name = "row_number" ->
                /\ out[i] \in Cardinality(Before(i)) + 1 .. Cardinality(Frame(i))
                /\ \A k \in P(i) \ {i} : out[k] # out[i]
          [] w.name = "rank" -> out[i] = Cardinality(Before(i)) + 1
          [] w.name = "dense_rank" -> out[i] = Cardinality({rows[k].v : k \in Before(i)}) + 1
          [] w.name = "count(*)" -> out[i] = Cardinality(Frame(i))
          [] w.name = "count" -> out[i] = Cardinality(V(i))
          [] w.name = "sum" -> out[i] = Or(i, MapThenSumSet(LAMBDA k : rows[k].v, V(i)))
          [] w.name = "avg" -> IF V(i) = {} THEN out[i] = NULL
                               ELSE out[i][1] * Cardinality(V(i)) = out[i][2] * MapThenSumSet(LAMBDA k : rows[k].v, V(i))
          [] w.name = "min" -> out[i] = Or(i, Min({rows[k].v : k \in V(i)}))
          [] w.name = "max" -> out[i] = Or(i, Max({rows[k].v : k \in V(i)}))
=============================================================================
