----------------------------- MODULE Relations -----------------------------
(***************************************************************************)
(* Joins (join.go, lateral.go), set operations (setop.go) and recursive    *)
(* common table expressions (cte_recursive.go), over sequences of          *)
(* one-column rows.                                                        *)
(***************************************************************************)
EXTENDS Values

CONSTANT MaxIterations \* of a recursive CTE (100000 in the code)

FlatMap(s, F(_)) == FlattenSeq([i \in DOMAIN s |-> F(s[i])])

-----------------------------------------------------------------------------
(* Joins.                                                                  *)

\* joinMatch: the ON predicate, as asBool sees it, or usingEqual; CROSS and a missing ON
\* match all.
Match(j, l, r) ==
    \/ j.type = "cross" \/ j.on = "none"
    \/ l # NULL /\ r # NULL /\ Holds(IF j.on = "using" THEN "=" ELSE j.on, Sign(l - r))

\* The column of USING is looked up without a qualifier first, which is an error once
\* there is a pair of rows that have it on both sides (combinedResolver).
Ambiguous(j, L, R) == j.on = "using" /\ j.type # "cross" /\ L # <<>> /\ R # <<>>

\* nestedLoopJoin, with the left rows outside.
Inner(j, l, R) == FlatMap(R, LAMBDA r : IF Match(j, l, r) THEN <<<<l, r>>>> ELSE <<>>)

\* Variant: a left row is filled when the right side is empty.
LeftOuterEmptyOnly(j, l, R) == IF R = <<>> THEN <<<<l, NULL>>>> ELSE Inner(j, l, R)

LeftOuter(j, l, R) == IF Inner(j, l, R) = <<>> THEN <<<<l, NULL>>>> ELSE Inner(j, l, R)

\* A RIGHT join has the right rows outside.
RightOuter(j, L, r) ==
    LET M == FlatMap(L, LAMBDA l : IF Match(j, l, r) THEN <<<<l, r>>>> ELSE <<>>)
    IN  IF M = <<>> THEN <<<<NULL, r>>>> ELSE M

\* A FULL join emits the right rows that no left row matched, at the end.
NestedLoopJoin(j, L, R) ==
    CASE Ambiguous(j, L, R) -> Error
      [] j.type \in {"inner", "cross"} -> FlatMap(L, LAMBDA l : Inner(j, l, R))
      [] j.type = "left" -> FlatMap(L, LAMBDA l : LeftOuter(j, l, R))
      [] j.type = "right" -> FlatMap(R, LAMBDA r : RightOuter(j, L, r))
      [] j.type = "full" ->
            FlatMap(L, LAMBDA l : LeftOuter(j, l, R))
            \o FlatMap(R, LAMBDA r : IF \E i \in DOMAIN L : Match(j, L[i], r) THEN <<>>
                                     ELSE <<<<NULL, r>>>>)

\* materializeLateralJoin: the subquery is run for each left row with its value put
\* in for the outer reference; LEFT and FULL fill, and RIGHT is run as INNER.
LateralJoin(j, L, R) ==
    FlatMap(L, LAMBDA l :
        LET sub == SelectSeq(R, LAMBDA r : l # NULL /\ r # NULL /\ Holds(j.on, Sign(l - r)))
            rows == [i \in DOMAIN sub |-> <<l, sub[i]>>]
        IN  IF rows = <<>> /\ j.type \in {"left", "full"} THEN <<<<l, NULL>>>> ELSE rows)

\* The reference: how often a pair is in a join.
JoinCount(j, L, R, x) ==
    LET l == x[1]
        r == x[2]
        inner == Cardinality({p \in (DOMAIN L) \X (DOMAIN R) :
                                 L[p[1]] = l /\ R[p[2]] = r /\ Match(j, l, r)})
        left == IF r = NULL /\ ~\E i \in DOMAIN R : Match(j, l, R[i]) THEN Count(L, l) ELSE 0
        right == IF l = NULL /\ ~\E i \in DOMAIN L : Match(j, L[i], r) THEN Count(R, r) ELSE 0
    IN  inner + (IF j.type \in {"left", "full"} THEN left ELSE 0)
              + (IF j.type \in {"right", "full"} THEN right ELSE 0)

Side(s) == ToSet(s) \cup {NULL}
JoinIsRight(j, L, R, rows) ==
    /\ \A x \in Side(L) \X Side(R) : Count(rows, x) = JoinCount(j, L, R, x)
    /\ ToSet(rows) \subseteq Side(L) \X Side(R)

-----------------------------------------------------------------------------
(* Set operations.                                                         *)

\* dedupRows: the first of equal rows, NULLs being equal.
Dedup(s) == FlattenSeq([i \in DOMAIN s |-> IF \E h \in 1 .. i - 1 : s[h] = s[i] THEN <<>> ELSE <<s[i]>>])

Prefix(s, i) == SubSeq(s, 1, i)

\* intersectRows, exceptRows: with ALL, each right row is used up by one left row.
IntersectRows(L, R, all) ==
    IF all THEN FlattenSeq([i \in DOMAIN L |->
                    IF Count(Prefix(L, i), L[i]) <= Count(R, L[i]) THEN <<L[i]>> ELSE <<>>])
    ELSE Dedup(SelectSeq(L, LAMBDA x : Count(R, x) > 0))

ExceptRows(L, R, all) ==
    IF all THEN FlattenSeq([i \in DOMAIN L |->
                    IF Count(Prefix(L, i), L[i]) > Count(R, L[i]) THEN <<L[i]>> ELSE <<>>])
    ELSE Dedup(SelectSeq(L, LAMBDA x : Count(R, x) = 0))

\* applyOffsetLimit.
Page(s, offset, limit) ==
    LET t == IF offset >= Len(s) THEN <<>> ELSE SubSeq(s, offset + 1, Len(s))
    IN  IF limit < Len(t) THEN Prefix(t, limit) ELSE t

Directed(o, c) == IF o.sort = "desc" THEN -c ELSE c

\* execSetOp, sortResultRows.
SetOp(o, L, R) ==
    LET rows == CASE o.op = "union" -> IF o.all THEN L \o R ELSE Dedup(L \o R)
                  [] o.op = "intersect" -> IntersectRows(L, R, o.all)
                  [] o.op = "except" -> ExceptRows(L, R, o.all)
        sorted == IF o.sort = "none" THEN rows
                  ELSE StableSort(rows, LAMBDA a, b : Directed(o, CmpDatum(a, b)))
    IN  Page(sorted, o.offset, o.limit)

SetOpCount(o, L, R, x) ==
    LET n == CASE o.op = "union" -> Count(L, x) + Count(R, x)
               [] o.op = "intersect" -> Min({Count(L, x), Count(R, x)})
               [] o.op = "except" -> IF o.all THEN Max({0, Count(L, x) - Count(R, x)})
                                     ELSE IF Count(R, x) > 0 THEN 0 ELSE Count(L, x)
    IN  IF o.all THEN n ELSE Min({1, n})

\* A page of the result: as many rows as are left after the offset, up to the limit,
\* none more often than the whole has it; of a sorted result, the row that the whole has
\* at that place.
SetOpIsRight(o, L, R, rows) ==
    LET X == ToSet(L) \cup ToSet(R)
        Total(x) == SetOpCount(o, L, R, x)
        whole == {p \in X \X (1 .. Len(L) + Len(R)) : p[2] <= Total(p[1])}
        before(x) == Cardinality({p \in whole : Directed(o, CmpDatum(p[1], x)) < 0})
    IN  /\ Len(rows) = Min({o.limit, Max({0, Cardinality(whole) - o.offset})})
        /\ \A x \in ToSet(rows) : Count(rows, x) <= Total(x)
        /\ o.sort # "none" => \A i \in DOMAIN rows :
              o.offset + i \in before(rows[i]) + 1 .. before(rows[i]) + Total(rows[i])

-----------------------------------------------------------------------------
(* Recursive CTEs.                                                         *)

\* The recursive member: SELECT e.to FROM t JOIN edges e ON e.from = t.n.
Step(edges, working) ==
    FlatMap(working, LAMBDA n : FlatMap(edges, LAMBDA e : IF e[1] = n THEN <<e[2]>> ELSE <<>>))

\* evalRecursiveCTE: the recursive member sees the previous round only; with UNION
\* the rows that are new feed the next round.
RECURSIVE Iterate(_, _, _, _, _)
Iterate(edges, all, working, result, i) ==
    IF working = <<>> \/ i = MaxIterations THEN result
    ELSE LET rows == Step(edges, working)
             fresh == IF all THEN rows
                      ELSE Dedup(SelectSeq(rows, LAMBDA x : x \notin ToSet(result)))
         IN  Iterate(edges, all, fresh, result \o fresh, i + 1)

RecursiveCTE(edges, all, base) == Iterate(edges, all, base, base, 0)

\* The reference: the walks of n edges from a base row to x, and whether there are
\* walks longer than the iterations follow.
WalksTo(edges, base, x, n) ==
    {w \in [0 .. n -> DOMAIN edges \cup DOMAIN base] :
        /\ w[0] \in DOMAIN base
        /\ \A i \in 1 .. n : w[i] \in DOMAIN edges
        /\ n > 0 => edges[w[1]][1] = base[w[0]]
        /\ \A i \in 2 .. n : edges[w[i]][1] = edges[w[i - 1]][2]
        /\ x = IF n = 0 THEN base[w[0]] ELSE edges[w[n]][2]}

Nodes(edges, base) == ToSet(base) \cup {edges[i][2] : i \in DOMAIN edges}

Truncated(edges, base) == \E x \in Nodes(edges, base) : WalksTo(edges, base, x, MaxIterations) # {}

\* UNION ALL gives a row for every walk; UNION gives every row that can be reached once.
CTEIsRight(edges, all, base, rows) ==
    /\ ToSet(rows) \subseteq Nodes(edges, base)
    /\ \A x \in Nodes(edges, base) :
          LET W == UNION {WalksTo(edges, base, x, n) : n \in 0 .. MaxIterations}
          IN  Count(rows, x) = IF all THEN Cardinality(W)
                               ELSE IF W = {} THEN 0 ELSE 1

\* Where the fixpoint departs from it: UNION ALL that the bound on iterations ends, and
\* UNION over base rows that repeat, which are all kept.
CTEDeparts(edges, all, base) == IF all THEN Truncated(edges, base) ELSE Dedup(base) # base
=============================================================================
