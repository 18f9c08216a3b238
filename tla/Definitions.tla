---------------------------- MODULE Definitions ----------------------------
(***************************************************************************)
(* Definitions that the catalog keeps as text: views (views.go), and the   *)
(* expressions of CHECK constraints, policies, generated columns and       *)
(* indexes.  A statement's query or expression is parsed (parser, sql.y),  *)
(* deparsed (deparse.go, constraints.go) and stored; each use parses the   *)
(* text again.                                                             *)
(*                                                                         *)
(* A text is a sequence of tokens [t, v]: a kind of token, and the value   *)
(* of an identifier, a constant or an operator.  The grammar is goyacc's;  *)
(* its %left and %right declarations are the levels below.                 *)
(***************************************************************************)
EXTENDS Naturals, Sequences, SequencesExt

Tok(t, v) == [t |-> t, v |-> v]
K(t) == Tok(t, "")
Id(n) == Tok("id", n)

\* An identifier that needs its quotes; without them it is read as two.
Spaced == "my col"

None == [k |-> "none"]
Bad == [k |-> "bad"]

-----------------------------------------------------------------------------
(* Parsing.  A parse of s from position p gives a node and the position    *)
(* after it.  Position 0 means that it failed: no token is there, so what  *)
(* is parsed from it fails too.                                            *)

At(s, p) == IF p \in DOMAIN s THEN s[p].t ELSE "end"
Good(e, p) == [e |-> e, p |-> p]
Fails == Good(<<>>, 0)

\* The tokens ts from p on, and after a parse.
Skips(s, p, ts) == \A i \in DOMAIN ts : At(s, p + i - 1) = ts[i]
Then(s, r, ts, e) == IF Skips(s, r.p, ts) THEN Good(e, r.p + Len(ts)) ELSE Fails

Level == [OR |-> 1, AND |-> 2, compare |-> 6, contain |-> 6, vector |-> 7, add |-> 8, mul |-> 9,
          star |-> 9, pow |-> 10, json |-> 11]
NotLevel == 3
IsLevel == 4
InLevel == 5
CastLevel == 12
UnaryLevel == 13

Op(tok, l, r) == [k |-> "op", name |-> tok, l |-> l, r |-> r]
Bool(op, args) == [k |-> "bool", op |-> op, args |-> args]
In(l, r) == [k |-> "in", l |-> l, r |-> r]
Sub(sel, exists) == [k |-> "sub", sel |-> sel, exists |-> exists]
Func(name, args) == [k |-> "func", name |-> name, args |-> args, star |-> FALSE, distinct |-> FALSE,
                     filter |-> None, within |-> <<>>, over |-> None]
Cast(e, type) == [k |-> "cast", arg |-> e, type |-> type]

Binary(tok, l, r) == IF tok.t \in {"OR", "AND"} THEN Bool(tok.t, <<l, r>>) ELSE Op(tok, l, r)

\* The rules that refer to one another are cases of one operator, defined below.
RECURSIVE Rule(_, _, _, _), Dims(_, _, _)

Expr(s, p, min) == Rule("expr", s, p, min)
Infix(s, l, min) == Rule("infix", s, l, min)
Whens(s, p, e) == Rule("whens", s, p, e)
List(item, s, p) == Rule("list", s, p, item)
Select(s, p) == Rule("select", s, p, 0)
Core(s, p, min) == Rule("core", s, p, min)
SetOps(s, l, min) == Rule("setops", s, l, min)
Joins(s, l) == Rule("joins", s, l, 0)
TableRef(s, p) == Rule("tableref", s, p, 0)

\* The items of a list.
Target(s, r) ==
    CASE Skips(s, r.p, <<"AS", "id">>) -> Good([val |-> r.e, name |-> s[r.p + 1].v], r.p + 2)
      [] At(s, r.p) = "id" -> Good([val |-> r.e, name |-> s[r.p].v], r.p + 1)
      [] OTHER -> Good([val |-> r.e, name |-> ""], r.p)

Sort(s, r) ==
    IF At(s, r.p) \in {"ASC", "DESC"} THEN Good([val |-> r.e, dir |-> At(s, r.p)], r.p + 1)
    ELSE Good([val |-> r.e, dir |-> ""], r.p)

CTE(s, p) ==
    LET cols == IF Skips(s, p, <<"id", "(">>) THEN List("name", s, p + 2) ELSE Good(<<>>, p)
        start == IF Skips(s, p, <<"id", "AS", "(">>) THEN Good(<<>>, p + 3)
                 ELSE Then(s, cols, <<")", "AS", "(">>, cols.e)
        r == Select(s, start.p)
    IN  Then(s, r, <<")">>, [name |-> s[p].v, cols |-> start.e, sel |-> r.e])

Item(item, s, p) ==
    CASE item = "expr" -> Expr(s, p, 0)
      [] item = "target" /\ At(s, p) = "star" -> Good([val |-> [k |-> "star"], name |-> ""], p + 1)
      [] item = "target" /\ At(s, p) # "star" -> Target(s, Expr(s, p, 0))
      [] item = "sort" -> Sort(s, Expr(s, p, 0))
      [] item = "name" -> IF At(s, p) = "id" THEN Good(s[p].v, p + 1) ELSE Fails
      [] item = "from" -> Joins(s, TableRef(s, p))
      [] item = "cte" -> CTE(s, p)

ListRule(item, s, p) ==
    LET r == Item(item, s, p)
        rest == List(item, s, r.p + 1)
    IN  IF At(s, r.p) = "," THEN Good(<<r.e>> \o rest.e, rest.p) ELSE Good(<<r.e>>, r.p)

\* A clause that begins with some words, or nothing.
OptExpr(s, p, t) == IF At(s, p) = t THEN Expr(s, p + 1, 0) ELSE Good(None, p)
OptList(s, p, ts, rule) == IF Skips(s, p, ts) THEN List(rule, s, p + Len(ts)) ELSE Good(<<>>, p)
OrderOpt(s, p) == OptList(s, p, <<"ORDER", "BY">>, "sort")

\* cast_type: a word, its modifiers (dropped) and array brackets.
Dims(s, p, type) ==
    IF Skips(s, p, <<"[", "]">>) THEN Dims(s, p + 2, [type EXCEPT !.dims = @ + 1]) ELSE Good(type, p)
CastType(s, p) ==
    CASE Skips(s, p, <<"id", "(", "int", ")">>) -> Dims(s, p + 4, [name |-> s[p].v, dims |-> 0])
      [] Skips(s, p, <<"id", "(", "int", ",", "int", ")">>) -> Dims(s, p + 6, [name |-> s[p].v, dims |-> 0])
      [] At(s, p) = "id" -> Dims(s, p + 1, [name |-> s[p].v, dims |-> 0])
      [] OTHER -> Fails

\* What may follow IDENT '(' ... ')': OVER, FILTER, WITHIN GROUP.
Over(s, r) ==
    LET by == OptList(s, r.p + 2, <<"PARTITION", "BY">>, "expr")
        o == OrderOpt(s, by.p)
    IN  Then(s, o, <<")">>, [r.e EXCEPT !.over = [by |-> by.e, order |-> o.e]])
Filter(s, r) == LET f == Expr(s, r.p + 3, 0) IN Then(s, f, <<")">>, [r.e EXCEPT !.filter = f.e])
Within(s, r) == LET o == OrderOpt(s, r.p + 3) IN Then(s, o, <<")">>, [r.e EXCEPT !.within = o.e])

Suffix(s, r) ==
    CASE Skips(s, r.p, <<"OVER", "(">>) /\ ~r.e.distinct -> Over(s, r)
      [] Skips(s, r.p, <<"FILTER", "(", "WHERE">>) /\ (r.e.star \/ r.e.args # <<>>) -> Filter(s, r)
      [] Skips(s, r.p, <<"WITHIN", "GROUP", "(">>) /\ ~r.e.distinct /\ r.e.args # <<>> -> Within(s, r)
      [] OTHER -> r

Args(s, p, f) ==
    LET distinct == At(s, p) = "DISTINCT"
        a == List("expr", s, IF distinct THEN p + 1 ELSE p)
    IN  Then(s, a, <<")">>, [f EXCEPT !.args = a.e, !.distinct = distinct])

FuncCall(s, p) ==
    LET f == Func(s[p].v, <<>>)
    IN  Suffix(s, CASE At(s, p + 2) = ")" -> Good(f, p + 3)
                    [] Skips(s, p + 2, <<"star", ")">>) -> Good([f EXCEPT !.star = TRUE], p + 4)
                    [] OTHER -> Args(s, p + 2, f))

When(s, p, e) ==
    LET c == Expr(s, p + 1, 0)
        r == Expr(s, c.p + 1, 0)
    IN  IF At(s, c.p) = "THEN" THEN Good([e EXCEPT !.whens = Append(@, <<c.e, r.e>>)], r.p) ELSE Fails

\* The WHENs from p on, added to e.
WhensRule(s, p, e) ==
    LET w == When(s, p, e)
        r == OptExpr(s, p, "ELSE")
    IN  CASE At(s, p) = "WHEN" -> IF w = Fails THEN Fails ELSE Whens(s, w.p, w.e)
          [] At(s, p) # "WHEN" /\ e.whens = <<>> -> Fails
          [] OTHER -> Then(s, r, <<"END">>, [e EXCEPT !.else = r.e])

CaseExpr(s, p) ==
    LET e == [k |-> "case", arg |-> None, whens |-> <<>>, else |-> None]
        r == Expr(s, p, 0)
    IN  IF At(s, p) = "WHEN" THEN Whens(s, p, e) ELSE Whens(s, r.p, [e EXCEPT !.arg = r.e])

Subquery(s, p, exists) == LET r == Select(s, p) IN Then(s, r, <<")">>, Sub(r.e, exists))

\* '(' ...: a subquery, an expression, a field of one, or a row.
Paren(s, p) ==
    LET r == List("expr", s, p)
    IN  CASE At(s, p) \in {"SELECT", "WITH"} -> Subquery(s, p, FALSE)
          [] At(s, p) \notin {"SELECT", "WITH"} /\ Len(r.e) > 1 -> Then(s, r, <<")">>, [k |-> "row", items |-> r.e])
          [] OTHER -> IF Skips(s, r.p, <<")", ".", "id">>)
                      THEN Good([k |-> "field", arg |-> r.e[1], f |-> s[r.p + 2].v], r.p + 3)
                      ELSE Then(s, r, <<")">>, r.e[1])

CastCall(s, p) ==
    LET r == Expr(s, p, 0)
        c == CastType(s, r.p + 1)
    IN  IF At(s, r.p) = "AS" THEN Then(s, c, <<")">>, Cast(r.e, c.e)) ELSE Fails

\* ROW '(' and ARRAY '[': items up to a closing token.
Row(s, p) == LET r == List("expr", s, p) IN Then(s, r, <<")">>, [k |-> "row", items |-> r.e])
Array(s, p) == LET r == List("expr", s, p) IN Then(s, r, <<"]">>, Func("array_constructor", r.e))
ArrayOf(s, p) == LET q == Subquery(s, p, FALSE) IN Good(Func("array_from_subquery", <<q.e>>), q.p)

Not(s, p) == LET r == Expr(s, p, NotLevel) IN Good(Bool("NOT", <<r.e>>), r.p)
Signed(s, p) == LET r == Expr(s, p + 1, UnaryLevel) IN Good(Op(s[p], None, r.e), r.p)

Prefix(s, p) ==
    CASE At(s, p) \in {"int", "float", "string", "TRUE", "FALSE", "NULL"} -> Good([k |-> "const", tok |-> s[p]], p + 1)
      [] At(s, p) = "param" -> Good([k |-> "param"], p + 1)
      [] Skips(s, p, <<"id", "(">>) -> FuncCall(s, p)
      [] Skips(s, p, <<"id", ".", "id">>) -> Good([k |-> "col", f |-> <<s[p].v, s[p + 2].v>>], p + 3)
      [] At(s, p) = "id" -> Good([k |-> "col", f |-> <<s[p].v>>], p + 1)
      [] Skips(s, p, <<"ROW", "(", ")">>) -> Good([k |-> "row", items |-> <<>>], p + 3)
      [] Skips(s, p, <<"ROW", "(">>) -> Row(s, p + 2)
      [] At(s, p) = "CASE" -> CaseExpr(s, p + 1)
      [] Skips(s, p, <<"CAST", "(">>) -> CastCall(s, p + 2)
      [] Skips(s, p, <<"INTERVAL", "string">>) ->
            Good(Cast([k |-> "const", tok |-> s[p + 1]], [name |-> "interval", dims |-> 0]), p + 2)
      [] Skips(s, p, <<"ARRAY", "[", "]">>) -> Good(Func("array_constructor", <<>>), p + 3)
      [] Skips(s, p, <<"ARRAY", "[">>) -> Array(s, p + 2)
      [] Skips(s, p, <<"ARRAY", "(">>) -> ArrayOf(s, p + 2)
      [] Skips(s, p, <<"EXISTS", "(">>) -> Subquery(s, p + 2, TRUE)
      [] At(s, p) = "(" -> Paren(s, p + 1)
      [] At(s, p) = "NOT" -> Not(s, p + 1)
      [] At(s, p) = "add" -> Signed(s, p)
      [] OTHER -> Fails

\* expr [NOT] IN '(' ...
InItems(s, p, l) ==
    LET r == List("expr", s, p)
        q == IF At(s, p) \in {"SELECT", "WITH"} THEN Subquery(s, p, FALSE)
             ELSE Then(s, r, <<")">>, [k |-> "list", items |-> r.e])
    IN  Good(In(l, q.e), q.p)
NotIn(s, p, l) == LET r == InItems(s, p, l) IN Good(Bool("NOT", <<r.e>>), r.p)

IsNull(s, p, l) ==
    CASE At(s, p) = "NULL" -> Good([k |-> "null", arg |-> l, is |-> TRUE], p + 1)
      [] Skips(s, p, <<"NOT", "NULL">>) -> Good([k |-> "null", arg |-> l, is |-> FALSE], p + 2)
      [] OTHER -> Fails

Operands(s, p, l) ==
    LET t == At(s, p)
        r == Expr(s, p + 1, IF t = "pow" THEN Level[t] ELSE Level[t] + 1)
    IN  Good(Binary(s[p], l, r.e), r.p)

Casts(s, p, l) == LET c == CastType(s, p) IN Good(Cast(l, c.e), c.p)

\* What follows the parse l of a left operand.
InfixRule(s, l, min) ==
    LET t == At(s, l.p)
    IN  CASE t \in DOMAIN Level /\ Level[t] >= min -> Infix(s, Operands(s, l.p, l.e), min)
          [] t = "IS" /\ IsLevel >= min -> Infix(s, IsNull(s, l.p + 1, l.e), min)
          [] Skips(s, l.p, <<"IN", "(">>) /\ InLevel >= min -> Infix(s, InItems(s, l.p + 2, l.e), min)
          [] Skips(s, l.p, <<"NOT", "IN", "(">>) /\ NotLevel >= min -> Infix(s, NotIn(s, l.p + 3, l.e), min)
          [] t = "cast" /\ CastLevel >= min -> Infix(s, Casts(s, l.p + 1, l.e), min)
          [] OTHER -> l

-----------------------------------------------------------------------------
(* SELECT.                                                                 *)

\* An alias after p: its name and the position behind it.
Alias(s, p) ==
    CASE Skips(s, p, <<"AS", "id">>) -> [name |-> s[p + 1].v, p |-> p + 2]
      [] At(s, p) = "id" -> [name |-> s[p].v, p |-> p + 1]
      [] OTHER -> [name |-> "", p |-> p]

Table(s, p, f) == LET a == Alias(s, p) IN Good([k |-> "table", f |-> f, alias |-> a.name], a.p)

\* A subquery in FROM; a LATERAL one may do without an alias.
Derived(s, p, k) ==
    LET r == Select(s, p)
        a == Alias(s, r.p + 1)
    IN  IF At(s, r.p) = ")" /\ (k = "lateral" \/ a.name # "")
        THEN Good([k |-> k, sel |-> r.e, alias |-> IF a.name = "" THEN "lateral" ELSE a.name], a.p)
        ELSE Fails

Called(s, p) ==
    LET args == IF At(s, p + 2) = ")" THEN Good(<<>>, p + 2) ELSE List("expr", s, p + 2)
        a == Alias(s, args.p + 1)
    IN  IF At(s, args.p) = ")" THEN Good([k |-> "call", name |-> s[p].v, args |-> args.e, alias |-> a.name], a.p)
        ELSE Fails

TableRefRule(s, p) ==
    CASE At(s, p) = "(" -> Derived(s, p + 1, "derived")
      [] Skips(s, p, <<"LATERAL", "(">>) -> Derived(s, p + 2, "lateral")
      [] Skips(s, p, <<"id", "(">>) -> Called(s, p)
      [] Skips(s, p, <<"id", ".", "id">>) -> Table(s, p + 3, <<s[p].v, s[p + 2].v>>)
      [] At(s, p) = "id" -> Table(s, p + 1, <<s[p].v>>)
      [] OTHER -> Fails

\* The ON or USING of a join, after the parse r of its right side.
Condition(s, r, join) ==
    LET on == Expr(s, r.p + 1, 0)
        using == List("name", s, r.p + 2)
    IN  CASE join.type = "CROSS" -> Good(join, r.p)
          [] join.type # "CROSS" /\ At(s, r.p) = "ON" -> Good([join EXCEPT !.on = on.e], on.p)
          [] join.type # "CROSS" /\ Skips(s, r.p, <<"USING", "(">>) ->
                Then(s, using, <<")">>, [join EXCEPT !.using = using.e])
          [] OTHER -> Fails

\* from_item: joins associate to the left, and their right side is a table_ref.
JoinsRule(s, l) ==
    LET typed == At(s, l.p) \in {"INNER", "LEFT", "RIGHT", "FULL", "CROSS"} /\ At(s, l.p + 1) = "JOIN"
        type == IF typed /\ At(s, l.p) # "INNER" THEN At(s, l.p) ELSE ""
        r == TableRef(s, IF typed THEN l.p + 2 ELSE l.p + 1)
    IN  IF ~typed /\ At(s, l.p) # "JOIN" THEN l
        ELSE Joins(s, Condition(s, r, [k |-> "join", type |-> type, l |-> l.e, r |-> r.e,
                                       using |-> <<>>, on |-> None]))

EmptySelect ==
    [k |-> "select", with |-> None, op |-> "", all |-> FALSE, l |-> None, r |-> None, distinct |-> FALSE,
     on |-> <<>>, targets |-> <<>>, from |-> <<>>, where |-> None, group |-> <<>>, having |-> None,
     sort |-> <<>>, limit |-> None, offset |-> None]

DistinctOpt(s, p) ==
    LET on == List("expr", s, p + 3)
    IN  CASE Skips(s, p, <<"DISTINCT", "ON", "(">>) ->
                Then(s, on, <<")">>, [EmptySelect EXCEPT !.distinct = TRUE, !.on = on.e])
          [] At(s, p) = "DISTINCT" /\ At(s, p + 1) # "ON" -> Good([EmptySelect EXCEPT !.distinct = TRUE], p + 1)
          [] OTHER -> Good(EmptySelect, p)

\* select_core without set operations.
Simple(s, p) ==
    LET d == DistinctOpt(s, p)
        targets == List("target", s, d.p)
        from == OptList(s, targets.p, <<"FROM">>, "from")
        where == OptExpr(s, from.p, "WHERE")
        group == OptList(s, where.p, <<"GROUP", "BY">>, "expr")
        having == OptExpr(s, group.p, "HAVING")
    IN  IF d = Fails THEN Fails
        ELSE Good([d.e EXCEPT !.targets = targets.e, !.from = from.e, !.where = where.e,
                              !.group = group.e, !.having = having.e], having.p)

SetLevel == [t \in {"UNION", "EXCEPT", "INTERSECT"} |-> IF t = "INTERSECT" THEN 2 ELSE 1]

\* The set operations that follow the parse l of a left side.
SetOpsRule(s, l, min) ==
    LET t == At(s, l.p)
        r == Core(s, IF At(s, l.p + 1) \in {"ALL", "DISTINCT"} THEN l.p + 2 ELSE l.p + 1, SetLevel[t] + 1)
    IN  IF t \in DOMAIN SetLevel /\ SetLevel[t] >= min
        THEN SetOps(s, Good([EmptySelect EXCEPT !.op = t, !.all = At(s, l.p + 1) = "ALL",
                                                !.l = l.e, !.r = r.e], r.p), min)
        ELSE l

WithOpt(s, p) ==
    LET recursive == At(s, p + 1) = "RECURSIVE"
        ctes == List("cte", s, IF recursive THEN p + 2 ELSE p + 1)
    IN  IF At(s, p) = "WITH" THEN Good([k |-> "with", recursive |-> recursive, ctes |-> ctes.e], ctes.p)
        ELSE Good(None, p)

Limit(s, p) == IF Skips(s, p, <<"LIMIT", "ALL">>) THEN Good(None, p + 2) ELSE OptExpr(s, p, "LIMIT")

SelectRule(s, p) ==
    LET with == WithOpt(s, p)
        core == Core(s, with.p, 0)
        sort == OrderOpt(s, core.p)
        limit == Limit(s, sort.p)
        offset == OptExpr(s, limit.p, "OFFSET")
    IN  IF core.p = 0 THEN Fails
        ELSE Good([core.e EXCEPT !.with = with.e, !.sort = sort.e, !.limit = limit.e, !.offset = offset.e], offset.p)

Rule(rule, s, x, y) ==
    CASE rule = "expr" -> Infix(s, Prefix(s, x), y)
      [] rule = "infix" -> InfixRule(s, x, y)
      [] rule = "whens" -> WhensRule(s, x, y)
      [] rule = "list" -> ListRule(y, s, x)
      [] rule = "select" -> SelectRule(s, x)
      [] rule = "core" -> IF At(s, x) = "SELECT" THEN SetOps(s, Simple(s, x + 1), y) ELSE Fails
      [] rule = "setops" -> SetOpsRule(s, x, y)
      [] rule = "joins" -> JoinsRule(s, x)
      [] rule = "tableref" -> TableRefRule(s, x)

\* parser.Parse: the whole text.
Whole(s, r) == IF r.p = Len(s) + 1 THEN r.e ELSE Bad
ParseSelect(s) == Whole(s, Select(s, 1))
ParseExpr(s) == Whole(s, Expr(s, 1, 0))

-----------------------------------------------------------------------------
(* Deparsing.  A construct that is not supported leaves a token "error",   *)
(* and the text with it is refused.                                        *)

Unsupported == <<K("error")>>

\* Identifiers are written without quotes.
Name(n) == IF n = Spaced THEN <<Id("my"), Id("col")>> ELSE <<Id(n)>>
Path(f) == IF Len(f) = 1 THEN Name(f[1]) ELSE Name(f[1]) \o <<K(".")>> \o Name(f[2])

Paren1(s) == <<K("(")>> \o s \o <<K(")")>>

\* The texts of a sequence, separated by commas.
Comma(texts) == FlattenSeq([i \in DOMAIN texts |-> IF i = 1 THEN texts[i] ELSE <<K(",")>> \o texts[i]])

\* A clause when there is something for it.
Clause(words, node, text) == IF node = None THEN <<>> ELSE [i \in DOMAIN words |-> K(words[i])] \o text
ListClause(words, items, text) == IF items = <<>> THEN <<>> ELSE [i \in DOMAIN words |-> K(words[i])] \o text

\* Variant: an operator and its operands without parentheses.
InfixedBare(l, mid, r) == l \o mid \o r

\* Every operator is written in parentheses with its operands.
Infixed(l, mid, r) == Paren1(l \o mid \o r)

RECURSIVE DeparseExpr(_), DeparseSelect(_), DeparseFromItem(_)

DeparseAll(es) == [i \in DOMAIN es |-> DeparseExpr(es[i])]

DeparseSortList(sorts) ==
    Comma([i \in DOMAIN sorts |->
        DeparseExpr(sorts[i].val) \o IF sorts[i].dir = "" THEN <<>> ELSE <<K(sorts[i].dir)>>])

DeparseWindow(w) ==
    ListClause(<<"PARTITION", "BY">>, w.by, Comma(DeparseAll(w.by)))
    \o ListClause(<<"ORDER", "BY">>, w.order, DeparseSortList(w.order))

\* DISTINCT, FILTER and WITHIN GROUP are not written.
DeparseFunc(e) ==
    Name(e.name) \o Paren1(IF e.star THEN <<K("star")>> ELSE Comma(DeparseAll(e.args)))
    \o IF e.over = None THEN <<>> ELSE <<K("OVER")>> \o Paren1(DeparseWindow(e.over))

\* The type of an INTERVAL literal is a keyword, which a cast cannot name.
DeparseType(type) ==
    (IF type.name = "interval" THEN <<K("INTERVAL")>> ELSE Name(type.name))
    \o FlattenSeq([i \in 1 .. type.dims |-> <<K("["), K("]")>>])

DeparseCase(e) ==
    <<K("CASE")>> \o Clause(<<>>, e.arg, DeparseExpr(e.arg))
    \o FlattenSeq([i \in DOMAIN e.whens |-> <<K("WHEN")>> \o DeparseExpr(e.whens[i][1])
                                             \o <<K("THEN")>> \o DeparseExpr(e.whens[i][2])])
    \o Clause(<<"ELSE">>, e.else, DeparseExpr(e.else)) \o <<K("END")>>

DeparseExpr(e) ==
    CASE e.k = "const" -> <<e.tok>>
      [] e.k = "col" -> Path(e.f)
      [] e.k = "op" -> Infixed(IF e.l = None THEN <<>> ELSE DeparseExpr(e.l), <<e.name>>, DeparseExpr(e.r))
      [] e.k = "in" -> Infixed(DeparseExpr(e.l), <<K("IN")>>, DeparseExpr(e.r))
      [] e.k = "bool" /\ e.op = "NOT" -> Infixed(<<>>, <<K("NOT")>>, DeparseExpr(e.args[1]))
      [] e.k = "bool" /\ e.op # "NOT" -> Infixed(DeparseExpr(e.args[1]), <<K(e.op)>>, DeparseExpr(e.args[2]))
      [] e.k = "null" -> Infixed(DeparseExpr(e.arg), <<K("IS")>>, IF e.is THEN <<K("NULL")>> ELSE <<K("NOT"), K("NULL")>>)
      [] e.k = "list" -> Paren1(Comma(DeparseAll(e.items)))
      [] e.k = "func" -> DeparseFunc(e)
      [] e.k = "cast" -> Infixed(DeparseExpr(e.arg), <<K("cast")>>, DeparseType(e.type))
      [] e.k = "star" -> <<K("star")>>
      [] e.k = "case" -> DeparseCase(e)
      [] e.k = "sub" -> Paren1(DeparseSelect(e.sel))  \* EXISTS is not written
      [] OTHER -> Unsupported

DeparseTargetList(targets) ==
    Comma([i \in DOMAIN targets |->
        DeparseExpr(targets[i].val)
        \o IF targets[i].name = "" THEN <<>> ELSE <<K("AS")>> \o Name(targets[i].name)])

\* The alias of a derived table is not written.
DeparseFromItem(f) ==
    CASE f.k = "table" -> Path(f.f) \o IF f.alias = "" THEN <<>> ELSE <<K("AS")>> \o Name(f.alias)
      [] f.k = "join" ->
            DeparseFromItem(f.l) \o (IF f.type = "" THEN <<>> ELSE <<K(f.type)>>) \o <<K("JOIN")>>
            \o DeparseFromItem(f.r)
            \o (IF f.using # <<>> THEN <<K("USING")>> \o Paren1(Comma([i \in DOMAIN f.using |-> Name(f.using[i])]))
                ELSE Clause(<<"ON">>, f.on, DeparseExpr(f.on)))
      [] f.k = "derived" -> Paren1(DeparseSelect(f.sel))
      [] OTHER -> Unsupported

\* RECURSIVE and the column names of a CTE are not written.
DeparseWith(w) ==
    <<K("WITH")>> \o Comma([i \in DOMAIN w.ctes |->
        Name(w.ctes[i].name) \o <<K("AS")>> \o Paren1(DeparseSelect(w.ctes[i].sel))])

\* deparseSelect; of FROM only the first item, and DISTINCT ON without its list.
DeparseSelect(q) ==
    (IF q.with = None THEN <<>> ELSE DeparseWith(q.with))
    \o (IF q.op # ""
         THEN DeparseSelect(q.l) \o <<K(q.op)>> \o (IF q.all THEN <<K("ALL")>> ELSE <<>>) \o DeparseSelect(q.r)
         ELSE <<K("SELECT")>> \o (IF q.distinct THEN <<K("DISTINCT")>> ELSE <<>>)
              \o DeparseTargetList(q.targets)
              \o (IF q.from = <<>> THEN <<>> ELSE <<K("FROM")>> \o DeparseFromItem(q.from[1]))
              \o Clause(<<"WHERE">>, q.where, DeparseExpr(q.where))
              \o ListClause(<<"GROUP", "BY">>, q.group, Comma(DeparseAll(q.group)))
              \o Clause(<<"HAVING">>, q.having, DeparseExpr(q.having)))
    \o ListClause(<<"ORDER", "BY">>, q.sort, DeparseSortList(q.sort))
    \o Clause(<<"LIMIT">>, q.limit, DeparseExpr(q.limit))
    \o Clause(<<"OFFSET">>, q.offset, DeparseExpr(q.offset))

-----------------------------------------------------------------------------
(* Storing a definition and reading it back.                               *)

Refused(text) == \E i \in DOMAIN text : text[i].t = "error"

\* execCreateView stores a text that parses; materializeView parses it again.
StoreView(def) ==
    LET text == DeparseSelect(def)
        back == ParseSelect(text)
    IN  IF Refused(text) \/ back = Bad THEN [stored |-> FALSE]
        ELSE [stored |-> TRUE, def |-> def, back |-> back]

\* recordCheck and the others store the text of an expression as it comes;
\* parseStoredExpr reads it as the first target of a SELECT.
ParseStoredExpr(text) ==
    LET sel == ParseSelect(<<K("SELECT")>> \o text) IN IF sel = Bad THEN Bad ELSE sel.targets[1].val

StoreExpr(def) ==
    LET text == DeparseExpr(def)
    IN  IF Refused(text) THEN [stored |-> FALSE]
        ELSE [stored |-> TRUE, def |-> def, back |-> ParseStoredExpr(text)]

\* What a statement with this text has the catalog keep.
Store(text, view) ==
    LET def == IF view THEN ParseSelect(text) ELSE ParseExpr(text)
    IN  IF def = Bad THEN [stored |-> FALSE] ELSE IF view THEN StoreView(def) ELSE StoreExpr(def)

\* The constructs that deparsing drops without an error: EXISTS, FILTER, WITHIN GROUP,
\* DISTINCT of an aggregate, DISTINCT ON, RECURSIVE, the columns of a CTE, all FROM items
\* but the first, the quotes of an identifier; and in an expression, which is not read
\* back when it is stored, those that make its text unreadable.
Drops(text, view) ==
    \E i \in DOMAIN text :
        \/ text[i].t \in {"EXISTS", "FILTER", "WITHIN", "RECURSIVE"}
        \/ text[i].v = Spaced
        \/ Skips(text, i, <<"(", "DISTINCT">>) \/ Skips(text, i, <<"DISTINCT", "ON">>)
        \/ Skips(text, i, <<"WITH", "id", "(">>)
        \/ Skips(text, i, <<"FROM", "id", ",">>)
        \/ ~view /\ (text[i].t = "INTERVAL" \/ Skips(text, i, <<"FROM", "(">>))
=============================================================================
