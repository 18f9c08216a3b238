---------------------------- MODULE Expressions ----------------------------
(***************************************************************************)
(* The evaluator of predicates (eval.go, eval_ext.go, subquery.go) and,    *)
(* beside it, SQL's three-valued logic.  A truth value is TRUE, FALSE or   *)
(* NULL; a predicate is a record whose field k names its node type.        *)
(***************************************************************************)
EXTENDS Values

CONSTANT IntWidth  \* bits of the machine integers of arith (64 in the code)

-----------------------------------------------------------------------------
(* Operands: a column of the row, a constant, or a bound parameter, which  *)
(* the evaluator types as text.                                            *)

Operand(e, row) ==
    CASE e.k = "col" -> Val(row[e.c], "int")
      [] e.k = "const" -> Val(e.n, "int")
      [] e.k = "param" -> Val(e.n, "text")

\* evalAExpr: a comparison with NULL is NULL.
Compare(op, a, b) == IF a.n = NULL \/ b.n = NULL THEN NULL ELSE Holds(op, Cmp(a, b))

\* evalIn, over a list or the rows of a subquery.
EvalIn(l, cs) ==
    IF l.n = NULL THEN NULL
    ELSE IF \E i \in DOMAIN cs : Compare("=", l, cs[i]) = TRUE THEN TRUE
    ELSE IF \E i \in DOMAIN cs : cs[i].n = NULL THEN NULL
    ELSE FALSE

\* An element of an array is compared as a value of the type of the left operand.  A
\* NULL in the array is the text NULL, whose number is 0 and which sorts after digits.
CmpElement(l, c) ==
    IF c.n # NULL THEN Cmp(l, Val(c.n, l.oid))
    ELSE IF IsNumericOID(l.oid) THEN Sign(l.n) ELSE -1

\* evalQuantifiedComparison: = ANY(array), <> ALL(array).
Quantified(op, all, l, cs) ==
    IF l.n = NULL THEN NULL
    ELSE IF all THEN \A i \in DOMAIN cs : Holds(op, CmpElement(l, cs[i]))
    ELSE \E i \in DOMAIN cs : Holds(op, CmpElement(l, cs[i]))

\* Variant: a NULL in a pair is taken for equality.
CompareRowsNullEqual(op, as, bs) ==
    LET D == {i \in DOMAIN as : Compare("<>", as[i], bs[i]) = TRUE}
    IN  IF D # {} THEN Holds(op, Cmp(as[Min(D)], bs[Min(D)])) ELSE Holds(op, 0)

\* compareRows: the first pair without a NULL that differs decides, for every
\* operator.
CompareRows(op, as, bs) ==
    LET D == {i \in DOMAIN as : Compare("<>", as[i], bs[i]) = TRUE}
    IN  IF D # {} THEN Holds(op, Cmp(as[Min(D)], bs[Min(D)]))
        ELSE IF op \in {"=", "<>"} /\ \E i \in DOMAIN as : as[i].n = NULL \/ bs[i].n = NULL THEN NULL
        ELSE Holds(op, 0)

\* evalRowIn.
RowIn(as, rows) ==
    LET R == {CompareRows("=", as, rows[i]) : i \in DOMAIN rows}
    IN  IF TRUE \in R THEN TRUE ELSE IF NULL \in R THEN NULL ELSE FALSE

\* asBool.
AsBool(v) == v = TRUE

Operands(es, row) == [i \in DOMAIN es |-> Operand(es[i], row)]

\* eval, evalBool, evalCase; CASE x WHEN v is CASE WHEN x = v.
RECURSIVE Eval(_, _)
Eval(e, row) ==
    CASE e.k = "cmp" -> Compare(e.op, Operand(e.l, row), Operand(e.r, row))
      [] e.k = "in" -> EvalIn(Operand(e.l, row), Operands(e.cs, row))
      [] e.k = "any" -> Quantified(e.op, e.all, Operand(e.l, row), Operands(e.cs, row))
      [] e.k = "row" -> CompareRows(e.op, Operands(e.ls, row), Operands(e.rs, row))
      [] e.k = "rowin" -> RowIn(Operands(e.ls, row), [i \in DOMAIN e.rows |-> Operands(e.rows[i], row)])
      [] e.k = "null" -> Operand(e.l, row).n = NULL
      [] e.k = "not" -> ~AsBool(Eval(e.e, row))
      [] e.k = "and" -> AsBool(Eval(e.l, row)) /\ AsBool(Eval(e.r, row))
      [] e.k = "or" -> AsBool(Eval(e.l, row)) \/ AsBool(Eval(e.r, row))
      [] e.k = "case" -> IF AsBool(Eval(e.when, row)) THEN Eval(e.then, row) ELSE Eval(e.else, row)

-----------------------------------------------------------------------------
(* The reference: Kleene's logic, numbers compared as numbers, and a NULL  *)
(* deciding a row comparison when it is reached.                           *)

Exact(op, a, b) == IF a.n = NULL \/ b.n = NULL THEN NULL ELSE Holds(op, Sign(a.n - b.n))

Not3(v) == IF v = NULL THEN NULL ELSE ~v
And3(S) == IF FALSE \in S THEN FALSE ELSE IF NULL \in S THEN NULL ELSE TRUE
Or3(S) == Not3(And3({Not3(v) : v \in S}))

Rows3(op, as, bs) ==
    IF op \in {"=", "<>"}
    THEN LET eq == And3({Exact("=", as[i], bs[i]) : i \in DOMAIN as})
         IN  IF op = "=" THEN eq ELSE Not3(eq)
    ELSE LET D == {i \in DOMAIN as : Exact("=", as[i], bs[i]) # TRUE}
         IN  IF D = {} THEN Holds(op, 0)
             ELSE Exact(IF op \in {"<", "<="} THEN "<" ELSE ">", as[Min(D)], bs[Min(D)])

RECURSIVE Truth(_, _)
Truth(e, row) ==
    CASE e.k = "cmp" -> Exact(e.op, Operand(e.l, row), Operand(e.r, row))
      [] e.k = "in" -> Or3({Exact("=", Operand(e.l, row), Operand(e.cs[i], row)) : i \in DOMAIN e.cs})
      [] e.k = "any" ->
            LET S == {Exact(e.op, Operand(e.l, row), Operand(e.cs[i], row)) : i \in DOMAIN e.cs}
            IN  IF e.all THEN And3(S) ELSE Or3(S)
      [] e.k = "row" -> Rows3(e.op, Operands(e.ls, row), Operands(e.rs, row))
      [] e.k = "rowin" ->
            Or3({Rows3("=", Operands(e.ls, row), Operands(e.rows[i], row)) : i \in DOMAIN e.rows})
      [] e.k = "null" -> Operand(e.l, row).n = NULL
      [] e.k = "not" -> Not3(Truth(e.e, row))
      [] e.k = "and" -> And3({Truth(e.l, row), Truth(e.r, row)})
      [] e.k = "or" -> Or3({Truth(e.l, row), Truth(e.r, row)})
      [] e.k = "case" -> IF Truth(e.when, row) = TRUE THEN Truth(e.then, row) ELSE Truth(e.else, row)

\* Where the evaluator is known to depart from the reference: NOT of an unknown, an
\* ordering of rows with a NULL, a number compared with a parameter, a NULL in an array
\* of which the operator holds when it is read as the number 0.
RECURSIVE Departs(_, _)
Departs(e, row) ==
    \/ e.k = "cmp" /\ {Operand(e.l, row).oid, Operand(e.r, row).oid} = {"int", "text"}
    \/ /\ e.k = "any" /\ Operand(e.l, row).n # NULL
       /\ \E i \in DOMAIN e.cs : Operand(e.cs[i], row).n = NULL /\ Holds(e.op, CmpElement(Operand(e.l, row), Operand(e.cs[i], row)))
    \/ e.k = "row" /\ e.op \notin {"=", "<>"} /\ Truth(e, row) = NULL
    \/ e.k = "not" /\ (Truth(e.e, row) = NULL \/ Departs(e.e, row))
    \/ e.k \in {"and", "or"} /\ (Departs(e.l, row) \/ Departs(e.r, row))
    \/ e.k = "case" /\ (Departs(e.when, row) \/ Departs(e.then, row) \/ Departs(e.else, row))

-----------------------------------------------------------------------------
(* arith over 64-bit integers.                                             *)

Wrap(x) == ((x + 2^(IntWidth - 1)) % 2^IntWidth) - 2^(IntWidth - 1)

\* Division and remainder truncate toward zero.
Quo(a, b) == Sign(a) * Sign(b) * ((IF a < 0 THEN -a ELSE a) \div (IF b < 0 THEN -b ELSE b))

\* A division by zero is an error, written NULL here.
Arith(op, a, b) ==
    CASE op = "+" -> Wrap(a + b)
      [] op = "-" -> Wrap(a - b)
      [] op = "*" -> Wrap(a * b)
      [] op \in {"/", "%"} /\ b = 0 -> NULL
      [] op = "/" /\ b # 0 -> Wrap(Quo(a, b))
      [] op = "%" /\ b # 0 -> a - Quo(a, b) * b

Fits(x) == x \in -(2^(IntWidth - 1)) .. 2^(IntWidth - 1) - 1

\* Exact when it fits; a quotient is what is left after a remainder that is smaller
\* than the divisor and has the sign of the dividend.
ArithIsRight(op, a, b, x) ==
    /\ op = "+" /\ Fits(a + b) => x = a + b
    /\ op = "-" /\ Fits(a - b) => x = a - b
    /\ op = "*" /\ Fits(a * b) => x = a * b
    /\ op \in {"/", "%"} /\ b = 0 => x = NULL
    /\ op = "/" /\ b # 0 /\ x # -(2^(IntWidth - 1)) =>
          \E r \in -(2^IntWidth) .. 2^IntWidth : a = x * b + r /\ r * r < b * b /\ a * r >= 0
    /\ op = "%" /\ b # 0 =>
          x * x < b * b /\ a * x >= 0 /\ \E k \in -(2^IntWidth) .. 2^IntWidth : a = k * b + x
=============================================================================
