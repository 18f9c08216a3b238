------------------------------- MODULE Values -------------------------------
(***************************************************************************)
(* SQL values as the executor keeps them: a text and a type OID            *)
(* (eval.go, value).  A value that is a number is written as the number,   *)
(* and TextOrder lists the numbers in the byte order of their texts, which *)
(* is what the executor compares when a type is not one it knows to be     *)
(* numeric.                                                                *)
(***************************************************************************)
EXTENDS Integers, Sequences, SequencesExt, FiniteSets, FiniteSetsExt

CONSTANTS
    NULL,
    Error,    \* what a statement that fails returns
    TextOrder \* the numbers used, in the order of their texts: <<10, 2, 9>>

ASSUME ValuesAssumption == {NULL, Error} \cap ToSet(TextOrder) = {}

Number == ToSet(TextOrder)

TextRank(n) == CHOOSE i \in DOMAIN TextOrder : TextOrder[i] = n

Sign(x) == IF x < 0 THEN -1 ELSE IF x > 0 THEN 1 ELSE 0

\* A value of a type: "int", "numeric" or "text".
Val(n, oid) == [n |-> n, oid |-> oid]

IsNumericOID(oid) == oid \in {"int", "numeric"}

\* compare: by number when both types are numeric, else by text.
Cmp(a, b) ==
    IF IsNumericOID(a.oid) /\ IsNumericOID(b.oid) THEN Sign(a.n - b.n)
    ELSE Sign(TextRank(a.n) - TextRank(b.n))

Ops == {"=", "<>", "<", "<=", ">", ">="}

Holds(op, c) ==
    \/ op = "=" /\ c = 0
    \/ op = "<>" /\ c # 0
    \/ op \in {"<", "<="} /\ c < 0
    \/ op \in {">", ">="} /\ c > 0
    \/ op \in {"<=", ">="} /\ c = 0

\* orderEncode: only the integer types are encoded by number; numeric is encoded
\* as text.
OrderKey(oid, n) == IF oid = "int" THEN n ELSE TextRank(n)

\* compareDatum, compareSortKey: NULL after every value.
CmpDatum(a, b) ==
    IF a = NULL THEN (IF b = NULL THEN 0 ELSE 1)
    ELSE IF b = NULL THEN -1 ELSE Sign(a - b)

\* A stable sort of a sequence by a comparison (sort.SliceStable): the elements are
\* taken by how many others come before them.
StableSort(s, C(_, _)) ==
    LET Before(i, j) == C(s[i], s[j]) < 0 \/ (C(s[i], s[j]) = 0 /\ i < j)
        At(k) == CHOOSE i \in DOMAIN s : Cardinality({j \in DOMAIN s : Before(j, i)}) = k - 1
    IN  [k \in DOMAIN s |-> s[At(k)]]

\* The number of occurrences of x in s.
Count(s, x) == Cardinality({i \in DOMAIN s : s[i] = x})
=============================================================================
