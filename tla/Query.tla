-------------------------------- MODULE Query --------------------------------
(***************************************************************************)
(* The executor's algorithms, run on every input of bounded sets.  A       *)
(* behavior begins with an input and answers it; the properties compare    *)
(* the answer with the reference definitions of the algorithm's module.    *)
(*                                                                         *)
(*   scan        SELECT from one table, by an index or not   IndexScan     *)
(*   join, set, recursive                                    Relations     *)
(*   aggregate, group, window                                Aggregates    *)
(*   predicate, arith                                        Expressions   *)
(*   text, csv, binary, numeric, record                      CopyFormat    *)
(*   policy                                                  Policies      *)
(*   definition                                              Definitions   *)
(***************************************************************************)
EXTENDS IndexScan, Relations, Aggregates, CopyFormat, Policies

D == INSTANCE Definitions

CONSTANTS
    Inputs  \* a function from the kinds above to sets of records

VARIABLES
    kind,
    input,
    answer  \* NULL until there is one

vars == <<kind, input, answer>>

Init ==
    /\ kind \in DOMAIN Inputs
    /\ input \in Inputs[kind]
    /\ answer = NULL

Pending(k) == kind = k /\ answer = NULL
Reply(x) == answer' = [is |-> x] /\ UNCHANGED <<kind, input>>

SelectFrom == Pending("scan") /\ \E a \in Answers(input.t, input.q) : Reply(a)

Join == Pending("join") /\ Reply(IF input.lateral THEN LateralJoin(input.j, input.l, input.r)
                                 ELSE NestedLoopJoin(input.j, input.l, input.r))

CombineSets == Pending("set") /\ Reply(SetOp(input.o, input.l, input.r))

Recurse == Pending("recursive") /\ Reply(RecursiveCTE(input.edges, input.all, input.base))

Aggregate ==
    /\ Pending("aggregate")
    /\ \E x \in EvalAggregate(input.f, input.rows) : Reply(x)

GroupBy == Pending("group") /\ Reply(ExecAggregate(input.q, input.rows))

Window == Pending("window") /\ Reply(ComputeWindow(input.w, input.rows))

Predicate == Pending("predicate") /\ Reply(AsBool(Eval(input.e, input.row)))

Arithmetic == Pending("arith") /\ Reply(Arith(input.op, input.a, input.b))

CopyText == Pending("text") /\ Reply(ParseText(FormatText(input.rows, input.delim), input.delim))

CopyCSV == Pending("csv") /\ Reply(CSVRoundTrip(input.rows, input.header))

\* The input is the types of the columns and the rows.  The stream may be cut short on
\* its way.
CopyBinary ==
    /\ Pending("binary")
    /\ \E data \in {FormatBinary(input[2], input[1])} :
          \E cut \in 0 .. Len(data) :
             Reply([cut |-> cut, rows |-> ParseBinary(SubSeq(data, 1, Len(data) - cut), input[1])])

CopyNumeric == Pending("numeric") /\ Reply(DecodeNumeric(EncodeNumeric(input)))

RecordText == Pending("record") /\ Reply(DecodeRecord(EncodeRow(input.row)))

Policy == Pending("policy") /\ Reply(Judge(input.t, input.bypass, input.cmd, "u"))

Definition == Pending("definition") /\ Reply(D!Store(input.text, input.view))

Return == answer # NULL /\ UNCHANGED vars

Next ==
    \/ SelectFrom \/ Join \/ CombineSets \/ Recurse
    \/ Aggregate \/ GroupBy \/ Window \/ Predicate \/ Arithmetic
    \/ CopyText \/ CopyCSV \/ CopyBinary \/ CopyNumeric \/ RecordText \/ Policy \/ Definition
    \/ Return

Spec == Init /\ [][Next]_vars

-----------------------------------------------------------------------------
(* Properties.                                                             *)

Answered(k) == kind = k /\ answer # NULL

\* A SELECT served by an index returns what a full scan would: every row that the
\* policies and WHERE select, once, in the order asked for, cut at LIMIT.  It is
\* claimed for the cases in which planIndexScan can be relied on: each selected row
\* has an entry in the index, entries lead to rows by a primary key, the encoding
\* keeps the order, and a scan stopped at LIMIT feeds neither groups nor a policy nor a
\* window function.
ScansAgree ==
    Answered("scan") /\ Reliable(input.t, input.q, answer.is.by) =>
        Correct(input.t, input.q, answer.is.rows)

\* nestedLoopJoin and the LATERAL join return the pairs that the join type asks for,
\* as often as it does (a LATERAL RIGHT or FULL join excepted, which the code runs as
\* INNER or LEFT, and a join by USING, which fails on the first pair of rows); the set
\* operations combine multisets, and a page of a sorted one is where it should be; a
\* recursive CTE reaches what can be reached, with UNION once and with UNION ALL once per
\* way of reaching it, except where CTEDeparts says.
RelationsAgree ==
    /\ /\ Answered("join") /\ ~Ambiguous(input.j, input.l, input.r)
       /\ input.lateral => input.j.type \in {"inner", "left"}
       => JoinIsRight(input.j, input.l, input.r, answer.is)
    /\ Answered("set") => SetOpIsRight(input.o, input.l, input.r, answer.is)
    /\ Answered("recursive") /\ ~CTEDeparts(input.edges, input.all, input.base) =>
          CTEIsRight(input.edges, input.all, input.base, answer.is)

\* Aggregates have the values of their definitions over the multiset of arguments
\* (except where AggDeparts says), GROUP BY gives every group once, and window
\* functions rank and accumulate over peers (except where WindowDeparts says).
AggregatesAgree ==
    /\ Answered("aggregate") /\ ~AggDeparts(input.f, input.rows) =>
          AggIsRight(input.f, input.rows, answer.is)
    /\ Answered("group") => GroupsAreRight(input.q, input.rows, answer.is)
    /\ Answered("window") /\ ~WindowDeparts(input.w, input.rows) => WindowIsRight(input.w, input.rows, answer.is)

\* WHERE keeps exactly the rows for which the predicate is true in SQL's three-valued
\* logic, except where Departs says; arithmetic is exact when the result fits; policies
\* let a row pass when one grants it and none refuses, and never because one failed.
PredicatesAgree ==
    /\ Answered("predicate") /\ ~Departs(input.e, input.row) =>
          answer.is = (Truth(input.e, input.row) = TRUE)
    /\ Answered("arith") => ArithIsRight(input.op, input.a, input.b, answer.is)
    /\ Answered("policy") => JudgedRightly(input.t, input.bypass, input.cmd, "u", answer.is)

\* What COPY TO writes, COPY FROM reads back, in all three formats, but for the fields
\* and rows that TextLoses, CSVLoses and FieldLoses list; a binary stream that was cut
\* short is refused, never taken for a shorter one, and a numeric that is no decimal is
\* refused, never taken for another.  A record's text is read back as the record.
CopyRoundTrips ==
    /\ Answered("text") /\ ~TextLoses(input.rows, input.delim) => answer.is = input.rows
    /\ Answered("csv") /\ ~CSVLoses(input.rows) => answer.is = input.rows
    /\ Answered("binary") =>
          IF answer.is.cut > 0 THEN answer.is.rows = Error
          ELSE \/ \E i \in DOMAIN input[2], j \in DOMAIN input[1] : FieldLoses(input[1][j], input[2][i][j])
               \/ answer.is.rows = input[2]
    /\ Answered("numeric") =>
          IF "not" \in DOMAIN input THEN answer.is \in {input, Error}
          ELSE answer.is = [n |-> (IF input.neg THEN -1 ELSE 1) * Decimal(input.int \o input.frac),
                            dscale |-> Len(input.frac)]
    /\ Answered("record") /\ input.row # <<NULL>> => answer.is = input.row

\* The definition of a view, a CHECK, a policy, a generated column or an index that the
\* catalog keeps as text is read back as the expression or query it was made from, with
\* the same grouping of its operators, joins and set operations; a view that would not
\* be is refused when it is created (views.go's round-trip guard, and the errors of
\* deparseExpr), except for what Drops lists.
DefinitionsKept ==
    Answered("definition") /\ answer.is.stored /\ ~D!Drops(input.text, input.view) =>
        answer.is.back = answer.is.def
=============================================================================
