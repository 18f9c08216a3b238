------------------------------ MODULE MCQuery ------------------------------
(***************************************************************************)
(* The inputs of the query run.  The numbers are 0, 2, 9 and 10, whose     *)
(* texts are ordered "0" < "10" < "2" < "9".                               *)
(***************************************************************************)
EXTENDS Query, TLC

MCTextOrder == <<0, 10, 2, 9>>

SeqsUpTo(S, n) == UNION {[1 .. k -> S] : k \in 0 .. n}

-----------------------------------------------------------------------------
(* Scans: tables of two rows with up to two indexes.                       *)

Shape == {[a |-> 2, b |-> 2, f |-> TRUE], [a |-> 10, b |-> 9, f |-> TRUE],
          [a |-> 10, b |-> 2, f |-> FALSE], [a |-> 9, b |-> NULL, f |-> TRUE],
          [a |-> NULL, b |-> 2, f |-> FALSE]}

RowOf(pk, s) == [pk |-> pk, a |-> s.a, b |-> s.b, f |-> s.f, x |-> IF s.f THEN 9 ELSE 2]

On(cols, partial) == [cols |-> cols, partial |-> partial, expr |-> FALSE]

Indexings == {<<>>, <<On(<<"a">>, "none")>>, <<On(<<"a", "b">>, "none")>>,
              <<On(<<"a">>, "bare"), On(<<"a">>, "none")>>, <<On(<<"a">>, "is")>>,
              <<On(<<"b">>, "none"), On(<<"a", "b">>, "none")>>,
              <<[cols |-> <<"x">>, partial |-> "none", expr |-> TRUE]>>}

Kinds == {[type |-> "int", xtype |-> "text", keyed |-> TRUE, rls |-> FALSE],
          [type |-> "numeric", xtype |-> "int", keyed |-> TRUE, rls |-> FALSE],
          [type |-> "int", xtype |-> "text", keyed |-> FALSE, rls |-> FALSE],
          [type |-> "int", xtype |-> "text", keyed |-> TRUE, rls |-> TRUE]}

Tables == {[rows |-> <<RowOf(2, s), RowOf(9, u)>>, indexes |-> ix,
            type |-> k.type, xtype |-> k.xtype, keyed |-> k.keyed, rls |-> k.rls] :
              s \in Shape, u \in Shape, ix \in Indexings, k \in Kinds}

Is(col, op, n) == [k |-> "cmp", col |-> col, op |-> op, n |-> n]
Flag(form) == [k |-> "flag", form |-> form]

Wheres == {<<>>, <<Is("a", "=", 10)>>, <<Is("a", ">", 2)>>, <<Is("a", "<=", 9)>>, <<Is("b", "=", 2)>>,
           <<Is("pk", "=", 2)>>, <<Is("x", "=", 9)>>, <<Flag("bare")>>,
           <<[k |-> "or", l |-> Is("a", "=", 2), r |-> Is("b", "=", 9)]>>,
           <<Is("a", "=", 10), Is("b", "=", 9)>>, <<Is("a", ">", 2), Is("a", "<", 10)>>,
           <<Is("a", "=", 10), Flag("eq")>>, <<Is("a", ">=", 9), Flag("is")>>}

Orders == {[col |-> "a", desc |-> FALSE], [col |-> "a", desc |-> TRUE], [col |-> "pk", desc |-> TRUE]}

Queries ==
    {[where |-> w, order |-> o, limit |-> l, list |-> "rows"] :
        w \in Wheres, o \in Orders \cup {NULL}, l \in {NULL, 1}}
    \cup {[where |-> w, order |-> o, limit |-> 1, list |-> k] :
             w \in {<<>>, <<Is("a", ">", 2)>>, <<Is("b", "=", 2)>>, <<Is("a", ">=", 9), Flag("is")>>}, o \in Orders,
             k \in {"groups", "distinct", "distinct on", "window"}}

-----------------------------------------------------------------------------
(* Joins, set operations and recursive CTEs.                               *)

Few == SeqsUpTo({NULL, 2, 9}, 2)

Joins == {[type |-> t, on |-> c] : t \in {"inner", "left", "right", "full", "cross"}, c \in {"=", "<", "using", "none"}}

SetOps == {[op |-> o, all |-> a, sort |-> s, offset |-> p, limit |-> l] :
              o \in {"union", "intersect", "except"}, a \in BOOLEAN, s \in {"none", "asc", "desc"},
              p \in {0, 1}, l \in {1, 4}}

Edges == SeqsUpTo({2, 9, 10} \X {2, 9, 10}, 2)

-----------------------------------------------------------------------------
(* Aggregates and windows.                                                 *)

AggRow == [g : {NULL, 2}, v : {NULL, 2, 10}, keep : {TRUE}] \cup [g : {2}, v : {9}, keep : BOOLEAN]

Aggs == {[name |-> n, distinct |-> d, filter |-> f, type |-> t, above |-> 2, num |-> 1, den |-> 2] :
            n \in {"count(*)", "count", "sum", "avg", "min", "max", "bool_and", "bool_or", "array_agg",
                   "json_agg", "percentile_disc", "mode", "first", "last"},
            d \in BOOLEAN, f \in BOOLEAN, t \in {"int"}}
        \cup {[name |-> "max", distinct |-> FALSE, filter |-> FALSE, type |-> "numeric", above |-> 2,
               num |-> 1, den |-> 2]}

Groupings == {[f |-> f, group |-> g, having |-> h, order |-> o, distinct |-> d, limit |-> l] :
                 f \in {x \in Aggs : x.name \in {"count", "sum"} /\ ~x.distinct /\ ~x.filter},
                 g \in BOOLEAN, h \in {0, 2}, o \in {"none", "asc", "desc"}, d \in BOOLEAN, l \in {1, 9}}

Windows == {[name |-> n, partition |-> p, order |-> o] :
               n \in {"row_number", "rank", "dense_rank", "count(*)", "count", "sum", "avg", "min", "max"},
               p \in BOOLEAN, o \in {"none", "asc", "desc"}}

-----------------------------------------------------------------------------
(* Predicates over a row of two columns.                                   *)

Col(c) == [k |-> "col", c |-> c]
Const(n) == [k |-> "const", n |-> n]
Param(n) == [k |-> "param", n |-> n]
Atoms == {Col("a"), Col("b"), Const(9), Const(NULL)}

Simple ==
    {[k |-> "cmp", op |-> o, l |-> Col("a"), r |-> r] : o \in Ops, r \in Atoms \cup {Param(9)}}
    \cup {[k |-> "null", l |-> Col("a")]}
    \cup {[k |-> "in", l |-> Col("a"), cs |-> <<x, y>>] : x \in Atoms, y \in Atoms}
    \cup {[k |-> "any", op |-> IF all THEN "<>" ELSE "=", all |-> all, l |-> Col("b"), cs |-> <<x, y>>] :
             all \in BOOLEAN, x \in Atoms, y \in Atoms}
    \cup {[k |-> "row", op |-> o, ls |-> <<Col("a"), Col("b")>>, rs |-> <<x, y>>] :
             o \in Ops, x \in Atoms, y \in Atoms}
    \cup {[k |-> "rowin", ls |-> <<Col("a"), Col("b")>>, rows |-> <<<<x, Const(2)>>, <<Const(9), y>>>>] :
             x \in Atoms, y \in Atoms}

Core == {e \in Simple : e.k = "null" \/ (e.k = "cmp" /\ e.op \in {"=", "<"} /\ e.r.k # "param")
                        \/ (e.k = "in" /\ e.cs[1] # e.cs[2])}

Predicates ==
    Simple \cup {[k |-> "not", e |-> e] : e \in Simple}
    \cup {[k |-> k, l |-> l, r |-> r] : k \in {"and", "or"}, l \in Core, r \in Core}
    \cup {[k |-> "case", when |-> w, then |-> t, else |-> e] : w \in Core, t \in Core, e \in {[k |-> "null", l |-> Col("b")]}}

-----------------------------------------------------------------------------
(* Policies.                                                               *)

PolicySet == [permissive : BOOLEAN, cmd : {"ALL", "SELECT"}, roles : {{}, {"v"}},
              using : {"", "true", "null", "error"}, check : {"", "true", "null"}]

Secured ==
    {[t |-> [enabled |-> TRUE, forced |-> f, policies |-> ps], bypass |-> f, cmd |-> c] :
        f \in BOOLEAN, ps \in SeqsUpTo(PolicySet, 2), c \in {"SELECT", "INSERT"}}
    \cup {[t |-> [enabled |-> e, forced |-> FALSE, policies |-> <<>>], bypass |-> TRUE, cmd |-> "SELECT"] :
             e \in BOOLEAN}

-----------------------------------------------------------------------------
(* COPY.                                                                   *)

Texts(S) == SeqsUpTo(S, 2) \cup {NULL}
TextRows(S) == {<<<<x, y>>>> : x \in Texts(S), y \in Texts(S)} \cup {<<<<x>>, <<y>>>> : x \in Texts(S), y \in Texts(S)}

Chars == {"bs", "tab", "nl", "cr", "t", "r", "N", "bar", "dot"}

BinaryTypes == {<<"int2", "text">>, <<"char", "int4">>, <<"jsonb", "bool">>, <<"date", "int8">>,
                <<"timestamp", "oid">>, <<"float", "uuid">>, <<"bytea", "date">>}
Bytes(n) == [i \in 1 .. n |-> 2]
BinaryValues(type) ==
    {NULL} \cup CASE type = "int2" -> {-8, -1, 0, 7, 8}
                  [] type = "int4" -> {-128, 127, 128}
                  [] type = "int8" -> {-32768, -1, 32767, 32768}
                  [] type = "oid" -> {-1, 0, 255, 256}
                  [] type = "bool" -> {"t", "f", "true", "yes"}
                  [] type = "date" -> [is : {-7, -1, 6, 7}, canonical : {TRUE}] \cup [raw : {Bytes(4), Bytes(8)}]
                  [] type = "timestamp" -> [is : {-31, -30, 5, 31}, canonical : BOOLEAN] \cup [raw : {Bytes(8)}]
                  [] type = "float" -> [is : {-1, 3}, canonical : BOOLEAN] \cup [raw : {Bytes(4)}]
                  [] type = "uuid" -> [is : {Bytes(16)}, canonical : BOOLEAN] \cup [raw : {Bytes(2)}]
                  [] type = "bytea" -> [is : {Bytes(0), Bytes(2)}, canonical : BOOLEAN] \cup [raw : {Bytes(2)}]
                  [] type \in {"char", "jsonb", "text"} -> SeqsUpTo({"x", "y"}, 2)
BinaryRows == UNION {{<<ts, IF twice THEN <<<<x, y>>, <<x, y>>>> ELSE <<<<x, y>>>>>> :
                        x \in BinaryValues(ts[1]), y \in BinaryValues(ts[2]), twice \in BOOLEAN} : ts \in BinaryTypes}

Digits == SeqsUpTo({0, 1, 5}, 3)

-----------------------------------------------------------------------------
(* Texts of definitions.                                                   *)

Kw(words) == [i \in DOMAIN words |-> D!K(words[i])]
Name(n) == <<D!Id(n)>>
One == <<D!Tok("int", "1")>>
Str == <<D!Tok("string", "s")>>
Infixes == {Kw(<<"OR">>), Kw(<<"AND">>), <<D!Tok("compare", "=")>>, <<D!Tok("add", "-")>>, <<D!K("star")>>,
            <<D!Tok("pow", "^")>>, <<D!Tok("json", "->")>>}
Before == {<<>>, Kw(<<"NOT">>), <<D!Tok("add", "-")>>}
After == {<<>>, Kw(<<"IS", "NULL">>), Kw(<<"IS", "NOT", "NULL">>), Kw(<<"cast">>) \o Name("int"),
             Kw(<<"IN", "(">>) \o One \o Kw(<<",">>) \o Name("b") \o Kw(<<")">>),
             Kw(<<"NOT", "IN", "(", "SELECT">>) \o One \o Kw(<<")">>)}
InParens(s) == Kw(<<"(">>) \o s \o Kw(<<")">>)

Call(f, args, rest) == Name(f) \o InParens(args) \o rest

Primaries ==
    {Name("a"), Name("t") \o Kw(<<".">>) \o Name("a"), Name("my col"), One, Str, Kw(<<"TRUE">>), Kw(<<"NULL">>),
     Kw(<<"param">>), Call("f", <<>>, <<>>), Call("f", Name("a") \o Kw(<<",">>) \o One, <<>>),
     Call("count", Kw(<<"star">>), <<>>), Call("count", Kw(<<"DISTINCT">>) \o Name("a"), <<>>),
     Call("sum", Name("a"), Kw(<<"FILTER", "(", "WHERE">>) \o Name("b") \o Kw(<<")">>)),
     Call("p", One, Kw(<<"WITHIN", "GROUP", "(", "ORDER", "BY">>) \o Name("b") \o Kw(<<")">>)),
     Call("sum", Name("a"), Kw(<<"OVER", "(", "PARTITION", "BY">>) \o Name("b") \o Kw(<<"ORDER", "BY">>)
                              \o Name("a") \o Kw(<<"DESC", ")">>)),
     Kw(<<"ROW", "(">>) \o One \o Kw(<<")">>), InParens(Name("a") \o Kw(<<",">>) \o One),
     InParens(Name("a")) \o Kw(<<".">>) \o Name("f"),
     Kw(<<"CAST", "(">>) \o Name("a") \o Kw(<<"AS">>) \o Name("int") \o Kw(<<"[", "]", ")">>),
     Kw(<<"INTERVAL">>) \o Str, Kw(<<"ARRAY", "[">>) \o One \o Kw(<<"]">>),
     Kw(<<"ARRAY", "(", "SELECT">>) \o One \o Kw(<<")">>),
     Kw(<<"EXISTS", "(", "SELECT">>) \o One \o Kw(<<")">>), Kw(<<"(", "SELECT">>) \o One \o Kw(<<")">>),
     Kw(<<"CASE", "WHEN">>) \o Name("a") \o Kw(<<"THEN">>) \o One \o Kw(<<"END">>),
     Kw(<<"CASE">>) \o Name("a") \o Kw(<<"WHEN">>) \o One \o Kw(<<"THEN">>) \o Str \o Kw(<<"ELSE">>)
         \o Name("b") \o Kw(<<"END">>)}

ExprTexts ==
    {x \o p \o y : x \in Before, p \in Primaries, y \in After}
    \cup {x \o Name("a") \o o \o y \o Name("b") \o q \o Name("c") \o z :
             x \in Before, o \in Infixes, y \in Before, q \in Infixes, z \in After}
    \cup {x \o Name("a") \o o \o InParens(Name("b") \o q \o Name("c")) \o z \o r \o One :
             x \in Before, o \in Infixes, q \in Infixes, z \in After, r \in Infixes}

SubSelect == InParens(Kw(<<"SELECT">>) \o Name("a") \o Kw(<<"FROM">>) \o Name("u"))
Froms ==
    {<<>>, Kw(<<"FROM">>) \o Name("t"), Kw(<<"FROM">>) \o Name("t") \o Kw(<<",">>) \o Name("u"),
     Kw(<<"FROM">>) \o SubSelect \o Name("d"), Kw(<<"FROM", "LATERAL">>) \o SubSelect,
     Kw(<<"FROM">>) \o Call("g", One, <<>>),
     Kw(<<"FROM">>) \o Name("t") \o Name("x") \o Kw(<<"LEFT", "JOIN">>) \o Name("u") \o Kw(<<"ON">>) \o Name("a")
         \o Kw(<<"INNER", "JOIN">>) \o Name("w") \o Kw(<<"USING">>) \o InParens(Name("a")),
     Kw(<<"FROM">>) \o Name("t") \o Kw(<<"CROSS", "JOIN">>) \o Name("u") \o Kw(<<"AS">>) \o Name("y")}
Tails ==
    {<<>>, Kw(<<"ORDER", "BY">>) \o Name("a") \o Kw(<<"DESC", ",">>) \o One \o Kw(<<"LIMIT">>) \o One,
     Kw(<<"LIMIT", "ALL", "OFFSET">>) \o One}
Withs ==
    {<<>>, Kw(<<"WITH">>) \o Name("c") \o Kw(<<"AS">>) \o SubSelect,
     Kw(<<"WITH", "RECURSIVE">>) \o Name("c") \o Kw(<<"AS">>) \o SubSelect,
     Kw(<<"WITH">>) \o Name("c") \o InParens(Name("a")) \o Kw(<<"AS">>) \o SubSelect}
SetWords == {Kw(<<"UNION">>), Kw(<<"UNION", "ALL">>), Kw(<<"EXCEPT", "DISTINCT">>), Kw(<<"INTERSECT">>)}
Selecting(n) == Kw(<<"SELECT">>) \o Name(n)

ViewTexts ==
    {w \o Kw(<<"SELECT">>) \o d \o t \o f \o g \o x :
        w \in Withs, d \in {<<>>, Kw(<<"DISTINCT">>), Kw(<<"DISTINCT", "ON">>) \o InParens(Name("a"))},
        t \in {Kw(<<"star">>), Name("a") \o Kw(<<"AS">>) \o Name("z") \o Kw(<<",">>) \o InParens(Name("b")) \o Name("y")},
        f \in Froms,
        g \in {<<>>, Kw(<<"WHERE">>) \o Name("a") \o Kw(<<"GROUP", "BY">>) \o Name("b") \o Kw(<<"HAVING">>) \o Name("c")},
        x \in Tails}
    \cup {w \o Selecting("a") \o o \o Selecting("b") \o q \o Selecting("c") \o r \o Selecting("d") \o x :
             w \in Withs, o \in SetWords, q \in SetWords, r \in SetWords, x \in Tails}

MCInputs ==
    [k \in {"scan", "join", "set", "recursive", "aggregate", "group", "window", "predicate", "arith",
            "text", "csv", "binary", "numeric", "record", "policy", "definition"} |->
        CASE k = "scan" -> {[t |-> t, q |-> q] : t \in Tables, q \in Queries}
          [] k = "join" -> {[j |-> j, lateral |-> FALSE, l |-> l, r |-> r] : j \in Joins, l \in Few, r \in Few}
                           \cup {[j |-> j, lateral |-> TRUE, l |-> l, r |-> r] :
                                    j \in {x \in Joins : x.on \in {"=", "<"} /\ x.type # "cross"}, l \in Few, r \in Few}
          [] k = "set" -> {[o |-> o, l |-> l, r |-> r] : o \in SetOps, l \in Few, r \in Few}
          [] k = "recursive" -> {[edges |-> e, all |-> a, base |-> b] :
                                    e \in Edges, a \in BOOLEAN, b \in {<<2>>, <<2, 2>>, <<2, 9>>}}
          [] k = "aggregate" -> {[f |-> f, rows |-> r] : f \in Aggs, r \in SeqsUpTo(AggRow, 2)}
          [] k = "group" -> {[q |-> q, rows |-> r] : q \in Groupings, r \in SeqsUpTo(AggRow, 2)}
          [] k = "window" -> {[w |-> w, rows |-> r] : w \in Windows,
                                 r \in SeqsUpTo({x \in AggRow : x.keep /\ x.v # 9}, 3)}
          [] k = "predicate" -> {[e |-> e, row |-> [a |-> a, b |-> b]] :
                                    e \in Predicates, a \in {NULL, 2, 9, 10}, b \in {NULL, 0, 9}}
          [] k = "arith" -> [op : {"+", "-", "*", "/", "%"}, a : -16 .. 15, b : -16 .. 15]
          [] k = "text" -> {[rows |-> r, delim |-> d] : r \in TextRows(Chars), d \in {"tab", "bar"}}
          [] k = "csv" -> {[rows |-> r, header |-> h] : r \in TextRows({"x", "cr", "nl"}), h \in BOOLEAN}
          [] k = "binary" -> BinaryRows
          [] k = "numeric" -> {[neg |-> n, int |-> i, frac |-> f] : n \in BOOLEAN, i \in Digits, f \in Digits} \cup [not : {"NaN", "Infinity"}]
          [] k = "record" -> {[row |-> r] : r \in SeqsUpTo(Texts({"x", "quote", "comma", "close"}), 2)}
          [] k = "policy" -> Secured
          [] k = "definition" -> {[text |-> e, view |-> FALSE] : e \in ExprTexts}
                                 \cup {[text |-> v, view |-> TRUE] : v \in ViewTexts}]
=============================================================================
