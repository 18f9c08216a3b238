------------------------------ MODULE MCSchema ------------------------------
(* Schema on two names and two sessions, by groups of statements that      *)
(* touch the same keys.                                                    *)
EXTENDS Schema, TLC

CONSTANTS c1, c2

Cols(names) ==
    [i \in DOMAIN names |->
        [name |-> names[i], id |-> <<names[i], 0>>, notnull |-> FALSE, default |-> FALSE]]

Existing(pk) ==
    [inc |-> 0, pk |-> pk, rls |-> FALSE, forced |-> FALSE, policies |-> {}, checks |-> {},
     cols |-> Cols(<<"k", "a", "b">>)]

OldRow(i) == [inc |-> 0, id |-> i, odd |-> FALSE, cells |-> <<<<"k", 0>>, <<"a", 0>>, <<"b", 0>>>>]

On(b1, b2) == c1 :> b1 @@ c2 :> b2

Create(cols, pk, unique) ==
    [op |-> "createTable", tab |-> "t", cols |-> cols, pk |-> pk, unique |-> unique, quiet |-> FALSE]
Quietly(st) == [st EXCEPT !.quiet = TRUE]
Drop(op) == [op |-> op, tab |-> "t", quiet |-> FALSE]
Rename == [op |-> "renameTable", tab |-> "t", new |-> "u"]
Back == [op |-> "renameTable", tab |-> "u", new |-> "t"]
Col(op, col) == [op |-> op, tab |-> "t", col |-> col]
TypeOf(col, castable) == [op |-> "columnType", tab |-> "t", col |-> col, castable |-> castable]
SetCol(col, prop, on) == [op |-> "column", tab |-> "t", col |-> col, prop |-> prop, on |-> on]
RenameTo(col, new) == [op |-> "renameColumn", tab |-> "t", col |-> col, new |-> new]
RLS(force, on) == [op |-> "rls", tab |-> "t", force |-> force, on |-> on]
Ix(name, col, unique) ==
    [op |-> "createIndex", tab |-> "t", name |-> name, col |-> col, unique |-> unique, repeats |-> TRUE]
Policy(op, name, using) == [op |-> op, tab |-> "t", name |-> name, using |-> using]
DropPol(name, quiet) == [op |-> "dropPolicy", tab |-> "t", name |-> name, quiet |-> quiet]
ViewAs(replace) == [op |-> "createView", tab |-> "t", replace |-> replace]
TypeAs(labels) == [op |-> "createType", tab |-> "t", labels |-> labels]
CTAS(to, from) == [op |-> "createTableAs", tab |-> to, from |-> from, quiet |-> FALSE]
Ins(i, only) == [op |-> "insert", tab |-> "t", id |-> i, only |-> only]

\* Rows against the statements that rewrite, move or remove them.
RewritingJobs ==
    {<<Ins(2, {"k", "a", "b"})>>, <<Ins(2, {"k"})>>, <<Col("dropColumn", "a")>>,
     <<Col("dropColumn", "k")>>, <<Col("addColumn", "a")>>, <<TypeOf("b", TRUE)>>,
     <<TypeOf("b", FALSE)>>, <<Drop("dropTable")>>, <<Create(<<"k", "b">>, "declared", None)>>,
     <<Rename>>, <<[op |-> "truncate", tab |-> "t"]>>, <<Ix("i", "b", TRUE)>>,
     <<Drop("dropTable"), Create(<<"k", "b">>, "declared", "b")>>,
     <<Ins(2, {"k"}), Col("dropColumn", "a")>>}

\* A table without primary key.
Keyless ==
    {<<Ins(2, {"k", "a", "b"})>>, <<Rename>>, <<Create(<<"k", "a">>, "none", None)>>,
     <<[op |-> "primaryKey", tab |-> "t"]>>, <<Col("dropColumn", "a")>>,
     <<Col("dropColumn", "k")>>, <<CTAS("u", "t")>>, <<Drop("dropTable")>>}

\* Changes that only concern the catalog entry of a table.
Altering ==
    {<<Policy("createPolicy", "p", "x")>>, <<Policy("createPolicy", "q", "x")>>,
     <<Policy("alterPolicy", "p", "y")>>, <<DropPol("p", FALSE)>>, <<DropPol("q", TRUE)>>,
     <<RLS(FALSE, TRUE)>>, <<RLS(TRUE, TRUE)>>, <<Col("addColumn", "c")>>,
     <<RenameTo("b", "c")>>, <<SetCol("b", "notnull", TRUE)>>, <<SetCol("b", "default", TRUE)>>,
     <<Col("check", "a")>>, <<Ix("i", "a", FALSE)>>, <<Col("dropColumn", "a")>>, <<Ins(2, {"k", "a"})>>,
     <<Drop("dropTable")>>}

\* Names.
Naming ==
    {<<Create(<<"k", "a">>, "declared", "a")>>, <<Quietly(Create(<<"k", "b">>, "none", None))>>,
     <<ViewAs(FALSE)>>, <<ViewAs(TRUE)>>, <<Drop("dropView")>>, <<Quietly(Drop("dropView"))>>,
     <<[op |-> "createSequence", tab |-> "t", quiet |-> FALSE]>>, <<Quietly(Drop("dropSequence"))>>,
     <<TypeAs("x")>>, <<TypeAs("y")>>, <<Quietly(Drop("dropTable"))>>, <<Rename>>, <<Back>>,
     <<CTAS("u", "t")>>, <<Quietly(CTAS("t", "u"))>>}

MCMenus ==
    [rewriting |-> RewritingJobs, keyless |-> Keyless, altering |-> Altering, naming |-> Naming]

MCSetups ==
    {[content |-> Sch("t") :> Existing("declared") @@ Row(Main, "t", <<"pk", 1>>) :> OldRow(1),
      branch |-> On(Main, Main), menu |-> "rewriting"],
     [content |-> Sch("t") :> Existing("declared") @@ Row(Main, "t", <<"pk", 1>>) :> OldRow(1)
                  @@ Row(Dev, "t", <<"pk", 2>>) :> OldRow(2),
      branch |-> On(Main, Dev), menu |-> "rewriting"],
     [content |-> Sch("t") :> Existing("none") @@ Row(Main, "t", <<"at", 0>>) :> OldRow(1),
      branch |-> On(Main, Main), menu |-> "keyless"],
     [content |-> Sch("t") :> Existing("declared") @@ Index("t") :> {<<"key", "b">>},
      branch |-> On(Main, Main), menu |-> "altering"],
     [content |-> <<>>, branch |-> On(Main, Main), menu |-> "naming"]}
=============================================================================
