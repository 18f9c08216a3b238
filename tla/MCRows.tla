------------------------------- MODULE MCRows -------------------------------
(* Rows on two parents and one child.                                      *)
EXTENDS Rows, TLC

CONSTANTS a, bad

Setup(del, upd, deferrable, initially, extended, indexed, rows) ==
    [fk |-> [del |-> del, upd |-> upd, deferrable |-> deferrable, initially |-> initially],
     ext |-> extended, indexed |-> indexed, rows |-> rows]

MCSetups ==
    {Setup("RESTRICT", "CASCADE", TRUE, TRUE, FALSE, TRUE, P(1) :> a @@ P(2) :> Null @@ C(1) :> 1),
     Setup("CASCADE", "SET_NULL", FALSE, FALSE, TRUE, TRUE, P(1) :> a @@ P(2) :> Null @@ C(1) :> 1),
     Setup("SET_NULL", "RESTRICT", TRUE, FALSE, TRUE, TRUE, P(1) :> a @@ C(1) :> 1),
     Setup("RESTRICT", "RESTRICT", TRUE, TRUE, TRUE, TRUE, P(1) :> a @@ P(2) :> Null),
     Setup("RESTRICT", "RESTRICT", FALSE, FALSE, FALSE, FALSE, P(1) :> a),
     Setup("RESTRICT", "RESTRICT", FALSE, FALSE, TRUE, FALSE, P(1) :> a @@ P(2) :> a @@ P(3) :> Null)}

Ins(tab, rows, oc, how) ==
    [op |-> "insert", tab |-> tab, rows |-> rows, oc |-> oc, how |-> how]

R(i, v) == [id |-> i, val |-> v]

Upd(tab, where, col, v) ==
    [op |-> "update", tab |-> tab, where |-> where, col |-> col, val |-> v]

MCStmts ==
    {Ins("P", <<R(Default, Null)>>, "error", "values"),
     Ins("P", <<R(2, a)>>, "error", "values"),
     Ins("P", <<R(1, bad)>>, "update", "values"),
     Ins("P", <<R(2, a)>>, "nothing", "values"),
     Ins("P", <<R(1, bad), R(2, bad)>>, "error", "values"),
     Ins("P", <<R(2, Null), R(Default, a)>>, "error", "values"),
     Ins("P", <<R(2, Null), R(Default, a)>>, "error", "copy"),
     Ins("C", <<R(1, 2)>>, "error", "values"),
     Ins("C", <<R(1, 2)>>, "update", "values"),
     Upd("P", {1}, "id", 3),
     Upd("P", Id, "val", a),
     Upd("P", {1}, "val", Null),
     Upd("C", {1}, "val", 2),
     [op |-> "delete", tab |-> "P", where |-> {1}],
     [op |-> "delete", tab |-> "P", where |-> Id],
     [op |-> "delete", tab |-> "C", where |-> {1}],
     [op |-> "truncate"],
     [op |-> "index"]}

Symmetry == Permutations(Client)
=============================================================================
