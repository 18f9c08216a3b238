------------------------------- MODULE Schema -------------------------------
(***************************************************************************)
(* The catalog and the statements that change it: CREATE, ALTER, DROP and  *)
(* RENAME of tables, CREATE TABLE AS, TRUNCATE, indexes, row-level         *)
(* security, views, sequences and types (executor/catalog.go, ddl.go,      *)
(* ddl_alter.go, ddl_seq_enum.go, advanced_dml.go, rls.go, views.go,       *)
(* composite.go), next to INSERT, whose rows have to fit the catalog.      *)
(*                                                                         *)
(* The catalog is keyed by name and shared by all branches; rows are keyed *)
(* by branch, table name and primary key, and a row is no more than its    *)
(* cells in column order (encode.go).  Every statement reads the snapshot  *)
(* and the buffer of its transaction, so it is one step, and its commit    *)
(* another.  A cell is abstracted to the column it was written for, and a  *)
(* row remembers which table of its name it was inserted into (inc) and    *)
(* whether a schema change may have passed it by (odd).  Index entries are *)
(* the subject of Rows and left out here.                                  *)
(***************************************************************************)
EXTENDS Naturals, Sequences

CONSTANTS
    Client, Absent, Keep,
    Null,
    Tombstone,
    None,
    Table,       \* names of tables and views
    Ids,         \* values of the column k, the primary key where there is one
    Setups,      \* contents to start from, the branch of every client and a menu
    Menus,       \* per menu: the jobs to consider
    MaxJobs,     \* bound on the jobs of all clients
    MaxRetries   \* Execute's maxRetries

Main == "main"
Dev == "dev"
Branch == {Main, Dev}
Stamp == 0..MaxJobs

\* What follows the table name in a row key: the primary key; without one, the read
\* timestamp; or the whole former key, of a row that a RENAME has moved.
KeyTail == {<<"pk", i>> : i \in Ids} \cup {<<"at", n>> : n \in Stamp}
            \cup {<<"key", t, n>> : t \in Table, n \in Stamp}

Sch(t) == <<"schema", t>>
Index(t) == <<"index", t>>
View(t) == <<"view", t>>
Sequence(t) == <<"sequence", t>>
Type(t) == <<"type", t>>
Row(b, t, p) == <<"row", b, t, p>>

RowsOf(b, t) == {Row(b, t, p) : p \in KeyTail}
RowKey == UNION {RowsOf(b, t) : b \in Branch, t \in Table}
Catalog == UNION {{Sch(t), Index(t), View(t), Sequence(t), Type(t)} : t \in Table}
Key == Catalog \cup RowKey

VARIABLES
    db, txn,
    branch,  \* per client: the branch of its session
    menu,    \* which jobs to consider in this behaviour
    ph,      \* per client: idle, exec, commit
    job,     \* the statements it executes: one in autocommit, or a block
    picked,  \* what the SELECT of CREATE TABLE AS has returned
    tries,   \* attempts so far
    clock,   \* commits so far, the read timestamp of the next transaction
    spent    \* jobs begun so far

vars == <<db, txn, branch, menu, ph, job, picked, tries, clock, spent>>

INSTANCE KVTxn

-----------------------------------------------------------------------------
(* What catalog entries, rows and statements are.                          *)

\* A column: its id tells apart columns, and types of a column, that share a name.
ColumnDef == [name : STRING, id : STRING \X Nat, notnull : BOOLEAN, default : BOOLEAN]

\* A table: inc tells apart tables that share a name.
Entry ==
    [inc : Nat, pk : {"none", "declared", "added"}, rls : BOOLEAN, forced : BOOLEAN,
     policies : SUBSET [name : STRING, using : STRING], checks : SUBSET STRING, cols : Seq(ColumnDef)]

Cell == (STRING \X Nat) \cup {Null}

Stored == [inc : Nat, id : Ids, odd : BOOLEAN, cells : Seq(Cell)]

\* Statements by the fields they have.  (Bound: the column of a primary key is k, and no
\* other column takes or gives up that name.)
TableStmt ==
    [op : {"createTable"}, tab : Table, cols : Seq(STRING), pk : {"none", "declared"},
     unique : STRING \cup {None}, quiet : BOOLEAN]
    \cup [op : {"createTableAs"}, tab : Table, from : Table, quiet : BOOLEAN]
    \cup [op : {"dropTable"}, tab : Table, quiet : BOOLEAN]
    \cup [op : {"renameTable"}, tab : Table, new : Table]
    \cup [op : {"truncate"}, tab : Table]
    \cup [op : {"insert"}, tab : Table, id : Ids, only : SUBSET STRING]

AlterStmt ==
    [op : {"addColumn", "dropColumn", "check"}, tab : Table, col : STRING]
    \cup [op : {"renameColumn"}, tab : Table, col : STRING \ {"k"}, new : STRING \ {"k"}]
    \cup [op : {"columnType"}, tab : Table, col : STRING, castable : BOOLEAN]
    \cup [op : {"column"}, tab : Table, col : STRING, prop : {"notnull", "default"}, on : BOOLEAN]
    \cup [op : {"primaryKey"}, tab : Table]
    \cup [op : {"rls"}, tab : Table, force : BOOLEAN, on : BOOLEAN]
    \cup [op : {"createPolicy", "alterPolicy"}, tab : Table, name : STRING, using : STRING]
    \cup [op : {"dropPolicy"}, tab : Table, name : STRING, quiet : BOOLEAN]

OtherStmt ==
    [op : {"createIndex"}, tab : Table, name : STRING, col : STRING, unique : BOOLEAN, repeats : BOOLEAN]
    \cup [op : {"createView"}, tab : Table, replace : BOOLEAN]
    \cup [op : {"createType"}, tab : Table, labels : STRING]
    \cup [op : {"createSequence", "dropSequence", "dropView"}, tab : Table, quiet : BOOLEAN]

Statement == TableStmt \cup AlterStmt \cup OtherStmt

\* A row with a value, which no commit has marked.
Plain(v) == v \notin {Absent, Tombstone} /\ ~v.odd

\* The row v at key k is one of the table sch, in the shape the table has.
Fits(v, sch, k) ==
    /\ sch # Absent
    /\ v.inc = sch.inc
    /\ Len(v.cells) <= Len(sch.cols)
    /\ \A i \in DOMAIN v.cells : v.cells[i] \in {Null, sch.cols[i].id}
    /\ sch.pk = "declared" => k[4] = <<"pk", v.id>>
    /\ sch.pk = "none" => k[4][1] # "pk"

\* The contents f are tables and rows, and rows fit their tables.
Right(f) ==
    /\ \A t \in Table : f[Sch(t)] \in Entry \cup {Absent}
    /\ \A k \in RowKey : /\ f[k] \in Stored \cup {Absent, Tombstone}
                         /\ Plain(f[k]) => Fits(f[k], f[Sch(k[3])], k)

Content(x) == [k \in Key |-> IF k \in DOMAIN x.content THEN x.content[k] ELSE Absent]

ASSUME SchemaAssumption ==
    /\ \A x \in Setups : /\ Right(Content(x))
                         /\ x.branch \in [Client -> Branch]
                         /\ x.menu \in DOMAIN Menus
    /\ \A m \in DOMAIN Menus : \A j \in Menus[m] :
           /\ j \in Seq(Statement)
           /\ \A i \in 1..Len(j) : j[i].op = "createTableAs" => Len(j) = 1
    /\ MaxJobs \in Nat /\ MaxRetries \in Nat

ASSUME MarkersAssumption ==
    /\ Absent # Keep /\ Absent # Tombstone /\ Keep # Tombstone
    /\ \A x \in {Absent, Keep, Tombstone} : x \notin Entry /\ x \notin Stored
    /\ None \notin Ids

-----------------------------------------------------------------------------
(* A statement maps a state of its transaction to the next.                *)

\* One write; the writes f, and g on the other keys; none.
One(k, v) == [x \in {k} |-> v]
Over(f, g) == [k \in DOMAIN f \cup DOMAIN g |-> IF k \in DOMAIN f THEN f[k] ELSE g[k]]
Nothing == [k \in {} |-> Absent]

Put(s, w) ==
    [s EXCEPT !.t.buf = [k \in Key |-> IF k \in DOMAIN w THEN w[k] ELSE @[k]]]

Fail(s) == [s EXCEPT !.ok = FALSE]

Has(s, k) == Read(s.t, k) # Absent
Get(s, k) == Read(s.t, k)

\* The keys that NewIterator yields among keys.
Present(s, keys) == {k \in keys : Has(s, k)}

\* scanTable: the rows of the branch, and those of main that it does not override.
Scan(s, t) ==
    LET own == Present(s, RowsOf(s.br, t))
        covered == {k[4] : k \in own}
        behind == IF s.br = Main THEN {}
                  ELSE {k \in Present(s, RowsOf(Main, t)) : k[4] \notin covered}
    IN  {k \in own \cup behind : Get(s, k) # Tombstone}

\* decodeRow: missing trailing cells are NULL, surplus ones are not read.
Decode(cells, n) == [i \in 1..n |-> IF i <= Len(cells) THEN cells[i] ELSE Null]

Cells(s, k, sch) == Decode(Get(s, k).cells, Len(sch.cols))

\* colIndex: 0 when there is no such column, the first of several.
ColIndex(sch, c) ==
    LET named == {i \in 1..Len(sch.cols) : sch.cols[i].name = c}
    IN  IF named = {} THEN 0 ELSE CHOOSE i \in named : \A j \in named : i <= j

\* The sequence without its element c.
Without(seq, c) == [i \in 1..(Len(seq) - 1) |-> IF i < c THEN seq[i] ELSE seq[i + 1]]

Column(s, c) == [name |-> c, id |-> <<c, s.now>>, notnull |-> FALSE, default |-> FALSE]

\* primaryKeyBytes of the row at k, as a key tail.
PrimaryKey(s, k, sch) ==
    IF sch.pk # "none" THEN <<"pk", Get(s, k).id>> ELSE <<"key", k[3], k[4][2]>>

Defs(s, t) == IF Has(s, Index(t)) THEN Get(s, Index(t)) ELSE {}

\* persistSchema
Persist(s, t, sch) == Put(s, One(Sch(t), sch))

\* F on the schema of t, an error without one.
OnSchema(s, t, F(_)) == IF Has(s, Sch(t)) THEN F(Get(s, Sch(t))) ELSE Fail(s)

\* F on the schema and the position of column c.
OnColumn(s, t, c, F(_, _)) ==
    OnSchema(s, t, LAMBDA sch :
        IF ColIndex(sch, c) = 0 THEN Fail(s) ELSE F(sch, ColIndex(sch, c)))

-----------------------------------------------------------------------------
(* Tables.                                                                 *)

NewTable(s, pk, names) ==
    [inc |-> s.now, pk |-> pk, rls |-> FALSE, forced |-> FALSE, policies |-> {}, checks |-> {},
     cols |-> [i \in 1..Len(names) |-> Column(s, names[i])]]

\* execCreateTable; a unique column has its index from the start.
CreateTable(s, st) ==
    IF Has(s, Sch(st.tab)) THEN IF st.quiet THEN s ELSE Fail(s)
    ELSE Put(Persist(s, st.tab, NewTable(s, st.pk, st.cols)),
             IF st.unique = None THEN Nothing ELSE One(Index(st.tab), {<<"key", st.unique>>}))

\* execCreateTableAs, after its SELECT: all rows are buffered under the read timestamp,
\* so the last one remains.
SelectedRow(s, sch) ==
    [inc |-> sch.inc, id |-> s.picked.last, odd |-> FALSE,
     cells |-> [i \in 1..Len(sch.cols) |-> sch.cols[i].id]]

CreateTableAs(s, st) ==
    IF Has(s, Sch(st.tab)) THEN IF st.quiet THEN s ELSE Fail(s)
    ELSE LET sch == NewTable(s, "none", s.picked.cols)
         IN  Put(Persist(s, st.tab, sch),
                 IF s.picked.last = None THEN Nothing
                 ELSE One(Row(s.br, st.tab, <<"at", s.now>>), SelectedRow(s, sch)))

\* dropTableData: the rows of the session's branch, tombstones included.
DropTableData(s, t) == Put(s, [k \in Present(s, RowsOf(s.br, t)) |-> Absent])

\* execDropTable
DropTable(s, st) ==
    IF ~Has(s, Sch(st.tab)) THEN IF st.quiet THEN s ELSE Fail(s)
    ELSE Put(DropTableData(s, st.tab), Over(One(Index(st.tab), Absent), One(Sch(st.tab), Absent)))

\* execTruncate
Truncate(s, st) == OnSchema(s, st.tab, LAMBDA sch : DropTableData(s, st.tab))

\* renameTable: rows are copied under their primary key and deleted under it, on main;
\* on a branch a tombstone takes their place.  (Bound: a row without primary key that has
\* been moved is not moved again.)
RenameTable(s, st) ==
    OnSchema(s, st.tab, LAMBDA sch :
        IF st.new = st.tab THEN s
        ELSE IF \/ Has(s, Sch(st.new))
                \/ sch.pk = "none" /\ \E k \in Scan(s, st.tab) : k[4][1] = "key"
        THEN Fail(s)
        ELSE LET rows == Scan(s, st.tab)
                 to(k) == Row(s.br, st.new, PrimaryKey(s, k, sch))
                 moved == {to(k) : k \in rows}
                 from(m) == CHOOSE k \in rows : m = to(k)
                 gone == {Row(s.br, st.tab, PrimaryKey(s, k, sch)) : k \in rows}
                 defs == Defs(s, st.tab)
                 copies == [m \in moved |->
                               [Get(s, from(m)) EXCEPT !.cells = Cells(s, from(m), sch)]]
                 deletes == [k \in gone |-> IF s.br = Main THEN Absent ELSE Tombstone]
                 catalog == Over(One(Sch(st.new), sch), One(Sch(st.tab), Absent))
                 indexes == Over(IF defs = {} THEN Nothing ELSE One(Index(st.new), defs),
                                 One(Index(st.tab), Absent))
             IN  Put(s, Over(Over(copies, deletes), Over(catalog, indexes))))

-----------------------------------------------------------------------------
(* ALTER TABLE.                                                            *)

AddColumn(s, st) ==
    OnSchema(s, st.tab, LAMBDA sch :
        IF ColIndex(sch, st.col) # 0 THEN Fail(s)
        ELSE Persist(s, st.tab, [sch EXCEPT !.cols = Append(@, Column(s, st.col))]))

\* Variant: the cells stay where they are.
DropColumnOnly(s, st) ==
    OnColumn(s, st.tab, st.col, LAMBDA sch, c :
        IF sch.pk # "none" /\ st.col = "k" THEN Fail(s)
        ELSE Persist(s, st.tab, [sch EXCEPT !.cols = Without(@, c)]))

\* Every row in sight is rewritten where it is, on main for a row that only main has;
\* the indexes that cover the column go.
DropColumn(s, st) ==
    OnColumn(s, st.tab, st.col, LAMBDA sch, c :
        IF sch.pk # "none" /\ st.col = "k" THEN Fail(s)
        ELSE LET rows == [k \in Scan(s, st.tab) |->
                             [Get(s, k) EXCEPT !.cells = Without(Cells(s, k, sch), c)]]
                 kept == {d \in Defs(s, st.tab) : d[2] # st.col}
             IN  Persist(Put(s, Over(rows, IF kept = Defs(s, st.tab) THEN Nothing
                                           ELSE One(Index(st.tab), kept))),
                         st.tab, [sch EXCEPT !.cols = Without(@, c)]))

\* No check that the new name is free; indexes and policies keep the old one.
RenameColumn(s, st) ==
    OnColumn(s, st.tab, st.col, LAMBDA sch, c :
        Persist(s, st.tab, [sch EXCEPT !.cols[c].name = st.new]))

\* rewriteColumnType: every value in sight is cast, and NULL stays NULL; st.castable
\* says whether the values can be.
AlterType(s, st) ==
    OnColumn(s, st.tab, st.col, LAMBDA sch, c :
        LET rows == Scan(s, st.tab)
            old(k) == Cells(s, k, sch)
            id == <<st.col, s.now>>
        IN  IF ~st.castable /\ \E k \in rows : old(k)[c] # Null THEN Fail(s)
            ELSE Persist(Put(s, [k \in rows |-> [Get(s, k) EXCEPT !.cells =
                                    [old(k) EXCEPT ![c] = IF @ = Null THEN Null ELSE id]]]),
                         st.tab, [sch EXCEPT !.cols[c].id = id]))

\* SET / DROP NOT NULL and DEFAULT; the rows are not looked at.
AlterColumn(s, st) ==
    OnColumn(s, st.tab, st.col, LAMBDA sch, c :
        Persist(s, st.tab, [sch EXCEPT !.cols[c] =
            IF st.prop = "notnull" THEN [@ EXCEPT !.notnull = st.on]
            ELSE [@ EXCEPT !.default = st.on]]))

\* alterAddConstraint, FOREIGN KEY and CHECK: recorded, the rows are not looked at.
AddCheck(s, st) ==
    OnColumn(s, st.tab, st.col, LAMBDA sch, c :
        Persist(s, st.tab, [sch EXCEPT !.checks = @ \cup {st.col}]))

\* alterAddConstraint, PRIMARY KEY (k), with buildUniqueIndex: the rows are checked and
\* keep the keys they have.
AddPrimaryKey(s, st) ==
    OnColumn(s, st.tab, "k", LAMBDA sch, c :
        LET rows == Scan(s, st.tab)
            defs == Defs(s, st.tab)
        IN  IF \/ \E d \in defs : d[1] = "pkey"
               \/ \E k, l \in rows : k # l /\ Get(s, k).id = Get(s, l).id
            THEN Fail(s)
            ELSE Persist(Put(s, One(Index(st.tab), defs \cup {<<"pkey", "k">>})), st.tab,
                         [sch EXCEPT !.pk = IF @ = "none" THEN "added" ELSE @,
                                     !.cols[c].notnull = TRUE]))

\* ENABLE, DISABLE, FORCE and NO FORCE ROW LEVEL SECURITY
AlterRLS(s, st) ==
    OnSchema(s, st.tab, LAMBDA sch :
        Persist(s, st.tab, IF st.force THEN [sch EXCEPT !.forced = st.on]
                           ELSE [sch EXCEPT !.rls = st.on]))

\* execCreateIndex; repeats says that the rows with a value in the column share one.  The
\* error ends the job: what a failed back-fill leaves in a block is the subject of Rows.
CreateIndex(s, st) ==
    OnColumn(s, st.tab, st.col, LAMBDA sch, c :
        IF \/ \E d \in Defs(s, st.tab) : d[1] = st.name
           \/ /\ st.unique /\ st.repeats
              /\ \E k, l \in Scan(s, st.tab) :
                    k # l /\ Null \notin {Cells(s, k, sch)[c], Cells(s, l, sch)[c]}
        THEN Fail(s)
        ELSE Put(s, One(Index(st.tab), Defs(s, st.tab) \cup {<<st.name, st.col>>})))

-----------------------------------------------------------------------------
(* Policies, views, sequences and types.                                   *)

\* findPolicy
Named(sch, p) == {q \in sch.policies : q.name = p}

CreatePolicy(s, st) ==
    OnSchema(s, st.tab, LAMBDA sch :
        IF Named(sch, st.name) # {} THEN Fail(s)
        ELSE Persist(s, st.tab, [sch EXCEPT !.policies = @ \cup {[name |-> st.name, using |-> st.using]}]))

AlterPolicy(s, st) ==
    OnSchema(s, st.tab, LAMBDA sch :
        IF Named(sch, st.name) = {} THEN Fail(s)
        ELSE Persist(s, st.tab, [sch EXCEPT !.policies =
                 (@ \ Named(sch, st.name)) \cup {[name |-> st.name, using |-> st.using]}]))

DropPolicy(s, st) ==
    IF st.quiet /\ ~Has(s, Sch(st.tab)) THEN s
    ELSE OnSchema(s, st.tab, LAMBDA sch :
        IF Named(sch, st.name) = {} THEN IF st.quiet THEN s ELSE Fail(s)
        ELSE Persist(s, st.tab, [sch EXCEPT !.policies = @ \ Named(sch, st.name)]))

\* execCreateView; CREATE TABLE does not look for a view in return.
CreateView(s, st) ==
    IF Has(s, Sch(st.tab)) \/ (~st.replace /\ Has(s, View(st.tab))) THEN Fail(s)
    ELSE Put(s, One(View(st.tab), "select"))

\* execCreateSequence
CreateSequence(s, st) ==
    IF Has(s, Sequence(st.tab)) THEN IF st.quiet THEN s ELSE Fail(s)
    ELSE Put(s, One(Sequence(st.tab), "zero"))

\* execDropView and execDropSequence
DropEntry(s, st, key) ==
    IF ~Has(s, key) THEN IF st.quiet THEN s ELSE Fail(s) ELSE Put(s, One(key, Absent))

\* execCreateEnum and execCreateType: whatever was there is replaced.
CreateType(s, st) == Put(s, One(Type(st.tab), st.labels))

-----------------------------------------------------------------------------
(* INSERT INTO tab (only) VALUES (..): a column that is not named has its  *)
(* default or NULL.                                                        *)

Insert(s, st) ==
    OnSchema(s, st.tab, LAMBDA sch :
        LET filled(col) == col.name \in st.only \/ col.default
            key == Row(s.br, st.tab, IF sch.pk = "none" THEN <<"at", s.now>> ELSE <<"pk", st.id>>)
            row == [inc |-> sch.inc, id |-> st.id, odd |-> FALSE,
                    cells |-> [i \in 1..Len(sch.cols) |->
                                  IF filled(sch.cols[i]) THEN sch.cols[i].id ELSE Null]]
        IN  IF \/ \E c \in st.only : ColIndex(sch, c) = 0
               \/ \E i \in 1..Len(sch.cols) : sch.cols[i].notnull /\ row.cells[i] = Null
               \/ sch.rls /\ sch.policies = {}
               \/ Has(s, key)
            THEN Fail(s)
            ELSE Put(s, One(key, row)))

\* executeOnce
Exec(s, st) ==
    CASE st.op = "createTable"    -> CreateTable(s, st)
      [] st.op = "createTableAs"  -> CreateTableAs(s, st)
      [] st.op = "dropTable"      -> DropTable(s, st)
      [] st.op = "truncate"       -> Truncate(s, st)
      [] st.op = "renameTable"    -> RenameTable(s, st)
      [] st.op = "addColumn"      -> AddColumn(s, st)
      [] st.op = "dropColumn"     -> DropColumn(s, st)
      [] st.op = "renameColumn"   -> RenameColumn(s, st)
      [] st.op = "columnType"     -> AlterType(s, st)
      [] st.op = "column"         -> AlterColumn(s, st)
      [] st.op = "check"          -> AddCheck(s, st)
      [] st.op = "primaryKey"     -> AddPrimaryKey(s, st)
      [] st.op = "rls"            -> AlterRLS(s, st)
      [] st.op = "createIndex"    -> CreateIndex(s, st)
      [] st.op = "createPolicy"   -> CreatePolicy(s, st)
      [] st.op = "alterPolicy"    -> AlterPolicy(s, st)
      [] st.op = "dropPolicy"     -> DropPolicy(s, st)
      [] st.op = "createView"     -> CreateView(s, st)
      [] st.op = "dropView"       -> DropEntry(s, st, View(st.tab))
      [] st.op = "createSequence" -> CreateSequence(s, st)
      [] st.op = "dropSequence"   -> DropEntry(s, st, Sequence(st.tab))
      [] st.op = "createType"     -> CreateType(s, st)
      [] st.op = "insert"         -> Insert(s, st)

\* The statements of a job in turn, until an error; binding r makes TLC evaluate it once.
RunAll(s, stmts) ==
    LET go[i \in 0..Len(stmts)] ==
            IF i = 0 THEN s
            ELSE CHOOSE q \in {IF r.ok THEN Exec(r, stmts[i]) ELSE r : r \in {go[i - 1]}} : TRUE
    IN  go[Len(stmts)]

-----------------------------------------------------------------------------
(* Sessions.                                                               *)

State(c) == [ok |-> TRUE, t |-> Fresh, br |-> branch[c], now |-> clock, picked |-> picked[c]]

Is(c, ops) == \E i \in DOMAIN job[c] : job[c][i].op \in ops

Autocommit(c) == Len(job[c]) = 1

Start(c, j) ==
    /\ ph[c] = "idle" /\ spent < MaxJobs
    /\ spent' = spent + 1
    /\ ph' = [ph EXCEPT ![c] = "exec"]
    /\ job' = [job EXCEPT ![c] = j]
    /\ UNCHANGED <<db, txn, branch, menu, picked, tries, clock>>

Done(c) ==
    /\ ph' = [ph EXCEPT ![c] = "idle"]
    /\ job' = [job EXCEPT ![c] = <<>>]
    /\ picked' = [picked EXCEPT ![c] = None]
    /\ tries' = [tries EXCEPT ![c] = 0]

\* The SELECT of CREATE TABLE AS, in a transaction of its own.
Pick(c) ==
    /\ ph[c] = "exec" /\ Is(c, {"createTableAs"}) /\ picked[c] = None
    /\ LET s == State(c)
           from == job[c][1].from
           rows == Scan(s, from)
       IN  IF Has(s, Sch(from))
           THEN /\ \E last \in IF rows = {} THEN {None} ELSE {Get(s, k).id : k \in rows} :
                       picked' = [picked EXCEPT ![c] =
                           [cols |-> [i \in 1..Len(db[Sch(from)].cols) |-> db[Sch(from)].cols[i].name],
                            last |-> last]]
                /\ UNCHANGED <<ph, job, tries>>
           ELSE Done(c)
    /\ UNCHANGED <<db, txn, branch, menu, clock, spent>>

Execute(c) ==
    /\ ph[c] = "exec" /\ (Is(c, {"createTableAs"}) => picked[c] # None)
    /\ \E s \in {RunAll(State(c), job[c])} :
           \/ /\ s.ok
              /\ txn' = [txn EXCEPT ![c] = s.t]
              /\ ph' = [ph EXCEPT ![c] = "commit"]
              /\ UNCHANGED <<job, picked, tries>>
           \/ ~s.ok /\ Done(c) /\ UNCHANGED txn
    /\ UNCHANGED <<db, branch, menu, clock, spent>>

\* Statements that remove, rewrite or move the rows of their table.
Rewriting == {"dropTable", "renameTable", "dropColumn", "columnType"}

\* Statements 1 to n of the job j: those of ops on table t; several that rewrite rows,
\* on a branch b or with a RENAME among them.
Names(j, n, ops, t) == \E i \in 1..n : j[i].op \in ops /\ j[i].tab = t

Several(j, n, b) ==
    \E x, y \in 1..n :
        /\ x # y /\ j[x].op \in Rewriting /\ j[y].op \in Rewriting
        /\ b # Main \/ j[x].op = "renameTable"

\* Rows that may not fit the catalog once t commits: of an INSERT that the schema
\* changed under; rows that a statement which rewrites or removes rows did not see, as
\* they were committed meanwhile or belong to another branch; rows that a RENAME copied
\* and left, as they are not stored under their primary key; and after Several, all of
\* the tables that changed.
Unseen(c, t) ==
    LET new == Install(t)
        n == Len(job[c])
        live == {k \in RowKey : new[k] \notin {Absent, Tombstone}}
        touched == {k \in live : Sch(k[3]) \in Written(t)}
        stale == {k \in live \cap Written(t) : Sch(k[3]) \in t.since}
        missed == {k \in touched \ Written(t) :
                      Names(job[c], n, Rewriting, k[3]) /\ (k[2] # branch[c] \/ k \in t.since)}
        left == {k \in touched :
                    Names(job[c], n, {"renameTable"}, k[3]) /\ k[4] # <<"pk", new[k].id>>}
    IN  stale \cup missed \cup left
        \cup IF Several(job[c], n, branch[c]) THEN touched ELSE {}

\* What t leaves in the store, its odd rows marked.
Marked(c, t) ==
    LET new == Install(t)
        odd == Unseen(c, t)
    IN  [k \in Key |-> IF k \in odd THEN [new[k] EXCEPT !.odd = TRUE] ELSE new[k]]

Commit(c) ==
    /\ ph[c] = "commit"
    /\ \/ /\ ~Conflict(txn[c])
          /\ \E new \in {Marked(c, txn[c])} : db' = new
          /\ txn' = AfterCommit(c)
          /\ clock' = IF Written(txn[c]) = {} THEN clock ELSE clock + 1
          /\ Done(c)
       \/ /\ Conflict(txn[c])
          /\ txn' = Ended(c)
          /\ \/ Autocommit(c) /\ tries[c] < MaxRetries
                /\ ph' = [ph EXCEPT ![c] = "exec"]
                /\ tries' = [tries EXCEPT ![c] = @ + 1]
                /\ picked' = [picked EXCEPT ![c] = None]
                /\ UNCHANGED job
             \/ ~Autocommit(c) /\ Done(c)
             \/ Autocommit(c) /\ tries[c] = MaxRetries /\ Done(c)
          /\ UNCHANGED <<db, clock>>
    /\ UNCHANGED <<branch, menu, spent>>

Init ==
    /\ \E x \in Setups :
           /\ KVInit(Content(x))
           /\ branch = x.branch
           /\ menu = x.menu
    /\ ph = [c \in Client |-> "idle"]
    /\ job = [c \in Client |-> <<>>]
    /\ picked = [c \in Client |-> None]
    /\ tries = [c \in Client |-> 0]
    /\ clock = 1
    /\ spent = 0

Next ==
    \E c \in Client :
        \/ \E j \in Menus[menu] : Start(c, j)
        \/ Pick(c) \/ Execute(c) \/ Commit(c)

Spec == Init /\ [][Next]_vars

-----------------------------------------------------------------------------
\* Whatever the order in which sessions create, alter, rename and drop tables while
\* others insert, a committed row belongs to the table of its name that exists now, has
\* no more cells than that has columns, holds in each cell a value of that very column,
\* and is stored under its declared primary key (decodeRow reads cells by position
\* only), unless it is marked (Unseen): its commit overlapped the schema change, it sat
\* on a branch the statement does not rewrite, a RENAME found it elsewhere than under its
\* primary key, or its table changed in a block with several statements that rewrite rows.
RowsFitSchema == \A k \in RowKey : Plain(db[k]) => Fits(db[k], db[Sch(k[3])], k)

\* The entry of a key without what tells apart equal statements run at other times.
Shape(v) ==
    IF v = Absent THEN Absent
    ELSE <<[i \in DOMAIN v.cols |-> [name |-> v.cols[i].name, notnull |-> v.cols[i].notnull,
                                     default |-> v.cols[i].default]],
           v.pk, v.rls, v.forced, v.policies, v.checks>>

\* The transaction of c read a catalog entry of its tables that it does not write and
\* that has changed, or writes one that was deleted under it; or its statement looked at
\* rows, and there are new ones.
Skewed(c) ==
    LET names == UNION {{st.tab} \cup (IF "new" \in DOMAIN st THEN {st.new} ELSE {}) :
                        st \in {job[c][i] : i \in DOMAIN job[c]}}
    IN  \/ \E k \in txn[c].since \cap {e \in Catalog : e[2] \in names} :
               k \notin Written(txn[c]) \/ db[k] = Absent
        \/ Is(c, {"primaryKey", "columnType", "createIndex"}) /\ txn[c].since \cap RowKey # {}

\* Schema changes are not lost and not applied twice: a job that commits leaves the
\* catalog as if all of it had run at the moment of its commit, however it overlapped
\* other changes of the same tables, unless it is Skewed (the conflict check of Commit on
\* the catalog keys, and the retry of Execute, which reads the catalog anew).
ChangesSerialize ==
    [][\A c \in Client :
          ph[c] = "commit" /\ clock' # clock /\ ph'[c] = "idle" /\ ~Skewed(c)
                  /\ ~Is(c, {"insert", "createTableAs"}) =>
              LET s == RunAll(State(c), job[c])
              IN  /\ s.ok
                  /\ \A t \in Table :
                        /\ Shape(db'[Sch(t)]) = Shape(Get(s, Sch(t)))
                        /\ \A e \in {Index(t), View(t), Sequence(t), Type(t)} : db'[e] = Get(s, e)]_vars
=============================================================================
