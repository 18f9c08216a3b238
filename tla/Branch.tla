------------------------------- MODULE Branch -------------------------------
(***************************************************************************)
(* Feature branches: copy-on-write reads and row writes on a session's     *)
(* branch (executor/scan.go, dml.go), and CREATE, MERGE and DROP BRANCH    *)
(* (branch/branch.go, merge.go).  A branch command runs several            *)
(* transactions of its own, never the session's; each is a step, so that   *)
(* other clients come between them.  Rows are named by the key bytes after *)
(* the table prefix, which are the same on every branch.                   *)
(***************************************************************************)
EXTENDS Naturals

CONSTANTS
    Client, Absent, Keep,
    Main,      \* the branch "main"
    Feature,   \* the other branch names
    Row,       \* rows, by the key tail that all branches share
    Val,       \* what a live row holds
    Tomb,      \* storage.Tombstone(), which hides the parent's row
    MaxBegins  \* bound on the transactions and commands of all clients; SET stops with it

ASSUME BranchAssumption ==
    /\ Main \notin Feature
    /\ Tomb \notin Val /\ Absent \notin Val \cup {Tomb}
    /\ Keep \notin Val \cup Feature \cup {Main, Tomb, Absent}
    /\ "meta" \notin Row

AllBranch == Feature \cup {Main}

RowKey(b, r) == <<b, r>>
MetaKey(b) == <<b, "meta">>
Key == (AllBranch \X Row) \cup (Feature \X {"meta"})

VARIABLES
    db, txn,
    pkless,   \* the rows of tables without a primary key, which never changes
    branch,   \* session.Branch() of each client
    op,       \* idle, in a transaction, or the next step of a command and its arguments
    begun,    \* transactions and commands started so far
    moved     \* clients whose branch, or the one they merge, was made or dropped since
              \* BEGIN, or its parent was

vars == <<db, txn, pkless, branch, op, begun, moved>>

INSTANCE KVTxn

Idle == <<"idle">>
Tx == <<"tx">>

-----------------------------------------------------------------------------
(* Reading a branch.                                                       *)

\* MetaFor runs in a transaction of its own: it sees what is committed now.
Parent(b) ==
    IF b = Main \/ db[MetaKey(b)] = Absent THEN Main ELSE db[MetaKey(b)]

\* Variant: rows fallen through to are read as they are now.
FoundNow(t, b, r) ==
    LET own == Read(t, RowKey(b, r))
    IN  IF own # Absent \/ b = Main THEN own ELSE db[RowKey(Parent(b), r)]

\* scanTable: a key of the branch, live or tombstone, hides the parent's; the
\* parent's own parent is not consulted.
Found(t, b, r) ==
    LET own == Read(t, RowKey(b, r))
    IN  IF own # Absent \/ b = Main THEN own ELSE Read(t, RowKey(Parent(b), r))

Visible(t, b, r) == Found(t, b, r) \in Val

\* The rows a session sees and what they hold.
Shown(t, b) == [r \in Row |-> IF Visible(t, b, r) THEN Found(t, b, r) ELSE Absent]

\* Variant: the key the row was found under, whatever the table.
WriteKeyFound(t, b, r) ==
    IF Read(t, RowKey(b, r)) = Absent THEN RowKey(Parent(b), r) ELSE RowKey(b, r)

\* branchRowKey: computed from the primary key on the session's branch; the key
\* the row was found under when the table has none.
WriteKey(t, b, r) ==
    IF r \in pkless /\ Read(t, RowKey(b, r)) = Absent THEN RowKey(Parent(b), r)
    ELSE RowKey(b, r)

One(k, v) == [j \in Key |-> IF j = k THEN v ELSE Keep]

-----------------------------------------------------------------------------
(* Sessions and row writes.                                                *)

Start(c, what) ==
    /\ op[c] = Idle
    /\ begun < MaxBegins
    /\ begun' = begun + 1
    /\ op' = [op EXCEPT ![c] = what]

\* SET branch = b: refused inside a transaction; the branch need not exist.
SetBranch(c, b) ==
    /\ op[c] = Idle
    /\ begun < MaxBegins
    /\ branch[c] # b
    /\ branch' = [branch EXCEPT ![c] = b]
    /\ UNCHANGED <<pkless, db, txn, op, begun, moved>>

Begin(c) ==
    /\ Start(c, Tx)
    /\ txn' = [txn EXCEPT ![c] = Fresh]
    /\ moved' = moved \ {c}
    /\ UNCHANGED <<pkless, db, branch>>

Write(c, k, v) ==
    /\ op[c] = Tx
    /\ txn' = [txn EXCEPT ![c] = Buffered(@, One(k, v))]
    /\ UNCHANGED <<pkless, db, branch, op, begun, moved>>

\* The key of a new row in a table without primary key is the read timestamp of its
\* transaction, later than those of all the rows its snapshot has; transactions with
\* one snapshot share it.
NewTail(c, r) == \A b \in AllBranch : txn[c].snap[RowKey(b, r)] = Absent

\* INSERT: a duplicate is a key on the session's own branch; a tombstone is one.
Insert(c, r, v) ==
    /\ Read(txn[c], RowKey(branch[c], r)) = Absent
    /\ r \in pkless => NewTail(c, r)
    /\ Write(c, RowKey(branch[c], r), v)

UpdateRow(c, r, v) ==
    /\ Visible(txn[c], branch[c], r)
    /\ Write(c, WriteKey(txn[c], branch[c], r), v)

\* DELETE removes the key on main and writes a tombstone on a feature branch.
Delete(c, r) ==
    /\ Visible(txn[c], branch[c], r)
    /\ Write(c, WriteKey(txn[c], branch[c], r),
             IF branch[c] = Main THEN Absent ELSE Tomb)

Finish(c) ==
    /\ op' = [op EXCEPT ![c] = Idle]
    /\ UNCHANGED <<pkless, branch, begun>>

\* The branch whose rows a client reads: the one it merges, or its session's.
Reading(d) == IF op[d][1] \in {"mergeScan", "mergeCommit"} THEN op[d][2] ELSE branch[d]

\* Clients whose rows a change to branch b moves under their feet.
On(b) == {d \in Client : Reading(d) # Main /\ b \in {Reading(d), Parent(Reading(d))}}

\* A conflict is an error: 40001 for rows, XX000 for the branch commands.
CommitTxn(c) ==
    /\ \/ /\ ~Conflict(txn[c])
          /\ db' = Install(txn[c])
          /\ txn' = AfterCommit(c)
          /\ moved' = moved \cup UNION {On(b) : b \in {f \in Feature :
                                             MetaKey(f) \in Written(txn[c])}}
       \/ /\ Conflict(txn[c])
          /\ txn' = Ended(c)
          /\ UNCHANGED <<db, moved>>
    /\ Finish(c)

Commit(c) == op[c] = Tx /\ CommitTxn(c)

Rollback(c) ==
    /\ op[c] = Tx
    /\ txn' = Ended(c)
    /\ UNCHANGED <<db, moved>>
    /\ Finish(c)

-----------------------------------------------------------------------------
(* Branch commands.  The first transaction of each is Exists.              *)

Exists(b) == db[MetaKey(b)] # Absent

Call(c, what) == Start(c, what) /\ UNCHANGED <<pkless, db, txn, branch, moved>>

Step(c, next, t) ==
    /\ op' = [op EXCEPT ![c] = next]
    /\ txn' = [txn EXCEPT ![c] = t]
    /\ UNCHANGED <<pkless, db, branch, begun, moved>>

\* FROM defaults to main; that the parent exists is not checked.
Create(c, b, p) == ~Exists(b) /\ Call(c, <<"create", b, p>>)

CreateBegin(c) ==
    /\ op[c][1] = "create"
    /\ Step(c, <<"createCommit">>,
            Buffered(Fresh, One(MetaKey(op[c][2]), op[c][3])))

CreateCommit(c) == op[c] = <<"createCommit">> /\ CommitTxn(c)

Merge(c, b) == Exists(b) /\ Call(c, <<"merge", b>>)

MergeBegin(c) ==
    /\ op[c][1] = "merge"
    /\ op' = [op EXCEPT ![c] = <<"mergeScan", op[c][2]>>]
    /\ txn' = [txn EXCEPT ![c] = Fresh]
    /\ moved' = moved \ {c}
    /\ UNCHANGED <<pkless, db, branch, begun>>

\* Variant: the deletes of the branch are not merged.
MergeOpsLive(t, b, p) ==
    [k \in Key |->
        IF k \in {RowKey(p, r) : r \in Row} /\ Read(t, RowKey(b, k[2])) \in Val
        THEN Read(t, RowKey(b, k[2])) ELSE Keep]

\* What Merge writes into the parent p: every live row, and a physical delete for
\* a tombstone when the parent has the key.
MergeOps(t, b, p) ==
    [k \in Key |->
        IF k \notin {RowKey(p, r) : r \in Row} THEN Keep
        ELSE LET own == Read(t, RowKey(b, k[2]))
             IN  IF own = Absent \/ (own = Tomb /\ Read(t, k) = Absent) THEN Keep
                 ELSE IF own = Tomb THEN Absent ELSE own]

\* metaOf runs after Begin in its own transaction; the branch may be gone by then.
MergeScan(c) ==
    /\ op[c][1] = "mergeScan"
    /\ LET b == op[c][2]
       IN  \/ /\ Exists(b)
              /\ Step(c, <<"mergeCommit", b, db[MetaKey(b)]>>,
                      Buffered(txn[c], MergeOps(txn[c], b, db[MetaKey(b)])))
           \/ ~Exists(b) /\ Step(c, Idle, NoTxn)

MergeCommit(c) == op[c][1] = "mergeCommit" /\ CommitTxn(c)

Drop(c, b) == Exists(b) /\ Call(c, <<"drop", b>>)

\* badger DropPrefix removes every version of the branch's rows at once, from the
\* snapshots of open transactions too.
DropPrefix(c) ==
    /\ op[c][1] = "drop"
    /\ LET b == op[c][2]
           gone == {RowKey(b, r) : r \in Row}
           Without(f) == [k \in Key |-> IF k \in gone THEN Absent ELSE f[k]]
       IN  /\ op' = [op EXCEPT ![c] = <<"dropBegin", b>>]
           /\ db' = Without(db)
           /\ txn' = [d \in Client |-> [txn[d] EXCEPT !.snap = Without(@), !.since = @ \ gone]]
           /\ moved' = moved \cup On(b)
    /\ UNCHANGED <<pkless, branch, begun>>

DropBegin(c) ==
    /\ op[c][1] = "dropBegin"
    /\ Step(c, <<"dropCommit">>, Buffered(Fresh, One(MetaKey(op[c][2]), Absent)))

DropCommit(c) == op[c] = <<"dropCommit">> /\ CommitTxn(c)

\* The process stops and starts again: only what is committed remains.
Crash ==
    /\ \E c \in Client : op[c] # Idle
    /\ txn' = [c \in Client |-> NoTxn]
    /\ op' = [c \in Client |-> Idle]
    /\ branch' = [c \in Client |-> Main]
    /\ moved' = {}
    /\ UNCHANGED <<pkless, db, begun>>

\* Any rows on main, and any set of branches of main without rows of their own.
Init ==
    /\ pkless \in SUBSET Row
    /\ \E rows \in [Row -> Val \cup {Absent}], made \in SUBSET Feature :
          KVInit([k \in Key |-> IF k[2] # "meta"
                                THEN IF k[1] = Main THEN rows[k[2]] ELSE Absent
                                ELSE IF k[1] \in made THEN Main ELSE Absent])
    /\ branch = [c \in Client |-> Main]
    /\ op = [c \in Client |-> Idle]
    /\ begun = 0
    /\ moved = {}

Next ==
    \/ \E c \in Client :
          \/ \E b \in AllBranch : SetBranch(c, b)
          \/ Begin(c) \/ Commit(c) \/ Rollback(c)
          \/ \E r \in Row, v \in Val : Insert(c, r, v) \/ UpdateRow(c, r, v)
          \/ \E r \in Row : Delete(c, r)
          \/ \E b \in Feature, p \in AllBranch : Create(c, b, p)
          \/ \E b \in Feature : Merge(c, b) \/ Drop(c, b)
          \/ CreateBegin(c) \/ CreateCommit(c)
          \/ MergeBegin(c) \/ MergeScan(c) \/ MergeCommit(c)
          \/ DropPrefix(c) \/ DropBegin(c) \/ DropCommit(c)
    \/ Crash

Spec == Init /\ [][Next]_vars

-----------------------------------------------------------------------------
\* A transaction on a branch commits to that branch only: no row of a table with a
\* primary key changes anywhere else (branchRowKey in dml.go).
WritesStayOnBranch ==
    [][\A c \in Client : Commit(c) =>
          \A b \in AllBranch \ {branch[c]}, r \in Row \ pkless :
              db'[RowKey(b, r)] = db[RowKey(b, r)]]_vars

\* A merge gives the parent what a session on the branch saw when the merge began:
\* for every row that no transaction has committed to in the parent since, what
\* scanTable showed through the branch, deletes included; and it overwrites none of
\* the live rows committed there meanwhile (merge.go Merge against scan.go scanTable).
\* A branch or parent that is made or dropped during the merge is left out: then the
\* rows are removed under the merge's snapshot.
MergeShowsBranch ==
    [][\A c \in Client : MergeCommit(c) /\ ~Conflict(txn[c]) /\ c \notin moved =>
          LET seen == Shown([txn[c] EXCEPT !.buf = NoWrites], op[c][2])
          IN  \A r \in Row :
                 LET k == RowKey(op[c][3], r)
                 IN  IF k \in txn[c].since THEN db[k] # Absent => db'[k] = db[k]
                     ELSE (IF db'[k] \in Val THEN db'[k] ELSE Absent) = seen[r]]_vars

\* A transaction that writes nothing sees the same rows at each of its reads, as
\* long as neither its branch nor the parent is made or dropped meanwhile (scanTable
\* reads the parent's name in a newer transaction than its rows).
BranchReadsRepeat ==
    [][\A c \in Client :
          op[c] = Tx /\ op'[c] = Tx /\ txn'[c].buf = txn[c].buf /\ c \notin moved' =>
              Shown(txn[c], branch[c])' = Shown(txn[c], branch[c])]_vars
=============================================================================
