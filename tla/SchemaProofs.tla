---------------------------- MODULE SchemaProofs ----------------------------
(***************************************************************************)
(* The proof that committed rows fit the catalog, for any numbers of       *)
(* tables, rows, sessions and retries, and for any blocks of statements.   *)
(* The invariant says of the transaction of every session what it shows    *)
(* and what it has written, statement by statement (Good).                 *)
(***************************************************************************)
EXTENDS Schema, WellFoundedInduction, TLAPS

-----------------------------------------------------------------------------
(* The inductive invariant.                                                *)

\* The table new still has the columns of old where they were.
Extends(old, new) ==
    /\ new # Absent
    /\ new.inc = old.inc
    /\ Len(old.cols) <= Len(new.cols)
    /\ \A i \in 1..Len(old.cols) : new.cols[i].id = old.cols[i].id
    /\ new.pk = "declared" => old.pk = "declared"
    /\ new.pk = "none" => old.pk = "none"

\* The row v at k will be marked at commit, after statements 1 to n of the job j in t.
Exempt(t, b, j, n, k, v) ==
    /\ t.buf[Sch(k[3])] # Keep
    /\ \/ Several(j, n, b)
       \/ Names(j, n, {"renameTable"}, k[3]) /\ k[4] # <<"pk", v.id>>

\* The rows that t has written, and those of its branch b, fit the tables it shows.
Seen(t, b, j, n) ==
    \A k \in RowKey :
        /\ t.buf[k] # Keep \/ k[2] = b
        /\ Plain(Read(t, k))
        /\ ~Exempt(t, b, j, n, k, Read(t, k))
        => Fits(Read(t, k), Read(t, Sch(k[3])), k)

\* A table that no statement has rewritten was at most extended, and t has left its
\* rows on other branches alone.
Extended(t, j, n) ==
    \A x \in Table : ~Names(j, n, Rewriting, x) /\ t.snap[Sch(x)] # Absent =>
        Extends(t.snap[Sch(x)], Read(t, Sch(x)))

Elsewhere(t, b, j, n) ==
    \A k \in RowKey : k[2] # b /\ (b = Main \/ ~Names(j, n, Rewriting, k[3])) => t.buf[k] = Keep

Shown(t) ==
    /\ \A x \in Table : Read(t, Sch(x)) \in Entry \cup {Absent}
    /\ \A k \in RowKey : Read(t, k) \in Stored \cup {Absent, Tombstone}

IsTxn(t) ==
    /\ t = [open |-> TRUE, snap |-> t.snap, buf |-> t.buf, since |-> t.since]
    /\ t.buf = [k \in Key |-> t.buf[k]]

Good(t, b, j, n) ==
    /\ IsTxn(t) /\ Right(t.snap) /\ Shown(t)
    /\ Seen(t, b, j, n) /\ Extended(t, j, n) /\ Elsewhere(t, b, j, n)

\* What the database f has of the snapshot of t: all that was not committed since, up to
\* the marks of rows.
Marks(v) == IF v \in Stored THEN [v EXCEPT !.odd = TRUE] ELSE v

Since(t, f) ==
    \A k \in Key \ t.since : f[k] = t.snap[k] \/ (k \in RowKey /\ f[k] = Marks(t.snap[k]))

Jobs == {j \in Seq(Statement) : \A i \in 1..Len(j) : j[i].op = "createTableAs" => Len(j) = 1}

Picked == [cols : Seq(STRING), last : Ids \cup {None}]

Session(c) ==
    /\ branch[c] \in Branch /\ job[c] \in Jobs /\ picked[c] \in Picked \cup {None}
    /\ IF ph[c] = "commit"
       THEN Good(txn[c], branch[c], job[c], Len(job[c])) /\ Since(txn[c], db)
       ELSE txn[c] = NoTxn

PerClient ==
    /\ DOMAIN txn = Client /\ DOMAIN branch = Client /\ DOMAIN ph = Client
    /\ DOMAIN job = Client /\ DOMAIN picked = Client

SchemaInv ==
    /\ PerClient /\ Right(db) /\ clock \in Nat /\ menu \in DOMAIN Menus
    /\ \A c \in Client : Session(c)

-----------------------------------------------------------------------------
(* Keys, entries and rows.                                                 *)

LEMMA KeyOf ==
    /\ \A k \in RowKey : /\ k \in Key /\ k[2] \in Branch /\ k[3] \in Table /\ k[4] \in KeyTail
                         /\ k = Row(k[2], k[3], k[4])
    /\ \A b \in Branch, x \in Table, p \in KeyTail :
           /\ Row(b, x, p) \in RowKey
           /\ Row(b, x, p)[2] = b /\ Row(b, x, p)[3] = x /\ Row(b, x, p)[4] = p
    /\ \A x \in Table : Sch(x) \in Key /\ Sch(x) \notin RowKey
    /\ \A x, y \in Table : Sch(x) = Sch(y) => x = y
<1>1. \A b, x, p : Row(b, x, p)[2] = b /\ Row(b, x, p)[3] = x /\ Row(b, x, p)[4] = p
    BY DEF Row
<1>2. \A k : k \in RowKey <=> \E b \in Branch, x \in Table, p \in KeyTail : k = Row(b, x, p)
    <2> DEFINE All == {RowsOf(b, x) : b \in Branch, x \in Table}
    <2>1. \A S : S \in All <=> \E b \in Branch, x \in Table : S = RowsOf(b, x)
        OBVIOUS
    <2>2. RowKey = UNION All
        BY DEF RowKey
    <2> HIDE DEF All
    <2>3. \A k : k \in RowKey <=> \E S \in All : k \in S
        BY <2>2, Zenon
    <2>4. ASSUME NEW k \in RowKey
          PROVE  \E b \in Branch, x \in Table, p \in KeyTail : k = Row(b, x, p)
        <3>1. PICK S \in All : k \in S
            BY <2>3, Zenon
        <3>2. PICK b \in Branch, x \in Table : S = RowsOf(b, x)
            BY <2>1, <3>1, Zenon
        <3>3. PICK p \in KeyTail : k = Row(b, x, p)
            <4>1. k \in RowsOf(b, x)
                BY <3>1, <3>2, Zenon
            <4> QED BY <4>1, Zenon DEF RowsOf
        <3> QED BY <3>3, Zenon
    <2>5. ASSUME NEW b \in Branch, NEW x \in Table, NEW p \in KeyTail
          PROVE  Row(b, x, p) \in RowKey
        <3>1. RowsOf(b, x) \in All
            BY <2>1, Zenon
        <3>2. Row(b, x, p) \in RowsOf(b, x)
            BY Zenon DEF RowsOf
        <3> QED BY <2>3, <3>1, <3>2, Zenon
    <2> QED BY <2>4, <2>5, Zenon
<1>3. \A x, b, y, p : Sch(x) # Row(b, y, p)
    BY DEF Sch, Row
<1>4. \A x, y \in Table : Sch(x) = Sch(y) => x = y
    BY DEF Sch
<1>5. \A x \in Table : Sch(x) \in Key
    BY DEF Key, Catalog
<1>6. \A k \in RowKey : k \in Key
    BY Zenon DEF Key
<1>7. ASSUME NEW k \in RowKey
      PROVE  k \in Key /\ k[2] \in Branch /\ k[3] \in Table /\ k[4] \in KeyTail /\ k = Row(k[2], k[3], k[4])
    <2>1. PICK b \in Branch, x \in Table, p \in KeyTail : k = Row(b, x, p)
        BY <1>2, Zenon
    <2>2. k[2] = b /\ k[3] = x /\ k[4] = p
        BY <2>1, <1>1
    <2> QED BY <2>1, <2>2, <1>6, Zenon
<1>8. \A x \in Table : Sch(x) \notin RowKey
    BY <1>2, <1>3
<1>9. \A b \in Branch, x \in Table, p \in KeyTail : Row(b, x, p) \in RowKey
    BY <1>2, Zenon
<1> QED BY <1>1, <1>4, <1>5, <1>7, <1>8, <1>9

LEMMA RowsOfIs ==
    ASSUME NEW b \in Branch, NEW x \in Table
    PROVE  \A k : k \in RowsOf(b, x) <=> k \in RowKey /\ k[2] = b /\ k[3] = x
<1>1. ASSUME NEW k \in RowsOf(b, x) PROVE k \in RowKey /\ k[2] = b /\ k[3] = x
    BY KeyOf DEF RowsOf
<1>2. ASSUME NEW k \in RowKey, k[2] = b, k[3] = x PROVE k \in RowsOf(b, x)
    <2>1. k = Row(b, x, k[4]) /\ k[4] \in KeyTail
        BY <1>2, KeyOf, Zenon
    <2> QED BY <2>1, Zenon DEF RowsOf
<1> QED BY <1>1, <1>2, Zenon

\* Catalog entries other than those of tables.
LEMMA OtherKeys ==
    ASSUME NEW x
    PROVE  \A k \in {Index(x), View(x), Sequence(x), Type(x)} : k \notin RowKey /\ \A y : k # Sch(y)
<1>1. \A b, y, p : \A k \in {Index(x), View(x), Sequence(x), Type(x)} : k # Row(b, y, p) /\ k # Sch(y)
    BY DEF Index, View, Sequence, Type, Sch, Row
<1> QED BY <1>1, KeyOf

LEMMA Markers ==
    /\ Absent # Keep /\ Absent # Tombstone /\ Keep # Tombstone
    /\ \A e \in Entry : e # Absent /\ e # Keep
    /\ \A v \in Stored : v # Absent /\ v # Keep /\ v # Tombstone
BY MarkersAssumption, Zenon

LEMMA FitsExtended ==
    ASSUME NEW v \in Stored, NEW old \in Entry, NEW new \in Entry, NEW k,
           Fits(v, old, k), Extends(old, new)
    PROVE  Fits(v, new, k)
<1>1. v.cells \in Seq(Cell) /\ old.cols \in Seq(ColumnDef) /\ new.cols \in Seq(ColumnDef)
    BY DEF Stored, Entry
<1>2. Len(v.cells) <= Len(new.cols) /\ \A i \in DOMAIN v.cells : i \in 1..Len(old.cols)
    BY <1>1 DEF Fits, Extends
<1>3. \A i \in DOMAIN v.cells : v.cells[i] \in {Null, new.cols[i].id}
    BY <1>2, Zenon DEF Fits, Extends
<1> QED BY <1>2, <1>3, Zenon DEF Fits, Extends

LEMMA ExtendsSelf ==
    ASSUME NEW e \in Entry
    PROVE  Extends(e, e)
<1>1. e.cols \in Seq(ColumnDef)
    BY DEF Entry
<1> QED BY <1>1, Markers DEF Extends

LEMMA ExtendsOn ==
    ASSUME NEW e \in Entry, NEW f \in Entry, NEW g \in Entry, Extends(e, f), Extends(f, g)
    PROVE  Extends(e, g)
<1>1. Len(e.cols) \in Nat /\ Len(f.cols) \in Nat /\ Len(g.cols) \in Nat
    BY DEF Entry
<1>2. Len(e.cols) <= Len(g.cols) /\ \A i \in 1..Len(e.cols) : i \in 1..Len(f.cols)
    BY <1>1 DEF Extends
<1>3. \A i \in 1..Len(e.cols) : g.cols[i].id = e.cols[i].id
    BY <1>2 DEF Extends
<1> QED BY <1>2, <1>3, Zenon DEF Extends

LEMMA RowKeyParts ==
    ASSUME NEW k \in RowKey
    PROVE  /\ k \in Key /\ k[2] \in Branch /\ k[3] \in Table /\ k[4] \in KeyTail
           /\ Sch(k[3]) \in Key /\ Sch(k[3]) \notin RowKey
BY KeyOf, Zenon

LEMMA SchIs ==
    ASSUME NEW x \in Table
    PROVE  /\ Sch(x) \in Key /\ Sch(x) \notin RowKey
           /\ \A y \in Table : Sch(x) = Sch(y) => x = y
BY KeyOf, Zenon

-----------------------------------------------------------------------------
(* Writes of a transaction.                                                *)

\* u is t after the writes w.
Changed(t, u, w) ==
    /\ IsTxn(u) /\ u.snap = t.snap /\ u.since = t.since
    /\ \A k \in Key : u.buf[k] = IF k \in DOMAIN w THEN w[k] ELSE t.buf[k]

LEMMA ChangedNot ==
    ASSUME NEW t, NEW u, NEW w, Changed(t, u, w), NEW k \in Key, k \notin DOMAIN w
    PROVE  u.buf[k] = t.buf[k] /\ Read(u, k) = Read(t, k)
BY Zenon DEF Changed, Read

LEMMA OneIs ==
    ASSUME NEW k, NEW v
    PROVE  DOMAIN One(k, v) = {k} /\ One(k, v)[k] = v
BY Zenon DEF One

LEMMA OverDomain ==
    ASSUME NEW f, NEW g
    PROVE  DOMAIN Over(f, g) = DOMAIN f \cup DOMAIN g
BY Zenon DEF Over

LEMMA OverFirst ==
    ASSUME NEW f, NEW g, NEW k, k \in DOMAIN f
    PROVE  Over(f, g)[k] = f[k]
BY DEF Over

LEMMA OverSecond ==
    ASSUME NEW f, NEW g, NEW k, k \in DOMAIN g, k \notin DOMAIN f
    PROVE  Over(f, g)[k] = g[k]
BY DEF Over

LEMMA NothingIs == DOMAIN Nothing = {}
BY Zenon DEF Nothing

\* What a transaction shows of an entry that it has not rewritten is its snapshot,
\* extended.
LEMMA TableWritten ==
    ASSUME NEW t, NEW u, NEW b, NEW j, NEW n, NEW x \in Table, NEW new \in Entry,
           Good(t, b, j, n), Changed(t, u, One(Sch(x), new)),
           Read(t, Sch(x)) = Absent \/ Extends(Read(t, Sch(x)), new)
    PROVE  Good(u, b, j, n)
<1>0. PICK w : w = One(Sch(x), new)
    BY Zenon
<1>a. DOMAIN w = {Sch(x)} /\ Changed(t, u, w)
    BY <1>0, OneIs, Zenon
<1>c. w[Sch(x)] = new
    BY <1>0, OneIs, Zenon
<1>b. Sch(x) \in Key /\ Sch(x) \notin RowKey /\ \A y \in Table : Sch(x) = Sch(y) => x = y
    BY SchIs, Zenon
<1>1. ASSUME NEW k \in RowKey PROVE u.buf[k] = t.buf[k] /\ Read(u, k) = Read(t, k)
    <2>1. k \in Key /\ k \notin DOMAIN w
        BY <1>a, <1>b, RowKeyParts, Zenon
    <2> QED BY <2>1, <1>a, ChangedNot, Zenon
<1>2. ASSUME NEW y \in Table, y # x
      PROVE  u.buf[Sch(y)] = t.buf[Sch(y)] /\ Read(u, Sch(y)) = Read(t, Sch(y))
    <2>1. Sch(y) \in Key
        BY SchIs, Zenon
    <2>2. Sch(y) \notin DOMAIN w
        BY <1>2, <1>a, <1>b, Zenon
    <2> QED BY <2>1, <2>2, <1>a, ChangedNot, Zenon
<1>3. u.buf[Sch(x)] = new /\ u.buf[Sch(x)] # Keep /\ Read(u, Sch(x)) = new
    <2>1. new # Keep
        BY Markers, Zenon
    <2>2. Sch(x) \in DOMAIN w
        BY <1>a, Zenon
    <2>3. u.buf[Sch(x)] = w[Sch(x)] /\ (w[Sch(x)] # Keep => Read(u, Sch(x)) = w[Sch(x)])
        BY <2>2, <1>a, <1>b DEF Changed, Read
    <2> QED BY <2>1, <2>3, <1>c, Zenon
<1>4. IsTxn(u) /\ u.snap = t.snap /\ Right(u.snap)
    BY Zenon DEF Changed, Good
<1>5. Shown(u)
    <2>1. Shown(t)
        BY Zenon DEF Good
    <2> QED BY <2>1, <1>1, <1>2, <1>3, Zenon DEF Shown
<1>6. Seen(u, b, j, n)
    <2> SUFFICES ASSUME NEW k \in RowKey, u.buf[k] # Keep \/ k[2] = b, Plain(Read(u, k)),
                        ~Exempt(u, b, j, n, k, Read(u, k))
                 PROVE  Fits(Read(u, k), Read(u, Sch(k[3])), k)
        BY Zenon DEF Seen
    <2>1. k[3] \in Table
        BY RowKeyParts, Zenon
    <2>2. ~Exempt(t, b, j, n, k, Read(t, k))
        BY <1>1, <1>2, <1>3, <2>1, Zenon DEF Exempt
    <2>3. Fits(Read(t, k), Read(t, Sch(k[3])), k)
        BY <1>1, <2>2, Zenon DEF Good, Seen
    <2>4. CASE k[3] # x
        BY <2>1, <2>3, <2>4, <1>1, <1>2, Zenon
    <2>5. CASE k[3] = x
        <3>1. Read(t, Sch(x)) # Absent
            BY <2>3, <2>5, Zenon DEF Fits
        <3>2. Read(t, Sch(x)) \in Entry /\ Read(t, k) \in Stored
            <4>1. Plain(Read(t, k)) /\ Shown(t)
                BY <1>1, Zenon DEF Good
            <4> QED BY <4>1, <3>1, Zenon DEF Shown, Plain
        <3>3. Fits(Read(t, k), new, k)
            BY <3>1, <3>2, <2>3, <2>5, FitsExtended, Zenon
        <3> QED BY <3>3, <2>5, <1>1, <1>3, Zenon
    <2> QED BY <2>4, <2>5, Zenon
<1>7. Extended(u, j, n)
    <2> SUFFICES ASSUME NEW y \in Table, ~Names(j, n, Rewriting, y), t.snap[Sch(y)] # Absent
                 PROVE  Extends(t.snap[Sch(y)], Read(u, Sch(y)))
        BY <1>4, Zenon DEF Extended
    <2>1. Extends(t.snap[Sch(y)], Read(t, Sch(y)))
        BY Zenon DEF Good, Extended
    <2>2. CASE y # x
        BY <2>1, <2>2, <1>2, Zenon
    <2>3. CASE y = x
        <3>1. Read(t, Sch(x)) # Absent
            BY <2>1, <2>3, Zenon DEF Extends
        <3>2. Read(t, Sch(x)) \in Entry /\ t.snap[Sch(x)] \in Entry
            BY <3>1, <2>3, Zenon DEF Good, Shown, Right
        <3> QED BY <3>1, <3>2, <2>1, <2>3, <1>3, ExtendsOn, Zenon
    <2> QED BY <2>2, <2>3, Zenon
<1>8. Elsewhere(u, b, j, n)
    BY <1>1, Zenon DEF Good, Elsewhere
<1> QED BY <1>4, <1>5, <1>6, <1>7, <1>8, Zenon DEF Good

\* Writes that leave the entries of tables alone, and put rows that fit on the branch b.
Harmless(t, b, w) ==
    \A k \in DOMAIN w \cap Key :
        \/ k \notin RowKey /\ \A y \in Table : k # Sch(y)
        \/ /\ k \in RowKey /\ k[2] = b /\ w[k] \in Stored \cup {Absent, Tombstone}
           /\ Plain(w[k]) => Fits(w[k], Read(t, Sch(k[3])), k)

LEMMA RowsWritten ==
    ASSUME NEW t, NEW u, NEW b, NEW j, NEW n, NEW w,
           Good(t, b, j, n), Changed(t, u, w), Harmless(t, b, w)
    PROVE  Good(u, b, j, n)
<1>1. ASSUME NEW k \in RowKey, k \notin DOMAIN w PROVE u.buf[k] = t.buf[k] /\ Read(u, k) = Read(t, k)
    BY <1>1, ChangedNot, RowKeyParts, Zenon
<1>2. ASSUME NEW y \in Table
      PROVE  u.buf[Sch(y)] = t.buf[Sch(y)] /\ Read(u, Sch(y)) = Read(t, Sch(y))
    <2>1. Sch(y) \in Key /\ Sch(y) \notin DOMAIN w
        BY SchIs, Zenon DEF Harmless
    <2> QED BY <2>1, ChangedNot, Zenon
<1>3. ASSUME NEW k \in RowKey, k \in DOMAIN w
      PROVE  /\ k[2] = b /\ w[k] \in Stored \cup {Absent, Tombstone}
             /\ Plain(w[k]) => Fits(w[k], Read(t, Sch(k[3])), k)
             /\ Read(u, k) = w[k]
    <2>1. k \in Key
        BY RowKeyParts, Zenon
    <2>2. /\ k[2] = b /\ w[k] \in Stored \cup {Absent, Tombstone}
          /\ Plain(w[k]) => Fits(w[k], Read(t, Sch(k[3])), k)
        BY <2>1, <1>3, Zenon DEF Harmless
    <2>3. w[k] # Keep
        BY <2>2, Markers, Zenon
    <2> QED BY <2>1, <2>2, <2>3, <1>3 DEF Changed, Read
<1>4. IsTxn(u) /\ u.snap = t.snap /\ Right(u.snap)
    BY Zenon DEF Changed, Good
<1>5. Shown(u)
    <2>1. Shown(t)
        BY Zenon DEF Good
    <2>2. \A k \in RowKey : Read(u, k) \in Stored \cup {Absent, Tombstone}
        <3> TAKE k \in RowKey
        <3> QED BY <2>1, <1>1, <1>3, Zenon DEF Shown
    <2> QED BY <2>1, <2>2, <1>2, Zenon DEF Shown
<1>6. Seen(u, b, j, n)
    <2> SUFFICES ASSUME NEW k \in RowKey, u.buf[k] # Keep \/ k[2] = b, Plain(Read(u, k)),
                        ~Exempt(u, b, j, n, k, Read(u, k))
                 PROVE  Fits(Read(u, k), Read(u, Sch(k[3])), k)
        BY Zenon DEF Seen
    <2>1. k[3] \in Table
        BY RowKeyParts, Zenon
    <2>2. CASE k \in DOMAIN w
        BY <2>1, <2>2, <1>2, <1>3, Zenon
    <2>3. CASE k \notin DOMAIN w
        <3>1. ~Exempt(t, b, j, n, k, Read(t, k))
            BY <1>1, <1>2, <2>1, <2>3, Zenon DEF Exempt
        <3>2. Fits(Read(t, k), Read(t, Sch(k[3])), k)
            BY <1>1, <2>3, <3>1, Zenon DEF Good, Seen
        <3> QED BY <3>2, <1>1, <1>2, <2>1, <2>3, Zenon
    <2> QED BY <2>2, <2>3, Zenon
<1>7. Extended(u, j, n)
    BY <1>2, <1>4, Zenon DEF Good, Extended
<1>8. Elsewhere(u, b, j, n)
    BY <1>1, <1>3, Zenon DEF Good, Elsewhere
<1> QED BY <1>4, <1>5, <1>6, <1>7, <1>8, Zenon DEF Good

\* A statement that rewrites no rows may be counted or not.
LEMMA Shift ==
    ASSUME NEW t, NEW b, NEW j, NEW n \in Nat, Good(t, b, j, n)
    PROVE  Good(t, b, j, n + 1)
<1>1. \A i \in 1..n : i \in 1..(n + 1)
    OBVIOUS
<1>2. \A ops, x : Names(j, n, ops, x) => Names(j, n + 1, ops, x)
    BY <1>1, Zenon DEF Names
<1>3. Several(j, n, b) => Several(j, n + 1, b)
    BY <1>1, Zenon DEF Several
<1>4. \A k, v : Exempt(t, b, j, n, k, v) => Exempt(t, b, j, n + 1, k, v)
    BY <1>2, <1>3, Zenon DEF Exempt
<1>5. Seen(t, b, j, n + 1)
    BY <1>4, Zenon DEF Good, Seen
<1>6. Extended(t, j, n + 1)
    BY <1>2, Zenon DEF Good, Extended
<1>7. Elsewhere(t, b, j, n + 1)
    BY <1>2, Zenon DEF Good, Elsewhere
<1> QED BY <1>5, <1>6, <1>7, Zenon DEF Good

-----------------------------------------------------------------------------
(* Statements: a state s of the transaction and the next, r.               *)

IsState(s) == s = [ok |-> s.ok, t |-> s.t, br |-> s.br, now |-> s.now, picked |-> s.picked]

Kept(s, r) ==
    /\ IsState(r) /\ r.br = s.br /\ r.now = s.now /\ r.picked = s.picked
    /\ r.t.snap = s.t.snap /\ r.t.since = s.t.since

\* Statements 1 to n have been executed.
Ready(s, j, n) ==
    /\ IsState(s) /\ s.ok /\ s.br \in Branch /\ s.now \in Nat
    /\ s.picked \in Picked \cup {None}
    /\ Good(s.t, s.br, j, n)

Does(s, r, j, n) == Kept(s, r) /\ (r.ok => Good(r.t, r.br, j, n))

LEMMA ReadyDoes ==
    ASSUME NEW s, NEW r, NEW j, NEW n, Kept(s, r), Ready(r, j, n)
    PROVE  Does(s, r, j, n)
BY Zenon DEF Does, Ready

LEMMA StayDoes ==
    ASSUME NEW s, NEW j, NEW n, Ready(s, j, n)
    PROVE  Does(s, s, j, n) /\ Kept(s, s)
BY Zenon DEF Does, Ready, Kept

LEMMA FailDoes ==
    ASSUME NEW s, NEW j, NEW n, NEW m, Ready(s, j, n)
    PROVE  Does(s, Fail(s), j, m)
<1>1. IsState(s)
    BY Zenon DEF Ready
<1>2. PICK o, t, b, c, p : s = [ok |-> o, t |-> t, br |-> b, now |-> c, picked |-> p]
    BY <1>1, Zenon DEF IsState
<1>3. Fail(s) = [ok |-> FALSE, t |-> t, br |-> b, now |-> c, picked |-> p]
    <2>1. \A v : [s EXCEPT !.ok = v] = [ok |-> v, t |-> t, br |-> b, now |-> c, picked |-> p]
        BY <1>2
    <2> QED BY <2>1, Zenon DEF Fail
<1>4. s.t = t /\ s.br = b /\ s.now = c /\ s.picked = p
    BY <1>2
<1>5. PICK r : r = Fail(s)
    OBVIOUS
<1>6. r.ok = FALSE /\ r.t = t /\ r.br = b /\ r.now = c /\ r.picked = p
    BY <1>3, <1>5
<1>7. IsState(r)
    BY <1>3, <1>5, <1>6, Zenon DEF IsState
<1> QED BY <1>4, <1>5, <1>6, <1>7, Zenon DEF Does, Kept

LEMMA KeptOn ==
    ASSUME NEW s, NEW q, NEW r, Kept(s, q), Kept(q, r)
    PROVE  Kept(s, r)
BY Zenon DEF Kept

LEMMA DoesOn ==
    ASSUME NEW s, NEW q, NEW r, NEW j, NEW n, Kept(s, q), Does(q, r, j, n)
    PROVE  Does(s, r, j, n)
BY KeptOn, Zenon DEF Does

LEMMA PutIs ==
    ASSUME NEW s, NEW w, IsState(s), IsTxn(s.t)
    PROVE  Kept(s, Put(s, w)) /\ Put(s, w).ok = s.ok /\ Changed(s.t, Put(s, w).t, w)
<1>1. PICK o, t, b, c, p : s = [ok |-> o, t |-> t, br |-> b, now |-> c, picked |-> p]
    BY Zenon DEF IsState
<1>2. s.ok = o /\ s.t = t /\ s.br = b /\ s.now = c /\ s.picked = p
    BY <1>1
<1>a. PICK yes : yes = TRUE
    BY Zenon
<1>3. PICK sn, bf, si : t = [open |-> yes, snap |-> sn, buf |-> bf, since |-> si]
    <2>1. IsTxn(t)
        BY <1>2, Zenon
    <2>2. t = [open |-> yes, snap |-> t.snap, buf |-> t.buf, since |-> t.since]
        BY <2>1, <1>a, Zenon DEF IsTxn
    <2> QED BY <2>2, Zenon
<1>4. t.snap = sn /\ t.buf = bf /\ t.since = si
    BY <1>3
<1>5. PICK f : f = [k \in Key |-> IF k \in DOMAIN w THEN w[k] ELSE bf[k]]
    BY Zenon
<1>6. PICK u : u = [open |-> yes, snap |-> sn, buf |-> f, since |-> si]
    BY Zenon
<1>7. u.snap = sn /\ u.buf = f /\ u.since = si
    BY <1>6
<1>8. /\ f = [k \in Key |-> f[k]]
      /\ \A k \in Key : f[k] = IF k \in DOMAIN w THEN w[k] ELSE bf[k]
    BY <1>5, Zenon
<1>9. Changed(t, u, w)
    BY <1>a, <1>4, <1>6, <1>7, <1>8, Zenon DEF Changed, IsTxn
<1>10. Put(s, w) = [s EXCEPT !.t = [t EXCEPT !.buf = f]]
    <2>1. s.t.buf = bf
        BY <1>2, <1>4, Zenon
    <2> QED BY <1>1, <1>2, <1>5, <2>1, Zenon DEF Put
<1>11. [t EXCEPT !.buf = f] = u
    BY <1>3, <1>6
<1>12. PICK r : r = Put(s, w)
    BY Zenon
<1>13. r = [ok |-> o, t |-> u, br |-> b, now |-> c, picked |-> p]
    BY <1>1, <1>10, <1>11, <1>12
<1>14. r.ok = o /\ r.t = u /\ r.br = b /\ r.now = c /\ r.picked = p
    BY <1>13
<1>15. IsState(r)
    BY <1>13, <1>14, Zenon DEF IsState
<1>16. u.snap = t.snap /\ u.since = t.since
    BY <1>4, <1>7, Zenon
<1>17. Kept(s, r)
    BY <1>2, <1>14, <1>15, <1>16, Zenon DEF Kept
<1> QED BY <1>2, <1>9, <1>12, <1>14, <1>17, Zenon

LEMMA PutReady ==
    ASSUME NEW s, NEW w, NEW j, NEW n, Ready(s, j, n), Harmless(s.t, s.br, w)
    PROVE  Kept(s, Put(s, w)) /\ Ready(Put(s, w), j, n) /\ Changed(s.t, Put(s, w).t, w)
<1>1. Kept(s, Put(s, w)) /\ Put(s, w).ok = s.ok /\ Changed(s.t, Put(s, w).t, w)
    BY PutIs, Zenon DEF Ready, Good
<1>2. Good(Put(s, w).t, s.br, j, n)
    BY <1>1, RowsWritten, Zenon DEF Ready
<1> QED BY <1>1, <1>2, Zenon DEF Ready, Kept

LEMMA PersistReady ==
    ASSUME NEW s, NEW j, NEW n, NEW x \in Table, NEW new \in Entry, Ready(s, j, n),
           ~Has(s, Sch(x)) \/ Extends(Get(s, Sch(x)), new)
    PROVE  /\ Kept(s, Persist(s, x, new)) /\ Ready(Persist(s, x, new), j, n)
           /\ Changed(s.t, Persist(s, x, new).t, One(Sch(x), new))
<1>1. PICK w : w = One(Sch(x), new)
    BY Zenon
<1>2. Persist(s, x, new) = Put(s, w)
    BY <1>1, Zenon DEF Persist
<1>3. Kept(s, Put(s, w)) /\ Put(s, w).ok = s.ok /\ Changed(s.t, Put(s, w).t, w)
    BY PutIs, Zenon DEF Ready, Good
<1>4. Good(Put(s, w).t, s.br, j, n)
    BY <1>1, <1>3, TableWritten, Zenon DEF Ready, Has, Get
<1> QED BY <1>1, <1>2, <1>3, <1>4, Zenon DEF Ready, Kept

LEMMA SchemaOf ==
    ASSUME NEW s, NEW j, NEW n, NEW x \in Table, Ready(s, j, n), Has(s, Sch(x))
    PROVE  Get(s, Sch(x)) \in Entry
BY Zenon DEF Ready, Good, Shown, Has, Get

-----------------------------------------------------------------------------
(* Statements that extend the entry of a table, or write other entries.    *)

LEMMA NatLeast ==
    ASSUME NEW T \in SUBSET Nat, T # {}
    PROVE  \E x \in T : \A y \in T : x <= y
<1>1. IsWellFoundedOn(OpToRel(<, Nat), Nat)
    BY NatLessThanWellFounded, Zenon
<1>2. PICK x \in T : \A y \in T : ~(<<y, x>> \in OpToRel(<, Nat))
    BY <1>1, WFMin, Zenon
<1>3. \A y \in T : ~(y < x)
    BY <1>2, Zenon DEF OpToRel
<1> QED BY <1>3

LEMMA UpTo ==
    ASSUME NEW n \in Nat, NEW S, 0 \in S, \A i \in 1..n : i - 1 \in S => i \in S
    PROVE  0..n \subseteq S
<1> SUFFICES ASSUME {i \in 0..n : i \notin S} # {} PROVE FALSE
    BY Zenon
<1>1. PICK x \in {i \in 0..n : i \notin S} : \A y \in {i \in 0..n : i \notin S} : x <= y
    <2>1. {i \in 0..n : i \notin S} \in SUBSET Nat
        OBVIOUS
    <2> QED BY <2>1, NatLeast, Zenon
<1>2. x \in 1..n
    BY <1>1
<1>3. x - 1 \in 0..n /\ ~(x <= x - 1)
    BY <1>2
<1>4. x - 1 \in S
    BY <1>1, <1>3, Zenon
<1> QED BY <1>1, <1>2, <1>4, Zenon

LEMMA ColIndexIs ==
    ASSUME NEW sch \in Entry, NEW c, ColIndex(sch, c) # 0
    PROVE  ColIndex(sch, c) \in 1..Len(sch.cols)
<1> DEFINE named == {i \in 1..Len(sch.cols) : sch.cols[i].name = c}
<1>1. named # {} /\ named \subseteq 1..Len(sch.cols) /\ Len(sch.cols) \in Nat
    BY DEF ColIndex, Entry
<1>2. ColIndex(sch, c) = CHOOSE i \in named : \A m \in named : i <= m
    BY <1>1, Zenon DEF ColIndex
<1>3. named \in SUBSET Nat
    BY <1>1
<1> HIDE DEF named
<1>4. PICK i \in named : \A m \in named : i <= m
    BY <1>1, <1>3, NatLeast, Zenon
<1>5. ColIndex(sch, c) \in named
    BY <1>2, <1>4, Zenon
<1> QED BY <1>1, <1>5, Zenon

\* The next state extends the entry of x, if it is not s or an error.
Alters(s, r, x) ==
    \/ r = s \/ r = Fail(s)
    \/ /\ Has(s, Sch(x))
       /\ \E new \in Entry : Extends(Get(s, Sch(x)), new) /\ r = Persist(s, x, new)

LEMMA AltersDoes ==
    ASSUME NEW s, NEW r, NEW j, NEW n, NEW x \in Table, Ready(s, j, n), Alters(s, r, x)
    PROVE  Does(s, r, j, n)
<1>1. CASE r = s
    BY <1>1, StayDoes, Zenon
<1>2. CASE r = Fail(s)
    BY <1>2, FailDoes, Zenon
<1>3. ASSUME NEW new \in Entry, Extends(Get(s, Sch(x)), new), r = Persist(s, x, new)
      PROVE  Does(s, r, j, n)
    <2>1. Kept(s, r) /\ Ready(r, j, n)
        BY <1>3, PersistReady, Zenon
    <2> QED BY <2>1, ReadyDoes, Zenon
<1> QED BY <1>1, <1>2, <1>3, Zenon DEF Alters

\* The columns of e become cs.
LEMMA ColsExtended ==
    ASSUME NEW e \in Entry, NEW cs \in Seq(ColumnDef), Len(e.cols) <= Len(cs),
           \A i \in 1..Len(e.cols) : cs[i].id = e.cols[i].id
    PROVE  [e EXCEPT !.cols = cs] \in Entry /\ Extends(e, [e EXCEPT !.cols = cs])
<1>1. PICK new : new = [e EXCEPT !.cols = cs]
    BY Zenon
<1>2. new \in Entry /\ new.inc = e.inc /\ new.pk = e.pk /\ new.cols = cs
    BY <1>1, Zenon DEF Entry
<1>3. new # Absent
    BY <1>2, Markers, Zenon
<1> QED BY <1>1, <1>2, <1>3, Zenon DEF Extends

\* The column c becomes col.
LEMMA ColumnReplaced ==
    ASSUME NEW e \in Entry, NEW c \in 1..Len(e.cols), NEW col \in ColumnDef,
           col.id = e.cols[c].id, NEW cs, cs = [e.cols EXCEPT ![c] = col]
    PROVE  [e EXCEPT !.cols = cs] \in Entry /\ Extends(e, [e EXCEPT !.cols = cs])
<1>1. e.cols \in Seq(ColumnDef)
    BY DEF Entry
<1>2. /\ cs \in Seq(ColumnDef) /\ Len(e.cols) <= Len(cs)
      /\ \A i \in 1..Len(e.cols) : cs[i].id = e.cols[i].id
    BY <1>1
<1> QED BY <1>2, ColsExtended, Zenon

LEMMA ColumnOf ==
    ASSUME NEW e \in Entry, NEW c \in 1..Len(e.cols)
    PROVE  e.cols[c] \in ColumnDef
BY DEF Entry

LEMMA AddColumnDoes ==
    ASSUME NEW s, NEW j, NEW n, NEW st, Ready(s, j, n), st.tab \in Table, st.col \in STRING
    PROVE  Does(s, AddColumn(s, st), j, n)
<1>1. CASE ~Has(s, Sch(st.tab))
    BY <1>1, FailDoes, Zenon DEF AddColumn, OnSchema
<1>2. CASE Has(s, Sch(st.tab))
    <2>1. PICK e \in Entry : e = Get(s, Sch(st.tab))
        BY <1>2, SchemaOf, Zenon
    <2>2. PICK col : col = Column(s, st.col)
        BY Zenon
    <2>3. col \in ColumnDef
        BY <2>2 DEF Ready, Column, ColumnDef
    <2>4. PICK cs : cs = Append(e.cols, col)
        BY Zenon
    <2>5. e.cols \in Seq(ColumnDef)
        BY DEF Entry
    <2>6. /\ cs \in Seq(ColumnDef) /\ Len(e.cols) <= Len(cs)
          /\ \A i \in 1..Len(e.cols) : cs[i] = e.cols[i]
        BY <2>3, <2>4, <2>5
    <2>7. PICK new \in Entry : new = [e EXCEPT !.cols = cs] /\ Extends(e, new)
        BY <2>6, ColsExtended, Zenon
    <2>8. new = [e EXCEPT !.cols = Append(@, Column(s, st.col))]
        BY <2>2, <2>4, <2>7, Zenon
    <2>9. Alters(s, AddColumn(s, st), st.tab)
        BY <1>2, <2>1, <2>7, <2>8, Zenon DEF AddColumn, OnSchema, Alters
    <2> QED BY <2>9, AltersDoes, Zenon
<1> QED BY <1>1, <1>2, Zenon

\* A statement on the column named col of the table x: its entry e and position c.
Columns(s, x, col, e, c) ==
    /\ Has(s, Sch(x)) /\ e = Get(s, Sch(x)) /\ e \in Entry
    /\ c = ColIndex(e, col) /\ c # 0 /\ c \in 1..Len(e.cols)

LEMMA OnColumnIs ==
    ASSUME NEW s, NEW j, NEW n, NEW x \in Table, NEW col, Ready(s, j, n),
           Has(s, Sch(x)), ColIndex(Get(s, Sch(x)), col) # 0
    PROVE  \E e, c : Columns(s, x, col, e, c)
<1>1. PICK e \in Entry : e = Get(s, Sch(x))
    BY SchemaOf, Zenon
<1>2. ColIndex(e, col) \in 1..Len(e.cols)
    BY <1>1, ColIndexIs, Zenon
<1> QED BY <1>1, <1>2, Zenon DEF Columns

LEMMA RenameColumnDoes ==
    ASSUME NEW s, NEW j, NEW n, NEW st, Ready(s, j, n), st.tab \in Table, st.new \in STRING
    PROVE  Does(s, RenameColumn(s, st), j, n)
<1>1. CASE ~Has(s, Sch(st.tab)) \/ ColIndex(Get(s, Sch(st.tab)), st.col) = 0
    BY <1>1, FailDoes, Zenon DEF RenameColumn, OnColumn, OnSchema
<1>2. CASE Has(s, Sch(st.tab)) /\ ColIndex(Get(s, Sch(st.tab)), st.col) # 0
    <2>1. PICK e, c : Columns(s, st.tab, st.col, e, c)
        BY <1>2, OnColumnIs, Zenon
    <2>2. e \in Entry /\ c \in 1..Len(e.cols)
        BY <2>1, Zenon DEF Columns
    <2>3. PICK col : col = [e.cols[c] EXCEPT !.name = st.new]
        BY Zenon
    <2>4. col \in ColumnDef /\ col.id = e.cols[c].id
        BY <2>2, <2>3, ColumnOf DEF ColumnDef
    <2>5. PICK cs : cs = [e.cols EXCEPT ![c] = col]
        BY Zenon
    <2>6. PICK new \in Entry : new = [e EXCEPT !.cols = cs] /\ Extends(e, new)
        BY <2>2, <2>4, <2>5, ColumnReplaced, Zenon
    <2>7. new = [e EXCEPT !.cols[c].name = st.new]
        BY <2>3, <2>5, <2>6, Zenon
    <2>8. RenameColumn(s, st) = Persist(s, st.tab, new)
        BY <2>1, <2>7, Zenon DEF RenameColumn, OnColumn, OnSchema, Columns
    <2>9. Alters(s, RenameColumn(s, st), st.tab)
        BY <2>1, <2>6, <2>8, Zenon DEF Alters, Columns
    <2> QED BY <2>9, AltersDoes, Zenon
<1> QED BY <1>1, <1>2, Zenon

LEMMA AlterColumnDoes ==
    ASSUME NEW s, NEW j, NEW n, NEW st, Ready(s, j, n), st.tab \in Table, st.on \in BOOLEAN
    PROVE  Does(s, AlterColumn(s, st), j, n)
<1>1. CASE ~Has(s, Sch(st.tab)) \/ ColIndex(Get(s, Sch(st.tab)), st.col) = 0
    BY <1>1, FailDoes, Zenon DEF AlterColumn, OnColumn, OnSchema
<1>2. CASE Has(s, Sch(st.tab)) /\ ColIndex(Get(s, Sch(st.tab)), st.col) # 0
    <2>1. PICK e, c : Columns(s, st.tab, st.col, e, c)
        BY <1>2, OnColumnIs, Zenon
    <2>2. e \in Entry /\ c \in 1..Len(e.cols)
        BY <2>1, Zenon DEF Columns
    <2>3. PICK col : col = IF st.prop = "notnull" THEN [e.cols[c] EXCEPT !.notnull = st.on]
                           ELSE [e.cols[c] EXCEPT !.default = st.on]
        BY Zenon
    <2>4. col \in ColumnDef /\ col.id = e.cols[c].id
        <3>1. PICK old : old = e.cols[c]
            BY Zenon
        <3>2. old \in ColumnDef
            BY <2>2, <3>1, ColumnOf, Zenon
        <3>3. PICK on \in BOOLEAN : on = st.on
            BY Zenon
        <3>4. /\ [old EXCEPT !.notnull = on] \in ColumnDef /\ [old EXCEPT !.notnull = on].id = old.id
              /\ [old EXCEPT !.default = on] \in ColumnDef /\ [old EXCEPT !.default = on].id = old.id
            BY <3>2 DEF ColumnDef
        <3> QED BY <2>3, <3>1, <3>3, <3>4, Zenon
    <2>5. PICK cs : cs = [e.cols EXCEPT ![c] = col]
        BY Zenon
    <2>6. PICK new \in Entry : new = [e EXCEPT !.cols = cs] /\ Extends(e, new)
        BY <2>2, <2>4, <2>5, ColumnReplaced, Zenon
    <2>7. new = [e EXCEPT !.cols[c] = IF st.prop = "notnull" THEN [@ EXCEPT !.notnull = st.on]
                                      ELSE [@ EXCEPT !.default = st.on]]
        BY <2>3, <2>5, <2>6, Zenon
    <2>8. AlterColumn(s, st) = Persist(s, st.tab, new)
        BY <2>1, <2>7, Zenon DEF AlterColumn, OnColumn, OnSchema, Columns
    <2>9. Alters(s, AlterColumn(s, st), st.tab)
        BY <2>1, <2>6, <2>8, Zenon DEF Alters, Columns
    <2> QED BY <2>9, AltersDoes, Zenon
<1> QED BY <1>1, <1>2, Zenon

\* The entry changes in something that rows do not depend on.
LEMMA SideExtended ==
    ASSUME NEW e \in Entry, NEW new \in Entry,
           new.inc = e.inc, new.pk = e.pk, new.cols = e.cols
    PROVE  Extends(e, new)
<1>1. Len(e.cols) \in Nat
    BY DEF Entry
<1> QED BY <1>1, Markers DEF Extends

LEMMA AddCheckDoes ==
    ASSUME NEW s, NEW j, NEW n, NEW st, Ready(s, j, n), st.tab \in Table, st.col \in STRING
    PROVE  Does(s, AddCheck(s, st), j, n)
<1>1. CASE ~Has(s, Sch(st.tab)) \/ ColIndex(Get(s, Sch(st.tab)), st.col) = 0
    BY <1>1, FailDoes, Zenon DEF AddCheck, OnColumn, OnSchema
<1>2. CASE Has(s, Sch(st.tab)) /\ ColIndex(Get(s, Sch(st.tab)), st.col) # 0
    <2>1. PICK e, c : Columns(s, st.tab, st.col, e, c)
        BY <1>2, OnColumnIs, Zenon
    <2>2. PICK new : new = [e EXCEPT !.checks = @ \cup {st.col}]
        BY Zenon
    <2>3. e \in Entry
        BY <2>1, Zenon DEF Columns
    <2>4. new \in Entry /\ new.inc = e.inc /\ new.pk = e.pk /\ new.cols = e.cols
        BY <2>2, <2>3 DEF Entry
    <2>5. AddCheck(s, st) = Persist(s, st.tab, new)
        BY <2>1, <2>2, Zenon DEF AddCheck, OnColumn, OnSchema, Columns
    <2>6. Alters(s, AddCheck(s, st), st.tab)
        BY <2>1, <2>3, <2>4, <2>5, SideExtended, Zenon DEF Alters, Columns
    <2> QED BY <2>6, AltersDoes, Zenon
<1> QED BY <1>1, <1>2, Zenon

LEMMA AlterRLSDoes ==
    ASSUME NEW s, NEW j, NEW n, NEW st, Ready(s, j, n), st.tab \in Table, st.on \in BOOLEAN
    PROVE  Does(s, AlterRLS(s, st), j, n)
<1>1. CASE ~Has(s, Sch(st.tab))
    BY <1>1, FailDoes, Zenon DEF AlterRLS, OnSchema
<1>2. CASE Has(s, Sch(st.tab))
    <2>1. PICK e \in Entry : e = Get(s, Sch(st.tab))
        BY <1>2, SchemaOf, Zenon
    <2>2. PICK new : new = IF st.force THEN [e EXCEPT !.forced = st.on] ELSE [e EXCEPT !.rls = st.on]
        BY Zenon
    <2>3. new \in Entry /\ new.inc = e.inc /\ new.pk = e.pk /\ new.cols = e.cols
        <3>1. PICK on \in BOOLEAN : on = st.on
            BY Zenon
        <3>2. \A x \in {[e EXCEPT !.forced = on], [e EXCEPT !.rls = on]} :
                  x \in Entry /\ x.inc = e.inc /\ x.pk = e.pk /\ x.cols = e.cols
            BY DEF Entry
        <3> QED BY <2>2, <3>1, <3>2, Zenon
    <2>4. AlterRLS(s, st) = Persist(s, st.tab, new)
        BY <1>2, <2>1, <2>2, Zenon DEF AlterRLS, OnSchema
    <2>5. Alters(s, AlterRLS(s, st), st.tab)
        BY <1>2, <2>1, <2>3, <2>4, SideExtended, Zenon DEF Alters
    <2> QED BY <2>5, AltersDoes, Zenon
<1> QED BY <1>1, <1>2, Zenon

\* CREATE, ALTER and DROP POLICY: the policies become ps.
LEMMA PoliciesDo ==
    ASSUME NEW s, NEW r, NEW j, NEW n, NEW x \in Table, Ready(s, j, n), Has(s, Sch(x)),
           NEW ps \in SUBSET [name : STRING, using : STRING],
           r = Persist(s, x, [Get(s, Sch(x)) EXCEPT !.policies = ps])
    PROVE  Does(s, r, j, n)
<1>1. PICK e \in Entry : e = Get(s, Sch(x))
    BY SchemaOf, Zenon
<1>2. PICK new \in Entry : new = [e EXCEPT !.policies = ps] /\ Extends(e, new)
    <2>1. PICK new : new = [e EXCEPT !.policies = ps]
        BY Zenon
    <2>2. new \in Entry /\ new.inc = e.inc /\ new.pk = e.pk /\ new.cols = e.cols
        BY <2>1 DEF Entry
    <2> QED BY <2>1, <2>2, SideExtended, Zenon
<1>3. Alters(s, r, x)
    BY <1>1, <1>2, Zenon DEF Alters
<1> QED BY <1>3, AltersDoes, Zenon

LEMMA PolicyDoes ==
    ASSUME NEW s, NEW j, NEW n, NEW st, Ready(s, j, n), st.tab \in Table
    PROVE  /\ st.name \in STRING /\ st.using \in STRING => Does(s, CreatePolicy(s, st), j, n)
           /\ st.name \in STRING /\ st.using \in STRING => Does(s, AlterPolicy(s, st), j, n)
           /\ Does(s, DropPolicy(s, st), j, n)
<1>1. CASE ~Has(s, Sch(st.tab))
    BY <1>1, FailDoes, StayDoes, Zenon DEF CreatePolicy, AlterPolicy, DropPolicy, OnSchema
<1>2. CASE Has(s, Sch(st.tab))
    <2>1. PICK e \in Entry : e = Get(s, Sch(st.tab))
        BY <1>2, SchemaOf, Zenon
    <2>2. PICK All : All = [name : STRING, using : STRING]
        BY Zenon
    <2>3. PICK p : p = [name |-> st.name, using |-> st.using]
        BY Zenon
    <2>4. e.policies \in SUBSET All
        BY <2>2 DEF Entry
    <2>5. st.name \in STRING /\ st.using \in STRING => p \in All
        BY <2>2, <2>3
    <2>6. /\ e.policies \ Named(e, st.name) \in SUBSET All
          /\ p \in All => e.policies \cup {p} \in SUBSET All
          /\ p \in All => (e.policies \ Named(e, st.name)) \cup {p} \in SUBSET All
        BY <2>4, Zenon
    <2>7. ASSUME NEW ps \in SUBSET All
          PROVE  Does(s, Persist(s, st.tab, [e EXCEPT !.policies = ps]), j, n)
        BY <1>2, <2>1, <2>2, PoliciesDo, Zenon
    <2>8. \/ CreatePolicy(s, st) = Fail(s)
          \/ CreatePolicy(s, st) = Persist(s, st.tab, [e EXCEPT !.policies = e.policies \cup {p}])
        BY <1>2, <2>1, <2>3, Zenon DEF CreatePolicy, OnSchema
    <2>9. \/ AlterPolicy(s, st) = Fail(s)
          \/ AlterPolicy(s, st) =
                Persist(s, st.tab, [e EXCEPT !.policies = (e.policies \ Named(e, st.name)) \cup {p}])
        BY <1>2, <2>1, <2>3, Zenon DEF AlterPolicy, OnSchema
    <2>10. \/ DropPolicy(s, st) = Fail(s) \/ DropPolicy(s, st) = s
           \/ DropPolicy(s, st) = Persist(s, st.tab, [e EXCEPT !.policies = e.policies \ Named(e, st.name)])
        BY <1>2, <2>1, Zenon DEF DropPolicy, OnSchema
    <2>11. Does(s, Fail(s), j, n) /\ Does(s, s, j, n)
        BY FailDoes, StayDoes, Zenon
    <2> QED BY <2>5, <2>6, <2>7, <2>8, <2>9, <2>10, <2>11, Zenon
<1> QED BY <1>1, <1>2, Zenon

\* Entries other than those of tables: indexes, views, sequences and types.
LEMMA OtherDoes ==
    ASSUME NEW s, NEW j, NEW n, NEW x, NEW k \in {Index(x), View(x), Sequence(x), Type(x)}, NEW v,
           Ready(s, j, n)
    PROVE  Harmless(s.t, s.br, One(k, v)) /\ Does(s, Put(s, One(k, v)), j, n)
<1>1. Harmless(s.t, s.br, One(k, v))
    <2>1. DOMAIN One(k, v) = {k}
        BY OneIs, Zenon
    <2>2. k \notin RowKey /\ \A y : k # Sch(y)
        BY OtherKeys, Zenon
    <2> QED BY <2>1, <2>2, Zenon DEF Harmless
<1>2. Kept(s, Put(s, One(k, v))) /\ Ready(Put(s, One(k, v)), j, n)
    BY <1>1, PutReady, Zenon
<1> QED BY <1>1, <1>2, ReadyDoes, Zenon

LEMMA OtherStatementsDo ==
    ASSUME NEW s, NEW j, NEW n, NEW st, Ready(s, j, n)
    PROVE  /\ Does(s, CreateIndex(s, st), j, n)
           /\ Does(s, CreateView(s, st), j, n)
           /\ Does(s, CreateSequence(s, st), j, n)
           /\ Does(s, CreateType(s, st), j, n)
           /\ Does(s, DropEntry(s, st, View(st.tab)), j, n)
           /\ Does(s, DropEntry(s, st, Sequence(st.tab)), j, n)
<1>1. Does(s, s, j, n) /\ Does(s, Fail(s), j, n)
    BY StayDoes, FailDoes, Zenon
<1>2. \A x, v : /\ Does(s, Put(s, One(Index(x), v)), j, n)
                /\ Does(s, Put(s, One(View(x), v)), j, n)
                /\ Does(s, Put(s, One(Sequence(x), v)), j, n)
                /\ Does(s, Put(s, One(Type(x), v)), j, n)
    BY OtherDoes, Zenon
<1> QED BY <1>1, <1>2, Zenon
    DEF CreateIndex, CreateView, CreateSequence, CreateType, DropEntry, OnColumn, OnSchema

-----------------------------------------------------------------------------
(* New tables and rows.                                                    *)

LEMMA KeyAdded ==
    ASSUME NEW e \in Entry, NEW c \in 1..Len(e.cols), NEW new,
           new = [e EXCEPT !.pk = IF @ = "none" THEN "added" ELSE @, !.cols[c].notnull = TRUE]
    PROVE  new \in Entry /\ Extends(e, new)
<1>1. PICK yes \in BOOLEAN : yes = TRUE
    BY Zenon
<1>2. PICK col : col = [e.cols[c] EXCEPT !.notnull = yes]
    BY Zenon
<1>3. col \in ColumnDef /\ col.id = e.cols[c].id
    BY <1>2, ColumnOf DEF ColumnDef
<1>4. PICK cs : cs = [e.cols EXCEPT ![c] = col]
    BY Zenon
<1>5. e.cols \in Seq(ColumnDef)
    BY DEF Entry
<1>6. /\ cs \in Seq(ColumnDef) /\ Len(e.cols) <= Len(cs)
      /\ \A i \in 1..Len(e.cols) : cs[i].id = e.cols[i].id
    BY <1>3, <1>4, <1>5
<1>7. PICK pk : pk = IF e.pk = "none" THEN "added" ELSE e.pk
    BY Zenon
<1>8. pk \in {"none", "declared", "added"} /\ (pk = "declared" => e.pk = "declared") /\ pk # "none"
    BY <1>7 DEF Entry
<1>9. new = [[e EXCEPT !.pk = pk] EXCEPT !.cols = cs]
    <2>1. e = [e EXCEPT !.pk = e.pk]
        BY DEF Entry
    <2>2. [e EXCEPT !.pk = pk].cols = e.cols
        BY DEF Entry
    <2> QED BY <1>1, <1>2, <1>4, <1>7, <2>2, Zenon
<1>10. new \in Entry /\ new.inc = e.inc /\ new.pk = pk /\ new.cols = cs
    <2>1. PICK f : f = [e EXCEPT !.pk = pk]
        BY Zenon
    <2>2. f \in Entry /\ f.inc = e.inc /\ f.pk = pk
        BY <1>8, <2>1 DEF Entry
    <2>3. new = [f EXCEPT !.cols = cs]
        BY <1>9, <2>1, Zenon
    <2>4. new \in Entry /\ new.inc = f.inc /\ new.pk = f.pk /\ new.cols = cs
        <3>1. cs \in Seq(ColumnDef)
            BY <1>6, Zenon
        <3> QED BY <2>2, <2>3, <3>1, Zenon DEF Entry
    <2> QED BY <2>2, <2>4, Zenon
<1> QED BY <1>6, <1>8, <1>10, Markers, Zenon DEF Extends

LEMMA AddPrimaryKeyDoes ==
    ASSUME NEW s, NEW j, NEW n, NEW st, Ready(s, j, n), st.tab \in Table
    PROVE  Does(s, AddPrimaryKey(s, st), j, n)
<1>1. CASE ~Has(s, Sch(st.tab)) \/ ColIndex(Get(s, Sch(st.tab)), "k") = 0
    BY <1>1, FailDoes, Zenon DEF AddPrimaryKey, OnColumn, OnSchema
<1>2. CASE Has(s, Sch(st.tab)) /\ ColIndex(Get(s, Sch(st.tab)), "k") # 0
    <2>1. PICK e, c : Columns(s, st.tab, "k", e, c)
        BY <1>2, OnColumnIs, Zenon
    <2>2. e \in Entry /\ c \in 1..Len(e.cols)
        BY <2>1, Zenon DEF Columns
    <2>3. PICK new : new = [e EXCEPT !.pk = IF @ = "none" THEN "added" ELSE @, !.cols[c].notnull = TRUE]
        BY Zenon
    <2>4. new \in Entry /\ Extends(e, new)
        BY <2>2, <2>3, KeyAdded, Zenon
    <2>5. PICK w : w = One(Index(st.tab), Defs(s, st.tab) \cup {<<"pkey", "k">>})
        BY Zenon
    <2>6. PICK q : q = Put(s, w)
        BY Zenon
    <2>7. Kept(s, q) /\ Ready(q, j, n) /\ Changed(s.t, q.t, w)
        <3>1. Harmless(s.t, s.br, w)
            BY <2>5, OtherDoes, Zenon
        <3> QED BY <2>6, <3>1, PutReady, Zenon
    <2>8. Get(q, Sch(st.tab)) = e
        <3>1. DOMAIN w = {Index(st.tab)}
            BY <2>5, OneIs, Zenon
        <3>2. Index(st.tab) # Sch(st.tab)
            BY OtherKeys, Zenon
        <3>3. Sch(st.tab) \in Key /\ Sch(st.tab) \notin DOMAIN w
            BY <3>1, <3>2, SchIs, Zenon
        <3>4. Read(q.t, Sch(st.tab)) = Read(s.t, Sch(st.tab))
            BY <2>7, <3>3, ChangedNot, Zenon
        <3> QED BY <2>1, <3>4, Zenon DEF Get, Columns
    <2>9. Kept(q, Persist(q, st.tab, new)) /\ Ready(Persist(q, st.tab, new), j, n)
        BY <2>4, <2>7, <2>8, PersistReady, Zenon
    <2>10. Does(s, Persist(q, st.tab, new), j, n)
        BY <2>7, <2>9, KeptOn, ReadyDoes, Zenon
    <2>11. AddPrimaryKey(s, st) \in {Fail(s), Persist(q, st.tab, new)}
        BY <2>1, <2>3, <2>5, <2>6, Zenon DEF AddPrimaryKey, OnColumn, OnSchema, Columns
    <2> QED BY <2>10, <2>11, FailDoes, Zenon
<1> QED BY <1>1, <1>2, Zenon

LEMMA NothingDoes ==
    ASSUME NEW s, NEW j, NEW n, Ready(s, j, n)
    PROVE  Does(s, Put(s, Nothing), j, n)
<1>1. Harmless(s.t, s.br, Nothing)
    BY NothingIs, Zenon DEF Harmless
<1>2. Kept(s, Put(s, Nothing)) /\ Ready(Put(s, Nothing), j, n)
    BY <1>1, PutReady, Zenon
<1> QED BY <1>2, ReadyDoes, Zenon

LEMMA NewEntry ==
    ASSUME NEW s, s.now \in Nat, NEW pk \in {"none", "declared"}, NEW names \in Seq(STRING)
    PROVE  NewTable(s, pk, names) \in Entry /\ NewTable(s, pk, names).pk = pk
<1>1. PICK now \in Nat : now = s.now
    BY Zenon
<1>2. \A i \in 1..Len(names) : Column(s, names[i]) \in ColumnDef
    BY DEF Column, ColumnDef
<1>3. PICK cs : cs = [i \in 1..Len(names) |-> Column(s, names[i])]
    BY Zenon
<1>4. cs \in Seq(ColumnDef)
    BY <1>2, <1>3
<1>5. PICK no \in BOOLEAN : no = FALSE
    BY Zenon
<1>6. PICK e : e = [inc |-> now, pk |-> pk, rls |-> no, forced |-> no, policies |-> {}, checks |-> {}, cols |-> cs]
    BY Zenon
<1>7. e \in Entry /\ e.pk = pk
    BY <1>4, <1>6 DEF Entry
<1>8. e = NewTable(s, pk, names)
    BY <1>1, <1>3, <1>5, <1>6, Zenon DEF NewTable
<1> QED BY <1>7, <1>8, Zenon

LEMMA CreateTableDoes ==
    ASSUME NEW s, NEW j, NEW n, NEW st, Ready(s, j, n), st.tab \in Table,
           st.cols \in Seq(STRING), st.pk \in {"none", "declared"}
    PROVE  Does(s, CreateTable(s, st), j, n)
<1>1. CASE Has(s, Sch(st.tab))
    BY <1>1, FailDoes, StayDoes, Zenon DEF CreateTable
<1>2. CASE ~Has(s, Sch(st.tab))
    <2>1. PICK names \in Seq(STRING), pk \in {"none", "declared"} : names = st.cols /\ pk = st.pk
        BY Zenon
    <2>2. s.now \in Nat
        BY Zenon DEF Ready
    <2>3. PICK e \in Entry : e = NewTable(s, pk, names)
        BY <2>2, NewEntry, Zenon
    <2>4. PICK q : q = Persist(s, st.tab, e)
        BY Zenon
    <2>5. Kept(s, q) /\ Ready(q, j, n)
        BY <1>2, <2>3, <2>4, PersistReady, Zenon
    <2>6. CreateTable(s, st) \in {Put(q, Nothing), Put(q, One(Index(st.tab), {<<"key", st.unique>>}))}
        BY <1>2, <2>1, <2>3, <2>4, Zenon DEF CreateTable
    <2>7. Does(q, CreateTable(s, st), j, n)
        BY <2>5, <2>6, NothingDoes, OtherDoes, ZenonT(30)
    <2> QED BY <2>5, <2>7, DoesOn, Zenon
<1> QED BY <1>1, <1>2, Zenon

LEMMA RowIn ==
    ASSUME NEW b, NEW x \in Table, NEW p, Row(b, x, p) \in Key
    PROVE  Row(b, x, p) \in RowKey
<1>1. \A y : Row(b, x, p) \notin {Sch(y), Index(y), View(y), Sequence(y), Type(y)}
    BY DEF Row, Sch, Index, View, Sequence, Type
<1>2. Row(b, x, p) \notin Catalog
    BY <1>1, Zenon DEF Catalog
<1> QED BY <1>2, Zenon DEF Key

\* One row, of the entry e, under the key of its primary key or its time.
LEMMA RowDoes ==
    ASSUME NEW s, NEW j, NEW n, Ready(s, j, n), NEW x \in Table, Has(s, Sch(x)),
           NEW e \in Entry, e = Get(s, Sch(x)), NEW p, NEW row \in Stored,
           row.inc = e.inc, Len(row.cells) <= Len(e.cols),
           \A i \in 1..Len(e.cols) : row.cells[i] \in {Null, e.cols[i].id},
           p = IF e.pk = "none" THEN <<"at", s.now>> ELSE <<"pk", row.id>>
    PROVE  Does(s, Put(s, One(Row(s.br, x, p), row)), j, n)
<1>1. PICK k : k = Row(s.br, x, p)
    BY Zenon
<1>2. k[2] = s.br /\ k[3] = x /\ k[4] = p
    BY <1>1 DEF Row
<1>3. Fits(row, e, k)
    <2>1. e # Absent
        BY Markers, Zenon
    <2>2. row.cells \in Seq(Cell) /\ e.cols \in Seq(ColumnDef)
        BY DEF Stored, Entry
    <2>3. \A i \in DOMAIN row.cells : i \in 1..Len(e.cols)
        BY <2>2
    <2>4. (e.pk = "none" => p[1] # "pk") /\ (e.pk = "declared" => p = <<"pk", row.id>>)
        OBVIOUS
    <2> QED BY <2>1, <2>3, <2>4, <1>2, Zenon DEF Fits
<1>4. Harmless(s.t, s.br, One(k, row))
    <2>1. DOMAIN One(k, row) = {k} /\ One(k, row)[k] = row
        BY OneIs, Zenon
    <2>2. k \in Key => k \in RowKey
        BY <1>1, RowIn, Zenon
    <2>3. e = Read(s.t, Sch(k[3]))
        BY <1>2, Zenon DEF Get
    <2> QED BY <1>2, <1>3, <2>1, <2>2, <2>3, Zenon DEF Harmless
<1>5. Kept(s, Put(s, One(k, row))) /\ Ready(Put(s, One(k, row)), j, n)
    BY <1>4, PutReady, Zenon
<1> QED BY <1>1, <1>5, ReadyDoes, Zenon

LEMMA CreateTableAsDoes ==
    ASSUME NEW s, NEW j, NEW n, NEW st, Ready(s, j, n), st.tab \in Table, s.picked # None
    PROVE  Does(s, CreateTableAs(s, st), j, n)
<1>1. CASE Has(s, Sch(st.tab))
    BY <1>1, FailDoes, StayDoes, Zenon DEF CreateTableAs
<1>2. CASE ~Has(s, Sch(st.tab))
    <2>1. PICK names \in Seq(STRING), last \in Ids \cup {None} :
              names = s.picked.cols /\ last = s.picked.last
        BY DEF Ready, Picked
    <2>2. s.now \in Nat
        BY Zenon DEF Ready
    <2>3. NewTable(s, "none", names) \in Entry /\ NewTable(s, "none", names).pk = "none"
        BY <2>2, NewEntry, Zenon
    <2>4. PICK e \in Entry : e = NewTable(s, "none", names) /\ e.pk = "none"
        BY <2>3, Zenon
    <2>5. PICK q : q = Persist(s, st.tab, e)
        BY Zenon
    <2>6. Kept(s, q) /\ Ready(q, j, n) /\ Changed(s.t, q.t, One(Sch(st.tab), e))
        BY <1>2, <2>4, <2>5, PersistReady, Zenon
    <2>7. PICK cells : cells = [i \in 1..Len(e.cols) |-> e.cols[i].id]
        BY Zenon
    <2>8. PICK row : row = SelectedRow(s, e) /\ row = [inc |-> e.inc, id |-> last, odd |-> FALSE, cells |-> cells]
        BY <2>1, <2>7, Zenon DEF SelectedRow
    <2>9. CreateTableAs(s, st) =
              Put(q, IF last = None THEN Nothing ELSE One(Row(s.br, st.tab, <<"at", s.now>>), row))
        BY <1>2, <2>1, <2>4, <2>5, <2>8, Zenon DEF CreateTableAs
    <2>10. CASE last = None
        <3>1. Does(q, CreateTableAs(s, st), j, n)
            BY <2>6, <2>9, <2>10, NothingDoes, Zenon
        <3> QED BY <2>6, <3>1, DoesOn, Zenon
    <2>11. CASE last # None
        <3>1. cells \in Seq(Cell) /\ Len(cells) <= Len(e.cols)
              /\ \A i \in 1..Len(e.cols) : cells[i] \in {Null, e.cols[i].id}
            <4>1. Len(e.cols) \in Nat
                BY DEF Entry
            <4>2. \A i \in 1..Len(e.cols) : e.cols[i].id \in Cell
                BY ColumnOf DEF ColumnDef, Cell
            <4> QED BY <2>7, <4>1, <4>2
        <3>2. row \in Stored /\ row.inc = e.inc /\ row.cells = cells /\ row.id = last
            <4>1. PICK no \in BOOLEAN : no = FALSE
                BY Zenon
            <4>2. row = [inc |-> e.inc, id |-> last, odd |-> no, cells |-> cells]
                BY <2>8, <4>1, Zenon
            <4>3. e.inc \in Nat /\ last \in Ids
                BY <2>11 DEF Entry
            <4> QED BY <3>1, <4>2, <4>3 DEF Stored
        <3>3. Has(q, Sch(st.tab)) /\ e = Get(q, Sch(st.tab))
            <4>1. PICK w : w = One(Sch(st.tab), e)
                BY Zenon
            <4>a. DOMAIN w = {Sch(st.tab)} /\ w[Sch(st.tab)] = e /\ Changed(s.t, q.t, w)
                BY <2>6, <4>1, OneIs, Zenon
            <4>2. Sch(st.tab) \in Key /\ e # Keep /\ e # Absent
                BY SchIs, Markers, Zenon
            <4>3. Read(q.t, Sch(st.tab)) = e
                BY <4>a, <4>2 DEF Changed, Read
            <4> QED BY <4>2, <4>3, Zenon DEF Has, Get
        <3>4. q.br = s.br /\ q.now = s.now
            BY <2>6, Zenon DEF Kept
        <3>5. Does(q, Put(q, One(Row(q.br, st.tab, <<"at", q.now>>), row)), j, n)
            <4>1. PICK p : p = <<"at", q.now>>
                BY Zenon
            <4>2. p = IF e.pk = "none" THEN <<"at", q.now>> ELSE <<"pk", row.id>>
                BY <2>4, <4>1, Zenon
            <4>3. Len(row.cells) <= Len(e.cols) /\ \A i \in 1..Len(e.cols) : row.cells[i] \in {Null, e.cols[i].id}
                BY <3>1, <3>2, Zenon
            <4> QED BY <2>6, <3>2, <3>3, <4>1, <4>2, <4>3, RowDoes, Zenon
        <3>6. Does(q, CreateTableAs(s, st), j, n)
            BY <2>9, <2>11, <3>4, <3>5, Zenon
        <3> QED BY <2>6, <3>6, DoesOn, Zenon
    <2> QED BY <2>10, <2>11, Zenon
<1> QED BY <1>1, <1>2, Zenon

LEMMA InsertDoes ==
    ASSUME NEW s, NEW j, NEW n, NEW st, Ready(s, j, n), st.tab \in Table, st.id \in Ids
    PROVE  Does(s, Insert(s, st), j, n)
<1>1. CASE ~Has(s, Sch(st.tab))
    BY <1>1, FailDoes, Zenon DEF Insert, OnSchema
<1>2. CASE Has(s, Sch(st.tab))
    <2>1. PICK e \in Entry : e = Get(s, Sch(st.tab))
        BY <1>2, SchemaOf, Zenon
    <2>2. PICK cells : cells = [i \in 1..Len(e.cols) |->
              IF e.cols[i].name \in st.only \/ e.cols[i].default THEN e.cols[i].id ELSE Null]
        BY Zenon
    <2>3. PICK row : row = [inc |-> e.inc, id |-> st.id, odd |-> FALSE, cells |-> cells]
        BY Zenon
    <2>4. PICK p : p = IF e.pk = "none" THEN <<"at", s.now>> ELSE <<"pk", st.id>>
        BY Zenon
    <2>5. Insert(s, st) \in {Fail(s), Put(s, One(Row(s.br, st.tab, p), row))}
        BY <1>2, <2>1, <2>2, <2>3, <2>4, Zenon DEF Insert, OnSchema
    <2>6. cells \in Seq(Cell) /\ Len(cells) <= Len(e.cols)
          /\ \A i \in 1..Len(e.cols) : cells[i] \in {Null, e.cols[i].id}
        <3>1. Len(e.cols) \in Nat
            BY DEF Entry
        <3>2. \A i \in 1..Len(e.cols) : e.cols[i].id \in Cell /\ Null \in Cell
            BY ColumnOf DEF ColumnDef, Cell
        <3>3. \A i \in 1..Len(e.cols) : cells[i] \in {Null, e.cols[i].id}
            BY <2>2, Zenon
        <3>4. cells = [i \in 1..Len(e.cols) |-> cells[i]]
            BY <2>2, Zenon
        <3>5. \A i \in 1..Len(e.cols) : cells[i] \in Cell
            BY <3>2, <3>3, Zenon
        <3>6. cells \in Seq(Cell) /\ Len(cells) = Len(e.cols)
            BY <3>1, <3>4, <3>5
        <3> QED BY <3>1, <3>3, <3>6
    <2>7. row \in Stored /\ row.inc = e.inc /\ row.cells = cells /\ row.id = st.id
        <3>1. PICK no \in BOOLEAN : no = FALSE
            BY Zenon
        <3>2. row = [inc |-> e.inc, id |-> st.id, odd |-> no, cells |-> cells]
            BY <2>3, <3>1, Zenon
        <3>3. e.inc \in Nat
            BY DEF Entry
        <3> QED BY <2>6, <3>2, <3>3 DEF Stored
    <2>8. Does(s, Put(s, One(Row(s.br, st.tab, p), row)), j, n)
        BY <1>2, <2>1, <2>4, <2>6, <2>7, RowDoes
    <2> QED BY <2>5, <2>8, FailDoes, Zenon
<1> QED BY <1>1, <1>2, Zenon

\* The rows of the branch that DROP TABLE and TRUNCATE delete.
LEMMA DropTableDataDoes ==
    ASSUME NEW s, NEW j, NEW n, NEW x \in Table, Ready(s, j, n)
    PROVE  /\ Kept(s, DropTableData(s, x)) /\ Ready(DropTableData(s, x), j, n)
           /\ \A k \in RowsOf(s.br, x) : Read(DropTableData(s, x).t, k) = Absent
           /\ Get(DropTableData(s, x), Sch(x)) = Get(s, Sch(x))
<1>1. PICK w : w = [k \in Present(s, RowsOf(s.br, x)) |-> Absent]
    BY Zenon
<1>2. PICK q : q = DropTableData(s, x)
    BY Zenon
<1>3. q = Put(s, w)
    BY <1>1, <1>2, Zenon DEF DropTableData
<1>4. s.br \in Branch
    BY Zenon DEF Ready
<1>5. /\ DOMAIN w = Present(s, RowsOf(s.br, x))
      /\ \A k \in DOMAIN w : w[k] = Absent
      /\ \A k \in DOMAIN w : k \in RowsOf(s.br, x)
    BY <1>1, Zenon DEF Present
<1>6. \A k \in RowsOf(s.br, x) : k \in RowKey /\ k[2] = s.br /\ k \in Key
    <2> TAKE k \in RowsOf(s.br, x)
    <2>1. k \in RowKey /\ k[2] = s.br
        BY <1>4, RowsOfIs
    <2> QED BY <2>1, RowKeyParts, Zenon
<1>7. Harmless(s.t, s.br, w)
    <2>1. ~Plain(Absent)
        BY Zenon DEF Plain
    <2> QED BY <1>5, <1>6, <2>1, Zenon DEF Harmless
<1>8. Kept(s, q) /\ Ready(q, j, n) /\ Changed(s.t, q.t, w)
    BY <1>3, <1>7, PutReady, Zenon
<1>9. ASSUME NEW k \in RowsOf(s.br, x) PROVE Read(q.t, k) = Absent
    <2>1. CASE k \in DOMAIN w
        <3>1. k \in Key /\ w[k] = Absent
            BY <1>5, <1>6, <2>1, Zenon
        <3>2. w[k] # Keep
            BY <3>1, Markers, Zenon
        <3> QED BY <3>1, <3>2, <1>8, <2>1 DEF Changed, Read
    <2>2. CASE k \notin DOMAIN w
        <3>1. Read(s.t, k) = Absent
            BY <1>5, <2>2, Zenon DEF Present, Has
        <3> QED BY <1>6, <1>8, <2>2, <3>1, ChangedNot, Zenon
    <2> QED BY <2>1, <2>2, Zenon
<1>10. Get(q, Sch(x)) = Get(s, Sch(x))
    <2>1. Sch(x) \in Key /\ Sch(x) \notin DOMAIN w
        BY <1>5, <1>6, SchIs, Zenon
    <2> QED BY <2>1, <1>8, ChangedNot, Zenon DEF Get
<1> QED BY <1>2, <1>8, <1>9, <1>10, Zenon

LEMMA TruncateDoes ==
    ASSUME NEW s, NEW j, NEW n, NEW st, Ready(s, j, n), st.tab \in Table
    PROVE  Does(s, Truncate(s, st), j, n)
<1>1. Truncate(s, st) \in {Fail(s), DropTableData(s, st.tab)}
    BY Zenon DEF Truncate, OnSchema
<1> QED BY <1>1, FailDoes, DropTableDataDoes, ReadyDoes, Zenon

-----------------------------------------------------------------------------
(* Statements that remove, rewrite or move the rows of a table.            *)

LEMMA ScanIs ==
    ASSUME NEW s, s.br \in Branch, NEW x \in Table, NEW k \in Scan(s, x)
    PROVE  /\ k \in RowKey /\ k \in Key /\ k[3] = x /\ k[2] \in {s.br, Main}
           /\ Read(s.t, k) \notin {Absent, Tombstone}
<1>1. PICK b \in {s.br, Main} : k \in Present(s, RowsOf(b, x))
    BY Zenon DEF Scan, Present
<1>2. b \in Branch
    BY Zenon DEF Branch
<1>3. k \in RowsOf(b, x) /\ Read(s.t, k) # Absent
    BY <1>1, Zenon DEF Present, Has
<1>4. k \in RowKey /\ k[2] = b /\ k[3] = x
    BY <1>2, <1>3, RowsOfIs, Zenon
<1>5. Read(s.t, k) # Tombstone
    BY Zenon DEF Scan, Get
<1> QED BY <1>1, <1>3, <1>4, <1>5, RowKeyParts, Zenon

LEMMA ScanOwn ==
    ASSUME NEW s, s.br \in Branch, NEW x \in Table, NEW k \in RowKey, k[2] = s.br, k[3] = x,
           Read(s.t, k) \notin {Absent, Tombstone}
    PROVE  k \in Scan(s, x)
<1>1. PICK b \in Branch : b = s.br
    BY Zenon
<1>2. k \in RowsOf(b, x)
    BY <1>1, RowsOfIs, Zenon
<1>3. k \in Present(s, RowsOf(s.br, x))
    BY <1>1, <1>2, Zenon DEF Present, Has
<1> QED BY <1>3, Zenon DEF Scan, Get

\* Statement n + 1 is one of them, on the table x.
Rewrites(j, n, x) == n \in Nat /\ j[n + 1].op \in Rewriting /\ j[n + 1].tab = x

LEMMA NamesNext ==
    ASSUME NEW j, NEW n, NEW x, Rewrites(j, n, x)
    PROVE  /\ Names(j, n + 1, Rewriting, x)
           /\ \A ops, y : Names(j, n, ops, y) => Names(j, n + 1, ops, y)
           /\ \A y : y # x /\ ~Names(j, n, Rewriting, y) => ~Names(j, n + 1, Rewriting, y)
           /\ \A b : Several(j, n, b) => Several(j, n + 1, b)
<1>1. n \in Nat /\ n + 1 \in 1..(n + 1)
    BY DEF Rewrites
<1>2. \A i : i \in 1..(n + 1) <=> i \in 1..n \/ i = n + 1
    BY <1>1
<1>3. Names(j, n + 1, Rewriting, x)
    BY <1>1, Zenon DEF Rewrites, Names
<1>4. \A ops, y : Names(j, n, ops, y) => Names(j, n + 1, ops, y)
    BY <1>2, Zenon DEF Names
<1>5. \A y : y # x /\ ~Names(j, n, Rewriting, y) => ~Names(j, n + 1, Rewriting, y)
    BY <1>2, Zenon DEF Rewrites, Names
<1>6. \A b : Several(j, n, b) => Several(j, n + 1, b)
    BY <1>2, Zenon DEF Several
<1> QED BY <1>3, <1>4, <1>5, <1>6, Zenon

\* Unless there are Several, nothing that rewrites rows came before a RENAME or on a branch.
LEMMA NoneBefore ==
    ASSUME NEW j, NEW n, NEW x, NEW b, Rewrites(j, n, x), ~Several(j, n + 1, b),
           b # Main \/ j[n + 1].op = "renameTable", NEW y
    PROVE  ~Names(j, n, Rewriting, y)
<1>1. n \in Nat /\ n + 1 \in 1..(n + 1)
    BY DEF Rewrites
<1>2. \A i \in 1..n : i \in 1..(n + 1) /\ i # n + 1
    BY <1>1
<1> QED BY <1>1, <1>2, Zenon DEF Rewrites, Several, Names

LEMMA NotExempt ==
    ASSUME NEW t, NEW b, NEW j, NEW n, NEW x, Rewrites(j, n, x), ~Several(j, n + 1, b), NEW k, NEW v
    PROVE  ~Exempt(t, b, j, n, k, v)
<1>1. ~Several(j, n, b)
    BY NamesNext, Zenon
<1>2. ~Names(j, n, {"renameTable"}, k[3])
    <2>1. n \in Nat /\ n + 1 \in 1..(n + 1)
        BY DEF Rewrites
    <2>2. \A i \in 1..n : i \in 1..(n + 1) /\ i # n + 1
        BY <2>1
    <2>3. "renameTable" \in Rewriting
        BY DEF Rewriting
    <2> QED BY <2>1, <2>2, <2>3, Zenon DEF Rewrites, Several, Names
<1> QED BY <1>1, <1>2, Zenon DEF Exempt

\* Rows on other branches that t has written are exempt.
LEMMA WrittenElsewhere ==
    ASSUME NEW t, NEW b, NEW j, NEW n, NEW x, Good(t, b, j, n), Rewrites(j, n, x),
           NEW k \in RowKey, k[2] # b, t.buf[k] # Keep
    PROVE  Several(j, n + 1, b)
<1>1. b # Main /\ Names(j, n, Rewriting, k[3])
    BY Zenon DEF Good, Elsewhere
<1> QED BY <1>1, NoneBefore, Zenon

\* The rows that statement n + 1 scans fit the table.
LEMMA ScannedFits ==
    ASSUME NEW s, NEW j, NEW n, NEW x \in Table, Ready(s, j, n), Rewrites(j, n, x),
           ~Several(j, n + 1, s.br), NEW k \in Scan(s, x), Plain(Read(s.t, k))
    PROVE  Fits(Read(s.t, k), Read(s.t, Sch(x)), k) /\ Read(s.t, k) \in Stored
<1>1. PICK t, b : t = s.t /\ b = s.br
    BY Zenon
<1>2. b \in Branch /\ Good(t, b, j, n) /\ ~Several(j, n + 1, b)
    BY <1>1, Zenon DEF Ready
<1>3. k \in RowKey /\ k[3] = x /\ k[2] \in {b, Main}
    BY <1>1, <1>2, ScanIs, Zenon
<1>4. Read(t, k) \in Stored
    BY <1>1, <1>2, <1>3, Zenon DEF Good, Shown, Plain
<1>5. CASE k[2] = b
    <2>1. ~Exempt(t, b, j, n, k, Read(t, k))
        BY <1>2, NotExempt, Zenon
    <2> QED BY <1>1, <1>2, <1>3, <1>4, <1>5, <2>1, Zenon DEF Good, Seen
<1>6. CASE k[2] # b
    <2>1. t.buf[k] = Keep
        BY <1>2, <1>3, <1>6, WrittenElsewhere, Zenon
    <2>2. Read(t, k) = t.snap[k]
        BY <2>1, Zenon DEF Read
    <2>3. Fits(t.snap[k], t.snap[Sch(x)], k)
        BY <1>1, <1>2, <1>3, <2>2, Zenon DEF Good, Right
    <2>4. t.snap[Sch(x)] # Absent
        BY <2>3, Zenon DEF Fits
    <2>5. b # Main
        BY <1>3, <1>6, Zenon
    <2>6. ~Names(j, n, Rewriting, x)
        BY <1>2, <2>5, NoneBefore, Zenon
    <2>7. Extends(t.snap[Sch(x)], Read(t, Sch(x)))
        BY <1>2, <2>4, <2>6, Zenon DEF Good, Extended
    <2>8. Read(t, Sch(x)) # Absent
        BY <2>7, Zenon DEF Extends
    <2>9. t.snap[Sch(x)] \in Entry /\ Read(t, Sch(x)) \in Entry
        BY <1>2, <2>4, <2>8, Zenon DEF Good, Right, Shown
    <2>10. Fits(Read(t, k), Read(t, Sch(x)), k)
        BY <1>4, <2>2, <2>3, <2>7, <2>9, FitsExtended, Zenon
    <2> QED BY <1>1, <1>4, <2>10, Zenon
<1> QED BY <1>5, <1>6, Zenon

\* What such a statement has to leave: only the tables X are affected, x or x and the
\* table it becomes.
Left(t, u, b, j, n, x, X) ==
    /\ IsTxn(u) /\ u.snap = t.snap /\ Shown(u)
    /\ x \in X
    /\ \A y \in X : u.buf[Sch(y)] # Keep
    /\ \A y \in X : y # x => Read(t, Sch(y)) = Absent
    /\ \A y \in Table \ X : u.buf[Sch(y)] = t.buf[Sch(y)]
    /\ \A k \in RowKey : k[3] \notin X => u.buf[k] = t.buf[k]
    /\ \A k \in RowKey : k[2] # b /\ (b = Main \/ k[3] # x) => u.buf[k] = t.buf[k]
    /\ \A k \in RowKey :
           /\ k[3] \in X
           /\ u.buf[k] # Keep \/ k[2] = b
           /\ Plain(Read(u, k))
           /\ ~Exempt(u, b, j, n + 1, k, Read(u, k))
           => Fits(Read(u, k), Read(u, Sch(k[3])), k)

LEMMA Rewritten ==
    ASSUME NEW t, NEW u, NEW b, NEW j, NEW n, NEW x, NEW X,
           Good(t, b, j, n), Rewrites(j, n, x), Left(t, u, b, j, n, x, X)
    PROVE  Good(u, b, j, n + 1)
<1>1. IsTxn(u) /\ Right(u.snap) /\ Shown(u) /\ u.snap = t.snap
    BY Zenon DEF Good, Left
<1>2. \A y \in Table \ X : u.buf[Sch(y)] = t.buf[Sch(y)] /\ Read(u, Sch(y)) = Read(t, Sch(y))
    BY <1>1, Zenon DEF Left, Read
<1>3. \A k \in RowKey : k[3] \notin X => u.buf[k] = t.buf[k] /\ Read(u, k) = Read(t, k)
    BY <1>1, Zenon DEF Left, Read
<1>4. Seen(u, b, j, n + 1)
    <2> SUFFICES ASSUME NEW k \in RowKey, u.buf[k] # Keep \/ k[2] = b, Plain(Read(u, k)),
                        ~Exempt(u, b, j, n + 1, k, Read(u, k))
                 PROVE  Fits(Read(u, k), Read(u, Sch(k[3])), k)
        BY Zenon DEF Seen
    <2>1. CASE k[3] \in X
        BY <2>1, Zenon DEF Left
    <2>2. CASE k[3] \notin X
        <3>1. k[3] \in Table \ X
            BY <2>2, RowKeyParts, Zenon
        <3>2. u.buf[Sch(k[3])] = t.buf[Sch(k[3])] /\ Read(u, Sch(k[3])) = Read(t, Sch(k[3]))
            BY <1>2, <3>1, Zenon
        <3>3. u.buf[k] = t.buf[k] /\ Read(u, k) = Read(t, k)
            BY <1>3, <2>2, Zenon
        <3>4. ~Exempt(t, b, j, n, k, Read(t, k))
            <4>1. /\ Several(j, n, b) => Several(j, n + 1, b)
                  /\ Names(j, n, {"renameTable"}, k[3]) => Names(j, n + 1, {"renameTable"}, k[3])
                BY NamesNext
            <4> QED BY <3>2, <3>3, <4>1, Zenon DEF Exempt
        <3>5. Fits(Read(t, k), Read(t, Sch(k[3])), k)
            BY <3>3, <3>4, Zenon DEF Good, Seen
        <3> QED BY <3>2, <3>3, <3>5, Zenon
    <2> QED BY <2>1, <2>2, Zenon
<1>5. Extended(u, j, n + 1)
    <2> SUFFICES ASSUME NEW y \in Table, ~Names(j, n + 1, Rewriting, y), t.snap[Sch(y)] # Absent
                 PROVE  Extends(t.snap[Sch(y)], Read(u, Sch(y)))
        BY <1>1, Zenon DEF Extended
    <2>1. y # x /\ ~Names(j, n, Rewriting, y)
        BY NamesNext, Zenon
    <2>2. Extends(t.snap[Sch(y)], Read(t, Sch(y)))
        BY <2>1, Zenon DEF Good, Extended
    <2>3. y \notin X
        BY <2>1, <2>2, Zenon DEF Left, Extends
    <2> QED BY <1>2, <2>2, <2>3, Zenon
<1>6. Elsewhere(u, b, j, n + 1)
    <2> SUFFICES ASSUME NEW k \in RowKey, k[2] # b, b = Main \/ ~Names(j, n + 1, Rewriting, k[3])
                 PROVE  u.buf[k] = Keep
        BY Zenon DEF Elsewhere
    <2>1. b = Main \/ (k[3] # x /\ ~Names(j, n, Rewriting, k[3]))
        BY NamesNext, Zenon
    <2>2. u.buf[k] = t.buf[k]
        BY <2>1, Zenon DEF Left
    <2> QED BY <2>1, <2>2, Zenon DEF Good, Elsewhere
<1> QED BY <1>1, <1>4, <1>5, <1>6, Zenon DEF Good

LEMMA DropTableDoes ==
    ASSUME NEW s, NEW j, NEW n, NEW st, Ready(s, j, n), st.tab \in Table, Rewrites(j, n, st.tab)
    PROVE  Does(s, DropTable(s, st), j, n + 1)
<1>1. CASE ~Has(s, Sch(st.tab))
    <2>1. DropTable(s, st) \in {s, Fail(s)}
        BY <1>1, Zenon DEF DropTable
    <2>2. Does(s, s, j, n + 1)
        BY Shift, StayDoes, Zenon DEF Ready, Rewrites, Does, Kept
    <2> QED BY <2>1, <2>2, FailDoes, Zenon
<1>2. CASE Has(s, Sch(st.tab))
    <2>0. PICK x \in Table : x = st.tab
        BY Zenon
    <2>1. PICK q : x = st.tab /\ q = DropTableData(s, x)
        BY <2>0, Zenon
    <2>2. Kept(s, q) /\ Ready(q, j, n) /\ \A k \in RowsOf(s.br, x) : Read(q.t, k) = Absent
        BY <2>1, DropTableDataDoes, Zenon
    <2>3. PICK w : w = Over(One(Index(x), Absent), One(Sch(x), Absent))
        BY Zenon
    <2>4. DOMAIN w = {Index(x), Sch(x)} /\ w[Sch(x)] = Absent
        <3>1. Index(x) # Sch(x)
            BY OtherKeys, Zenon
        <3>2. PICK f, g : f = One(Index(x), Absent) /\ g = One(Sch(x), Absent)
            BY Zenon
        <3>3. DOMAIN f = {Index(x)} /\ DOMAIN g = {Sch(x)} /\ g[Sch(x)] = Absent
            BY <3>2, OneIs, Zenon
        <3>4. w = Over(f, g)
            BY <2>3, <3>2, Zenon
        <3>5. DOMAIN w = DOMAIN f \cup DOMAIN g
            BY <3>4, OverDomain, Zenon
        <3>6. Sch(x) \in DOMAIN g /\ Sch(x) \notin DOMAIN f
            BY <3>1, <3>3, Zenon
        <3>7. w[Sch(x)] = g[Sch(x)]
            BY <3>4, <3>6, OverSecond, Zenon
        <3> QED BY <3>3, <3>5, <3>7, Zenon
    <2>5. PICK r : r = Put(q, w)
        BY Zenon
    <2>6. Kept(q, r) /\ r.ok = q.ok /\ Changed(q.t, r.t, w)
        BY <2>2, <2>5, PutIs, Zenon DEF Ready, Good
    <2>7. PICK t, u, b : t = q.t /\ u = r.t /\ b = s.br
        BY Zenon
    <2>8. Changed(t, u, w) /\ Good(t, b, j, n) /\ b \in Branch
        BY <2>2, <2>6, <2>7, Zenon DEF Ready, Kept
    <2>9. \A k \in RowKey : u.buf[k] = t.buf[k] /\ Read(u, k) = Read(t, k)
        <3> TAKE k \in RowKey
        <3>1. k \in Key /\ k \notin DOMAIN w
            BY <2>4, RowKeyParts, SchIs, OtherKeys, Zenon
        <3> QED BY <2>8, <3>1, ChangedNot, Zenon
    <2>10. ASSUME NEW y \in Table, y # x
           PROVE  u.buf[Sch(y)] = t.buf[Sch(y)] /\ Read(u, Sch(y)) = Read(t, Sch(y))
        <3>1. Sch(y) \in Key /\ Sch(y) \notin DOMAIN w
            BY <2>4, <2>10, SchIs, OtherKeys, Zenon
        <3> QED BY <2>8, <3>1, ChangedNot, Zenon
    <2>11. u.buf[Sch(x)] = Absent /\ u.buf[Sch(x)] # Keep /\ Read(u, Sch(x)) = Absent
        <3>1. Sch(x) \in Key
            BY SchIs, Zenon
        <3>2. Sch(x) \in DOMAIN w /\ Absent # Keep
            BY <2>4, Markers, Zenon
        <3> QED BY <2>4, <2>8, <3>1, <3>2 DEF Changed, Read
    <2>12. Shown(u)
        BY <2>8, <2>9, <2>10, <2>11, Zenon DEF Good, Shown
    <2>13. ASSUME NEW k \in RowKey, k[3] = x, u.buf[k] # Keep \/ k[2] = b, Plain(Read(u, k)),
                  ~Exempt(u, b, j, n + 1, k, Read(u, k))
           PROVE  FALSE
        <3>1. CASE k[2] = b
            <4>1. k \in RowsOf(b, x)
                BY <2>8, <2>13, <3>1, RowsOfIs, Zenon
            <4> QED BY <2>2, <2>7, <2>9, <2>13, <4>1, Zenon DEF Plain
        <3>2. CASE k[2] # b
            <4>1. Several(j, n + 1, b)
                BY <2>1, <2>8, <2>9, <2>13, <3>2, WrittenElsewhere, Zenon
            <4> QED BY <2>11, <2>13, <4>1, Zenon DEF Exempt
        <3> QED BY <3>1, <3>2, Zenon
    <2>14. Left(t, u, b, j, n, x, {x})
        <3>1. IsTxn(u) /\ u.snap = t.snap
            BY <2>8, Zenon DEF Changed
        <3> QED BY <2>9, <2>10, <2>11, <2>12, <2>13, <3>1, Zenon DEF Left
    <2>15. Good(u, b, j, n + 1)
        BY <2>1, <2>8, <2>14, Rewritten, Zenon
    <2>16. DropTable(s, st) = r
        BY <1>2, <2>1, <2>3, <2>5, Zenon DEF DropTable
    <2>17. Kept(s, r) /\ r.br = b
        BY <2>2, <2>6, <2>7, KeptOn, Zenon DEF Kept
    <2> QED BY <2>7, <2>15, <2>16, <2>17, Zenon DEF Does
<1> QED BY <1>1, <1>2, Zenon

\* The writes w of the rows that the statement scans: one that fitted the entry of x fits
\* the new one, e, as rewritten.
Rewriter(s, x, e, w) ==
    /\ DOMAIN w \subseteq Scan(s, x) \cup {Index(x)} /\ Scan(s, x) \subseteq DOMAIN w
    /\ \A k \in Scan(s, x) :
           /\ w[k] \in Stored /\ w[k].odd = Read(s.t, k).odd
           /\ Fits(Read(s.t, k), Read(s.t, Sch(x)), k) /\ Read(s.t, k) \in Stored => Fits(w[k], e, k)

LEMMA TableRewritten ==
    ASSUME NEW s, NEW j, NEW n, NEW x \in Table, Ready(s, j, n), Rewrites(j, n, x),
           NEW e \in Entry, NEW w, Rewriter(s, x, e, w)
    PROVE  Does(s, Persist(Put(s, w), x, e), j, n + 1)
<1>1. PICK t, b, q : t = s.t /\ b = s.br /\ q = Put(s, w)
    BY Zenon
<1>2. Good(t, b, j, n) /\ b \in Branch /\ IsState(s) /\ IsTxn(s.t)
    BY <1>1, Zenon DEF Ready, Good
<1>3. PICK t1 : Kept(s, q) /\ q.ok = s.ok /\ Changed(t, t1, w) /\ t1 = q.t
    <2>1. Kept(s, Put(s, w)) /\ Put(s, w).ok = s.ok /\ Changed(s.t, Put(s, w).t, w)
        BY <1>2, PutIs, Zenon
    <2> QED BY <1>1, <2>1, Zenon
<1>a. Changed(t, t1, w)
    BY <1>3, Zenon
<1>4. PICK v, r : v = One(Sch(x), e) /\ r = Put(q, v)
    BY Zenon
<1>5. PICK u : Kept(q, r) /\ r.ok = q.ok /\ Changed(t1, u, v) /\ u = r.t
    <2>1. IsState(q) /\ IsTxn(q.t)
        BY <1>3, Zenon DEF Kept, Changed
    <2>2. Kept(q, Put(q, v)) /\ Put(q, v).ok = q.ok /\ Changed(q.t, Put(q, v).t, v)
        BY <2>1, PutIs, Zenon
    <2> QED BY <1>3, <1>4, <2>2, Zenon
<1>b. Changed(t1, u, v)
    BY <1>5, Zenon
<1>6. Sch(x) \in Key /\ Sch(x) \notin RowKey /\ Index(x) \notin RowKey /\ \A y : Index(x) # Sch(y)
    BY SchIs, OtherKeys, Zenon
<1>7. DOMAIN v = {Sch(x)} /\ v[Sch(x)] = e
    BY <1>4, OneIs, Zenon
<1>8. \A k \in Scan(s, x) : k \in RowKey /\ k \in Key /\ k[3] = x /\ k[2] \in {b, Main}
    BY <1>1, <1>2, ScanIs, Zenon
<1>9. ASSUME NEW k \in RowKey, k \notin Scan(s, x)
      PROVE  u.buf[k] = t.buf[k] /\ Read(u, k) = Read(t, k)
    <2>1. k \in Key
        BY RowKeyParts, Zenon
    <2>2. k \notin DOMAIN w /\ k \notin DOMAIN v
        BY <1>6, <1>7, <1>9, Zenon DEF Rewriter
    <2>3. t1.buf[k] = t.buf[k] /\ Read(t1, k) = Read(t, k)
        BY <1>a, <2>1, <2>2, ChangedNot, ZenonT(30)
    <2>4. u.buf[k] = t1.buf[k] /\ Read(u, k) = Read(t1, k)
        BY <1>b, <2>1, <2>2, ChangedNot, ZenonT(30)
    <2> QED BY <2>3, <2>4, Zenon
<1>10. ASSUME NEW k \in Scan(s, x) PROVE Read(u, k) = w[k]
    <2>1. k \in Key /\ k \in DOMAIN w /\ k \notin DOMAIN v
        BY <1>6, <1>7, <1>8, Zenon DEF Rewriter
    <2>2. w[k] # Keep
        BY Markers, Zenon DEF Rewriter
    <2>3. Read(t1, k) = w[k]
        BY <1>a, <2>1, <2>2 DEF Changed, Read
    <2>4. Read(u, k) = Read(t1, k)
        BY <1>b, <2>1, ChangedNot, Zenon
    <2> QED BY <2>3, <2>4, Zenon
<1>11. ASSUME NEW y \in Table, y # x
       PROVE  u.buf[Sch(y)] = t.buf[Sch(y)] /\ Read(u, Sch(y)) = Read(t, Sch(y))
    <2>1. PICK k \in Key : k = Sch(y) /\ k \notin RowKey /\ k # Sch(x) /\ k # Index(x)
        BY <1>6, <1>11, SchIs, Zenon
    <2>2. k \notin DOMAIN w /\ k \notin DOMAIN v
        BY <1>7, <1>8, <2>1, Zenon DEF Rewriter
    <2>3. t1.buf[k] = t.buf[k] /\ Read(t1, k) = Read(t, k)
        BY <1>a, <2>2, ChangedNot, ZenonT(30)
    <2>4. u.buf[k] = t1.buf[k] /\ Read(u, k) = Read(t1, k)
        BY <1>b, <2>2, ChangedNot, Zenon
    <2> QED BY <2>1, <2>3, <2>4, Zenon
<1>12. u.buf[Sch(x)] # Keep /\ Read(u, Sch(x)) = e
    <2>1. Sch(x) \in DOMAIN v /\ e # Keep
        BY <1>7, Markers, Zenon
    <2> QED BY <1>b, <1>6, <1>7, <2>1 DEF Changed, Read
<1>13. Shown(u)
    <2>1. \A k \in RowKey : Read(u, k) \in Stored \cup {Absent, Tombstone}
        <3> TAKE k \in RowKey
        <3> QED BY <1>2, <1>9, <1>10, Zenon DEF Good, Shown, Rewriter
    <2>2. \A y \in Table : Read(u, Sch(y)) \in Entry \cup {Absent}
        <3> TAKE y \in Table
        <3> QED BY <1>2, <1>11, <1>12, Zenon DEF Good, Shown
    <2> QED BY <2>1, <2>2, Zenon DEF Shown
<1>14. ASSUME NEW k \in RowKey, k[3] = x, u.buf[k] # Keep \/ k[2] = b, Plain(Read(u, k)),
              ~Exempt(u, b, j, n + 1, k, Read(u, k))
       PROVE  Fits(Read(u, k), Read(u, Sch(x)), k)
    <2>1. ~Several(j, n + 1, b)
        BY <1>12, <1>14, Zenon DEF Exempt
    <2>2. CASE k \in Scan(s, x)
        <3>1. Plain(Read(s.t, k))
            <4>1. Read(s.t, k) \notin {Absent, Tombstone}
                BY <1>1, <1>2, <2>2, ScanIs, Zenon
            <4> QED BY <1>10, <1>14, <2>2, <4>1, Zenon DEF Plain, Rewriter
        <3>2. Fits(Read(s.t, k), Read(s.t, Sch(x)), k) /\ Read(s.t, k) \in Stored
            BY <1>1, <2>1, <2>2, <3>1, ScannedFits, Zenon
        <3>3. Fits(w[k], e, k)
            BY <2>2, <3>2, Zenon DEF Rewriter
        <3> QED BY <1>10, <1>12, <2>2, <3>3, Zenon
    <2>3. CASE k \notin Scan(s, x)
        <3>1. Read(u, k) = Read(t, k) /\ u.buf[k] = t.buf[k]
            BY <1>9, <2>3, Zenon
        <3>2. CASE k[2] = b
            <4>1. Read(s.t, k) \notin {Absent, Tombstone}
                BY <1>1, <1>14, <3>1, Zenon DEF Plain
            <4> QED BY <1>1, <1>2, <1>14, <2>3, <3>2, <4>1, ScanOwn, Zenon
        <3>3. CASE k[2] # b
            BY <1>2, <1>14, <2>1, <3>1, <3>3, WrittenElsewhere, Zenon
        <3> QED BY <3>2, <3>3, Zenon
    <2> QED BY <2>2, <2>3, Zenon
<1>15. Left(t, u, b, j, n, x, {x})
    <2>1. IsTxn(u) /\ u.snap = t.snap
        BY <1>3, <1>5, Zenon DEF Changed
    <2>2. \A k \in RowKey : k[3] # x => u.buf[k] = t.buf[k]
        BY <1>8, <1>9, Zenon
    <2>3. \A k \in RowKey : k[2] # b /\ b = Main => u.buf[k] = t.buf[k]
        BY <1>8, <1>9, Zenon
    <2> QED BY <1>11, <1>12, <1>13, <1>14, <2>1, <2>2, <2>3, Zenon DEF Left
<1>16. Good(u, b, j, n + 1)
    BY <1>2, <1>15, Rewritten, Zenon
<1>17. Kept(s, r) /\ r.br = b
    BY <1>1, <1>3, <1>5, KeptOn, Zenon DEF Kept
<1>18. r = Persist(Put(s, w), x, e)
    BY <1>1, <1>4, Zenon DEF Persist
<1> QED BY <1>5, <1>16, <1>17, <1>18, Zenon DEF Does

LEMMA ScanStored ==
    ASSUME NEW s, NEW j, NEW n, NEW x \in Table, Ready(s, j, n), NEW k \in Scan(s, x)
    PROVE  Get(s, k) \in Stored /\ Get(s, k) = Read(s.t, k)
<1>1. s.br \in Branch /\ Shown(s.t)
    BY Zenon DEF Ready, Good
<1>2. k \in RowKey /\ Read(s.t, k) \notin {Absent, Tombstone}
    BY <1>1, ScanIs, Zenon
<1> QED BY <1>1, <1>2, Zenon DEF Shown, Get

LEMMA DecodeIs ==
    ASSUME NEW v \in Stored, NEW m \in Nat
    PROVE  /\ Decode(v.cells, m) \in Seq(Cell) /\ Len(Decode(v.cells, m)) = m
           /\ \A i \in 1..m : Decode(v.cells, m)[i] = IF i <= Len(v.cells) THEN v.cells[i] ELSE Null
<1>1. v.cells \in Seq(Cell) /\ Null \in Cell
    BY DEF Stored, Cell
<1>2. \A i \in 1..m : (IF i <= Len(v.cells) THEN v.cells[i] ELSE Null) \in Cell
    BY <1>1
<1> QED BY <1>2 DEF Decode

LEMMA WithoutIs ==
    ASSUME NEW S, NEW q \in Seq(S), NEW c \in 1..Len(q)
    PROVE  /\ Without(q, c) \in Seq(S) /\ Len(Without(q, c)) = Len(q) - 1
           /\ \A i \in 1..(Len(q) - 1) : Without(q, c)[i] = IF i < c THEN q[i] ELSE q[i + 1]
<1>1. Len(q) \in Nat /\ Len(q) - 1 \in Nat
    OBVIOUS
<1>2. \A i \in 1..(Len(q) - 1) : (IF i < c THEN q[i] ELSE q[i + 1]) \in S
    OBVIOUS
<1> QED BY <1>1, <1>2 DEF Without

\* A row that fits, decoded, has a value of the column or NULL in every place.
LEMMA FitsDecoded ==
    ASSUME NEW v \in Stored, NEW e \in Entry, NEW k, Fits(v, e, k), NEW i \in 1..Len(e.cols)
    PROVE  Decode(v.cells, Len(e.cols))[i] \in {Null, e.cols[i].id}
<1>1. v.cells \in Seq(Cell) /\ Len(e.cols) \in Nat
    BY DEF Stored, Entry
<1>2. Decode(v.cells, Len(e.cols))[i] = IF i <= Len(v.cells) THEN v.cells[i] ELSE Null
    BY <1>1, DecodeIs, Zenon
<1>3. i <= Len(v.cells) => i \in DOMAIN v.cells
    BY <1>1
<1> QED BY <1>2, <1>3, Zenon DEF Fits

\* v2 is v, and e2 is e, with other cells for other columns.
Shaped(v, e, v2, e2) ==
    /\ v2 \in Stored /\ v2.inc = v.inc /\ v2.id = v.id /\ v2.odd = v.odd
    /\ e2 \in Entry /\ e2.inc = e.inc /\ e2.pk = e.pk

LEMMA FitsAnew ==
    ASSUME NEW v, NEW e, NEW k, Fits(v, e, k), NEW v2, NEW e2, Shaped(v, e, v2, e2),
           Len(v2.cells) = Len(e2.cols),
           \A i \in 1..Len(e2.cols) : v2.cells[i] \in {Null, e2.cols[i].id}
    PROVE  Fits(v2, e2, k)
<1>0. v2 \in Stored /\ e2 \in Entry
    BY Zenon DEF Shaped
<1>1. e2 # Absent
    BY <1>0, Markers, Zenon
<1>2. DOMAIN v2.cells = 1..Len(e2.cols) /\ Len(v2.cells) <= Len(e2.cols)
    BY <1>0 DEF Stored, Entry
<1> QED BY <1>1, <1>2, Zenon DEF Fits, Shaped

\* DROP COLUMN and ALTER COLUMN TYPE of the column c, on a row and on the entry.
RowWithout(v, e, c) == [v EXCEPT !.cells = Without(Decode(v.cells, Len(e.cols)), c)]
EntryWithout(e, c) == [e EXCEPT !.cols = Without(@, c)]

RowCast(v, e, c, id) ==
    [v EXCEPT !.cells = [Decode(v.cells, Len(e.cols)) EXCEPT ![c] = IF @ = Null THEN Null ELSE id]]
EntryRetyped(e, c, id) == [e EXCEPT !.cols[c].id = id]

LEMMA Shapes ==
    ASSUME NEW v \in Stored, NEW e \in Entry, NEW cells \in Seq(Cell), NEW cs \in Seq(ColumnDef)
    PROVE  /\ Shaped(v, e, [v EXCEPT !.cells = cells], [e EXCEPT !.cols = cs])
           /\ [v EXCEPT !.cells = cells].cells = cells /\ [e EXCEPT !.cols = cs].cols = cs
<1>1. PICK v2, e2 : v2 = [v EXCEPT !.cells = cells] /\ e2 = [e EXCEPT !.cols = cs]
    BY Zenon
<1>2. v2 \in Stored /\ v2.inc = v.inc /\ v2.id = v.id /\ v2.odd = v.odd /\ v2.cells = cells
    BY <1>1, Zenon DEF Stored
<1>3. e2 \in Entry /\ e2.inc = e.inc /\ e2.pk = e.pk /\ e2.cols = cs
    BY <1>1, Zenon DEF Entry
<1> QED BY <1>1, <1>2, <1>3, Zenon DEF Shaped

LEMMA WithoutFits ==
    ASSUME NEW v \in Stored, NEW e \in Entry, NEW c \in 1..Len(e.cols)
    PROVE  /\ Shaped(v, e, RowWithout(v, e, c), EntryWithout(e, c))
           /\ \A k : Fits(v, e, k) => Fits(RowWithout(v, e, c), EntryWithout(e, c), k)
<1>1. PICK m \in Nat : m = Len(e.cols)
    BY DEF Entry
<1>2. PICK d : d = Decode(v.cells, m)
    BY Zenon
<1>3. d \in Seq(Cell) /\ Len(d) = m
    BY <1>2, DecodeIs, Zenon
<1>4. c \in 1..m /\ c \in 1..Len(d)
    BY <1>1, <1>3, Zenon
<1>5. PICK cells, cs : cells = Without(d, c) /\ cs = Without(e.cols, c)
    BY Zenon
<1>6. /\ cells \in Seq(Cell) /\ Len(cells) = m - 1
      /\ \A i \in 1..(m - 1) : cells[i] = IF i < c THEN d[i] ELSE d[i + 1]
    BY <1>3, <1>4, <1>5, WithoutIs, Zenon
<1>7. /\ cs \in Seq(ColumnDef) /\ Len(cs) = m - 1
      /\ \A i \in 1..(m - 1) : cs[i] = IF i < c THEN e.cols[i] ELSE e.cols[i + 1]
    <2>1. e.cols \in Seq(ColumnDef)
        BY DEF Entry
    <2> QED BY <1>1, <1>5, <2>1, WithoutIs, Zenon
<1>8. PICK v2, e2 : v2 = [v EXCEPT !.cells = cells] /\ e2 = [e EXCEPT !.cols = cs]
    BY Zenon
<1>9. v2 = RowWithout(v, e, c) /\ e2 = EntryWithout(e, c)
    BY <1>1, <1>2, <1>5, <1>8, Zenon DEF RowWithout, EntryWithout
<1>10. Shaped(v, e, v2, e2) /\ v2.cells = cells /\ e2.cols = cs
    <2>1. cells \in Seq(Cell) /\ cs \in Seq(ColumnDef)
        BY <1>6, <1>7, Zenon
    <2> QED BY <1>8, <2>1, Shapes, Zenon
<1>11. ASSUME NEW k, Fits(v, e, k) PROVE Fits(v2, e2, k)
    <2>1. \A i \in 1..m : d[i] \in {Null, e.cols[i].id}
        BY <1>1, <1>2, <1>11, FitsDecoded, Zenon
    <2>2. \A i \in 1..(m - 1) : i \in 1..m /\ i + 1 \in 1..m
        OBVIOUS
    <2>3. \A i \in 1..(m - 1) : cells[i] \in {Null, cs[i].id}
        <3> TAKE i \in 1..(m - 1)
        <3>1. i \in 1..m /\ i + 1 \in 1..m
            BY <2>2, Zenon
        <3> QED BY <1>6, <1>7, <2>1, <3>1, Zenon
    <2>4. Len(v2.cells) = Len(e2.cols)
        BY <1>6, <1>7, <1>10, Zenon
    <2>5. \A i \in 1..Len(e2.cols) : v2.cells[i] \in {Null, e2.cols[i].id}
        BY <1>7, <1>10, <2>3, Zenon
    <2> QED BY <1>10, <1>11, <2>4, <2>5, FitsAnew, Zenon
<1> QED BY <1>9, <1>10, <1>11, Zenon

LEMMA CastFits ==
    ASSUME NEW v \in Stored, NEW e \in Entry, NEW c \in 1..Len(e.cols), NEW id \in STRING \X Nat
    PROVE  /\ Shaped(v, e, RowCast(v, e, c, id), EntryRetyped(e, c, id))
           /\ \A k : Fits(v, e, k) => Fits(RowCast(v, e, c, id), EntryRetyped(e, c, id), k)
<1>1. PICK m \in Nat : m = Len(e.cols)
    BY DEF Entry
<1>2. PICK old : old = Decode(v.cells, m)
    BY Zenon
<1>3. old \in Seq(Cell) /\ Len(old) = m
    BY <1>2, DecodeIs, Zenon
<1>4. PICK cell : cell = IF old[c] = Null THEN Null ELSE id
    BY Zenon
<1>5. cell \in Cell /\ cell \in {Null, id}
    BY <1>4, Zenon DEF Cell
<1>6. PICK cells : cells = [old EXCEPT ![c] = cell]
    BY Zenon
<1>7. c \in 1..m
    BY <1>1, Zenon
<1>8. /\ cells \in Seq(Cell) /\ Len(cells) = m
      /\ \A i \in 1..m : cells[i] = IF i = c THEN cell ELSE old[i]
    BY <1>3, <1>5, <1>6, <1>7
<1>9. PICK col : col = [e.cols[c] EXCEPT !.id = id]
    BY Zenon
<1>10. col \in ColumnDef /\ col.id = id
    BY <1>9, ColumnOf DEF ColumnDef
<1>11. PICK cs : cs = [e.cols EXCEPT ![c] = col]
    BY Zenon
<1>12. /\ cs \in Seq(ColumnDef) /\ Len(cs) = m
       /\ \A i \in 1..m : cs[i] = IF i = c THEN col ELSE e.cols[i]
    <2>1. e.cols \in Seq(ColumnDef)
        BY DEF Entry
    <2> QED BY <1>1, <1>7, <1>10, <1>11, <2>1
<1>13. PICK v2, e2 : v2 = [v EXCEPT !.cells = cells] /\ e2 = [e EXCEPT !.cols = cs]
    BY Zenon
<1>14. v2 = RowCast(v, e, c, id) /\ e2 = EntryRetyped(e, c, id)
    BY <1>1, <1>2, <1>4, <1>6, <1>9, <1>11, <1>13, Zenon DEF RowCast, EntryRetyped
<1>15. Shaped(v, e, v2, e2) /\ v2.cells = cells /\ e2.cols = cs
    <2>1. cells \in Seq(Cell) /\ cs \in Seq(ColumnDef)
        BY <1>8, <1>12, Zenon
    <2> QED BY <1>13, <2>1, Shapes, Zenon
<1>16. ASSUME NEW k, Fits(v, e, k) PROVE Fits(v2, e2, k)
    <2>1. \A i \in 1..m : old[i] \in {Null, e.cols[i].id}
        BY <1>1, <1>2, <1>16, FitsDecoded, Zenon
    <2>2. \A i \in 1..m : cells[i] \in {Null, cs[i].id}
        <3> TAKE i \in 1..m
        <3> QED BY <1>5, <1>8, <1>10, <1>12, <2>1, Zenon
    <2>3. Len(v2.cells) = Len(e2.cols)
        BY <1>8, <1>12, <1>15, Zenon
    <2>4. \A i \in 1..Len(e2.cols) : v2.cells[i] \in {Null, e2.cols[i].id}
        BY <1>12, <1>15, <2>2, Zenon
    <2> QED BY <1>15, <1>16, <2>3, <2>4, FitsAnew, Zenon
<1> QED BY <1>14, <1>15, <1>16, Zenon

LEMMA DropColumnDoes ==
    ASSUME NEW s, NEW j, NEW n, NEW st, Ready(s, j, n), st.tab \in Table, Rewrites(j, n, st.tab)
    PROVE  Does(s, DropColumn(s, st), j, n + 1)
<1>1. PICK x \in Table : x = st.tab
    BY Zenon
<1>2. CASE ~Has(s, Sch(x)) \/ ColIndex(Get(s, Sch(x)), st.col) = 0
    <2>1. DropColumn(s, st) = Fail(s)
        BY <1>1, <1>2, Zenon DEF DropColumn, OnColumn, OnSchema
    <2> QED BY <2>1, FailDoes, Zenon
<1>3. CASE Has(s, Sch(x)) /\ ColIndex(Get(s, Sch(x)), st.col) # 0
    <2>1. PICK e, c : Columns(s, x, st.col, e, c)
        BY <1>3, OnColumnIs, Zenon
    <2>2. e \in Entry /\ c \in 1..Len(e.cols) /\ e = Read(s.t, Sch(x))
        BY <2>1, Zenon DEF Columns, Get
    <2>3. PICK rows : rows = [k \in Scan(s, x) |->
                                 [Get(s, k) EXCEPT !.cells = Without(Cells(s, k, e), c)]]
        BY Zenon
    <2>4. PICK ix : ix \in {Nothing, One(Index(x), {d \in Defs(s, x) : d[2] # st.col})}
                    /\ ix = IF {d \in Defs(s, x) : d[2] # st.col} = Defs(s, x) THEN Nothing
                            ELSE One(Index(x), {d \in Defs(s, x) : d[2] # st.col})
        BY Zenon
    <2>5. PICK w, e2 : w = Over(rows, ix) /\ e2 = EntryWithout(e, c)
        BY Zenon
    <2>6. DropColumn(s, st) = Fail(s) \/ DropColumn(s, st) = Persist(Put(s, w), x, e2)
        BY <1>1, <2>1, <2>3, <2>4, <2>5, Zenon DEF DropColumn, OnColumn, OnSchema, Columns, EntryWithout
    <2>7. DOMAIN rows = Scan(s, x) /\ DOMAIN ix \subseteq {Index(x)}
        BY <2>3, <2>4, NothingIs, OneIs, Zenon
    <2>8. DOMAIN w = DOMAIN rows \cup DOMAIN ix
        BY <2>5, OverDomain, Zenon
    <2>9. ASSUME NEW k \in Scan(s, x)
          PROVE  /\ w[k] \in Stored /\ w[k].odd = Read(s.t, k).odd /\ e2 \in Entry
                 /\ Fits(Read(s.t, k), e, k) => Fits(w[k], e2, k)
        <3>1. PICK v \in Stored : v = Get(s, k) /\ v = Read(s.t, k)
            BY ScanStored, Zenon
        <3>2. w[k] = rows[k]
            BY <2>5, <2>7, OverFirst, Zenon
        <3>3. rows[k] = [Get(s, k) EXCEPT !.cells = Without(Cells(s, k, e), c)]
            BY <2>3, Zenon
        <3>4. w[k] = RowWithout(v, e, c)
            BY <3>1, <3>2, <3>3, Zenon DEF RowWithout, Cells
        <3>5. Shaped(v, e, w[k], e2) /\ (Fits(v, e, k) => Fits(w[k], e2, k))
            BY <2>2, <2>5, <3>4, WithoutFits, Zenon
        <3> QED BY <3>1, <3>5, Zenon DEF Shaped
    <2>10. e2 \in Entry
        <3>1. e.cols \in Seq(ColumnDef)
            BY <2>2 DEF Entry
        <3>2. PICK cs : cs = Without(e.cols, c)
            BY Zenon
        <3>3. cs \in Seq(ColumnDef)
            BY <2>2, <3>1, <3>2, WithoutIs, Zenon
        <3>4. e2 = [e EXCEPT !.cols = cs]
            BY <2>5, <3>2, Zenon DEF EntryWithout
        <3> QED BY <2>2, <3>3, <3>4, Zenon DEF Entry
    <2>11. Rewriter(s, x, e2, w)
        BY <2>2, <2>7, <2>8, <2>9, Zenon DEF Rewriter
    <2>12. Does(s, Persist(Put(s, w), x, e2), j, n + 1)
        BY <1>1, <2>10, <2>11, TableRewritten, Zenon
    <2> QED BY <2>6, <2>12, FailDoes, Zenon
<1> QED BY <1>2, <1>3, Zenon

LEMMA AlterTypeDoes ==
    ASSUME NEW s, NEW j, NEW n, NEW st, Ready(s, j, n), st.tab \in Table, Rewrites(j, n, st.tab),
           st.col \in STRING
    PROVE  Does(s, AlterType(s, st), j, n + 1)
<1>1. PICK x \in Table : x = st.tab
    BY Zenon
<1>2. CASE ~Has(s, Sch(x)) \/ ColIndex(Get(s, Sch(x)), st.col) = 0
    <2>1. AlterType(s, st) = Fail(s)
        BY <1>1, <1>2, Zenon DEF AlterType, OnColumn, OnSchema
    <2> QED BY <2>1, FailDoes, Zenon
<1>3. CASE Has(s, Sch(x)) /\ ColIndex(Get(s, Sch(x)), st.col) # 0
    <2>1. PICK e, c : Columns(s, x, st.col, e, c)
        BY <1>3, OnColumnIs, Zenon
    <2>2. e \in Entry /\ c \in 1..Len(e.cols) /\ e = Read(s.t, Sch(x))
        BY <2>1, Zenon DEF Columns, Get
    <2>3. PICK id : id = <<st.col, s.now>>
        BY Zenon
    <2>4. id \in STRING \X Nat
        BY <2>3 DEF Ready
    <2>5. PICK w : w = [k \in Scan(s, x) |->
              [Get(s, k) EXCEPT !.cells =
                  [Cells(s, k, e) EXCEPT ![c] = IF @ = Null THEN Null ELSE id]]]
        BY Zenon
    <2>6. PICK e2 : e2 = EntryRetyped(e, c, id)
        BY Zenon
    <2>7. AlterType(s, st) = Fail(s) \/ AlterType(s, st) = Persist(Put(s, w), x, e2)
        BY <1>1, <2>1, <2>3, <2>5, <2>6, Zenon DEF AlterType, OnColumn, OnSchema, Columns, EntryRetyped
    <2>8. DOMAIN w = Scan(s, x)
        BY <2>5, Zenon
    <2>9. ASSUME NEW k \in Scan(s, x)
          PROVE  /\ w[k] \in Stored /\ w[k].odd = Read(s.t, k).odd
                 /\ Fits(Read(s.t, k), e, k) => Fits(w[k], e2, k)
        <3>1. PICK v \in Stored : v = Get(s, k) /\ v = Read(s.t, k)
            BY ScanStored, Zenon
        <3>2. w[k] = [Get(s, k) EXCEPT !.cells =
                         [Cells(s, k, e) EXCEPT ![c] = IF @ = Null THEN Null ELSE id]]
            BY <2>5, Zenon
        <3>3. w[k] = RowCast(v, e, c, id)
            BY <3>1, <3>2, Zenon DEF RowCast, Cells
        <3>4. Shaped(v, e, w[k], e2) /\ (Fits(v, e, k) => Fits(w[k], e2, k))
            BY <2>2, <2>4, <2>6, <3>3, CastFits, Zenon
        <3> QED BY <3>1, <3>4, Zenon DEF Shaped
    <2>10. e2 \in Entry
        <3>1. e.cols \in Seq(ColumnDef)
            BY <2>2 DEF Entry
        <3>2. PICK col : col = [e.cols[c] EXCEPT !.id = id]
            BY Zenon
        <3>3. col \in ColumnDef
            BY <2>2, <2>4, <3>2, ColumnOf DEF ColumnDef
        <3>4. PICK cs : cs = [e.cols EXCEPT ![c] = col]
            BY Zenon
        <3>5. cs \in Seq(ColumnDef)
            BY <2>2, <3>1, <3>3, <3>4
        <3>6. e2 = [e EXCEPT !.cols = cs]
            BY <2>6, <3>2, <3>4, Zenon DEF EntryRetyped
        <3> QED BY <2>2, <3>5, <3>6, Zenon DEF Entry
    <2>11. Rewriter(s, x, e2, w)
        BY <2>2, <2>8, <2>9, Zenon DEF Rewriter
    <2>12. Does(s, Persist(Put(s, w), x, e2), j, n + 1)
        BY <1>1, <2>10, <2>11, TableRewritten, Zenon
    <2> QED BY <2>7, <2>12, FailDoes, Zenon
<1> QED BY <1>2, <1>3, Zenon

-----------------------------------------------------------------------------
(* RENAME of the table x to y.                                             *)

\* The key under which the row at l is copied or deleted, in the table z.
At(s, z, e, l) == Row(s.br, z, PrimaryKey(s, l, e))

\* The writes of renameTable.
RenameWrites(s, x, y, e, w) ==
    /\ Sch(y) \in DOMAIN w /\ w[Sch(y)] = e
    /\ Sch(x) \in DOMAIN w /\ w[Sch(x)] = Absent
    /\ \A z \in Table \ {x, y} : Sch(z) \notin DOMAIN w
    /\ \A k \in RowKey \cap DOMAIN w :
           \/ \E l \in Scan(s, x) : /\ k = At(s, y, e, l)
                                    /\ w[k] = [Get(s, l) EXCEPT !.cells = Cells(s, l, e)]
           \/ w[k] \in {Absent, Tombstone} /\ \E l \in Scan(s, x) : k = At(s, x, e, l)
    /\ \A l \in Scan(s, x) : At(s, x, e, l) \in DOMAIN w

LEMMA RenameLeaves ==
    ASSUME NEW s, NEW j, NEW n, NEW x \in Table, NEW y \in Table, x # y, Ready(s, j, n),
           Rewrites(j, n, x), j[n + 1].op = "renameTable", NEW e \in Entry, e = Read(s.t, Sch(x)),
           Read(s.t, Sch(y)) = Absent, NEW w, RenameWrites(s, x, y, e, w), NEW u, Changed(s.t, u, w)
    PROVE  Left(s.t, u, s.br, j, n, x, {x, y})
<1>1. PICK t, b : t = s.t /\ b = s.br
    BY Zenon
<1>2. Good(t, b, j, n) /\ b \in Branch /\ Changed(t, u, w) /\ Read(t, Sch(y)) = Absent
    BY <1>1, Zenon DEF Ready
<1>3. Sch(x) \in Key /\ Sch(y) \in Key
    BY SchIs, Zenon
<1>4. u.buf[Sch(x)] # Keep /\ Read(u, Sch(x)) = Absent
    BY <1>2, <1>3, Markers DEF Changed, Read, RenameWrites
<1>5. u.buf[Sch(y)] # Keep /\ Read(u, Sch(y)) = e
    BY <1>2, <1>3, Markers DEF Changed, Read, RenameWrites
<1>6. ASSUME NEW z \in Table \ {x, y}
      PROVE  u.buf[Sch(z)] = t.buf[Sch(z)] /\ Read(u, Sch(z)) = Read(t, Sch(z))
    <2>1. Sch(z) \in Key /\ Sch(z) \notin DOMAIN w
        BY SchIs, Zenon DEF RenameWrites
    <2> QED BY <1>2, <2>1 DEF Changed, Read
<1>7. ASSUME NEW k \in RowKey, k \notin DOMAIN w
      PROVE  u.buf[k] = t.buf[k] /\ Read(u, k) = Read(t, k)
    <2>1. k \in Key
        BY RowKeyParts, Zenon
    <2> QED BY <1>2, <1>7, <2>1 DEF Changed, Read
<1>8. ASSUME NEW k \in RowKey, k \in DOMAIN w
      PROVE  /\ k[2] = b /\ Read(u, k) = w[k]
             /\ \/ k[3] = x /\ w[k] \in {Absent, Tombstone}
                \/ k[3] = y /\ w[k] \in Stored /\ (Plain(w[k]) /\ ~Several(j, n + 1, b) => Fits(w[k], e, k))
    <2>1. k \in Key
        BY RowKeyParts, Zenon
    <2>2. w[k] # Keep => Read(u, k) = w[k]
        BY <1>2, <1>8, <2>1 DEF Changed, Read
    <2>3. CASE w[k] \in {Absent, Tombstone} /\ \E l \in Scan(s, x) : k = At(s, x, e, l)
        <3>1. k[2] = b /\ k[3] = x
            <4>1. PICK p : k = Row(b, x, p)
                BY <1>1, <2>3, Zenon DEF At
            <4> QED BY <4>1 DEF Row
        <3>2. w[k] # Keep
            BY <2>3, Markers, Zenon
        <3> QED BY <2>2, <2>3, <3>1, <3>2, Zenon
    <2>4. ASSUME NEW l \in Scan(s, x), k = At(s, y, e, l), w[k] = [Get(s, l) EXCEPT !.cells = Cells(s, l, e)]
          PROVE  /\ k[2] = b /\ k[3] = y /\ w[k] \in Stored
                 /\ Plain(w[k]) /\ ~Several(j, n + 1, b) => Fits(w[k], e, k)
        <3>1. k[2] = b /\ k[3] = y /\ k[4] = PrimaryKey(s, l, e)
            BY <1>1, <2>4 DEF At, Row
        <3>2. PICK v \in Stored : v = Get(s, l) /\ v = Read(s.t, l)
            BY ScanStored, Zenon
        <3>3. PICK m \in Nat : m = Len(e.cols)
            BY DEF Entry
        <3>4. PICK cells : cells = Decode(v.cells, m)
            BY Zenon
        <3>5. cells \in Seq(Cell) /\ Len(cells) = m
            BY <3>4, DecodeIs, Zenon
        <3>6. w[k] = [v EXCEPT !.cells = cells]
            BY <2>4, <3>2, <3>3, <3>4, Zenon DEF Cells
        <3>7. PICK v2 \in Stored : /\ v2 = w[k] /\ v2.inc = v.inc /\ v2.id = v.id /\ v2.odd = v.odd
                                   /\ v2.cells = cells
            <4>1. PICK v2 : v2 = [v EXCEPT !.cells = cells]
                BY Zenon
            <4>2. v2 \in Stored /\ v2.inc = v.inc /\ v2.id = v.id /\ v2.odd = v.odd /\ v2.cells = cells
                BY <3>5, <4>1 DEF Stored
            <4> QED BY <3>6, <4>1, <4>2, Zenon
        <3>8. ASSUME Plain(w[k]), ~Several(j, n + 1, b) PROVE Fits(w[k], e, k)
            <4>1. Plain(v)
                BY <3>7, <3>8, Markers, Zenon DEF Plain
            <4>2. Fits(v, e, l)
                BY <1>1, <3>2, <3>8, <4>1, ScannedFits, Zenon
            <4>3. \A i \in 1..m : cells[i] \in {Null, e.cols[i].id}
                BY <3>3, <3>4, <4>2, FitsDecoded, Zenon
            <4>4. DOMAIN cells = 1..m /\ Len(cells) <= m
                BY <3>5
            <4>5. e.pk = "declared" => k[4] = <<"pk", v.id>>
                BY <3>1, <3>2 DEF PrimaryKey
            <4>6. e.pk = "none" => k[4][1] # "pk"
                BY <3>1 DEF PrimaryKey
            <4>7. e # Absent /\ v.inc = e.inc
                BY <4>2, Zenon DEF Fits
            <4> QED BY <3>3, <3>7, <4>3, <4>4, <4>5, <4>6, <4>7, Zenon DEF Fits
        <3> QED BY <3>1, <3>7, <3>8, Zenon
    <2>5. ASSUME NEW l \in Scan(s, x), k = At(s, y, e, l), w[k] = [Get(s, l) EXCEPT !.cells = Cells(s, l, e)]
          PROVE  w[k] # Keep
        BY <2>4, <2>5, Markers, Zenon
    <2> QED BY <1>8, <2>2, <2>3, <2>4, <2>5, Zenon DEF RenameWrites
<1>9. ~Several(j, n + 1, b) => \A z : ~Names(j, n, Rewriting, z)
    BY NoneBefore, Zenon
<1>10. ASSUME NEW k \in RowKey, k[3] \in {x, y}, u.buf[k] # Keep \/ k[2] = b, Plain(Read(u, k)),
              ~Exempt(u, b, j, n + 1, k, Read(u, k))
       PROVE  Fits(Read(u, k), Read(u, Sch(k[3])), k)
    <2>1. ~Several(j, n + 1, b)
        BY <1>4, <1>5, <1>10, Zenon DEF Exempt
    <2>2. CASE k \in DOMAIN w
        BY <1>5, <1>8, <1>10, <2>1, <2>2, Zenon DEF Plain
    <2>3. CASE k \notin DOMAIN w
        <3>1. u.buf[k] = t.buf[k] /\ Read(u, k) = Read(t, k)
            BY <1>7, <2>3, Zenon
        <3>2. Fits(Read(t, k), Read(t, Sch(k[3])), k)
            <4>1. ~Exempt(t, b, j, n, k, Read(t, k))
                BY <2>1, NotExempt, Zenon
            <4> QED BY <1>2, <1>10, <3>1, <4>1, Zenon DEF Good, Seen
        <3>3. k[3] = x
            BY <1>2, <1>10, <3>2, Zenon DEF Fits
        <3>4. k[2] = b
            <4>1. k[2] # b => Several(j, n + 1, b)
                BY <1>2, <1>10, <3>1, WrittenElsewhere, Zenon
            <4> QED BY <2>1, <4>1, Zenon
        <3>5. k \in Scan(s, x)
            BY <1>1, <1>2, <1>10, <3>1, <3>3, <3>4, ScanOwn, Zenon DEF Plain
        <3>6. k[4] = <<"pk", Read(t, k).id>>
            <4>1. Names(j, n + 1, {"renameTable"}, x)
                <5>1. n + 1 \in 1..(n + 1)
                    BY DEF Rewrites
                <5> QED BY <5>1, Zenon DEF Rewrites, Names
            <4> QED BY <1>4, <1>10, <3>1, <3>3, <4>1, Zenon DEF Exempt
        <3>7. e.pk # "none"
            <4>1. k[4][1] = "pk"
                BY <3>6
            <4> QED BY <1>1, <3>2, <3>3, <4>1, Zenon DEF Fits
        <3>8. k = At(s, x, e, k)
            <4>1. PrimaryKey(s, k, e) = k[4]
                BY <1>1, <3>6, <3>7, Zenon DEF PrimaryKey, Get
            <4>2. k = Row(k[2], k[3], k[4])
                BY KeyOf, Zenon
            <4> QED BY <1>1, <3>3, <3>4, <4>1, <4>2, Zenon DEF At
        <3>9. k \in DOMAIN w
            BY <3>5, <3>8, Zenon DEF RenameWrites
        <3> QED BY <2>3, <3>9, Zenon
    <2> QED BY <2>2, <2>3, Zenon
<1>11. Shown(u)
    <2>1. \A k \in RowKey : Read(u, k) \in Stored \cup {Absent, Tombstone}
        <3> TAKE k \in RowKey
        <3> QED BY <1>2, <1>7, <1>8, Zenon DEF Good, Shown
    <2>2. \A z \in Table : Read(u, Sch(z)) \in Entry \cup {Absent}
        <3> TAKE z \in Table
        <3> QED BY <1>2, <1>4, <1>5, <1>6, Zenon DEF Good, Shown
    <2> QED BY <2>1, <2>2, Zenon DEF Shown
<1>12. \A k \in RowKey : k[3] \notin {x, y} => u.buf[k] = t.buf[k]
    BY <1>7, <1>8, Zenon
<1>13. \A k \in RowKey : k[2] # b => u.buf[k] = t.buf[k]
    BY <1>7, <1>8, Zenon
<1>14. IsTxn(u) /\ u.snap = t.snap
    BY <1>2, Zenon DEF Changed
<1>15. Left(t, u, b, j, n, x, {x, y})
    BY <1>2, <1>4, <1>5, <1>6, <1>10, <1>11, <1>12, <1>13, <1>14, Zenon DEF Left
<1> QED BY <1>1, <1>15, Zenon

Copies(s, x, y, e) ==
    [m \in {At(s, y, e, k) : k \in Scan(s, x)} |->
        [Get(s, CHOOSE k \in Scan(s, x) : m = At(s, y, e, k)) EXCEPT
            !.cells = Cells(s, CHOOSE k \in Scan(s, x) : m = At(s, y, e, k), e)]]

Deletes(s, x, e) ==
    [k \in {At(s, x, e, l) : l \in Scan(s, x)} |-> IF s.br = Main THEN Absent ELSE Tombstone]

Renamed(x, y, e) == Over(One(Sch(y), e), One(Sch(x), Absent))

Reindexed(s, x, y) ==
    Over(IF Defs(s, x) = {} THEN Nothing ELSE One(Index(y), Defs(s, x)), One(Index(x), Absent))

Moves(s, x, y, e) ==
    Over(Over(Copies(s, x, y, e), Deletes(s, x, e)), Over(Renamed(x, y, e), Reindexed(s, x, y)))

LEMMA RenameTableIs ==
    ASSUME NEW s, NEW st, NEW e, Has(s, Sch(st.tab)), e = Get(s, Sch(st.tab))
    PROVE  \/ st.new = st.tab /\ RenameTable(s, st) = s
           \/ RenameTable(s, st) = Fail(s)
           \/ /\ st.new # st.tab /\ ~Has(s, Sch(st.new))
              /\ RenameTable(s, st) = Put(s, Moves(s, st.tab, st.new, e))
BY Zenon DEF RenameTable, OnSchema, Moves, Copies, Deletes, Renamed, Reindexed, At

LEMMA RenameWritesIs ==
    ASSUME NEW s, NEW x \in Table, NEW y \in Table, x # y, NEW e, NEW w, w = Moves(s, x, y, e)
    PROVE  RenameWrites(s, x, y, e, w)
<1>1. PICK f, g, h, i : /\ f = Copies(s, x, y, e) /\ g = Deletes(s, x, e)
                        /\ h = Renamed(x, y, e) /\ i = Reindexed(s, x, y)
    BY Zenon
<1>2. PICK rows, cat : rows = Over(f, g) /\ cat = Over(h, i)
    BY Zenon
<1>3. w = Over(rows, cat)
    BY <1>1, <1>2, Zenon DEF Moves
<1>5. /\ DOMAIN f = {At(s, y, e, k) : k \in Scan(s, x)}
      /\ \A k \in DOMAIN f : \E l \in Scan(s, x) :
             k = At(s, y, e, l) /\ f[k] = [Get(s, l) EXCEPT !.cells = Cells(s, l, e)]
    <2>1. DOMAIN f = {At(s, y, e, k) : k \in Scan(s, x)}
        BY <1>1, Zenon DEF Copies
    <2>2. ASSUME NEW k \in DOMAIN f
          PROVE  \E l \in Scan(s, x) :
                     k = At(s, y, e, l) /\ f[k] = [Get(s, l) EXCEPT !.cells = Cells(s, l, e)]
        <3>1. PICK l : l = CHOOSE m \in Scan(s, x) : k = At(s, y, e, m)
            BY Zenon
        <3>2. l \in Scan(s, x) /\ k = At(s, y, e, l)
            BY <2>1, <3>1, Zenon
        <3>3. f[k] = [Get(s, l) EXCEPT !.cells = Cells(s, l, e)]
            BY <1>1, <2>1, <3>1, Zenon DEF Copies
        <3> QED BY <3>2, <3>3, Zenon
    <2> QED BY <2>1, <2>2, Zenon
<1>6. /\ DOMAIN g = {At(s, x, e, k) : k \in Scan(s, x)}
      /\ \A k \in DOMAIN g : g[k] \in {Absent, Tombstone}
    BY <1>1, Zenon DEF Deletes
<1>7. /\ DOMAIN h = {Sch(x), Sch(y)} /\ h[Sch(y)] = e /\ h[Sch(x)] = Absent
    <2>1. PICK p, q : p = One(Sch(y), e) /\ q = One(Sch(x), Absent)
        BY Zenon
    <2>2. DOMAIN p = {Sch(y)} /\ p[Sch(y)] = e /\ DOMAIN q = {Sch(x)} /\ q[Sch(x)] = Absent
        BY <2>1, OneIs, Zenon
    <2>3. h = Over(p, q)
        BY <1>1, <2>1, Zenon DEF Renamed
    <2>4. Sch(x) # Sch(y)
        BY SchIs, Zenon
    <2>5. DOMAIN h = DOMAIN p \cup DOMAIN q
        BY <2>3, OverDomain, Zenon
    <2>6. Sch(y) \in DOMAIN p /\ Sch(x) \in DOMAIN q /\ Sch(x) \notin DOMAIN p
        BY <2>2, <2>4, Zenon
    <2>7. h[Sch(y)] = p[Sch(y)]
        BY <2>3, <2>6, OverFirst, Zenon
    <2>8. h[Sch(x)] = q[Sch(x)]
        BY <2>3, <2>6, OverSecond, Zenon
    <2> QED BY <2>2, <2>5, <2>7, <2>8, Zenon
<1>8. DOMAIN i \subseteq {Index(x), Index(y)}
    <2>1. PICK p, q : /\ p = (IF Defs(s, x) = {} THEN Nothing ELSE One(Index(y), Defs(s, x)))
                      /\ q = One(Index(x), Absent)
        BY Zenon
    <2>2. DOMAIN p \subseteq {Index(y)} /\ DOMAIN q = {Index(x)}
        BY <2>1, OneIs, NothingIs, Zenon
    <2>3. i = Over(p, q)
        BY <1>1, <2>1, Zenon DEF Reindexed
    <2>4. DOMAIN i = DOMAIN p \cup DOMAIN q
        BY <2>3, OverDomain, Zenon
    <2> QED BY <2>2, <2>4, Zenon
<1>9. DOMAIN rows = DOMAIN f \cup DOMAIN g
    BY <1>2, OverDomain, Zenon
<1>10. DOMAIN cat = DOMAIN h \cup DOMAIN i
    BY <1>2, OverDomain, Zenon
<1>11. DOMAIN w = DOMAIN rows \cup DOMAIN cat
    BY <1>3, OverDomain, Zenon
<1>12. \A z : Sch(z)[1] = "schema" /\ Index(z)[1] = "index"
    BY DEF Sch, Index
<1>13. \A k \in DOMAIN rows : k[1] = "row"
    <2>1. \A k \in DOMAIN f : k[1] = "row"
        BY <1>5 DEF At, Row
    <2>2. \A k \in DOMAIN g : k[1] = "row"
        BY <1>6 DEF At, Row
    <2> QED BY <1>9, <2>1, <2>2, Zenon
<1>14. \A z : Sch(z) \notin DOMAIN rows
    BY <1>12, <1>13
<1>15. \A z \in {x, y} : Sch(z) \in DOMAIN w /\ w[Sch(z)] = h[Sch(z)]
    <2> TAKE z \in {x, y}
    <2>1. Sch(z) \in DOMAIN h /\ Sch(z) \in DOMAIN cat /\ Sch(z) \notin DOMAIN rows
        BY <1>7, <1>10, <1>14, Zenon
    <2>2. w[Sch(z)] = cat[Sch(z)]
        <3>1. Over(rows, cat)[Sch(z)] = cat[Sch(z)]
            BY <2>1, OverSecond, Zenon
        <3> QED BY <1>3, <3>1, Zenon
    <2>3. cat[Sch(z)] = h[Sch(z)]
        BY <1>2, <2>1, OverFirst, Zenon
    <2> QED BY <1>11, <2>1, <2>2, <2>3, Zenon
<1>16. \A z \in Table \ {x, y} : Sch(z) \notin DOMAIN w
    <2> TAKE z \in Table \ {x, y}
    <2>1. Sch(z) \notin {Sch(x), Sch(y), Index(x), Index(y)}
        BY DEF Sch, Index
    <2> QED BY <1>7, <1>8, <1>10, <1>11, <1>14, <2>1, Zenon
<1>17. ASSUME NEW k \in RowKey, k \in DOMAIN w
       PROVE  \/ \E l \in Scan(s, x) : /\ k = At(s, y, e, l)
                                       /\ w[k] = [Get(s, l) EXCEPT !.cells = Cells(s, l, e)]
              \/ w[k] \in {Absent, Tombstone} /\ \E l \in Scan(s, x) : k = At(s, x, e, l)
    <2>1. k \notin {Sch(x), Sch(y), Index(x), Index(y)}
        BY SchIs, OtherKeys, Zenon
    <2>2. k \in DOMAIN rows
        BY <1>7, <1>8, <1>10, <1>11, <1>17, <2>1, Zenon
    <2>3. w[k] = rows[k]
        <3>1. Over(rows, cat)[k] = rows[k]
            BY <2>2, OverFirst, Zenon
        <3> QED BY <1>3, <3>1, Zenon
    <2>4. CASE k \in DOMAIN f
        <3>1. rows[k] = f[k]
            BY <1>2, <2>4, OverFirst, Zenon
        <3> QED BY <1>5, <2>3, <2>4, <3>1, Zenon
    <2>5. CASE k \notin DOMAIN f
        <3>1. k \in DOMAIN g
            BY <1>9, <2>2, <2>5, Zenon
        <3>2. rows[k] = g[k]
            BY <1>2, <2>5, <3>1, OverSecond, Zenon
        <3> QED BY <1>6, <2>3, <3>1, <3>2, Zenon
    <2> QED BY <2>4, <2>5, Zenon
<1>18. \A l \in Scan(s, x) : At(s, x, e, l) \in DOMAIN w
    BY <1>6, <1>9, <1>11, Zenon
<1> QED BY <1>7, <1>15, <1>16, <1>17, <1>18, Zenon DEF RenameWrites

LEMMA RenameTableDoes ==
    ASSUME NEW s, NEW j, NEW n, NEW st, Ready(s, j, n), st.tab \in Table, st.new \in Table,
           Rewrites(j, n, st.tab), j[n + 1].op = "renameTable"
    PROVE  Does(s, RenameTable(s, st), j, n + 1)
<1>1. Does(s, Fail(s), j, n + 1)
    BY FailDoes, Zenon
<1>2. Does(s, s, j, n + 1)
    BY Shift, StayDoes, Zenon DEF Ready, Rewrites, Does, Kept
<1>3. CASE ~Has(s, Sch(st.tab))
    BY <1>1, <1>3, Zenon DEF RenameTable, OnSchema
<1>4. CASE Has(s, Sch(st.tab))
    <2>1. PICK e : e = Get(s, Sch(st.tab))
        BY Zenon
    <2>2. PICK x \in Table, y \in Table : x = st.tab /\ y = st.new
        BY Zenon
    <2>3. PICK w : w = Moves(s, x, y, e)
        BY Zenon
    <2>4. \/ RenameTable(s, st) \in {s, Fail(s)}
          \/ x # y /\ ~Has(s, Sch(y)) /\ RenameTable(s, st) = Put(s, w)
        BY <1>4, <2>1, <2>2, <2>3, RenameTableIs, Zenon
    <2>5. ASSUME x # y, ~Has(s, Sch(y)) PROVE Does(s, Put(s, w), j, n + 1)
        <3>1. RenameWrites(s, x, y, e, w)
            BY <2>3, <2>5, RenameWritesIs, Zenon
        <3>2. PICK t, r : t = s.t /\ r = Put(s, w)
            BY Zenon
        <3>3. IsState(s) /\ IsTxn(s.t) /\ Good(s.t, s.br, j, n)
            BY Zenon DEF Ready, Good
        <3>4. Kept(s, r) /\ Changed(s.t, r.t, w)
            BY <3>2, <3>3, PutIs, Zenon
        <3>5. e \in Entry /\ e = Read(s.t, Sch(x)) /\ Read(s.t, Sch(y)) = Absent
            BY <1>4, <2>1, <2>2, <2>5, <3>3, Zenon DEF Has, Get, Good, Shown
        <3>6. Rewrites(j, n, x)
            BY <2>2, Zenon
        <3>7. Changed(s.t, r.t, w)
            BY <3>4, Zenon
        <3>8. Left(s.t, r.t, s.br, j, n, x, {x, y})
            BY <2>5, <3>1, <3>5, <3>6, <3>7, RenameLeaves, Zenon
        <3>9. Good(r.t, s.br, j, n + 1)
            BY <3>3, <3>6, <3>8, Rewritten, Zenon
        <3> QED BY <3>2, <3>4, <3>9, Zenon DEF Does, Kept
    <2> QED BY <1>1, <1>2, <2>4, <2>5, Zenon
<1> QED BY <1>3, <1>4, Zenon

-----------------------------------------------------------------------------
(* A statement of any kind.                                                *)

\* The fields that the lemmas above ask of a statement, by what it is.
IsTableStmt(st) ==
    \/ st.op = "createTable" /\ st.cols \in Seq(STRING) /\ st.pk \in {"none", "declared"}
    \/ st.op = "createTableAs" /\ st.from \in Table
    \/ st.op = "dropTable"
    \/ st.op = "renameTable" /\ st.new \in Table
    \/ st.op = "truncate"
    \/ st.op = "insert" /\ st.id \in Ids

IsAlterStmt(st) ==
    \/ st.op = "addColumn" /\ st.col \in STRING
    \/ st.op = "dropColumn"
    \/ st.op = "check" /\ st.col \in STRING
    \/ st.op = "renameColumn" /\ st.new \in STRING
    \/ st.op = "columnType" /\ st.col \in STRING
    \/ st.op = "column" /\ st.on \in BOOLEAN
    \/ st.op = "primaryKey"
    \/ st.op = "rls" /\ st.on \in BOOLEAN
    \/ st.op = "createPolicy" /\ st.name \in STRING /\ st.using \in STRING
    \/ st.op = "alterPolicy" /\ st.name \in STRING /\ st.using \in STRING
    \/ st.op = "dropPolicy"

IsOtherStmt(st) ==
    \/ st.op = "createIndex"
    \/ st.op = "createView"
    \/ st.op = "createType"
    \/ st.op = "createSequence"
    \/ st.op = "dropSequence"
    \/ st.op = "dropView"

LEMMA StatementIs ==
    ASSUME NEW st \in Statement
    PROVE  st.tab \in Table /\ (IsTableStmt(st) \/ IsAlterStmt(st) \/ IsOtherStmt(st))
<1>1. CASE st \in TableStmt
    BY <1>1, Zenon DEF TableStmt, IsTableStmt
<1>2. CASE st \in AlterStmt
    BY <1>2, Zenon DEF AlterStmt, IsAlterStmt
<1>3. CASE st \in OtherStmt
    BY <1>3, Zenon DEF OtherStmt, IsOtherStmt
<1> QED BY <1>1, <1>2, <1>3, Zenon DEF Statement

LEMMA TableStmtDoes ==
    ASSUME NEW s, NEW j, NEW n \in Nat, NEW st, Ready(s, j, n), st.tab \in Table, st = j[n + 1],
           IsTableStmt(st),
           st.op = "createTableAs" => s.picked # None
    PROVE  Does(s, Exec(s, st), j, n) \/ Does(s, Exec(s, st), j, n + 1)
<1>1. CASE st.op = "createTable" /\ st.cols \in Seq(STRING) /\ st.pk \in {"none", "declared"}
    <2>1. Exec(s, st) = CreateTable(s, st)
        BY <1>1, Zenon DEF Exec
    <2> QED BY <1>1, <2>1, CreateTableDoes, Zenon
<1>2. CASE st.op = "createTableAs" /\ st.from \in Table
    <2>1. Exec(s, st) = CreateTableAs(s, st)
        BY <1>2, Zenon DEF Exec
    <2> QED BY <1>2, <2>1, CreateTableAsDoes, Zenon
<1>3. CASE st.op = "dropTable"
    <2>1. Rewrites(j, n, st.tab)
        BY <1>3, Zenon DEF Rewrites, Rewriting
    <2>2. Exec(s, st) = DropTable(s, st)
        BY <1>3, Zenon DEF Exec
    <2> QED BY <1>3, <2>1, <2>2, DropTableDoes, Zenon
<1>4. CASE st.op = "renameTable" /\ st.new \in Table
    <2>1. Rewrites(j, n, st.tab)
        BY <1>4, Zenon DEF Rewrites, Rewriting
    <2>2. Exec(s, st) = RenameTable(s, st)
        BY <1>4, Zenon DEF Exec
    <2> QED BY <1>4, <2>1, <2>2, RenameTableDoes, Zenon
<1>5. CASE st.op = "truncate"
    <2>1. Exec(s, st) = Truncate(s, st)
        BY <1>5, Zenon DEF Exec
    <2> QED BY <1>5, <2>1, TruncateDoes, Zenon
<1>6. CASE st.op = "insert" /\ st.id \in Ids
    <2>1. Exec(s, st) = Insert(s, st)
        BY <1>6, Zenon DEF Exec
    <2> QED BY <1>6, <2>1, InsertDoes, Zenon
<1> QED BY <1>1, <1>2, <1>3, <1>4, <1>5, <1>6, Zenon DEF IsTableStmt

LEMMA AlterStmtDoes ==
    ASSUME NEW s, NEW j, NEW n \in Nat, NEW st, Ready(s, j, n), st.tab \in Table, st = j[n + 1],
           IsAlterStmt(st)
    PROVE  Does(s, Exec(s, st), j, n) \/ Does(s, Exec(s, st), j, n + 1)
<1>1. CASE st.op = "addColumn" /\ st.col \in STRING
    <2>1. Exec(s, st) = AddColumn(s, st)
        BY <1>1, Zenon DEF Exec
    <2> QED BY <1>1, <2>1, AddColumnDoes, Zenon
<1>2. CASE st.op = "dropColumn"
    <2>1. Rewrites(j, n, st.tab)
        BY <1>2, Zenon DEF Rewrites, Rewriting
    <2>2. Exec(s, st) = DropColumn(s, st)
        BY <1>2, Zenon DEF Exec
    <2> QED BY <1>2, <2>1, <2>2, DropColumnDoes, Zenon
<1>3. CASE st.op = "check" /\ st.col \in STRING
    <2>1. Exec(s, st) = AddCheck(s, st)
        BY <1>3, Zenon DEF Exec
    <2> QED BY <1>3, <2>1, AddCheckDoes, Zenon
<1>4. CASE st.op = "renameColumn" /\ st.new \in STRING
    <2>1. Exec(s, st) = RenameColumn(s, st)
        BY <1>4, Zenon DEF Exec
    <2> QED BY <1>4, <2>1, RenameColumnDoes, Zenon
<1>5. CASE st.op = "columnType" /\ st.col \in STRING
    <2>1. Rewrites(j, n, st.tab)
        BY <1>5, Zenon DEF Rewrites, Rewriting
    <2>2. Exec(s, st) = AlterType(s, st)
        BY <1>5, Zenon DEF Exec
    <2> QED BY <1>5, <2>1, <2>2, AlterTypeDoes, Zenon
<1>6. CASE st.op = "column" /\ st.on \in BOOLEAN
    <2>1. Exec(s, st) = AlterColumn(s, st)
        BY <1>6, Zenon DEF Exec
    <2> QED BY <1>6, <2>1, AlterColumnDoes, Zenon
<1>7. CASE st.op = "primaryKey"
    <2>1. Exec(s, st) = AddPrimaryKey(s, st)
        BY <1>7, Zenon DEF Exec
    <2> QED BY <1>7, <2>1, AddPrimaryKeyDoes, Zenon
<1>8. CASE st.op = "rls" /\ st.on \in BOOLEAN
    <2>1. Exec(s, st) = AlterRLS(s, st)
        BY <1>8, Zenon DEF Exec
    <2> QED BY <1>8, <2>1, AlterRLSDoes, Zenon
<1>9. CASE st.op = "createPolicy" /\ st.name \in STRING /\ st.using \in STRING
    <2>1. Exec(s, st) = CreatePolicy(s, st)
        BY <1>9, Zenon DEF Exec
    <2> QED BY <1>9, <2>1, PolicyDoes, Zenon
<1>10. CASE st.op = "alterPolicy" /\ st.name \in STRING /\ st.using \in STRING
    <2>1. Exec(s, st) = AlterPolicy(s, st)
        BY <1>10, Zenon DEF Exec
    <2> QED BY <1>10, <2>1, PolicyDoes, Zenon
<1>11. CASE st.op = "dropPolicy"
    <2>1. Exec(s, st) = DropPolicy(s, st)
        BY <1>11, Zenon DEF Exec
    <2> QED BY <1>11, <2>1, PolicyDoes, Zenon
<1> QED BY <1>1, <1>2, <1>3, <1>4, <1>5, <1>6, <1>7, <1>8, <1>9, <1>10, <1>11, Zenon DEF IsAlterStmt

LEMMA OtherStmtDoes ==
    ASSUME NEW s, NEW j, NEW n \in Nat, NEW st, Ready(s, j, n), st.tab \in Table, st = j[n + 1],
           IsOtherStmt(st)
    PROVE  Does(s, Exec(s, st), j, n) \/ Does(s, Exec(s, st), j, n + 1)
<1>1. CASE st.op = "createIndex"
    <2>1. Exec(s, st) = CreateIndex(s, st)
        BY <1>1, Zenon DEF Exec
    <2> QED BY <1>1, <2>1, OtherStatementsDo, Zenon
<1>2. CASE st.op = "createView"
    <2>1. Exec(s, st) = CreateView(s, st)
        BY <1>2, Zenon DEF Exec
    <2> QED BY <1>2, <2>1, OtherStatementsDo, Zenon
<1>3. CASE st.op = "createType"
    <2>1. Exec(s, st) = CreateType(s, st)
        BY <1>3, Zenon DEF Exec
    <2> QED BY <1>3, <2>1, OtherStatementsDo, Zenon
<1>4. CASE st.op = "createSequence"
    <2>1. Exec(s, st) = CreateSequence(s, st)
        BY <1>4, Zenon DEF Exec
    <2> QED BY <1>4, <2>1, OtherStatementsDo, Zenon
<1>5. CASE st.op = "dropSequence"
    <2>1. Exec(s, st) = DropEntry(s, st, Sequence(st.tab))
        BY <1>5, Zenon DEF Exec
    <2> QED BY <1>5, <2>1, OtherStatementsDo, Zenon
<1>6. CASE st.op = "dropView"
    <2>1. Exec(s, st) = DropEntry(s, st, View(st.tab))
        BY <1>6, Zenon DEF Exec
    <2> QED BY <1>6, <2>1, OtherStatementsDo, Zenon
<1> QED BY <1>1, <1>2, <1>3, <1>4, <1>5, <1>6, Zenon DEF IsOtherStmt

LEMMA ExecDoes ==
    ASSUME NEW s, NEW j, NEW n \in Nat, NEW st \in Statement, Ready(s, j, n), st = j[n + 1],
           st.op = "createTableAs" => s.picked # None
    PROVE  Does(s, Exec(s, st), j, n + 1)
<1>1. st.tab \in Table
    BY StatementIs, Zenon
<1>2. Does(s, Exec(s, st), j, n) \/ Does(s, Exec(s, st), j, n + 1)
    <2>1. CASE IsTableStmt(st)
        BY <1>1, <2>1, TableStmtDoes, Zenon
    <2>2. CASE IsAlterStmt(st)
        BY <1>1, <2>2, AlterStmtDoes, Zenon
    <2>3. CASE IsOtherStmt(st)
        BY <1>1, <2>3, OtherStmtDoes, Zenon
    <2> QED BY <2>1, <2>2, <2>3, StatementIs, Zenon
<1> QED BY <1>2, Shift, Zenon DEF Does

-----------------------------------------------------------------------------
(* The statements of a job in turn.                                        *)

\* The states of RunAll, up to statement n.
JobRun(g, n, s, j) ==
    g = [i \in 0..n |->
            IF i = 0 THEN s
            ELSE CHOOSE q \in {IF r.ok THEN Exec(r, j[i]) ELSE r : r \in {g[i - 1]}} : TRUE]

LEMMA JobRunExists ==
    ASSUME NEW n \in Nat, NEW s, NEW j
    PROVE  \E g : JobRun(g, n, s, j)
<1> DEFINE Step(x, i) == CHOOSE q \in {IF r.ok THEN Exec(r, j[i]) ELSE r : r \in {x}} : TRUE
<1> HIDE DEF Step
<1>1. \A g, m : JobRun(g, m, s, j) <=> g = [i \in 0..m |-> IF i = 0 THEN s ELSE Step(g[i - 1], i)]
    BY Zenon DEF JobRun, Step
<1>2. PICK S : S = {m \in 0..n : \E g : JobRun(g, m, s, j)}
    BY Zenon
<1>3. 0 \in S
    <2>1. PICK h : h = [i \in 0..0 |-> s]
        BY Zenon
    <2>2. \A i \in 0..0 : i = 0
        OBVIOUS
    <2>3. h = [i \in 0..0 |-> IF i = 0 THEN s ELSE Step(h[i - 1], i)]
        BY <2>1, <2>2, Zenon
    <2>4. JobRun(h, 0, s, j)
        BY <1>1, <2>3, Zenon
    <2> QED BY <1>2, <2>4
<1>4. ASSUME NEW m \in 1..n, m - 1 \in S PROVE m \in S
    <2>1. PICK g : JobRun(g, m - 1, s, j)
        BY <1>2, <1>4, Zenon
    <2>2. PICK h : h = [i \in 0..m |-> IF i = m THEN Step(g[m - 1], m) ELSE g[i]]
        BY Zenon
    <2>3. \A i \in 0..(m - 1) : g[i] = IF i = 0 THEN s ELSE Step(g[i - 1], i)
        BY <1>1, <2>1, Zenon
    <2>4. ASSUME NEW i \in 0..m PROVE h[i] = IF i = 0 THEN s ELSE Step(h[i - 1], i)
        BY <2>2, <2>3
    <2>5. h = [i \in 0..m |-> IF i = 0 THEN s ELSE Step(h[i - 1], i)]
        BY <2>2, <2>4, Zenon
    <2>6. JobRun(h, m, s, j)
        BY <1>1, <2>5, Zenon
    <2>7. m \in 0..n
        OBVIOUS
    <2> QED BY <1>2, <2>6, <2>7, Zenon
<1>5. 0..n \subseteq S
    BY <1>3, <1>4, UpTo, Zenon
<1> QED BY <1>2, <1>5

LEMMA RunAllDoes ==
    ASSUME NEW s, NEW j \in Jobs, Ready(s, j, 0),
           \A i \in 1..Len(j) : j[i].op = "createTableAs" => s.picked # None
    PROVE  Does(s, RunAll(s, j), j, Len(j))
<1>1. PICK n \in Nat : n = Len(j) /\ \A i \in 1..n : j[i] \in Statement
    BY DEF Jobs
<1>2. PICK g : JobRun(g, n, s, j) /\ RunAll(s, j) = g[n]
    <2>1. \E g : JobRun(g, Len(j), s, j)
        BY <1>1, JobRunExists, Zenon
    <2>2. \E g : JobRun(g, Len(j), s, j) /\ RunAll(s, j) = g[Len(j)]
        BY <2>1, Zenon DEF RunAll, JobRun
    <2> QED BY <1>1, <2>2, Zenon
<1>3. g[0] = s /\ \A i \in 1..n : g[i] = IF g[i - 1].ok THEN Exec(g[i - 1], j[i]) ELSE g[i - 1]
    <2> DEFINE Step(x, i) == CHOOSE q \in {IF r.ok THEN Exec(r, j[i]) ELSE r : r \in {x}} : TRUE
    <2>1. ASSUME NEW x, NEW i PROVE Step(x, i) = IF x.ok THEN Exec(x, j[i]) ELSE x
        <3>1. PICK S : S = {IF r.ok THEN Exec(r, j[i]) ELSE r : r \in {x}}
            BY Zenon
        <3>2. (IF x.ok THEN Exec(x, j[i]) ELSE x) \in S
            BY <3>1, Zenon
        <3>3. \A q \in S : q = IF x.ok THEN Exec(x, j[i]) ELSE x
            BY <3>1, Zenon
        <3>4. (CHOOSE q \in S : TRUE) \in S
            BY <3>2, Zenon
        <3> QED BY <3>1, <3>3, <3>4, Zenon
    <2> HIDE DEF Step
    <2>2. g = [i \in 0..n |-> IF i = 0 THEN s ELSE Step(g[i - 1], i)]
        BY <1>2, Zenon DEF JobRun, Step
    <2> QED BY <1>1, <2>1, <2>2
<1>4. PICK S : S = {i \in 0..n : Does(s, g[i], j, i)}
    BY Zenon
<1>5. 0 \in S
    <2>1. Does(s, s, j, 0) /\ 0 \in 0..n
        BY StayDoes
    <2> QED BY <1>3, <1>4, <2>1, Zenon
<1>6. ASSUME NEW i \in 1..n, i - 1 \in S PROVE i \in S
    <2>1. PICK m \in Nat : m = i - 1 /\ i = m + 1 /\ i \in 0..n
        OBVIOUS
    <2>2. PICK q : q = g[m]
        BY Zenon
    <2>7. PICK st \in Statement : st = j[m + 1]
        BY <1>1, <2>1, Zenon
    <2>3. Does(s, q, j, m)
        BY <1>4, <1>6, <2>1, <2>2, Zenon
    <2>4. g[i] = IF q.ok THEN Exec(q, st) ELSE q
        BY <1>3, <2>1, <2>2, <2>7, Zenon
    <2>5. CASE q.ok
        <3>1. Ready(q, j, m)
            BY <2>3, <2>5, Zenon DEF Ready, Does, Kept
        <3>2. st.op = "createTableAs" => q.picked # None
            BY <1>1, <2>1, <2>3, <2>7, Zenon DEF Does, Kept
        <3>3. Does(q, Exec(q, st), j, m + 1)
            BY <2>7, <3>1, <3>2, ExecDoes, Zenon
        <3>4. Does(s, Exec(q, st), j, m + 1)
            BY <2>3, <3>3, DoesOn, Zenon DEF Does
        <3> QED BY <1>4, <2>1, <2>4, <2>5, <3>4, Zenon
    <2>6. CASE ~q.ok
        <3>1. Does(s, q, j, m + 1)
            BY <2>3, <2>6, Zenon DEF Does
        <3> QED BY <1>4, <2>1, <2>4, <2>6, <3>1, Zenon
    <2> QED BY <2>5, <2>6, Zenon
<1>7. 0..n \subseteq S
    BY <1>5, <1>6, UpTo, Zenon
<1>8. n \in S
    BY <1>7
<1> QED BY <1>1, <1>2, <1>4, <1>8, Zenon

-----------------------------------------------------------------------------
(* The steps of a session.                                                 *)

LEMMA FreshReads ==
    ASSUME NEW k \in Key
    PROVE  Fresh.buf[k] = Keep /\ Read(Fresh, k) = db[k]
BY DEF Fresh, NoWrites, Read

LEMMA FreshIs ==
    ASSUME Right(db), NEW b, NEW j
    PROVE  Good(Fresh, b, j, 0) /\ Since(Fresh, db)
<1>1. PICK t : t = Fresh
    BY Zenon
<1>2. IsTxn(t) /\ t.snap = db
    BY <1>1 DEF Fresh, NoWrites, IsTxn
<1>3. \A k \in Key : t.buf[k] = Keep /\ Read(t, k) = db[k]
    BY <1>1, FreshReads, Zenon
<1>4. \A k \in RowKey : t.buf[k] = Keep /\ Read(t, k) = db[k] /\ k[3] \in Table
    BY <1>3, RowKeyParts, Zenon
<1>5. \A x \in Table : Read(t, Sch(x)) = db[Sch(x)]
    BY <1>3, SchIs, Zenon
<1>6. Shown(t)
    BY <1>4, <1>5, Zenon DEF Shown, Right
<1>7. Seen(t, b, j, 0)
    <2> SUFFICES ASSUME NEW k \in RowKey, Plain(Read(t, k))
                 PROVE  Fits(Read(t, k), Read(t, Sch(k[3])), k)
        BY Zenon DEF Seen
    <2>1. Read(t, k) = db[k] /\ Read(t, Sch(k[3])) = db[Sch(k[3])]
        BY <1>4, <1>5, Zenon
    <2> QED BY <2>1, Zenon DEF Right
<1>8. Extended(t, j, 0)
    <2> SUFFICES ASSUME NEW x \in Table, db[Sch(x)] # Absent
                 PROVE  Extends(db[Sch(x)], Read(t, Sch(x)))
        BY <1>2, Zenon DEF Extended
    <2>1. db[Sch(x)] \in Entry
        BY Zenon DEF Right
    <2> QED BY <1>5, <2>1, ExtendsSelf, Zenon
<1>9. Elsewhere(t, b, j, 0)
    BY <1>4, Zenon DEF Elsewhere
<1>10. Since(t, db)
    BY <1>2, Zenon DEF Since
<1> QED BY <1>1, <1>2, <1>6, <1>7, <1>8, <1>9, <1>10, Zenon DEF Good

LEMMA StateReady ==
    ASSUME SchemaInv, NEW c \in Client
    PROVE  Ready(State(c), job[c], 0) /\ State(c).t = Fresh /\ State(c).picked = picked[c]
           /\ State(c).br = branch[c]
<1>1. PICK s, t : s = State(c) /\ t = Fresh
    BY Zenon
<1>2. s.ok /\ s.t = t /\ s.br = branch[c] /\ s.now = clock /\ s.picked = picked[c] /\ IsState(s)
    BY <1>1 DEF State, IsState
<1>3. Good(t, branch[c], job[c], 0)
    BY <1>1, FreshIs, Zenon DEF SchemaInv
<1>4. branch[c] \in Branch /\ clock \in Nat /\ picked[c] \in Picked \cup {None}
    BY Zenon DEF SchemaInv, Session
<1> QED BY <1>1, <1>2, <1>3, <1>4, Zenon DEF Ready

\* A session that takes no step, on an unchanged database.
LEMMA SessionKept ==
    ASSUME NEW d, Session(d), branch'[d] = branch[d], job'[d] = job[d], picked'[d] = picked[d],
           ph'[d] = ph[d], txn'[d] = txn[d], db' = db
    PROVE  Session(d)'
BY Zenon DEF Session

\* A session that is not about to commit.
LEMMA SessionIdle ==
    ASSUME NEW d, branch'[d] \in Branch, job'[d] \in Jobs, picked'[d] \in Picked \cup {None},
           ph'[d] # "commit", txn'[d] = NoTxn
    PROVE  Session(d)'
BY Zenon DEF Session

LEMMA NoJob == <<>> \in Jobs
<1>1. <<>> \in Seq(Statement) /\ \A i \in 1..Len(<<>>) : FALSE
    OBVIOUS
<1> QED BY <1>1 DEF Jobs

LEMMA StartKeeps ==
    ASSUME SchemaInv, NEW c \in Client, NEW j \in Menus[menu], Start(c, j)
    PROVE  SchemaInv'
<1>1. j \in Jobs
    <2>1. menu \in DOMAIN Menus
        BY Zenon DEF SchemaInv
    <2> QED BY <2>1, SchemaAssumption, Zenon DEF Jobs
<1>2. /\ UNCHANGED <<db, txn, branch, menu, picked, clock>>
      /\ ph[c] = "idle" /\ ph' = [ph EXCEPT ![c] = "exec"] /\ job' = [job EXCEPT ![c] = j]
    BY Zenon DEF Start
<1>3. PerClient'
    BY <1>2, Zenon DEF SchemaInv, PerClient
<1>4. ASSUME NEW d \in Client PROVE Session(d)'
    <2>1. Session(d) /\ d \in DOMAIN ph /\ d \in DOMAIN job
        BY Zenon DEF SchemaInv, PerClient
    <2>2. CASE d = c
        <3>1. ph'[d] = "exec" /\ job'[d] = j /\ ph[d] # "commit"
            BY <1>2, <2>1, <2>2
        <3>2. branch[d] \in Branch /\ picked[d] \in Picked \cup {None} /\ txn[d] = NoTxn
            BY <2>1, <3>1, Zenon DEF Session
        <3>3. ph'[d] # "commit"
            BY <3>1
        <3> QED BY <1>1, <1>2, <3>1, <3>2, <3>3, SessionIdle, Zenon
    <2>3. CASE d # c
        <3>1. ph'[d] = ph[d] /\ job'[d] = job[d]
            BY <1>2, <2>1, <2>3, Zenon
        <3> QED BY <1>2, <2>1, <3>1, SessionKept, Zenon
    <2> QED BY <2>2, <2>3, Zenon
<1> QED BY <1>2, <1>3, <1>4, Zenon DEF SchemaInv

\* The transaction of c, if it has one, ends.
Ends(c) == DOMAIN txn' = Client /\ \A d \in Client : txn'[d] = IF d = c THEN NoTxn ELSE txn[d]

\* A job is over or given up.
LEMMA DoneKeeps ==
    ASSUME SchemaInv, NEW c \in Client, Done(c), Ends(c),
           UNCHANGED <<db, branch, menu, clock>>
    PROVE  SchemaInv'
<1>1. /\ ph' = [ph EXCEPT ![c] = "idle"] /\ job' = [job EXCEPT ![c] = <<>>]
      /\ picked' = [picked EXCEPT ![c] = None]
    BY Zenon DEF Done
<1>2. PerClient'
    BY <1>1, Zenon DEF SchemaInv, PerClient, Ends
<1>3. ASSUME NEW d \in Client PROVE Session(d)'
    <2>1. Session(d) /\ d \in DOMAIN ph /\ d \in DOMAIN job /\ d \in DOMAIN picked
        BY Zenon DEF SchemaInv, PerClient
    <2>2. CASE d = c
        <3>1. ph'[d] = "idle" /\ job'[d] = <<>> /\ picked'[d] = None /\ txn'[d] = NoTxn
            BY <1>1, <2>1, <2>2, Zenon DEF Ends
        <3>2. branch'[d] \in Branch
            BY <2>1, Zenon DEF Session
        <3>3. ph'[d] # "commit"
            BY <3>1
        <3> QED BY <3>1, <3>2, <3>3, NoJob, SessionIdle, Zenon
    <2>3. CASE d # c
        <3>1. ph'[d] = ph[d] /\ job'[d] = job[d] /\ picked'[d] = picked[d] /\ txn'[d] = txn[d]
            BY <1>1, <2>1, <2>3, Zenon DEF Ends
        <3> QED BY <2>1, <3>1, SessionKept, Zenon
    <2> QED BY <2>2, <2>3, Zenon
<1> QED BY <1>2, <1>3, Zenon DEF SchemaInv

\* Outside of commit there is no transaction to end.
LEMMA NothingEnds ==
    ASSUME SchemaInv, NEW c \in Client, ph[c] # "commit", UNCHANGED txn
    PROVE  Ends(c)
BY Zenon DEF SchemaInv, Session, PerClient, Ends

LEMMA PickKeeps ==
    ASSUME SchemaInv, NEW c \in Client, Pick(c)
    PROVE  SchemaInv'
<1>1. /\ ph[c] = "exec" /\ Is(c, {"createTableAs"}) /\ UNCHANGED <<db, txn, branch, menu, clock>>
      /\ ph[c] # "commit"
    BY DEF Pick
<1>2. CASE Done(c)
    BY <1>1, <1>2, NothingEnds, DoneKeeps, Zenon
<1>3. CASE ~Done(c)
    <2>1. PICK s, from : s = State(c) /\ from = job[c][1].from
        BY Zenon
    <2>2. PICK last, names :
              /\ Has(s, Sch(from))
              /\ last \in IF Scan(s, from) = {} THEN {None} ELSE {Get(s, k).id : k \in Scan(s, from)}
              /\ names = [i \in 1..Len(db[Sch(from)].cols) |-> db[Sch(from)].cols[i].name]
              /\ picked' = [picked EXCEPT ![c] = [cols |-> names, last |-> last]]
              /\ UNCHANGED <<ph, job>>
        BY <1>3, <2>1, ZenonT(30) DEF Pick
    <2>3. from \in Table
        <3>1. PICK j \in Jobs : j = job[c]
            BY Zenon DEF SchemaInv, Session
        <3>2. PICK i \in DOMAIN j : j[i].op = "createTableAs"
            BY <1>1, <3>1, Zenon DEF Is
        <3>3. i = 1 /\ j[1] \in Statement
            BY <3>2 DEF Jobs
        <3>4. j[1].op = "createTableAs"
            BY <3>2, <3>3, Zenon
        <3>5. j[1].from \in Table
            BY <3>3, <3>4, StatementIs, Zenon DEF IsTableStmt, IsAlterStmt, IsOtherStmt
        <3> QED BY <2>1, <3>1, <3>5, Zenon
    <2>4. Ready(s, job[c], 0) /\ s.t = Fresh
        BY <2>1, StateReady, Zenon
    <2>5. db[Sch(from)] \in Entry
        <3>1. Read(Fresh, Sch(from)) = db[Sch(from)]
            BY <2>3, SchIs, FreshReads, Zenon
        <3>2. db[Sch(from)] # Absent
            BY <2>2, <2>4, <3>1, Zenon DEF Has
        <3> QED BY <2>3, <3>2, Zenon DEF SchemaInv, Right
    <2>6. names \in Seq(STRING)
        <3>1. PICK cols \in Seq(ColumnDef) : cols = db[Sch(from)].cols
            BY <2>5, Zenon DEF Entry
        <3>2. \A i \in 1..Len(cols) : cols[i].name \in STRING
            <4>1. \A i \in 1..Len(cols) : cols[i] \in ColumnDef
                BY <3>1
            <4> QED BY <4>1, Zenon DEF ColumnDef
        <3>3. names = [i \in 1..Len(cols) |-> cols[i].name]
            BY <2>2, <3>1, Zenon
        <3> QED BY <3>1, <3>2, <3>3
    <2>7. last \in Ids \cup {None}
        <3>1. \A k \in Scan(s, from) : Get(s, k).id \in Ids
            <4> TAKE k \in Scan(s, from)
            <4>1. Get(s, k) \in Stored
                BY <2>3, <2>4, ScanStored, Zenon
            <4> QED BY <4>1, Zenon DEF Stored
        <3> QED BY <2>2, <3>1, Zenon
    <2>8. [cols |-> names, last |-> last] \in Picked
        BY <2>6, <2>7, Zenon DEF Picked
    <2>9. PerClient'
        BY <1>1, <2>2, Zenon DEF SchemaInv, PerClient
    <2>10. ASSUME NEW d \in Client PROVE Session(d)'
        <3>1. Session(d) /\ d \in DOMAIN picked
            BY Zenon DEF SchemaInv, PerClient
        <3>2. CASE d = c
            <4>1. picked'[d] \in Picked
                BY <2>2, <2>8, <3>1, <3>2, Zenon
            <4>2. branch[d] \in Branch /\ job[d] \in Jobs /\ txn[d] = NoTxn
                BY <1>1, <3>1, <3>2, Zenon DEF Session
            <4>3. ph'[d] # "commit" /\ job'[d] = job[d] /\ branch'[d] = branch[d] /\ txn'[d] = txn[d]
                BY <1>1, <2>2, <3>2, Zenon
            <4> QED BY <4>1, <4>2, <4>3, SessionIdle, Zenon
        <3>3. CASE d # c
            <4>1. picked'[d] = picked[d]
                BY <2>2, <3>1, <3>3, Zenon
            <4> QED BY <1>1, <2>2, <3>1, <4>1, SessionKept, Zenon
        <3> QED BY <3>2, <3>3, Zenon
    <2> QED BY <1>1, <2>9, <2>10, Zenon DEF SchemaInv
<1> QED BY <1>2, <1>3, Zenon

LEMMA ExecuteKeeps ==
    ASSUME SchemaInv, NEW c \in Client, Execute(c)
    PROVE  SchemaInv'
<1>1. /\ ph[c] = "exec" /\ ph[c] # "commit" /\ UNCHANGED <<db, branch, menu, clock>>
      /\ Is(c, {"createTableAs"}) => picked[c] # None
    BY DEF Execute
<1>2. PICK r : /\ r = RunAll(State(c), job[c])
               /\ \/ /\ r.ok /\ txn' = [txn EXCEPT ![c] = r.t]
                     /\ ph' = [ph EXCEPT ![c] = "commit"] /\ UNCHANGED <<job, picked>>
                  \/ Done(c) /\ UNCHANGED txn
    BY Zenon DEF Execute
<1>3. CASE Done(c) /\ UNCHANGED txn
    BY <1>1, <1>3, NothingEnds, DoneKeeps, Zenon
<1>4. CASE /\ r.ok /\ txn' = [txn EXCEPT ![c] = r.t]
           /\ ph' = [ph EXCEPT ![c] = "commit"] /\ UNCHANGED <<job, picked>>
    <2>1. PICK s, j : s = State(c) /\ j = job[c]
        BY Zenon
    <2>2. Ready(s, j, 0) /\ s.t = Fresh /\ s.picked = picked[c] /\ s.br = branch[c] /\ j \in Jobs
        BY <2>1, StateReady, Zenon DEF SchemaInv, Session
    <2>3. \A i \in 1..Len(j) : j[i].op = "createTableAs" => s.picked # None
        <3>1. 1..Len(j) = DOMAIN j
            BY <2>2 DEF Jobs
        <3> QED BY <1>1, <2>1, <2>2, <3>1, Zenon DEF Is
    <2>4. Does(s, r, j, Len(j))
        BY <1>2, <2>1, <2>2, <2>3, RunAllDoes, Zenon
    <2>5. Good(r.t, branch[c], j, Len(j))
        BY <1>4, <2>2, <2>4, Zenon DEF Does, Kept
    <2>6. Since(r.t, db)
        <3>1. Since(Fresh, db)
            BY FreshIs, Zenon DEF SchemaInv
        <3>2. r.t.snap = Fresh.snap /\ r.t.since = Fresh.since
            BY <2>2, <2>4, Zenon DEF Does, Kept
        <3> QED BY <3>1, <3>2, Zenon DEF Since
    <2>7. PerClient'
        BY <1>1, <1>4, Zenon DEF SchemaInv, PerClient
    <2>8. ASSUME NEW d \in Client PROVE Session(d)'
        <3>1. Session(d) /\ d \in DOMAIN txn /\ d \in DOMAIN ph
            BY Zenon DEF SchemaInv, PerClient
        <3>2. CASE d = c
            <4>1. txn'[d] = r.t /\ ph'[d] = "commit" /\ job'[d] = j /\ branch'[d] = branch[c]
                  /\ picked'[d] = picked[d] /\ db' = db
                BY <1>1, <1>4, <2>1, <3>1, <3>2, Zenon
            <4>2. Good(txn'[d], branch'[d], job'[d], Len(job'[d])) /\ Since(txn'[d], db')
                BY <2>5, <2>6, <4>1, Zenon
            <4>3. branch'[d] \in Branch /\ job'[d] \in Jobs /\ picked'[d] \in Picked \cup {None}
                BY <1>1, <2>2, <3>1, <3>2, <4>1, Zenon DEF Session
            <4> QED BY <4>1, <4>2, <4>3, Zenon DEF Session
        <3>3. CASE d # c
            <4>1. txn'[d] = txn[d] /\ ph'[d] = ph[d]
                BY <1>4, <3>1, <3>3, Zenon
            <4> QED BY <1>1, <1>4, <3>1, <4>1, SessionKept, Zenon
        <3> QED BY <3>2, <3>3, Zenon
    <2> QED BY <1>1, <2>7, <2>8, Zenon DEF SchemaInv
<1> QED BY <1>2, <1>3, <1>4, Zenon

-----------------------------------------------------------------------------
(* COMMIT.                                                                 *)

LEMMA MarksIs ==
    /\ \A v \in Stored : /\ Marks(v) \in Stored /\ Marks(v).odd = TRUE
                         /\ Marks(v) = [v EXCEPT !.odd = TRUE]
                         /\ Marks(Marks(v)) = Marks(v)
    /\ \A v : v \notin Stored => Marks(v) = v
<1>1. PICK yes \in BOOLEAN : yes = TRUE
    BY Zenon
<1>2. ASSUME NEW v \in Stored
      PROVE  [v EXCEPT !.odd = yes] \in Stored /\ [v EXCEPT !.odd = yes].odd = yes
             /\ [[v EXCEPT !.odd = yes] EXCEPT !.odd = yes] = [v EXCEPT !.odd = yes]
    BY Zenon DEF Stored
<1>3. \A v \in Stored : Marks(v) = [v EXCEPT !.odd = yes]
    BY <1>1, Zenon DEF Marks
<1> QED BY <1>1, <1>2, <1>3, Zenon DEF Marks

\* What the transaction t of c is about to store, at k.
Stores(t, k) == IF t.buf[k] = Keep THEN db[k] ELSE t.buf[k]

LEMMA InstallIs ==
    ASSUME NEW t, NEW k \in Key
    PROVE  Install(t)[k] = Stores(t, k)
BY Zenon DEF Install, Stores

LEMMA StoresIs ==
    ASSUME Right(db), NEW t, Shown(t)
    PROVE  /\ \A x \in Table : Stores(t, Sch(x)) \in Entry \cup {Absent}
           /\ \A k \in RowKey : Stores(t, k) \in Stored \cup {Absent, Tombstone}
BY Zenon DEF Right, Shown, Stores, Read

\* Rows that the commit does not mark.
Unmarked(t, b, j, k) ==
    /\ t.buf[k] # Keep => Sch(k[3]) \notin t.since
    /\ t.buf[Sch(k[3])] # Keep /\ t.buf[k] = Keep /\ Names(j, Len(j), Rewriting, k[3]) =>
           k[2] = b /\ k \notin t.since
    /\ ~Exempt(t, b, j, Len(j), k, Stores(t, k))

LEMMA UnmarkedIs ==
    ASSUME NEW c, NEW t, NEW b, NEW j, b = branch[c], j = job[c],
           NEW k \in RowKey, k \notin Unseen(c, t), Stores(t, k) \notin {Absent, Tombstone}
    PROVE  Unmarked(t, b, j, k)
<1>1. k \in Key /\ Sch(k[3]) \in Key
    BY RowKeyParts, Zenon
<1>2. Install(t)[k] = Stores(t, k)
    BY <1>1, InstallIs, Zenon
<1>3. Sch(k[3]) \in Written(t) <=> t.buf[Sch(k[3])] # Keep
    BY <1>1, Zenon DEF Written
<1>4. k \in Written(t) <=> t.buf[k] # Keep
    BY <1>1, Zenon DEF Written
<1>5. t.buf[k] # Keep => Sch(k[3]) \notin t.since
    BY <1>2, <1>4, Zenon DEF Unseen
<1>6. t.buf[Sch(k[3])] # Keep /\ t.buf[k] = Keep /\ Names(j, Len(j), Rewriting, k[3]) =>
          k[2] = b /\ k \notin t.since
    BY <1>2, <1>3, <1>4, Zenon DEF Unseen
<1>7. t.buf[Sch(k[3])] # Keep => ~Several(j, Len(j), b)
    BY <1>2, <1>3, Zenon DEF Unseen
<1>8. t.buf[Sch(k[3])] # Keep /\ Names(j, Len(j), {"renameTable"}, k[3]) => k[4] = <<"pk", Stores(t, k).id>>
    BY <1>2, <1>3, Zenon DEF Unseen
<1> QED BY <1>5, <1>6, <1>7, <1>8, Zenon DEF Unmarked, Exempt

\* What its commit makes of the database.
Leaves(c, t, f) ==
    /\ \A x \in Table : f[Sch(x)] = Stores(t, Sch(x))
    /\ \A k \in Key : k \notin RowKey => f[k] = Stores(t, k)
    /\ \A k \in RowKey : /\ f[k] \in Stored \cup {Absent, Tombstone}
                         /\ f[k] \in {Stores(t, k), Marks(Stores(t, k))}
                         /\ Plain(f[k]) => k \notin Unseen(c, t) /\ f[k] = Stores(t, k)

LEMMA MarkedIs ==
    ASSUME NEW c, NEW t, Right(db), Shown(t)
    PROVE  Leaves(c, t, Marked(c, t))
<1> DEFINE f == Marked(c, t)
<1>1. \A k \in Key : f[k] = IF k \in Unseen(c, t) THEN [Install(t)[k] EXCEPT !.odd = TRUE]
                            ELSE Install(t)[k]
    BY Zenon DEF Marked
<1> HIDE DEF f
<1>2. ASSUME NEW k \in Key, k \notin RowKey PROVE f[k] = Stores(t, k)
    BY <1>1, <1>2, InstallIs, Zenon DEF Unseen
<1>3. ASSUME NEW k \in RowKey
      PROVE  /\ f[k] \in Stored \cup {Absent, Tombstone}
             /\ f[k] \in {Stores(t, k), Marks(Stores(t, k))}
             /\ Plain(f[k]) => k \notin Unseen(c, t) /\ f[k] = Stores(t, k)
    <2>1. k \in Key
        BY RowKeyParts, Zenon
    <2>2. PICK v : v = Stores(t, k) /\ v = Install(t)[k] /\ v \in Stored \cup {Absent, Tombstone}
        BY <2>1, InstallIs, StoresIs, Zenon
    <2>3. CASE k \in Unseen(c, t)
        <3>1. v \in Stored
            BY <2>2, <2>3, Zenon DEF Unseen
        <3>2. f[k] = Marks(v)
            BY <1>1, <2>1, <2>2, <2>3, <3>1, MarksIs, Zenon
        <3>3. f[k] \in Stored /\ f[k].odd = TRUE
            BY <3>1, <3>2, MarksIs, Zenon
        <3> QED BY <2>2, <3>2, <3>3, Zenon DEF Plain
    <2>4. CASE k \notin Unseen(c, t)
        BY <1>1, <2>1, <2>2, <2>4, Zenon
    <2> QED BY <2>3, <2>4, Zenon
<1>4. \A x \in Table : f[Sch(x)] = Stores(t, Sch(x))
    BY <1>2, SchIs, Zenon
<1>5. Leaves(c, t, f)
    BY <1>2, <1>3, <1>4, Zenon DEF Leaves
<1> QED BY <1>5, Zenon DEF f

LEMMA CommitRight ==
    ASSUME NEW c, NEW t, NEW b, NEW j, b = branch[c], j = job[c], Right(db),
           Good(t, b, j, Len(j)), Since(t, db), ~Conflict(t), NEW f, Leaves(c, t, f)
    PROVE  Right(f)
<1>1. Shown(t)
    BY Zenon DEF Good
<1>2. \A x \in Table : f[Sch(x)] = Stores(t, Sch(x)) /\ f[Sch(x)] \in Entry \cup {Absent}
    <2>1. \A x \in Table : f[Sch(x)] = Stores(t, Sch(x))
        BY Zenon DEF Leaves
    <2>2. \A x \in Table : Stores(t, Sch(x)) \in Entry \cup {Absent}
        BY <1>1, StoresIs, Zenon
    <2> QED BY <2>1, <2>2, Zenon
<1>3. \A k \in RowKey : f[k] \in Stored \cup {Absent, Tombstone}
    BY Zenon DEF Leaves
<1>4. ASSUME NEW k \in RowKey, Plain(f[k]) PROVE Fits(f[k], f[Sch(k[3])], k)
    <2>1. PICK x \in Table, K \in Key : x = k[3] /\ K = Sch(k[3]) /\ K \notin RowKey /\ K = Sch(x)
        BY RowKeyParts, Zenon
    <2>2. f[k] = Stores(t, k) /\ k \notin Unseen(c, t) /\ f[k] \in Stored
        BY <1>3, <1>4, Zenon DEF Leaves, Plain
    <2>3. f[K] = Stores(t, K)
        BY <1>2, <2>1, Zenon
    <2>4. Stores(t, k) \notin {Absent, Tombstone}
        BY <1>4, <2>2, Zenon DEF Plain
    <2>5. /\ t.buf[k] # Keep => K \notin t.since
          /\ t.buf[K] # Keep /\ t.buf[k] = Keep /\ Names(j, Len(j), Rewriting, x) =>
                 k[2] = b /\ k \notin t.since
          /\ ~Exempt(t, b, j, Len(j), k, Stores(t, k))
        <3>1. Unmarked(t, b, j, k)
            BY <2>2, <2>4, UnmarkedIs, Zenon
        <3> QED BY <2>1, <3>1, Zenon DEF Unmarked
    <2>6. K \notin t.since => db[K] = t.snap[K]
        BY <2>1, Zenon DEF Since
    <2>7. CASE t.buf[k] # Keep
        <3>1. Stores(t, k) = Read(t, k)
            BY <2>7, Zenon DEF Stores, Read
        <3>2. Stores(t, K) = Read(t, K)
            BY <2>5, <2>6, <2>7, Zenon DEF Stores, Read
        <3>3. Fits(Read(t, k), Read(t, Sch(k[3])), k)
            BY <1>4, <2>2, <2>5, <2>7, <3>1, Zenon DEF Good, Seen
        <3> QED BY <2>1, <2>2, <2>3, <3>1, <3>2, <3>3, Zenon
    <2>8. CASE t.buf[k] = Keep
        <3>1. Stores(t, k) = db[k] /\ Read(t, k) = t.snap[k]
            BY <2>8, Zenon DEF Stores, Read
        <3>2. Plain(db[k]) /\ db[k] \in Stored
            BY <1>4, <2>2, <3>1, Zenon
        <3>3. Fits(db[k], db[K], k)
            BY <2>1, <3>2, Zenon DEF Right
        <3>4. CASE t.buf[K] = Keep
            <4>1. f[K] = db[K]
                BY <2>3, <3>4, Zenon DEF Stores
            <4> QED BY <2>1, <2>2, <3>1, <3>3, <4>1, Zenon
        <3>5. CASE t.buf[K] # Keep
            <4>1. f[K] = Read(t, K)
                BY <2>3, <3>5, Zenon DEF Stores, Read
            <4>2. db[K] # Absent
                BY <3>3, Zenon DEF Fits
            <4>3. K \notin t.since
                BY <3>5, <4>2, Zenon DEF Conflict, Written
            <4>4. db[K] = t.snap[K]
                BY <2>6, <4>3, Zenon
            <4>5. CASE ~Names(j, Len(j), Rewriting, x)
                <5>1. Extends(t.snap[K], Read(t, K))
                    BY <2>1, <4>2, <4>4, <4>5, Zenon DEF Good, Extended
                <5>2. t.snap[K] \in Entry
                    BY <2>1, <4>2, <4>4, Zenon DEF Right
                <5>3. Read(t, K) \in Entry
                    <6>1. Read(t, K) # Absent
                        BY <5>1, Zenon DEF Extends
                    <6> QED BY <1>1, <2>1, <6>1, Zenon DEF Shown
                <5>4. Fits(db[k], Read(t, K), k)
                    BY <3>2, <3>3, <4>4, <5>1, <5>2, <5>3, FitsExtended, Zenon
                <5> QED BY <2>1, <2>2, <3>1, <4>1, <5>4, Zenon
            <4>6. CASE Names(j, Len(j), Rewriting, x)
                <5>1. k[2] = b /\ k \notin t.since /\ k \in Key
                    BY <2>5, <2>8, <3>5, <4>6, RowKeyParts, Zenon
                <5>2. db[k] = t.snap[k] \/ db[k] = Marks(t.snap[k])
                    BY <5>1, Zenon DEF Since
                <5>3. db[k] = t.snap[k]
                    BY <3>2, <5>2, MarksIs, Zenon DEF Plain
                <5>4. Stores(t, k) = Read(t, k)
                    BY <3>1, <5>3, Zenon
                <5>5. Fits(Read(t, k), Read(t, Sch(k[3])), k)
                    BY <1>4, <2>2, <2>5, <5>1, <5>4, Zenon DEF Good, Seen
                <5> QED BY <2>1, <2>2, <4>1, <5>4, <5>5, Zenon
            <4> QED BY <4>5, <4>6, Zenon
        <3> QED BY <3>4, <3>5, Zenon
    <2> QED BY <2>7, <2>8, Zenon
<1> QED BY <1>2, <1>3, <1>4, Zenon DEF Right

\* What another commit changes of a transaction t, and of what the database has of it.
LEMMA GoodSince ==
    ASSUME NEW t, NEW u, NEW b, NEW j, NEW n, Good(t, b, j, n), NEW S, u = [t EXCEPT !.since = S]
    PROVE  Good(u, b, j, n) /\ u.snap = t.snap /\ u.since = S
<1>1. PICK yes : yes = TRUE
    BY Zenon
<1>2. PICK sn, bf, si : t = [open |-> yes, snap |-> sn, buf |-> bf, since |-> si]
    BY <1>1, Zenon DEF Good, IsTxn
<1>3. u = [open |-> yes, snap |-> sn, buf |-> bf, since |-> S]
    BY <1>2
<1>4. t.snap = sn /\ t.buf = bf /\ u.snap = sn /\ u.buf = bf /\ u.since = S
    BY <1>2, <1>3
<1>5. IsTxn(u)
    BY <1>1, <1>3, <1>4, Zenon DEF Good, IsTxn
<1>6. \A k : Read(u, k) = Read(t, k) /\ u.buf[k] = t.buf[k]
    BY <1>4 DEF Read
<1>7. Shown(u) /\ Right(u.snap)
    BY <1>4, <1>6, Zenon DEF Good, Shown
<1>8. Seen(u, b, j, n)
    BY <1>6, Zenon DEF Good, Seen, Exempt
<1>9. Extended(u, j, n) /\ Elsewhere(u, b, j, n)
    BY <1>4, <1>6, Zenon DEF Good, Extended, Elsewhere
<1> QED BY <1>4, <1>5, <1>7, <1>8, <1>9, Zenon DEF Good

LEMMA SinceOn ==
    ASSUME NEW c, NEW t, NEW f, Leaves(c, t, f),
           NEW v, NEW u, Since(v, db), u.snap = v.snap, u.since = v.since \cup Written(t)
    PROVE  Since(u, f)
<1> SUFFICES ASSUME NEW k \in Key, k \notin v.since, k \notin Written(t)
             PROVE  f[k] = v.snap[k] \/ (k \in RowKey /\ f[k] = Marks(v.snap[k]))
    BY Zenon DEF Since
<1>1. Stores(t, k) = db[k]
    BY Zenon DEF Stores, Written
<1>2. db[k] = v.snap[k] \/ (k \in RowKey /\ db[k] = Marks(v.snap[k]))
    BY Zenon DEF Since
<1>3. CASE k \notin RowKey
    <2>1. f[k] = Stores(t, k)
        BY <1>3, Zenon DEF Leaves
    <2> QED BY <1>1, <1>2, <1>3, <2>1, Zenon
<1>4. CASE k \in RowKey
    <2>1. f[k] \in {Stores(t, k), Marks(Stores(t, k))}
        BY <1>4, Zenon DEF Leaves
    <2>2. \A x : Marks(Marks(x)) = Marks(x)
        BY MarksIs, Zenon
    <2> QED BY <1>1, <1>2, <1>4, <2>1, <2>2, Zenon
<1> QED BY <1>3, <1>4, Zenon

LEMMA CommitKeeps ==
    ASSUME SchemaInv, NEW c \in Client, Commit(c)
    PROVE  SchemaInv'
<1>1. ph[c] = "commit" /\ UNCHANGED <<branch, menu>>
    BY Zenon DEF Commit
<1>2. CASE Conflict(txn[c])
    <2>1. UNCHANGED <<db, clock>> /\ txn' = Ended(c)
        BY <1>2, Zenon DEF Commit
    <2>2. Ends(c)
        BY <2>1, Zenon DEF Ended, Ends, SchemaInv, PerClient
    <2>3. CASE Done(c)
        BY <1>1, <2>1, <2>2, <2>3, DoneKeeps, Zenon
    <2>4. CASE ~Done(c)
        <3>1. /\ ph' = [ph EXCEPT ![c] = "exec"] /\ picked' = [picked EXCEPT ![c] = None]
              /\ UNCHANGED job
            BY <1>2, <2>4, Zenon DEF Commit
        <3>2. PerClient'
            BY <1>1, <2>2, <3>1, Zenon DEF SchemaInv, PerClient, Ends
        <3>3. ASSUME NEW d \in Client PROVE Session(d)'
            <4>1. Session(d) /\ d \in DOMAIN ph /\ d \in DOMAIN picked
                BY Zenon DEF SchemaInv, PerClient
            <4>2. CASE d = c
                <5>1. ph'[d] = "exec" /\ picked'[d] = None /\ txn'[d] = NoTxn
                    BY <2>2, <3>1, <4>1, <4>2, Zenon DEF Ends
                <5>2. branch'[d] \in Branch /\ job'[d] \in Jobs
                    BY <1>1, <3>1, <4>1, Zenon DEF Session
                <5>3. ph'[d] # "commit"
                    BY <5>1
                <5> QED BY <5>1, <5>2, <5>3, SessionIdle, Zenon
            <4>3. CASE d # c
                <5>1. ph'[d] = ph[d] /\ picked'[d] = picked[d] /\ txn'[d] = txn[d]
                    BY <2>2, <3>1, <4>1, <4>3, Zenon DEF Ends
                <5> QED BY <1>1, <2>1, <3>1, <4>1, <5>1, SessionKept, Zenon
            <4> QED BY <4>2, <4>3, Zenon
        <3> QED BY <1>1, <2>1, <3>2, <3>3, Zenon DEF SchemaInv
    <2> QED BY <2>3, <2>4, Zenon
<1>3. CASE ~Conflict(txn[c])
    <2>1. PICK t, f : t = txn[c] /\ f = Marked(c, t)
        BY Zenon
    <2>2. /\ db' = f /\ txn' = AfterCommit(c) /\ Done(c)
          /\ clock' = IF Written(txn[c]) = {} THEN clock ELSE clock + 1
        BY <1>3, <2>1, Zenon DEF Commit
    <2>3. Right(db) /\ Good(t, branch[c], job[c], Len(job[c])) /\ Since(t, db) /\ Shown(t)
        BY <1>1, <2>1, Zenon DEF SchemaInv, Session, Good
    <2>9. Leaves(c, t, f)
        BY <2>1, <2>3, MarkedIs, Zenon
    <2>4. Right(db')
        <3>1. ~Conflict(t)
            BY <1>3, <2>1, Zenon
        <3>2. Right(f)
            BY <2>3, <2>9, <3>1, CommitRight, Zenon
        <3> QED BY <2>2, <3>2, Zenon
    <2>5. clock' \in Nat
        BY <2>2 DEF SchemaInv
    <2>6. /\ ph' = [ph EXCEPT ![c] = "idle"] /\ job' = [job EXCEPT ![c] = <<>>]
          /\ picked' = [picked EXCEPT ![c] = None]
        BY <2>2, Zenon DEF Done
    <2>7. PerClient'
        BY <1>1, <2>2, <2>6, Zenon DEF SchemaInv, PerClient, AfterCommit
    <2>8. ASSUME NEW d \in Client PROVE Session(d)'
        <3>1. Session(d) /\ d \in DOMAIN ph /\ d \in DOMAIN job /\ d \in DOMAIN picked
            BY Zenon DEF SchemaInv, PerClient
        <3>2. txn'[d] = IF d = c \/ ~txn[d].open THEN NoTxn
                        ELSE [txn[d] EXCEPT !.since = @ \cup Written(txn[c])]
            BY <2>2, Zenon DEF AfterCommit
        <3>3. branch'[d] = branch[d] /\ branch'[d] \in Branch
            BY <1>1, <3>1, Zenon DEF Session
        <3>4. CASE d = c
            <4>1. ph'[d] = "idle" /\ job'[d] = <<>> /\ picked'[d] = None /\ txn'[d] = NoTxn
                BY <2>6, <3>1, <3>2, <3>4, Zenon
            <4>2. ph'[d] # "commit"
                BY <4>1
            <4> QED BY <3>3, <4>1, <4>2, NoJob, SessionIdle, Zenon
        <3>5. CASE d # c
            <4>1. ph'[d] = ph[d] /\ job'[d] = job[d] /\ picked'[d] = picked[d]
                BY <2>6, <3>1, <3>5, Zenon
            <4>2. job'[d] \in Jobs /\ picked'[d] \in Picked \cup {None}
                BY <3>1, <4>1, Zenon DEF Session
            <4>3. CASE ph[d] # "commit"
                <5>1. txn[d] = NoTxn
                    BY <3>1, <4>3, Zenon DEF Session
                <5>2. ~txn[d].open
                    <6>1. PICK no : no = FALSE
                        BY Zenon
                    <6>2. PICK sn, bf, si : NoTxn = [open |-> no, snap |-> sn, buf |-> bf, since |-> si]
                        BY <6>1, Zenon DEF NoTxn
                    <6>3. NoTxn.open = no
                        BY <6>2
                    <6> QED BY <5>1, <6>1, <6>3, Zenon
                <5>3. txn'[d] = NoTxn /\ ph'[d] # "commit"
                    BY <3>2, <4>1, <4>3, <5>2, Zenon
                <5> QED BY <3>3, <4>2, <5>3, SessionIdle, Zenon
            <4>4. CASE ph[d] = "commit"
                <5>1. PICK v, b, j, n : v = txn[d] /\ b = branch[d] /\ j = job[d] /\ n = Len(job[d])
                    BY Zenon
                <5>2. Good(v, b, j, n) /\ Since(v, db)
                    BY <3>1, <4>4, <5>1, Zenon DEF Session
                <5>3. v.open
                    <6>1. PICK yes : yes = TRUE
                        BY Zenon
                    <6>2. PICK sn, bf, si : v = [open |-> yes, snap |-> sn, buf |-> bf, since |-> si]
                        BY <5>2, <6>1, Zenon DEF Good, IsTxn
                    <6>3. v.open = yes
                        BY <6>2
                    <6> QED BY <6>1, <6>3, Zenon
                <5>4. PICK u : u = txn'[d]
                    BY Zenon
                <5>5. u = [v EXCEPT !.since = v.since \cup Written(t)]
                    BY <2>1, <3>2, <3>5, <5>1, <5>3, <5>4, Zenon
                <5>6. PICK S : S = v.since \cup Written(t)
                    BY Zenon
                <5>7. Good(u, b, j, n) /\ u.snap = v.snap /\ u.since = S
                    <6>1. u = [v EXCEPT !.since = S]
                        BY <5>5, <5>6, Zenon
                    <6>2. Good(v, b, j, n)
                        BY <5>2, Zenon
                    <6> QED BY <6>1, <6>2, GoodSince, Zenon
                <5>8. Since(u, f)
                    BY <2>9, <5>2, <5>6, <5>7, SinceOn, Zenon
                <5>9. Good(txn'[d], branch'[d], job'[d], Len(job'[d])) /\ Since(txn'[d], db')
                    BY <2>2, <3>3, <4>1, <5>1, <5>4, <5>7, <5>8, Zenon
                <5> QED BY <3>3, <4>1, <4>2, <4>4, <5>9, Zenon DEF Session
            <4> QED BY <4>3, <4>4, Zenon
        <3> QED BY <3>4, <3>5, Zenon
    <2> QED BY <1>1, <2>4, <2>5, <2>7, <2>8, Zenon DEF SchemaInv
<1> QED BY <1>2, <1>3, Zenon

-----------------------------------------------------------------------------
(* The theorems.                                                           *)

LEMMA InitRight == Init => SchemaInv
<1> SUFFICES ASSUME Init PROVE SchemaInv
    OBVIOUS
<1>1. PICK x \in Setups : KVInit(Content(x)) /\ branch = x.branch /\ menu = x.menu
    BY Zenon DEF Init
<1>2. Right(db) /\ branch \in [Client -> Branch] /\ menu \in DOMAIN Menus
    BY <1>1, SchemaAssumption, Zenon DEF KVInit
<1>3. /\ txn = [c \in Client |-> NoTxn] /\ ph = [c \in Client |-> "idle"]
      /\ job = [c \in Client |-> <<>>] /\ picked = [c \in Client |-> None]
    BY <1>1, Zenon DEF Init, KVInit
<1>4. clock \in Nat
    BY DEF Init
<1>5. PerClient
    BY <1>2, <1>3, Zenon DEF PerClient
<1>6. ASSUME NEW c \in Client PROVE Session(c)
    <2>1. ph[c] # "commit"
        BY <1>3
    <2> QED BY <1>2, <1>3, <2>1, NoJob, Zenon DEF Session
<1> QED BY <1>2, <1>4, <1>5, <1>6, Zenon DEF SchemaInv

LEMMA NextKeeps == SchemaInv /\ [Next]_vars => SchemaInv'
<1> SUFFICES ASSUME SchemaInv, [Next]_vars PROVE SchemaInv'
    OBVIOUS
<1>1. CASE UNCHANGED vars
    <2>1. UNCHANGED <<db, txn, branch, menu, ph, job, picked, clock>>
        BY <1>1, Zenon DEF vars
    <2>2. PerClient'
        BY <2>1, Zenon DEF SchemaInv, PerClient
    <2>3. \A d \in Client : Session(d)'
        BY <2>1, SessionKept, Zenon DEF SchemaInv
    <2> QED BY <2>1, <2>2, <2>3, Zenon DEF SchemaInv
<1>2. ASSUME NEW c \in Client, NEW j \in Menus[menu], Start(c, j) PROVE SchemaInv'
    BY <1>2, StartKeeps, Zenon
<1>3. ASSUME NEW c \in Client, Pick(c) \/ Execute(c) \/ Commit(c) PROVE SchemaInv'
    BY <1>3, PickKeeps, ExecuteKeeps, CommitKeeps, Zenon
<1> QED BY <1>1, <1>2, <1>3, Zenon DEF Next

\* What the transactions of all sessions show and have written is, at every moment, what
\* SchemaInv says: the catalog and the rows they see fit, statement by statement.
THEOREM SchemaAlwaysRight == Spec => []SchemaInv
BY InitRight, NextKeeps, PTL DEF Spec

\* Whatever statements sessions run, in autocommit or in blocks, on main or on a branch,
\* with whatever overlap and retries, a committed row fits the catalog entry of its table,
\* unless the commit that left it there was marked (decodeRow reads cells by position).
THEOREM RowsAlwaysFit == Spec => []RowsFitSchema
<1>1. SchemaInv => RowsFitSchema
    BY Zenon DEF SchemaInv, Right, RowsFitSchema
<1> QED BY <1>1, SchemaAlwaysRight, PTL

=============================================================================
