--------------------------- MODULE RowWriteProofs ---------------------------
(***************************************************************************)
(* What a commit does to the committed contents of Rows, and what a single *)
(* write of a statement does to its transaction: rows, index entries,      *)
(* constraints and references stay right but for the rows that are marked, *)
(* for any numbers of rows and values.                                     *)
(***************************************************************************)
EXTENDS Rows, TLAPS

-----------------------------------------------------------------------------
(* The inductive invariant.                                                *)

\* What a transaction reads.
View(t) == [k \in Key |-> Read(t, k)]

\* Row i of the contents f has exactly the index entries its value calls for, and
\* none before the index exists.
Agrees(f, i) ==
    \A v \in Val : (f[I(v, i)] # Absent) <=> (f[Idx] # Absent /\ f[P(i)] = v)

\* The checks hold in the contents f, but for the rows Y and, for the foreign key,
\* the parents Z whose check is still to come.
Accepted(f, Y) ==
    \A i \in Id : f[P(i)] \in PCell \cup {Absent} /\ (f[P(i)] \in Rejected => P(i) \in Y)

Unique(f, Y) ==
    \A i, j \in Id : i # j /\ f[Idx] # Absent /\ f[P(i)] \in Val /\ f[P(i)] = f[P(j)] =>
        P(i) \in Y \/ P(j) \in Y

Referred(f, Y, Z) ==
    \A j \in CId : f[C(j)] \in Id /\ f[P(f[C(j)])] = Absent =>
        C(j) \in Y \/ P(f[C(j)]) \in Y \/ f[C(j)] \in Z

\* A buffer that writes an entry writes its row or builds the index, and one that
\* writes a row writes its entry as well, even if the snapshot has it.
Coupled(t, i) ==
    \A v \in Val :
        /\ t.buf[I(v, i)] # Keep => t.buf[P(i)] # Keep \/ t.buf[Idx] # Keep
        /\ t.buf[P(i)] = v /\ Read(t, Idx) # Absent => t.buf[I(v, i)] # Keep

Pending == [kind : {"child", "parent"}, val : Id]

Waiting(q) == {q[n].val : n \in 1 .. Len(q)}

Data == PCell \cup CCell \cup Nat \cup {Absent, "unique"}

TxnType ==
    [open : {TRUE}, snap : [Key -> Data], buf : [Key -> Data \cup {Keep}], since : SUBSET Key]

Mark == {"P", "C"} \X Nat

StateType ==
    [ok : BOOLEAN, t : TxnType, pend : Seq(Pending), late : BOOLEAN,
     index : SUBSET Mark, check : SUBSET Mark]

\* The index definition is written once, the counter never deleted.
MetaOK(t) ==
    /\ t.buf[Idx] \in {Keep, "unique"}
    /\ t.buf[Idx] # Keep => t.snap[Idx] = Absent
    /\ t.buf[Seq1] # Absent /\ Read(t, Seq1) \in Nat \cup {Absent}

\* The index is right in what the transaction reads and in its snapshot, but for the
\* rows X; the checks hold in what it reads.
IndexOK(t, X) ==
    \A i \in Id : P(i) \notin X => Agrees(View(t), i) /\ Agrees(t.snap, i) /\ Coupled(t, i)

ChecksOK(t, Y, Z) == Accepted(View(t), Y) /\ Unique(View(t), Y) /\ Referred(View(t), Y, Z)

\* A transaction in the middle of a statement.
Good(s) ==
    /\ s \in StateType
    /\ MetaOK(s.t)
    /\ IndexOK(s.t, loose.index \cup s.index)
    /\ ChecksOK(s.t, loose.check \cup s.check, Waiting(s.pend))
    /\ s.index \subseteq s.check

\* What no statement changes, or takes back.
Frame(s, r) ==
    /\ r.t.snap = s.t.snap /\ r.t.since = s.t.since /\ r.late = s.late
    /\ s.index \subseteq r.index /\ s.check \subseteq r.check
    /\ ~s.late => r.pend = s.pend

-----------------------------------------------------------------------------
(* Keys and states.                                                        *)

LEMMA KeysDiffer ==
    /\ \A i, j : (P(i) = P(j)) = (i = j)
    /\ \A i, j : (C(i) = C(j)) = (i = j)
    /\ \A v, w, i, j : (I(v, i) = I(w, j)) = (v = w /\ i = j)
    /\ \A i, j : P(i) # C(j)
    /\ \A i, j, v : P(i) # I(v, j) /\ C(i) # I(v, j)
    /\ \A i : P(i) # Idx /\ P(i) # Seq1 /\ C(i) # Idx /\ C(i) # Seq1
    /\ \A v, i : I(v, i) # Idx /\ I(v, i) # Seq1
    /\ Idx # Seq1
<1>1. \A i, j : (P(i) = P(j)) = (i = j)
    BY Zenon DEF P
<1>2. \A i, j : (C(i) = C(j)) = (i = j)
    BY Zenon DEF C
<1>3. \A v, w, i, j : (I(v, i) = I(w, j)) = (v = w /\ i = j)
    BY Zenon DEF I
<1>4. \A i, j : P(i) # C(j)
    BY Zenon DEF P, C
<1>5. \A i, j, v : P(i) # I(v, j) /\ C(i) # I(v, j)
    BY Zenon DEF P, C, I
<1>6. \A i : P(i) # Idx /\ P(i) # Seq1 /\ C(i) # Idx /\ C(i) # Seq1
    BY Zenon DEF P, C, Idx, Seq1
<1>7. \A v, i : I(v, i) # Idx /\ I(v, i) # Seq1
    BY Zenon DEF I, Idx, Seq1
<1>8. Idx # Seq1
    BY Zenon DEF Idx, Seq1
<1> QED BY <1>1, <1>2, <1>3, <1>4, <1>5, <1>6, <1>7, <1>8, Zenon

LEMMA KeyIs ==
    /\ \A i : (P(i) \in Key) = (i \in Id)
    /\ \A j : (C(j) \in Key) = (j \in CId)
    /\ \A v, i : (I(v, i) \in Key) = (v \in Val /\ i \in Id)
    /\ Idx \in Key /\ Seq1 \in Key
<1>1. \A i : (P(i) \in Key) = (i \in Id)
    BY KeysDiffer DEF Key, PRows, CRows, Entries
<1>2. \A j : (C(j) \in Key) = (j \in CId)
    BY KeysDiffer DEF Key, PRows, CRows, Entries
<1>3. \A v, i : (I(v, i) \in Key) = (v \in Val /\ i \in Id)
    BY KeysDiffer DEF Key, PRows, CRows, Entries
<1>4. Idx \in Key /\ Seq1 \in Key
    BY Zenon DEF Key
<1> QED BY <1>1, <1>2, <1>3, <1>4, Zenon

LEMMA PutIs ==
    ASSUME NEW s \in StateType, NEW w, \A k \in Key : k \in DOMAIN w => w[k] \in Data
    PROVE  LET r == Put(s, w)
           IN  /\ r \in StateType
               /\ r.ok = s.ok /\ r.pend = s.pend /\ r.late = s.late
               /\ r.index = s.index /\ r.check = s.check
               /\ r.t.snap = s.t.snap /\ r.t.since = s.t.since
               /\ \A k \in Key : r.t.buf[k] = IF k \in DOMAIN w THEN w[k] ELSE s.t.buf[k]
<1>1. PICK b : b = [k \in Key |-> IF k \in DOMAIN w THEN w[k] ELSE s.t.buf[k]]
    BY Zenon
<1>2. b \in [Key -> Data \cup {Keep}]
    BY <1>1, Zenon DEF StateType, TxnType
<1>3. PICK t : t = [s.t EXCEPT !.buf = b]
    BY Zenon
<1>4. t \in TxnType /\ t.buf = b /\ t.snap = s.t.snap /\ t.since = s.t.since
    BY <1>2, <1>3, Zenon DEF StateType, TxnType
<1>5. Put(s, w) = [s EXCEPT !.t = t]
    BY <1>1, <1>3, Zenon DEF Put, StateType
<1> QED BY <1>1, <1>4, <1>5 DEF StateType

\* What a transaction reads after it has buffered w.
LEMMA PutView ==
    ASSUME NEW s \in StateType, NEW w, \A k \in Key : k \in DOMAIN w => w[k] \in Data
    PROVE  \A k \in Key : View(Put(s, w).t)[k] = IF k \in DOMAIN w THEN w[k] ELSE View(s.t)[k]
<1>1. Keep \notin Data
    BY MarkersAssumption, RowsAssumption DEF Data, PCell, CCell, Id
<1> QED BY <1>1, PutIs DEF View, Read

LEMMA FailIs ==
    ASSUME NEW s \in StateType
    PROVE  LET r == Fail(s)
           IN  /\ r \in StateType /\ r.ok = FALSE /\ r.pend = s.pend /\ r.late = s.late
               /\ r.index = s.index /\ r.check = s.check /\ r.t = s.t
BY Zenon DEF StateType, Fail

LEMMA RecordIs ==
    ASSUME NEW s \in StateType, NEW kind \in {"child", "parent"}, NEW i \in Id
    PROVE  LET r == Record(s, kind, i)
           IN  /\ r \in StateType /\ r.ok = s.ok /\ r.late = s.late
               /\ Waiting(r.pend) = Waiting(s.pend) \cup {i}
               /\ r.index = s.index /\ r.check = s.check /\ r.t = s.t
<1>1. PICK q : q = Append(s.pend, [kind |-> kind, val |-> i])
    BY Zenon
<1>2. q \in Seq(Pending) /\ Len(q) = Len(s.pend) + 1 /\ q[Len(q)].val = i
      /\ \A n \in 1 .. Len(s.pend) : q[n] = s.pend[n]
    BY <1>1 DEF StateType, Pending
<1>3. s.pend \in Seq(Pending)
    BY Zenon DEF StateType
<1>4. Waiting(q) = Waiting(s.pend) \cup {i}
    <2>1. PICK m \in Nat : m = Len(s.pend)
        BY <1>3
    <2>2. Waiting(q) \subseteq Waiting(s.pend) \cup {i}
        BY <1>2, <2>1 DEF Waiting
    <2>3. Waiting(s.pend) \subseteq Waiting(q) /\ i \in Waiting(q)
        BY <1>2, <2>1 DEF Waiting
    <2> QED BY <2>2, <2>3, Zenon
<1>5. Record(s, kind, i) = [s EXCEPT !.pend = q]
    BY <1>1, Zenon DEF Record, StateType
<1> QED BY <1>2, <1>4, <1>5, Zenon DEF StateType

LEMMA UncheckedIs ==
    ASSUME NEW s \in StateType, NEW Y \in SUBSET Mark
    PROVE  LET r == Unchecked(s, Y)
           IN  /\ r \in StateType /\ r.ok = s.ok /\ r.pend = s.pend /\ r.late = s.late
               /\ r.index = s.index /\ r.check = s.check \cup Y /\ r.t = s.t
BY Zenon DEF StateType, Unchecked

LEMMA UnindexedIs ==
    ASSUME NEW s \in StateType, NEW X \in SUBSET Mark
    PROVE  LET r == Unindexed(s, X)
           IN  /\ r \in StateType /\ r.ok = s.ok /\ r.pend = s.pend /\ r.late = s.late
               /\ r.index = s.index \cup X /\ r.check = s.check /\ r.t = s.t
BY Zenon DEF StateType, Unindexed

LEMMA DataIs == Keep \notin Data /\ Absent \in Data /\ Null \in Data
    /\ Val \subseteq Data /\ Id \subseteq Data /\ Nat \subseteq Data /\ "unique" \in Data
BY MarkersAssumption, RowsAssumption DEF Data, PCell, CCell, Id


-----------------------------------------------------------------------------
(* What a commit does.                                                     *)

Marks == [index : SUBSET Mark, check : SUBSET Mark]

\* The committed contents f are right but for the rows that L marks.
Contents(f, L) ==
    /\ f \in [Key -> Data] /\ f[Seq1] \in Nat \cup {Absent}
    /\ L \in Marks /\ L.index \subseteq L.check
    /\ \A i \in Id : P(i) \notin L.index => Agrees(f, i)
    /\ Accepted(f, L.check) /\ Unique(f, L.check) /\ Referred(f, L.check, {})

\* A transaction between two statements.
TxnGood(t, X, Y, q) == t \in TxnType /\ MetaOK(t) /\ IndexOK(t, X) /\ ChecksOK(t, Y, Waiting(q))

\* Keys that nobody has committed since its snapshot are as in the snapshot; nobody
\* deletes the index or the counter.
Since(t, f) ==
    /\ \A k \in Key : k \notin t.since => f[k] = t.snap[k]
    /\ \A k \in {Idx, Seq1} : k \in t.since => f[k] # Absent

\* The deferred checks have passed.
Cleared(t, q) == \A n \in 1 .. Len(q) : ~Violated(t, q[n])

\* A transaction t with marks o and deferred checks q that may commit.
Ready(f, L, t, o, q) ==
    /\ Contents(f, L) /\ o \in Marks /\ o.index \subseteq o.check
    /\ TxnGood(t, L.index \cup o.index, L.check \cup o.check, q) /\ Since(t, f)
    /\ \A k \in Written(t) \cap t.since : f[k] = Absent
    /\ Cleared(t, q)

\* What its commit leaves, and the rows that are marked then.
After(f, t) == [k \in Key |-> IF t.buf[k] = Keep THEN f[k] ELSE t.buf[k]]

Merged(L, o, t) ==
    [index |-> L.index \cup o.index \cup Overlap(t).index,
     check |-> L.check \cup o.check \cup Overlap(t).check]

\* After the commit, a key is as the transaction reads it if the transaction wrote it
\* or nobody else did.
LEMMA AfterIs ==
    ASSUME NEW f, NEW t, Since(t, f)
    PROVE  /\ \A k \in Key : k \in Written(t) \/ k \notin t.since => After(f, t)[k] = View(t)[k]
           /\ \A k \in Key : k \notin Written(t) => After(f, t)[k] = f[k] /\ t.buf[k] = Keep
           /\ \A k \in Written(t) : After(f, t)[k] = t.buf[k] /\ t.buf[k] # Keep
BY Zenon DEF After, View, Read, Since, Written

\* The index of a row after the commit: the cases of who built the index when.
LEMMA IndexBuilt ==
    ASSUME NEW f, NEW L, NEW t, NEW o, NEW q, Ready(f, L, t, o, q),
           NEW i \in Id, P(i) \notin L.index \cup o.index, Idx \in Written(t), P(i) \notin t.since
    PROVE  Agrees(After(f, t), i)
<1>1. Since(t, f) /\ MetaOK(t)
    BY Zenon DEF Ready, TxnGood
<1>2. t.buf[Idx] # Keep /\ t.snap[Idx] = Absent
    BY <1>1, Zenon DEF MetaOK, Written
<1>3. Idx \notin t.since /\ f[Idx] = Absent
    BY <1>1, <1>2, KeyIs, Zenon DEF Ready, Since
<1>4. Agrees(f, i) /\ Agrees(t.snap, i) /\ Agrees(View(t), i)
    BY Zenon DEF Ready, Contents, TxnGood, IndexOK
<1>5. After(f, t)[Idx] = View(t)[Idx] /\ After(f, t)[P(i)] = View(t)[P(i)]
    BY <1>1, KeyIs, AfterIs
<1>6. ASSUME NEW v \in Val PROVE After(f, t)[I(v, i)] = View(t)[I(v, i)]
    <2>1. f[I(v, i)] = Absent /\ t.snap[I(v, i)] = Absent /\ I(v, i) \in Key
        BY <1>2, <1>3, <1>4, KeyIs, Zenon DEF Agrees
    <2>2. CASE I(v, i) \in Written(t)
        BY <1>1, <2>1, <2>2, AfterIs
    <2>3. CASE I(v, i) \notin Written(t)
        <3>1. View(t)[I(v, i)] = Absent
            BY <2>1, <2>3, Zenon DEF View, Read, Written
        <3> QED BY <1>1, <2>1, <2>3, <3>1, AfterIs
    <2> QED BY <2>2, <2>3, Zenon
<1> QED BY <1>4, <1>5, <1>6 DEF Agrees

LEMMA RowUnwritten ==
    ASSUME NEW f, NEW L, NEW t, NEW o, NEW q, Ready(f, L, t, o, q),
           NEW i \in Id, P(i) \notin L.index \cup o.index, Idx \notin Written(t), P(i) \notin Written(t)
    PROVE  Agrees(After(f, t), i)
<1>1. Since(t, f) /\ Agrees(f, i) /\ Coupled(t, i)
    BY Zenon DEF Ready, TxnGood, IndexOK, Contents
<1>2. P(i) \in Key /\ Idx \in Key /\ \A v \in Val : I(v, i) \in Key
    BY KeyIs, Zenon
<1>3. \A v \in Val : I(v, i) \notin Written(t)
    BY <1>1, <1>2, Zenon DEF Coupled, Written
<1>4. /\ After(f, t)[Idx] = f[Idx] /\ After(f, t)[P(i)] = f[P(i)]
      /\ \A v \in Val : After(f, t)[I(v, i)] = f[I(v, i)]
    BY <1>1, <1>2, <1>3, AfterIs
<1> QED BY <1>1, <1>4, Zenon DEF Agrees

LEMMA RowWritten ==
    ASSUME NEW f, NEW L, NEW t, NEW o, NEW q, Ready(f, L, t, o, q),
           NEW i \in Id, P(i) \notin L.index \cup o.index,
           Idx \notin Written(t), Idx \notin t.since, P(i) \in Written(t)
    PROVE  Agrees(After(f, t), i)
<1>1. Since(t, f) /\ Agrees(f, i) /\ Agrees(t.snap, i) /\ Agrees(View(t), i) /\ Coupled(t, i)
    BY Zenon DEF Ready, TxnGood, IndexOK, Contents
<1>2. P(i) \in Key /\ Idx \in Key /\ \A v \in Val : I(v, i) \in Key
    BY KeyIs, Zenon
<1>3. After(f, t)[Idx] = f[Idx] /\ f[Idx] = t.snap[Idx] /\ View(t)[Idx] = f[Idx]
    BY <1>1, <1>2, AfterIs DEF Since
<1>4. After(f, t)[P(i)] = View(t)[P(i)] /\ View(t)[P(i)] = t.buf[P(i)]
    BY <1>1, <1>2, AfterIs
<1>5. P(i) \in t.since => f[P(i)] = Absent
    BY Zenon DEF Ready
<1>6. P(i) \notin t.since => f[P(i)] = t.snap[P(i)]
    BY <1>1, <1>2, Zenon DEF Since
<1>7. ASSUME NEW v \in Val
      PROVE  (After(f, t)[I(v, i)] # Absent) <=> (f[Idx] # Absent /\ t.buf[P(i)] = v)
    <2>1. (View(t)[I(v, i)] # Absent) <=> (f[Idx] # Absent /\ t.buf[P(i)] = v)
        BY <1>1, <1>3, <1>4, Zenon DEF Agrees
    <2>2. CASE I(v, i) \in Written(t)
        BY <1>1, <1>2, <2>1, <2>2, AfterIs
    <2>3. CASE I(v, i) \notin Written(t)
        <3>1. After(f, t)[I(v, i)] = f[I(v, i)] /\ t.buf[I(v, i)] = Keep
            BY <1>1, <1>2, <2>3, AfterIs, Zenon
        <3>2. View(t)[I(v, i)] = t.snap[I(v, i)]
            BY <1>2, <3>1, Zenon DEF View, Read
        <3>3. /\ (f[I(v, i)] # Absent) <=> (f[Idx] # Absent /\ f[P(i)] = v)
              /\ (t.snap[I(v, i)] # Absent) <=> (f[Idx] # Absent /\ t.snap[P(i)] = v)
            BY <1>1, <1>3, Zenon DEF Agrees
        <3>4. v # Absent
            BY MarkersAssumption, Zenon
        <3>5. f[Idx] # Absent => t.buf[P(i)] # v
            <4>1. Read(t, Idx) = View(t)[Idx]
                BY <1>2, Zenon DEF View
            <4> QED BY <1>1, <1>3, <3>1, <4>1, Zenon DEF Coupled
        <3> QED BY <1>5, <1>6, <2>1, <3>1, <3>2, <3>3, <3>4, <3>5, Zenon
    <2> QED BY <2>2, <2>3, Zenon
<1> QED BY <1>3, <1>4, <1>7, Zenon DEF Agrees

LEMMA OverlapIs ==
    ASSUME NEW t
    PROVE  /\ Idx \in t.since => PRows \cap Written(t) \subseteq Overlap(t).index
           /\ Idx \notin t.since /\ Idx \in Written(t) => PRows \cap t.since \subseteq Overlap(t).index
           /\ Idx \in Written(t) => PRows \cap t.since \subseteq Overlap(t).check
           /\ t.since \cap (PRows \cup CRows \cup {Idx}) # {} => PRows \cap Written(t) \subseteq Overlap(t).check
           /\ t.since \cap PRows # {} => CRows \cap Written(t) \subseteq Overlap(t).check
           /\ Overlap(t).index \subseteq Overlap(t).check
           /\ Overlap(t).check \subseteq PRows \cup CRows
BY Zenon DEF Overlap

LEMMA CommitIndex ==
    ASSUME NEW f, NEW L, NEW t, NEW o, NEW q, Ready(f, L, t, o, q),
           NEW i \in Id, P(i) \notin Merged(L, o, t).index
    PROVE  Agrees(After(f, t), i)
<1>1. P(i) \notin L.index \cup o.index /\ P(i) \notin Overlap(t).index
    BY Zenon DEF Merged
<1>2. P(i) \in PRows
    BY Zenon DEF PRows
<1>3. CASE Idx \in Written(t)
    <2>1. Since(t, f) /\ (Idx \in t.since => f[Idx] = Absent)
        BY <1>3, Zenon DEF Ready
    <2>2. Idx \notin t.since
        BY <2>1, Zenon DEF Since
    <2>3. P(i) \notin t.since
        BY <1>1, <1>2, <1>3, <2>2, OverlapIs, Zenon
    <2> QED BY <1>1, <1>3, <2>3, IndexBuilt, Zenon
<1>4. CASE Idx \notin Written(t) /\ P(i) \notin Written(t)
    BY <1>1, <1>4, RowUnwritten, Zenon
<1>5. CASE Idx \notin Written(t) /\ P(i) \in Written(t)
    <2>1. Idx \notin t.since
        BY <1>1, <1>2, <1>5, OverlapIs, Zenon
    <2> QED BY <1>1, <1>5, <2>1, RowWritten, Zenon
<1> QED BY <1>3, <1>4, <1>5, Zenon

LEMMA CommitAccepted ==
    ASSUME NEW f, NEW L, NEW t, NEW o, NEW q, Ready(f, L, t, o, q)
    PROVE  Accepted(After(f, t), Merged(L, o, t).check)
<1> SUFFICES ASSUME NEW i \in Id
             PROVE  /\ After(f, t)[P(i)] \in PCell \cup {Absent}
                    /\ After(f, t)[P(i)] \in Rejected => P(i) \in Merged(L, o, t).check
    BY Zenon DEF Accepted
<1>1. /\ f[P(i)] \in PCell \cup {Absent} /\ (f[P(i)] \in Rejected => P(i) \in L.check)
      /\ View(t)[P(i)] \in PCell \cup {Absent}
      /\ View(t)[P(i)] \in Rejected => P(i) \in L.check \cup o.check
    BY Zenon DEF Ready, Contents, TxnGood, ChecksOK, Accepted
<1>2. After(f, t)[P(i)] = View(t)[P(i)] \/ After(f, t)[P(i)] = f[P(i)]
    BY KeyIs, AfterIs DEF Ready
<1> QED BY <1>1, <1>2, Zenon DEF Merged

LEMMA CommitUnique ==
    ASSUME NEW f, NEW L, NEW t, NEW o, NEW q, Ready(f, L, t, o, q)
    PROVE  Unique(After(f, t), Merged(L, o, t).check)
<1>1. PICK D : D = After(f, t)
    BY Zenon
<1> SUFFICES ASSUME NEW i \in Id, NEW j \in Id, i # j, D[Idx] # Absent, D[P(i)] \in Val, D[P(i)] = D[P(j)],
                    P(i) \notin Merged(L, o, t).check, P(j) \notin Merged(L, o, t).check
             PROVE  FALSE
    BY <1>1, Zenon DEF Unique
<1>2. /\ P(i) \notin L.check /\ P(i) \notin o.check /\ P(i) \notin Overlap(t).check
      /\ P(j) \notin L.check /\ P(j) \notin o.check /\ P(j) \notin Overlap(t).check
    BY Zenon DEF Merged
<1>3. Since(t, f) /\ Unique(f, L.check) /\ Unique(View(t), L.check \cup o.check)
    BY Zenon DEF Ready, Contents, TxnGood, ChecksOK
<1>4. P(i) \in Key /\ P(j) \in Key /\ Idx \in Key /\ P(i) \in PRows /\ P(j) \in PRows
    BY KeyIs, Zenon DEF PRows
<1>5. D[P(i)] # View(t)[P(i)] \/ D[P(j)] # View(t)[P(j)] \/ D[Idx] # View(t)[Idx]
    BY <1>2, <1>3, Zenon DEF Unique
<1>6. D[P(i)] # f[P(i)] \/ D[P(j)] # f[P(j)] \/ D[Idx] # f[Idx]
    BY <1>2, <1>3, Zenon DEF Unique
<1>7. CASE P(i) \in Written(t) \/ P(j) \in Written(t)
    <2>1. t.since \cap (PRows \cup CRows \cup {Idx}) = {}
        BY <1>2, <1>4, <1>7, OverlapIs, Zenon
    <2>2. P(i) \notin t.since /\ P(j) \notin t.since /\ Idx \notin t.since
        BY <1>4, <2>1, Zenon
    <2> QED BY <1>1, <1>3, <1>4, <1>5, <2>2, AfterIs
<1>8. CASE P(i) \notin Written(t) /\ P(j) \notin Written(t)
    <2>1. CASE Idx \in Written(t)
        <3>1. P(i) \notin t.since /\ P(j) \notin t.since
            BY <1>2, <1>4, <2>1, OverlapIs, Zenon
        <3> QED BY <1>1, <1>3, <1>4, <1>5, <2>1, <3>1, AfterIs
    <2>2. CASE Idx \notin Written(t)
        BY <1>1, <1>3, <1>4, <1>6, <1>8, <2>2, AfterIs
    <2> QED BY <2>1, <2>2, Zenon
<1> QED BY <1>7, <1>8, Zenon

LEMMA CommitReferred ==
    ASSUME NEW f, NEW L, NEW t, NEW o, NEW q, Ready(f, L, t, o, q)
    PROVE  Referred(After(f, t), Merged(L, o, t).check, {})
<1>1. PICK D : D = After(f, t)
    BY Zenon
<1> SUFFICES ASSUME NEW j \in CId, NEW x \in Id, D[C(j)] = x, D[P(x)] = Absent,
                    C(j) \notin Merged(L, o, t).check, P(x) \notin Merged(L, o, t).check
             PROVE  FALSE
    BY <1>1, Zenon DEF Referred
<1>2. /\ P(x) \notin L.check /\ P(x) \notin o.check /\ P(x) \notin Overlap(t).check
      /\ C(j) \notin L.check /\ C(j) \notin o.check /\ C(j) \notin Overlap(t).check
    BY Zenon DEF Merged
<1>3. Since(t, f) /\ Referred(f, L.check, {}) /\ Referred(View(t), L.check \cup o.check, Waiting(q))
    BY Zenon DEF Ready, Contents, TxnGood, ChecksOK
<1>4. P(x) \in Key /\ C(j) \in Key /\ P(x) \in PRows /\ C(j) \in CRows
    BY KeyIs, Zenon DEF PRows, CRows
<1>5. ASSUME D[P(x)] = View(t)[P(x)], D[C(j)] = View(t)[C(j)] PROVE FALSE
    <2>1. x \in Waiting(q)
        BY <1>2, <1>3, <1>5, Zenon DEF Referred
    <2>2. PICK n \in 1 .. Len(q) : q[n].val = x
        BY <2>1, Zenon DEF Waiting
    <2>3. Read(t, P(x)) = Absent /\ Read(t, C(j)) = x
        BY <1>4, <1>5, Zenon DEF View
    <2>4. Violated(t, q[n])
        BY <2>2, <2>3, Zenon DEF Violated
    <2> QED BY <2>4, Zenon DEF Ready, Cleared
<1>6. D[P(x)] # f[P(x)] \/ D[C(j)] # f[C(j)]
    BY <1>2, <1>3, Zenon DEF Referred
<1>7. CASE C(j) \in Written(t)
    <2>1. P(x) \notin t.since
        BY <1>2, <1>4, <1>7, OverlapIs, Zenon
    <2> QED BY <1>1, <1>3, <1>4, <1>5, <1>7, <2>1, AfterIs
<1>8. CASE C(j) \notin Written(t) /\ P(x) \in Written(t)
    <2>1. C(j) \notin t.since
        BY <1>2, <1>4, <1>8, OverlapIs, Zenon
    <2> QED BY <1>1, <1>3, <1>4, <1>5, <1>8, <2>1, AfterIs
<1>9. CASE C(j) \notin Written(t) /\ P(x) \notin Written(t)
    BY <1>1, <1>3, <1>4, <1>6, <1>9, AfterIs
<1> QED BY <1>7, <1>8, <1>9, Zenon

\* A commit keeps the contents right, but for the rows it marks.
LEMMA CommitContents ==
    ASSUME NEW f, NEW L, NEW t, NEW o, NEW q, Ready(f, L, t, o, q)
    PROVE  Contents(After(f, t), Merged(L, o, t))
<1>1. After(f, t) \in [Key -> Data]
    BY Zenon DEF Ready, Contents, TxnGood, TxnType, After
<1>2. After(f, t)[Seq1] \in Nat \cup {Absent}
    <2>1. f[Seq1] \in Nat \cup {Absent} /\ Read(t, Seq1) \in Nat \cup {Absent}
        BY Zenon DEF Ready, Contents, TxnGood, MetaOK
    <2> QED BY <2>1, KeyIs, Zenon DEF After, Read
<1>3. Overlap(t).index \subseteq Overlap(t).check /\ Overlap(t).check \subseteq Mark
    <2>1. PRows \cup CRows \subseteq Mark
        BY DEF PRows, CRows, Mark, P, C, Id, CId
    <2> QED BY <2>1, OverlapIs, Zenon
<1>4. Merged(L, o, t) \in Marks /\ Merged(L, o, t).index \subseteq Merged(L, o, t).check
    BY <1>3, Zenon DEF Ready, Contents, Marks, Merged
<1>5. \A i \in Id : P(i) \notin Merged(L, o, t).index => Agrees(After(f, t), i)
    BY CommitIndex, Zenon
<1> QED BY <1>1, <1>2, <1>4, <1>5, CommitAccepted, CommitUnique, CommitReferred, Zenon DEF Contents

\* What is right stays right as more rows are marked, and the keys that are committed
\* since do not matter.
LEMMA TxnGrows ==
    ASSUME NEW t, NEW X, NEW Y, NEW q, TxnGood(t, X, Y, q),
           NEW XX, X \subseteq XX, NEW YY, Y \subseteq YY,
           NEW r \in TxnType, r.buf = t.buf, r.snap = t.snap
    PROVE  TxnGood(r, XX, YY, q)
<1>1. View(r) = View(t) /\ Read(r, Idx) = Read(t, Idx) /\ Read(r, Seq1) = Read(t, Seq1)
    BY Zenon DEF View, Read
<1>2. MetaOK(r)
    BY <1>1, Zenon DEF TxnGood, MetaOK
<1>3. IndexOK(r, XX)
    BY <1>1, Zenon DEF TxnGood, IndexOK, Coupled
<1>4. ChecksOK(r, YY, Waiting(q))
    <2>1. Accepted(View(t), YY)
        BY Zenon DEF TxnGood, ChecksOK, Accepted
    <2>2. Unique(View(t), YY)
        BY Zenon DEF TxnGood, ChecksOK, Unique
    <2>3. Referred(View(t), YY, Waiting(q))
        BY Zenon DEF TxnGood, ChecksOK, Referred
    <2> QED BY <1>1, <2>1, <2>2, <2>3, Zenon DEF ChecksOK
<1> QED BY <1>2, <1>3, <1>4, Zenon DEF TxnGood

\* A commit of t as another transaction u sees it.
LEMMA SinceGrows ==
    ASSUME NEW f, NEW t, NEW u, Since(t, f), Since(u, f), MetaOK(t), u \in TxnType
    PROVE  Since([u EXCEPT !.since = @ \cup Written(t)], After(f, t))
<1>1. PICK r : r = [u EXCEPT !.since = @ \cup Written(t)]
    BY Zenon
<1>2. r.snap = u.snap /\ r.since = u.since \cup Written(t)
    BY <1>1, Zenon DEF TxnType
<1>3. \A k \in Key : k \notin r.since => After(f, t)[k] = r.snap[k]
    BY <1>2, AfterIs DEF Since
<1>4. Idx \in Written(t) => After(f, t)[Idx] # Absent
    BY AfterIs, MarkersAssumption DEF MetaOK
<1>5. Seq1 \in Written(t) => After(f, t)[Seq1] # Absent
    BY AfterIs DEF MetaOK
<1>6. \A k \in {Idx, Seq1} : k \in r.since => After(f, t)[k] # Absent
    BY <1>2, <1>4, <1>5, KeyIs, AfterIs DEF Since
<1> QED BY <1>1, <1>3, <1>6, Zenon DEF Since

\* A transaction that has just begun.
LEMMA FreshGood ==
    ASSUME NEW f, NEW L, Contents(f, L)
    PROVE  LET t == [open |-> TRUE, snap |-> f, buf |-> NoWrites, since |-> {}]
           IN  TxnGood(t, L.index, L.check, <<>>) /\ Since(t, f)
<1>1. PICK t : t = [open |-> TRUE, snap |-> f, buf |-> NoWrites, since |-> {}]
    BY Zenon
<1>2. f \in [Key -> Data] /\ f[Seq1] \in Nat \cup {Absent}
    BY Zenon DEF Contents
<1>3. /\ t \in TxnType /\ t.snap = f /\ t.since = {}
      /\ \A k \in Key : t.buf[k] = Keep /\ Read(t, k) = f[k]
    BY <1>1, <1>2, Zenon DEF TxnType, NoWrites, Read
<1>4. View(t) = f
    BY <1>2, <1>3, Zenon DEF View
<1>5. MetaOK(t)
    BY <1>2, <1>3, KeyIs, MarkersAssumption, Zenon DEF MetaOK
<1>6. IndexOK(t, L.index)
    <2> SUFFICES ASSUME NEW i \in Id, P(i) \notin L.index
                 PROVE  Agrees(View(t), i) /\ Agrees(t.snap, i) /\ Coupled(t, i)
        BY Zenon DEF IndexOK
    <2>1. Coupled(t, i)
        BY <1>3, KeyIs, MarkersAssumption DEF Coupled
    <2> QED BY <1>3, <1>4, <2>1, Zenon DEF Contents
<1>7. ChecksOK(t, L.check, Waiting(<<>>))
    <2>1. Waiting(<<>>) = {}
        BY DEF Waiting
    <2> QED BY <1>4, <2>1, Zenon DEF ChecksOK, Contents
<1>8. Since(t, f)
    BY <1>3, Zenon DEF Since
<1>9. t \in TxnType
    BY <1>3, Zenon
<1> QED BY <1>1, <1>5, <1>6, <1>7, <1>8, <1>9, Zenon DEF TxnGood

-----------------------------------------------------------------------------
(* Writing a row of P with its index entries.                              *)

LooseOK ==
    /\ loose \in [index : SUBSET Mark, check : SUBSET Mark]
    /\ loose.index \subseteq loose.check

\* What Replace writes, key by key.
Replaced(s, b, i, v, newI, newV, f) ==
    /\ \A x \in Id : f[P(x)] = IF x = newI THEN newV ELSE b[P(x)]
    /\ \A j \in CId : f[C(j)] = b[C(j)]
    /\ f[Idx] = b[Idx] /\ f[Seq1] = b[Seq1]
    /\ \A x \in Id, u \in Val :
           f[I(u, x)] = IF Indexed(s) /\ x = newI /\ u = newV THEN x
                        ELSE IF Indexed(s) /\ x = i /\ u = v THEN Absent ELSE b[I(u, x)]

\* The state r after it.
IsReplaced(s, r, i, v, newI, newV) ==
    /\ r \in StateType /\ r.ok = s.ok /\ r.pend = s.pend /\ r.late = s.late
    /\ r.index = s.index /\ r.check = s.check
    /\ r.t.snap = s.t.snap /\ r.t.since = s.t.since
    /\ Replaced(s, s.t.buf, i, v, newI, newV, r.t.buf)
    /\ Replaced(s, View(s.t), i, v, newI, newV, View(r.t))

LEMMA ReplaceIs ==
    ASSUME NEW s \in StateType, NEW i, NEW v, NEW newI, NEW newV \in PCell
    PROVE  IsReplaced(s, Replace(s, i, v, newI, newV), i, v, newI, newV)
<1>1. PICK e : e = IndexEntries(s, newI, newV, TRUE)
    BY Zenon
<1>2. PICK d : d = IndexEntries(s, i, v, FALSE)
    BY Zenon
<1>3. PICK w : w = Over(e, Over(One(P(newI), newV), d))
    BY Zenon
<1>4. /\ DOMAIN e = IF newV = Null \/ ~Indexed(s) THEN {} ELSE {I(newV, newI)}
      /\ \A k \in DOMAIN e : e[k] = newI
    BY <1>1, Zenon DEF IndexEntries, One, Nothing
<1>5. /\ DOMAIN d = IF v = Null \/ ~Indexed(s) THEN {} ELSE {I(v, i)}
      /\ \A k \in DOMAIN d : d[k] = Absent
    BY <1>2, Zenon DEF IndexEntries, One, Nothing
<1>6. /\ DOMAIN w = DOMAIN e \cup {P(newI)} \cup DOMAIN d
      /\ \A k \in DOMAIN w : w[k] = IF k \in DOMAIN e THEN newI
                                    ELSE IF k = P(newI) THEN newV ELSE Absent
    <2>1. PICK g : g = Over(One(P(newI), newV), d)
        BY Zenon
    <2>2. DOMAIN g = {P(newI)} \cup DOMAIN d
          /\ \A k \in DOMAIN g : g[k] = IF k = P(newI) THEN newV ELSE Absent
        BY <2>1, <1>5, Zenon DEF Over, One
    <2> QED BY <1>3, <1>4, <2>1, <2>2, Zenon DEF Over
<1>7. \A k \in Key : k \in DOMAIN w => w[k] \in Data
    <2>1. I(newV, newI) \in Key => newI \in Data
        BY KeyIs, DataIs, Zenon
    <2>2. newV \in Data
        BY Zenon DEF Data
    <2> QED BY <1>4, <1>6, <2>1, <2>2, DataIs, Zenon
<1>8. Replace(s, i, v, newI, newV) = Put(s, w)
    BY <1>1, <1>2, <1>3, Zenon DEF Replace
<1>9. ASSUME NEW b, NEW f, \A k \in Key : f[k] = IF k \in DOMAIN w THEN w[k] ELSE b[k]
      PROVE  Replaced(s, b, i, v, newI, newV, f)
    <2>1. \A x \in Id : f[P(x)] = IF x = newI THEN newV ELSE b[P(x)]
        BY <1>4, <1>5, <1>6, <1>9, KeyIs, KeysDiffer
    <2>2. \A j \in CId : f[C(j)] = b[C(j)]
        BY <1>4, <1>5, <1>6, <1>9, KeyIs, KeysDiffer
    <2>3. f[Idx] = b[Idx] /\ f[Seq1] = b[Seq1]
        BY <1>4, <1>5, <1>6, <1>9, KeyIs, KeysDiffer
    <2>4. ASSUME NEW x \in Id, NEW u \in Val
          PROVE  f[I(u, x)] = IF Indexed(s) /\ x = newI /\ u = newV THEN x
                              ELSE IF Indexed(s) /\ x = i /\ u = v THEN Absent ELSE b[I(u, x)]
        <3>1. u # Null /\ I(u, x) \in Key
            BY KeyIs, MarkersAssumption, Zenon
        <3>2. I(u, x) \in DOMAIN e <=> Indexed(s) /\ x = newI /\ u = newV
            BY <1>4, <3>1, KeysDiffer
        <3>3. I(u, x) \in DOMAIN d <=> Indexed(s) /\ x = i /\ u = v
            BY <1>5, <3>1, KeysDiffer
        <3> QED BY <1>6, <1>9, <3>1, <3>2, <3>3, KeysDiffer
    <2> QED BY <2>1, <2>2, <2>3, <2>4, Zenon DEF Replaced
<1>10. \A k \in Key : View(Put(s, w).t)[k] = IF k \in DOMAIN w THEN w[k] ELSE View(s.t)[k]
    BY <1>7, PutView, Zenon
<1>11. \A k \in Key : Put(s, w).t.buf[k] = IF k \in DOMAIN w THEN w[k] ELSE s.t.buf[k]
    BY <1>7, PutIs, Zenon
<1>12. PICK q : q = Put(s, w)
    BY Zenon
<1>13. /\ q \in StateType /\ q.ok = s.ok /\ q.pend = s.pend /\ q.late = s.late
       /\ q.index = s.index /\ q.check = s.check
       /\ q.t.snap = s.t.snap /\ q.t.since = s.t.since
    BY <1>7, <1>12, PutIs, Zenon
<1>14. Replaced(s, s.t.buf, i, v, newI, newV, q.t.buf)
    BY <1>9, <1>11, <1>12, Zenon
<1>15. Replaced(s, View(s.t), i, v, newI, newV, View(q.t))
    BY <1>9, <1>10, <1>12, Zenon
<1> QED BY <1>8, <1>12, <1>13, <1>14, <1>15, Zenon DEF IsReplaced

LEMMA ViewIs ==
    ASSUME NEW t
    PROVE  \A k \in Key : View(t)[k] = Read(t, k)
BY Zenon DEF View

\* The later state marks at least the rows that the earlier one marks.
Grows(s, r) ==
    /\ r \in StateType
    /\ s.index \subseteq r.index /\ s.check \subseteq r.check /\ r.index \subseteq r.check
    /\ Waiting(s.pend) \subseteq Waiting(r.pend)

\* Row i, whose cells are i and v as far as its index entries are right, becomes
\* newI and newV; the checks are made, or the row is marked.
Rewrites(s, r, i, v, newI, newV) ==
    /\ newV \in PCell
    /\ r.t = Replace(s, i, v, newI, newV).t
    /\ newI # i => {P(i), P(newI)} \subseteq r.index
    /\ newI = i /\ i \in Id /\ P(i) \notin loose.index \cup r.index =>
           \/ View(s.t)[P(i)] = v
           \/ v = Null /\ View(s.t)[P(i)] = Absent
    /\ \/ P(newI) \in loose.check \cup r.check
       \/ /\ newV \notin Rejected
          /\ View(s.t)[P(newI)] # newV =>
                \A j \in Id \ {newI} : Indexed(s) /\ newV \in Val /\ View(s.t)[P(j)] = newV =>
                    P(j) \in loose.check \cup s.check

LEMMA RowWrite ==
    ASSUME NEW s, NEW r, Good(s), LooseOK, Grows(s, r),
           NEW i, NEW v, NEW newI, NEW newV, Rewrites(s, r, i, v, newI, newV)
    PROVE  Good(r)
<1>1. s \in StateType
    BY Zenon DEF Good
<1>2. /\ r.t.snap = s.t.snap
      /\ Replaced(s, s.t.buf, i, v, newI, newV, r.t.buf)
      /\ Replaced(s, View(s.t), i, v, newI, newV, View(r.t))
    <2>1. PICK q : q = Replace(s, i, v, newI, newV)
        BY Zenon
    <2>2. newV \in PCell /\ r.t = q.t
        BY <2>1, Zenon DEF Rewrites
    <2>3. IsReplaced(s, q, i, v, newI, newV)
        BY <1>1, <2>1, <2>2, ReplaceIs, Zenon
    <2> QED BY <2>2, <2>3, Zenon DEF IsReplaced
<1>3. Indexed(s) <=> View(s.t)[Idx] # Absent
    BY ViewIs, KeyIs, Zenon DEF Indexed, Has
<1>4. MetaOK(r.t)
    BY <1>2, Zenon DEF MetaOK, Good, Replaced, Read
<1>5. Read(r.t, Idx) = Read(s.t, Idx)
    BY <1>2, Zenon DEF Replaced, Read
<1>6. IndexOK(r.t, loose.index \cup r.index)
    <2> SUFFICES ASSUME NEW x \in Id, P(x) \notin loose.index \cup r.index
                 PROVE  Agrees(View(r.t), x) /\ Agrees(r.t.snap, x) /\ Coupled(r.t, x)
        BY Zenon DEF IndexOK
    <2>1. Agrees(View(s.t), x) /\ Agrees(s.t.snap, x) /\ Coupled(s.t, x)
        BY Zenon DEF Good, IndexOK, Grows
    <2>2. x = newI \/ x = i => newI = i
        BY Zenon DEF Rewrites
    <2>3. x = i => View(s.t)[P(x)] = v \/ (v = Null /\ View(s.t)[P(x)] = Absent)
        BY <2>2, Zenon DEF Rewrites
    <2>4. Agrees(View(r.t), x)
        <3> SUFFICES ASSUME NEW u \in Val
                     PROVE  (View(r.t)[I(u, x)] # Absent) <=>
                            (View(r.t)[Idx] # Absent /\ View(r.t)[P(x)] = u)
            BY Zenon DEF Agrees
        <3>1. u # Null /\ u # Absent /\ x # Absent
            BY MarkersAssumption DEF Id
        <3>2. (View(s.t)[I(u, x)] # Absent) <=> (View(s.t)[Idx] # Absent /\ View(s.t)[P(x)] = u)
            BY <2>1, Zenon DEF Agrees
        <3>3. /\ View(r.t)[Idx] = View(s.t)[Idx]
              /\ View(r.t)[P(x)] = IF x = newI THEN newV ELSE View(s.t)[P(x)]
              /\ View(r.t)[I(u, x)] = IF Indexed(s) /\ x = newI /\ u = newV THEN x
                                      ELSE IF Indexed(s) /\ x = i /\ u = v THEN Absent ELSE View(s.t)[I(u, x)]
            BY <1>2, Zenon DEF Replaced
        <3> QED BY <1>3, <2>2, <2>3, <3>1, <3>2, <3>3, Zenon
    <2>5. Coupled(r.t, x)
        <3> SUFFICES ASSUME NEW u \in Val
                     PROVE  /\ r.t.buf[I(u, x)] # Keep => r.t.buf[P(x)] # Keep \/ r.t.buf[Idx] # Keep
                            /\ r.t.buf[P(x)] = u /\ Read(r.t, Idx) # Absent => r.t.buf[I(u, x)] # Keep
            BY Zenon DEF Coupled
        <3>1. newV # Keep /\ Keep # Absent /\ x # Keep
            BY MarkersAssumption DEF Id, PCell, Rewrites
        <3>2. /\ s.t.buf[I(u, x)] # Keep => s.t.buf[P(x)] # Keep \/ s.t.buf[Idx] # Keep
              /\ s.t.buf[P(x)] = u /\ Read(s.t, Idx) # Absent => s.t.buf[I(u, x)] # Keep
            BY <2>1, Zenon DEF Coupled
        <3>3. Indexed(s) <=> Read(s.t, Idx) # Absent
            BY Zenon DEF Indexed, Has
        <3>4. /\ r.t.buf[Idx] = s.t.buf[Idx]
              /\ r.t.buf[P(x)] = IF x = newI THEN newV ELSE s.t.buf[P(x)]
              /\ r.t.buf[I(u, x)] = IF Indexed(s) /\ x = newI /\ u = newV THEN x
                                    ELSE IF Indexed(s) /\ x = i /\ u = v THEN Absent ELSE s.t.buf[I(u, x)]
            BY <1>2, Zenon DEF Replaced
        <3> QED BY <1>5, <2>2, <3>1, <3>2, <3>3, <3>4, Zenon
    <2> QED BY <1>2, <2>1, <2>4, <2>5, Zenon
<1>7. \A x \in Id : View(r.t)[P(x)] = IF x = newI THEN newV ELSE View(s.t)[P(x)]
    BY <1>2, Zenon DEF Replaced
<1>8. View(r.t)[Idx] = View(s.t)[Idx] /\ \A j \in CId : View(r.t)[C(j)] = View(s.t)[C(j)]
    BY <1>2, Zenon DEF Replaced
<1>9. PICK Y : Y = loose.check \cup s.check
    BY Zenon
<1>10. PICK Z : Z = loose.check \cup r.check
    BY Zenon
<1>11. Y \subseteq Z
    BY <1>9, <1>10, Zenon DEF Grows
<1>12. P(newI) \notin Z =>
          /\ newV \notin Rejected
          /\ View(s.t)[P(newI)] # newV =>
                \A j \in Id \ {newI} : Indexed(s) /\ newV \in Val /\ View(s.t)[P(j)] = newV => P(j) \in Y
    BY <1>9, <1>10, Zenon DEF Rewrites
<1>13. Accepted(View(r.t), Z)
    <2>1. Accepted(View(s.t), Y)
        BY <1>9, Zenon DEF Good, ChecksOK
    <2>2. newV \in PCell
        BY Zenon DEF Rewrites
    <2> QED BY <1>7, <1>11, <1>12, <2>1, <2>2, Zenon DEF Accepted
<1>14. Unique(View(r.t), Z)
    <2>1. Unique(View(s.t), Y)
        BY <1>9, Zenon DEF Good, ChecksOK
    <2> SUFFICES ASSUME NEW x \in Id, NEW y \in Id, x # y, View(r.t)[Idx] # Absent,
                        View(r.t)[P(x)] \in Val, View(r.t)[P(x)] = View(r.t)[P(y)],
                        P(x) \notin Z, P(y) \notin Z
                 PROVE  FALSE
        BY Zenon DEF Unique
    <2> QED BY <1>3, <1>7, <1>8, <1>11, <1>12, <2>1, Zenon DEF Unique
<1>15. Referred(View(r.t), Z, Waiting(r.pend))
    <2>1. newV # Absent
        BY MarkersAssumption, Zenon DEF PCell, Rewrites
    <2>2. Referred(View(s.t), Y, Waiting(s.pend)) /\ Waiting(s.pend) \subseteq Waiting(r.pend)
        BY <1>9, Zenon DEF Good, ChecksOK, Grows
    <2> QED BY <1>7, <1>8, <1>11, <2>1, <2>2, Zenon DEF Referred
<1> QED BY <1>4, <1>6, <1>10, <1>13, <1>14, <1>15, Zenon DEF Good, ChecksOK, Grows

-----------------------------------------------------------------------------
(* Writing rows of C, and the foreign key's side of it.                    *)

LEMMA GoodGrows ==
    ASSUME NEW s, NEW r, Good(s), r.t = s.t, Grows(s, r)
    PROVE  Good(r)
<1>1. IndexOK(r.t, loose.index \cup r.index)
    BY Zenon DEF Good, IndexOK, Grows
<1>2. Accepted(View(r.t), loose.check \cup r.check)
    BY Zenon DEF Good, ChecksOK, Accepted, Grows
<1>3. Unique(View(r.t), loose.check \cup r.check)
    BY Zenon DEF Good, ChecksOK, Unique, Grows
<1>4. Referred(View(r.t), loose.check \cup r.check, Waiting(r.pend))
    BY Zenon DEF Good, ChecksOK, Referred, Grows
<1> QED BY <1>1, <1>2, <1>3, <1>4, Zenon DEF Good, ChecksOK, Grows

\* Rows of P and their index are as before if only rows of C are written.
SameParents(s, r) ==
    /\ r.t.snap = s.t.snap
    /\ \A k \in Key : k \notin CRows => r.t.buf[k] = s.t.buf[k]

LEMMA OnlyChildren ==
    ASSUME NEW s, NEW r, Good(s), Grows(s, r), SameParents(s, r)
    PROVE  /\ MetaOK(r.t)
           /\ IndexOK(r.t, loose.index \cup r.index)
           /\ Accepted(View(r.t), loose.check \cup r.check)
           /\ Unique(View(r.t), loose.check \cup r.check)
           /\ \A i \in Id : View(r.t)[P(i)] = View(s.t)[P(i)]
           /\ View(r.t)[Idx] = View(s.t)[Idx]
<1>1. /\ \A i \in Id : r.t.buf[P(i)] = s.t.buf[P(i)]
      /\ \A i \in Id, v \in Val : r.t.buf[I(v, i)] = s.t.buf[I(v, i)]
      /\ r.t.buf[Idx] = s.t.buf[Idx] /\ r.t.buf[Seq1] = s.t.buf[Seq1]
      /\ r.t.snap = s.t.snap
    BY KeyIs, KeysDiffer DEF CRows, SameParents
<1>2. /\ \A i \in Id : View(r.t)[P(i)] = View(s.t)[P(i)]
      /\ \A i \in Id, v \in Val : View(r.t)[I(v, i)] = View(s.t)[I(v, i)]
      /\ View(r.t)[Idx] = View(s.t)[Idx] /\ Read(r.t, Idx) = Read(s.t, Idx)
    BY <1>1, KeyIs, ViewIs DEF Read
<1>3. MetaOK(r.t)
    BY <1>1, Zenon DEF MetaOK, Good, Read
<1>4. ASSUME NEW i \in Id, P(i) \notin loose.index \cup r.index
      PROVE  Agrees(View(r.t), i) /\ Agrees(r.t.snap, i) /\ Coupled(r.t, i)
    <2>1. Agrees(View(s.t), i) /\ Agrees(s.t.snap, i) /\ Coupled(s.t, i)
        BY <1>4, Zenon DEF Good, IndexOK, Grows
    <2>2. Agrees(View(r.t), i)
        BY <1>2, <2>1, Zenon DEF Agrees
    <2>3. Coupled(r.t, i)
        BY <1>1, <1>2, <2>1, Zenon DEF Coupled
    <2> QED BY <1>1, <2>1, <2>2, <2>3, Zenon
<1>5. Accepted(View(r.t), loose.check \cup r.check)
    BY <1>2, Zenon DEF Good, ChecksOK, Accepted, Grows
<1>6. Unique(View(r.t), loose.check \cup r.check)
    BY <1>2, Zenon DEF Good, ChecksOK, Unique, Grows
<1> QED BY <1>2, <1>3, <1>4, <1>5, <1>6, Zenon DEF IndexOK

LEMMA OneIs ==
    ASSUME NEW k, NEW v
    PROVE  DOMAIN One(k, v) = {k} /\ One(k, v)[k] = v
BY Zenon DEF One

\* Row j of C is written; its parent exists, or the row is marked, or the check waits.
WritesChild(s, r, j, v) ==
    /\ v \in CCell \cup {Absent}
    /\ r.t = Put(s, One(C(j), v)).t
    /\ j \in CId /\ v \in Id /\ View(s.t)[P(v)] = Absent =>
           C(j) \in r.check \/ v \in Waiting(r.pend)

LEMMA PutChildIs ==
    ASSUME NEW s \in StateType, NEW j, NEW v \in CCell \cup {Absent}
    PROVE  LET r == Put(s, One(C(j), v))
           IN  /\ r \in StateType
               /\ r.ok = s.ok /\ r.pend = s.pend /\ r.late = s.late
               /\ r.index = s.index /\ r.check = s.check /\ r.t.since = s.t.since
               /\ SameParents(s, r)
               /\ \A m \in CId : View(r.t)[C(m)] = IF m = j THEN v ELSE View(s.t)[C(m)]
<1>1. PICK w : w = One(C(j), v)
    BY Zenon
<1>2. DOMAIN w = {C(j)} /\ w[C(j)] = v
    BY <1>1, OneIs, Zenon
<1>3. \A k \in Key : k \in DOMAIN w => w[k] \in Data
    BY <1>2, Zenon DEF Data
<1>4. PICK r : r = Put(s, w)
    BY Zenon
<1>5. /\ r \in StateType
      /\ r.ok = s.ok /\ r.pend = s.pend /\ r.late = s.late
      /\ r.index = s.index /\ r.check = s.check
      /\ r.t.snap = s.t.snap /\ r.t.since = s.t.since
      /\ \A k \in Key : r.t.buf[k] = IF k \in DOMAIN w THEN w[k] ELSE s.t.buf[k]
    BY <1>3, <1>4, PutIs, Zenon
<1>6. \A k \in Key : View(r.t)[k] = IF k \in DOMAIN w THEN w[k] ELSE View(s.t)[k]
    BY <1>3, <1>4, PutView, Zenon
<1>7. SameParents(s, r)
    BY <1>2, <1>5, KeyIs DEF SameParents, CRows
<1>8. \A m \in CId : View(r.t)[C(m)] = IF m = j THEN v ELSE View(s.t)[C(m)]
    BY <1>2, <1>6, KeyIs, KeysDiffer
<1> QED BY <1>1, <1>4, <1>5, <1>7, <1>8, Zenon

\* What that is, as one fact about the state q after the write.
ChildPut(s, q, j, v) ==
    /\ q \in StateType
    /\ q.ok = s.ok /\ q.pend = s.pend /\ q.late = s.late
    /\ q.index = s.index /\ q.check = s.check /\ q.t.since = s.t.since
    /\ SameParents(s, q)
    /\ \A m \in CId : View(q.t)[C(m)] = IF m = j THEN v ELSE View(s.t)[C(m)]

LEMMA ChildPutIs ==
    ASSUME NEW s \in StateType, NEW j, NEW v \in CCell \cup {Absent}
    PROVE  ChildPut(s, Put(s, One(C(j), v)), j, v)
BY PutChildIs DEF ChildPut

LEMMA ChildWrite ==
    ASSUME NEW s, NEW r, Good(s), Grows(s, r), NEW j, NEW v, WritesChild(s, r, j, v)
    PROVE  Good(r)
<1>1. s \in StateType /\ v \in CCell \cup {Absent}
    BY Zenon DEF Good, WritesChild
<1>2. /\ SameParents(s, r)
      /\ \A m \in CId : View(r.t)[C(m)] = IF m = j THEN v ELSE View(s.t)[C(m)]
    <2>1. PICK p : p = Put(s, One(C(j), v))
        BY Zenon
    <2>2. ChildPut(s, p, j, v)
        BY <1>1, <2>1, ChildPutIs, Zenon
    <2>3. r.t = p.t
        BY <2>1, Zenon DEF WritesChild
    <2> QED BY <2>2, <2>3, Zenon DEF ChildPut, SameParents
<1>3. /\ MetaOK(r.t)
      /\ IndexOK(r.t, loose.index \cup r.index)
      /\ Accepted(View(r.t), loose.check \cup r.check)
      /\ Unique(View(r.t), loose.check \cup r.check)
      /\ \A i \in Id : View(r.t)[P(i)] = View(s.t)[P(i)]
    BY <1>2, OnlyChildren, Zenon
<1>4. Referred(View(r.t), loose.check \cup r.check, Waiting(r.pend))
    <2>1. Referred(View(s.t), loose.check \cup s.check, Waiting(s.pend))
        BY Zenon DEF Good, ChecksOK
    <2>2. v = Absent => v \notin Id
        BY MarkersAssumption DEF Id
    <2> QED BY <1>2, <1>3, <2>1, <2>2, Zenon DEF Referred, Grows, WritesChild
<1> QED BY <1>3, <1>4, Zenon DEF Good, ChecksOK, Grows

LEMMA FailGood ==
    ASSUME NEW s, Good(s)
    PROVE  Good(Fail(s)) /\ Frame(s, Fail(s))
<1>1. s \in StateType /\ s.index \subseteq s.check
    BY Zenon DEF Good
<1>2. /\ Fail(s) \in StateType /\ Fail(s).t = s.t /\ Fail(s).pend = s.pend /\ Fail(s).late = s.late
      /\ Fail(s).index = s.index /\ Fail(s).check = s.check
    BY <1>1, FailIs, Zenon
<1>3. Frame(s, Fail(s))
    BY <1>2, Zenon DEF Frame
<1>4. Good(Fail(s))
    BY <1>1, <1>2, GoodGrows, Zenon DEF Grows
<1> QED BY <1>3, <1>4, Zenon

LEMMA FrameTrans ==
    ASSUME NEW s, NEW r, NEW q, Frame(s, r), Frame(r, q)
    PROVE  Frame(s, q)
BY Zenon DEF Frame

LEMMA FrameSelf ==
    ASSUME NEW s
    PROVE  Frame(s, s)
BY Zenon DEF Frame

LEMMA RecordGood ==
    ASSUME NEW s, Good(s), s.late, NEW kind \in {"child", "parent"}, NEW i \in Id
    PROVE  LET r == Record(s, kind, i)
           IN  Good(r) /\ Frame(s, r) /\ r.t = s.t /\ r.ok = s.ok /\ i \in Waiting(r.pend)
               /\ r.index = s.index /\ r.check = s.check
               /\ Waiting(s.pend) \subseteq Waiting(r.pend)
<1>1. PICK r : r = Record(s, kind, i)
    BY Zenon
<1>2. s \in StateType /\ s.index \subseteq s.check
    BY Zenon DEF Good
<1>3. /\ r \in StateType /\ r.t = s.t /\ r.late = s.late /\ r.ok = s.ok
      /\ Waiting(r.pend) = Waiting(s.pend) \cup {i}
      /\ r.index = s.index /\ r.check = s.check
    BY <1>1, <1>2, RecordIs, ZenonT(30)
<1>4. Frame(s, r)
    BY <1>3, Zenon DEF Frame
<1>5. Good(r)
    BY <1>2, <1>3, GoodGrows, Zenon DEF Grows
<1> QED BY <1>1, <1>3, <1>4, <1>5, Zenon

\* The parent exists, or its check is to come.
LEMMA EnforceGood ==
    ASSUME NEW s, Good(s), NEW ref \in CCell
    PROVE  LET e == EnforceFKChild(s, ref)
           IN  /\ Good(e) /\ Frame(s, e) /\ e.t = s.t
               /\ e.ok /\ ref \in Id /\ View(e.t)[P(ref)] = Absent => ref \in Waiting(e.pend)
<1>1. PICK e : e = EnforceFKChild(s, ref)
    BY Zenon
<1>2. Null \notin Id /\ s \in StateType
    BY MarkersAssumption DEF Id, Good
<1>3. CASE ref = Null
    BY <1>1, <1>2, <1>3, FrameSelf, Zenon DEF EnforceFKChild
<1>4. CASE ref # Null /\ s.late
    <2>1. ref \in Id /\ e = Record(s, "child", ref)
        BY <1>1, <1>4, Zenon DEF EnforceFKChild, CCell
    <2>2. Good(e) /\ Frame(s, e) /\ e.t = s.t /\ ref \in Waiting(e.pend)
        BY <1>4, <2>1, RecordGood, Zenon
    <2> QED BY <1>1, <2>2, Zenon
<1>5. CASE ref # Null /\ ~s.late /\ Has(s, P(ref))
    <2>1. ref \in Id /\ e = s
        BY <1>1, <1>5, Zenon DEF EnforceFKChild, CCell
    <2>2. View(e.t)[P(ref)] # Absent
        BY <1>5, <2>1, KeyIs, ViewIs, Zenon DEF Has
    <2> QED BY <1>1, <2>1, <2>2, FrameSelf, Zenon
<1>6. CASE ref # Null /\ ~s.late /\ ~Has(s, P(ref))
    <2>1. e = Fail(s)
        BY <1>1, <1>6, Zenon DEF EnforceFKChild
    <2>2. Good(e) /\ Frame(s, e)
        BY <2>1, FailGood, Zenon
    <2>3. e.t = s.t /\ ~e.ok
        BY <1>2, <2>1, Zenon DEF Fail, StateType
    <2> QED BY <1>1, <2>2, <2>3, Zenon
<1> QED BY <1>3, <1>4, <1>5, <1>6, Zenon

-----------------------------------------------------------------------------
(* INSERT, and UPDATE and DELETE of rows of C.                             *)

\* A statement, or a part of it, from s to r.
Step(s, r) == Good(r) /\ Frame(s, r)

LEMMA StepTrans ==
    ASSUME NEW s, NEW r, NEW q, Step(s, r), Step(r, q)
    PROVE  Step(s, q)
BY FrameTrans, Zenon DEF Step

LEMMA WriteChild ==
    ASSUME NEW s, Good(s), NEW j, NEW v \in CCell \cup {Absent},
           j \in CId /\ v \in Id /\ View(s.t)[P(v)] = Absent => v \in Waiting(s.pend)
    PROVE  Step(s, Put(s, One(C(j), v)))
<1>1. PICK r : r = Put(s, One(C(j), v))
    BY Zenon
<1>2. s \in StateType /\ s.index \subseteq s.check
    BY Zenon DEF Good
<1>3. /\ r \in StateType /\ r.pend = s.pend /\ r.late = s.late
      /\ r.index = s.index /\ r.check = s.check /\ r.t.since = s.t.since
      /\ SameParents(s, r)
    BY <1>1, <1>2, PutChildIs
<1>4. Grows(s, r)
    BY <1>2, <1>3, Zenon DEF Grows
<1>5. WritesChild(s, r, j, v)
    BY <1>1, <1>3, Zenon DEF WritesChild
<1>6. Good(r)
    BY <1>4, <1>5, ChildWrite, Zenon
<1> QED BY <1>1, <1>3, <1>6, Zenon DEF Step, Frame, SameParents

LEMMA UpsertChild ==
    ASSUME NEW s, Good(s), NEW j \in CId, NEW v \in CCell
    PROVE  Step(s, DoUpdate(s, "C", j, v))
<1>1. PICK q : q = Put(s, One(C(j), v))
    BY Zenon
<1>2. PICK r : r = Unchecked(q, {C(j)})
    BY Zenon
<1>3. s \in StateType /\ s.index \subseteq s.check
    BY Zenon DEF Good
<1>4. {C(j)} \in SUBSET Mark
    BY RowsAssumption DEF C, CId, Mark
<1>5. /\ q \in StateType /\ q.pend = s.pend /\ q.late = s.late
      /\ q.index = s.index /\ q.check = s.check /\ q.t.since = s.t.since
      /\ SameParents(s, q)
    BY <1>1, <1>3, PutChildIs
<1>6. /\ r \in StateType /\ r.pend = q.pend /\ r.late = q.late
      /\ r.index = q.index /\ r.check = q.check \cup {C(j)} /\ r.t = q.t
    BY <1>2, <1>4, <1>5, UncheckedIs, Zenon
<1>7. Grows(s, r)
    BY <1>3, <1>5, <1>6, Zenon DEF Grows
<1>8. WritesChild(s, r, j, v)
    BY <1>1, <1>6, Zenon DEF WritesChild
<1>9. Good(r)
    BY <1>7, <1>8, ChildWrite, Zenon
<1>10. DoUpdate(s, "C", j, v) = r
    BY <1>1, <1>2, Zenon DEF DoUpdate, C
<1> QED BY <1>5, <1>6, <1>9, <1>10, Zenon DEF Step, Frame, SameParents

LEMMA InsertCGood ==
    ASSUME NEW s, Good(s), NEW j \in CId, NEW v \in CCell, NEW oc \in {"error", "nothing", "update"}
    PROVE  Step(s, InsertC(s, j, v, oc))
<1>1. PICK e : e = EnforceFKChild(s, v)
    BY Zenon
<1>2. /\ Good(e) /\ Frame(s, e)
      /\ e.ok /\ v \in Id /\ View(e.t)[P(v)] = Absent => v \in Waiting(e.pend)
    BY <1>1, EnforceGood, Zenon
<1>3. InsertC(s, j, v, oc) =
          IF e.ok THEN IF Has(e, C(j)) THEN OnConflict(e, "C", j, v, oc) ELSE Put(e, One(C(j), v))
          ELSE e
    BY <1>1 DEF InsertC, Then
<1>4. Step(s, e)
    BY <1>2, Zenon DEF Step
<1>5. CASE e.ok /\ Has(e, C(j))
    <2>1. Step(e, OnConflict(e, "C", j, v, oc))
        <3>1. OnConflict(e, "C", j, v, oc) \in {Fail(e), e, DoUpdate(e, "C", j, v)}
            BY Zenon DEF OnConflict
        <3>2. Step(e, Fail(e)) /\ Step(e, e) /\ Step(e, DoUpdate(e, "C", j, v))
            BY <1>2, FailGood, FrameSelf, UpsertChild, Zenon DEF Step
        <3> QED BY <3>1, <3>2, Zenon
    <2> QED BY <1>3, <1>4, <1>5, <2>1, StepTrans, Zenon
<1>6. CASE e.ok /\ ~Has(e, C(j))
    <2>1. Step(e, Put(e, One(C(j), v)))
        BY <1>2, <1>6, WriteChild, Zenon
    <2> QED BY <1>3, <1>4, <1>6, <2>1, StepTrans
<1> QED BY <1>3, <1>4, <1>5, <1>6, Zenon

LEMMA UpdateCGood ==
    ASSUME NEW s, Good(s), NEW j, NEW v \in CCell
    PROVE  Step(s, UpdateC(s, j, v))
<1>1. PICK e : e = EnforceFKChild(s, v)
    BY Zenon
<1>2. /\ Good(e) /\ Frame(s, e)
      /\ e.ok /\ v \in Id /\ View(e.t)[P(v)] = Absent => v \in Waiting(e.pend)
    BY <1>1, EnforceGood, Zenon
<1>3. UpdateC(s, j, v) = IF e.ok THEN Put(e, One(C(j), v)) ELSE e
    BY <1>1 DEF UpdateC, Then
<1>4. Step(s, e)
    BY <1>2, Zenon DEF Step
<1>5. CASE e.ok
    <2>1. Step(e, Put(e, One(C(j), v)))
        BY <1>2, <1>5, WriteChild, Zenon
    <2> QED BY <1>3, <1>4, <1>5, <2>1, StepTrans, Zenon
<1> QED BY <1>3, <1>4, <1>5, Zenon

\* A state that differs from Replace by marks.
LEMMA RewriteStep ==
    ASSUME NEW s, NEW r, Good(s), LooseOK, NEW i, NEW v, NEW newI, NEW newV,
           r.late = s.late, r.pend = s.pend, Grows(s, r), Rewrites(s, r, i, v, newI, newV)
    PROVE  Step(s, r)
<1>1. Good(r)
    BY RowWrite, Zenon
<1>2. r.t.snap = s.t.snap /\ r.t.since = s.t.since
    <2>1. s \in StateType /\ newV \in PCell /\ r.t = Replace(s, i, v, newI, newV).t
        BY Zenon DEF Good, Rewrites
    <2>2. PICK p : p = Replace(s, i, v, newI, newV)
        BY Zenon
    <2>3. IsReplaced(s, p, i, v, newI, newV)
        BY <2>1, <2>2, ReplaceIs, Zenon
    <2> QED BY <2>1, <2>2, <2>3, Zenon DEF IsReplaced
<1> QED BY <1>1, <1>2, Zenon DEF Step, Frame, Grows

\* No other entry in the index: no other row has the value, but for the marked ones.
LEMMA OthersDiffer ==
    ASSUME NEW s, Good(s), LooseOK, NEW v, NEW i, v # Null => ~HasOtherPK(s, v, i)
    PROVE  \A j \in Id \ {i} : Indexed(s) /\ v \in Val /\ View(s.t)[P(j)] = v =>
               P(j) \in loose.check \cup s.check
<1> SUFFICES ASSUME NEW j \in Id \ {i}, Indexed(s), v \in Val, View(s.t)[P(j)] = v,
                    P(j) \notin loose.check \cup s.check
             PROVE  FALSE
    BY Zenon
<1>1. P(j) \notin loose.index \cup s.index
    BY Zenon DEF Good, LooseOK
<1>2. Agrees(View(s.t), j)
    BY <1>1, Zenon DEF Good, IndexOK
<1>3. View(s.t)[Idx] # Absent
    BY ViewIs, KeyIs, Zenon DEF Indexed, Has
<1>4. View(s.t)[I(v, j)] # Absent
    BY <1>2, <1>3, Zenon DEF Agrees
<1>5. Has(s, I(v, j))
    BY <1>4, ViewIs, KeyIs DEF Has
<1>6. v # Null
    BY MarkersAssumption, Zenon
<1> QED BY <1>5, <1>6, Zenon DEF HasOtherPK

LEMMA UpsertParent ==
    ASSUME NEW s, Good(s), LooseOK, NEW i \in Nat, NEW v \in PCell
    PROVE  Step(s, DoUpdate(s, "P", i, v))
<1>1. PICK q : q = Replace(s, i, Read(s.t, P(i)), i, v)
    BY Zenon
<1>2. PICK r : r = Unchecked(q, {P(i)})
    BY Zenon
<1>3. s \in StateType /\ s.index \subseteq s.check
    BY Zenon DEF Good
<1>4. {P(i)} \in SUBSET Mark
    BY DEF P, Mark
<1>5. /\ q \in StateType /\ q.pend = s.pend /\ q.late = s.late
      /\ q.index = s.index /\ q.check = s.check
    <2>1. IsReplaced(s, q, i, Read(s.t, P(i)), i, v)
        BY <1>1, <1>3, ReplaceIs, Zenon
    <2> QED BY <2>1, Zenon DEF IsReplaced
<1>6. /\ r \in StateType /\ r.pend = q.pend /\ r.late = q.late
      /\ r.index = q.index /\ r.check = q.check \cup {P(i)} /\ r.t = q.t
    BY <1>2, <1>4, <1>5, UncheckedIs, Zenon
<1>7. Grows(s, r)
    BY <1>3, <1>5, <1>6, Zenon DEF Grows
<1>8. Rewrites(s, r, i, Read(s.t, P(i)), i, v)
    <2>1. i \in Id => View(s.t)[P(i)] = Read(s.t, P(i))
        BY ViewIs, KeyIs, Zenon
    <2> QED BY <1>1, <1>6, <2>1, Zenon DEF Rewrites
<1>9. DoUpdate(s, "P", i, v) = r
    BY <1>1, <1>2, Zenon DEF DoUpdate, P
<1>10. r.late = s.late /\ r.pend = s.pend
    BY <1>5, <1>6, Zenon
<1> QED BY <1>7, <1>8, <1>9, <1>10, RewriteStep, Zenon

LEMMA InsertPGood ==
    ASSUME NEW s, Good(s), LooseOK, NEW i \in Nat, NEW v \in PCell,
           NEW oc \in {"error", "nothing", "update"}
    PROVE  Step(s, InsertP(s, i, v, oc))
<1>1. Step(s, Fail(s)) /\ Step(s, s)
    BY FailGood, FrameSelf, Zenon DEF Step
<1>2. Step(s, OnConflict(s, "P", i, v, oc))
    <2>1. OnConflict(s, "P", i, v, oc) \in {Fail(s), s, DoUpdate(s, "P", i, v)}
        BY Zenon DEF OnConflict
    <2> QED BY <1>1, <2>1, UpsertParent, Zenon
<1>3. CASE v \notin Rejected /\ ~Has(s, P(i)) /\ (v # Null => ~HasOtherPK(s, v, i))
    <2>1. PICK r : r = Replace(s, i, Null, i, v)
        BY Zenon
    <2>2. s \in StateType /\ s.index \subseteq s.check
        BY Zenon DEF Good
    <2>3. /\ r \in StateType /\ r.pend = s.pend /\ r.late = s.late
          /\ r.index = s.index /\ r.check = s.check
        <3>1. IsReplaced(s, r, i, Null, i, v)
            BY <2>1, <2>2, ReplaceIs, Zenon
        <3> QED BY <3>1, Zenon DEF IsReplaced
    <2>4. Grows(s, r)
        BY <2>2, <2>3, Zenon DEF Grows
    <2>5. Rewrites(s, r, i, Null, i, v)
        <3>1. i \in Id => View(s.t)[P(i)] = Absent
            BY <1>3, ViewIs, KeyIs, Zenon DEF Has
        <3>2. \A j \in Id \ {i} : Indexed(s) /\ v \in Val /\ View(s.t)[P(j)] = v =>
                  P(j) \in loose.check \cup s.check
            BY <1>3, OthersDiffer, Zenon
        <3> QED BY <1>3, <2>1, <3>1, <3>2, Zenon DEF Rewrites
    <2>6. Step(s, r)
        BY <2>3, <2>4, <2>5, RewriteStep, Zenon
    <2> QED BY <1>3, <2>1, <2>6, Zenon DEF InsertP
<1> QED BY <1>1, <1>2, <1>3, Zenon DEF InsertP

\* A serial value is drawn.
LEMMA DrawGood ==
    ASSUME NEW s, Good(s)
    PROVE  LET q == Put(s, One(Seq1, NextVal(s)))
           IN  Step(s, q) /\ q.ok = s.ok /\ Read(q.t, Seq1) \in Nat
<1>1. PICK n : n = NextVal(s)
    BY Zenon
<1>2. PICK w : w = One(Seq1, n)
    BY Zenon
<1>3. PICK q : q = Put(s, w)
    BY Zenon
<1>4. s \in StateType /\ s.index \subseteq s.check
    BY Zenon DEF Good
<1>5. n \in Nat
    BY <1>1 DEF NextVal, Has, Good, MetaOK
<1>6. DOMAIN w = {Seq1} /\ w[Seq1] = n
    BY <1>2, OneIs, Zenon
<1>7. \A k \in Key : k \in DOMAIN w => w[k] \in Data
    BY <1>5, <1>6, DataIs, Zenon
<1>8. /\ q \in StateType
      /\ q.ok = s.ok /\ q.pend = s.pend /\ q.late = s.late
      /\ q.index = s.index /\ q.check = s.check
      /\ q.t.snap = s.t.snap /\ q.t.since = s.t.since
      /\ \A k \in Key : q.t.buf[k] = IF k \in DOMAIN w THEN w[k] ELSE s.t.buf[k]
    BY <1>3, <1>4, <1>7, PutIs
<1>9. q.t.buf[Seq1] = n /\ \A k \in Key \ {Seq1} : q.t.buf[k] = s.t.buf[k]
    BY <1>6, <1>8, KeyIs, Zenon
<1>10. \A k \in Key \ {Seq1} : View(q.t)[k] = View(s.t)[k]
    BY <1>8, <1>9, Zenon DEF View, Read
<1>11. n # Keep /\ n # Absent
    BY <1>5, MarkersAssumption, Zenon
<1>12. Read(q.t, Seq1) = n
    BY <1>9, <1>11, Zenon DEF Read
<1>13. q.t.buf[Idx] = s.t.buf[Idx] /\ Read(q.t, Idx) = Read(s.t, Idx)
    BY <1>8, <1>9, KeyIs, KeysDiffer DEF Read
<1>14. MetaOK(q.t)
    BY <1>5, <1>8, <1>9, <1>11, <1>12, <1>13, Zenon DEF MetaOK, Good
<1>15. IndexOK(q.t, loose.index \cup q.index)
    <2> SUFFICES ASSUME NEW i \in Id, P(i) \notin loose.index \cup q.index
                 PROVE  Agrees(View(q.t), i) /\ Agrees(q.t.snap, i) /\ Coupled(q.t, i)
        BY Zenon DEF IndexOK
    <2>1. Agrees(View(s.t), i) /\ Agrees(s.t.snap, i) /\ Coupled(s.t, i)
        BY <1>8, Zenon DEF Good, IndexOK
    <2>2. \A v \in Val : I(v, i) \in Key \ {Seq1} /\ P(i) \in Key \ {Seq1} /\ Idx \in Key \ {Seq1}
        BY KeyIs, KeysDiffer
    <2>3. Agrees(View(q.t), i)
        BY <1>10, <2>1, <2>2 DEF Agrees
    <2>4. Coupled(q.t, i)
        BY <1>9, <1>13, <2>1, <2>2, Zenon DEF Coupled
    <2> QED BY <1>8, <2>1, <2>3, <2>4, Zenon
<1>16. /\ \A i \in Id : View(q.t)[P(i)] = View(s.t)[P(i)]
       /\ \A j \in CId : View(q.t)[C(j)] = View(s.t)[C(j)]
       /\ View(q.t)[Idx] = View(s.t)[Idx]
    BY <1>10, KeyIs, KeysDiffer, Zenon
<1>17. ChecksOK(q.t, loose.check \cup q.check, Waiting(q.pend))
    <2>1. PICK Y : Y = loose.check \cup s.check
        BY Zenon
    <2>2. ChecksOK(s.t, Y, Waiting(s.pend))
        BY <2>1, Zenon DEF Good
    <2>3. ChecksOK(q.t, Y, Waiting(s.pend))
        BY <1>16, <2>2, Zenon DEF ChecksOK, Accepted, Unique, Referred
    <2> QED BY <1>8, <2>1, <2>3, Zenon
<1>18. Good(q)
    BY <1>4, <1>8, <1>14, <1>15, <1>17, Zenon DEF Good
<1>19. Frame(s, q)
    BY <1>8, Zenon DEF Frame
<1> QED BY <1>1, <1>2, <1>3, <1>5, <1>8, <1>12, <1>18, <1>19, Zenon DEF Step

LEMMA InsertRowGood ==
    ASSUME NEW s, Good(s), LooseOK, NEW tab, NEW row, NEW oc \in {"error", "nothing", "update"},
           \/ tab = "C" /\ row.id \in CId /\ row.val \in CCell
           \/ tab = "P" /\ row.id \in Id \cup {Default} /\ row.val \in PCell
    PROVE  Step(s, InsertRow(s, tab, row, oc))
<1>1. CASE tab = "C"
    <2>1. row.id \in CId /\ row.val \in CCell
        BY <1>1, Zenon
    <2>2. InsertRow(s, tab, row, oc) = InsertC(s, row.id, row.val, oc)
        BY <1>1, Zenon DEF InsertRow
    <2> QED BY <2>1, <2>2, InsertCGood, Zenon
<1>2. CASE tab = "P" /\ row.id # Default
    <2>1. row.id \in Nat /\ row.val \in PCell
        BY <1>2 DEF Id
    <2>2. InsertRow(s, tab, row, oc) = InsertP(s, row.id, row.val, oc)
        BY <1>2, Zenon DEF InsertRow
    <2> QED BY <2>1, <2>2, InsertPGood, Zenon
<1>3. CASE tab = "P" /\ row.id = Default
    <2>1. PICK q : q = Put(s, One(Seq1, NextVal(s)))
        BY Zenon
    <2>2. Step(s, q) /\ Read(q.t, Seq1) \in Nat
        BY <2>1, DrawGood, Zenon
    <2>3. InsertRow(s, tab, row, oc) =
              IF q.ok THEN InsertP(q, Read(q.t, Seq1), row.val, oc) ELSE q
        BY <1>3, <2>1 DEF InsertRow, Then
    <2>4. row.val \in PCell /\ Good(q)
        BY <1>3, <2>2, Zenon DEF Step
    <2>5. Step(q, InsertP(q, Read(q.t, Seq1), row.val, oc))
        BY <2>2, <2>4, InsertPGood, Zenon
    <2> QED BY <2>2, <2>3, <2>5, StepTrans, Zenon
<1> QED BY <1>1, <1>2, <1>3, Zenon

-----------------------------------------------------------------------------
(* The children of a row of P.                                             *)

\* The first m rows of C have been looked at.
ChildrenInv(s, r, i, action, new, m) ==
    /\ r \in StateType /\ r.late = s.late /\ r.index = s.index /\ r.check = s.check
    /\ r.t.since = s.t.since /\ SameParents(s, r)
    /\ (~s.late => r.pend = s.pend) /\ Waiting(s.pend) \subseteq Waiting(r.pend)
    /\ action = "CASCADE" => r.ok
    /\ \A j \in CId : \/ View(r.t)[C(j)] = View(s.t)[C(j)]
                      \/ View(r.t)[C(j)] = Null
                      \/ action = "CASCADE" /\ View(s.t)[C(j)] = i /\ View(r.t)[C(j)] = new
    /\ r.ok /\ new # i => \A j \in 1 .. m : View(r.t)[C(j)] # i \/ i \in Waiting(r.pend)

LEMMA OnChildKeeps ==
    ASSUME NEW s, NEW r, NEW i \in Id, NEW action, NEW new \in Id \cup {Absent}, NEW m \in CId,
           ChildrenInv(s, r, i, action, new, m - 1), r.ok
    PROVE  ChildrenInv(s, OnChild(r, m, i, action, new), i, action, new, m)
<1>1. PICK q : q = OnChild(r, m, i, action, new)
    BY Zenon
<1>2. r \in StateType /\ m \in 1 .. m /\ m \in Nat
    BY RowsAssumption DEF ChildrenInv, CId
<1>3. View(r.t)[C(m)] = Read(r.t, C(m))
    BY ViewIs, KeyIs, Zenon
<1>4. \A j \in 1 .. m : j = m \/ j \in 1 .. (m - 1)
    BY <1>2
<1>5. \A j \in 1 .. m : j \in CId
    BY RowsAssumption DEF CId
<1>6. CASE Read(r.t, C(m)) # i
    <2>1. q = r
        BY <1>1, <1>6, Zenon DEF OnChild
    <2> QED BY <1>1, <1>3, <1>4, <1>6, <2>1, Zenon DEF ChildrenInv
<1>7. CASE Read(r.t, C(m)) = i /\ action \in {"CASCADE", "SET_NULL"}
    <2>1. PICK x : x = IF action = "CASCADE" THEN new ELSE Null
        BY Zenon
    <2>2. x \in CCell \cup {Absent} /\ (x = Null \/ x = new) /\ i # Null
        <3>1. i # Null
            BY MarkersAssumption DEF Id
        <3>2. x = Null \/ x = new
            BY <2>1, Zenon
        <3> QED BY <3>1, <3>2, Zenon DEF CCell
    <2>3. q = Put(r, One(C(m), x))
        BY <1>1, <1>7, <2>1, Zenon DEF OnChild
    <2>4. /\ q \in StateType
          /\ q.ok = r.ok /\ q.pend = r.pend /\ q.late = r.late
          /\ q.index = r.index /\ q.check = r.check /\ q.t.since = r.t.since
          /\ SameParents(r, q)
          /\ \A j \in CId : View(q.t)[C(j)] = IF j = m THEN x ELSE View(r.t)[C(j)]
        <3>1. r \in StateType /\ x \in CCell \cup {Absent}
            BY <1>2, <2>2, Zenon
        <3>2. ChildPut(r, q, m, x)
            BY <2>3, <3>1, ChildPutIs, Zenon
        <3> QED BY <3>2, Zenon DEF ChildPut
    <2>5. SameParents(s, q)
        BY <2>4, Zenon DEF SameParents, ChildrenInv
    <2>6. View(s.t)[C(m)] = i
        BY <1>3, <1>7, <2>2, Zenon DEF ChildrenInv
    <2>7. \A j \in CId : \/ View(q.t)[C(j)] = View(s.t)[C(j)]
                         \/ View(q.t)[C(j)] = Null
                         \/ action = "CASCADE" /\ View(s.t)[C(j)] = i /\ View(q.t)[C(j)] = new
        BY <2>1, <2>4, <2>6, Zenon DEF ChildrenInv
    <2>8. q.ok /\ new # i => \A j \in 1 .. m : View(q.t)[C(j)] # i \/ i \in Waiting(q.pend)
        BY <1>4, <1>5, <2>2, <2>4, Zenon DEF ChildrenInv
    <2> QED BY <1>1, <2>4, <2>5, <2>7, <2>8, Zenon DEF ChildrenInv
<1>8. CASE Read(r.t, C(m)) = i /\ action \notin {"CASCADE", "SET_NULL"} /\ r.late
    <2>1. q = Record(r, "parent", i)
        BY <1>1, <1>8, Zenon DEF OnChild
    <2>2. /\ q \in StateType /\ q.ok = r.ok /\ q.late = r.late
          /\ Waiting(q.pend) = Waiting(r.pend) \cup {i}
          /\ q.index = r.index /\ q.check = r.check /\ q.t = r.t
        BY <1>2, <2>1, RecordIs, Zenon
    <2>3. SameParents(s, q)
        BY <2>2, Zenon DEF ChildrenInv, SameParents
    <2>4. s.late /\ Waiting(s.pend) \subseteq Waiting(q.pend) /\ i \in Waiting(q.pend)
        BY <1>8, <2>2, Zenon DEF ChildrenInv
    <2>5. action # "CASCADE"
        BY <1>8, Zenon
    <2> QED BY <1>1, <2>2, <2>3, <2>4, <2>5, Zenon DEF ChildrenInv
<1>9. CASE Read(r.t, C(m)) = i /\ action \notin {"CASCADE", "SET_NULL"} /\ ~r.late
    <2>1. q = Fail(r)
        BY <1>1, <1>9, Zenon DEF OnChild
    <2>2. /\ q \in StateType /\ q.ok = FALSE /\ q.pend = r.pend /\ q.late = r.late
          /\ q.index = r.index /\ q.check = r.check /\ q.t = r.t
        BY <1>2, <2>1, FailIs, Zenon
    <2>3. SameParents(s, q)
        BY <2>2, Zenon DEF ChildrenInv, SameParents
    <2>4. action # "CASCADE"
        BY <1>9, Zenon
    <2> QED BY <1>1, <2>2, <2>3, <2>4, Zenon DEF ChildrenInv
<1> QED BY <1>6, <1>7, <1>8, <1>9, Zenon

\* References are as good as before, if the rows they were moved to are marked.
LEMMA ChildrenGood ==
    ASSUME NEW s, NEW r, NEW q, NEW i \in Id, NEW action, NEW new \in Id \cup {Absent}, NEW m,
           Good(s), ChildrenInv(s, r, i, action, new, m), q.t = r.t, q.pend = r.pend, Grows(s, q),
           action = "CASCADE" /\ new \in Id /\ new # i => P(new) \in q.check
    PROVE  Good(q)
<1>1. SameParents(s, q)
    BY Zenon DEF ChildrenInv, SameParents
<1>2. /\ MetaOK(q.t)
      /\ IndexOK(q.t, loose.index \cup q.index)
      /\ Accepted(View(q.t), loose.check \cup q.check)
      /\ Unique(View(q.t), loose.check \cup q.check)
      /\ \A x \in Id : View(q.t)[P(x)] = View(s.t)[P(x)]
    BY <1>1, OnlyChildren, Zenon
<1>3. Referred(View(q.t), loose.check \cup q.check, Waiting(q.pend))
    <2>1. Referred(View(s.t), loose.check \cup s.check, Waiting(s.pend))
        BY Zenon DEF Good, ChecksOK
    <2>2. Null \notin Id /\ Absent \notin Id
        BY MarkersAssumption DEF Id
    <2>3. \A j \in CId : \/ View(q.t)[C(j)] = View(s.t)[C(j)]
                         \/ View(q.t)[C(j)] \notin Id
                         \/ View(q.t)[C(j)] \in Id /\ P(View(q.t)[C(j)]) \in q.check
        <3> SUFFICES ASSUME NEW j \in CId
                     PROVE  \/ View(q.t)[C(j)] = View(s.t)[C(j)]
                            \/ View(q.t)[C(j)] \notin Id
                            \/ View(q.t)[C(j)] \in Id /\ P(View(q.t)[C(j)]) \in q.check
            BY Zenon
        <3>1. \/ View(q.t)[C(j)] = View(s.t)[C(j)]
              \/ View(q.t)[C(j)] = Null
              \/ action = "CASCADE" /\ View(s.t)[C(j)] = i /\ View(q.t)[C(j)] = new
            BY Zenon DEF ChildrenInv
        <3>2. action = "CASCADE" => new = i \/ new = Absent \/ (new \in Id /\ P(new) \in q.check)
            BY Zenon
        <3> QED BY <2>2, <3>1, <3>2
    <2>4. loose.check \cup s.check \subseteq loose.check \cup q.check
          /\ Waiting(s.pend) \subseteq Waiting(q.pend)
        BY Zenon DEF Grows
    <2> QED BY <1>2, <2>1, <2>3, <2>4, Zenon DEF Referred
<1> QED BY <1>2, <1>3, Zenon DEF Good, ChecksOK, Grows

=============================================================================
