------------------------- MODULE RowStatementProofs -------------------------
(***************************************************************************)
(* What a statement of Rows does to its transaction: one row of UPDATE and *)
(* DELETE, TRUNCATE, CREATE UNIQUE INDEX, and the loops over rows.         *)
(***************************************************************************)
EXTENDS RowWriteProofs, WellFoundedInduction

-----------------------------------------------------------------------------
(* UPDATE and DELETE of rows of P.                                         *)

\* Row i, if its index entries can be relied upon, is as the scan read it.
Current(s, i, v) == P(i) \notin loose.index \cup s.index => View(s.t)[P(i)] = v

\* The other rows with such entries are as before.
ParentsKept(s, r, i) ==
    \A x \in Id \ {i} : P(x) \notin loose.index \cup r.index => View(r.t)[P(x)] = View(s.t)[P(x)]

LEMMA ChildrenStep ==
    ASSUME NEW s, NEW r, NEW i \in Id, NEW action, NEW new \in Id \cup {Absent}, NEW m,
           Good(s), ChildrenInv(s, r, i, action, new, m)
    PROVE  /\ \A x \in Id : View(r.t)[P(x)] = View(s.t)[P(x)]
           /\ Frame(s, r) /\ Grows(s, r)
           /\ ~r.ok \/ new = i \/ new = Absent => Good(r)
<1>1. Grows(s, r)
    BY Zenon DEF Good, Grows, ChildrenInv
<1>2. Frame(s, r)
    BY Zenon DEF Frame, ChildrenInv, SameParents
<1>3. SameParents(s, r)
    BY Zenon DEF ChildrenInv
<1>4. \A x \in Id : View(r.t)[P(x)] = View(s.t)[P(x)]
    BY <1>1, <1>3, OnlyChildren, Zenon
<1>5. Absent \notin Id
    BY MarkersAssumption DEF Id
<1>6. ~r.ok \/ new = i \/ new = Absent => (action = "CASCADE" /\ new \in Id /\ new # i => P(new) \in r.check)
    BY <1>5, Zenon DEF ChildrenInv
<1>7. ~r.ok \/ new = i \/ new = Absent => Good(r)
    BY <1>1, <1>6, ChildrenGood, Zenon
<1> QED BY <1>1, <1>2, <1>4, <1>7, Zenon

\* OnChildren has looked at all the children.
ChildrenDone(s, i, action, new) == ChildrenInv(s, OnChildren(s, i, action, new), i, action, new, CIds)

LEMMA FKUpdateIs ==
    ASSUME NEW s \in StateType, s.ok, NEW i \in Id, NEW v, NEW newI \in Id, NEW newV,
           ChildrenDone(s, i, fk.upd, newI)
    PROVE  \E m : ChildrenInv(s, FKUpdate(s, i, v, newI, newV), i, fk.upd, newI, m)
<1>1. CASE newI = i /\ newV = v
    <2>1. FKUpdate(s, i, v, newI, newV) = s
        BY <1>1, Zenon DEF FKUpdate
    <2>2. ChildrenInv(s, s, i, fk.upd, newI, 0)
        BY DEF ChildrenInv, SameParents
    <2> QED BY <2>1, <2>2, Zenon
<1>2. CASE ~(newI = i /\ newV = v)
    <2>1. FKUpdate(s, i, v, newI, newV) = OnChildren(s, i, fk.upd, newI)
        BY <1>2, Zenon DEF FKUpdate
    <2> QED BY <2>1, Zenon DEF ChildrenDone
<1> QED BY <1>1, <1>2, Zenon

\* Only the transaction counts for what Replace writes.
LEMMA ReplaceCongruent ==
    ASSUME NEW s \in StateType, NEW q \in StateType, q.t = s.t,
           NEW i, NEW v, NEW newI, NEW newV
    PROVE  Replace(q, i, v, newI, newV).t = Replace(s, i, v, newI, newV).t
<1>1. ASSUME NEW w PROVE Put(q, w).t = Put(s, w).t
    <2>1. PICK b : b = [k \in Key |-> IF k \in DOMAIN w THEN w[k] ELSE s.t.buf[k]]
        BY Zenon
    <2>2. PICK t : t = [s.t EXCEPT !.buf = b]
        BY Zenon
    <2>3. Put(s, w) = [s EXCEPT !.t = t] /\ Put(q, w) = [q EXCEPT !.t = t]
        BY <2>1, <2>2, Zenon DEF Put, StateType
    <2> QED BY <2>3, Zenon DEF StateType
<1>2. Indexed(q) = Indexed(s)
    BY Zenon DEF Indexed, Has
<1>3. \A x, u, add : IndexEntries(q, x, u, add) = IndexEntries(s, x, u, add)
    BY <1>2, Zenon DEF IndexEntries
<1> QED BY <1>1, <1>3, Zenon DEF Replace

\* Both marks at once.
Marked(s, keys) == Unchecked(Unindexed(s, keys), keys)

MarkedAs(s, r, keys) ==
    /\ r \in StateType /\ r.t = s.t /\ r.ok = s.ok /\ r.pend = s.pend /\ r.late = s.late
    /\ r.index = s.index \cup keys /\ r.check = s.check \cup keys

LEMMA MarkedIs ==
    ASSUME NEW s \in StateType, NEW keys \in SUBSET Mark
    PROVE  MarkedAs(s, Marked(s, keys), keys)
<1>1. PICK r : r = Unindexed(s, keys)
    BY Zenon
<1>2. /\ r \in StateType /\ r.ok = s.ok /\ r.pend = s.pend /\ r.late = s.late
      /\ r.index = s.index \cup keys /\ r.check = s.check /\ r.t = s.t
    BY <1>1, UnindexedIs, Zenon
<1>3. PICK q : q = Unchecked(r, keys)
    BY Zenon
<1>4. /\ q \in StateType /\ q.ok = r.ok /\ q.pend = r.pend /\ q.late = r.late
      /\ q.index = r.index /\ q.check = r.check \cup keys /\ q.t = r.t
    BY <1>2, <1>3, UncheckedIs, Zenon
<1> QED BY <1>1, <1>2, <1>3, <1>4, Zenon DEF Marked, MarkedAs

\* What Replace leaves alone, and the cells of the rows after it.
ReplacedAs(s, r, i, v, newI, newV) ==
    /\ r \in StateType /\ r.ok = s.ok /\ r.pend = s.pend /\ r.late = s.late
    /\ r.index = s.index /\ r.check = s.check
    /\ \A x \in Id : View(r.t)[P(x)] = IF x = newI THEN newV ELSE View(s.t)[P(x)]

LEMMA ReplacedIs ==
    ASSUME NEW s \in StateType, NEW i, NEW v, NEW newI, NEW newV \in PCell
    PROVE  ReplacedAs(s, Replace(s, i, v, newI, newV), i, v, newI, newV)
<1>1. PICK r : r = Replace(s, i, v, newI, newV)
    BY Zenon
<1>2. IsReplaced(s, r, i, v, newI, newV)
    BY <1>1, ReplaceIs, Zenon
<1> QED BY <1>1, <1>2, Zenon DEF IsReplaced, ReplacedAs, Replaced

\* The row keeps its primary key.
LEMMA UpdateInPlace ==
    ASSUME NEW s, Good(s), LooseOK, NEW i \in Id, NEW v, NEW newV \in PCell \ Rejected,
           Current(s, i, v), newV \notin {Null, v} => ~HasOtherPK(s, newV, i),
           NEW r, r = Marked(Replace(s, i, v, i, newV), {})
    PROVE  Step(s, r) /\ ParentsKept(s, r, i)
<1>1. s \in StateType /\ s.index \subseteq s.check
    BY Zenon DEF Good
<1>2. PICK q : q = Replace(s, i, v, i, newV)
    BY Zenon
<1>3. ReplacedAs(s, q, i, v, i, newV)
    BY <1>1, <1>2, ReplacedIs, Zenon
<1>4. MarkedAs(q, r, {})
    <2>1. q \in StateType /\ {} \in SUBSET Mark
        BY <1>3, Zenon DEF ReplacedAs
    <2> QED BY <1>2, <2>1, MarkedIs, Zenon
<1>5. Grows(s, r) /\ r.late = s.late /\ r.pend = s.pend /\ r.index = s.index /\ r.check = s.check
    BY <1>1, <1>3, <1>4, Zenon DEF Grows, ReplacedAs, MarkedAs
<1>6. Rewrites(s, r, i, v, i, newV)
    <2>1. P(i) \notin loose.check \cup s.check => View(s.t)[P(i)] = v
        BY <1>1, Zenon DEF Current, LooseOK
    <2>2. newV \notin {Null, v} => \A j \in Id \ {i} :
              Indexed(s) /\ newV \in Val /\ View(s.t)[P(j)] = newV => P(j) \in loose.check \cup s.check
        BY OthersDiffer, Zenon
    <2>3. Null \notin Val /\ r.t = q.t
        BY <1>4, MarkersAssumption, Zenon DEF MarkedAs
    <2>4. \/ P(i) \in loose.check \cup r.check
          \/ View(s.t)[P(i)] # newV =>
                \A j \in Id \ {i} : Indexed(s) /\ newV \in Val /\ View(s.t)[P(j)] = newV =>
                    P(j) \in loose.check \cup s.check
        BY <1>5, <2>1, <2>2, <2>3, Zenon
    <2>5. P(i) \notin loose.index \cup r.index => View(s.t)[P(i)] = v
        BY <1>5, Zenon DEF Current
    <2> QED BY <1>2, <2>3, <2>4, <2>5, Zenon DEF Rewrites
<1>7. Step(s, r)
    BY <1>5, <1>6, RewriteStep, Zenon
<1>8. ParentsKept(s, r, i)
    BY <1>3, <1>4, Zenon DEF ParentsKept, ReplacedAs, MarkedAs
<1> QED BY <1>7, <1>8, Zenon

\* The row is written under another primary key; f is the state after the children.
LEMMA UpdateMoves ==
    ASSUME NEW s, Good(s), LooseOK, NEW i \in Id, NEW v, NEW newI \in Id, newI # i,
           NEW newV \in PCell, NEW f, NEW m, ChildrenInv(s, f, i, fk.upd, newI, m),
           NEW r, r = Marked(Replace(f, i, v, newI, newV), {P(i), P(newI)})
    PROVE  Step(s, r) /\ ParentsKept(s, r, i)
<1>1. f \in StateType /\ Frame(s, f) /\ Grows(s, f)
      /\ \A x \in Id : View(f.t)[P(x)] = View(s.t)[P(x)]
    <2>1. newI \in Id \cup {Absent}
        BY Zenon
    <2>2. f \in StateType
        BY Zenon DEF ChildrenInv
    <2>3. Frame(s, f) /\ Grows(s, f) /\ \A x \in Id : View(f.t)[P(x)] = View(s.t)[P(x)]
        BY <2>1, ChildrenStep, Zenon
    <2> QED BY <2>2, <2>3, Zenon
<1>2. PICK keys \in SUBSET Mark : keys = {P(i), P(newI)}
    <2>1. {P(i), P(newI)} \in SUBSET Mark
        BY DEF Id, P, Mark
    <2> QED BY <2>1, Zenon
<1>3. PICK q : q = Replace(f, i, v, newI, newV)
    BY Zenon
<1>4. ReplacedAs(f, q, i, v, newI, newV)
    BY <1>1, <1>3, ReplacedIs, Zenon
<1>5. MarkedAs(q, r, keys)
    BY <1>2, <1>3, <1>4, MarkedIs, Zenon DEF ReplacedAs
<1>6. PICK g : g = Marked(f, keys)
    BY Zenon
<1>7. MarkedAs(f, g, keys)
    BY <1>1, <1>2, <1>6, MarkedIs, Zenon
<1>8. Good(g)
    <2>1. Grows(s, g)
        BY <1>1, <1>7, Zenon DEF Grows, MarkedAs
    <2>2. P(newI) \in g.check /\ g.t = f.t /\ g.pend = f.pend
        BY <1>2, <1>7, Zenon DEF MarkedAs
    <2>3. newI \in Id \cup {Absent}
        BY Zenon
    <2> QED BY <2>1, <2>2, <2>3, ChildrenGood, Zenon
<1>9. r.late = g.late /\ r.pend = g.pend /\ r.index = g.index /\ r.check = g.check /\ r \in StateType
    BY <1>4, <1>5, <1>7, Zenon DEF MarkedAs, ReplacedAs
<1>10. Grows(g, r)
    <2>1. g.index \subseteq g.check
        BY <1>8, Zenon DEF Good
    <2> QED BY <1>9, <2>1, Zenon DEF Grows
<1>11. Rewrites(g, r, i, v, newI, newV)
    <2>1. g \in StateType /\ g.t = f.t /\ r.t = q.t
        BY <1>5, <1>7, Zenon DEF MarkedAs
    <2>2. r.t = Replace(g, i, v, newI, newV).t
        <3>1. Replace(g, i, v, newI, newV).t = Replace(f, i, v, newI, newV).t
            <4>1. f \in StateType /\ g \in StateType /\ g.t = f.t
                BY <1>1, <2>1, Zenon
            <4> QED BY <4>1, ReplaceCongruent, SMT
        <3> QED BY <1>3, <2>1, <3>1, Zenon
    <2>3. {P(i), P(newI)} \subseteq r.index /\ P(newI) \in loose.check \cup r.check
        BY <1>2, <1>5, Zenon DEF MarkedAs
    <2> QED BY <2>2, <2>3, Zenon DEF Rewrites
<1>12. Step(g, r)
    BY <1>8, <1>9, <1>10, <1>11, RewriteStep, Zenon
<1>13. Frame(f, g)
    BY <1>7, Zenon DEF Frame, MarkedAs
<1>14. Step(s, r)
    BY <1>1, <1>12, <1>13, FrameTrans, Zenon DEF Step
<1>15. ParentsKept(s, r, i)
    BY <1>1, <1>2, <1>4, <1>5, Zenon DEF ParentsKept, ReplacedAs, MarkedAs
<1> QED BY <1>14, <1>15, Zenon

LEMMA UpdatePGood ==
    ASSUME NEW s, Good(s), s.ok, LooseOK, NEW i \in Id, NEW v \in PCell, NEW newI \in Id,
           NEW newV \in PCell, newI = i \/ newV = v, Current(s, i, v),
           ChildrenDone(s, i, fk.upd, newI)
    PROVE  LET r == UpdateP(s, i, v, newI, newV)
           IN  Step(s, r) /\ ParentsKept(s, r, i)
<1>1. PICK r : r = UpdateP(s, i, v, newI, newV)
    BY Zenon
<1>2. PICK f : f = FKUpdate(s, i, v, newI, newV)
    BY Zenon
<1>3. PICK keys : keys = IF newI = i THEN {} ELSE {P(i), P(newI)}
    BY Zenon
<1>4. r = IF newV \in Rejected THEN Fail(s)
          ELSE IF ~f.ok THEN f
          ELSE IF newV \notin {Null, v} /\ HasOtherPK(f, newV, newI) THEN Fail(f)
          ELSE Marked(Replace(f, i, v, newI, newV), keys)
    BY <1>1, <1>2, <1>3 DEF UpdateP, Then, Marked
<1>5. s \in StateType /\ newI \in Id \cup {Absent}
    BY Zenon DEF Good
<1>6. PICK m : ChildrenInv(s, f, i, fk.upd, newI, m)
    BY <1>2, <1>5, FKUpdateIs, Zenon
<1>7. /\ \A x \in Id : View(f.t)[P(x)] = View(s.t)[P(x)]
      /\ Frame(s, f)
      /\ ~f.ok \/ newI = i => Good(f)
    BY <1>5, <1>6, ChildrenStep, Zenon
<1>8. f \in StateType /\ f.index = s.index
    BY <1>6, Zenon DEF ChildrenInv
<1>9. ParentsKept(s, f, i)
    BY <1>7, Zenon DEF ParentsKept
<1>10. ASSUME NEW x, NEW y, y = Fail(x), x \in StateType, Good(x), Frame(s, x), ParentsKept(s, x, i)
       PROVE  Step(s, y) /\ ParentsKept(s, y, i)
    <2>1. Good(y) /\ Frame(x, y)
        BY <1>10, FailGood, Zenon
    <2>2. y.t = x.t /\ y.index = x.index
        BY <1>10, FailIs, Zenon
    <2>3. ParentsKept(s, y, i)
        BY <1>10, <2>2, Zenon DEF ParentsKept
    <2> QED BY <1>10, <2>1, <2>3, FrameTrans, Zenon DEF Step
<1>11. CASE newV \in Rejected
    <2>1. r = Fail(s) /\ Frame(s, s) /\ ParentsKept(s, s, i)
        BY <1>4, <1>11, FrameSelf, Zenon DEF ParentsKept
    <2> QED BY <1>1, <1>5, <1>10, <2>1, Zenon
<1>12. CASE newV \notin Rejected /\ ~f.ok
    BY <1>1, <1>4, <1>7, <1>9, <1>12, Zenon DEF Step
<1>13. CASE newV \notin Rejected /\ f.ok /\ newV \notin {Null, v} /\ HasOtherPK(f, newV, newI)
    <2>1. r = Fail(f) /\ Good(f)
        BY <1>4, <1>7, <1>13, Zenon
    <2> QED BY <1>1, <1>7, <1>8, <1>9, <1>10, <2>1, Zenon
<1>14. CASE newV \notin Rejected /\ f.ok /\ ~(newV \notin {Null, v} /\ HasOtherPK(f, newV, newI))
    <2>1. r = Marked(Replace(f, i, v, newI, newV), keys)
        BY <1>4, <1>14, Zenon
    <2>2. CASE newI = i
        <3>1. Good(f) /\ keys = {} /\ newV \in PCell \ Rejected
            BY <1>3, <1>7, <1>14, <2>2, Zenon
        <3>2. Current(f, i, v)
            BY <1>7, <1>8, Zenon DEF Current
        <3>3. Step(f, r) /\ ParentsKept(f, r, i)
            <4>1. newV \notin {Null, v} => ~HasOtherPK(f, newV, i)
                BY <1>14, <2>2, Zenon
            <4>2. r = Marked(Replace(f, i, v, i, newV), {})
                BY <2>1, <2>2, <3>1, Zenon
            <4> QED BY <3>1, <3>2, <4>1, <4>2, UpdateInPlace, Zenon
        <3>4. Step(s, r)
            BY <1>7, <3>3, FrameTrans, Zenon DEF Step
        <3>5. ParentsKept(s, r, i)
            BY <1>7, <3>3, Zenon DEF ParentsKept
        <3> QED BY <1>1, <3>4, <3>5, Zenon
    <2>3. CASE newI # i
        <3>1. r = Marked(Replace(f, i, v, newI, newV), {P(i), P(newI)})
            BY <1>3, <2>1, <2>3, Zenon
        <3>2. Step(s, r) /\ ParentsKept(s, r, i)
            BY <1>6, <2>3, <3>1, UpdateMoves, Zenon
        <3> QED BY <1>1, <3>2, Zenon
    <2> QED BY <2>2, <2>3, Zenon
<1> QED BY <1>11, <1>12, <1>13, <1>14, Zenon

-----------------------------------------------------------------------------
(* DELETE, TRUNCATE and CREATE INDEX.                                      *)

\* The keys K are deleted: rows of P with the entries they have, and no children.
Erases(s, r, K) ==
    /\ r.t.snap = s.t.snap
    /\ \A k \in Key : r.t.buf[k] = IF k \in K THEN Absent ELSE s.t.buf[k]
    /\ K \subseteq PRows \cup Entries
    /\ \A i \in Id, v \in Val : P(i) \notin loose.index \cup r.index =>
          /\ P(i) \in K /\ View(s.t)[I(v, i)] # Absent => I(v, i) \in K
          /\ I(v, i) \in K => P(i) \in K
    /\ \A i \in Id : P(i) \in K =>
          P(i) \in r.check \/ i \in Waiting(r.pend) \/ \A j \in CId : View(s.t)[C(j)] # i

LEMMA EraseGood ==
    ASSUME NEW s, NEW r, NEW K, Good(s), Grows(s, r), Erases(s, r, K)
    PROVE  Good(r)
<1>1. Absent # Keep
    BY MarkersAssumption, Zenon
<1>2. r.t.snap = s.t.snap /\ \A k \in Key : r.t.buf[k] = IF k \in K THEN Absent ELSE s.t.buf[k]
    BY Zenon DEF Erases
<1>3. \A k \in Key : View(r.t)[k] = IF k \in K THEN Absent ELSE View(s.t)[k]
    BY <1>1, <1>2, Zenon DEF View, Read
<1>4. Idx \notin K /\ Seq1 \notin K /\ \A j : C(j) \notin K
    BY KeysDiffer DEF Erases, PRows, Entries
<1>5. r.t.buf[Idx] = s.t.buf[Idx] /\ Read(r.t, Idx) = Read(s.t, Idx)
      /\ r.t.buf[Seq1] = s.t.buf[Seq1] /\ Read(r.t, Seq1) = Read(s.t, Seq1)
    BY <1>2, <1>4, KeyIs, Zenon DEF Read
<1>6. MetaOK(r.t)
    BY <1>2, <1>5, Zenon DEF MetaOK, Good
<1>7. View(r.t)[Idx] = View(s.t)[Idx] /\ \A j \in CId : View(r.t)[C(j)] = View(s.t)[C(j)]
    BY <1>3, <1>4, KeyIs, Zenon
<1>8. \A i \in Id : View(r.t)[P(i)] = IF P(i) \in K THEN Absent ELSE View(s.t)[P(i)]
    BY <1>3, KeyIs, Zenon
<1>9. IndexOK(r.t, loose.index \cup r.index)
    <2> SUFFICES ASSUME NEW i \in Id, P(i) \notin loose.index \cup r.index
                 PROVE  Agrees(View(r.t), i) /\ Agrees(r.t.snap, i) /\ Coupled(r.t, i)
        BY Zenon DEF IndexOK
    <2>1. Agrees(View(s.t), i) /\ Agrees(s.t.snap, i) /\ Coupled(s.t, i)
        BY Zenon DEF Good, IndexOK, Grows
    <2>2. \A v \in Val : /\ P(i) \in K /\ View(s.t)[I(v, i)] # Absent => I(v, i) \in K
                         /\ I(v, i) \in K => P(i) \in K
        BY Zenon DEF Erases
    <2>3. \A v \in Val : v # Absent /\ I(v, i) \in Key /\ P(i) \in Key
        BY MarkersAssumption, KeyIs, Zenon
    <2>4. Agrees(View(r.t), i)
        <3>1. \A v \in Val : View(r.t)[I(v, i)] = IF I(v, i) \in K THEN Absent ELSE View(s.t)[I(v, i)]
            BY <1>3, <2>3, Zenon
        <3> QED BY <1>7, <1>8, <2>1, <2>2, <2>3, <3>1 DEF Agrees
    <2>5. Coupled(r.t, i)
        BY <1>1, <1>2, <1>5, <2>1, <2>2, <2>3, Zenon DEF Coupled
    <2> QED BY <1>2, <2>1, <2>4, <2>5, Zenon
<1>10. Absent \notin Val /\ loose.check \cup s.check \subseteq loose.check \cup r.check
       /\ Waiting(s.pend) \subseteq Waiting(r.pend)
    BY MarkersAssumption, Zenon DEF Grows
<1>11. Accepted(View(r.t), loose.check \cup r.check)
    <2>1. Accepted(View(s.t), loose.check \cup s.check)
        BY Zenon DEF Good, ChecksOK
    <2> QED BY <1>8, <1>10, <2>1, RowsAssumption, Zenon DEF Accepted
<1>12. Unique(View(r.t), loose.check \cup r.check)
    <2>1. Unique(View(s.t), loose.check \cup s.check)
        BY Zenon DEF Good, ChecksOK
    <2> QED BY <1>7, <1>8, <1>10, <2>1, Zenon DEF Unique
<1>13. Referred(View(r.t), loose.check \cup r.check, Waiting(r.pend))
    <2>1. Referred(View(s.t), loose.check \cup s.check, Waiting(s.pend))
        BY Zenon DEF Good, ChecksOK
    <2>2. \A i \in Id : P(i) \in K =>
              P(i) \in r.check \/ i \in Waiting(r.pend) \/ \A j \in CId : View(s.t)[C(j)] # i
        BY Zenon DEF Erases
    <2> QED BY <1>7, <1>8, <1>10, <2>1, <2>2, Zenon DEF Referred
<1> QED BY <1>6, <1>9, <1>11, <1>12, <1>13, Zenon DEF Good, ChecksOK, Grows

\* The deletes w of some keys, buffered.
LEMMA EraseIs ==
    ASSUME NEW s \in StateType, NEW w, \A k \in DOMAIN w : w[k] = Absent
    PROVE  LET r == Put(s, w)
           IN  /\ r \in StateType
               /\ r.ok = s.ok /\ r.pend = s.pend /\ r.late = s.late
               /\ r.index = s.index /\ r.check = s.check
               /\ r.t.snap = s.t.snap /\ r.t.since = s.t.since
               /\ \A k \in Key : r.t.buf[k] = IF k \in DOMAIN w THEN Absent ELSE s.t.buf[k]
<1>1. \A k \in Key : k \in DOMAIN w => w[k] \in Data
    BY DataIs, Zenon
<1> QED BY <1>1, PutIs, Zenon

LEMMA DeletePGood ==
    ASSUME NEW s, Good(s), s.ok, LooseOK, NEW i \in Id, NEW v \in PCell, Current(s, i, v),
           ChildrenDone(s, i, fk.del, Absent)
    PROVE  LET r == DeleteP(s, i, v)
           IN  Step(s, r) /\ ParentsKept(s, r, i)
<1>1. PICK f : f = OnChildren(s, i, fk.del, Absent)
    BY Zenon
<1>2. PICK w : w = Over(One(P(i), Absent), IndexEntries(f, i, v, FALSE))
    BY Zenon
<1>3. PICK r : r = DeleteP(s, i, v)
    BY Zenon
<1>4. r = IF f.ok THEN Put(f, w) ELSE f
    <2> DEFINE F(x) == IF x.ok THEN Put(x, Over(One(P(i), Absent), IndexEntries(x, i, v, FALSE))) ELSE x
    <2>1. r = CHOOSE y \in {F(x) : x \in {f}} : TRUE
        BY <1>1, <1>3, Zenon DEF DeleteP, FKDelete, Then
    <2>2. F(f) = IF f.ok THEN Put(f, w) ELSE f
        BY <1>2, Zenon
    <2> HIDE DEF F
    <2>3. r = F(f)
        BY <2>1, Zenon
    <2> QED BY <2>2, <2>3, Zenon
<1>5. s \in StateType /\ Absent \in Id \cup {Absent}
    BY Zenon DEF Good
<1>6. ChildrenInv(s, f, i, fk.del, Absent, CIds)
    BY <1>1, Zenon DEF ChildrenDone
<1>7. /\ \A x \in Id : View(f.t)[P(x)] = View(s.t)[P(x)]
      /\ Frame(s, f) /\ Good(f)
    BY <1>5, <1>6, ChildrenStep, Zenon
<1>8. f \in StateType /\ f.index = s.index
    BY <1>6, Zenon DEF ChildrenInv
<1>9. CASE ~f.ok
    BY <1>3, <1>4, <1>7, <1>9, Zenon DEF Step, ParentsKept
<1>10. CASE f.ok
    <2>1. /\ DOMAIN w = {P(i)} \cup (IF v = Null \/ ~Indexed(f) THEN {} ELSE {I(v, i)})
          /\ \A k \in DOMAIN w : w[k] = Absent
        BY <1>2, Zenon DEF Over, One, IndexEntries, Nothing
    <2>2. r = Put(f, w)
        BY <1>4, <1>10, Zenon
    <2>3. /\ r \in StateType
          /\ r.pend = f.pend /\ r.late = f.late /\ r.index = f.index /\ r.check = f.check
          /\ r.t.snap = f.t.snap /\ r.t.since = f.t.since
          /\ \A k \in Key : r.t.buf[k] = IF k \in DOMAIN w THEN Absent ELSE f.t.buf[k]
        BY <1>8, <2>1, <2>2, EraseIs, Zenon
    <2>4. PICK K : K = DOMAIN w \cap Key
        BY Zenon
    <2>5. /\ \A x : P(x) \in K <=> x = i
          /\ \A x \in Id, u \in Val : I(u, x) \in K <=> x = i /\ u = v /\ Indexed(f)
          /\ K \subseteq PRows \cup Entries
        <3>1. \A x : P(x) \in K <=> x = i
            BY <2>1, <2>4, KeyIs, KeysDiffer
        <3>2. \A x \in Id, u \in Val : I(u, x) \in K <=> x = i /\ u = v /\ Indexed(f)
            BY <2>1, <2>4, KeyIs, KeysDiffer, MarkersAssumption
        <3>3. K \subseteq PRows \cup Entries
            BY <2>1, <2>4, KeysDiffer DEF Key, CRows, PRows, Entries, PCell
        <3> QED BY <3>1, <3>2, <3>3, Zenon
    <2>6. \A u \in Val : P(i) \notin loose.index \cup r.index /\ View(f.t)[I(u, i)] # Absent => I(u, i) \in K
        <3> SUFFICES ASSUME NEW u \in Val, P(i) \notin loose.index \cup r.index, View(f.t)[I(u, i)] # Absent
                     PROVE  I(u, i) \in K
            BY Zenon
        <3>1. P(i) \notin loose.index \cup f.index /\ View(f.t)[P(i)] = v
            BY <1>7, <1>8, <2>3, Zenon DEF Current
        <3>2. Agrees(View(f.t), i)
            BY <1>7, <3>1, Zenon DEF Good, IndexOK
        <3>3. View(f.t)[Idx] # Absent /\ u = v
            BY <3>1, <3>2, Zenon DEF Agrees
        <3>4. Indexed(f)
            BY <3>3, ViewIs, KeyIs, Zenon DEF Indexed, Has
        <3> QED BY <2>5, <3>3, <3>4, Zenon
    <2>7. \A j \in CId : View(f.t)[C(j)] # i \/ i \in Waiting(f.pend)
        <3>1. Absent # i
            BY MarkersAssumption DEF Id
        <3> QED BY <1>6, <1>10, <3>1, Zenon DEF ChildrenInv, CId
    <2>8. Erases(f, r, K)
        <3>1. \A k \in Key : r.t.buf[k] = IF k \in K THEN Absent ELSE f.t.buf[k]
            BY <2>3, <2>4, Zenon
        <3> QED BY <2>3, <2>5, <2>6, <2>7, <3>1, Zenon DEF Erases
    <2>9. Grows(f, r)
        <3>1. f.index \subseteq f.check
            BY <1>7, Zenon DEF Good
        <3> QED BY <2>3, <3>1, Zenon DEF Grows
    <2>10. Good(r)
        BY <1>7, <2>8, <2>9, EraseGood, Zenon
    <2>11. Frame(f, r)
        BY <2>3, Zenon DEF Frame
    <2>12. ParentsKept(s, r, i)
        <3>1. \A x \in Id \ {i} : r.t.buf[P(x)] = f.t.buf[P(x)]
            BY <2>3, <2>4, <2>5, KeyIs, Zenon
        <3>2. \A x \in Id \ {i} : View(r.t)[P(x)] = View(f.t)[P(x)]
            BY <2>3, <3>1, KeyIs, Zenon DEF View, Read
        <3> QED BY <1>7, <3>2, Zenon DEF ParentsKept
    <2> QED BY <1>3, <1>7, <2>10, <2>11, <2>12, FrameTrans, Zenon DEF Step
<1> QED BY <1>9, <1>10, Zenon

LEMMA TruncateGood ==
    ASSUME NEW s, Good(s)
    PROVE  Step(s, Truncate(s))
<1>1. PICK gone : gone = {k \in PRows \cup Entries : Has(s, k)}
    BY Zenon
<1>2. PICK w : w = [k \in gone |-> Absent]
    BY Zenon
<1>3. PICK q : q = Put(s, w)
    BY Zenon
<1>4. PICK r : r = Unchecked(q, gone \cap PRows)
    BY Zenon
<1>5. Truncate(s) = r
    BY <1>1, <1>2, <1>3, <1>4, Zenon DEF Truncate
<1>6. s \in StateType /\ s.index \subseteq s.check
    BY Zenon DEF Good
<1>7. /\ q \in StateType
      /\ q.pend = s.pend /\ q.late = s.late /\ q.index = s.index /\ q.check = s.check
      /\ q.t.snap = s.t.snap /\ q.t.since = s.t.since
      /\ \A k \in Key : q.t.buf[k] = IF k \in gone THEN Absent ELSE s.t.buf[k]
    <2>1. DOMAIN w = gone /\ \A k \in DOMAIN w : w[k] = Absent
        BY <1>2, Zenon
    <2> QED BY <1>3, <1>6, <2>1, EraseIs
<1>8. gone \cap PRows \in SUBSET Mark
    BY DEF PRows, P, Mark, Id
<1>9. /\ r \in StateType /\ r.pend = q.pend /\ r.late = q.late
      /\ r.index = q.index /\ r.check = q.check \cup (gone \cap PRows) /\ r.t = q.t
    BY <1>4, <1>7, <1>8, UncheckedIs, Zenon
<1>10. Grows(s, r)
    BY <1>6, <1>7, <1>9, Zenon DEF Grows
<1>11. \A i \in Id : P(i) \in gone <=> View(s.t)[P(i)] # Absent
    BY <1>1, KeyIs, ViewIs, Zenon DEF Has, PRows
<1>12. \A i \in Id, v \in Val : I(v, i) \in gone <=> View(s.t)[I(v, i)] # Absent
    BY <1>1, KeyIs, ViewIs DEF Has, Entries
<1>13. ASSUME NEW i \in Id, NEW v \in Val, P(i) \notin loose.index \cup r.index, I(v, i) \in gone
       PROVE  P(i) \in gone
    <2>1. Agrees(View(s.t), i)
        BY <1>7, <1>9, <1>13, Zenon DEF Good, IndexOK
    <2>2. View(s.t)[P(i)] = v /\ v # Absent
        BY <1>12, <1>13, <2>1, MarkersAssumption, Zenon DEF Agrees
    <2> QED BY <1>11, <2>2, Zenon
<1>14. Erases(s, r, gone)
    <2>1. gone \subseteq PRows \cup Entries
        BY <1>1, Zenon
    <2>2. \A i \in Id : P(i) \in gone => P(i) \in r.check
        BY <1>9, Zenon DEF PRows
    <2> QED BY <1>7, <1>9, <1>12, <1>13, <2>1, <2>2, Zenon DEF Erases
<1>15. Good(r)
    BY <1>10, <1>14, EraseGood, Zenon
<1>16. Frame(s, r)
    BY <1>7, <1>9, Zenon DEF Frame
<1> QED BY <1>5, <1>15, <1>16, Zenon DEF Step

LEMMA CreateIndexGood ==
    ASSUME NEW s, Good(s)
    PROVE  Step(s, CreateIndex(s))
<1> DEFINE val(i) == Read(s.t, P(i))
<1>1. PICK live, again, done, rest :
          /\ live = {i \in Id : val(i) \in Val}
          /\ again = {j \in live : \E i \in live : i < j /\ val(i) = val(j)}
          /\ done = {i \in live : \A j \in again : i < j}
          /\ rest = {P(i) : i \in live \ done}
    BY Zenon
<1>2. PICK e : e = [k \in {I(val(i), i) : i \in done} |-> k[3]]
    BY Zenon
<1>3. PICK w : w = Over(One(Idx, "unique"), e)
    BY Zenon
<1>4. PICK q, r : q = Put(s, w) /\ r = Marked(q, rest)
    BY Zenon
<1>5. CreateIndex(s) = IF Indexed(s) THEN Fail(s) ELSE IF again = {} THEN r ELSE Fail(r)
    BY <1>1, <1>2, <1>3, <1>4, Zenon DEF CreateIndex, Marked
<1>6. s \in StateType /\ s.index \subseteq s.check
    BY Zenon DEF Good
<1>7. CASE Indexed(s)
    BY <1>5, <1>7, FailGood, Zenon DEF Step
<1>8. CASE ~Indexed(s)
    <2>0. /\ live \subseteq Id /\ done \subseteq live
          /\ \A i \in Id : P(i) \in rest <=> i \in live /\ i \notin done
        <3>1. \A i, j : P(i) = P(j) => i = j
            BY KeysDiffer
        <3> QED BY <1>1, <3>1, Zenon
    <2>1. DOMAIN e = {I(val(i), i) : i \in done} /\ \A v, i : I(v, i) \in DOMAIN e => e[I(v, i)] = i
        BY <1>2, Zenon DEF I
    <2>2. DOMAIN w = {Idx} \cup DOMAIN e /\ \A k \in DOMAIN w : w[k] = IF k = Idx THEN "unique" ELSE e[k]
        BY <1>3, Zenon DEF Over, One
    <2>3. \A i \in Id : View(s.t)[P(i)] = val(i)
        BY ViewIs, KeyIs, Zenon
    <2>4. \A i \in Id, v \in Val : P(i) \notin rest => (I(v, i) \in DOMAIN w <=> View(s.t)[P(i)] = v)
        <3> SUFFICES ASSUME NEW i \in Id, NEW v \in Val, P(i) \notin rest
                     PROVE  I(v, i) \in DOMAIN w <=> View(s.t)[P(i)] = v
            BY Zenon
        <3>1. I(v, i) \in DOMAIN w <=> i \in done /\ val(i) = v
            <4>1. I(v, i) # Idx /\ \A u, x : I(u, x) = I(v, i) => u = v /\ x = i
                BY KeysDiffer
            <4>2. I(v, i) \in DOMAIN w <=> \E x \in done : I(val(x), x) = I(v, i)
                BY <2>1, <2>2, <4>1, Zenon
            <4> HIDE DEF val
            <4>3. (\E x \in done : I(val(x), x) = I(v, i)) => i \in done /\ val(i) = v
                BY <4>1, Zenon
            <4> QED BY <4>2, <4>3, Zenon
        <3>2. i \in done <=> val(i) \in Val
            BY <1>1, <2>0, Zenon
        <3> QED BY <2>3, <3>1, <3>2, Zenon
    <2>5. \A i \in Id, v \in Val : I(v, i) \in DOMAIN w => w[I(v, i)] = i
        BY <2>1, <2>2, KeysDiffer
    <2>6. Idx \in DOMAIN w /\ w[Idx] = "unique" /\ Seq1 \notin DOMAIN w
          /\ \A i : P(i) \notin DOMAIN w /\ C(i) \notin DOMAIN w
        BY <2>1, <2>2, KeysDiffer
    <2>7. \A k \in Key : k \in DOMAIN w => w[k] \in Data
        <3>1. \A k \in DOMAIN w : k = Idx \/ \E i \in Id, v \in Val : k = I(v, i)
            BY <1>1, <2>0, <2>1, <2>2, Zenon
        <3> QED BY <2>5, <2>6, <3>1, DataIs
    <2>8. rest \in SUBSET Mark
        BY <2>0, <1>1 DEF Mark, P, Id
    <2>9. /\ r \in StateType
          /\ r.pend = s.pend /\ r.late = s.late /\ r.index = s.index \cup rest /\ r.check = s.check \cup rest
          /\ r.t.snap = s.t.snap /\ r.t.since = s.t.since
          /\ \A k \in Key : r.t.buf[k] = IF k \in DOMAIN w THEN w[k] ELSE s.t.buf[k]
        <3>1. /\ q \in StateType
              /\ q.pend = s.pend /\ q.late = s.late /\ q.index = s.index /\ q.check = s.check
              /\ q.t.snap = s.t.snap /\ q.t.since = s.t.since
              /\ \A k \in Key : q.t.buf[k] = IF k \in DOMAIN w THEN w[k] ELSE s.t.buf[k]
            BY <1>4, <1>6, <2>7, PutIs
        <3>2. MarkedAs(q, r, rest)
            BY <1>4, <2>8, <3>1, MarkedIs, Zenon
        <3> QED BY <3>1, <3>2, Zenon DEF MarkedAs
    <2>10. \A k \in Key : View(r.t)[k] = IF k \in DOMAIN w THEN w[k] ELSE View(s.t)[k]
        <3>1. q \in StateType
            BY <1>4, <1>6, <2>7, PutIs
        <3>2. MarkedAs(q, r, rest)
            BY <1>4, <2>8, <3>1, MarkedIs, Zenon
        <3>3. r.t = q.t
            BY <3>2, Zenon DEF MarkedAs
        <3>4. \A k \in Key : View(q.t)[k] = IF k \in DOMAIN w THEN w[k] ELSE View(s.t)[k]
            BY <1>4, <1>6, <2>7, PutView, Zenon
        <3> QED BY <3>3, <3>4, Zenon
    <2>11. "unique" # Absent /\ "unique" # Keep
        BY MarkersAssumption, Zenon
    <2>12. Read(s.t, Idx) = Absent /\ View(s.t)[Idx] = Absent
        BY <1>8, ViewIs, KeyIs, Zenon DEF Indexed, Has
    <2>13. MetaOK(r.t)
        <3>1. s.t.snap[Idx] = Absent
            BY <2>11, <2>12, Zenon DEF Good, MetaOK, Read
        <3>2. r.t.buf[Idx] = "unique" /\ r.t.buf[Seq1] = s.t.buf[Seq1]
            BY <2>6, <2>9, KeyIs, Zenon
        <3> QED BY <2>9, <3>1, <3>2, Zenon DEF Good, MetaOK, Read
    <2>14. View(r.t)[Idx] = "unique" /\ \A i \in Id : View(r.t)[P(i)] = View(s.t)[P(i)]
        BY <2>6, <2>10, KeyIs, Zenon
    <2>15. \A j \in CId : View(r.t)[C(j)] = View(s.t)[C(j)]
        BY <2>6, <2>10, KeyIs, Zenon
    <2>16. IndexOK(r.t, loose.index \cup r.index)
        <3> SUFFICES ASSUME NEW i \in Id, P(i) \notin loose.index \cup r.index
                     PROVE  Agrees(View(r.t), i) /\ Agrees(r.t.snap, i) /\ Coupled(r.t, i)
            BY Zenon DEF IndexOK
        <3>0. P(i) \notin loose.index \cup s.index /\ P(i) \notin rest
            BY <2>9, Zenon
        <3>1. Agrees(View(s.t), i) /\ Agrees(s.t.snap, i) /\ Coupled(s.t, i)
            BY <3>0, Zenon DEF Good, IndexOK
        <3>2. i # Absent /\ i # Keep
            BY MarkersAssumption DEF Id
        <3>3. \A v \in Val : I(v, i) \in Key /\ P(i) \in Key
            BY KeyIs, Zenon
        <3>4. Agrees(View(r.t), i)
            <4>1. \A v \in Val : View(s.t)[I(v, i)] = Absent
                BY <2>12, <3>1, Zenon DEF Agrees
            <4>2. \A v \in Val : View(r.t)[I(v, i)] = IF View(s.t)[P(i)] = v THEN i ELSE Absent
                BY <2>4, <2>5, <2>10, <3>0, <3>3, <4>1, Zenon
            <4> QED BY <2>11, <2>14, <3>2, <4>2, Zenon DEF Agrees
        <3>5. Coupled(r.t, i)
            <4>1. r.t.buf[Idx] # Keep
                BY <2>6, <2>9, <2>11, KeyIs, Zenon
            <4>2. ASSUME NEW v \in Val, r.t.buf[P(i)] = v PROVE r.t.buf[I(v, i)] # Keep
                <5>1. s.t.buf[P(i)] = v /\ v # Keep
                    BY <2>6, <2>9, <3>3, <4>2, MarkersAssumption, Zenon
                <5>2. View(s.t)[P(i)] = v
                    BY <2>3, <5>1, Zenon DEF Read
                <5> QED BY <2>4, <2>5, <2>9, <3>0, <3>2, <3>3, <5>2, Zenon
            <4> QED BY <4>1, <4>2, Zenon DEF Coupled
        <3> QED BY <2>9, <3>1, <3>4, <3>5, Zenon
    <2>17. ChecksOK(r.t, loose.check \cup r.check, Waiting(r.pend))
        <3>1. ChecksOK(s.t, loose.check \cup s.check, Waiting(r.pend)) /\ s.check \subseteq r.check
            BY <2>9, Zenon DEF Good
        <3>2. Unique(View(r.t), loose.check \cup r.check)
            <4>1. \A i, j \in done : i # j => val(i) # val(j)
                <5> SUFFICES ASSUME NEW i \in done, NEW j \in done, i # j, val(i) = val(j) PROVE FALSE
                    BY Zenon
                <5>1. i \in live /\ j \in live /\ i \in Id /\ j \in Id
                    BY <2>0, Zenon
                <5>2. (i < j \/ j < i) /\ ~(i < i) /\ ~(j < j)
                    BY <5>1 DEF Id
                <5>3. i \in again \/ j \in again
                    BY <1>1, <5>1, <5>2, Zenon
                <5> QED BY <1>1, <5>2, <5>3, Zenon
            <4>2. \A i \in Id : val(i) \in Val /\ P(i) \notin r.check => i \in done
                <5>1. rest \subseteq r.check
                    BY <2>9, Zenon
                <5>2. \A i \in Id : val(i) \in Val => i \in live
                    BY <1>1, Zenon
                <5> HIDE DEF val
                <5> QED BY <2>0, <5>1, <5>2, Zenon
            <4> SUFFICES ASSUME NEW i \in Id, NEW j \in Id, i # j, View(r.t)[P(i)] \in Val,
                                View(r.t)[P(i)] = View(r.t)[P(j)]
                         PROVE  P(i) \in r.check \/ P(j) \in r.check
                BY Zenon DEF Unique
            <4>3. val(i) \in Val /\ val(j) = val(i)
                BY <2>3, <2>14, Zenon
            <4> HIDE DEF val
            <4> QED BY <4>1, <4>2, <4>3, Zenon
        <3>3. Accepted(View(r.t), loose.check \cup r.check)
            BY <2>14, <3>1, Zenon DEF ChecksOK, Accepted
        <3>4. Referred(View(r.t), loose.check \cup r.check, Waiting(r.pend))
            BY <2>14, <2>15, <3>1, Zenon DEF ChecksOK, Referred
        <3> QED BY <3>2, <3>3, <3>4, Zenon DEF ChecksOK
    <2>18. Good(r)
        BY <1>6, <2>9, <2>13, <2>16, <2>17, Zenon DEF Good
    <2>19. Frame(s, r)
        BY <2>9, Zenon DEF Frame
    <2>20. Step(s, Fail(r))
        BY <2>18, <2>19, FailGood, FrameTrans, Zenon DEF Step
    <2> QED BY <1>5, <1>8, <2>18, <2>19, <2>20, Zenon DEF Step
<1> QED BY <1>7, <1>8, Zenon

-----------------------------------------------------------------------------
(* Loops over rows.                                                        *)

LEMMA NatLeast ==
    ASSUME NEW T \in SUBSET Nat, T # {}
    PROVE  \E x \in T : \A y \in T : x <= y
<1>1. IsWellFoundedOn(OpToRel(<, Nat), Nat)
    BY NatLessThanWellFounded, Zenon
<1>2. PICK x \in T : \A y \in T : ~(<<y, x>> \in OpToRel(<, Nat))
    BY <1>1, WFMin, Zenon
<1>3. \A y \in T : ~(y < x)
    BY <1>2, Zenon DEF OpToRel
<1> QED BY <1>3

LEMMA UpTo ==
    ASSUME NEW n \in Nat, NEW S, 0 \in S, \A i \in 1 .. n : i - 1 \in S => i \in S
    PROVE  0 .. n \subseteq S
<1> SUFFICES ASSUME {i \in 0 .. n : i \notin S} # {} PROVE FALSE
    BY Zenon
<1>1. PICK x \in {i \in 0 .. n : i \notin S} : \A y \in {i \in 0 .. n : i \notin S} : x <= y
    <2>1. {i \in 0 .. n : i \notin S} \in SUBSET Nat
        OBVIOUS
    <2> QED BY <2>1, NatLeast, Zenon
<1>2. x \in 1 .. n
    BY <1>1
<1>3. x - 1 \in 0 .. n /\ ~(x <= x - 1)
    BY <1>2
<1>4. x - 1 \in S
    BY <1>1, <1>3, Zenon
<1> QED BY <1>1, <1>2, <1>4, Zenon

\* The states of OnChildren's loop.
ChildRun(g, n, s, i, action, new) ==
    g = [k \in 0..n |-> IF k = 0 THEN s
                        ELSE Then(g[k - 1], LAMBDA r : OnChild(r, k, i, action, new))]

LEMMA ChildRunExists ==
    ASSUME NEW n \in Nat, NEW s, NEW i, NEW action, NEW new
    PROVE  \E g : ChildRun(g, n, s, i, action, new)
<1> DEFINE Next1(x, k) == Then(x, LAMBDA r : OnChild(r, k, i, action, new))
<1> HIDE DEF Next1
<1>1. \A g, m : ChildRun(g, m, s, i, action, new) <=>
                    g = [k \in 0..m |-> IF k = 0 THEN s ELSE Next1(g[k - 1], k)]
    BY Zenon DEF ChildRun, Next1
<1>2. PICK S : S = {m \in 0..n : \E g : ChildRun(g, m, s, i, action, new)}
    BY Zenon
<1>3. 0 \in S
    <2>1. PICK h : h = [k \in 0..0 |-> s]
        BY Zenon
    <2>2. \A k \in 0..0 : k = 0
        OBVIOUS
    <2>3. h = [k \in 0..0 |-> IF k = 0 THEN s ELSE Next1(h[k - 1], k)]
        BY <2>1, <2>2, Zenon
    <2>4. ChildRun(h, 0, s, i, action, new)
        BY <1>1, <2>3, Zenon
    <2> QED BY <1>2, <2>4
<1>4. ASSUME NEW m \in 1..n, m - 1 \in S PROVE m \in S
    <2>1. PICK g : ChildRun(g, m - 1, s, i, action, new)
        BY <1>2, <1>4, Zenon
    <2>2. PICK h : h = [k \in 0..m |-> IF k = m THEN Next1(g[m - 1], m) ELSE g[k]]
        BY Zenon
    <2>3. \A k \in 0..(m - 1) : g[k] = IF k = 0 THEN s ELSE Next1(g[k - 1], k)
        BY <1>1, <2>1, Zenon
    <2>4. ASSUME NEW k \in 0..m PROVE h[k] = IF k = 0 THEN s ELSE Next1(h[k - 1], k)
        BY <2>2, <2>3
    <2>5. h = [k \in 0..m |-> IF k = 0 THEN s ELSE Next1(h[k - 1], k)]
        BY <2>2, <2>4, Zenon
    <2>6. ChildRun(h, m, s, i, action, new)
        BY <1>1, <2>5, Zenon
    <2>7. m \in 0..n
        OBVIOUS
    <2> QED BY <1>2, <2>6, <2>7, Zenon
<1>5. 0..n \subseteq S
    BY <1>3, <1>4, UpTo, Zenon
<1> QED BY <1>2, <1>5

LEMMA OnChildrenIs ==
    ASSUME NEW s \in StateType, s.ok, NEW i \in Id, NEW action, NEW new \in Id \cup {Absent}
    PROVE  ChildrenInv(s, OnChildren(s, i, action, new), i, action, new, CIds)
<1>1. CIds \in Nat /\ CId = 1 .. CIds
    BY RowsAssumption, Zenon DEF CId
<1>2. \E g : ChildRun(g, CIds, s, i, action, new)
    BY <1>1, ChildRunExists, Zenon
<1>3. PICK g : ChildRun(g, CIds, s, i, action, new) /\ OnChildren(s, i, action, new) = g[CIds]
    BY <1>2, Zenon DEF OnChildren, Fold, ChildRun
<1>4. g[0] = s /\ \A k \in 1 .. CIds :
          g[k] = IF g[k - 1].ok THEN OnChild(g[k - 1], k, i, action, new) ELSE g[k - 1]
    <2> DEFINE Next1(x, k) == Then(x, LAMBDA r : OnChild(r, k, i, action, new))
    <2>1. \A x, k : Next1(x, k) = IF x.ok THEN OnChild(x, k, i, action, new) ELSE x
        BY DEF Then
    <2> HIDE DEF Next1
    <2>2. g = [k \in 0..CIds |-> IF k = 0 THEN s ELSE Next1(g[k - 1], k)]
        BY <1>3, Zenon DEF ChildRun, Next1
    <2> QED BY <1>1, <2>1, <2>2
<1>5. PICK S : S = {k \in 0 .. CIds : ChildrenInv(s, g[k], i, action, new, k)}
    BY Zenon
<1>6. 0 \in S
    <2>1. ChildrenInv(s, s, i, action, new, 0)
        BY DEF ChildrenInv, SameParents
    <2> QED BY <1>1, <1>4, <1>5, <2>1
<1>7. ASSUME NEW k \in 1 .. CIds, k - 1 \in S PROVE k \in S
    <2>1. ChildrenInv(s, g[k - 1], i, action, new, k - 1) /\ k \in CId
        BY <1>1, <1>5, <1>7, Zenon
    <2>2. CASE g[k - 1].ok
        <3>1. ChildrenInv(s, OnChild(g[k - 1], k, i, action, new), i, action, new, k)
            BY <2>1, <2>2, OnChildKeeps, Zenon
        <3> QED BY <1>4, <1>5, <1>7, <2>2, <3>1
    <2>3. CASE ~g[k - 1].ok
        <3>1. ChildrenInv(s, g[k - 1], i, action, new, k)
            BY <2>1, <2>3, Zenon DEF ChildrenInv
        <3> QED BY <1>4, <1>5, <1>7, <2>3, <3>1
    <2> QED BY <2>2, <2>3, Zenon
<1>8. CIds \in S
    BY <1>1, <1>6, <1>7, UpTo
<1> QED BY <1>3, <1>5, <1>8, Zenon

-----------------------------------------------------------------------------
(* Statements.                                                             *)

LEMMA StatementIs ==
    ASSUME NEW st \in Statement
    PROVE  /\ st.op \in {"insert", "update", "delete", "truncate", "index"}
           /\ st.op = "insert" =>
                 /\ st.oc \in {"error", "nothing", "update"}
                 /\ Len(st.rows) \in Nat
                 /\ \/ st.tab = "P" /\ st.rows \in Seq([id : Id \cup {Default}, val : PCell])
                    \/ st.tab = "C" /\ st.rows \in Seq([id : CId, val : CCell])
           /\ st.op = "update" =>
                 \/ st.tab = "P" /\ st.col = "id" /\ st.val \in Id
                 \/ st.tab = "P" /\ st.col = "val" /\ st.val \in PCell
                 \/ st.tab = "C" /\ st.val \in CCell
           /\ st.op = "delete" => st.tab \in {"P", "C"}
<1>1. CASE st \in InsertStmt
    BY <1>1 DEF InsertStmt
<1>2. CASE st \in UpdateStmt
    BY <1>2, Zenon DEF UpdateStmt
<1>3. CASE st \in DeleteStmt
    BY <1>3, Zenon DEF DeleteStmt
<1>4. CASE st \in [op : {"truncate", "index"}]
    BY <1>4, Zenon
<1> QED BY <1>1, <1>2, <1>3, <1>4, Zenon DEF Statement

\* The first m rows have been taken.
LoopInv(s, r, st, m) ==
    /\ Step(s, r)
    /\ st.op # "insert" /\ st.tab = "P" =>
          \A x \in Id : m < x /\ P(x) \notin loose.index \cup r.index => View(r.t)[P(x)] = View(s.t)[P(x)]

RowCount(st) == IF st.op = "insert" THEN Len(st.rows) ELSE IF st.tab = "P" THEN Ids ELSE CIds

LEMMA ElementOf ==
    ASSUME NEW T, NEW q \in Seq(T), NEW m \in 1 .. Len(q)
    PROVE  q[m] \in T
OBVIOUS

LEMMA InsertKeeps ==
    ASSUME NEW s, NEW r, NEW st \in Statement, NEW m \in 1 .. RowCount(st), st.op = "insert", LooseOK,
           LoopInv(s, r, st, m - 1)
    PROVE  LoopInv(s, RowStep(r, s, st, m), st, m)
<1>1. PICK row : row = st.rows[m]
    BY Zenon
<1>2. /\ st.oc \in {"error", "nothing", "update"}
      /\ \/ st.tab = "C" /\ row.id \in CId /\ row.val \in CCell
         \/ st.tab = "P" /\ row.id \in Id \cup {Default} /\ row.val \in PCell
    <2>1. m \in 1 .. Len(st.rows)
        BY Zenon DEF RowCount
    <2>2. st.oc \in {"error", "nothing", "update"}
        BY StatementIs, Zenon
    <2>3. CASE st.tab = "P" /\ st.rows \in Seq([id : Id \cup {Default}, val : PCell])
        <3>1. row \in [id : Id \cup {Default}, val : PCell]
            BY <1>1, <2>1, <2>3, ElementOf, Zenon
        <3> QED BY <2>3, <3>1, <2>2, Zenon
    <2>4. CASE st.tab = "C" /\ st.rows \in Seq([id : CId, val : CCell])
        <3>1. row \in [id : CId, val : CCell]
            BY <1>1, <2>1, <2>4, ElementOf, Zenon
        <3> QED BY <2>4, <3>1, <2>2, Zenon
    <2> QED BY <2>3, <2>4, StatementIs, Zenon
<1>3. Step(s, r) /\ Good(r)
    BY Zenon DEF LoopInv, Step
<1>4. Step(r, InsertRow(r, st.tab, row, st.oc))
    BY <1>2, <1>3, InsertRowGood, Zenon
<1>5. RowStep(r, s, st, m) = InsertRow(r, st.tab, row, st.oc)
    BY <1>1, Zenon DEF RowStep
<1> QED BY <1>3, <1>4, <1>5, StepTrans, Zenon DEF LoopInv

LEMMA ChildRowKeeps ==
    ASSUME NEW s, NEW r, NEW st \in Statement, NEW m, st.op \in {"update", "delete"}, st.tab = "C",
           LoopInv(s, r, st, m - 1)
    PROVE  LoopInv(s, RowStep(r, s, st, m), st, m)
<1>1. Step(s, r) /\ Good(r)
    BY Zenon DEF LoopInv, Step
<1>2. st.op = "update" => st.val \in CCell
    BY StatementIs, Zenon
<1>3. Absent \in CCell \cup {Absent} /\ Absent \notin Id
    BY MarkersAssumption DEF Id
<1>4. RowStep(r, s, st, m) \in {r} \cup {IF st.op = "update" THEN UpdateC(r, m, st.val)
                                         ELSE Put(r, One(C(m), Absent))}
    BY Zenon DEF RowStep, UpdateRow, DeleteRow
<1>5. Step(r, r)
    BY <1>1, FrameSelf, Zenon DEF Step
<1>6. st.op = "update" => Step(r, UpdateC(r, m, st.val))
    BY <1>1, <1>2, UpdateCGood, Zenon
<1>7. Step(r, Put(r, One(C(m), Absent)))
    BY <1>1, <1>3, WriteChild, Zenon
<1>8. Step(r, RowStep(r, s, st, m))
    BY <1>4, <1>5, <1>6, <1>7, Zenon
<1> QED BY <1>1, <1>8, StepTrans, Zenon DEF LoopInv

LEMMA ParentRowKeeps ==
    ASSUME NEW s, NEW r, NEW st \in Statement, NEW m \in Id, st.op \in {"update", "delete"}, st.tab = "P",
           LooseOK, Good(s), r.ok, LoopInv(s, r, st, m - 1)
    PROVE  LoopInv(s, RowStep(r, s, st, m), st, m)
<1>1. Step(s, r) /\ Good(r) /\ m \in Nat
    BY DEF LoopInv, Step, Id
<1>2. PICK v : v = Read(s.t, P(m))
    BY Zenon
<1>3. PICK q : q = RowStep(r, s, st, m)
    BY Zenon
<1>4. CASE m \notin Selected(s, st.tab, st.where)
    <2>1. q = r
        BY <1>3, <1>4, Zenon DEF RowStep
    <2>2. \A x \in Id : m < x => m - 1 < x
        BY DEF Id
    <2> QED BY <1>3, <2>1, <2>2, Zenon DEF LoopInv
<1>5. CASE m \in Selected(s, st.tab, st.where)
    <2>1. View(s.t)[P(m)] = v
        BY <1>2, ViewIs, KeyIs, Zenon
    <2>2. v \in PCell
        <3>1. v # Absent
            BY <1>2, <1>5, Zenon DEF Selected, Has, P
        <3>2. Accepted(View(s.t), loose.check \cup s.check)
            BY Zenon DEF Good, ChecksOK
        <3> QED BY <2>1, <3>1, <3>2, Zenon DEF Accepted
    <2>3. Current(r, m, v)
        <3>1. m - 1 < m
            BY <1>1
        <3> QED BY <2>1, <3>1, Zenon DEF LoopInv, Current
    <2>4. \A action, new : new \in Id \cup {Absent} => ChildrenDone(r, m, action, new)
        <3>1. r \in StateType
            BY <1>1, Zenon DEF Good
        <3> QED BY <3>1, OnChildrenIs, Zenon DEF ChildrenDone
    <2>5. Step(r, q) /\ ParentsKept(r, q, m)
        <3>1. CASE st.op = "delete"
            <4>1. q = DeleteP(r, m, v)
                BY <1>2, <1>3, <1>5, <3>1, Zenon DEF RowStep, DeleteRow, P
            <4> QED BY <1>1, <2>2, <2>3, <2>4, <4>1, DeletePGood, Zenon
        <3>2. CASE st.op = "update" /\ st.col = "id" /\ st.val \in Id
            <4>1. q = UpdateP(r, m, v, st.val, v)
                BY <1>2, <1>3, <1>5, <3>2, Zenon DEF RowStep, UpdateRow, P
            <4> QED BY <1>1, <2>2, <2>3, <2>4, <3>2, <4>1, UpdatePGood, Zenon
        <3>3. CASE st.op = "update" /\ st.col = "val" /\ st.val \in PCell
            <4>1. q = UpdateP(r, m, v, m, st.val)
                BY <1>2, <1>3, <1>5, <3>3, Zenon DEF RowStep, UpdateRow, P
            <4> QED BY <1>1, <2>2, <2>3, <2>4, <3>3, <4>1, UpdatePGood, Zenon
        <3> QED BY <3>1, <3>2, <3>3, StatementIs, Zenon
    <2>6. \A x \in Id : m < x => m - 1 < x /\ x # m
        BY DEF Id
    <2>7. r.index \subseteq q.index
        BY <2>5, Zenon DEF Step, Frame
    <2>8. Step(s, q)
        BY <1>1, <2>5, StepTrans, Zenon
    <2> QED BY <1>3, <2>5, <2>6, <2>7, <2>8, Zenon DEF LoopInv, ParentsKept
<1> QED BY <1>4, <1>5, Zenon

LEMMA RowStepKeeps ==
    ASSUME NEW s, NEW r, NEW st \in Statement, NEW m \in 1 .. RowCount(st),
           st.op \in {"insert", "update", "delete"},
           LooseOK, Good(s), r.ok, LoopInv(s, r, st, m - 1)
    PROVE  LoopInv(s, RowStep(r, s, st, m), st, m)
<1>1. CASE st.op = "insert"
    BY <1>1, InsertKeeps, Zenon
<1>2. CASE st.op \in {"update", "delete"} /\ st.tab = "C"
    <2>1. st.op \in {"update", "delete"}
        BY <1>2, Zenon
    <2>2. st.tab = "C"
        BY <1>2, Zenon
    <2> QED BY <2>1, <2>2, ChildRowKeeps, SMT
<1>3. CASE st.op \in {"update", "delete"} /\ st.tab = "P"
    <2>1. m \in Id
        BY <1>3, Zenon DEF RowCount, Id
    <2> QED BY <1>3, <2>1, ParentRowKeeps, Zenon
<1> QED BY <1>1, <1>2, <1>3, StatementIs, Zenon

\* The states of the loop over the rows.
RowRun(g, n, s, st) ==
    g = [k \in 0..n |-> IF k = 0 THEN s ELSE Then(g[k - 1], LAMBDA r : RowStep(r, s, st, k))]

LEMMA RowRunExists ==
    ASSUME NEW n \in Nat, NEW s, NEW st
    PROVE  \E g : RowRun(g, n, s, st)
<1> DEFINE Next1(x, k) == Then(x, LAMBDA r : RowStep(r, s, st, k))
<1> HIDE DEF Next1
<1>1. \A g, m : RowRun(g, m, s, st) <=>
                    g = [k \in 0..m |-> IF k = 0 THEN s ELSE Next1(g[k - 1], k)]
    BY Zenon DEF RowRun, Next1
<1>2. PICK S : S = {m \in 0..n : \E g : RowRun(g, m, s, st)}
    BY Zenon
<1>3. 0 \in S
    <2>1. PICK h : h = [k \in 0..0 |-> s]
        BY Zenon
    <2>2. \A k \in 0..0 : k = 0
        OBVIOUS
    <2>3. h = [k \in 0..0 |-> IF k = 0 THEN s ELSE Next1(h[k - 1], k)]
        BY <2>1, <2>2, Zenon
    <2>4. RowRun(h, 0, s, st)
        BY <1>1, <2>3, Zenon
    <2> QED BY <1>2, <2>4
<1>4. ASSUME NEW m \in 1..n, m - 1 \in S PROVE m \in S
    <2>1. PICK g : RowRun(g, m - 1, s, st)
        BY <1>2, <1>4, Zenon
    <2>2. PICK h : h = [k \in 0..m |-> IF k = m THEN Next1(g[m - 1], m) ELSE g[k]]
        BY Zenon
    <2>3. \A k \in 0..(m - 1) : g[k] = IF k = 0 THEN s ELSE Next1(g[k - 1], k)
        BY <1>1, <2>1, Zenon
    <2>4. ASSUME NEW k \in 0..m PROVE h[k] = IF k = 0 THEN s ELSE Next1(h[k - 1], k)
        BY <2>2, <2>3
    <2>5. h = [k \in 0..m |-> IF k = 0 THEN s ELSE Next1(h[k - 1], k)]
        BY <2>2, <2>4, Zenon
    <2>6. RowRun(h, m, s, st)
        BY <1>1, <2>5, Zenon
    <2>7. m \in 0..n
        OBVIOUS
    <2> QED BY <1>2, <2>6, <2>7, Zenon
<1>5. 0..n \subseteq S
    BY <1>3, <1>4, UpTo, Zenon
<1> QED BY <1>2, <1>5

LEMMA RowByRowGood ==
    ASSUME NEW s, Good(s), s.ok, LooseOK, NEW st \in Statement, st.op \in {"insert", "update", "delete"}
    PROVE  Step(s, RowByRow(s, st))
<1>1. PICK n \in Nat : n = RowCount(st)
    BY StatementIs, RowsAssumption, Zenon DEF RowCount
<1>2. \E g : RowRun(g, n, s, st)
    BY RowRunExists, Zenon
<1>3. PICK g : RowRun(g, n, s, st) /\ RowByRow(s, st) = g[n]
    BY <1>1, <1>2, Zenon DEF RowByRow, RowCount, Fold, RowRun
<1>4. g[0] = s /\ \A k \in 1 .. n :
          g[k] = IF g[k - 1].ok THEN RowStep(g[k - 1], s, st, k) ELSE g[k - 1]
    <2> DEFINE Next1(x, k) == Then(x, LAMBDA r : RowStep(r, s, st, k))
    <2>1. \A x, k : Next1(x, k) = IF x.ok THEN RowStep(x, s, st, k) ELSE x
        BY DEF Then
    <2> HIDE DEF Next1
    <2>2. g = [k \in 0..n |-> IF k = 0 THEN s ELSE Next1(g[k - 1], k)]
        BY <1>3, Zenon DEF RowRun, Next1
    <2> QED BY <2>1, <2>2
<1>5. PICK S : S = {k \in 0 .. n : LoopInv(s, g[k], st, k)}
    BY Zenon
<1>6. 0 \in S
    <2>1. LoopInv(s, s, st, 0)
        BY FrameSelf, Zenon DEF LoopInv, Step
    <2> QED BY <1>4, <1>5, <2>1
<1>7. ASSUME NEW k \in 1 .. n, k - 1 \in S PROVE k \in S
    <2>1. LoopInv(s, g[k - 1], st, k - 1) /\ k \in 1 .. RowCount(st) /\ k \in 0 .. n
        BY <1>1, <1>5, <1>7
    <2>2. CASE g[k - 1].ok
        <3>1. LoopInv(s, RowStep(g[k - 1], s, st, k), st, k)
            BY <2>1, <2>2, RowStepKeeps, Zenon
        <3> QED BY <1>4, <1>5, <2>1, <2>2, <3>1
    <2>3. CASE ~g[k - 1].ok
        <3>1. \A x \in Id : k < x => k - 1 < x
            BY DEF Id
        <3>2. LoopInv(s, g[k - 1], st, k)
            BY <2>1, <3>1, Zenon DEF LoopInv
        <3> QED BY <1>4, <1>5, <2>1, <2>3, <3>2, Zenon
    <2> QED BY <2>2, <2>3, Zenon
<1>8. n \in S
    BY <1>6, <1>7, UpTo
<1> QED BY <1>3, <1>5, <1>8, Zenon DEF LoopInv

\* A statement takes a transaction that is right to one that is right.
LEMMA ExecGood ==
    ASSUME NEW s, Good(s), s.ok, LooseOK, NEW st \in Statement
    PROVE  Step(s, Exec(s, st))
<1>1. CASE st.op \in {"insert", "update", "delete"}
    <2>1. Exec(s, st) = RowByRow(s, st)
        BY <1>1, Zenon DEF Exec
    <2> QED BY <1>1, <2>1, RowByRowGood, Zenon
<1>2. CASE st.op = "truncate"
    <2>1. Exec(s, st) = Truncate(s)
        BY <1>2, Zenon DEF Exec
    <2> QED BY <2>1, TruncateGood, Zenon
<1>3. CASE st.op = "index"
    <2>1. Exec(s, st) = CreateIndex(s)
        BY <1>3, Zenon DEF Exec
    <2> QED BY <2>1, CreateIndexGood, Zenon
<1> QED BY <1>1, <1>2, <1>3, StatementIs, Zenon
=============================================================================
