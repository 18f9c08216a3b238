----------------------------- MODULE RowsProofs -----------------------------
(***************************************************************************)
(* Proofs about Rows for any numbers of clients, rows, values, statements  *)
(* and retries: rows and index entries agree, constraint violations and    *)
(* orphans are explained, and serial counters are dense.                   *)
(***************************************************************************)
EXTENDS RowStatementProofs

-----------------------------------------------------------------------------
(* Sessions.                                                               *)

\* A transaction between two statements of its session, or before its commit.
Between(t, q, o, f, L) ==
    TxnGood(t, L.index \cup o.index, L.check \cup o.check, q) /\ Since(t, f)

\* A session in phase p with transaction t, deferred checks q, marks o, at part n of
\* statement st, over the contents f and their marks L.
SessionOK(p, t, q, o, st, n, f, L) ==
    /\ o \in Marks /\ o.index \subseteq o.check /\ q \in Seq(Pending)
    /\ \/ p \in {"idle", "exec"} /\ t = NoTxn /\ q = <<>>
       \/ p \in {"open", "aborted"} /\ Between(t, q, o, f, L)
       \/ p = "commit" /\ Between(t, q, o, f, L) /\ q = <<>>
    /\ p \in {"exec", "commit"} => st \in Statement /\ n \in 1 .. Rows(st)

Session(c) == SessionOK(ph[c], txn[c], pend[c], odd[c], stmt[c], at[c], db, loose)

PerClient ==
    /\ DOMAIN ph = Client /\ DOMAIN txn = Client /\ DOMAIN pend = Client
    /\ DOMAIN odd = Client /\ DOMAIN stmt = Client /\ DOMAIN at = Client

\* The committed contents and every session are right.
RowsInv == PerClient /\ Contents(db, loose) /\ \A c \in Client : Session(c)

\* Another session is left alone.
Alone(d) ==
    /\ ph'[d] = ph[d] /\ txn'[d] = txn[d] /\ pend'[d] = pend[d]
    /\ odd'[d] = odd[d] /\ stmt'[d] = stmt[d] /\ at'[d] = at[d]

LEMMA OneSession ==
    ASSUME RowsInv, NEW c \in Client, db' = db, loose' = loose, PerClient',
           \A d \in Client : d # c => Alone(d), Session(c)'
    PROVE  RowsInv'
<1>1. ASSUME NEW d \in Client, d # c PROVE Session(d)'
    <2>1. Session(d) /\ Alone(d)
        BY <1>1, Zenon DEF RowsInv
    <2> QED BY <2>1, Zenon DEF Session, Alone
<1>2. Contents(db, loose)'
    BY Zenon DEF RowsInv
<1> QED BY <1>1, <1>2, Zenon DEF RowsInv

LEMMA NoneGood ==
    ASSUME NEW st, NEW n, NEW f, NEW L
    PROVE  SessionOK("idle", NoTxn, <<>>, NoOdd, st, n, f, L)
BY DEF SessionOK, NoOdd, Marks

\* The session of c ends without a commit.
LEMMA EndedGood ==
    ASSUME RowsInv, NEW c \in Client, NEW t, Done(c, t), UNCHANGED <<db, loose>>,
           DOMAIN t = Client, t[c] = NoTxn, \A d \in Client : d # c => t[d] = txn[d]
    PROVE  RowsInv'
<1>1. PerClient'
    BY Zenon DEF RowsInv, PerClient, Done
<1>2. \A d \in Client : d # c => Alone(d)
    BY Zenon DEF RowsInv, PerClient, Done, Alone
<1>3. ph'[c] = "idle" /\ txn'[c] = NoTxn /\ pend'[c] = <<>> /\ odd'[c] = NoOdd
    BY Zenon DEF RowsInv, PerClient, Done
<1>4. Session(c)'
    BY <1>3, NoneGood, Zenon DEF Session
<1> QED BY <1>1, <1>2, <1>4, OneSession, Zenon

\* The state that a statement starts from.
LEMMA StateGood ==
    ASSUME NEW c, NEW t, Contents(db, loose), odd[c] \in Marks, odd[c].index \subseteq odd[c].check,
           pend[c] \in Seq(Pending), Between(t, pend[c], odd[c], db, loose)
    PROVE  /\ Good(State(c, t)) /\ State(c, t).ok /\ LooseOK
           /\ State(c, t).t = t /\ State(c, t).pend = pend[c] /\ State(c, t).late = Deferred(c)
<1>1. Deferred(c) \in BOOLEAN
    BY Zenon DEF Deferred
<1>2. PICK s : s = State(c, t)
    BY Zenon
<1>3. /\ s.ok = TRUE /\ s.t = t /\ s.pend = pend[c] /\ s.late = Deferred(c)
      /\ s.index = odd[c].index /\ s.check = odd[c].check
    BY <1>2, Zenon DEF State
<1>4. s \in StateType
    BY <1>1, <1>2, Zenon DEF State, StateType, Between, TxnGood, Marks
<1>5. Good(s)
    BY <1>3, <1>4, Zenon DEF Good, Between, TxnGood
<1>6. LooseOK
    BY Zenon DEF Contents, LooseOK, Marks
<1> QED BY <1>2, <1>3, <1>5, <1>6, Zenon

\* What a statement leaves for its session.
LEMMA StepBetween ==
    ASSUME NEW s, NEW r, Step(s, r), NEW f, Since(s.t, f), NEW o, o = [index |-> r.index, check |-> r.check]
    PROVE  /\ Between(r.t, r.pend, o, f, loose) /\ o \in Marks /\ o.index \subseteq o.check
           /\ r.pend \in Seq(Pending) /\ (~s.late => r.pend = s.pend)
<1>1. r \in StateType /\ r.index \subseteq r.check
    BY Zenon DEF Step, Good
<1>2. o.index = r.index /\ o.check = r.check /\ o \in Marks
    BY <1>1, Zenon DEF StateType, Marks
<1>3. TxnGood(r.t, loose.index \cup o.index, loose.check \cup o.check, r.pend)
    BY <1>1, <1>2, Zenon DEF Step, Good, TxnGood, StateType
<1>4. Since(r.t, f)
    BY Zenon DEF Step, Frame, Since
<1>5. r.pend \in Seq(Pending) /\ (~s.late => r.pend = s.pend)
    BY <1>1, Zenon DEF StateType, Step, Frame
<1> QED BY <1>1, <1>2, <1>3, <1>4, <1>5, Zenon DEF Between

LEMMA FreshBetween ==
    ASSUME NEW o, Contents(db, loose)
    PROVE  Between(Fresh, <<>>, o, db, loose)
<1>1. TxnGood(Fresh, loose.index, loose.check, <<>>) /\ Since(Fresh, db)
    BY FreshGood, Zenon DEF Fresh
<1>2. Fresh \in TxnType
    BY <1>1, Zenon DEF TxnGood
<1>3. /\ loose.index \subseteq loose.index \cup o.index
      /\ loose.check \subseteq loose.check \cup o.check
    BY Zenon
<1>4. TxnGood(Fresh, loose.index \cup o.index, loose.check \cup o.check, <<>>)
    BY <1>1, <1>2, <1>3, TxnGrows, Zenon
<1> QED BY <1>1, <1>4, Zenon DEF Between

LEMMA BeginGood ==
    ASSUME RowsInv, NEW c \in Client, Begin(c)
    PROVE  RowsInv'
<1>1. PerClient'
    BY Zenon DEF RowsInv, PerClient, Begin
<1>2. \A d \in Client : d # c => Alone(d)
    BY Zenon DEF RowsInv, PerClient, Begin, Alone
<1>3. /\ ph'[c] = "open" /\ txn'[c] = Fresh /\ pend'[c] = pend[c] /\ odd'[c] = odd[c]
      /\ db' = db /\ loose' = loose
    BY Zenon DEF RowsInv, PerClient, Begin
<1>4. Session(c) /\ ph[c] = "idle" /\ Contents(db, loose)
    BY Zenon DEF RowsInv, Begin
<1>5. pend[c] = <<>> /\ odd[c] \in Marks /\ odd[c].index \subseteq odd[c].check /\ <<>> \in Seq(Pending)
    BY <1>4, Zenon DEF Session, SessionOK
<1>6. Between(Fresh, <<>>, odd[c], db, loose)
    BY <1>4, FreshBetween, Zenon
<1>7. Session(c)'
    BY <1>3, <1>5, <1>6, Zenon DEF Session, SessionOK
<1> QED BY <1>1, <1>2, <1>3, <1>7, OneSession, Zenon

LEMMA RunGood ==
    ASSUME RowsInv, NEW c \in Client, NEW st \in Stmts, Run(c, st)
    PROVE  RowsInv'
<1>1. PICK s : s = Exec(State(c, txn[c]), st)
    BY Zenon
<1>2. /\ Store(c, s) /\ ph[c] = "open"
      /\ ph' = [ph EXCEPT ![c] = IF s.ok \/ ext THEN "open" ELSE "aborted"]
      /\ UNCHANGED <<db, fk, ext, stmt, at, tries, mode, loose>>
    BY <1>1, Zenon DEF Run
<1>3. PerClient'
    BY <1>2, Zenon DEF RowsInv, PerClient, Store
<1>4. \A d \in Client : d # c => Alone(d)
    BY <1>2, Zenon DEF RowsInv, PerClient, Store, Alone
<1>5. /\ ph'[c] \in {"open", "aborted"} /\ txn'[c] = s.t /\ pend'[c] = s.pend
      /\ odd'[c] = [index |-> s.index, check |-> s.check] /\ db' = db /\ loose' = loose
    BY <1>2, Zenon DEF RowsInv, PerClient, Store
<1>6. Session(c) /\ Contents(db, loose)
    BY Zenon DEF RowsInv
<1>7. /\ Between(txn[c], pend[c], odd[c], db, loose) /\ pend[c] \in Seq(Pending)
      /\ odd[c] \in Marks /\ odd[c].index \subseteq odd[c].check
    BY <1>2, <1>6, Zenon DEF Session, SessionOK
<1>8. /\ Good(State(c, txn[c])) /\ State(c, txn[c]).ok /\ LooseOK
      /\ State(c, txn[c]).t = txn[c]
    BY <1>6, <1>7, StateGood, Zenon
<1>9. st \in Statement
    BY RowsAssumption, Zenon
<1>10. Step(State(c, txn[c]), s)
    BY <1>1, <1>8, <1>9, ExecGood, Zenon
<1>11. Since(State(c, txn[c]).t, db)
    BY <1>7, <1>8, Zenon DEF Between
<1>12. /\ Between(s.t, s.pend, odd'[c], db, loose) /\ odd'[c] \in Marks
       /\ odd'[c].index \subseteq odd'[c].check /\ s.pend \in Seq(Pending)
    BY <1>5, <1>10, <1>11, StepBetween, Zenon
<1>13. Session(c)'
    BY <1>5, <1>12, Zenon DEF Session, SessionOK
<1> QED BY <1>3, <1>4, <1>5, <1>13, OneSession, Zenon

\* FirstViolated finds a violated check if there is one.
LEMMA FirstViolatedIs ==
    ASSUME NEW t, NEW q \in Seq(Pending)
    PROVE  \/ FirstViolated(t, q) = 0 /\ Cleared(t, q)
           \/ /\ FirstViolated(t, q) \in 1 .. Len(q)
              /\ \A m \in 1 .. Len(q) : Violated(t, q[m]) => FirstViolated(t, q) <= m
<1>1. PICK T : T = {n \in 1 .. Len(q) : Violated(t, q[n])}
    BY Zenon
<1>2. FirstViolated(t, q) = IF T = {} THEN 0 ELSE CHOOSE n \in T : \A m \in T : n <= m
    BY <1>1 DEF FirstViolated
<1>3. CASE T = {}
    BY <1>1, <1>2, <1>3, Zenon DEF Cleared
<1>4. CASE T # {}
    <2>1. T \in SUBSET Nat
        BY <1>1
    <2>2. \E n \in T : \A m \in T : n <= m
        BY <1>4, <2>1, NatLeast, Zenon
    <2>3. FirstViolated(t, q) \in T /\ \A m \in T : FirstViolated(t, q) <= m
        BY <1>2, <1>4, <2>2, Zenon
    <2> QED BY <1>1, <2>3, Zenon
<1> QED BY <1>3, <1>4, Zenon

\* The checks that SET CONSTRAINTS IMMEDIATE forgets are marked.
LEMMA ForgottenMarked ==
    ASSUME NEW t, NEW q \in Seq(Pending), NEW Y, NEW n, n = FirstViolated(t, q),
           Referred(View(t), Y, Waiting(q)),
           NEW r, r = IF n = 0 THEN <<>> ELSE <<q[n]>>,
           NEW YY, YY = IF n = 0 THEN Y ELSE Y \cup {P(i) : i \in {q[m].val : m \in (n + 1) .. Len(q)}}
    PROVE  Referred(View(t), YY, Waiting(r)) /\ r \in Seq(Pending)
<1>1. r \in Seq(Pending)
    BY FirstViolatedIs
<1> SUFFICES ASSUME NEW j \in CId, View(t)[C(j)] \in Id, View(t)[P(View(t)[C(j)])] = Absent,
                    C(j) \notin YY, P(View(t)[C(j)]) \notin YY, View(t)[C(j)] \notin Waiting(r)
             PROVE  FALSE
    BY <1>1, Zenon DEF Referred
<1>2. PICK x \in Id : x = View(t)[C(j)]
    BY Zenon
<1>3. x \in Waiting(q)
    BY <1>2, Zenon DEF Referred
<1>4. PICK m \in 1 .. Len(q) : q[m].val = x
    BY <1>3, Zenon DEF Waiting
<1>5. Read(t, P(x)) = Absent /\ Read(t, C(j)) = x
    BY <1>2, KeyIs, Zenon DEF View
<1>6. Violated(t, q[m])
    BY <1>4, <1>5, Zenon DEF Violated
<1>7. n \in 1 .. Len(q) /\ n <= m
    BY <1>6, FirstViolatedIs, Zenon DEF Cleared
<1>8. r = <<q[n]>> /\ YY = Y \cup {P(i) : i \in {q[k].val : k \in (n + 1) .. Len(q)}}
    BY <1>7
<1>9. n # m
    <2>1. Waiting(<<q[n]>>) = {q[n].val}
        BY DEF Waiting
    <2> QED BY <1>2, <1>4, <1>8, <2>1, Zenon
<1>10. m \in (n + 1) .. Len(q)
    BY <1>7, <1>9
<1> QED BY <1>2, <1>4, <1>8, <1>10, Zenon

LEMMA SetConstraintsGood ==
    ASSUME RowsInv, NEW c \in Client, NEW b \in BOOLEAN, SetConstraints(c, b)
    PROVE  RowsInv'
<1>1. UNCHANGED <<db, txn, ph, stmt, at, loose>> /\ ph[c] = "open"
    BY Zenon DEF SetConstraints
<1>2. PICK n : n = FirstViolated(txn[c], pend[c])
    BY Zenon
<1>3. PICK E : E = {P(i) : i \in {pend[c][m].val : m \in (n + 1) .. Len(pend[c])}}
    BY Zenon
<1>4. Session(c) /\ PerClient
    BY Zenon DEF RowsInv
<1>5. /\ Between(txn[c], pend[c], odd[c], db, loose) /\ pend[c] \in Seq(Pending)
      /\ odd[c] \in Marks /\ odd[c].index \subseteq odd[c].check
    BY <1>1, <1>4, Zenon DEF Session, SessionOK
<1>6. CASE pend' = pend /\ odd' = odd
    <2>1. PerClient' /\ \A d \in Client : d # c => Alone(d)
        BY <1>1, <1>4, <1>6, Zenon DEF PerClient, Alone
    <2>2. Session(c)'
        BY <1>1, <1>4, <1>6, Zenon DEF Session
    <2> QED BY <1>1, <2>1, <2>2, OneSession, Zenon
<1>7. CASE /\ pend' = [pend EXCEPT ![c] = IF n = 0 THEN <<>> ELSE <<@[n]>>]
           /\ odd' = [odd EXCEPT ![c].check = IF n = 0 THEN @ ELSE @ \cup E]
    <2>1. PerClient' /\ \A d \in Client : d # c => Alone(d)
        BY <1>1, <1>4, <1>7, Zenon DEF PerClient, Alone
    <2>2. pend'[c] = IF n = 0 THEN <<>> ELSE <<pend[c][n]>>
        BY <1>4, <1>7, Zenon DEF PerClient
    <2>3. odd'[c] = [odd[c] EXCEPT !.check = IF n = 0 THEN @ ELSE @ \cup E]
        BY <1>4, <1>7, Zenon DEF PerClient
    <2>4. PICK o : o = odd'[c]
        BY Zenon
    <2>5. o.index = odd[c].index /\ o.check = IF n = 0 THEN odd[c].check ELSE odd[c].check \cup E
        BY <1>5, <2>3, <2>4, Zenon DEF Marks
    <2>6. n = 0 \/ n \in 1 .. Len(pend[c])
        BY <1>2, <1>5, FirstViolatedIs, Zenon
    <2>7. E \subseteq Mark
        <3>1. \A m \in 1 .. Len(pend[c]) : pend[c][m].val \in Nat
            <4>1. \A m \in 1 .. Len(pend[c]) : pend[c][m] \in Pending
                BY <1>5, ElementOf, Zenon
            <4> QED BY <4>1 DEF Pending, Id
        <3>2. \A m \in (n + 1) .. Len(pend[c]) : pend[c][m].val \in Nat
            BY <1>5, <2>6, <3>1
        <3> QED BY <1>3, <3>2 DEF Mark, P
    <2>8. o \in Marks /\ o.index \subseteq o.check
        BY <1>5, <2>3, <2>4, <2>5, <2>7, Zenon DEF Marks
    <2>9. PICK Y : Y = loose.check \cup odd[c].check
        BY Zenon
    <2>10. loose.check \cup o.check = IF n = 0 THEN Y ELSE Y \cup E
        BY <2>5, <2>9, Zenon
    <2>11. Y \subseteq loose.check \cup o.check
        BY <2>10, Zenon
    <2>12. TxnGood(txn[c], loose.index \cup odd[c].index, Y, pend[c])
        BY <1>5, <2>9, Zenon DEF Between
    <2>13. ChecksOK(txn[c], Y, Waiting(pend[c]))
        BY <2>12, Zenon DEF TxnGood
    <2>14. Referred(View(txn[c]), loose.check \cup o.check, Waiting(pend'[c])) /\ pend'[c] \in Seq(Pending)
        <3>1. Referred(View(txn[c]), Y, Waiting(pend[c]))
            BY <2>13, Zenon DEF ChecksOK
        <3>2. loose.check \cup o.check =
                  IF n = 0 THEN Y
                  ELSE Y \cup {P(i) : i \in {pend[c][m].val : m \in (n + 1) .. Len(pend[c])}}
            BY <1>3, <2>10, Zenon
        <3>3. PICK q : q = pend[c]
            BY Zenon
        <3>4. PICK r : r = pend'[c]
            BY Zenon
        <3>5. PICK YY : YY = loose.check \cup o.check
            BY Zenon
        <3>6. /\ q \in Seq(Pending) /\ n = FirstViolated(txn[c], q) /\ Referred(View(txn[c]), Y, Waiting(q))
              /\ r = IF n = 0 THEN <<>> ELSE <<q[n]>>
              /\ YY = IF n = 0 THEN Y ELSE Y \cup {P(i) : i \in {q[m].val : m \in (n + 1) .. Len(q)}}
            BY <1>2, <1>5, <2>2, <3>1, <3>2, <3>3, <3>4, <3>5, ZenonT(30)
        <3>7. Referred(View(txn[c]), YY, Waiting(r)) /\ r \in Seq(Pending)
            BY <3>6, ForgottenMarked, Zenon
        <3> QED BY <3>4, <3>5, <3>7, Zenon
    <2>15. Accepted(View(txn[c]), loose.check \cup o.check)
        BY <2>11, <2>13, Zenon DEF ChecksOK, Accepted
    <2>16. Unique(View(txn[c]), loose.check \cup o.check)
        BY <2>11, <2>13, Zenon DEF ChecksOK, Unique
    <2>17. TxnGood(txn[c], loose.index \cup o.index, loose.check \cup o.check, pend'[c])
        BY <2>5, <2>12, <2>14, <2>15, <2>16, Zenon DEF TxnGood, ChecksOK
    <2>18. Between(txn[c], pend'[c], o, db, loose)
        BY <1>5, <2>17, Zenon DEF Between
    <2>19. Session(c)'
        BY <1>1, <2>4, <2>8, <2>14, <2>18, Zenon DEF Session, SessionOK
    <2> QED BY <1>1, <2>1, <2>19, OneSession, Zenon
<1> QED BY <1>2, <1>3, <1>6, <1>7, Zenon DEF SetConstraints

\* A commit of c leaves the contents and the other sessions right.
LEMMA InstalledGood ==
    ASSUME RowsInv, NEW c \in Client, Between(txn[c], pend[c], odd[c], db, loose),
           Cleared(txn[c], pend[c]), ~Conflict(txn[c]), Installed(c)
    PROVE  /\ Contents(db', loose')
           /\ \A d \in Client : d # c =>
                  SessionOK(ph[d], AfterCommit(c)[d], pend[d], odd[d], stmt[d], at[d], db', loose')
<1>1. Session(c) /\ Contents(db, loose)
    BY Zenon DEF RowsInv
<1>2. odd[c] \in Marks /\ odd[c].index \subseteq odd[c].check
    BY <1>1, Zenon DEF Session, SessionOK
<1>3. TxnGood(txn[c], loose.index \cup odd[c].index, loose.check \cup odd[c].check, pend[c]) /\ Since(txn[c], db)
    BY Zenon DEF Between
<1>4. \A k \in Written(txn[c]) \cap txn[c].since : db[k] = Absent
    BY Zenon DEF Conflict
<1>5. Ready(db, loose, txn[c], odd[c], pend[c])
    BY <1>1, <1>2, <1>3, <1>4, Zenon DEF Ready
<1>6. db' = After(db, txn[c]) /\ loose' = Merged(loose, odd[c], txn[c])
    BY Zenon DEF Installed, Install, After, Merged
<1>7. Contents(db', loose')
    BY <1>5, <1>6, CommitContents, Zenon
<1>8. ASSUME NEW d \in Client, d # c
      PROVE  SessionOK(ph[d], AfterCommit(c)[d], pend[d], odd[d], stmt[d], at[d], db', loose')
    <2>1. Session(d)
        BY Zenon DEF RowsInv
    <2>2. PICK r : r = AfterCommit(c)[d]
        BY Zenon
    <2>3. r = IF txn[d].open THEN [txn[d] EXCEPT !.since = @ \cup Written(txn[c])] ELSE NoTxn
        BY <1>8, <2>2, Zenon DEF AfterCommit
    <2>4. CASE ph[d] \in {"idle", "exec"}
        <3>1. txn[d] = NoTxn
            BY <2>1, <2>4, Zenon DEF Session, SessionOK
        <3>2. r = NoTxn
            BY <2>3, <3>1 DEF NoTxn
        <3> QED BY <2>1, <2>2, <2>4, <3>2, Zenon DEF Session, SessionOK
    <2>5. CASE ph[d] \in {"open", "aborted", "commit"}
        <3>1. Between(txn[d], pend[d], odd[d], db, loose)
            BY <2>1, <2>5, Zenon DEF Session, SessionOK
        <3>2. PICK u : u = txn[d]
            BY Zenon
        <3>3. u \in TxnType /\ Since(u, db)
            BY <3>1, <3>2, Zenon DEF Between, TxnGood
        <3>4. r = [u EXCEPT !.since = @ \cup Written(txn[c])]
            <4>1. u.open
                BY <3>3, Zenon DEF TxnType
            <4> QED BY <2>3, <3>2, <4>1, Zenon
        <3>5. Written(txn[c]) \subseteq Key
            BY Zenon DEF Written
        <3>6. r \in TxnType /\ r.buf = u.buf /\ r.snap = u.snap
            BY <3>3, <3>4, <3>5, Zenon DEF TxnType
        <3>7. Since(r, db')
            BY <1>3, <1>6, <3>3, <3>4, SinceGrows, Zenon DEF TxnGood
        <3>8. /\ loose.index \cup odd[d].index \subseteq loose'.index \cup odd[d].index
              /\ loose.check \cup odd[d].check \subseteq loose'.check \cup odd[d].check
            BY <1>6, Zenon DEF Merged
        <3>9. TxnGood(u, loose.index \cup odd[d].index, loose.check \cup odd[d].check, pend[d])
            BY <3>1, <3>2, Zenon DEF Between
        <3>10. TxnGood(r, loose'.index \cup odd[d].index, loose'.check \cup odd[d].check, pend[d])
            <4>1. PICK X, XX, Y, YY : /\ X = loose.index \cup odd[d].index /\ XX = loose'.index \cup odd[d].index
                                      /\ Y = loose.check \cup odd[d].check /\ YY = loose'.check \cup odd[d].check
                BY Zenon
            <4>2. TxnGood(u, X, Y, pend[d]) /\ X \subseteq XX /\ Y \subseteq YY
                BY <3>8, <3>9, <4>1, Zenon
            <4>3. TxnGood(r, XX, YY, pend[d])
                BY <3>6, <4>2, TxnGrows, Zenon
            <4> QED BY <4>1, <4>3, Zenon
        <3>11. Between(r, pend[d], odd[d], db', loose')
            BY <3>7, <3>10, Zenon DEF Between
        <3> QED BY <2>1, <2>2, <2>5, <3>11, Zenon DEF Session, SessionOK
    <2> QED BY <2>1, <2>4, <2>5, Zenon DEF Session, SessionOK
<1> QED BY <1>7, <1>8, Zenon

\* The session of c goes on after its commit; the others are left alone.
LEMMA AfterInstalled ==
    ASSUME RowsInv, NEW c \in Client, Between(txn[c], pend[c], odd[c], db, loose),
           Cleared(txn[c], pend[c]), ~Conflict(txn[c]), Installed(c),
           PerClient', txn' = AfterCommit(c),
           \A d \in Client : d # c =>
               /\ ph'[d] = ph[d] /\ pend'[d] = pend[d] /\ odd'[d] = odd[d]
               /\ stmt'[d] = stmt[d] /\ at'[d] = at[d],
           SessionOK(ph'[c], NoTxn, pend'[c], odd'[c], stmt'[c], at'[c], db', loose')
    PROVE  RowsInv'
<1>1. txn'[c] = NoTxn
    BY Zenon DEF AfterCommit
<1>2. Session(c)'
    BY <1>1, Zenon DEF Session
<1>3. ASSUME NEW d \in Client, d # c PROVE Session(d)'
    <2>1. SessionOK(ph[d], AfterCommit(c)[d], pend[d], odd[d], stmt[d], at[d], db', loose')
        BY <1>3, InstalledGood, Zenon
    <2> QED BY <1>3, <2>1, Zenon DEF Session
<1>4. Contents(db', loose')
    BY InstalledGood, Zenon
<1> QED BY <1>2, <1>3, <1>4, Zenon DEF RowsInv

LEMMA CommittedGood ==
    ASSUME RowsInv, NEW c \in Client, Between(txn[c], pend[c], odd[c], db, loose),
           Cleared(txn[c], pend[c]), ~Conflict(txn[c]), Installed(c), Done(c, AfterCommit(c))
    PROVE  RowsInv'
<1>1. PerClient'
    BY Zenon DEF RowsInv, PerClient, Done, AfterCommit
<1>2. \A d \in Client : d # c =>
          /\ ph'[d] = ph[d] /\ pend'[d] = pend[d] /\ odd'[d] = odd[d]
          /\ stmt'[d] = stmt[d] /\ at'[d] = at[d]
    BY Zenon DEF RowsInv, PerClient, Done
<1>3. ph'[c] = "idle" /\ pend'[c] = <<>> /\ odd'[c] = NoOdd
    BY Zenon DEF RowsInv, PerClient, Done
<1>4. SessionOK(ph'[c], NoTxn, pend'[c], odd'[c], stmt'[c], at'[c], db', loose')
    BY <1>3, NoneGood, Zenon
<1>5. txn' = AfterCommit(c)
    BY Zenon DEF Done
<1> QED BY <1>1, <1>2, <1>4, <1>5, AfterInstalled, Zenon

LEMMA EndedIs ==
    ASSUME PerClient, NEW c \in Client
    PROVE  DOMAIN Ended(c) = Client /\ Ended(c)[c] = NoTxn /\ \A d \in Client : d # c => Ended(c)[d] = txn[d]
BY Zenon DEF PerClient, Ended

LEMMA CommitGood ==
    ASSUME RowsInv, NEW c \in Client, Commit(c)
    PROVE  RowsInv'
<1>1. Session(c) /\ ph[c] = "open" /\ PerClient
    BY Zenon DEF RowsInv, Commit
<1>2. Between(txn[c], pend[c], odd[c], db, loose) /\ pend[c] \in Seq(Pending)
    BY <1>1, Zenon DEF Session, SessionOK
<1>3. CASE /\ FirstViolated(txn[c], pend[c]) = 0 /\ ~Conflict(txn[c])
           /\ Installed(c) /\ Done(c, AfterCommit(c))
    <2>1. Cleared(txn[c], pend[c])
        BY <1>2, <1>3, FirstViolatedIs
    <2> QED BY <1>2, <1>3, <2>1, CommittedGood, Zenon
<1>4. CASE Done(c, Ended(c)) /\ UNCHANGED <<db, loose>>
    BY <1>1, <1>4, EndedIs, EndedGood, Zenon
<1> QED BY <1>3, <1>4, Zenon DEF Commit

LEMMA RollbackGood ==
    ASSUME RowsInv, NEW c \in Client, Rollback(c)
    PROVE  RowsInv'
<1>1. PerClient /\ Done(c, Ended(c)) /\ UNCHANGED <<db, loose>>
    BY Zenon DEF RowsInv, Rollback
<1> QED BY <1>1, EndedIs, EndedGood, Zenon

\* A statement has a row to start with, and its parts are statements.
LEMMA PartIs ==
    ASSUME NEW st \in Statement
    PROVE  /\ Rows(st) \in Nat /\ 1 <= Rows(st)
           /\ \A n \in 1 .. Rows(st) : Part(st, n) \in Statement
<1>1. CASE st.op # "insert"
    BY <1>1 DEF Rows, Part
<1>2. CASE st.op = "insert"
    <2>1. PICK T : /\ T = [id : Id \cup {Default}, val : PCell] \/ T = [id : CId, val : CCell]
                   /\ st.rows \in Seq(T) \ {<<>>}
                   /\ \A q \in Seq(T) \ {<<>>} : [st EXCEPT !.rows = q] \in Statement
        <3>1. st \in InsertStmt
            BY <1>2, Zenon DEF Statement, UpdateStmt, DeleteStmt
        <3>2. CASE st \in [op : {"insert"}, tab : {"P"},
                           rows : Seq([id : Id \cup {Default}, val : PCell]) \ {<<>>},
                           oc : {"error", "nothing", "update"}, how : {"values", "copy"}]
            <4>1. \A q \in Seq([id : Id \cup {Default}, val : PCell]) \ {<<>>} :
                      [st EXCEPT !.rows = q] \in InsertStmt
                BY <3>2, Zenon DEF InsertStmt
            <4> QED BY <3>2, <4>1, Zenon DEF Statement
        <3>3. CASE st \in [op : {"insert"}, tab : {"C"}, rows : Seq([id : CId, val : CCell]) \ {<<>>},
                           oc : {"error", "nothing", "update"}, how : {"values", "copy"}]
            <4>1. \A q \in Seq([id : CId, val : CCell]) \ {<<>>} : [st EXCEPT !.rows = q] \in InsertStmt
                BY <3>3, Zenon DEF InsertStmt
            <4> QED BY <3>3, <4>1, Zenon DEF Statement
        <3> QED BY <3>1, <3>2, <3>3, Zenon DEF InsertStmt
    <2>2. Rows(st) = Len(st.rows)
        BY <1>2, Zenon DEF Rows
    <2>3. Len(st.rows) \in Nat /\ 1 <= Len(st.rows)
        BY <2>1
    <2>4. ASSUME NEW n \in 1 .. Rows(st) PROVE Part(st, n) \in Statement
        <3>1. st.rows[n] \in T
            BY <2>1, <2>2, ElementOf, Zenon
        <3>2. <<st.rows[n]>> \in Seq(T) \ {<<>>}
            BY <3>1
        <3> QED BY <1>2, <2>1, <3>2, Zenon DEF Part
    <2> QED BY <2>2, <2>3, <2>4, Zenon
<1> QED BY <1>1, <1>2, Zenon

LEMMA StartGood ==
    ASSUME RowsInv, NEW c \in Client, NEW st \in Stmts, Start(c, st)
    PROVE  RowsInv'
<1>1. PerClient' /\ \A d \in Client : d # c => Alone(d)
    BY Zenon DEF RowsInv, PerClient, Start, Alone
<1>2. /\ ph'[c] = "exec" /\ stmt'[c] = st /\ at'[c] = 1 /\ ph[c] = "idle"
      /\ UNCHANGED <<db, txn, pend, odd, loose>>
    BY Zenon DEF RowsInv, PerClient, Start
<1>3. st \in Statement /\ 1 \in 1 .. Rows(st)
    BY RowsAssumption, PartIs
<1>4. Session(c)
    BY Zenon DEF RowsInv
<1>5. Session(c)'
    BY <1>2, <1>3, <1>4, Zenon DEF Session, SessionOK
<1> QED BY <1>1, <1>2, <1>5, OneSession, Zenon

LEMMA AutoExecGood ==
    ASSUME RowsInv, NEW c \in Client, AutoExec(c)
    PROVE  RowsInv'
<1>1. PICK s : s = Exec(State(c, Fresh), Part(stmt[c], at[c]))
    BY Zenon
<1>2. Session(c) /\ ph[c] = "exec" /\ Contents(db, loose) /\ PerClient
    BY Zenon DEF RowsInv, AutoExec
<1>3. /\ txn[c] = NoTxn /\ pend[c] = <<>> /\ odd[c] \in Marks /\ odd[c].index \subseteq odd[c].check
      /\ stmt[c] \in Statement /\ at[c] \in 1 .. Rows(stmt[c])
    BY <1>2, Zenon DEF Session, SessionOK
<1>4. CASE Done(c, txn) /\ UNCHANGED <<db, loose>>
    <2>1. DOMAIN txn = Client
        BY <1>2, Zenon DEF PerClient
    <2> QED BY <1>3, <1>4, <2>1, EndedGood, Zenon
<1>5. CASE /\ Store(c, s) /\ ph' = [ph EXCEPT ![c] = "commit"]
           /\ UNCHANGED <<fk, ext, stmt, at, tries, mode, spent>> /\ UNCHANGED <<db, loose>>
    <2>1. PerClient' /\ \A d \in Client : d # c => Alone(d)
        BY <1>2, <1>5, Zenon DEF PerClient, Store, Alone
    <2>2. /\ ph'[c] = "commit" /\ txn'[c] = s.t /\ pend'[c] = s.pend
          /\ odd'[c] = [index |-> s.index, check |-> s.check]
          /\ UNCHANGED <<db, loose, stmt, at>>
        BY <1>2, <1>5, Zenon DEF PerClient, Store
    <2>3. Part(stmt[c], at[c]) \in Statement
        BY <1>3, PartIs, Zenon
    <2>4. Between(Fresh, <<>>, odd[c], db, loose) /\ <<>> \in Seq(Pending)
        BY <1>2, FreshBetween
    <2>5. Between(Fresh, pend[c], odd[c], db, loose) /\ pend[c] \in Seq(Pending)
        BY <1>3, <2>4, Zenon
    <2>6. PICK r : r = State(c, Fresh)
        BY Zenon
    <2>7. Good(r) /\ r.ok /\ LooseOK /\ r.t = Fresh /\ r.pend = <<>> /\ r.late = Deferred(c)
        <3>1. /\ Good(State(c, Fresh)) /\ State(c, Fresh).ok /\ LooseOK /\ State(c, Fresh).t = Fresh
              /\ State(c, Fresh).pend = pend[c] /\ State(c, Fresh).late = Deferred(c)
            BY <1>2, <1>3, <2>5, StateGood, ZenonT(30)
        <3> QED BY <1>3, <2>6, <3>1, Zenon
    <2>8. Step(r, s)
        BY <1>1, <2>3, <2>6, <2>7, ExecGood, Zenon
    <2>9. Since(r.t, db)
        BY <2>4, <2>7, Zenon DEF Between
    <2>10. /\ Between(s.t, s.pend, odd'[c], db, loose) /\ odd'[c] \in Marks
           /\ odd'[c].index \subseteq odd'[c].check /\ s.pend \in Seq(Pending)
           /\ ~r.late => s.pend = <<>>
        <3>1. PICK o : o = odd'[c]
            BY Zenon
        <3>2. /\ Between(s.t, s.pend, o, db, loose) /\ o \in Marks /\ o.index \subseteq o.check
              /\ s.pend \in Seq(Pending) /\ (~r.late => s.pend = r.pend)
            BY <2>2, <2>8, <2>9, <3>1, StepBetween, Zenon
        <3> QED BY <2>7, <3>1, <3>2, Zenon
    <2>11. ~r.late
        BY <1>2, <2>7, Zenon DEF Deferred
    <2>12. Session(c)'
        BY <1>3, <2>2, <2>10, <2>11, Zenon DEF Session, SessionOK
    <2> QED BY <2>1, <2>2, <2>12, OneSession, Zenon
<1> QED BY <1>1, <1>4, <1>5, Zenon DEF AutoExec

LEMMA AutoCommitGood ==
    ASSUME RowsInv, NEW c \in Client, AutoCommit(c)
    PROVE  RowsInv'
<1>1. Session(c) /\ ph[c] = "commit" /\ Contents(db, loose) /\ PerClient
    BY Zenon DEF RowsInv, AutoCommit
<1>2. /\ Between(txn[c], pend[c], odd[c], db, loose) /\ pend[c] = <<>>
      /\ stmt[c] \in Statement /\ at[c] \in 1 .. Rows(stmt[c])
    BY <1>1, Zenon DEF Session, SessionOK
<1>3. Cleared(txn[c], pend[c])
    BY <1>2 DEF Cleared
<1>4. /\ NoOdd \in Marks /\ NoOdd.index \subseteq NoOdd.check /\ <<>> \in Seq(Pending)
      /\ Rows(stmt[c]) \in Nat /\ 1 <= Rows(stmt[c])
    BY <1>2, PartIs DEF NoOdd, Marks
<1>5. ASSUME NEW n \in 1 .. Rows(stmt[c]), NEW f, NEW L
      PROVE  SessionOK("exec", NoTxn, <<>>, NoOdd, stmt[c], n, f, L)
    BY <1>2, <1>4, Zenon DEF SessionOK
<1>6. CASE ~Conflict(txn[c]) /\ Installed(c) /\ Done(c, AfterCommit(c))
    BY <1>2, <1>3, <1>6, CommittedGood, Zenon
<1>7. CASE /\ ~Conflict(txn[c]) /\ Installed(c) /\ at[c] < Rows(stmt[c])
           /\ ph' = [ph EXCEPT ![c] = "exec"] /\ at' = [at EXCEPT ![c] = @ + 1]
           /\ txn' = AfterCommit(c) /\ odd' = [odd EXCEPT ![c] = NoOdd]
           /\ UNCHANGED <<fk, ext, stmt, pend, mode, spent>>
    <2>1. PerClient'
        BY <1>1, <1>7, Zenon DEF PerClient, AfterCommit
    <2>2. \A d \in Client : d # c =>
              /\ ph'[d] = ph[d] /\ pend'[d] = pend[d] /\ odd'[d] = odd[d]
              /\ stmt'[d] = stmt[d] /\ at'[d] = at[d]
        BY <1>1, <1>7, Zenon DEF PerClient
    <2>3. /\ ph'[c] = "exec" /\ pend'[c] = <<>> /\ odd'[c] = NoOdd
          /\ stmt'[c] = stmt[c] /\ at'[c] = at[c] + 1
        BY <1>1, <1>2, <1>7, Zenon DEF PerClient
    <2>4. at[c] + 1 \in 1 .. Rows(stmt[c])
        BY <1>2, <1>4, <1>7
    <2>5. SessionOK(ph'[c], NoTxn, pend'[c], odd'[c], stmt'[c], at'[c], db', loose')
        BY <1>5, <2>3, <2>4, Zenon
    <2> QED BY <1>2, <1>3, <1>7, <2>1, <2>2, <2>5, AfterInstalled, Zenon
<1>8. CASE Done(c, Ended(c)) /\ UNCHANGED <<db, loose>>
    BY <1>1, <1>8, EndedIs, EndedGood, Zenon
<1>9. CASE /\ UNCHANGED <<db, loose>>
           /\ ph' = [ph EXCEPT ![c] = "exec"]
           /\ at' = [at EXCEPT ![c] = IF stmt[c].op = "insert" /\ stmt[c].how = "copy" THEN @ ELSE 1]
           /\ txn' = Ended(c) /\ odd' = [odd EXCEPT ![c] = NoOdd]
           /\ UNCHANGED <<fk, ext, stmt, pend, mode, spent>>
    <2>1. PerClient' /\ \A d \in Client : d # c => Alone(d)
        BY <1>1, <1>9, Zenon DEF PerClient, Ended, Alone
    <2>2. /\ ph'[c] = "exec" /\ pend'[c] = <<>> /\ odd'[c] = NoOdd /\ txn'[c] = NoTxn
          /\ stmt'[c] = stmt[c] /\ at'[c] \in {at[c], 1}
        BY <1>1, <1>2, <1>9, Zenon DEF PerClient, Ended
    <2>3. at'[c] \in 1 .. Rows(stmt[c])
        BY <1>2, <1>4, <2>2
    <2>4. Session(c)'
        BY <1>5, <2>2, <2>3, Zenon DEF Session
    <2> QED BY <1>9, <2>1, <2>4, OneSession, Zenon
<1> QED BY <1>6, <1>7, <1>8, <1>9, Zenon DEF AutoCommit

\* The rows to start from, with their index entries.
LEMMA InitGood == Init => RowsInv
<1> SUFFICES ASSUME Init PROVE RowsInv
    BY Zenon
<1>1. PICK x \in Setups :
          db = [k \in Key |->
                CASE k \in DOMAIN x.rows -> x.rows[k]
                  [] k = Idx /\ x.indexed -> "unique"
                  [] k \in Entries /\ x.indexed /\ <<P(k[3]), k[2]>> \in
                        {<<r, x.rows[r]>> : r \in DOMAIN x.rows} -> k[3]
                  [] OTHER -> Absent]
    BY Zenon DEF Init, KVInit
<1>2. PICK w, b : w = x.rows /\ b = x.indexed
    BY Zenon
<1>3. Valid(w, b)
    BY <1>2, RowsAssumption, Zenon
<1>4. \A i \in Id : db[P(i)] = IF P(i) \in DOMAIN w THEN w[P(i)] ELSE Absent
    BY <1>1, <1>2, KeyIs, KeysDiffer DEF Entries
<1>5. \A j \in CId : db[C(j)] = IF C(j) \in DOMAIN w THEN w[C(j)] ELSE Absent
    BY <1>1, <1>2, KeyIs, KeysDiffer DEF Entries
<1>6. Idx \notin DOMAIN w /\ Seq1 \notin DOMAIN w /\ \A v, i : I(v, i) \notin DOMAIN w
    BY <1>3, KeysDiffer DEF Valid, PRows, CRows
<1>7. db[Seq1] = Absent /\ db[Idx] = IF b THEN "unique" ELSE Absent
    BY <1>1, <1>2, <1>6, KeyIs, KeysDiffer DEF Entries
<1>8. \A v \in Val, i \in Id :
          db[I(v, i)] = IF b /\ P(i) \in DOMAIN w /\ w[P(i)] = v THEN i ELSE Absent
    <2> SUFFICES ASSUME NEW v \in Val, NEW i \in Id
                 PROVE  db[I(v, i)] = IF b /\ P(i) \in DOMAIN w /\ w[P(i)] = v THEN i ELSE Absent
        BY Zenon
    <2>1. I(v, i)[3] = i /\ I(v, i)[2] = v
        BY Zenon DEF I
    <2>2. I(v, i) \in Entries /\ I(v, i) # Idx /\ I(v, i) \in Key
        BY KeyIs, KeysDiffer DEF Entries
    <2>3. (<<P(i), v>> \in {<<r, w[r]>> : r \in DOMAIN w}) = (P(i) \in DOMAIN w /\ w[P(i)] = v)
        OBVIOUS
    <2> QED BY <1>1, <1>2, <1>6, <2>1, <2>2, <2>3, Zenon
<1>9. /\ \A i \in Id : db[P(i)] \in (PCell \ Rejected) \cup {Absent}
      /\ \A j \in CId : db[C(j)] \in CCell \cup {Absent}
    BY <1>3, <1>4, <1>5, Zenon DEF Valid, CCell
<1>10. db \in [Key -> Data]
    <2>1. DOMAIN db = Key /\ db = [k \in Key |-> db[k]]
        BY <1>1
    <2>2. \A i \in Id : i \in Data
        BY DEF Data, Id
    <2>3. ASSUME NEW k \in Key PROVE db[k] \in Data
        <3>1. CASE k \in PRows \cup CRows
            BY <1>9, <3>1, Zenon DEF PRows, CRows, Data
        <3>2. CASE k \in Entries
            BY <1>8, <2>2, <3>2, DataIs DEF Entries
        <3>3. CASE k \in {Seq1, Idx}
            BY <1>7, <3>3, Zenon DEF Data
        <3> QED BY <3>1, <3>2, <3>3, Zenon DEF Key
    <2> QED BY <2>1, <2>3, Zenon
<1>11. \A i \in Id : Agrees(db, i)
    <2> SUFFICES ASSUME NEW i \in Id, NEW v \in Val
                 PROVE  (db[I(v, i)] # Absent) <=> (db[Idx] # Absent /\ db[P(i)] = v)
        BY Zenon DEF Agrees
    <2>1. i # Absent /\ v # Absent /\ "unique" # Absent
        BY MarkersAssumption DEF Id
    <2> QED BY <1>4, <1>7, <1>8, <2>1, Zenon
<1>12. Accepted(db, {})
    <2>1. Absent \notin Rejected
        BY RowsAssumption, MarkersAssumption, Zenon
    <2> QED BY <1>9, <2>1, Zenon DEF Accepted
<1>13. Unique(db, {})
    <2> SUFFICES ASSUME NEW i \in Id, NEW j \in Id, i # j, db[Idx] # Absent,
                        db[P(i)] \in Val, db[P(i)] = db[P(j)]
                 PROVE  FALSE
        BY Zenon DEF Unique
    <2>1. db[P(i)] # Absent /\ db[P(i)] # Null
        BY MarkersAssumption, Zenon
    <2>2. b /\ {P(i), P(j)} \subseteq DOMAIN w /\ w[P(i)] # Null /\ w[P(i)] = w[P(j)]
        BY <1>4, <1>7, <2>1, Zenon
    <2> QED BY <1>3, <2>2, Zenon DEF Valid
<1>14. Referred(db, {}, {})
    <2> SUFFICES ASSUME NEW j \in CId, db[C(j)] \in Id, db[P(db[C(j)])] = Absent PROVE FALSE
        BY Zenon DEF Referred
    <2>1. Absent \notin Id /\ Null \notin Id
        BY MarkersAssumption DEF Id
    <2>2. C(j) \in DOMAIN w /\ w[C(j)] = db[C(j)] /\ w[C(j)] # Null
        BY <1>5, <2>1, Zenon
    <2>3. P(w[C(j)]) \in DOMAIN w /\ w[C(j)] \in Id
        BY <1>3, <2>2, Zenon DEF Valid
    <2>4. Absent \notin PCell
        BY MarkersAssumption, Zenon DEF PCell
    <2>5. w[P(w[C(j)])] \in PCell
        BY <1>3, <2>3, Zenon DEF Valid
    <2> QED BY <1>4, <2>2, <2>3, <2>4, <2>5, Zenon
<1>15. loose = NoOdd /\ NoOdd \in Marks /\ NoOdd.index = {} /\ NoOdd.check = {}
    BY Zenon DEF Init, NoOdd, Marks
<1>16. Contents(db, loose)
    BY <1>7, <1>10, <1>11, <1>12, <1>13, <1>14, <1>15, Zenon DEF Contents
<1>17. PerClient
    BY Zenon DEF Init, KVInit, PerClient
<1>18. ASSUME NEW c \in Client PROVE Session(c)
    <2>1. ph[c] = "idle" /\ txn[c] = NoTxn /\ pend[c] = <<>> /\ odd[c] = NoOdd
        BY Zenon DEF Init, KVInit
    <2> QED BY <2>1, NoneGood, Zenon DEF Session
<1> QED BY <1>16, <1>17, <1>18, Zenon DEF RowsInv

\* Every step keeps the contents and the sessions right.
LEMMA NextGood == RowsInv /\ [Next]_vars => RowsInv'
<1> SUFFICES ASSUME RowsInv, [Next]_vars PROVE RowsInv'
    BY Zenon
<1>1. ASSUME NEW c \in Client, Begin(c) \/ Commit(c) \/ Rollback(c) PROVE RowsInv'
    BY <1>1, BeginGood, CommitGood, RollbackGood, Zenon
<1>2. ASSUME NEW c \in Client, AutoExec(c) \/ AutoCommit(c) PROVE RowsInv'
    BY <1>2, AutoExecGood, AutoCommitGood, Zenon
<1>3. ASSUME NEW c \in Client, NEW st \in Stmts, Run(c, st) \/ Start(c, st) PROVE RowsInv'
    BY <1>3, RunGood, StartGood, Zenon
<1>4. ASSUME NEW c \in Client, NEW b \in BOOLEAN, SetConstraints(c, b) PROVE RowsInv'
    BY <1>4, SetConstraintsGood, Zenon
<1>5. CASE UNCHANGED vars
    <2>1. PerClient' /\ Contents(db', loose')
        BY <1>5, Zenon DEF vars, RowsInv, PerClient
    <2>2. ASSUME NEW c \in Client PROVE Session(c)'
        BY <1>5, Zenon DEF vars, RowsInv, Session
    <2> QED BY <2>1, <2>2, Zenon DEF RowsInv
<1> QED BY <1>1, <1>2, <1>3, <1>4, <1>5, Zenon DEF Next

\* The committed contents are right but for the marked rows, and every session reads
\* contents that are right but for those and its own marked rows.
THEOREM RowsAlwaysRight == Spec => []RowsInv
BY InitGood, NextGood, PTL DEF Spec

\* Whatever sessions run and however their commits interleave, the unique index of the
\* committed rows has exactly their entries, but for the rows that IndexAgrees names.
THEOREM IndexAlwaysAgrees == Spec => []IndexAgrees
<1>1. RowsInv => IndexAgrees
    BY Zenon DEF RowsInv, Contents, Agrees, IndexAgrees
<1> QED BY <1>1, RowsAlwaysRight, PTL

\* NOT NULL, CHECK, policies and UNIQUE hold of the committed rows, but for the rows
\* that ViolationsExplained names.
THEOREM ViolationsAlwaysExplained == Spec => []ViolationsExplained
<1>1. RowsInv => ViolationsExplained
    BY Zenon DEF RowsInv, Contents, Accepted, Unique, ViolationsExplained
<1> QED BY <1>1, RowsAlwaysRight, PTL

\* Foreign keys hold of the committed rows, but for the rows that OrphansExplained names.
THEOREM OrphansAlwaysExplained == Spec => []OrphansExplained
<1>1. RowsInv => OrphansExplained
    BY Zenon DEF RowsInv, Contents, Referred, OrphansExplained
<1> QED BY <1>1, RowsAlwaysRight, PTL

\* Only a commit that finds no conflict changes the contents.
LEMMA OnlyCommits ==
    ASSUME RowsInv, Next, db' # db
    PROVE  \E d \in Client : /\ Between(txn[d], pend[d], odd[d], db, loose) /\ ~Conflict(txn[d])
                             /\ db' = Install(txn[d]) /\ txn' = AfterCommit(d)
<1>1. PICK d \in Client : Commit(d) \/ AutoCommit(d)
    BY Zenon DEF Next, Begin, Rollback, AutoExec, Run, Start, SetConstraints
<1>2. Session(d) /\ ph[d] \in {"open", "commit"}
    BY <1>1, Zenon DEF RowsInv, Commit, AutoCommit
<1>3. Between(txn[d], pend[d], odd[d], db, loose)
    BY <1>2, Zenon DEF Session, SessionOK
<1>4. ~Conflict(txn[d]) /\ db' = Install(txn[d]) /\ txn' = AfterCommit(d)
    BY <1>1, Zenon DEF Commit, AutoCommit, Installed, Done
<1> QED BY <1>3, <1>4, Zenon

\* A transaction that took serial values commits only if nobody else has moved the
\* counter since it began.
LEMMA CounterKept ==
    ASSUME NEW t, Since(t, db), ~Conflict(t), t.buf[Seq1] # Keep
    PROVE  db[Seq1] = t.snap[Seq1] /\ Install(t)[Seq1] = t.buf[Seq1]
<1>1. Seq1 \in Written(t) /\ Seq1 \in Key
    BY KeyIs, Zenon DEF Written
<1>2. Seq1 \notin t.since
    BY <1>1, Zenon DEF Conflict, Since
<1> QED BY <1>1, <1>2, Zenon DEF Since, Install

LEMMA SerialStep ==
    ASSUME RowsInv, Next, db' # db, NEW c \in Client, txn[c].buf[Seq1] # Keep, ~txn'[c].open
    PROVE  Count(db'[Seq1]) - Count(db[Seq1]) = txn[c].buf[Seq1] - Count(txn[c].snap[Seq1])
<1>1. PICK d \in Client : /\ Between(txn[d], pend[d], odd[d], db, loose) /\ ~Conflict(txn[d])
                          /\ db' = Install(txn[d]) /\ txn' = AfterCommit(d)
    BY OnlyCommits, Zenon
<1>2. Session(c)
    BY Zenon DEF RowsInv
<1>3. txn[c] # NoTxn
    BY KeyIs DEF NoTxn, NoWrites
<1>4. Between(txn[c], pend[c], odd[c], db, loose)
    BY <1>2, <1>3, Zenon DEF Session, SessionOK
<1>5. PICK t : t = txn[c]
    BY Zenon
<1>6. t \in TxnType /\ MetaOK(t) /\ Since(t, db) /\ t.buf[Seq1] # Keep
    BY <1>4, <1>5, Zenon DEF Between, TxnGood
<1>7. c = d
    <2> SUFFICES ASSUME c # d PROVE FALSE
        BY Zenon
    <2>1. t.open
        BY <1>6, Zenon DEF TxnType
    <2>2. txn'[c] = [t EXCEPT !.since = @ \cup Written(txn[d])]
        BY <1>1, <1>5, <2>1, Zenon DEF AfterCommit
    <2>3. txn'[c].open = t.open
        BY <1>6, <2>2, Zenon DEF TxnType
    <2> QED BY <2>1, <2>3, Zenon
<1>8. db[Seq1] = t.snap[Seq1] /\ db'[Seq1] = t.buf[Seq1]
    BY <1>1, <1>5, <1>6, <1>7, CounterKept, Zenon
<1>9. t.buf[Seq1] # Absent
    BY <1>6, Zenon DEF MetaOK
<1> QED BY <1>5, <1>8, <1>9, Zenon DEF Count

\* Serial values are neither skipped nor given twice, however many sessions draw them
\* (nextSequenceVal).
THEOREM SerialAlwaysDense == Spec => SerialDense
<1> DEFINE Dense == \A c \in Client : db' # db /\ txn[c].buf[Seq1] # Keep /\ ~txn'[c].open =>
               Count(db'[Seq1]) - Count(db[Seq1]) = txn[c].buf[Seq1] - Count(txn[c].snap[Seq1])
<1>1. RowsInv /\ [Next]_vars => [Dense]_vars
    <2> SUFFICES ASSUME RowsInv, Next PROVE Dense
        BY Zenon
    <2> QED BY SerialStep, Zenon
<1> QED BY <1>1, RowsAlwaysRight, PTL DEF Spec, SerialDense
=============================================================================
