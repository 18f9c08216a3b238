------------------------ MODULE ReplicatedStoreProofs ------------------------
(***************************************************************************)
(* Proofs about ReplicatedStore for any replicas, transactions and keys.   *)
(* Convergence is proved for the two situations in which it holds: no      *)
(* replica restarts, or no client deletes; in both every batch fits one    *)
(* store transaction.  The invariant says of each replica that its store   *)
(* is the result of deciding the entries of some prefix of the log in      *)
(* order, at least the prefix it claims to have applied.                   *)
(***************************************************************************)
EXTENDS ReplicatedStore, WellFoundedInduction, TLAPS

-----------------------------------------------------------------------------
(* Types.                                                                  *)

LEMMA AppliedType ==
    ASSUME NEW s \in [Key -> [Index -> Writes \cup {None}]], NEW e \in Entry, NEW i, NEW W
    PROVE  /\ Written(s, e, i, W) \in [Key -> [Index -> Writes \cup {None}]]
           /\ Applied(s, e, i) \in [Key -> [Index -> Writes \cup {None}]]
<1>1. \A k \in Key : e.batch[k] \in Writes \cup {None}
    BY Zenon DEF Entry, Batch
<1>2. \A X : Written(s, e, i, X) \in [Key -> [Index -> Writes \cup {None}]]
    BY <1>1, Zenon DEF Written
<1> QED BY <1>2, Zenon DEF Applied

LEMMA TypeInit == Init => TypeOK
BY ReplicatedStoreAssumption, ManagedStoreAssumption
   DEF Timestamp, Init, TypeOK, Index, Batch, NoWrites, Phase

LEMMA TypeNext == TypeOK /\ [Next]_vars => TypeOK'
<1> SUFFICES ASSUME TypeOK, [Next]_vars PROVE TypeOK'
    BY Zenon
<1> USE ReplicatedStoreAssumption, ManagedStoreAssumption DEF Index, Timestamp
<1>1. ASSUME NEW t \in Txn, NEW r \in Replica, Begin(t, r) PROVE TypeOK'
    BY <1>1, Zenon DEF Begin, ReadTimestamp, TypeOK, Phase
<1>2. ASSUME NEW t \in Txn, NEW k \in Key, NEW v \in Writes, Buffer(t, k, v) PROVE TypeOK'
    <2>1. batch' \in [Txn -> Batch]
        BY <1>2, Zenon DEF Buffer, TypeOK, Batch
    <2> QED BY <1>2, <2>1, Zenon DEF Buffer, TypeOK
<1>3. ASSUME NEW t \in Txn, Finish(t) PROVE TypeOK'
    BY <1>3, Zenon DEF Finish, TypeOK, Phase
<1>4. ASSUME NEW t \in Txn, ProposeTxn(t) PROVE TypeOK'
    BY <1>4, Zenon DEF ProposeTxn, TypeOK, Phase
<1>5. ASSUME NEW t \in Txn, ProposeTimeout(t) PROVE TypeOK'
    BY <1>5, Zenon DEF ProposeTimeout, TypeOK, Phase
<1>6. ASSUME NEW t \in Txn, RaftCommit(t) PROVE TypeOK'
    <2>1. [txn |-> t, readTS |-> readTS[t], batch |-> batch[t]] \in Entry
        BY Zenon DEF TypeOK, Entry
    <2>2. log' \in Seq(Entry) /\ Len(log') = Len(log) + 1
        BY <1>6, <2>1 DEF RaftCommit, TypeOK
    <2> QED BY <1>6, <2>2 DEF RaftCommit, TypeOK
<1>7. ASSUME NEW r \in Replica, Update(r) PROVE TypeOK'
    <2> DEFINE i == lastApplied[r] + 1
    <2>1. i \in 1..Len(log) /\ log[i] \in Entry
        BY <1>7 DEF Update, TypeOK
    <2>2. store' \in [Replica -> [Key -> [Index -> Writes \cup {None}]]]
        BY <1>7, <2>1, AppliedType, Zenon DEF Update, TypeOK
    <2>3. phase' \in [Txn -> Phase]
        BY <1>7, Zenon DEF Update, Answered, TypeOK, Phase
    <2>4. lastApplied' \in [Replica -> 0..MaxTS] /\ \A s \in Replica : lastApplied'[s] <= Len(log)
        BY <1>7, <2>1 DEF Update, TypeOK
    <2> QED BY <1>7, <2>2, <2>3, <2>4, Zenon DEF Update, TypeOK
<1>8. ASSUME NEW r \in Replica, Crash(r) PROVE TypeOK'
    <2> DEFINE i == lastApplied[r] + 1
    <2>1. PICK W \in SUBSET Key :
              /\ W # {} => i <= Len(log)
              /\ store' = IF W = {} THEN store ELSE [store EXCEPT ![r] = Written(@, log[i], i, W)]
        BY <1>8, Zenon DEF Crash
    <2>2. W # {} => log[i] \in Entry
        BY <2>1 DEF TypeOK
    <2>3. store' \in [Replica -> [Key -> [Index -> Writes \cup {None}]]]
        BY <2>1, <2>2, AppliedType, Zenon DEF TypeOK
    <2>4. phase' \in [Txn -> Phase]
        BY <1>8, Zenon DEF Crash, TypeOK, Phase
    <2> QED BY <1>8, <2>3, <2>4 DEF Crash, TypeOK
<1>9. ASSUME NEW r \in Replica, Restart(r) PROVE TypeOK'
    BY <1>9 DEF Restart, ReplayFrom, TypeOK
<1>10. CASE UNCHANGED vars
    BY <1>10, Zenon DEF vars, TypeOK
<1> QED BY <1>1, <1>2, <1>3, <1>4, <1>5, <1>6, <1>7, <1>8, <1>9, <1>10, Zenon DEF Next, Client

\* The log, the stores and the positions in the log keep their types; no
\* replica claims to have applied an entry the log does not have.
THEOREM TypeCorrect == Spec => []TypeOK
BY TypeInit, TypeNext, PTL DEF Spec

-----------------------------------------------------------------------------
(* The decision on entry i as it was taken: on the versions below i.       *)

AbortsBelow(s, e, i) ==
    \E k \in Key : \E j \in 1..(i - 1) :
        /\ e.batch[k] # None
        /\ s[k][j] \notin {None, Tombstone}
        /\ \A w \in (j + 1)..(i - 1) : s[k][w] = None
        /\ j > e.readTS

Outcome(s, e, i, k) == IF AbortsBelow(s, e, i) THEN None ELSE e.batch[k]

\* s is the store of a replica that has decided the first n entries.
Decided(s, n) ==
    /\ \A i \in 1..n : \A k \in Key : s[k][i] = Outcome(s, log[i], i, k)
    /\ \A i \in Index : i > n => \A k \in Key : s[k][i] = None

\* Every replica's store is a decided prefix of the log that covers what it
\* claims to have applied, and is exactly that before the first crash.
DecidedInv ==
    /\ crashes = 0 => up = Replica
    /\ \A r \in Replica : \E n \in lastApplied[r]..Len(log) :
          /\ Decided(store[r], n)
          /\ crashes = 0 => n = lastApplied[r]

\* The decision depends on the versions below the index only.
LEMMA DecisionFrame ==
    ASSUME NEW s, NEW u, NEW e, NEW i \in Nat,
           \A k \in Key : \A j \in 1..(i - 1) : s[k][j] = u[k][j]
    PROVE  AbortsBelow(s, e, i) <=> AbortsBelow(u, e, i)
BY DEF AbortsBelow

\* With nothing above the index, the check of Update is that decision.
LEMMA FreshDecision ==
    ASSUME NEW s, NEW e, NEW i \in Index,
           \A j \in Index : j >= i => \A k \in Key : s[k][j] = None
    PROVE  Aborts(s, e) <=> AbortsBelow(s, e, i)
<1>1. ASSUME Aborts(s, e) PROVE AbortsBelow(s, e, i)
    BY <1>1, ReplicatedStoreAssumption, ManagedStoreAssumption DEF Timestamp, Aborts, AbortsBelow, LatestVersion, IsNewest, Index
<1>2. ASSUME AbortsBelow(s, e, i) PROVE Aborts(s, e)
    <2>1. PICK k \in Key, j \in 1..(i - 1) :
              /\ e.batch[k] # None
              /\ s[k][j] \notin {None, Tombstone}
              /\ \A w \in (j + 1)..(i - 1) : s[k][w] = None
              /\ j > e.readTS
        BY <1>2, Zenon DEF AbortsBelow
    <2>2. j \in Index /\ \A w \in Index : j < w => s[k][w] = None
        BY <2>1, ReplicatedStoreAssumption, ManagedStoreAssumption DEF Timestamp, Index
    <2> QED BY <2>1, <2>2 DEF Aborts, LatestVersion, IsNewest, Index, Timestamp
<1> QED BY <1>1, <1>2, Zenon

\* A set of naturals that is not empty has a least element.
LEMMA LeastExists ==
    ASSUME NEW S \in SUBSET Nat, S # {}
    PROVE  \E m \in S : \A j \in S : m <= j
<1>1. PICK x \in S : \A y \in S : ~(<<y, x>> \in OpToRel(<, Nat))
    BY NatLessThanWellFounded, WFMin, Zenon
<1>2. \A y \in S : ~(y < x)
    BY <1>1, Zenon DEF OpToRel
<1> QED BY <1>2

\* Without deletes a key that has a version has a latest one, at or after it.
LEMMA LatestExists ==
    ASSUME NEW vers, \A j \in Index : vers[j] # Tombstone, NEW i \in Index, vers[i] # None
    PROVE  \E m \in Index : m >= i /\ LatestVersion(vers, m)
<1> USE ReplicatedStoreAssumption, ManagedStoreAssumption DEF Index, Timestamp
<1> DEFINE S == {x \in Nat : x <= MaxTS /\ MaxTS - x \in Index /\ vers[MaxTS - x] # None}
<1>1. MaxTS - i \in S
    BY DEF Index
<1>2. S \in SUBSET Nat /\ S # {}
    BY <1>1, Zenon
<1>3. PICK x \in S : \A y \in S : x <= y
    <2> HIDE DEF S
    <2> QED BY <1>2, LeastExists, Zenon
<1> DEFINE m == MaxTS - x
<1>4. m \in Index /\ vers[m] # None
    BY <1>3, Zenon
<1>5. m >= i
    <2>1. x <= MaxTS - i
        BY <1>1, <1>3, Zenon
    <2>2. x \in Nat /\ i \in Nat
        BY <1>3 DEF Index
    <2> HIDE DEF S
    <2> QED BY <2>1, <2>2
<1>6. ASSUME NEW j \in Index, m < j PROVE vers[j] = None
    <2>1. MaxTS - j \in Nat /\ MaxTS - (MaxTS - j) = j /\ MaxTS - j < x
        BY <1>3, <1>6 DEF Index
    <2>2. MaxTS - j \notin S
        BY <1>3, <2>1
    <2> QED BY <2>1, <2>2
<1> QED BY <1>4, <1>5, <1>6 DEF LatestVersion, IsNewest

\* Replaying an entry the store has decided changes nothing, without deletes.
LEMMA ReplayIsIdentity ==
    ASSUME Tombstone \notin Writes,
           NEW s \in [Key -> [Index -> Writes \cup {None}]],
           NEW n \in 0..MaxTS, Decided(s, n), NEW i \in 1..n, log[i].readTS \in Nat
    PROVE  Applied(s, log[i], i) = s
<1> USE ReplicatedStoreAssumption, ManagedStoreAssumption DEF Index, Timestamp
<1> DEFINE e == log[i]
<1>1. CASE AbortsBelow(s, e, i)
    <2>1. PICK k \in Key, j \in 1..(i - 1) :
              /\ e.batch[k] # None
              /\ s[k][j] # None
              /\ j > e.readTS
        BY <1>1, Zenon DEF AbortsBelow
    <2>2. j \in Index /\ \A w \in Index : s[k][w] # Tombstone
        BY DEF Index
    <2>3. PICK m \in Index : m >= j /\ LatestVersion(s[k], m)
        BY <2>1, <2>2, LatestExists, Zenon
    <2>4. m > e.readTS
        BY <2>1, <2>3 DEF Index
    <2>5. Aborts(s, e)
        BY <2>1, <2>3, <2>4, Zenon DEF Aborts
    <2> QED BY <2>5, Zenon DEF Applied
<1>2. CASE ~AbortsBelow(s, e, i)
    <2>1. \A k \in Key : s[k][i] = e.batch[k]
        BY <1>2, Zenon DEF Decided, Outcome
    <2>2. Written(s, e, i, Key) = s
        BY <2>1, Zenon DEF Written
    <2> QED BY <2>2, Zenon DEF Applied
<1> QED BY <1>1, <1>2, Zenon

\* Deciding the next entry after n extends the decided prefix.
LEMMA NextDecided ==
    ASSUME NEW s \in [Key -> [Index -> Writes \cup {None}]],
           NEW n \in Nat, n + 1 <= MaxTS, Decided(s, n)
    PROVE  Decided(Applied(s, log[n + 1], n + 1), n + 1)
<1> USE ReplicatedStoreAssumption, ManagedStoreAssumption DEF Index, Timestamp
<1> DEFINE i == n + 1
           e == log[i]
           u == Applied(s, e, i)
<1>1. i \in Index /\ \A j \in Index : j >= i => \A k \in Key : s[k][j] = None
    BY DEF Decided, Index
<1>2. Aborts(s, e) <=> AbortsBelow(s, e, i)
    <2> HIDE DEF e, i
    <2> QED BY <1>1, FreshDecision, Zenon
<1>3. \A k \in Key : \A j \in Index : j # i => u[k][j] = s[k][j]
    BY Zenon DEF Applied, Written
<1>4. \A k \in Key : u[k][i] = Outcome(s, e, i, k)
    <2>1. CASE Aborts(s, e)
        BY <1>1, <1>2, <2>1 DEF Applied, Outcome
    <2>2. CASE ~Aborts(s, e)
        BY <1>1, <1>2, <2>2 DEF Applied, Outcome, Written
    <2> QED BY <2>1, <2>2, Zenon
<1> HIDE DEF u
<1>5. \A j \in 1..i : AbortsBelow(u, log[j], j) <=> AbortsBelow(s, log[j], j)
    <2> SUFFICES ASSUME NEW j \in 1..i
                 PROVE  AbortsBelow(u, log[j], j) <=> AbortsBelow(s, log[j], j)
        BY Zenon
    <2>1. \A k \in Key : \A w \in 1..(j - 1) : u[k][w] = s[k][w]
        BY <1>1, <1>3 DEF Index
    <2> QED BY <2>1, DecisionFrame
<1>6. ASSUME NEW j \in 1..i, NEW k \in Key PROVE u[k][j] = Outcome(u, log[j], j, k)
    <2>1. Outcome(u, log[j], j, k) = Outcome(s, log[j], j, k)
        BY <1>5, Zenon DEF Outcome
    <2>2. CASE j = i
        BY <1>4, <2>1, <2>2, Zenon
    <2>3. CASE j # i
        <3>1. j \in 1..n /\ j \in Index
            BY <1>1, <2>3 DEF Index
        <3> QED BY <1>3, <2>1, <2>3, <3>1, Zenon DEF Decided
    <2> QED BY <2>2, <2>3, Zenon
<1>7. ASSUME NEW j \in Index, j > i, NEW k \in Key PROVE u[k][j] = None
    BY <1>1, <1>3, <1>7 DEF Index
<1>8. Decided(u, i)
    BY <1>6, <1>7, Zenon DEF Decided
<1> QED BY <1>8, Zenon DEF u

LEMMA DecidedNext ==
    ASSUME ~SplitsBatches, MaxCrashes = 0 \/ Tombstone \notin Writes,
           TypeOK, DecidedInv, [Next]_vars
    PROVE  DecidedInv'
<1> USE ReplicatedStoreAssumption, ManagedStoreAssumption DEF Index, Timestamp
<1>1. CASE UNCHANGED <<log, store, lastApplied, up, crashes>>
    BY <1>1 DEF DecidedInv, Decided
<1>2. ASSUME NEW t \in Txn, RaftCommit(t) PROVE DecidedInv'
    <2> SUFFICES ASSUME NEW r \in Replica
                 PROVE  \E n \in lastApplied[r]..Len(log') :
                            Decided(store[r], n)' /\ (crashes = 0 => n = lastApplied[r])
        BY <1>2, Zenon DEF RaftCommit, DecidedInv
    <2>1. PICK n \in lastApplied[r]..Len(log) :
              Decided(store[r], n) /\ (crashes = 0 => n = lastApplied[r])
        BY Zenon DEF DecidedInv
    <2>2. n \in Nat /\ n \in lastApplied[r]..Len(log') /\ \A i \in 1..n : log'[i] = log[i]
        BY <1>2, <2>1 DEF RaftCommit, TypeOK
    <2>3. Decided(store[r], n)'
        BY <1>2, <2>1, <2>2, Zenon DEF RaftCommit, Decided
    <2> QED BY <2>1, <2>2, <2>3, Zenon
<1>3. ASSUME NEW q \in Replica, Update(q) PROVE DecidedInv'
    <2> SUFFICES ASSUME NEW r \in Replica
                 PROVE  \E n \in lastApplied'[r]..Len(log) :
                            Decided(store'[r], n) /\ (crashes = 0 => n = lastApplied'[r])
        BY <1>3 DEF Update, DecidedInv, Decided
    <2>1. PICK n \in lastApplied[r]..Len(log) :
              Decided(store[r], n) /\ (crashes = 0 => n = lastApplied[r])
        BY Zenon DEF DecidedInv
    <2>2. CASE r # q
        BY <1>3, <2>1, <2>2, Zenon DEF Update, TypeOK
    <2>3. CASE r = q
        <3> DEFINE i == lastApplied[r] + 1
        <3>1. /\ i \in 1..Len(log) /\ i \in Index /\ lastApplied'[r] = i
              /\ store'[r] = Applied(store[r], log[i], i)
              /\ log[i] \in Entry /\ Len(log) \in 0..MaxTS
              /\ store[r] \in [Key -> [Index -> Writes \cup {None}]]
            BY <1>3, <2>3 DEF Update, TypeOK, Index
        <3>2. CASE n = lastApplied[r]
            <4>1. n \in Nat /\ n + 1 <= MaxTS
                BY <3>1, <3>2 DEF Index, TypeOK
            <4>2. Decided(store'[r], i)
                BY <2>1, <3>1, <3>2, <4>1, NextDecided, Zenon
            <4> QED BY <3>1, <4>2 DEF TypeOK
        <3>3. CASE n # lastApplied[r]
            <4>1. Tombstone \notin Writes
                BY <2>1, <3>3 DEF TypeOK
            <4>2. n \in 0..MaxTS /\ i \in 1..n /\ n \in i..Len(log)
                BY <2>1, <3>1, <3>3 DEF TypeOK
            <4>3. log[i].readTS \in Nat
                BY <3>1 DEF Entry
            <4>4. store'[r] = store[r]
                BY <2>1, <3>1, <4>1, <4>2, <4>3, ReplayIsIdentity, Zenon
            <4> QED BY <2>1, <3>1, <3>3, <4>2, <4>4, Zenon
        <3> QED BY <3>2, <3>3, Zenon
    <2> QED BY <2>2, <2>3, Zenon
<1>4. ASSUME NEW q \in Replica, Crash(q) PROVE DecidedInv'
    <2>1. Tombstone \notin Writes /\ crashes' # 0 /\ UNCHANGED <<log, lastApplied>>
        BY <1>4 DEF Crash, TypeOK
    <2> SUFFICES ASSUME NEW r \in Replica
                 PROVE  \E n \in lastApplied[r]..Len(log) : Decided(store'[r], n)
        BY <2>1 DEF DecidedInv, Decided
    <2>2. PICK n \in lastApplied[r]..Len(log) : Decided(store[r], n)
        BY Zenon DEF DecidedInv
    <2> DEFINE i == lastApplied[q] + 1
    <2>3. PICK W \in SUBSET Key :
              /\ W \notin {{}, Key} => SplitsBatches
              /\ W # {} => i <= Len(log) /\ ~Aborts(store[q], log[i])
              /\ store' = IF W = {} THEN store ELSE [store EXCEPT ![q] = Written(@, log[i], i, W)]
        BY <1>4, Zenon DEF Crash
    <2>4. CASE store'[r] = store[r]
        BY <2>2, <2>4, Zenon
    <2>5. CASE store'[r] # store[r]
        <3>1. r = q /\ W = Key /\ i <= Len(log) /\ ~Aborts(store[r], log[i])
            BY <2>3, <2>5, Zenon DEF TypeOK
        <3>2. store'[r] = Applied(store[r], log[i], i)
            BY <2>3, <2>5, <3>1, Zenon DEF Applied, TypeOK
        <3>3. /\ i \in 1..Len(log) /\ i \in Index /\ log[i] \in Entry /\ Len(log) \in 0..MaxTS
              /\ store[r] \in [Key -> [Index -> Writes \cup {None}]]
            BY <3>1 DEF TypeOK, Index
        <3>4. CASE n = lastApplied[r]
            <4>1. n \in Nat /\ n + 1 <= MaxTS
                BY <3>1, <3>3, <3>4 DEF Index, TypeOK
            <4>2. Decided(store'[r], i)
                <5>1. i = n + 1
                    BY <3>1, <3>4, Zenon
                <5> HIDE DEF i
                <5> QED BY <2>2, <3>2, <3>3, <4>1, <5>1, NextDecided, Zenon
            <4> QED BY <3>1, <3>3, <4>2 DEF TypeOK
        <3>5. CASE n # lastApplied[r]
            <4>1. n \in 0..MaxTS /\ i \in 1..n
                BY <2>2, <3>1, <3>3, <3>5 DEF TypeOK
            <4>2. log[i].readTS \in Nat
                BY <3>3 DEF Entry
            <4> QED BY <2>1, <2>2, <2>5, <3>2, <3>3, <4>1, <4>2, ReplayIsIdentity, Zenon
        <3> QED BY <3>4, <3>5, Zenon
    <2> QED BY <2>4, <2>5, Zenon
<1>5. ASSUME NEW q \in Replica, Restart(q) PROVE DecidedInv'
    <2> SUFFICES ASSUME NEW r \in Replica
                 PROVE  \E n \in lastApplied'[r]..Len(log) :
                            Decided(store[r], n) /\ (crashes = 0 => n = lastApplied'[r])
        <3>1. up' = Replica \/ crashes # 0
            BY <1>5, Zenon DEF Restart, DecidedInv
        <3> QED BY <1>5, <3>1 DEF Restart, DecidedInv, Decided
    <2>1. crashes # 0
        BY <1>5, Zenon DEF Restart, DecidedInv
    <2>2. PICK n \in lastApplied[r]..Len(log) : Decided(store[r], n)
        BY Zenon DEF DecidedInv
    <2>3. n \in lastApplied'[r]..Len(log)
        BY <1>5, <2>2 DEF Restart, ReplayFrom, TypeOK
    <2> QED BY <2>1, <2>2, <2>3, Zenon
<1> QED BY <1>1, <1>2, <1>3, <1>4, <1>5, Zenon DEF Next, Client, vars, Begin, Buffer, Finish,
           ProposeTxn, ProposeTimeout

\* Two stores decided over the same log agree wherever both are decided.
LEMMA DecidedAgree ==
    ASSUME NEW s, NEW u, NEW m \in Nat, NEW n \in Nat, Decided(s, m), Decided(u, n),
           NEW i \in Nat \ {0}, i <= m, i <= n, NEW k \in Key
    PROVE  s[k][i] = u[k][i]
<1> DEFINE Differ == {j \in Nat : j \in 1..i /\ \E q \in Key : s[q][j] # u[q][j]}
<1>1. CASE Differ # {}
    <2>1. Differ \in SUBSET Nat
        BY Zenon
    <2>2. PICK j \in Differ : \A w \in Differ : j <= w
        <3> HIDE DEF Differ
        <3> QED BY <1>1, <2>1, LeastExists, Zenon
    <2>3. j \in Nat /\ j \in 1..m /\ j \in 1..n
        BY <2>2
    <2>4. \A q \in Key : \A w \in 1..(j - 1) : s[q][w] = u[q][w]
        BY <2>2
    <2>5. AbortsBelow(s, log[j], j) <=> AbortsBelow(u, log[j], j)
        BY <2>3, <2>4, DecisionFrame, Zenon
    <2>6. \A q \in Key : s[q][j] = u[q][j]
        BY <2>3, <2>5 DEF Decided, Outcome
    <2> QED BY <2>2, <2>6, Zenon
<1>2. CASE Differ = {}
    BY <1>2
<1> QED BY <1>1, <1>2, Zenon

LEMMA DecidedInit == Init => DecidedInv
BY ReplicatedStoreAssumption, ManagedStoreAssumption DEF Timestamp, Init, DecidedInv, Decided, Index

\* When batches are not split, and replicas never restart or clients never
\* delete, any two replicas hold the same version of every key at every index
\* both have applied, replays included.
THEOREM Convergence ==
    ASSUME ~SplitsBatches, MaxCrashes = 0 \/ Tombstone \notin Writes
    PROVE  Spec => []StoresConverge
<1>1. Spec => [](TypeOK /\ DecidedInv)
    BY DecidedInit, TypeInit, TypeNext, DecidedNext, PTL DEF Spec
<1>2. TypeOK /\ DecidedInv => StoresConverge
    <2> SUFFICES ASSUME TypeOK, DecidedInv, NEW r \in Replica, NEW s \in Replica,
                        NEW i \in 1..Len(log), i <= lastApplied[r], i <= lastApplied[s],
                        NEW k \in Key
                 PROVE  store[r][k][i] = store[s][k][i]
        BY DEF StoresConverge
    <2>1. PICK m \in lastApplied[r]..Len(log) : Decided(store[r], m)
        BY Zenon DEF DecidedInv
    <2>2. PICK n \in lastApplied[s]..Len(log) : Decided(store[s], n)
        BY Zenon DEF DecidedInv
    <2>3. m \in Nat /\ n \in Nat /\ i \in Nat \ {0} /\ i <= m /\ i <= n
        BY <2>1, <2>2 DEF TypeOK
    <2> QED BY <2>1, <2>2, <2>3, DecidedAgree
<1> QED BY <1>1, <1>2, PTL

\* Under the same conditions no replica holds a write over a live value that its
\* transaction had not seen: a decided entry with such a value below it aborted.
THEOREM UpdatesAreNotLost ==
    ASSUME ~SplitsBatches, MaxCrashes = 0 \/ Tombstone \notin Writes
    PROVE  Spec => []NoLostUpdate
<1>1. Spec => [](TypeOK /\ DecidedInv)
    BY DecidedInit, TypeInit, TypeNext, DecidedNext, PTL DEF Spec
<1>2. TypeOK /\ DecidedInv => NoLostUpdate
    <2> SUFFICES ASSUME TypeOK, DecidedInv, NEW r \in Replica, NEW i \in 1..lastApplied[r],
                        NEW k \in Key, store[r][k][i] # None,
                        NEW j \in (log[i].readTS + 1)..(i - 1),
                        \A w \in (j + 1)..(i - 1) : store[r][k][w] = None
                 PROVE  store[r][k][j] \in {None, Tombstone}
        BY Zenon DEF NoLostUpdate
    <2>1. PICK n \in lastApplied[r]..Len(log) : Decided(store[r], n)
        BY Zenon DEF DecidedInv
    <2>2. i \in 1..n /\ i \in 1..Len(log)
        BY <2>1 DEF TypeOK
    <2>3. ~AbortsBelow(store[r], log[i], i) /\ log[i].batch[k] # None
        BY <2>1, <2>2, Zenon DEF Decided, Outcome
    <2>4. log[i].readTS \in Nat
        <3>1. log[i] \in Entry
            BY <2>2 DEF TypeOK
        <3> QED BY <3>1, ManagedStoreAssumption DEF Entry
    <2>5. j \in 1..(i - 1) /\ j > log[i].readTS
        BY <2>2, <2>4
    <2> QED BY <2>3, <2>5, Zenon DEF AbortsBelow
<1> QED BY <1>1, <1>2, PTL

-----------------------------------------------------------------------------
(* What clients are told.                                                  *)

\* A transaction is in the log at most once and only after it was proposed; one that
\* is still waited for is above everything in the store of its replica; and what a
\* client was told is the decision of some store that decided the entry.
ToldTruly(i) ==
    \E s : \E n \in i..Len(log) :
        /\ Decided(s, n)
        /\ phase[log[i].txn] = "conflict" <=> AbortsBelow(s, log[i], i)

AboveStore(i, r) ==
    /\ lastApplied[r] < i
    /\ \A j \in Index : j >= i => \A k \in Key : store[r][k][j] = None

AnswerOf(i) ==
    /\ phase[log[i].txn] \in {"proposed", "unknown", "committed", "conflict"}
    /\ phase[log[i].txn] = "proposed" =>
          \A r \in Replica : home[log[i].txn] = r => AboveStore(i, r)
    /\ phase[log[i].txn] \in {"committed", "conflict"} => ToldTruly(i)

AnswerInv ==
    /\ \A i, j \in 1..Len(log) : log[i].txn = log[j].txn => i = j
    /\ \A i \in 1..Len(log) : AnswerOf(i)

\* A decision for a prefix of the log stays one when the log grows.
LEMMA DecidedGrows ==
    ASSUME NEW t, TypeOK, RaftCommit(t), NEW s, NEW n \in 0..Len(log)
    PROVE  Decided(s, n) => Decided(s, n)'
<1>1. \A i \in 1..n : log'[i] = log[i]
    BY DEF RaftCommit, TypeOK
<1> QED BY <1>1, Zenon DEF Decided

LEMMA AnswerRaftCommit ==
    ASSUME TypeOK, DecidedInv, AnswerInv, NEW t \in Txn, RaftCommit(t)
    PROVE  AnswerInv'
<1>0. PICK l : l = Len(log) + 1
    BY Zenon
<1>1. /\ Len(log) \in Nat /\ l \in Nat /\ l > Len(log) /\ Len(log') = l /\ 1..Len(log') = 1..Len(log) \cup {l}
      /\ \A i \in 1..Len(log) : log'[i] = log[i]
      /\ log'[l].txn = t
      /\ \A i \in 1..Len(log) : log[i].txn # t
      /\ UNCHANGED <<store, lastApplied, phase, home>>
    BY <1>0 DEF RaftCommit, TypeOK
<1>2. phase[t] \in {"proposed", "unknown"}
    BY Zenon DEF RaftCommit
<1>3. ASSUME NEW r \in Replica PROVE AboveStore(l, r)'
    <2>1. PICK n \in lastApplied[r]..Len(log) : Decided(store[r], n)
        BY Zenon DEF DecidedInv
    <2>2. n \in Nat /\ lastApplied[r] \in Nat /\ lastApplied[r] <= n /\ n < l
        BY <1>1, <2>1, ManagedStoreAssumption DEF TypeOK
    <2>3. \A j \in Index : j >= l => j > n
        BY <1>1, <2>2, ManagedStoreAssumption DEF Index, Timestamp
    <2> QED BY <1>1, <2>1, <2>2, <2>3 DEF Decided, AboveStore
<1>4. (\A i, j \in 1..Len(log) : log[i].txn = log[j].txn => i = j)'
    BY <1>1, Zenon DEF AnswerInv
<1>5. ASSUME NEW i \in 1..Len(log), ToldTruly(i) PROVE ToldTruly(i)'
    <2>1. PICK s : \E n \in i..Len(log) :
              /\ Decided(s, n)
              /\ phase[log[i].txn] = "conflict" <=> AbortsBelow(s, log[i], i)
        BY <1>5, Zenon DEF ToldTruly
    <2>2. PICK n \in i..Len(log) :
              /\ Decided(s, n)
              /\ phase[log[i].txn] = "conflict" <=> AbortsBelow(s, log[i], i)
        BY <2>1, Zenon
    <2>3. n \in 0..Len(log) /\ n \in i..Len(log')
        BY <1>1
    <2>4. Decided(s, n)'
        BY <2>2, <2>3, DecidedGrows, Zenon
    <2>5. (phase[log[i].txn] = "conflict" <=> AbortsBelow(s, log[i], i))'
        BY <1>1, <2>2, Zenon DEF AbortsBelow
    <2> QED BY <2>3, <2>4, <2>5, Zenon DEF ToldTruly
<1>6. ASSUME NEW i \in 1..Len(log') PROVE AnswerOf(i)'
    <2>1. CASE i = l
        BY <1>1, <1>2, <1>3, <2>1, Zenon DEF AnswerOf
    <2>2. CASE i \in 1..Len(log)
        BY <1>1, <1>5, <2>2 DEF AnswerInv, AnswerOf, AboveStore
    <2> QED BY <1>1, <2>1, <2>2, Zenon
<1> QED BY <1>4, <1>6, Zenon DEF AnswerInv

LEMMA EntryTxn == ASSUME TypeOK, NEW i \in 1..Len(log) PROVE log[i].txn \in Txn
<1>1. log[i] \in Entry
    BY DEF TypeOK
<1> QED BY <1>1, Zenon DEF Entry

LEMMA AnswerUpdate ==
    ASSUME TypeOK, DecidedInv', AnswerInv, NEW q \in Replica, Update(q)
    PROVE  AnswerInv'
<1>0. PICK a, e : a = lastApplied[q] + 1 /\ e = log[a]
    BY Zenon
<1>a. \A i \in 1..Len(log) : log[i].txn \in Txn
    BY EntryTxn, Zenon
<1>1. /\ a \in 1..Len(log) /\ a \in Index /\ Len(log) \in Nat /\ log' = log /\ home' = home
      /\ lastApplied' = [lastApplied EXCEPT ![q] = a] /\ e = log[a]
      /\ store' = [store EXCEPT ![q] = Applied(@, e, a)]
      /\ \A t \in Txn : phase'[t] = Answered(t, q, a)
    BY <1>0, ManagedStoreAssumption DEF Update, TypeOK, Index, Timestamp
<1>2. \A k \in Key : \A j \in Index : j # a => store'[q][k][j] = store[q][k][j]
    BY <1>1, Zenon DEF Applied, Written, TypeOK
<1>3. \A r \in Replica : r # q => store'[r] = store[r] /\ lastApplied'[r] = lastApplied[r]
    BY <1>1, Zenon DEF TypeOK
<1>4. \A i \in 1..Len(log) : i # a => phase'[log[i].txn] = phase[log[i].txn]
    BY <1>a, <1>1, Zenon DEF Answered, AnswerInv
<1>5. ASSUME NEW i \in 1..Len(log), i # a PROVE AnswerOf(i)'
    <2>1. ToldTruly(i) => ToldTruly(i)'
        BY <1>1, <1>4, <1>5, Zenon DEF ToldTruly, Decided
    <2>2. ASSUME NEW r \in Replica, AboveStore(i, r) PROVE AboveStore(i, r)'
        <3>1. CASE r # q
            BY <1>3, <2>2, <3>1, Zenon DEF AboveStore
        <3>2. CASE r = q
            <4>1. a < i /\ lastApplied'[r] = a
                BY <1>0, <1>1, <1>5, <2>2, <3>2 DEF AboveStore, TypeOK
            <4>2. \A j \in Index : j >= i => j # a
                BY <1>1, <4>1 DEF Index, Timestamp
            <4> QED BY <1>2, <2>2, <3>2, <4>1, <4>2, Zenon DEF AboveStore
        <3> QED BY <3>1, <3>2, Zenon
    <2> QED BY <1>1, <1>4, <1>5, <2>1, <2>2, Zenon DEF AnswerInv, AnswerOf
<1>6. AnswerOf(a)'
    <2>1. CASE phase[e.txn] = "proposed" /\ home[e.txn] = q
        <3>1. phase'[e.txn] = IF Aborts(store[q], e) THEN "conflict" ELSE "committed"
            BY <1>a, <1>1, <2>1, Zenon DEF Answered
        <3>2. AboveStore(a, q)
            BY <1>1, <2>1, Zenon DEF AnswerInv, AnswerOf
        <3>3. Aborts(store[q], e) <=> AbortsBelow(store[q], e, a)
            <4>1. \A j \in Index : j >= a => \A k \in Key : store[q][k][j] = None
                BY <3>2, Zenon DEF AboveStore
            <4> QED BY <1>1, <4>1, FreshDecision, Zenon
        <3>4. AbortsBelow(store[q], e, a) <=> AbortsBelow(store'[q], e, a)
            <4>1. \A k \in Key : \A j \in 1..(a - 1) : store[q][k][j] = store'[q][k][j]
                BY <1>1, <1>2, ManagedStoreAssumption DEF Index, Timestamp
            <4>2. a \in Nat
                BY <1>1
            <4> QED BY <4>1, <4>2, DecisionFrame, Zenon
        <3>5. PICK n \in a..Len(log) : Decided(store[q], n)'
            BY <1>1, Zenon DEF DecidedInv, TypeOK
        <3>6. ToldTruly(a)'
            BY <1>1, <3>1, <3>3, <3>4, <3>5, Zenon DEF ToldTruly
        <3> QED BY <1>1, <3>1, <3>6, Zenon DEF AnswerOf
    <2>2. CASE ~(phase[e.txn] = "proposed" /\ home[e.txn] = q)
        <3>1. phase'[e.txn] = phase[e.txn]
            BY <1>a, <1>1, <2>2, Zenon DEF Answered
        <3>2. ToldTruly(a) => ToldTruly(a)'
            BY <1>1, <3>1, Zenon DEF ToldTruly, Decided
        <3>3. \A r \in Replica : r # q => (AboveStore(a, r) => AboveStore(a, r)')
            BY <1>3, Zenon DEF AboveStore
        <3> QED BY <1>1, <2>2, <3>1, <3>2, <3>3, Zenon DEF AnswerInv, AnswerOf
    <2> QED BY <2>1, <2>2, Zenon
<1> QED BY <1>1, <1>5, <1>6, Zenon DEF AnswerInv

LEMMA AnswerNext ==
    ASSUME TypeOK, DecidedInv, DecidedInv', AnswerInv, [Next]_vars
    PROVE  AnswerInv'
<1>1. CASE UNCHANGED vars
    <2>1. log' = log /\ store' = store /\ lastApplied' = lastApplied /\ phase' = phase /\ home' = home
        BY <1>1, Zenon DEF vars
    <2>2. \A i : ToldTruly(i) => ToldTruly(i)'
        BY <2>1, Zenon DEF ToldTruly, Decided
    <2>3. \A i, r : AboveStore(i, r) => AboveStore(i, r)'
        BY <2>1, Zenon DEF AboveStore
    <2> QED BY <2>1, <2>2, <2>3, Zenon DEF AnswerInv, AnswerOf
<1>2. ASSUME NEW t \in Txn, Client(t) PROVE AnswerInv'
    <2>1. UNCHANGED <<log, store, lastApplied>>
        BY <1>2, Zenon DEF Client, Begin, Buffer, Finish, ProposeTxn, ProposeTimeout
    <2>2. ASSUME NEW i \in 1..Len(log) PROVE AnswerOf(i)'
        <3> DEFINE u == log[i].txn
        <3>1. u \in Txn
            BY EntryTxn, Zenon
        <3>2. \/ phase'[u] = phase[u] /\ home'[u] = home[u]
              \/ phase'[u] = "unknown"
            <4>1. phase[u] \in {"proposed", "unknown", "committed", "conflict"}
                BY Zenon DEF AnswerInv, AnswerOf
            <4>2. phase \in [Txn -> Phase] /\ home \in [Txn -> Replica \cup {Nobody}]
                BY Zenon DEF TypeOK
            <4>3. CASE u # t
                BY <1>2, <3>1, <4>2, <4>3, Zenon
                   DEF Client, Begin, Buffer, Finish, ProposeTxn, ProposeTimeout
            <4>4. CASE u = t
                <5>1. phase[t] # "idle" /\ phase[t] # "open"
                    BY <4>1, <4>4, Zenon
                <5>2. ProposeTimeout(t)
                    BY <1>2, <5>1, Zenon DEF Client, Begin, Buffer, Finish, ProposeTxn
                <5> QED BY <4>2, <4>4, <5>2, Zenon DEF ProposeTimeout
            <4> QED BY <4>3, <4>4, Zenon
        <3>3. phase'[u] = phase[u] => (ToldTruly(i) => ToldTruly(i)')
            BY <2>1, Zenon DEF ToldTruly, Decided
        <3>4. \A r \in Replica : AboveStore(i, r) => AboveStore(i, r)'
            BY <2>1, Zenon DEF AboveStore
        <3> QED BY <2>1, <3>2, <3>3, <3>4, Zenon DEF AnswerInv, AnswerOf
    <2> QED BY <2>1, <2>2, Zenon DEF AnswerInv
<1>3. ASSUME NEW q \in Replica, Crash(q) PROVE AnswerInv'
    <2>1. /\ UNCHANGED <<log, lastApplied, home>>
          /\ \A r \in Replica : r # q => store'[r] = store[r]
          /\ \A t \in Txn : phase'[t] = IF home[t] = q /\ phase[t] = "open" THEN "lost"
                                        ELSE IF home[t] = q /\ phase[t] = "proposed" THEN "unknown"
                                        ELSE phase[t]
        BY <1>3, Zenon DEF Crash, TypeOK
    <2>2. ASSUME NEW i \in 1..Len(log) PROVE AnswerOf(i)'
        <3>1. log[i].txn \in Txn
            BY EntryTxn, Zenon
        <3>2. phase'[log[i].txn] = phase[log[i].txn] => (ToldTruly(i) => ToldTruly(i)')
            BY <2>1 DEF ToldTruly, Decided
        <3>3. \A r \in Replica : r # q => (AboveStore(i, r) => AboveStore(i, r)')
            BY <2>1, Zenon DEF AboveStore
        <3> QED BY <2>1, <3>1, <3>2, <3>3, Zenon DEF AnswerInv, AnswerOf
    <2> QED BY <2>1, <2>2, Zenon DEF AnswerInv
<1>4. ASSUME NEW q \in Replica, Restart(q) PROVE AnswerInv'
    <2>1. UNCHANGED <<log, store, phase, home>>
        BY <1>4, Zenon DEF Restart
    <2>2. ASSUME NEW i \in 1..Len(log), NEW r \in Replica, AboveStore(i, r)
          PROVE  AboveStore(i, r)'
        <3>1. lastApplied'[r] \in {0, lastApplied[r]}
            BY <1>4, Zenon DEF Restart, ReplayFrom, TypeOK
        <3> QED BY <2>1, <2>2, <3>1 DEF AboveStore
    <2>3. \A i \in 1..Len(log) : ToldTruly(i) => ToldTruly(i)'
        BY <2>1, Zenon DEF ToldTruly, Decided
    <2> QED BY <2>1, <2>2, <2>3, Zenon DEF AnswerInv, AnswerOf
<1> QED BY <1>1, <1>2, <1>3, <1>4, AnswerRaftCommit, AnswerUpdate, Zenon DEF Next

\* Under the same conditions what a client was told is what every replica that has
\* applied the entry did, whichever replica answered and however often others replay.
THEOREM AnswersHold ==
    ASSUME ~SplitsBatches, MaxCrashes = 0 \/ Tombstone \notin Writes
    PROVE  Spec => []AnswersAreTrue
<1>1. Init => AnswerInv
    BY DEF Init, AnswerInv
<1>2. Spec => [](TypeOK /\ DecidedInv /\ AnswerInv)
    <2>1. TypeOK /\ DecidedInv /\ AnswerInv /\ [Next]_vars => (TypeOK /\ DecidedInv /\ AnswerInv)'
        BY TypeNext, DecidedNext, AnswerNext, Zenon
    <2> QED BY <1>1, <2>1, DecidedInit, TypeInit, PTL DEF Spec
<1>3. TypeOK /\ DecidedInv /\ AnswerInv => AnswersAreTrue
    <2> SUFFICES ASSUME TypeOK, DecidedInv, AnswerInv, NEW i \in 1..Len(log), NEW r \in Replica,
                        i <= lastApplied[r], phase[log[i].txn] \in {"committed", "conflict"},
                        NEW k \in Key
                 PROVE  store[r][k][i] = IF phase[log[i].txn] = "conflict" THEN None
                                         ELSE log[i].batch[k]
        BY DEF AnswersAreTrue
    <2>1. PICK m \in lastApplied[r]..Len(log) : Decided(store[r], m)
        BY Zenon DEF DecidedInv
    <2>2. ToldTruly(i)
        BY Zenon DEF AnswerInv, AnswerOf
    <2>3. PICK s : \E n \in i..Len(log) :
              /\ Decided(s, n)
              /\ phase[log[i].txn] = "conflict" <=> AbortsBelow(s, log[i], i)
        BY <2>2, Zenon DEF ToldTruly
    <2>4. PICK n \in i..Len(log) :
              /\ Decided(s, n)
              /\ phase[log[i].txn] = "conflict" <=> AbortsBelow(s, log[i], i)
        BY <2>3, Zenon
    <2>5. /\ m \in Nat /\ n \in Nat /\ i \in Nat \ {0} /\ i <= m /\ i <= n /\ i \in 1..n
        BY <2>1, <2>4, ManagedStoreAssumption DEF TypeOK
    <2>6. store[r][k][i] = s[k][i]
        BY <2>1, <2>4, <2>5, DecidedAgree
    <2> QED BY <2>4, <2>5, <2>6, Zenon DEF Decided, Outcome
<1> QED BY <1>2, <1>3, PTL

-----------------------------------------------------------------------------
(* Snapshots.                                                              *)

\* An open transaction runs on a running replica that has applied its snapshot.
SnapshotInv ==
    \A t \in Txn : phase[t] = "open" =>
        home[t] \in up /\ readTS[t] <= lastApplied[home[t]]

\* A snapshot does not move under its reader, through applies, replays and crashes, also
\* when batches are split and clients delete.
THEOREM SnapshotsAreStable == Spec => SnapshotIsStable
<1>1. Init => SnapshotInv
    BY Zenon DEF Init, SnapshotInv
<1>2. TypeOK /\ SnapshotInv /\ [Next]_vars => SnapshotInv'
    <2> SUFFICES ASSUME TypeOK, SnapshotInv, [Next]_vars, NEW t \in Txn, phase'[t] = "open"
                 PROVE  home'[t] \in up' /\ readTS'[t] <= lastApplied'[home'[t]]
        BY Zenon DEF SnapshotInv
    <2>1. CASE UNCHANGED vars
        BY <2>1, Zenon DEF vars, SnapshotInv
    <2>2. ASSUME NEW u \in Txn, Client(u) \/ RaftCommit(u)
          PROVE  home'[t] \in up' /\ readTS'[t] <= lastApplied'[home'[t]]
        <3>1. ASSUME NEW r \in Replica, Begin(u, r), t = u
              PROVE  home'[t] = r /\ readTS'[t] = lastApplied[r] /\ r \in up
            BY <3>1, Zenon DEF Begin, ReadTimestamp, TypeOK
        <3>2. ASSUME NEW r \in Replica, Begin(u, r), t # u
              PROVE  home'[t] = home[t] /\ readTS'[t] = readTS[t] /\ phase[t] = "open"
            BY <3>2, Zenon DEF Begin, TypeOK
        <3>3. ASSUME NEW r \in Replica, Begin(u, r) PROVE UNCHANGED <<lastApplied, up>>
            BY <3>3, Zenon DEF Begin
        <3>4. ASSUME ~\E r \in Replica : Begin(u, r)
              PROVE  UNCHANGED <<lastApplied, up, home, readTS>> /\ phase[t] = "open"
            BY <2>2, <3>4, Zenon DEF Client, Buffer, Finish, ProposeTxn, ProposeTimeout, RaftCommit, TypeOK
        <3>5. \A r \in Replica : lastApplied[r] <= lastApplied[r]
            BY ManagedStoreAssumption DEF TypeOK
        <3> QED BY <3>1, <3>2, <3>3, <3>4, <3>5, Zenon DEF SnapshotInv
    <2>3. ASSUME NEW q \in Replica, Update(q)
          PROVE  home'[t] \in up' /\ readTS'[t] <= lastApplied'[home'[t]]
        BY <2>3, ManagedStoreAssumption DEF Update, Answered, SnapshotInv, TypeOK
    <2>4. ASSUME NEW q \in Replica, Crash(q)
          PROVE  home'[t] \in up' /\ readTS'[t] <= lastApplied'[home'[t]]
        <3>1. phase[t] = "open" /\ home[t] # q
            BY <2>4, Zenon DEF Crash
        <3>2. home[t] \in up /\ readTS[t] <= lastApplied[home[t]]
            BY <3>1, Zenon DEF SnapshotInv
        <3> QED BY <2>4, <3>1, <3>2, Zenon DEF Crash
    <2>5. ASSUME NEW q \in Replica, Restart(q)
          PROVE  home'[t] \in up' /\ readTS'[t] <= lastApplied'[home'[t]]
        BY <2>5, Zenon DEF Restart, SnapshotInv, TypeOK
    <2> QED BY <2>1, <2>2, <2>3, <2>4, <2>5, Zenon DEF Next
<1>3. TypeOK /\ SnapshotInv /\ [Next]_vars =>
          [\A t \in Txn : phase[t] = "open" /\ phase'[t] = "open" =>
              \A k \in Key : \A i \in 1..readTS[t] :
                  store'[home[t]][k][i] = store[home[t]][k][i]]_vars
    <2> SUFFICES ASSUME TypeOK, SnapshotInv, Next, NEW t \in Txn, phase[t] = "open",
                        phase'[t] = "open", NEW k \in Key, NEW i \in 1..readTS[t]
                 PROVE  store'[home[t]][k][i] = store[home[t]][k][i]
        BY Zenon DEF vars
    <2>1. ASSUME NEW u \in Txn, Client(u) \/ RaftCommit(u) PROVE store' = store
        BY <2>1, Zenon DEF Client, Begin, Buffer, Finish, ProposeTxn, ProposeTimeout, RaftCommit
    <2>2. ASSUME NEW q \in Replica, Update(q) PROVE store'[home[t]][k][i] = store[home[t]][k][i]
        <3>1. i # lastApplied[q] + 1 \/ home[t] # q
            BY ManagedStoreAssumption DEF SnapshotInv, TypeOK
        <3>2. i \in Index
            BY ManagedStoreAssumption DEF TypeOK, Index, Timestamp
        <3>3. home[t] \in Replica /\ store \in [Replica -> [Key -> [Index -> Writes \cup {None}]]]
            BY Zenon DEF SnapshotInv, TypeOK
        <3>4. PICK n : n = lastApplied[q] + 1 /\ store' = [store EXCEPT ![q] = Applied(@, log[n], n)]
            BY <2>2, Zenon DEF Update
        <3>5. i # n => Applied(store[q], log[n], n)[k][i] = store[q][k][i]
            BY <3>2, Zenon DEF Applied, Written
        <3> QED BY <3>1, <3>3, <3>4, <3>5, Zenon
    <2>3. ASSUME NEW q \in Replica, Crash(q) PROVE store'[home[t]] = store[home[t]]
        <3>1. home[t] # q
            BY <2>3, Zenon DEF Crash, TypeOK
        <3> QED BY <2>3, <3>1 DEF Crash, TypeOK
    <2>4. ASSUME NEW q \in Replica, Restart(q) PROVE store' = store
        BY <2>4, Zenon DEF Restart
    <2> QED BY <2>1, <2>2, <2>3, <2>4, Zenon DEF Next
<1> QED BY <1>1, <1>2, <1>3, TypeInit, TypeNext, PTL DEF Spec, SnapshotIsStable
=============================================================================
