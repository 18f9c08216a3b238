-------------------------- MODULE TxnEngineProofs --------------------------
(***************************************************************************)
(* Proofs about TxnEngine for every set of transactions, keys and values   *)
(* and every bound.  The inductive invariant grows in layers: the types;   *)
(* what the lock and the clock guarantee (OracleInv) and what an           *)
(* acknowledged commit leaves in the store (DurableInv), both whatever the *)
(* batch size; and what the store holds when every batch fits one store    *)
(* transaction (StoreInv), from which the refinement follows.              *)
(***************************************************************************)
EXTENDS TxnEngine, WellFoundedInduction, TLAPS

LEMMA Assumptions ==
    /\ MaxTS \in Nat \ {0}
    /\ MaxMutations \in Nat
    /\ MaxBatch \in Nat \ {0}
    /\ Tombstone \notin Value
    /\ None \notin Value \cup {Tombstone}
    /\ NoTxn \notin Txn
BY TxnEngineAssumption, ManagedStoreAssumption, Zenon

-----------------------------------------------------------------------------
(* The newest mutation of a key.                                           *)

\* A non-empty set of positions up to n has a greatest one.
LEMMA GreatestExists ==
    ASSUME NEW n \in Nat, NEW S \in SUBSET (1..n), S # {}
    PROVE  \E m \in S : \A j \in S : j <= m
<1> DEFINE T == {x \in Nat : n - x \in S}
<1>1. T \subseteq Nat /\ T # {}
    <2>1. PICK s \in S : TRUE
        BY Zenon
    <2>2. n - s \in Nat /\ n - (n - s) = s
        BY <2>1
    <2> QED BY <2>1, <2>2, Zenon
<1>2. PICK x \in T : \A y \in T : ~(<<y, x>> \in OpToRel(<, Nat))
    <2> HIDE DEF T
    <2> QED BY <1>1, NatLessThanWellFounded, WFMin, Zenon
<1>3. \A y \in T : ~(y < x)
    BY <1>1, <1>2, Zenon DEF OpToRel
<1>4. ASSUME NEW j \in S PROVE j <= n - x
    <2>1. n - j \in T
        BY <1>4
    <2>2. ~(n - j < x)
        BY <1>3, <2>1, Zenon
    <2> QED BY <1>4, <2>2
<1> QED BY <1>4, Zenon

\* A key among the first n mutations has a newest one there.
LEMMA LastIsFound ==
    ASSUME NEW n \in Nat, NEW muts, NEW k, \E i \in 1..n : muts[i].key = k
    PROVE  (CHOOSE i \in 1..n : IsLast(muts, k, i, n)) \in 1..n
<1> DEFINE S == {i \in 1..n : muts[i].key = k}
<1>1. S \in SUBSET (1..n) /\ S # {}
    BY Zenon
<1>2. PICK m \in S : \A j \in S : j <= m
    <2> HIDE DEF S
    <2> QED BY <1>1, GreatestExists, Zenon
<1>3. m \in 1..n /\ IsLast(muts, k, m, n)
    BY <1>2 DEF IsLast
<1> QED BY <1>3, Zenon

\* LastWrite yields a written value exactly for the keys the mutations touch:
\* the newest-first scan of Get and the in-order batch agree on a version.
LEMMA LastWriteValue ==
    ASSUME NEW muts \in Seq(Mutation), NEW n \in 0..Len(muts), NEW k
    PROVE  /\ (\E i \in 1..n : muts[i].key = k) => LastWrite(muts, k, n) \in Written
           /\ ~(\E i \in 1..n : muts[i].key = k) => LastWrite(muts, k, n) = None
<1>1. CASE \E i \in 1..n : muts[i].key = k
    <2>1. n \in Nat
        OBVIOUS
    <2>2. (CHOOSE i \in 1..n : IsLast(muts, k, i, n)) \in 1..n
        BY <1>1, <2>1, LastIsFound, Zenon
    <2>3. \A i \in 1..n : muts[i] \in Mutation
        OBVIOUS
    <2> QED BY <1>1, <2>2, <2>3, Zenon DEF LastWrite, Mutation
<1>2. CASE ~\E i \in 1..n : muts[i].key = k
    BY <1>2, Zenon DEF LastWrite
<1> QED BY <1>1, <1>2, Zenon

\* The effect of a whole buffer is a write on the keys of its write set and
\* nothing elsewhere.
LEMMA EffectValue ==
    ASSUME NEW muts \in Seq(Mutation), NEW k
    PROVE  /\ k \in WriteSet(muts) => Effect(muts, k) \in Written /\ Effect(muts, k) # None
           /\ k \notin WriteSet(muts) => Effect(muts, k) = None
<1>1. DOMAIN muts = 1..Len(muts) /\ Len(muts) \in 0..Len(muts)
    OBVIOUS
<1>2. k \in WriteSet(muts) <=> \E i \in 1..Len(muts) : muts[i].key = k
    BY <1>1, Zenon DEF WriteSet
<1>3. None \notin Written
    BY Assumptions, Zenon DEF Written
<1> QED BY <1>1, <1>2, <1>3, LastWriteValue DEF Effect

\* Set and Delete add to the buffer: the new mutation decides its own key and no
\* other.
LEMMA EffectOfAppend ==
    ASSUME NEW muts \in Seq(Mutation), NEW m \in Mutation, NEW k
    PROVE  Effect(Append(muts, m), k) = IF k = m.key THEN m.val ELSE Effect(muts, k)
<1> DEFINE longer == Append(muts, m)
           n == Len(muts)
<1>1. /\ n \in Nat /\ Len(longer) = n + 1 /\ longer[n + 1] = m
      /\ \A i \in 1..n : longer[i] = muts[i]
    OBVIOUS
<1> HIDE DEF longer, n
<1>2. \A i \in 1..(n + 1) : i \in 1..n \/ i = n + 1
    BY <1>1
<1>3. CASE k = m.key
    <2>1. n + 1 \in 1..(n + 1) /\ IsLast(longer, k, n + 1, n + 1)
        BY <1>1, <1>3 DEF IsLast
    <2>2. \A i \in 1..(n + 1) : IsLast(longer, k, i, n + 1) => i = n + 1
        BY <1>1, <1>2, <1>3 DEF IsLast
    <2>3. (CHOOSE i \in 1..(n + 1) : IsLast(longer, k, i, n + 1)) = n + 1
        BY <2>1, <2>2, Zenon
    <2>4. LastWrite(longer, k, n + 1) = m.val
        BY <1>1, <1>3, <2>1, <2>3, Zenon DEF LastWrite
    <2> QED BY <1>1, <1>3, <2>4, Zenon DEF Effect, longer
<1>4. CASE k # m.key
    <2>1. \A i : i \in 1..(n + 1) /\ IsLast(longer, k, i, n + 1)
                 <=> i \in 1..n /\ IsLast(muts, k, i, n)
        BY <1>1, <1>4 DEF IsLast
    <2>2. (CHOOSE i \in 1..(n + 1) : IsLast(longer, k, i, n + 1))
          = (CHOOSE i \in 1..n : IsLast(muts, k, i, n))
        BY <2>1, Zenon
    <2>3. (\E i \in 1..(n + 1) : longer[i].key = k) <=> (\E i \in 1..n : muts[i].key = k)
        BY <1>1, <1>4
    <2>4. CASE \E i \in 1..n : muts[i].key = k
        <3>1. (CHOOSE i \in 1..n : IsLast(muts, k, i, n)) \in 1..n
            BY <1>1, <2>4, LastIsFound, Zenon
        <3>2. longer[CHOOSE i \in 1..n : IsLast(muts, k, i, n)]
              = muts[CHOOSE i \in 1..n : IsLast(muts, k, i, n)]
            BY <1>1, <3>1, Zenon
        <3>3. LastWrite(longer, k, n + 1)
              = longer[CHOOSE i \in 1..(n + 1) : IsLast(longer, k, i, n + 1)].val
            BY <2>3, <2>4, Zenon DEF LastWrite
        <3>4. LastWrite(muts, k, n) = muts[CHOOSE i \in 1..n : IsLast(muts, k, i, n)].val
            BY <2>4, Zenon DEF LastWrite
        <3>5. LastWrite(longer, k, n + 1) = LastWrite(muts, k, n)
            BY <2>2, <3>2, <3>3, <3>4, Zenon
        <3> QED BY <1>1, <1>4, <3>5, Zenon DEF Effect, longer, n
    <2>5. CASE ~\E i \in 1..n : muts[i].key = k
        <3>1. LastWrite(longer, k, n + 1) = None /\ LastWrite(muts, k, n) = None
            BY <2>3, <2>5, Zenon DEF LastWrite
        <3> QED BY <1>1, <1>4, <3>1, Zenon DEF Effect, longer, n
    <2> QED BY <2>4, <2>5, Zenon
<1> QED BY <1>3, <1>4, Zenon

-----------------------------------------------------------------------------
(* Types, the lock and the oracle.                                         *)

\* What holds whatever the batch size: nothing is flushed before the lock is
\* held, every snapshot is at or below the clock, and the one flushing
\* transaction holds the lock and has reserved the timestamp after the clock.
OracleInv ==
    /\ \A t \in Txn : phase[t] \in Open \cup {"idle"} => flushed[t] = 0
    /\ \A t \in Txn : phase[t] \in Open \cup {"flushing"} => up /\ readTS[t] \in 1..clock
    /\ \A t \in Txn : phase[t] \in {"waiting", "flushing"} => mutations[t] # <<>>
    /\ \A t \in Txn : phase[t] = "flushing" => commitMu = t /\ commitTS[t] = clock + 1

TypeInv == TypeOK /\ OracleInv

LEMMA TypeInit == Init => TypeInv
BY Assumptions
   DEF Init, TypeInv, OracleInv, TypeOK, Timestamp, Written, Phase, Open, Finished, Mutation

LEMMA TypeNext == TypeInv /\ [Next]_vars => TypeInv'
<1> SUFFICES ASSUME TypeInv, [Next]_vars PROVE TypeInv'
    BY Zenon
<1> USE Assumptions DEF TypeInv
<1>1. ASSUME NEW t \in Txn, Begin(t) PROVE TypeInv'
    BY <1>1 DEF Begin, ReadSnapshot, TypeOK, OracleInv, Timestamp, Phase, Open
<1>2. ASSUME NEW t \in Txn, NEW m \in Mutation, Buffer(t, m) PROVE TypeInv'
    <2>1. mutations' \in [Txn -> Seq(Mutation)]
        BY <1>2 DEF Buffer, TypeOK
    <2>2. \A u \in Txn : flushed'[u] <= Len(mutations'[u]) /\ Len(mutations'[u]) <= MaxMutations
        BY <1>2 DEF Buffer, TypeOK
    <2>3. TypeOK'
        BY <1>2, <2>1, <2>2, Zenon DEF Buffer, TypeOK
    <2>4. OracleInv'
        BY <1>2, Zenon DEF Buffer, TypeOK, OracleInv, Open
    <2> QED BY <2>3, <2>4, Zenon
<1>3. ASSUME NEW t \in Txn, Rollback(t) PROVE TypeInv'
    <2>1. flushed[t] = 0
        BY <1>3, Zenon DEF Rollback, OracleInv, Open
    <2> QED BY <1>3, <2>1 DEF Rollback, TypeOK, OracleInv, Phase, Finished, Open
<1>4. ASSUME NEW t \in Txn, CommitEmpty(t) PROVE TypeInv'
    BY <1>4, Zenon DEF CommitEmpty, TypeOK, OracleInv, Phase, Finished, Open
<1>5. ASSUME NEW t \in Txn, CommitCall(t) PROVE TypeInv'
    BY <1>5, Zenon DEF CommitCall, TypeOK, OracleInv, Phase, Open
<1>6. ASSUME NEW t \in Txn, CommitReadError(t) PROVE TypeInv'
    BY <1>6, Zenon DEF CommitReadError, TypeOK, OracleInv, Phase, Open
<1>7. ASSUME NEW t \in Txn, CommitConflict(t) PROVE TypeInv'
    BY <1>7, Zenon DEF CommitConflict, TypeOK, OracleInv, Phase, Finished, Open
<1>8. ASSUME NEW t \in Txn, CommitReserve(t) PROVE TypeInv'
    <2>1. \A u \in Txn : phase[u] # "flushing"
        BY <1>8, Zenon DEF CommitReserve, LockFree, OracleInv
    <2>2. clock + 1 \in 0..MaxTS
        BY <1>8 DEF CommitReserve, TypeOK, Timestamp
    <2>3. TypeOK'
        BY <1>8, <2>2, SMTT(20) DEF CommitReserve, NextTS, TypeOK, Phase
    <2>4. OracleInv'
        BY <1>8, <2>1, Zenon DEF CommitReserve, NextTS, TypeOK, OracleInv, Open
    <2> QED BY <2>3, <2>4, Zenon
<1>9. ASSUME NEW t \in Txn, FlushChunk(t) PROVE TypeInv'
    <2>1. NextChunk(t) \in 0..Len(mutations[t])
        BY DEF NextChunk, TypeOK
    <2>2. \A k \in Key : LastWrite(mutations[t], k, NextChunk(t)) \in Written \cup {None}
        BY <2>1, LastWriteValue, Zenon DEF TypeOK
    <2>3. store' \in [Key -> [Timestamp -> Written \cup {None}]]
        BY <1>9, <2>2, Zenon DEF FlushChunk, TypeOK
    <2>4. TypeOK'
        BY <1>9, <2>1, <2>3, SMTT(20) DEF FlushChunk, TypeOK
    <2>5. OracleInv'
        BY <1>9, Zenon DEF FlushChunk, OracleInv, TypeOK, Open
    <2> QED BY <2>4, <2>5, Zenon
<1>10. ASSUME NEW t \in Txn, FlushFail(t) PROVE TypeInv'
    BY <1>10, Zenon DEF FlushFail, TypeOK, OracleInv, Phase, Finished, Open
<1>11. ASSUME NEW t \in Txn, Publish(t) PROVE TypeInv'
    <2>1. clock' = clock + 1 /\ clock' \in Timestamp
        BY <1>11 DEF Publish, TypeOK, OracleInv, Timestamp
    <2>2. \A u \in Txn \ {t} : phase[u] # "flushing"
        BY <1>11, Zenon DEF Publish, OracleInv
    <2>3. TypeOK'
        BY <1>11, <2>1, Zenon DEF Publish, TypeOK, Phase, Finished
    <2>4. OracleInv'
        BY <1>11, <2>1, <2>2 DEF Publish, TypeOK, OracleInv, Timestamp, Open
    <2> QED BY <2>3, <2>4, Zenon
<1>12. CASE Crash
    BY <1>12, Zenon DEF Crash, TypeOK, OracleInv, Phase, Finished, Open
<1>13. CASE Restart
    <2>1. \A u \in Txn : phase[u] \notin Open \cup {"flushing"}
        BY <1>13, Zenon DEF Restart, OracleInv
    <2>2. \A u \in Txn : phase'[u] \notin Open \cup {"flushing"}
        BY <1>13, <2>1, Zenon DEF Restart, TypeOK, Phase, Finished, Open
    <2>3. TypeOK'
        BY <1>13, Zenon DEF Restart, TypeOK, Phase, Finished, Open
    <2>4. OracleInv'
        BY <1>13, <2>1, <2>2, Zenon DEF Restart, TypeOK, OracleInv, Phase, Finished, Open
    <2> QED BY <2>3, <2>4, Zenon
<1>14. CASE UNCHANGED vars
    BY <1>14, Zenon DEF vars, TypeOK, OracleInv
<1> QED BY <1>1, <1>2, <1>3, <1>4, <1>5, <1>6, <1>7, <1>8, <1>9, <1>10, <1>11, <1>12,
           <1>13, <1>14, Zenon DEF Next, Client, Committing

\* The oracle, the lock, the buffers and the store keep their types in every
\* reachable state, and a commit never reserves a timestamp out of range.
THEOREM TypeCorrect == Spec => []TypeOK
<1>1. Spec => []TypeInv
    BY TypeInit, TypeNext, PTL DEF Spec
<1> QED BY <1>1, PTL DEF TypeInv

-----------------------------------------------------------------------------
(* Reads.                                                                  *)

\* A snapshot read depends only on the versions at or below its bound.
LEMMA SnapshotReadFrame ==
    ASSUME NEW v, NEW w, NEW bound \in Nat,
           \A ts \in Timestamp : ts <= bound => v[ts] = w[ts]
    PROVE  SnapshotRead(v, bound) = SnapshotRead(w, bound)
<1> USE Assumptions
<1>1. \A ts \in Timestamp : IsNewest(v, ts, bound) <=> IsNewest(w, ts, bound)
    BY Zenon DEF IsNewest, Timestamp
<1>2. (CHOOSE ts \in Timestamp : IsNewest(v, ts, bound))
      = (CHOOSE ts \in Timestamp : IsNewest(w, ts, bound))
    BY <1>1, Zenon
<1>3. \A ts \in Timestamp : IsNewest(v, ts, bound) => v[ts] = w[ts]
    BY Zenon DEF IsNewest
<1>4. (\E ts \in Timestamp : IsNewest(v, ts, bound)) =>
      IsNewest(v, CHOOSE ts \in Timestamp : IsNewest(v, ts, bound), bound)
      /\ (CHOOSE ts \in Timestamp : IsNewest(v, ts, bound)) \in Timestamp
    BY Zenon
<1> QED BY <1>1, <1>2, <1>3, <1>4, Zenon DEF SnapshotRead

\* No step rewrites a version at or below the clock: a flush writes at clock + 1.
LEMMA PublishedIsImmutable ==
    ASSUME TypeInv, [Next]_vars, NEW k \in Key, NEW ts \in Timestamp, ts <= clock
    PROVE  store'[k][ts] = store[k][ts]
<1> USE Assumptions
<1>1. ASSUME NEW t \in Txn, FlushChunk(t) PROVE store'[k][ts] = store[k][ts]
    BY <1>1 DEF FlushChunk, TypeInv, TypeOK, OracleInv, Timestamp
<1>2. CASE UNCHANGED store
    BY <1>2, Zenon
<1> QED BY <1>1, <1>2, SMTT(20)
       DEF Next, vars, Client, Committing, Begin, Buffer, Rollback, CommitEmpty,
           CommitCall, CommitReadError, CommitConflict, CommitReserve, FlushFail, Publish,
           Crash, Restart

\* A transaction that stays open keeps its snapshot timestamp.
LEMMA SnapshotIsKept ==
    ASSUME TypeInv, [Next]_vars, NEW t \in Txn, phase[t] \in Open
    PROVE  readTS'[t] = readTS[t]
BY SMTT(20) DEF Next, vars, Client, Committing, Begin, Buffer, Rollback, CommitEmpty, CommitCall,
       CommitReadError, CommitConflict, CommitReserve, FlushChunk, FlushFail, Publish, Crash,
       Restart, Open, TypeInv, TypeOK

\* For any number of transactions, keys and batch splits: an open transaction
\* that reads a key again, without having written it, gets the same answer.
THEOREM ReadsRepeat == Spec => RepeatableReads
<1> DEFINE Repeats == \A t \in Txn : phase[t] \in Open /\ phase'[t] \in Open =>
              \A k \in Key : Effect(mutations[t], k)' = Effect(mutations[t], k) =>
                  Get(t, k)' = Get(t, k)
<1>1. TypeInv /\ [Next]_vars => [Repeats]_vars
    <2> SUFFICES ASSUME TypeInv, [Next]_vars, NEW t \in Txn, NEW k \in Key,
                        phase[t] \in Open, phase'[t] \in Open,
                        Effect(mutations[t], k)' = Effect(mutations[t], k)
                 PROVE  Get(t, k)' = Get(t, k)
        BY Zenon
    <2>1. readTS'[t] = readTS[t]
        BY SnapshotIsKept, Zenon
    <2>2. readTS[t] \in Nat /\ readTS[t] <= clock
        BY DEF TypeInv, OracleInv, TypeOK
    <2>3. \A ts \in Timestamp : ts <= readTS[t] => store[k][ts] = store'[k][ts]
        BY <2>2, PublishedIsImmutable, Assumptions, SMTT(20) DEF TypeInv, TypeOK, Timestamp
    <2>4. SnapshotRead(store[k], readTS[t]) = SnapshotRead(store'[k], readTS[t])
        BY <2>2, <2>3, SnapshotReadFrame, Zenon
    <2> QED BY <2>1, <2>4, Zenon DEF Get
<1>2. Spec => []TypeInv
    BY TypeInit, TypeNext, PTL DEF Spec
<1> QED BY <1>1, <1>2, PTL DEF Spec, RepeatableReads

-----------------------------------------------------------------------------
(* Durability, for every batch size.                                       *)

Holds(t, n) ==
    \A k \in Key : LastWrite(mutations[t], k, n) # None =>
        store[k][commitTS[t]] = LastWrite(mutations[t], k, n)

\* The store holds what a running commit has flushed, and all of an
\* acknowledged one at a timestamp the oracle has reached.
DurableInv ==
    /\ \A t \in Txn : phase[t] = "flushing" => Holds(t, flushed[t])
    /\ \A t \in Txn : phase[t] = "committed" /\ mutations[t] # <<>> =>
           commitTS[t] \in Timestamp /\ commitTS[t] <= clock /\ Holds(t, Len(mutations[t]))

\* Nothing but its own steps changes what a transaction past its open phases
\* has written, and the timestamp it wrote it at.
LEMMA PastIsKept ==
    ASSUME TypeInv, [Next]_vars, NEW t \in Txn, phase[t] \notin Open \cup {"idle"}
    PROVE  mutations'[t] = mutations[t] /\ commitTS'[t] = commitTS[t] /\ readTS'[t] = readTS[t]
BY SMTT(20) DEF Next, vars, Client, Committing, Begin, Buffer, Rollback, CommitEmpty, CommitCall,
       CommitReadError, CommitConflict, CommitReserve, FlushChunk, FlushFail, Publish, Crash,
       Restart, Open, TypeInv, TypeOK

\* The clock never moves back past a version that is in the store.
LEMMA ClockCoversStore ==
    ASSUME TypeInv, [Next]_vars, NEW k \in Key, NEW ts \in Timestamp, ts <= clock,
           store[k][ts] # None
    PROVE  ts <= clock'
<1> USE Assumptions
<1>1. ASSUME NEW t \in Txn, Publish(t) PROVE ts <= clock'
    BY <1>1 DEF Publish, TypeInv, TypeOK, OracleInv, Timestamp
<1>2. CASE Restart
    BY <1>2 DEF Restart, IsRestartClock, Timestamp
<1>3. CASE UNCHANGED clock
    BY <1>3, Zenon
<1>4. ASSUME NEW t \in Txn, Client(t) PROVE UNCHANGED clock
    BY <1>4, Zenon DEF Client, Begin, Buffer, Rollback, CommitEmpty, CommitCall
<1>5. ASSUME NEW t \in Txn, Committing(t) PROVE Publish(t) \/ UNCHANGED clock
    BY <1>5, Zenon DEF Committing, CommitConflict, CommitReserve, FlushChunk
<1>6. ASSUME NEW t \in Txn, CommitReadError(t) \/ FlushFail(t) PROVE UNCHANGED clock
    BY <1>6, Zenon DEF CommitReadError, FlushFail
<1>7. Crash \/ UNCHANGED vars => UNCHANGED clock
    BY Zenon DEF Crash, vars
<1> QED BY <1>1, <1>2, <1>3, <1>4, <1>5, <1>6, <1>7, Zenon DEF Next

\* With no mutations applied there is nothing to hold.
LEMMA NothingWritten == ASSUME NEW muts, NEW k PROVE LastWrite(muts, k, 0) = None
BY DEF LastWrite

LEMMA WriteSetInKey == ASSUME NEW muts \in Seq(Mutation) PROVE WriteSet(muts) \subseteq Key
<1>1. \A i \in DOMAIN muts : muts[i] \in Mutation
    OBVIOUS
<1> QED BY <1>1, Zenon DEF WriteSet, Mutation

\* A transaction with a mutation writes some key.
LEMMA SomethingWritten ==
    ASSUME NEW muts \in Seq(Mutation), muts # <<>>
    PROVE  \E k \in Key : k \in WriteSet(muts) /\ Effect(muts, k) # None
<1>1. 1 \in DOMAIN muts /\ muts[1] \in Mutation
    OBVIOUS
<1>2. muts[1].key \in Key /\ muts[1].key \in WriteSet(muts)
    BY <1>1, Zenon DEF WriteSet, Mutation
<1> QED BY <1>2, EffectValue, Zenon

LEMMA DurableNext == TypeInv /\ DurableInv /\ [Next]_vars => DurableInv'
<1> SUFFICES ASSUME TypeInv, DurableInv, [Next]_vars PROVE DurableInv'
    BY Zenon
<1> USE Assumptions
<1>1. ASSUME NEW t \in Txn, phase'[t] = "flushing" PROVE Holds(t, flushed[t])'
    <2>1. CASE phase[t] = "flushing"
        <3>1. mutations'[t] = mutations[t] /\ commitTS'[t] = commitTS[t]
            BY <2>1, PastIsKept, Zenon DEF Open
        <3>2. commitTS[t] = clock + 1 /\ commitTS[t] \in Timestamp
            BY <2>1 DEF TypeInv, OracleInv, TypeOK, Timestamp
        <3>3. CASE FlushChunk(t)
            BY <3>1, <3>2, <3>3, Zenon DEF FlushChunk, Holds, TypeInv, TypeOK
        <3>4. CASE UNCHANGED <<store, flushed>>
            BY <3>1, <3>4, <2>1, Zenon DEF Holds, DurableInv
        <3>5. ASSUME NEW u \in Txn, FlushChunk(u) PROVE u = t
            BY <3>5, <2>1, Zenon DEF FlushChunk, TypeInv, OracleInv
        <3> QED BY <3>3, <3>4, <3>5, SMTT(20)
               DEF Next, vars, Client, Committing, Begin, Buffer, Rollback,
               CommitEmpty, CommitCall, CommitReadError, CommitConflict, CommitReserve, FlushFail,
               Publish, Crash, Restart
    <2>2. CASE phase[t] # "flushing"
        <3>1. CommitReserve(t)
            BY <1>1, <2>2, Zenon DEF Next, vars, Client, Committing, Begin, Buffer, Rollback,
               CommitEmpty, CommitCall, CommitReadError, CommitConflict, CommitReserve,
               FlushChunk, FlushFail, Publish, Crash, Restart, TypeInv, TypeOK
        <3>2. flushed'[t] = 0
            BY <3>1, Zenon DEF CommitReserve, TypeInv, OracleInv, Open
        <3> QED BY <3>2, NothingWritten, Zenon DEF Holds
    <2> QED BY <2>1, <2>2, Zenon
<1>2. ASSUME NEW t \in Txn, phase'[t] = "committed", mutations'[t] # <<>>
      PROVE  commitTS'[t] \in Timestamp /\ commitTS'[t] <= clock' /\ Holds(t, Len(mutations[t]))'
    <2>1. CASE phase[t] = "committed"
        <3>1. mutations'[t] = mutations[t] /\ commitTS'[t] = commitTS[t]
            BY <2>1, PastIsKept, Zenon DEF Open
        <3>2. commitTS[t] \in Timestamp /\ commitTS[t] <= clock /\ Holds(t, Len(mutations[t]))
            BY <1>2, <2>1, <3>1, Zenon DEF DurableInv
        <3>3. \A k \in Key : store'[k][commitTS[t]] = store[k][commitTS[t]]
            BY <3>2, PublishedIsImmutable, Zenon
        <3>4. PICK k \in Key : Effect(mutations[t], k) # None
            BY <1>2, <3>1, SomethingWritten, Zenon DEF TypeInv, TypeOK
        <3>5. commitTS[t] <= clock'
            BY <3>2, <3>4, ClockCoversStore, Zenon DEF Effect, Holds
        <3> QED BY <3>1, <3>2, <3>3, <3>5, Zenon DEF Holds
    <2>2. CASE phase[t] # "committed"
        <3>1. Publish(t)
            BY <1>2, <2>2, SMTT(20) DEF Next, vars, Client, Committing, Begin, Buffer, Rollback,
               CommitEmpty, CommitCall, CommitReadError, CommitConflict, CommitReserve,
               FlushChunk, FlushFail, Publish, Crash, Restart, TypeInv, TypeOK
        <3>2. commitTS[t] = clock + 1
            BY <3>1, Zenon DEF Publish, TypeInv, OracleInv
        <3>3. commitTS[t] \in Timestamp /\ clock' = commitTS[t]
            BY <3>1, <3>2 DEF Publish, TypeInv, TypeOK, Timestamp
        <3>4. Holds(t, Len(mutations[t]))
            BY <3>1, Zenon DEF Publish, DurableInv
        <3> QED BY <3>1, <3>3, <3>4 DEF Publish, Holds, Timestamp
    <2> QED BY <2>1, <2>2, Zenon
<1> QED BY <1>1, <1>2, Zenon DEF DurableInv

\* Whatever is flushed in however many pieces, and whichever commits fail or
\* are cut off by a crash: an acknowledged commit stays in the store, at a
\* timestamp the oracle of every later incarnation has reached.
THEOREM AcknowledgedSurvives == Spec => []AcknowledgedCommitsSurvive
<1>1. Init => DurableInv
    BY Zenon DEF Init, DurableInv
<1>2. Spec => [](TypeInv /\ DurableInv)
    BY <1>1, TypeInit, TypeNext, DurableNext, PTL DEF Spec
<1>3. DurableInv => AcknowledgedCommitsSurvive
    BY Zenon DEF DurableInv, AcknowledgedCommitsSurvive, Holds, Effect
<1> QED BY <1>2, <1>3, PTL

-----------------------------------------------------------------------------
(* Atomicity and conflicts, when every batch fits one store transaction.   *)

InFlight(t) == phase[t] \in {"flushing", "indoubt"}

\* At most one commit is in flight.  It has reserved clock + 1, and has
\* flushed all or nothing.
FlightInv ==
    /\ \A t \in Txn : phase[t] = "indoubt" => ~up
    /\ \A t, u \in Txn : InFlight(t) /\ InFlight(u) => t = u
    /\ \A t \in Txn : InFlight(t) =>
          /\ commitTS[t] = clock + 1
          /\ readTS[t] \in 1..clock
          /\ mutations[t] # <<>>
          /\ flushed[t] \in {0, Len(mutations[t])}

\* Above the clock the store holds the writes of the commit in flight and
\* nothing else.
FrontierInv ==
    /\ \A t \in Txn : InFlight(t) =>
          \A k \in Key : store[k][commitTS[t]] = LastWrite(mutations[t], k, flushed[t])
    /\ \A k \in Key : \A ts \in Timestamp : ts > clock /\ store[k][ts] # None =>
          \E t \in Txn : InFlight(t) /\ ts = commitTS[t]

\* At or below the clock every timestamp is one whole durable transaction.
HistoryInv ==
    /\ \A t \in Txn : Durable(t) =>
          /\ commitTS[t] \in 2..clock
          /\ readTS[t] \in 1..(commitTS[t] - 1)
          /\ \A k \in Key : store[k][commitTS[t]] = Effect(mutations[t], k)
    /\ \A t, u \in Txn : Durable(t) /\ Durable(u) /\ commitTS[t] = commitTS[u] => t = u
    /\ \A ts \in 2..clock : \E t \in Txn : Durable(t) /\ commitTS[t] = ts

\* The conflict check outlives the lock: it holds of a commit in flight as of
\* one that took effect.
NoLostUpdateInFlight ==
    \A t \in Txn : Durable(t) \/ InFlight(t) =>
        \A k \in WriteSet(mutations[t]) : \A ts \in Timestamp :
            readTS[t] < ts /\ IsNewest(store[k], ts, commitTS[t] - 1) => store[k][ts] = Tombstone

StoreInv == FlightInv /\ FrontierInv /\ HistoryInv /\ NoLostUpdateInFlight

\* A step that moves neither the store, the clock nor the set of commits in
\* flight or durable.
Quiet ==
    /\ UNCHANGED <<store, clock, commitTS, flushed>>
    /\ \A t \in Txn : InFlight(t)' <=> InFlight(t)
    /\ \A t \in Txn : Durable(t)' <=> Durable(t)
    /\ \A t \in Txn : InFlight(t) \/ Durable(t) =>
          mutations'[t] = mutations[t] /\ readTS'[t] = readTS[t]
    /\ \A t \in Txn : phase'[t] = "indoubt" => ~up'

\* The client's steps, a refused commit and a crash are quiet.
LEMMA QuietSteps ==
    ASSUME TypeInv, FlightInv,
           \/ \E t \in Txn : Client(t) \/ CommitConflict(t) \/ CommitReadError(t)
           \/ Crash
           \/ UNCHANGED vars
    PROVE  Quiet
<1> USE DEF Quiet, InFlight, Durable, TypeInv, TypeOK
<1>1. ASSUME NEW t \in Txn, Begin(t) PROVE Quiet
    BY <1>1, SMTT(20) DEF Begin, FlightInv
<1>2. ASSUME NEW t \in Txn, NEW m \in Mutation, Buffer(t, m) PROVE Quiet
    BY <1>2, Zenon DEF Buffer, FlightInv
<1>3. ASSUME NEW t \in Txn, Rollback(t) PROVE Quiet
    BY <1>3, SMTT(20) DEF Rollback, FlightInv
<1>4. ASSUME NEW t \in Txn, CommitEmpty(t) PROVE Quiet
    BY <1>4, SMTT(20) DEF CommitEmpty, FlightInv
<1>5. ASSUME NEW t \in Txn, CommitCall(t) PROVE Quiet
    BY <1>5, Zenon DEF CommitCall, FlightInv
<1>6. ASSUME NEW t \in Txn, CommitConflict(t) PROVE Quiet
    BY <1>6, Zenon DEF CommitConflict, FlightInv
<1>7. ASSUME NEW t \in Txn, CommitReadError(t) PROVE Quiet
    BY <1>7, Zenon DEF CommitReadError, FlightInv
<1>8. CASE Crash
    BY <1>8, Zenon DEF Crash, Open
<1>9. CASE UNCHANGED vars
    BY <1>9, Zenon DEF vars, FlightInv
<1> QED BY <1>1, <1>2, <1>3, <1>4, <1>5, <1>6, <1>7, <1>8, <1>9, Zenon DEF Client

LEMMA ClockType ==
    ASSUME TypeInv PROVE clock \in Nat /\ 1 <= clock /\ clock <= MaxTS /\ MaxTS \in Nat
BY Assumptions DEF TypeInv, TypeOK, Timestamp

\* The history stands while the clock, the durable transactions and their
\* versions do.
LEMMA HistoryFrame ==
    ASSUME HistoryInv, clock' = clock,
           \A u \in Txn : Durable(u)' <=> Durable(u),
           \A u \in Txn : Durable(u) =>
               /\ commitTS'[u] = commitTS[u] /\ readTS'[u] = readTS[u]
               /\ mutations'[u] = mutations[u]
               /\ \A k \in Key : store'[k][commitTS[u]] = store[k][commitTS[u]]
    PROVE  HistoryInv'
<1>1. ASSUME NEW u \in Txn, Durable(u)'
      PROVE  /\ commitTS'[u] \in 2..clock'
             /\ readTS'[u] \in 1..(commitTS'[u] - 1)
             /\ \A k \in Key : store'[k][commitTS'[u]] = Effect(mutations'[u], k)
    <2>1. Durable(u)
        BY <1>1, Zenon
    <2> QED BY <2>1 DEF HistoryInv
<1>2. ASSUME NEW u \in Txn, NEW v \in Txn, Durable(u)', Durable(v)', commitTS'[u] = commitTS'[v]
      PROVE  u = v
    BY <1>2, Zenon DEF HistoryInv
<1>3. ASSUME NEW ts \in 2..clock PROVE \E u \in Txn : Durable(u)' /\ commitTS'[u] = ts
    <2>1. PICK u \in Txn : Durable(u) /\ commitTS[u] = ts
        BY Zenon DEF HistoryInv
    <2> QED BY <2>1, Zenon
<1> QED BY <1>1, <1>2, <1>3, SMTT(20) DEF HistoryInv

LEMMA QuietKeeps == ASSUME TypeInv, StoreInv, Quiet PROVE StoreInv'
<1> USE DEF Quiet, StoreInv
<1>1. FlightInv'
    BY Zenon DEF FlightInv
<1>2. FrontierInv'
    BY DEF FrontierInv
<1>3. HistoryInv'
    BY HistoryFrame, Zenon
<1>4. NoLostUpdateInFlight'
    BY Zenon DEF NoLostUpdateInFlight
<1> QED BY <1>1, <1>2, <1>3, <1>4, Zenon

\* When the lock is free in a running process nothing is above the clock.
LEMMA NothingAhead ==
    ASSUME TypeInv, StoreInv, up, LockFree
    PROVE  /\ \A t \in Txn : ~InFlight(t)
           /\ \A k \in Key : \A ts \in Timestamp : ts > clock => store[k][ts] = None
<1>1. \A t \in Txn : ~InFlight(t)
    BY Assumptions, Zenon DEF StoreInv, FlightInv, InFlight, LockFree, TypeInv, OracleInv
<1> QED BY <1>1, Zenon DEF StoreInv, FrontierInv

LEMMA ReserveKeeps ==
    ASSUME TypeInv, StoreInv, NEW t \in Txn, CommitReserve(t)
    PROVE  StoreInv'
<1> USE Assumptions
<1>1. up /\ readTS[t] \in 1..clock /\ mutations[t] # <<>> /\ flushed[t] = 0
    BY Zenon DEF CommitReserve, TypeInv, OracleInv, Open
<1>2. /\ \A u \in Txn : ~InFlight(u)
      /\ \A k \in Key : \A ts \in Timestamp : ts > clock => store[k][ts] = None
    BY <1>1, NothingAhead, Zenon DEF CommitReserve
<1>3. \A u \in Txn : InFlight(u)' <=> u = t
    BY <1>2, Zenon DEF CommitReserve, InFlight, TypeInv, TypeOK
<1>4. \A u \in Txn : Durable(u)' <=> Durable(u)
    BY Zenon DEF CommitReserve, Durable, TypeInv, TypeOK
<1>5. commitTS' = [commitTS EXCEPT ![t] = clock + 1] /\ clock + 1 \in Timestamp /\ ~Durable(t)
    BY DEF CommitReserve, NextTS, TypeInv, TypeOK, Timestamp, Durable
<1>6. FlightInv'
    BY <1>1, <1>3, <1>5, Zenon DEF CommitReserve, FlightInv, InFlight, TypeInv, TypeOK
<1>7. FrontierInv'
    BY <1>1, <1>2, <1>3, <1>5, NothingWritten
       DEF CommitReserve, FrontierInv, TypeInv, TypeOK, Timestamp
<1>8. HistoryInv'
    <2>1. \A u \in Txn : Durable(u) => commitTS'[u] = commitTS[u]
        BY <1>5, Zenon DEF TypeInv, TypeOK
    <2>2. UNCHANGED <<store, clock, readTS, mutations>>
        BY Zenon DEF CommitReserve
    <2> QED BY <1>4, <2>1, <2>2, HistoryFrame, SMTT(20) DEF StoreInv
<1>9. NoLostUpdateInFlight'
    <2> SUFFICES ASSUME NEW u \in Txn, Durable(u)' \/ InFlight(u)',
                        NEW k \in WriteSet(mutations'[u]), NEW ts \in Timestamp,
                        readTS'[u] < ts, IsNewest(store'[k], ts, commitTS'[u] - 1)
                 PROVE  store'[k][ts] = Tombstone
        BY Zenon DEF NoLostUpdateInFlight
    <2>1. CASE u # t
        BY <1>3, <1>4, <1>5, <2>1
           DEF CommitReserve, StoreInv, NoLostUpdateInFlight, TypeInv, TypeOK
    <2>2. CASE u = t
        <3>1. k \in Key /\ k \in WriteSet(mutations[t]) /\ readTS[t] < ts
            BY <2>2, WriteSetInKey, Zenon DEF CommitReserve, TypeInv, TypeOK
        <3>2. IsNewest(store[k], ts, clock)
            BY <2>2, <1>5 DEF CommitReserve, TypeInv, TypeOK, Timestamp
        <3>3. clock \in Nat /\ clock <= MaxTS /\ MaxTS \in Nat
            BY ClockType, Zenon
        <3>4. \A w \in Timestamp : clock < w => store[k][w] = None
            BY <1>2, <3>1, <3>3, Zenon DEF Timestamp
        <3>5. IsNewest(store[k], ts, MaxTS)
            BY <3>2, <3>3, <3>4 DEF IsNewest, Timestamp
        <3> QED BY <3>1, <3>5, Zenon DEF CommitReserve, Conflict, LatestVersion
    <2> QED BY <2>1, <2>2, SMTT(20)
<1> QED BY <1>6, <1>7, <1>8, <1>9, Zenon DEF StoreInv

\* A version at or below the clock is newest below it whatever is flushed.
LEMMA NewestFrame ==
    ASSUME TypeInv, [Next]_vars, NEW k \in Key, NEW ts \in Timestamp, NEW bound \in 0..clock
    PROVE  /\ IsNewest(store[k], ts, bound)' <=> IsNewest(store[k], ts, bound)
           /\ ts <= bound => store'[k][ts] = store[k][ts]
<1>1. \A w \in Timestamp : w <= bound => store'[k][w] = store[k][w]
    BY PublishedIsImmutable, Assumptions DEF TypeInv, TypeOK, Timestamp
<1> QED BY <1>1, Zenon DEF IsNewest, Timestamp

LEMMA FlushKeeps ==
    ASSUME MaxBatch >= MaxMutations, TypeInv, StoreInv, NEW t \in Txn, FlushChunk(t), Next
    PROVE  StoreInv'
<1> USE Assumptions
<1>1. InFlight(t) /\ commitTS[t] = clock + 1 /\ flushed[t] = 0 /\ commitTS[t] \in Timestamp
    BY DEF FlushChunk, InFlight, StoreInv, FlightInv, TypeInv, TypeOK, Timestamp
<1>2. NextChunk(t) = Len(mutations[t])
    BY <1>1 DEF NextChunk, TypeInv, TypeOK
<1>3. /\ UNCHANGED <<clock, up, phase, readTS, mutations, commitTS>>
      /\ flushed' = [flushed EXCEPT ![t] = Len(mutations[t])]
    BY <1>2, Zenon DEF FlushChunk
<1>4. \A u \in Txn : (InFlight(u)' <=> InFlight(u)) /\ (Durable(u)' <=> Durable(u))
    BY <1>3, Zenon DEF InFlight, Durable
<1>5. \A u \in Txn : InFlight(u) => u = t
    BY <1>1, Zenon DEF StoreInv, FlightInv
<1>6. \A k \in Key : store[k][clock + 1] = None
    <2>1. \A k \in Key : store[k][clock + 1] = LastWrite(mutations[t], k, 0)
        BY <1>1, Zenon DEF StoreInv, FrontierInv
    <2> QED BY <2>1, NothingWritten, Zenon
<1>7. \A k \in Key : store'[k][clock + 1] = LastWrite(mutations[t], k, Len(mutations[t]))
    BY <1>1, <1>2, <1>6, Zenon DEF FlushChunk
<1>8. \A k \in Key : \A ts \in Timestamp : ts # clock + 1 => store'[k][ts] = store[k][ts]
    BY <1>1, Zenon DEF FlushChunk
<1>9. FlightInv'
    <2>1. flushed'[t] = Len(mutations'[t])
        BY <1>3, Zenon DEF TypeInv, TypeOK
    <2> QED BY <1>3, <1>4, <1>5, <2>1, Zenon DEF StoreInv, FlightInv
<1>10. FrontierInv'
    <2>1. flushed'[t] = Len(mutations[t])
        BY <1>3, Zenon DEF TypeInv, TypeOK
    <2>2. ASSUME NEW u \in Txn, InFlight(u)', NEW k \in Key
          PROVE  store'[k][commitTS'[u]] = LastWrite(mutations'[u], k, flushed'[u])
        <3>1. u = t
            BY <1>4, <1>5, <2>2, Zenon
        <3> QED BY <1>1, <1>3, <1>7, <2>1, <3>1, Zenon
    <2>3. ASSUME NEW k \in Key, NEW ts \in Timestamp, ts > clock', store'[k][ts] # None
          PROVE  \E u \in Txn : InFlight(u)' /\ ts = commitTS'[u]
        <3>1. CASE ts = clock + 1
            BY <1>1, <1>3, <1>4, <3>1, Zenon
        <3>2. CASE ts # clock + 1
            <4>1. ts > clock /\ store[k][ts] # None
                BY <1>3, <1>8, <2>3, <3>2, Zenon
            <4>2. PICK u \in Txn : InFlight(u) /\ ts = commitTS[u]
                BY <4>1, Zenon DEF StoreInv, FrontierInv
            <4> QED BY <1>3, <1>4, <4>2, Zenon
        <3> QED BY <3>1, <3>2, Zenon
    <2> QED BY <2>2, <2>3, Zenon DEF FrontierInv
<1>11. HistoryInv'
    <2>1. ASSUME NEW u \in Txn, Durable(u), NEW k \in Key
          PROVE  store'[k][commitTS[u]] = store[k][commitTS[u]]
        <3>1. commitTS[u] \in 2..clock
            BY <2>1, Zenon DEF StoreInv, HistoryInv
        <3>2. commitTS[u] \in Timestamp /\ commitTS[u] # clock + 1
            BY <3>1, SMTT(20) DEF TypeInv, TypeOK, Timestamp
        <3> QED BY <1>8, <3>2, Zenon
    <2> QED BY <1>3, <1>4, <2>1, HistoryFrame, SMTT(20) DEF StoreInv
<1>12. NoLostUpdateInFlight'
    <2> SUFFICES ASSUME NEW u \in Txn, Durable(u) \/ InFlight(u),
                        NEW k \in WriteSet(mutations[u]), NEW ts \in Timestamp,
                        readTS[u] < ts, IsNewest(store'[k], ts, commitTS[u] - 1)
                 PROVE  store'[k][ts] = Tombstone
        BY <1>3, <1>4, SMTT(20) DEF NoLostUpdateInFlight
    <2>1. k \in Key
        BY WriteSetInKey, Zenon DEF TypeInv, TypeOK
    <2>2. commitTS[u] - 1 \in 0..clock
        <3>1. CASE Durable(u)
            <4>1. commitTS[u] \in 2..clock
                BY <3>1, Zenon DEF StoreInv, HistoryInv
            <4>2. clock \in Nat
                BY DEF TypeInv, TypeOK, Timestamp
            <4> QED BY <4>1, <4>2
        <3>2. CASE InFlight(u)
            BY <1>1, <1>5, <3>2 DEF TypeInv, TypeOK, Timestamp
        <3> QED BY <3>1, <3>2, SMTT(20)
    <2>3. IsNewest(store[k], ts, commitTS[u] - 1) /\ store'[k][ts] = store[k][ts]
        BY <2>1, <2>2, NewestFrame, SMTT(20) DEF IsNewest
    <2> QED BY <2>3, Zenon DEF StoreInv, NoLostUpdateInFlight
<1> QED BY <1>9, <1>10, <1>11, <1>12, Zenon DEF StoreInv

LEMMA FailKeeps ==
    ASSUME TypeInv, StoreInv, NEW t \in Txn, FlushFail(t)
    PROVE  StoreInv'
<1>1. InFlight(t) /\ flushed[t] = 0 /\ commitTS[t] \in Timestamp
    BY DEF FlushFail, InFlight, StoreInv, FlightInv, TypeInv, TypeOK, Timestamp
<1>2. /\ UNCHANGED <<store, clock, up, readTS, mutations, commitTS, flushed>>
      /\ \A u \in Txn : ~InFlight(u)'
      /\ \A u \in Txn : Durable(u)' <=> Durable(u)
    BY <1>1, Zenon DEF FlushFail, InFlight, Durable, StoreInv, FlightInv, TypeInv, TypeOK
<1>3. \A k \in Key : store[k][commitTS[t]] = None
    <2>1. \A k \in Key : store[k][commitTS[t]] = LastWrite(mutations[t], k, 0)
        BY <1>1, SMTT(20) DEF StoreInv, FrontierInv
    <2> QED BY <2>1, NothingWritten, Zenon
<1>4. FlightInv'
    BY <1>2, Zenon DEF FlightInv, InFlight
<1>5. FrontierInv'
    BY <1>1, <1>2, <1>3, Zenon DEF StoreInv, FrontierInv, FlightInv
<1>6. HistoryInv'
    BY <1>2, HistoryFrame, Zenon DEF StoreInv
<1>7. NoLostUpdateInFlight'
    BY <1>2, SMTT(20) DEF StoreInv, NoLostUpdateInFlight
<1> QED BY <1>4, <1>5, <1>6, <1>7, Zenon DEF StoreInv

\* A commit takes effect, by the store of the clock or by a restart that finds
\* its whole batch.
TakesEffect(t) ==
    /\ InFlight(t)
    /\ flushed[t] = Len(mutations[t])
    /\ clock' = clock + 1
    /\ \A u \in Txn : ~InFlight(u)'
    /\ \A u \in Txn : Durable(u)' <=> Durable(u) \/ u = t
    /\ UNCHANGED <<store, readTS, mutations, commitTS, flushed>>

LEMMA EffectKeeps ==
    ASSUME TypeInv, StoreInv, NEW t \in Txn, TakesEffect(t)
    PROVE  StoreInv'
<1> USE Assumptions
<1>1. /\ commitTS[t] = clock + 1 /\ readTS[t] \in 1..clock
      /\ \A k \in Key : store[k][clock + 1] = Effect(mutations[t], k)
      /\ \A u \in Txn : InFlight(u) => u = t
    <2>1. /\ commitTS[t] = clock + 1 /\ readTS[t] \in 1..clock
          /\ \A u \in Txn : InFlight(u) => u = t
        BY Zenon DEF TakesEffect, StoreInv, FlightInv
    <2>2. \A k \in Key : store[k][clock + 1] = Effect(mutations[t], k)
        BY <2>1, SMTT(20) DEF TakesEffect, StoreInv, FrontierInv, Effect
    <2> QED BY <2>1, <2>2, Zenon
<1>2. FlightInv'
    BY Zenon DEF TakesEffect, FlightInv, InFlight
<1>3. FrontierInv'
    BY <1>1 DEF TakesEffect, StoreInv, FrontierInv, TypeInv, TypeOK, Timestamp
<1>4. HistoryInv'
    <2>1. \A u \in Txn : Durable(u) => commitTS[u] \in 2..clock
        BY SMTT(20) DEF StoreInv, HistoryInv
    <2>2. ASSUME NEW u \in Txn, Durable(u)'
          PROVE  /\ commitTS[u] \in 2..(clock + 1)
                 /\ readTS[u] \in 1..(commitTS[u] - 1)
                 /\ \A k \in Key : store[k][commitTS[u]] = Effect(mutations[u], k)
        BY <1>1, <2>2, SMTT(20) DEF TakesEffect, StoreInv, HistoryInv, TypeInv, TypeOK, Timestamp
    <2>3. ASSUME NEW u \in Txn, NEW v \in Txn, Durable(u)', Durable(v)', commitTS[u] = commitTS[v]
          PROVE  u = v
        <3>1. (Durable(u) \/ u = t) /\ (Durable(v) \/ v = t)
            BY <2>3, Zenon DEF TakesEffect
        <3>2. \A w \in Txn : Durable(w) => commitTS[w] # commitTS[t]
            BY <1>1, <2>1 DEF TypeInv, TypeOK, Timestamp
        <3>3. CASE Durable(u) /\ Durable(v)
            BY <2>3, <3>3, Zenon DEF StoreInv, HistoryInv
        <3> QED BY <2>3, <3>1, <3>2, <3>3, Zenon
    <2>4. ASSUME NEW ts \in 2..(clock + 1)
          PROVE  \E u \in Txn : Durable(u)' /\ commitTS[u] = ts
        <3>1. CASE ts = clock + 1
            BY <1>1, <3>1, SMTT(20) DEF TakesEffect
        <3>2. CASE ts \in 2..clock
            BY <3>2, Zenon DEF TakesEffect, StoreInv, HistoryInv
        <3> QED BY <3>1, <3>2 DEF TypeInv, TypeOK, Timestamp
    <2> QED BY <2>2, <2>3, <2>4, Zenon DEF TakesEffect, HistoryInv
<1>5. NoLostUpdateInFlight'
    BY SMTT(20) DEF TakesEffect, StoreInv, NoLostUpdateInFlight
<1> QED BY <1>2, <1>3, <1>4, <1>5, Zenon DEF StoreInv

LEMMA PublishKeeps ==
    ASSUME TypeInv, StoreInv, NEW t \in Txn, Publish(t)
    PROVE  TakesEffect(t)
<1>1. InFlight(t) /\ commitTS[t] = clock + 1
    BY Zenon DEF Publish, InFlight, StoreInv, FlightInv
<1>2. \A u \in Txn : InFlight(u) => u = t
    BY <1>1, Zenon DEF StoreInv, FlightInv
<1>3. \A u \in Txn : ~InFlight(u)'
    BY <1>2, Zenon DEF Publish, InFlight, TypeInv, TypeOK
<1>4. mutations[t] # <<>>
    BY <1>1, Zenon DEF StoreInv, FlightInv
<1>5. \A u \in Txn : Durable(u)' <=> Durable(u) \/ u = t
    BY <1>4, Zenon DEF Publish, Durable, TypeInv, TypeOK
<1> QED BY <1>1, <1>3, <1>5, SMTT(20) DEF Publish, TakesEffect

\* The oracle a restart rebuilds: one further when the batch in doubt is in the
\* store, which then takes effect, and where it was otherwise.
LEMMA RestartOutcome ==
    ASSUME TypeInv, StoreInv, Restart
    PROVE  \/ \E t \in Txn : TakesEffect(t)
           \/ /\ clock' = clock
              /\ \A t \in Txn : InFlight(t) => flushed[t] = 0 /\ flushed[t] # Len(mutations[t])
<1> USE Assumptions
<1>1. PICK c \in Timestamp : IsRestartClock(c) /\ clock' = c
    BY Zenon DEF Restart
<1>2. UNCHANGED <<store, commitMu, readTS, mutations, commitTS, flushed>> /\ up'
    BY Zenon DEF Restart
<1>3. \A u \in Txn : InFlight(u) <=> phase[u] = "indoubt"
    BY Zenon DEF Restart, InFlight, TypeInv, OracleInv
<1>4. \A u \in Txn : ~InFlight(u)'
    BY <1>3, Zenon DEF Restart, InFlight, TypeInv, TypeOK
<1>5. clock \in Nat /\ clock >= 1
    BY DEF TypeInv, TypeOK, Timestamp
<1>6. CASE \E t \in Txn : InFlight(t) /\ flushed[t] = Len(mutations[t])
    <2>1. PICK t \in Txn : InFlight(t) /\ flushed[t] = Len(mutations[t])
        BY <1>6, Zenon
    <2>2. commitTS[t] = clock + 1 /\ mutations[t] # <<>> /\ \A u \in Txn : InFlight(u) => u = t
        BY <2>1, Zenon DEF StoreInv, FlightInv
    <2>3. clock + 1 \in Timestamp
        BY <2>2, <1>5 DEF TypeInv, TypeOK, Timestamp
    <2>4. PICK k \in Key : Effect(mutations[t], k) # None
        BY <2>2, SomethingWritten, Zenon DEF TypeInv, TypeOK
    <2>5. store[k][clock + 1] # None
        BY <2>1, <2>2, <2>4, SMTT(20) DEF StoreInv, FrontierInv, Effect
    <2>6. c >= clock + 1
        BY <1>1, <1>5, <2>3, <2>5 DEF IsRestartClock, Timestamp
    <2>7. \A j \in Key : \A ts \in Timestamp : ts > clock /\ store[j][ts] # None => ts = clock + 1
        BY <2>2, Zenon DEF StoreInv, FrontierInv
    <2>8. clock' = clock + 1
        BY <1>1, <1>5, <2>6, <2>7 DEF IsRestartClock, Timestamp
    <2>9. \A u \in Txn : Durable(u)' <=> Durable(u) \/ u = t
        BY <1>2, <1>3, <2>1, <2>2, SMTT(20) DEF Restart, Durable, TypeInv, TypeOK
    <2>10. TakesEffect(t)
        BY <1>2, <1>4, <2>1, <2>8, <2>9, Zenon DEF TakesEffect
    <2> QED BY <2>10, Zenon
<1>7. CASE ~\E t \in Txn : InFlight(t) /\ flushed[t] = Len(mutations[t])
    <2>1. \A t \in Txn : InFlight(t) => flushed[t] = 0
        BY <1>7, Zenon DEF StoreInv, FlightInv
    <2>2. \A k \in Key : \A ts \in Timestamp : ts > clock => store[k][ts] = None
        BY <2>1, NothingWritten DEF StoreInv, FrontierInv
    <2>3. c <= clock
        BY <1>1, <1>5, <2>2 DEF IsRestartClock, Timestamp
    <2>4. ASSUME clock # 1 PROVE c >= clock
        <3>0. clock \in 2..clock
            BY <1>5, <2>4
        <3>1. PICK t \in Txn : Durable(t) /\ commitTS[t] = clock
            BY <3>0, SMTT(20) DEF StoreInv, HistoryInv
        <3>2. PICK k \in Key : Effect(mutations[t], k) # None
            BY <3>1, SomethingWritten, Zenon DEF Durable, TypeInv, TypeOK
        <3>3. store[k][clock] # None
            BY <3>1, <3>2, Zenon DEF StoreInv, HistoryInv
        <3> QED BY <1>1, <1>5, <2>3, <3>3 DEF IsRestartClock, Timestamp, TypeInv, TypeOK
    <2>5. clock = 1 => c >= clock
        BY DEF Timestamp
    <2>6. clock' = clock
        BY <1>1, <1>5, <2>3, <2>4, <2>5 DEF Timestamp
    <2> QED BY <1>7, <2>1, <2>6, Zenon
<1> QED BY <1>6, <1>7, Zenon

LEMMA RestartKeeps ==
    ASSUME TypeInv, StoreInv, Restart
    PROVE  StoreInv'
<1>1. CASE \E t \in Txn : TakesEffect(t)
    BY <1>1, EffectKeeps, Zenon
<1>2. CASE /\ clock' = clock
           /\ \A t \in Txn : InFlight(t) => flushed[t] = 0 /\ flushed[t] # Len(mutations[t])
    <2>1. UNCHANGED <<store, readTS, mutations, commitTS, flushed>>
        BY Zenon DEF Restart
    <2>2. \A u \in Txn : InFlight(u) <=> phase[u] = "indoubt"
        BY Zenon DEF Restart, InFlight, TypeInv, OracleInv
    <2>3. \A u \in Txn : ~InFlight(u)'
        BY <2>2, Zenon DEF Restart, InFlight, TypeInv, TypeOK
    <2>4. \A u \in Txn : Durable(u)' <=> Durable(u)
        BY <1>2, <2>1, <2>2, Zenon DEF Restart, Durable, TypeInv, TypeOK
    <2>5. \A k \in Key : \A ts \in Timestamp : ts > clock => store[k][ts] = None
        <3>1. \A t \in Txn : InFlight(t) => \A k \in Key : store[k][commitTS[t]] = None
            BY <1>2, NothingWritten, SMTT(20) DEF StoreInv, FrontierInv
        <3> QED BY <3>1, SMTT(20) DEF StoreInv, FrontierInv
    <2>6. FlightInv' /\ FrontierInv'
        BY <1>2, <2>1, <2>3, <2>5, SMTT(20) DEF FlightInv, FrontierInv, InFlight
    <2>7. HistoryInv'
        BY <1>2, <2>1, <2>4, HistoryFrame, SMTT(20) DEF StoreInv
    <2>8. NoLostUpdateInFlight'
        BY <2>1, <2>3, <2>4, Zenon DEF StoreInv, NoLostUpdateInFlight
    <2> QED BY <2>6, <2>7, <2>8, Zenon DEF StoreInv
<1> QED BY <1>1, <1>2, RestartOutcome, Zenon

LEMMA StoreNext ==
    ASSUME MaxBatch >= MaxMutations, TypeInv, StoreInv, [Next]_vars
    PROVE  StoreInv'
<1>1. ASSUME NEW t \in Txn, Publish(t) PROVE StoreInv'
    BY <1>1, PublishKeeps, EffectKeeps, Zenon
<1>2. ASSUME NEW t \in Txn, FlushChunk(t) PROVE StoreInv'
    <2>1. Next
        BY <1>2, Zenon DEF Next, Committing
    <2> QED BY <1>2, <2>1, FlushKeeps, Zenon
<1> QED BY <1>1, <1>2, QuietSteps, QuietKeeps, ReserveKeeps, FailKeeps, RestartKeeps, Zenon
       DEF Next, Committing, StoreInv

\* A commit that took effect keeps what it wrote and when.
LEMMA DurableIsStable ==
    ASSUME TypeInv, [Next]_vars, NEW t \in Txn, Durable(t)
    PROVE  Durable(t)' /\ mutations'[t] = mutations[t] /\ commitTS'[t] = commitTS[t]
<1>1. mutations'[t] = mutations[t] /\ commitTS'[t] = commitTS[t]
    BY PastIsKept, Zenon DEF Durable, Open
<1>2. phase'[t] = phase[t]
    BY Zenon DEF Durable, Next, vars, Client, Committing, Begin, Buffer, Rollback, CommitEmpty,
       CommitCall, CommitReadError, CommitConflict, CommitReserve, FlushChunk, FlushFail, Publish,
       Crash, Restart, Open, TypeInv, TypeOK
<1> QED BY <1>1, <1>2, Zenon DEF Durable

LEMMA ConflictNext ==
    ASSUME TypeInv, StoreInv, ConflictIsReal, [Next]_vars
    PROVE  ConflictIsReal'
<1> USE Assumptions
<1> SUFFICES ASSUME NEW t \in Txn, phase'[t] = "conflict"
             PROVE  \E u \in Txn : /\ Durable(u)'
                                   /\ readTS'[t] < commitTS'[u]
                                   /\ WriteSet(mutations'[t]) \cap WriteSet(mutations'[u]) # {}
    BY SMTT(20) DEF ConflictIsReal
<1>1. CASE phase[t] = "conflict"
    <2>1. mutations'[t] = mutations[t] /\ readTS'[t] = readTS[t]
        BY <1>1, PastIsKept, Zenon DEF Open
    <2> QED BY <1>1, <2>1, DurableIsStable DEF ConflictIsReal
<1>2. CASE phase[t] # "conflict"
    <2>1. CommitConflict(t)
        BY <1>2, Zenon DEF Next, vars, Client, Committing, Begin, Buffer, Rollback, CommitEmpty,
           CommitCall, CommitReadError, CommitConflict, CommitReserve, FlushChunk, FlushFail,
           Publish, Crash, Restart, TypeInv, TypeOK
    <2>2. PICK k \in WriteSet(mutations[t]), ts \in Timestamp :
              LatestVersion(store[k], ts) /\ ts > readTS[t]
        BY <2>1, Zenon DEF CommitConflict, Conflict
    <2>3. k \in Key /\ store[k][ts] # None
        BY <2>2, WriteSetInKey, Zenon DEF LatestVersion, IsNewest, TypeInv, TypeOK
    <2>4. up /\ readTS[t] \in 1..clock
        BY <2>1, Zenon DEF CommitConflict, TypeInv, OracleInv, Open
    <2>5. ts \in 2..clock
        BY <2>1, <2>2, <2>3, <2>4, NothingAhead, SMTT(20)
           DEF CommitConflict, TypeInv, TypeOK, Timestamp
    <2>6. PICK u \in Txn : Durable(u) /\ commitTS[u] = ts
        BY <2>5, SMTT(20) DEF StoreInv, HistoryInv
    <2>7. Effect(mutations[u], k) # None
        BY <2>3, <2>6, Zenon DEF StoreInv, HistoryInv
    <2>8. k \in WriteSet(mutations[u])
        BY <2>7, EffectValue, SMTT(20) DEF TypeInv, TypeOK
    <2>9. UNCHANGED <<readTS, mutations, commitTS>>
        BY <2>1, SMTT(20) DEF CommitConflict
    <2>10. Durable(u)'
        BY <2>6, DurableIsStable, SMTT(20)
    <2> QED BY <2>2, <2>6, <2>8, <2>9, <2>10, Zenon
<1> QED BY <1>1, <1>2, Zenon

LEMMA BatchInit == Init => StoreInv /\ ConflictIsReal
<1> SUFFICES ASSUME Init PROVE StoreInv /\ ConflictIsReal
    BY Zenon
<1>1. \A t \in Txn : ~InFlight(t) /\ ~Durable(t) /\ phase[t] = "idle"
    BY Zenon DEF Init, InFlight, Durable
<1>2. FlightInv /\ NoLostUpdateInFlight /\ ConflictIsReal
    BY <1>1, Zenon DEF FlightInv, NoLostUpdateInFlight, ConflictIsReal
<1>3. FrontierInv /\ HistoryInv
    BY <1>1 DEF Init, FrontierInv, HistoryInv
<1> QED BY <1>2, <1>3, Zenon DEF StoreInv

LEMMA BatchInvariant ==
    ASSUME MaxBatch >= MaxMutations
    PROVE  Spec => [](StoreInv /\ ConflictIsReal)
<1> DEFINE IInv == TypeInv /\ StoreInv /\ ConflictIsReal
<1>1. Init => IInv
    BY TypeInit, BatchInit, Zenon
<1>2. IInv /\ [Next]_vars => IInv'
    BY TypeNext, StoreNext, ConflictNext, Zenon
<1>3. Spec => []IInv
    BY <1>1, <1>2, PTL DEF Spec
<1> QED BY <1>3, PTL

\* When every batch fits one store transaction, readers find at each timestamp
\* exactly the writes of one transaction that took effect, all of them,
\* through failed flushes, crashes and restarts.
THEOREM CommitsAreAtomic ==
    ASSUME MaxBatch >= MaxMutations
    PROVE  Spec => []AtomicCommits
<1>1. StoreInv => AtomicCommits
    <2> SUFFICES ASSUME StoreInv, NEW ts \in 2..clock
                 PROVE  \E t \in Txn : /\ {u \in Txn : Durable(u) /\ commitTS[u] = ts} = {t}
                                       /\ \A k \in Key : store[k][ts] = Effect(mutations[t], k)
        BY Zenon DEF AtomicCommits
    <2>1. PICK t \in Txn : Durable(t) /\ commitTS[t] = ts
        BY SMTT(20) DEF StoreInv, HistoryInv
    <2>2. {u \in Txn : Durable(u) /\ commitTS[u] = ts} = {t}
        BY <2>1 DEF StoreInv, HistoryInv
    <2>3. \A k \in Key : store[k][ts] = Effect(mutations[t], k)
        BY <2>1, Zenon DEF StoreInv, HistoryInv
    <2> QED BY <2>2, <2>3, Zenon
<1> QED BY <1>1, BatchInvariant, PTL

\* The LatestVersion loop under commitMu prevents lost updates: a commit that
\* took effect overwrote no live value committed after its snapshot.
THEOREM UpdatesAreNotLost ==
    ASSUME MaxBatch >= MaxMutations
    PROVE  Spec => []NoLostUpdate
<1>1. StoreInv => NoLostUpdate
    BY Zenon DEF StoreInv, NoLostUpdateInFlight, NoLostUpdate
<1> QED BY <1>1, BatchInvariant, PTL

\* ErrWriteConflict is returned only when another transaction really committed
\* one of the keys after the snapshot.
THEOREM ConflictsAreReal ==
    ASSUME MaxBatch >= MaxMutations
    PROVE  Spec => []ConflictIsReal
BY BatchInvariant, PTL

-----------------------------------------------------------------------------
(* The refinement: when every batch fits one store transaction, TxnEngine  *)
(* implements SnapshotIsolation.  Each step of the engine is one step of   *)
(* the abstract history or none.                                           *)

\* The mapped history has one entry for every timestamp above 1 up to the
\* clock.
LEMMA HistoryShape ==
    ASSUME TypeInv
    PROVE  /\ Len(History) = clock - 1
           /\ History \in Seq([Key -> Written \cup {None}])
           /\ \A i \in 1..(clock - 1) : \A k \in Key : History[i][k] = store[k][i + 1]
<1>1. clock \in Nat /\ 1 <= clock /\ clock <= MaxTS /\ MaxTS \in Nat
    BY ClockType, Zenon
<1>2. \A i \in 1..(clock - 1) : [k \in Key |-> store[k][i + 1]] \in [Key -> Written \cup {None}]
    BY <1>1 DEF TypeInv, TypeOK, Timestamp
<1> QED BY <1>1, <1>2 DEF History

\* Nothing above the clock is part of the history.
LEMMA HistoryKept ==
    ASSUME TypeInv, clock' = clock,
           \A k \in Key : \A ts \in Timestamp : ts <= clock => store'[k][ts] = store[k][ts]
    PROVE  History' = History
<1>1. clock \in Nat /\ 1 <= clock /\ clock <= MaxTS /\ MaxTS \in Nat
    BY ClockType, Zenon
<1>2. \A i \in 1..(clock - 1) : \A k \in Key : store'[k][i + 1] = store[k][i + 1]
    BY <1>1 DEF Timestamp
<1> QED BY <1>2, Zenon DEF History

\* Append, point by point.
LEMMA AppendExtends ==
    ASSUME NEW S, NEW seq \in Seq(S), NEW elt \in S
    PROVE  Append(seq, elt) = [i \in 1..(Len(seq) + 1) |-> IF i <= Len(seq) THEN seq[i] ELSE elt]
<1>1. PICK longer : longer = Append(seq, elt)
    BY Zenon
<1>2. PICK n : n = Len(seq)
    BY Zenon
<1>3. /\ n \in Nat /\ longer \in Seq(S) /\ Len(longer) = n + 1 /\ longer[n + 1] = elt
      /\ \A i \in 1..n : longer[i] = seq[i]
    BY <1>1, <1>2
<1>4. longer = [i \in 1..(n + 1) |-> longer[i]]
    BY <1>3
<1>5. \A i \in 1..(n + 1) : longer[i] = IF i <= n THEN seq[i] ELSE elt
    BY <1>3
<1>6. longer = [i \in 1..(n + 1) |-> IF i <= n THEN seq[i] ELSE elt]
    BY <1>4, <1>5, Zenon
<1> QED BY <1>1, <1>2, <1>6, Zenon

\* A commit that takes effect adds its writes to the history, whole.
LEMMA HistoryGrows ==
    ASSUME TypeInv, TypeInv', StoreInv, NEW t \in Txn, TakesEffect(t)
    PROVE  History' = Append(History, Effects[t])
<1>1. clock \in Nat /\ 1 <= clock /\ clock' = clock + 1
    BY ClockType, Zenon DEF TakesEffect
<1>2. commitTS[t] = clock + 1
    BY Zenon DEF TakesEffect, StoreInv, FlightInv
<1>3. \A k \in Key : store[k][clock + 1] = Effect(mutations[t], k)
    BY <1>2, SMTT(20) DEF TakesEffect, StoreInv, FrontierInv, Effect
<1>4. Effects[t] = [k \in Key |-> store[k][clock + 1]]
    BY <1>3, Zenon DEF Effects
<1>5. store' = store
    BY Zenon DEF TakesEffect
<1>6. History' = [i \in 1..clock |-> [k \in Key |-> store[k][i + 1]]]
    <2>1. clock' - 1 = clock
        BY <1>1
    <2>2. History' = [i \in 1..(clock' - 1) |-> [k \in Key |-> store'[k][i + 1]]]
        BY Zenon DEF History
    <2> QED BY <1>5, <2>1, <2>2, Zenon
<1>7. Len(History) = clock - 1 /\ \A i \in 1..(clock - 1) : History[i] = [k \in Key |-> store[k][i + 1]]
    BY HistoryShape, Zenon DEF History
<1>8. History \in Seq([Key -> Written \cup {None}]) /\ Effects[t] \in [Key -> Written \cup {None}]
    <2>1. clock + 1 \in Timestamp
        BY <1>1, <1>2, Zenon DEF TypeInv, TypeOK, Timestamp
    <2>2. Effects[t] \in [Key -> Written \cup {None}]
        BY <1>4, <2>1, SMTT(20) DEF TypeInv, TypeOK
    <2> QED BY <2>2, HistoryShape, Zenon
<1>9. Append(History, Effects[t])
      = [i \in 1..clock |-> IF i <= clock - 1 THEN History[i] ELSE Effects[t]]
    <2>1. (clock - 1) + 1 = clock
        BY <1>1
    <2>2. Append(History, Effects[t])
          = [i \in 1..(Len(History) + 1) |-> IF i <= Len(History) THEN History[i] ELSE Effects[t]]
        BY <1>8, AppendExtends
    <2>3. Len(History) = clock - 1
        BY <1>7, Zenon
    <2> QED BY <2>1, <2>2, <2>3, Zenon
<1>10. \A i \in 1..clock : (IF i <= clock - 1 THEN History[i] ELSE Effects[t])
                            = [k \in Key |-> store[k][i + 1]]
    BY <1>1, <1>4, <1>7
<1> QED BY <1>6, <1>9, <1>10, Zenon

\* The engine's check under the lock is the abstract one: a commit in flight
\* overwrites no live value its snapshot did not show.
LEMMA NoAbstractConflict ==
    ASSUME TypeInv, StoreInv, NEW t \in Txn, InFlight(t)
    PROVE  ~SI!Conflict(t)
<1> SUFFICES ASSUME NEW k \in Key, NEW i \in (Snapshots[t] + 1)..Len(History),
                    Effects[t][k] # None, SI!IsNewest(k, i), History[i][k] # Tombstone
             PROVE  FALSE
    BY Zenon DEF SI!Conflict
<1>1. clock \in Nat /\ 1 <= clock /\ clock <= MaxTS /\ MaxTS \in Nat
    BY ClockType, Zenon
<1>2. commitTS[t] = clock + 1 /\ readTS[t] \in 1..clock
    BY Zenon DEF StoreInv, FlightInv
<1>3. Snapshots[t] = readTS[t] - 1
    <2>1. readTS[t] # 0
        BY <1>2
    <2> QED BY <2>1, Zenon DEF Snapshots
<1>4. i \in readTS[t]..(clock - 1) /\ i \in 1..(clock - 1)
    <2>1. Len(History) = clock - 1
        BY HistoryShape, Zenon
    <2> QED BY <1>1, <1>2, <1>3, <2>1, SMTT(20)
<1>5. i + 1 \in Timestamp /\ readTS[t] < i + 1 /\ i + 1 <= commitTS[t] - 1
    BY <1>1, <1>2, <1>4 DEF Timestamp
<1>6. k \in WriteSet(mutations[t])
    BY EffectValue, Zenon DEF Effects, TypeInv, TypeOK
<1>7. store[k][i + 1] # None /\ store[k][i + 1] # Tombstone
    BY <1>4, HistoryShape, Zenon DEF SI!IsNewest
<1>8. ASSUME NEW w \in Timestamp, i + 1 < w, w <= commitTS[t] - 1 PROVE store[k][w] = None
    <2>1. w - 1 \in (i + 1)..Len(History) /\ w - 1 \in 1..(clock - 1) /\ (w - 1) + 1 = w
        BY <1>1, <1>2, <1>4, <1>8, HistoryShape DEF Timestamp
    <2>2. History[w - 1][k] = None
        BY <2>1, Zenon DEF SI!IsNewest
    <2> QED BY <2>1, <2>2, HistoryShape, Zenon
<1>9. IsNewest(store[k], i + 1, commitTS[t] - 1)
    BY <1>5, <1>7, <1>8, Zenon DEF IsNewest
<1> QED BY <1>5, <1>6, <1>7, <1>9, Zenon DEF StoreInv, NoLostUpdateInFlight

-----------------------------------------------------------------------------
(* Each step of the engine is a step of SnapshotIsolation, or none.        *)

\* The history is what the store holds up to the clock, and nothing else.
LEMMA HistoryUnmoved ==
    ASSUME TypeInv, UNCHANGED <<store, clock>> PROVE History' = History
BY Zenon DEF History

LEMMA BeginRefines ==
    ASSUME TypeInv, NEW t \in Txn, Begin(t) PROVE SI!Begin(t)
<1>1. clock \in Nat /\ 1 <= clock /\ Len(History) = clock - 1
    BY ClockType, HistoryShape, Zenon
<1>2. AbstractStatus[t] = "idle" /\ AbstractStatus' = [AbstractStatus EXCEPT ![t] = "open"]
    BY Zenon DEF Begin, AbstractStatus, Open, TypeInv, TypeOK
<1>3. Snapshots' = [Snapshots EXCEPT ![t] = Len(History)]
    <2>1. readTS'[t] = clock /\ \A u \in Txn \ {t} : readTS'[u] = readTS[u]
        BY Zenon DEF Begin, ReadSnapshot, TypeInv, TypeOK
    <2>2. Snapshots'[t] = Len(History)
        BY <1>1, <2>1 DEF Snapshots
    <2>3. \A u \in Txn \ {t} : Snapshots'[u] = Snapshots[u]
        BY <2>1, Zenon DEF Snapshots
    <2>4. Snapshots = [u \in Txn |-> Snapshots[u]] /\ Snapshots' = [u \in Txn |-> Snapshots'[u]]
        BY Zenon DEF Snapshots
    <2> QED BY <2>2, <2>3, <2>4, Zenon
<1>4. History' = History /\ Effects' = Effects
    BY HistoryUnmoved, Zenon DEF Begin, Effects
<1> QED BY <1>2, <1>3, <1>4, Zenon DEF SI!Begin

LEMMA BufferRefines ==
    ASSUME TypeInv, NEW t \in Txn, NEW m \in Mutation, Buffer(t, m)
    PROVE  SI!Write(t, m.key, m.val)
<1>1. AbstractStatus[t] = "open" /\ AbstractStatus' = AbstractStatus
    BY Zenon DEF Buffer, AbstractStatus, Open, TypeInv, TypeOK
<1>2. History' = History /\ Snapshots' = Snapshots
    BY HistoryUnmoved, Zenon DEF Buffer, Snapshots
<1>3. Effects' = [Effects EXCEPT ![t][m.key] = m.val]
    <2>1. m.key \in Key
        BY Zenon DEF Mutation
    <2>2. mutations'[t] = Append(mutations[t], m) /\ \A u \in Txn \ {t} : mutations'[u] = mutations[u]
        BY Zenon DEF Buffer, TypeInv, TypeOK
    <2>3. \A k \in Key : Effect(mutations'[t], k)
                            = IF k = m.key THEN m.val ELSE Effect(mutations[t], k)
        BY <2>2, EffectOfAppend DEF TypeInv, TypeOK
    <2>4. Effects'[t] = [Effects[t] EXCEPT ![m.key] = m.val]
        <3>1. \A k \in Key : Effects'[t][k] = IF k = m.key THEN m.val ELSE Effects[t][k]
            BY <2>3, Zenon DEF Effects
        <3>2. /\ Effects[t] = [k \in Key |-> Effects[t][k]]
              /\ Effects'[t] = [k \in Key |-> Effects'[t][k]]
            BY Zenon DEF Effects
        <3> QED BY <2>1, <3>1, <3>2, Zenon
    <2>5. \A u \in Txn \ {t} : Effects'[u] = Effects[u]
        BY <2>2, Zenon DEF Effects
    <2>6. Effects = [u \in Txn |-> Effects[u]] /\ Effects' = [u \in Txn |-> Effects'[u]]
        BY Zenon DEF Effects
    <2> QED BY <2>4, <2>5, <2>6, Zenon
<1> QED BY <1>1, <1>2, <1>3, Zenon DEF SI!Write

LEMMA AbortRefines ==
    ASSUME TypeInv, NEW t \in Txn, Rollback(t) \/ CommitConflict(t) \/ FlushFail(t)
    PROVE  SI!Abort(t)
<1>1. AbstractStatus[t] = "open" /\ AbstractStatus' = [AbstractStatus EXCEPT ![t] = "aborted"]
    BY Zenon DEF Rollback, CommitConflict, FlushFail, AbstractStatus, Open, TypeInv, TypeOK
<1>2. History' = History /\ Snapshots' = Snapshots
    BY HistoryUnmoved, Zenon DEF Rollback, CommitConflict, FlushFail, Snapshots
<1>3. Effects' \in {Effects, [Effects EXCEPT ![t] = SI!NoWrites]}
    <2>1. CASE mutations' = mutations
        BY <2>1, Zenon DEF Effects
    <2>2. CASE mutations' = [mutations EXCEPT ![t] = <<>>]
        <3>1. \A k : Effect(<<>>, k) = None
            BY DEF Effect, LastWrite
        <3> QED BY <2>2, <3>1, Zenon DEF Effects, SI!NoWrites, TypeInv, TypeOK
    <2> QED BY <2>1, <2>2, Zenon DEF Rollback, CommitConflict, FlushFail
<1> QED BY <1>1, <1>2, <1>3, Zenon DEF SI!Abort

LEMMA EmptyRefines ==
    ASSUME TypeInv, NEW t \in Txn, CommitEmpty(t) PROVE SI!Commit(t)
<1>1. AbstractStatus[t] = "open" /\ AbstractStatus' = [AbstractStatus EXCEPT ![t] = "committed"]
    BY Zenon DEF CommitEmpty, AbstractStatus, Open, TypeInv, TypeOK
<1>2. History' = History /\ Snapshots' = Snapshots /\ Effects' = Effects
    BY HistoryUnmoved, Zenon DEF CommitEmpty, Snapshots, Effects
<1>3. Effects[t] = SI!NoWrites
    <2>1. \A k : Effect(<<>>, k) = None
        BY DEF Effect, LastWrite
    <2> QED BY <2>1, Zenon DEF CommitEmpty, Effects, SI!NoWrites
<1> QED BY <1>1, <1>2, <1>3, Zenon DEF SI!Commit

\* The clock store is the abstract commit point.
LEMMA PublishRefines ==
    ASSUME TypeInv, TypeInv', StoreInv, NEW t \in Txn, Publish(t) PROVE SI!Commit(t)
<1>1. AbstractStatus[t] = "open" /\ AbstractStatus' = [AbstractStatus EXCEPT ![t] = "committed"]
    BY Zenon DEF Publish, AbstractStatus, Open, TypeInv, TypeOK
<1>2. Snapshots' = Snapshots /\ Effects' = Effects
    BY Zenon DEF Publish, Snapshots, Effects
<1>3. TakesEffect(t)
    BY PublishKeeps, Zenon
<1>4. History' = Append(History, Effects[t]) /\ ~SI!Conflict(t)
    BY <1>3, HistoryGrows, NoAbstractConflict, Zenon DEF TakesEffect
<1>5. Effects[t] # SI!NoWrites
    <2>1. mutations[t] # <<>>
        BY <1>3, Zenon DEF TakesEffect, StoreInv, FlightInv
    <2>2. PICK k \in Key : Effect(mutations[t], k) # None
        BY <2>1, SomethingWritten, Zenon DEF TypeInv, TypeOK
    <2> QED BY <2>2, Zenon DEF Effects, SI!NoWrites
<1> QED BY <1>1, <1>2, <1>4, <1>5, Zenon DEF SI!Commit

LEMMA CrashRefines ==
    ASSUME TypeInv, StoreInv, Crash PROVE SI!Crash
<1> DEFINE doubt == {t \in Txn : phase[t] = "flushing"}
<1>1. doubt \in SUBSET {t \in Txn : AbstractStatus[t] = "open"}
    BY Zenon DEF AbstractStatus, Open
<1>2. \A t, u \in doubt : t = u
    BY Zenon DEF StoreInv, FlightInv, InFlight
<1>3. AbstractStatus' = [t \in Txn |-> IF t \in doubt THEN "indoubt"
                                       ELSE IF AbstractStatus[t] = "open" THEN "aborted"
                                       ELSE AbstractStatus[t]]
    BY Zenon DEF Crash, AbstractStatus, Open, TypeInv, TypeOK
<1>4. History' = History /\ Snapshots' = Snapshots /\ Effects' = Effects
    BY HistoryUnmoved, Zenon DEF Crash, Snapshots, Effects
<1> HIDE DEF doubt
<1> QED BY <1>1, <1>2, <1>3, <1>4, Zenon DEF SI!Crash

\* New finds the batch in doubt in the store, whole, or finds nothing of it.
LEMMA RestartRefines ==
    ASSUME TypeInv, TypeInv', StoreInv, Restart
    PROVE  (\E t \in Txn : SI!Recover(t)) \/ UNCHANGED SI!vars
<1>1. Snapshots' = Snapshots /\ Effects' = Effects /\ store' = store
    BY Zenon DEF Restart, Snapshots, Effects
<1>2. \A u \in Txn : InFlight(u) <=> phase[u] = "indoubt"
    BY Zenon DEF Restart, InFlight, TypeInv, OracleInv
<1>3. \A t, u \in Txn : InFlight(t) /\ InFlight(u) => t = u
    BY Zenon DEF StoreInv, FlightInv
<1>4. CASE \E t \in Txn : TakesEffect(t)
    <2>1. PICK t \in Txn : TakesEffect(t)
        BY <1>4, Zenon
    <2>2. phase[t] = "indoubt" /\ flushed[t] = Len(mutations[t])
        BY <1>2, <2>1, Zenon DEF TakesEffect
    <2>3. \A u \in Txn \ {t} : phase[u] # "indoubt"
        BY <1>2, <1>3, <2>2, Zenon
    <2>4. phase' = [phase EXCEPT ![t] = "recovered"]
        BY <2>2, <2>3, Zenon DEF Restart, TypeInv, TypeOK
    <2>5. AbstractStatus[t] = "indoubt" /\ AbstractStatus' = [AbstractStatus EXCEPT ![t] = "committed"]
        BY <2>2, <2>4, Zenon DEF AbstractStatus, Open, TypeInv, TypeOK
    <2>6. History' = Append(History, Effects[t]) /\ ~SI!Conflict(t)
        BY <2>1, HistoryGrows, NoAbstractConflict, Zenon DEF TakesEffect
    <2>7. SI!Recover(t)
        BY <1>1, <2>5, <2>6, Zenon DEF SI!Recover
    <2> QED BY <2>7, Zenon
<1>5. CASE /\ clock' = clock
           /\ \A t \in Txn : InFlight(t) => flushed[t] = 0 /\ flushed[t] # Len(mutations[t])
    <2>1. History' = History
        BY <1>1, <1>5, HistoryUnmoved, Zenon
    <2>2. CASE \E t \in Txn : InFlight(t)
        <3>1. PICK t \in Txn : InFlight(t)
            BY <2>2, Zenon
        <3>2. phase[t] = "indoubt" /\ flushed[t] # Len(mutations[t])
            BY <1>2, <1>5, <3>1, Zenon
        <3>3. \A u \in Txn \ {t} : phase[u] # "indoubt"
            BY <1>2, <1>3, <3>2, Zenon
        <3>4. phase' = [phase EXCEPT ![t] = "lost"]
            BY <3>2, <3>3, Zenon DEF Restart, TypeInv, TypeOK
        <3>5. AbstractStatus[t] = "indoubt" /\ AbstractStatus' = [AbstractStatus EXCEPT ![t] = "aborted"]
            BY <3>2, <3>4, Zenon DEF AbstractStatus, Open, TypeInv, TypeOK
        <3>6. SI!Recover(t)
            BY <1>1, <2>1, <3>5, Zenon DEF SI!Recover
        <3> QED BY <3>6, Zenon
    <2>3. CASE ~\E t \in Txn : InFlight(t)
        <3>1. phase' = phase
            BY <1>2, <2>3, Zenon DEF Restart, TypeInv, TypeOK
        <3>2. AbstractStatus' = AbstractStatus
            BY <3>1, Zenon DEF AbstractStatus
        <3> QED BY <1>1, <2>1, <3>2, Zenon DEF SI!vars
    <2> QED BY <2>2, <2>3, Zenon
<1> QED BY <1>4, <1>5, RestartOutcome, Zenon

\* Waiting for the lock, the check and the flush show outside only when the
\* clock moves.
LEMMA InnerStepsStutter ==
    ASSUME TypeInv, [Next]_vars, NEW t \in Txn,
           CommitCall(t) \/ CommitReadError(t) \/ CommitReserve(t) \/ FlushChunk(t)
    PROVE  UNCHANGED SI!vars
<1>1. AbstractStatus' = AbstractStatus
    BY Zenon DEF CommitCall, CommitReadError, CommitReserve, FlushChunk, AbstractStatus, Open, TypeInv, TypeOK
<1>2. Snapshots' = Snapshots /\ Effects' = Effects
    BY Zenon DEF CommitCall, CommitReadError, CommitReserve, FlushChunk, Snapshots, Effects
<1>3. clock' = clock
    BY Zenon DEF CommitCall, CommitReadError, CommitReserve, FlushChunk
<1>4. History' = History
    BY <1>3, PublishedIsImmutable, HistoryKept, Zenon
<1> QED BY <1>1, <1>2, <1>4, Zenon DEF SI!vars

\* When every batch fits one store transaction, the engine with its lock, its
\* oracle, its flush, failed flushes, crashes and restarts shows its callers
\* nothing but SnapshotIsolation: the clock store in Commit, or the restart that
\* finds the batch, is the one instant at which a commit happens.
THEOREM EngineIsSnapshotIsolation ==
    ASSUME MaxBatch >= MaxMutations
    PROVE  Spec => ImplementsSnapshotIsolation
<1>1. Init => SI!Init
    <2> SUFFICES ASSUME Init PROVE SI!Init
        BY Zenon
    <2>1. \A k : Effect(<<>>, k) = None
        BY DEF Effect, LastWrite
    <2>2. History = <<>>
        BY DEF Init, History
    <2>3. Snapshots = [t \in Txn |-> 0] /\ AbstractStatus = [t \in Txn |-> "idle"]
        BY Zenon DEF Init, Snapshots, AbstractStatus
    <2>4. Effects = [t \in Txn |-> SI!NoWrites]
        BY <2>1, Zenon DEF Init, Effects, SI!NoWrites
    <2> QED BY <2>2, <2>3, <2>4, Zenon DEF SI!Init
<1>2. TypeInv /\ TypeInv' /\ StoreInv /\ [Next]_vars => [SI!Next]_SI!vars
    <2> SUFFICES ASSUME TypeInv, TypeInv', StoreInv, [Next]_vars PROVE [SI!Next]_SI!vars
        BY Zenon
    <2>1. ASSUME NEW t \in Txn, Begin(t) PROVE SI!Next
        BY <2>1, BeginRefines, Zenon DEF SI!Next
    <2>2. ASSUME NEW t \in Txn, NEW m \in Mutation, Buffer(t, m) PROVE SI!Next
        <3>1. SI!Write(t, m.key, m.val) /\ m.key \in Key /\ m.val \in Value \cup {Tombstone}
            BY <2>2, BufferRefines, Zenon DEF Mutation, Written
        <3> QED BY <3>1, Zenon DEF SI!Next
    <2>3. ASSUME NEW t \in Txn, Rollback(t) \/ CommitConflict(t) \/ FlushFail(t) PROVE SI!Next
        BY <2>3, AbortRefines, Zenon DEF SI!Next
    <2>4. ASSUME NEW t \in Txn, CommitEmpty(t) \/ Publish(t) PROVE SI!Next
        BY <2>4, EmptyRefines, PublishRefines, Zenon DEF SI!Next
    <2>5. CASE Crash
        BY <2>5, CrashRefines, Zenon DEF SI!Next
    <2>6. CASE Restart
        BY <2>6, RestartRefines, Zenon DEF SI!Next
    <2>7. ASSUME NEW t \in Txn,
                 CommitCall(t) \/ CommitReadError(t) \/ CommitReserve(t) \/ FlushChunk(t)
          PROVE  UNCHANGED SI!vars
        BY <2>7, InnerStepsStutter, Zenon
    <2>8. CASE UNCHANGED vars
        BY <2>8, Zenon DEF vars, SI!vars, History, Snapshots, Effects, AbstractStatus
    <2> QED BY <2>1, <2>2, <2>3, <2>4, <2>5, <2>6, <2>7, <2>8, Zenon DEF Next, Client, Committing
<1>3. Spec => []TypeInv
    BY TypeInit, TypeNext, PTL DEF Spec
<1>4. Spec => []StoreInv
    BY BatchInvariant, PTL
<1> QED BY <1>1, <1>2, <1>3, <1>4, PTL DEF Spec, SI!Spec, ImplementsSnapshotIsolation
============================================================================
