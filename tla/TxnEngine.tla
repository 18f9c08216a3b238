----------------------------- MODULE TxnEngine -----------------------------
(***************************************************************************)
(* The single-node transaction engine of engine/internal/transactions over *)
(* the managed-mode store of engine/internal/storage: multi-version keys,  *)
(* a timestamp oracle, snapshot reads, and first-committer-wins commits    *)
(* that hold commitMu from the conflict check to the publication of the    *)
(* commit timestamp.  The engine process may crash at any point; what the  *)
(* store has taken in survives, the oracle is rebuilt from it.             *)
(***************************************************************************)
EXTENDS ManagedStore, Sequences

CONSTANTS
    Txn,          \* transactions, each run once
    Key, Value,   \* keys and the values written to them
    NoTxn,        \* commitMu is free
    MaxMutations, \* bound on the mutations of one transaction
    MaxBatch      \* mutations that fit one transaction of the underlying store

ASSUME TxnEngineAssumption ==
    /\ MaxTS # 0
    /\ MaxMutations \in Nat
    /\ MaxBatch \in Nat \ {0}
    /\ Tombstone \notin Value
    /\ None \notin Value \cup {Tombstone}
    /\ NoTxn \notin Txn

VARIABLES
    store,      \* store[k][ts]: the version of key k written at timestamp ts
    clock,      \* engine.clock, the read oracle
    commitMu,   \* the holder of engine.commitMu, or NoTxn
    up,         \* the process is running
    phase,      \* how far each transaction has got
    readTS,     \* Txn.readUint
    mutations,  \* Txn.mutations
    commitTS,   \* the timestamp a commit reserved, 0 before
    flushed     \* how many of its mutations the store has taken in

vars == <<store, clock, commitMu, up, phase, readTS, mutations, commitTS, flushed>>

Written  == Value \cup {Tombstone}
Mutation == [key : Key, val : Written]

\* "waiting" is inside Commit at commitMu.Lock, "flushing" holds the lock past
\* the conflict check.  A crash leaves a flushing transaction "indoubt" until
\* the restart shows whether its batch survived.
Open     == {"active", "waiting"}
Finished == {"committed", "recovered", "conflict", "rolledback", "failed", "lost"}
Phase    == {"idle", "flushing", "indoubt"} \cup Open \cup Finished

-----------------------------------------------------------------------------
(* The oracle after a restart.                                             *)

\* Variant: the oracle starts over at 1 on every start.
RestartClockForgets(c) == c = 1

\* c = max(1, MaxVersion()), the value New stores in the oracle.
IsRestartClock(c) ==
    /\ c = 1 \/ \E k \in Key : store[k][c] # None
    /\ \A k \in Key : \A w \in Timestamp : c < w => store[k][w] = None

-----------------------------------------------------------------------------
(* What a transaction wrote and what it reads.  muts is Txn.mutations.     *)

WriteSet(muts) == {muts[i].key : i \in DOMAIN muts}

\* i is the newest mutation of k among the first n.
IsLast(muts, k, i, n) ==
    /\ muts[i].key = k
    /\ \A j \in 1..n : i < j => muts[j].key # k

\* What the first n mutations leave for key k: the last one wins.
LastWrite(muts, k, n) ==
    IF \E i \in 1..n : muts[i].key = k
    THEN muts[CHOOSE i \in 1..n : IsLast(muts, k, i, n)].val
    ELSE None

Effect(muts, k) == LastWrite(muts, k, Len(muts))

\* engine.Get: the newest buffered mutation of the key, else the snapshot.
Get(t, k) ==
    LET own == Effect(mutations[t], k) IN
    IF own = None THEN SnapshotRead(store[k], readTS[t])
    ELSE IF own = Tombstone THEN None ELSE own

\* Variant: only versions two past the snapshot count.
ConflictOffByOne(t) ==
    \E k \in WriteSet(mutations[t]) : \E ts \in Timestamp :
        LatestVersion(store[k], ts) /\ ts > readTS[t] + 1

\* Variant: the version the snapshot shows counts too.
ConflictSpurious(t) ==
    \E k \in WriteSet(mutations[t]) : \E ts \in Timestamp :
        LatestVersion(store[k], ts) /\ ts >= readTS[t]

Conflict(t) ==
    \E k \in WriteSet(mutations[t]) : \E ts \in Timestamp :
        LatestVersion(store[k], ts) /\ ts > readTS[t]

-----------------------------------------------------------------------------
Init ==
    /\ store = [k \in Key |-> [ts \in Timestamp |-> None]]
    /\ clock = 1
    /\ commitMu = NoTxn
    /\ up = TRUE
    /\ phase = [t \in Txn |-> "idle"]
    /\ readTS = [t \in Txn |-> 0]
    /\ mutations = [t \in Txn |-> <<>>]
    /\ commitTS = [t \in Txn |-> 0]
    /\ flushed = [t \in Txn |-> 0]

\* Variant: a reader captures the timestamp the running commit has reserved.
ReadSnapshotReserved == IF commitMu = NoTxn THEN clock ELSE clock + 1

\* clock.Load() in Begin.
ReadSnapshot == clock

\* Variant: commitMu is not taken.
LockIgnored == TRUE

\* commitMu.Lock() returns.
LockFree == commitMu = NoTxn

\* Variant: the timestamp is taken one too far.
NextTSSkipsOne == clock + 2

\* clock.Load() + 1 in Commit.
NextTS == clock + 1

Begin(t) ==
    /\ up
    /\ phase[t] = "idle"
    /\ phase' = [phase EXCEPT ![t] = "active"]
    /\ readTS' = [readTS EXCEPT ![t] = ReadSnapshot]
    /\ UNCHANGED <<store, clock, commitMu, up, mutations, commitTS, flushed>>

Buffer(t, m) ==
    /\ phase[t] = "active"
    /\ Len(mutations[t]) < MaxMutations
    /\ mutations' = [mutations EXCEPT ![t] = Append(@, m)]
    /\ UNCHANGED <<store, clock, commitMu, up, phase, readTS, commitTS, flushed>>

Rollback(t) ==
    /\ phase[t] = "active"
    /\ phase' = [phase EXCEPT ![t] = "rolledback"]
    /\ mutations' = [mutations EXCEPT ![t] = <<>>]
    /\ UNCHANGED <<store, clock, commitMu, up, readTS, commitTS, flushed>>

\* Commit with nothing buffered completes without a timestamp.
CommitEmpty(t) ==
    /\ phase[t] = "active"
    /\ mutations[t] = <<>>
    /\ phase' = [phase EXCEPT ![t] = "committed"]
    /\ UNCHANGED <<store, clock, commitMu, up, readTS, mutations, commitTS, flushed>>

\* Commit reaches commitMu.Lock.
CommitCall(t) ==
    /\ phase[t] = "active"
    /\ mutations[t] # <<>>
    /\ phase' = [phase EXCEPT ![t] = "waiting"]
    /\ UNCHANGED <<store, clock, commitMu, up, readTS, mutations, commitTS, flushed>>

\* LatestVersion fails: Commit returns the error, the transaction stays open.
CommitReadError(t) ==
    /\ phase[t] = "waiting"
    /\ LockFree
    /\ phase' = [phase EXCEPT ![t] = "active"]
    /\ UNCHANGED <<store, clock, commitMu, up, readTS, mutations, commitTS, flushed>>

\* The lock is taken, a written key has a newer version, the lock is released.
CommitConflict(t) ==
    /\ phase[t] = "waiting"
    /\ LockFree
    /\ Conflict(t)
    /\ phase' = [phase EXCEPT ![t] = "conflict"]
    /\ UNCHANGED <<store, clock, commitMu, up, readTS, mutations, commitTS, flushed>>

\* The lock is taken, the check passes, clock + 1 is reserved.
CommitReserve(t) ==
    /\ phase[t] = "waiting"
    /\ LockFree
    /\ ~Conflict(t)
    /\ clock < MaxTS
    /\ commitMu' = t
    /\ phase' = [phase EXCEPT ![t] = "flushing"]
    /\ commitTS' = [commitTS EXCEPT ![t] = NextTS]
    /\ UNCHANGED <<store, clock, up, readTS, mutations, flushed>>

\* The write batch hands the store its next transaction of at most MaxBatch
\* mutations; each such transaction is atomic, the batch as a whole is not.
NextChunk(t) ==
    IF flushed[t] + MaxBatch < Len(mutations[t])
    THEN flushed[t] + MaxBatch
    ELSE Len(mutations[t])

FlushChunk(t) ==
    /\ phase[t] = "flushing"
    /\ flushed[t] < Len(mutations[t])
    /\ flushed' = [flushed EXCEPT ![t] = NextChunk(t)]
    /\ store' = [k \in Key |-> [ts \in Timestamp |->
                    IF ts = commitTS[t] /\ LastWrite(mutations[t], k, NextChunk(t)) # None
                    THEN LastWrite(mutations[t], k, NextChunk(t))
                    ELSE store[k][ts]]]
    /\ UNCHANGED <<clock, commitMu, up, phase, readTS, mutations, commitTS>>

\* Variant: the error path returns without unlocking commitMu.
FlushFailKeepsLock(t) ==
    /\ phase[t] = "flushing"
    /\ flushed[t] < Len(mutations[t])
    /\ phase' = [phase EXCEPT ![t] = "failed"]
    /\ UNCHANGED <<store, clock, commitMu, up, readTS, mutations, commitTS, flushed>>

\* wb.Set, wb.Delete or wb.Flush fails before the whole batch is in: the clock
\* is not advanced, the chunks already taken in stay in the store.
FlushFail(t) ==
    /\ phase[t] = "flushing"
    /\ flushed[t] < Len(mutations[t])
    /\ phase' = [phase EXCEPT ![t] = "failed"]
    /\ commitMu' = NoTxn
    /\ UNCHANGED <<store, clock, up, readTS, mutations, commitTS, flushed>>

\* clock.Store(commitTS), the no-op Propose of LocalCommitter, the unlock.
Publish(t) ==
    /\ phase[t] = "flushing"
    /\ flushed[t] = Len(mutations[t])
    /\ clock' = commitTS[t]
    /\ commitMu' = NoTxn
    /\ phase' = [phase EXCEPT ![t] = "committed"]
    /\ UNCHANGED <<store, up, readTS, mutations, commitTS, flushed>>

\* The process dies: every open transaction is gone with its buffer.
Crash ==
    /\ up
    /\ up' = FALSE
    /\ commitMu' = NoTxn
    /\ phase' = [t \in Txn |-> IF phase[t] \in Open THEN "lost"
                               ELSE IF phase[t] = "flushing" THEN "indoubt" ELSE phase[t]]
    /\ UNCHANGED <<store, clock, readTS, mutations, commitTS, flushed>>

\* New over the reopened store.
Restart ==
    /\ ~up
    /\ up' = TRUE
    /\ \E c \in Timestamp : IsRestartClock(c) /\ clock' = c
    /\ phase' = [t \in Txn |->
                    IF phase[t] # "indoubt" THEN phase[t]
                    ELSE IF flushed[t] = Len(mutations[t]) THEN "recovered" ELSE "lost"]
    /\ UNCHANGED <<store, commitMu, readTS, mutations, commitTS, flushed>>

Client(t) ==
    \/ Begin(t)
    \/ \E m \in Mutation : Buffer(t, m)
    \/ Rollback(t)
    \/ CommitEmpty(t)
    \/ CommitCall(t)

\* The steps of a Commit that was called.
Committing(t) == CommitConflict(t) \/ CommitReserve(t) \/ FlushChunk(t) \/ Publish(t)

Next ==
    \/ \E t \in Txn : Client(t) \/ Committing(t) \/ CommitReadError(t) \/ FlushFail(t)
    \/ Crash
    \/ Restart

Spec == Init /\ [][Next]_vars

-----------------------------------------------------------------------------
(* Properties.                                                             *)

\* The shape of the state: timestamps stay in range and no transaction has
\* flushed more than it buffered.
TypeOK ==
    /\ store \in [Key -> [Timestamp -> Written \cup {None}]]
    /\ clock \in Timestamp
    /\ commitMu \in Txn \cup {NoTxn}
    /\ up \in BOOLEAN
    /\ phase \in [Txn -> Phase]
    /\ readTS \in [Txn -> 0..MaxTS]
    /\ mutations \in [Txn -> Seq(Mutation)]
    /\ commitTS \in [Txn -> 0..MaxTS]
    /\ flushed \in [Txn -> 0..MaxMutations]
    /\ \A t \in Txn : flushed[t] <= Len(mutations[t]) /\ Len(mutations[t]) <= MaxMutations

\* The transactions whose batch took effect, acknowledged or not.
Durable(t) == phase[t] \in {"committed", "recovered"} /\ mutations[t] # <<>>

\* Reads repeat: whatever commits, flushes, failures and crashes happen while a
\* transaction is open, a key it has not itself written meanwhile reads the
\* same (Get reads at readUint; Commit publishes the clock after the flush).
RepeatableReads ==
    [][\A t \in Txn : phase[t] \in Open /\ phase'[t] \in Open =>
          \A k \in Key : Effect(mutations[t], k)' = Effect(mutations[t], k) =>
              Get(t, k)' = Get(t, k)]_vars

\* Every timestamp a reader can be given belongs to exactly one transaction
\* that took effect, and the store holds all of that transaction's writes at
\* it and nothing else (Commit flushes before it stores the clock).
AtomicCommits ==
    \A ts \in 2..clock : \E t \in Txn :
        /\ {u \in Txn : Durable(u) /\ commitTS[u] = ts} = {t}
        /\ \A k \in Key : store[k][ts] = Effect(mutations[t], k)

\* A commit that was acknowledged stays in the store and below the read oracle,
\* through later failures, crashes and restarts (New resumes the oracle from
\* MaxVersion).
AcknowledgedCommitsSurvive ==
    \A t \in Txn : phase[t] = "committed" /\ mutations[t] # <<>> =>
        /\ commitTS[t] <= clock
        /\ \A k \in Key : Effect(mutations[t], k) # None =>
               store[k][commitTS[t]] = Effect(mutations[t], k)

\* No lost update: whatever a commit overwrote that its snapshot did not show
\* was a delete, never a live value (the LatestVersion loop of Commit).
NoLostUpdate ==
    \A t \in Txn : Durable(t) =>
        \A k \in WriteSet(mutations[t]) : \A ts \in Timestamp :
            readTS[t] < ts /\ IsNewest(store[k], ts, commitTS[t] - 1) => store[k][ts] = Tombstone

\* ErrWriteConflict as its comment promises it: a transaction never commits a
\* key that another transaction committed after its snapshot.
FirstCommitterWins ==
    \A t, u \in Txn : Durable(t) /\ Durable(u)
                         /\ WriteSet(mutations[t]) \cap WriteSet(mutations[u]) # {} =>
        ~(readTS[t] < commitTS[u] /\ commitTS[u] < commitTS[t])

\* ErrWriteConflict is never spurious: some other transaction really did commit
\* one of the keys after the snapshot.
ConflictIsReal ==
    \A t \in Txn : phase[t] = "conflict" =>
        \E u \in Txn : /\ Durable(u)
                       /\ readTS[t] < commitTS[u]
                       /\ WriteSet(mutations[t]) \cap WriteSet(mutations[u]) # {}

\* A goroutine inside Commit keeps running.
Fairness == \A t \in Txn : WF_vars(Committing(t))

FairSpec == Spec /\ Fairness

\* Every Commit returns: commitMu is released on every path, so no committer
\* waits on it for ever (a crash ends the wait too).
CommitReturns ==
    \A t \in Txn : phase[t] = "waiting" ~> phase[t] \in Finished \cup {"active", "indoubt"}

-----------------------------------------------------------------------------
(* The engine implements SnapshotIsolation when every batch fits one store *)
(* transaction.  A commit takes effect when the clock is stored.           *)

AbstractStatus ==
    [t \in Txn |->
        IF phase[t] \in {"idle", "indoubt"} THEN phase[t]
        ELSE IF phase[t] \in Open \cup {"flushing"} THEN "open"
        ELSE IF phase[t] \in {"committed", "recovered"} THEN "committed"
        ELSE "aborted"]

\* The commits readers can be given, oldest first: timestamp 1 holds nothing.
History == [i \in 1..(clock - 1) |-> [k \in Key |-> store[k][i + 1]]]

Snapshots == [t \in Txn |-> IF readTS[t] = 0 THEN 0 ELSE readTS[t] - 1]

Effects == [t \in Txn |-> [k \in Key |-> Effect(mutations[t], k)]]

SI == INSTANCE SnapshotIsolation WITH
    hist <- History, snap <- Snapshots, writes <- Effects, status <- AbstractStatus

\* Every behaviour of the engine, crashes included, is one of the abstract
\* snapshot-isolated history.
ImplementsSnapshotIsolation == SI!Spec
=============================================================================
