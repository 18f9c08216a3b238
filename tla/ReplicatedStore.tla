--------------------------- MODULE ReplicatedStore ---------------------------
(***************************************************************************)
(* The clustered commit path: engine.Commit proposes a transaction's batch *)
(* with its read timestamp through Raft (engine/internal/consensus), and   *)
(* every replica's state machine applies the entries of the log in order   *)
(* to its own durable store, deciding conflicts on apply and using the log *)
(* index as commit timestamp.  lastApplied is in memory only: a restarted  *)
(* replica replays the log from its start over the store it had.           *)
(* Raft itself (agreement on one log) is external.                         *)
(***************************************************************************)
EXTENDS ManagedStore, Sequences

CONSTANTS
    Replica, Txn, Key,
    Writes,        \* what a client may write: values, and Tombstone for deletes
    Nobody,        \* a transaction that has not begun has no replica
    MaxCrashes,    \* bound on the crashes of a behaviour
    SplitsBatches  \* a batch may exceed one transaction of the store

ASSUME ReplicatedStoreAssumption ==
    /\ MaxCrashes \in Nat
    /\ SplitsBatches \in BOOLEAN
    /\ None \notin Writes \cup {Tombstone}
    /\ Nobody \notin Replica

VARIABLES
    log,          \* the entries Raft has committed
    store,        \* store[r][k][i]: the version replica r holds of k at index i
    lastApplied,  \* stateMachine.lastApplied
    up,           \* the replicas that are running
    phase,        \* how far each transaction has got
    home,         \* the replica it runs on
    readTS,       \* Txn.readUint
    batch,        \* Txn.mutations: the last write to each key, None if untouched
    crashes       \* crashes so far

vars == <<log, store, lastApplied, up, phase, home, readTS, batch, crashes>>

Index == Timestamp   \* log indices are the commit timestamps; MaxTS bounds the log
Batch == [Key -> Writes \cup {None}]
Entry == [txn : Txn, readTS : 0..MaxTS, batch : Batch]
NoWrites == [k \in Key |-> None]
Phase == {"idle", "open", "proposed", "unknown", "committed", "conflict", "done", "lost"}

-----------------------------------------------------------------------------
(* The conflict check on apply.                                            *)

\* Variant: the check looks at the first written key only.
AbortsFirstKeyOnly(s, e) ==
    LET k == CHOOSE k \in Key : e.batch[k] # None IN
    \E i \in Index : LatestVersion(s[k], i) /\ i > e.readTS

\* Variant: the check runs only on the replica that proposed the entry.
AbortsOnProposer(s, e) ==
    /\ s = store[home[e.txn]]
    /\ \E k \in Key : \E i \in Index :
          e.batch[k] # None /\ LatestVersion(s[k], i) /\ i > e.readTS

\* Update rejects entry e against the store s of a replica.
Aborts(s, e) ==
    \E k \in Key : \E i \in Index :
        e.batch[k] # None /\ LatestVersion(s[k], i) /\ i > e.readTS

\* The store after a write batch at index i that took in the keys W of e.
Written(s, e, i, W) ==
    [k \in Key |-> [j \in Index |->
        IF j = i /\ k \in W /\ e.batch[k] # None THEN e.batch[k] ELSE s[k][j]]]

\* What Update leaves in the store.
Applied(s, e, i) == IF Aborts(s, e) THEN s ELSE Written(s, e, i, Key)

-----------------------------------------------------------------------------
Init ==
    /\ log = <<>>
    /\ store = [r \in Replica |-> [k \in Key |-> [i \in Index |-> None]]]
    /\ lastApplied = [r \in Replica |-> 0]
    /\ up = Replica
    /\ phase = [t \in Txn |-> "idle"]
    /\ home = [t \in Txn |-> Nobody]
    /\ readTS = [t \in Txn |-> 0]
    /\ batch = [t \in Txn |-> NoWrites]
    /\ crashes = 0

\* Variant: the snapshot is the end of the log, applied here or not.
ReadTimestampOfLog(r) == Len(log)

\* Variant: without a state machine the noConflictReadTS sentinel is returned.
ReadTimestampSentinel(r) == IF lastApplied[r] = 0 THEN MaxTS + 1 ELSE lastApplied[r]

\* Node.ReadTimestamp.
ReadTimestamp(r) == lastApplied[r]

Begin(t, r) ==
    /\ phase[t] = "idle"
    /\ r \in up
    /\ phase' = [phase EXCEPT ![t] = "open"]
    /\ home' = [home EXCEPT ![t] = r]
    /\ readTS' = [readTS EXCEPT ![t] = ReadTimestamp(r)]
    /\ UNCHANGED <<log, store, lastApplied, up, batch, crashes>>

Buffer(t, k, v) ==
    /\ phase[t] = "open"
    /\ batch' = [batch EXCEPT ![t][k] = v]
    /\ UNCHANGED <<log, store, lastApplied, up, phase, home, readTS, crashes>>

\* Rollback, or Commit of an empty transaction.
Finish(t) ==
    /\ phase[t] = "open"
    /\ phase' = [phase EXCEPT ![t] = "done"]
    /\ UNCHANGED <<log, store, lastApplied, up, home, readTS, batch, crashes>>

\* Commit calls ProposeTxn, which blocks in SyncPropose.
ProposeTxn(t) ==
    /\ phase[t] = "open"
    /\ batch[t] # NoWrites
    /\ phase' = [phase EXCEPT ![t] = "proposed"]
    /\ UNCHANGED <<log, store, lastApplied, up, home, readTS, batch, crashes>>

\* The deadline of SyncPropose passes; the proposal may still be in flight.
ProposeTimeout(t) ==
    /\ phase[t] = "proposed"
    /\ phase' = [phase EXCEPT ![t] = "unknown"]
    /\ UNCHANGED <<log, store, lastApplied, up, home, readTS, batch, crashes>>

\* Raft commits a proposal in flight, waited for or not (external).
RaftCommit(t) ==
    /\ phase[t] \in {"proposed", "unknown"}
    /\ \A i \in 1..Len(log) : log[i].txn # t
    /\ Len(log) < MaxTS
    /\ log' = Append(log, [txn |-> t, readTS |-> readTS[t], batch |-> batch[t]])
    /\ UNCHANGED <<store, lastApplied, up, phase, home, readTS, batch, crashes>>

\* Variant: the caller hears that it committed whatever Update decided.
AnsweredAlwaysYes(t, r, i) ==
    IF log[i].txn = t /\ phase[t] = "proposed" /\ home[t] = r THEN "committed" ELSE phase[t]

\* SyncPropose returns Update's result to the caller waiting on this replica.
Answered(t, r, i) ==
    IF log[i].txn = t /\ phase[t] = "proposed" /\ home[t] = r
    THEN IF Aborts(store[r], log[i]) THEN "conflict" ELSE "committed"
    ELSE phase[t]

\* stateMachine.Update of the next entry.
Update(r) ==
    LET i == lastApplied[r] + 1 IN
    /\ r \in up
    /\ i <= Len(log)
    /\ store' = [store EXCEPT ![r] = Applied(@, log[i], i)]
    /\ lastApplied' = [lastApplied EXCEPT ![r] = i]
    /\ phase' = [t \in Txn |-> Answered(t, r, i)]
    /\ UNCHANGED <<log, up, home, readTS, batch, crashes>>

\* A replica dies, between two entries or inside Update (an error from Update
\* ends the process too): the keys W of the next entry are in the store, all of
\* them, or only some when the batch needs several store transactions.
Crash(r) ==
    LET i == lastApplied[r] + 1 IN
    /\ r \in up
    /\ crashes < MaxCrashes
    /\ crashes' = crashes + 1
    /\ up' = up \ {r}
    /\ \E W \in SUBSET Key :
        /\ W \notin {{}, Key} => SplitsBatches
        /\ W # {} => i <= Len(log) /\ ~Aborts(store[r], log[i])
        /\ store' = IF W = {} THEN store
                    ELSE [store EXCEPT ![r] = Written(@, log[i], i, W)]
    /\ phase' = [t \in Txn |-> IF home[t] = r /\ phase[t] = "open" THEN "lost"
                               ELSE IF home[t] = r /\ phase[t] = "proposed" THEN "unknown"
                               ELSE phase[t]]
    /\ UNCHANGED <<log, lastApplied, home, readTS, batch>>

\* Variant: only the marker is recovered, as from a snapshot of another replica.
ReplayFromMarker == Len(log)

\* StartShard makes a state machine that has applied nothing.
ReplayFrom == 0

\* The process starts again and Raft feeds it the log from the first entry.
Restart(r) ==
    /\ r \in Replica \ up
    /\ up' = up \cup {r}
    /\ lastApplied' = [lastApplied EXCEPT ![r] = ReplayFrom]
    /\ UNCHANGED <<log, store, phase, home, readTS, batch, crashes>>

Client(t) ==
    \/ \E r \in Replica : Begin(t, r)
    \/ \E k \in Key, v \in Writes : Buffer(t, k, v)
    \/ Finish(t)
    \/ ProposeTxn(t)
    \/ ProposeTimeout(t)

Next ==
    \/ \E t \in Txn : Client(t) \/ RaftCommit(t)
    \/ \E r \in Replica : Update(r) \/ Crash(r) \/ Restart(r)

Spec == Init /\ [][Next]_vars

\* A process that stopped is started again, and a running replica goes on
\* applying what Raft has committed.
Fairness == \A r \in Replica : WF_vars(Update(r)) /\ WF_vars(Restart(r))

FairSpec == Spec /\ Fairness

-----------------------------------------------------------------------------
(* Properties.                                                             *)

\* The shape of the state: a replica never claims an entry the log lacks.
TypeOK ==
    /\ log \in Seq(Entry)
    /\ Len(log) <= MaxTS
    /\ store \in [Replica -> [Key -> [Index -> Writes \cup {None}]]]
    /\ lastApplied \in [Replica -> 0..MaxTS]
    /\ \A r \in Replica : lastApplied[r] <= Len(log)
    /\ up \in SUBSET Replica
    /\ phase \in [Txn -> Phase]
    /\ home \in [Txn -> Replica \cup {Nobody}]
    /\ readTS \in [Txn -> 0..MaxTS]
    /\ batch \in [Txn -> Batch]
    /\ crashes \in 0..MaxCrashes

\* Replicas converge: any two agree on every version at an index both have
\* applied ("the stores converge", stateMachine; "re-applied idempotently",
\* SaveSnapshot).
StoresConverge ==
    \A r, s \in Replica : \A i \in 1..Len(log) :
        i <= lastApplied[r] /\ i <= lastApplied[s] =>
            \A k \in Key : store[r][k][i] = store[s][k][i]

\* What the client was told is what every replica did: a committed batch is
\* whole wherever its entry was applied, a conflict left nothing anywhere
\* (Update's result, ProposeTxn).
AnswersAreTrue ==
    \A i \in 1..Len(log) : \A r \in Replica : i <= lastApplied[r] =>
        /\ phase[log[i].txn] = "committed" =>
              \A k \in Key : store[r][k][i] = log[i].batch[k]
        /\ phase[log[i].txn] = "conflict" => \A k \in Key : store[r][k][i] = None

\* First committer wins across replicas: an entry that was applied with a stale
\* snapshot overwrote no live value it had not seen, on any replica.
NoLostUpdate ==
    \A r \in Replica : \A i \in 1..lastApplied[r] : \A k \in Key :
        store[r][k][i] # None =>
            \A j \in (log[i].readTS + 1)..(i - 1) :
                (\A w \in (j + 1)..(i - 1) : store[r][k][w] = None) =>
                    store[r][k][j] \in {None, Tombstone}

\* A snapshot does not move under its reader: what an open transaction reads on
\* its replica stays what it was while entries are applied and replayed there
\* (ReadTimestamp is "the safe snapshot for a new read").
SnapshotIsStable ==
    [][\A t \in Txn : phase[t] = "open" /\ phase'[t] = "open" =>
          \A k \in Key : \A i \in 1..readTS[t] :
              store'[home[t]][k][i] = store[home[t]][k][i]]_vars

\* Once proposals and crashes stop, the replicas end up with equal stores.
EventuallyEqual == <>[](\A r, s \in Replica : store[r] = store[s])
=============================================================================
