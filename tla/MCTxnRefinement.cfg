SPECIFICATION FairSpec
CONSTANTS
    Txn = {t1, t2}
    Key = {k1, k2}
    Value = {v1, v2}
    Tombstone = Tombstone
    None = None
    NoTxn = NoTxn
    MaxTS = 3
    MaxMutations = 2
    MaxBatch = 2
CHECK_DEADLOCK FALSE
PROPERTIES ImplementsSnapshotIsolation CommitReturns
