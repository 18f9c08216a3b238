SPECIFICATION Spec
CONSTANTS
    Txn = {t1, t2, t3}
    Key = {k1, k2}
    Value = {v1}
    Tombstone = Tombstone
    None = None
    NoTxn = NoTxn
    MaxTS = 4
    MaxMutations = 2
    MaxBatch = 2
SYMMETRY Symmetry
CHECK_DEADLOCK FALSE
INVARIANTS TypeOK AtomicCommits AcknowledgedCommitsSurvive NoLostUpdate ConflictIsReal
PROPERTY RepeatableReads
