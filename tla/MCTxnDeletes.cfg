SPECIFICATION Spec
CONSTANTS
    Txn = {t1, t2, t3}
    Key = {k1}
    Value = {v1}
    Tombstone = Tombstone
    None = None
    NoTxn = NoTxn
    MaxTS = 4
    MaxMutations = 1
    MaxBatch = 2
SYMMETRY Symmetry
CHECK_DEADLOCK FALSE
INVARIANT FirstCommitterWins

