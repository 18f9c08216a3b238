SPECIFICATION Spec
CONSTANTS
    Replica = {r1, r2}
    Txn = {t1, t2, t3}
    Key = {k1, k2}
    Writes = {v1, Tombstone}
    Tombstone = Tombstone
    None = None
    Nobody = Nobody
    MaxTS = 3
    MaxCrashes = 0
    SplitsBatches = FALSE
CHECK_DEADLOCK FALSE
SYMMETRY Symmetry
INVARIANTS StoresConverge AnswersAreTrue NoLostUpdate
