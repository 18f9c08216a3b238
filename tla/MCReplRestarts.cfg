SPECIFICATION FairSpec
CONSTANTS
    Replica = {r1, r2}
    Txn = {t1, t2, t3}
    Key = {k1}
    Writes = {v1}
    Tombstone = Tombstone
    None = None
    Nobody = Nobody
    MaxTS = 3
    MaxCrashes = 1
    SplitsBatches = FALSE
CHECK_DEADLOCK FALSE
INVARIANT StoresConverge
PROPERTIES SnapshotIsStable EventuallyEqual
