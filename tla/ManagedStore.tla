---------------------------- MODULE ManagedStore ----------------------------
(***************************************************************************)
(* The managed-mode store of engine/internal/storage: multi-version keys,  *)
(* versioned by the timestamps its callers choose.  vers is the versions   *)
(* of one key, a function from Timestamp.                                  *)
(***************************************************************************)
EXTENDS Naturals

CONSTANTS
    MaxTS,      \* bound on the timestamps
    Tombstone,  \* the version a delete writes
    None        \* "no version of this key at this timestamp"

ASSUME ManagedStoreAssumption == MaxTS \in Nat /\ None # Tombstone

Timestamp == 1..MaxTS

\* ts carries the newest version among the timestamps up to bound.
IsNewest(vers, ts, bound) ==
    /\ ts <= bound
    /\ vers[ts] # None
    /\ \A w \in Timestamp : ts < w /\ w <= bound => vers[w] = None

\* badgerTxn.Get in a transaction opened at bound: the newest version unless it
\* is a delete, None for ErrKeyNotFound.
SnapshotRead(vers, bound) ==
    IF \E ts \in Timestamp : IsNewest(vers, ts, bound) /\ vers[ts] # Tombstone
    THEN vers[CHOOSE ts \in Timestamp : IsNewest(vers, ts, bound)]
    ELSE None

\* badgerStore.LatestVersion reports (ts, found=true).  It reads the key at
\* MaxVersion, where a deleted key is as absent as one never written.
LatestVersion(vers, ts) ==
    /\ IsNewest(vers, ts, MaxTS)
    /\ vers[ts] # Tombstone
=============================================================================
