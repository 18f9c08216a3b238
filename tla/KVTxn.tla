------------------------------- MODULE KVTxn -------------------------------
(***************************************************************************)
(* The transaction engine as the layers above it use it: a key-value store *)
(* and, per client, at most one open transaction that reads a snapshot     *)
(* through its own buffered writes.  Instead of timestamps, a transaction  *)
(* carries the keys committed since its snapshot; this is the conflict     *)
(* rule of SnapshotIsolation, which TxnEngine is shown to implement, on a  *)
(* store whose current contents are the newest versions.                   *)
(***************************************************************************)

CONSTANTS
    Client,
    Key,
    Absent,  \* what a key without a value reads as; buffered, a delete
    Keep     \* the transaction has not written the key

VARIABLES
    db,   \* the committed value of every key
    txn   \* per client: the snapshot, the buffered writes, the keys committed since

NoWrites == [k \in Key |-> Keep]

\* No transaction; the fields are not read before the next Begin.
NoTxn == [open |-> FALSE, snap |-> [k \in Key |-> Absent], buf |-> NoWrites, since |-> {}]

KVInit(content) ==
    /\ db = content
    /\ txn = [c \in Client |-> NoTxn]

\* Begin: the snapshot is what is committed now.
Fresh == [open |-> TRUE, snap |-> db, buf |-> NoWrites, since |-> {}]

\* Get, and what NewIterator yields: the buffer first, then the snapshot.
Read(t, k) == IF t.buf[k] = Keep THEN t.snap[k] ELSE t.buf[k]

\* Buffer, for all the keys writes assigns.
Buffered(t, writes) ==
    [t EXCEPT !.buf = [k \in Key |-> IF writes[k] = Keep THEN t.buf[k] ELSE writes[k]]]

Written(t) == {k \in Key : t.buf[k] # Keep}

\* Variant: the last committer wins.
ConflictNever(t) == FALSE

\* Commit refuses to overwrite a live version newer than the snapshot; a newer
\* delete leaves no live version and does not conflict.
Conflict(t) == \E k \in Written(t) \cap t.since : db[k] # Absent

\* What a commit leaves in the store and tells the other open transactions.
Install(t) == [k \in Key |-> IF t.buf[k] = Keep THEN db[k] ELSE t.buf[k]]

AfterCommit(c) ==
    [d \in Client |-> IF d = c \/ ~txn[d].open THEN NoTxn
                      ELSE [txn[d] EXCEPT !.since = @ \cup Written(txn[c])]]

Ended(c) == [txn EXCEPT ![c] = NoTxn]
=============================================================================
