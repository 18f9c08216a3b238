------------------------ MODULE SnapshotIsolation ------------------------
(***************************************************************************)
(* What the transaction engine promises its callers, without timestamps,   *)
(* locks or batches: a history of whole commits, transactions that see a   *)
(* fixed prefix of it, and commits that append to it in one step.  A commit *)
(* is refused when the newest commit since its snapshot that touched one   *)
(* of its keys left a live value there; overwriting a delete is allowed.   *)
(***************************************************************************)
EXTENDS Naturals, Sequences

CONSTANTS Txn, Key, Value, Tombstone, None

VARIABLES
    hist,    \* the commits, oldest first: what each left for every key
    snap,    \* how much of hist a transaction sees
    writes,  \* what it has written so far, per key
    status   \* "idle", "open", "indoubt", "committed" or "aborted"

vars == <<hist, snap, writes, status>>

NoWrites == [k \in Key |-> None]

Init ==
    /\ hist = <<>>
    /\ snap = [t \in Txn |-> 0]
    /\ writes = [t \in Txn |-> NoWrites]
    /\ status = [t \in Txn |-> "idle"]

Begin(t) ==
    /\ status[t] = "idle"
    /\ status' = [status EXCEPT ![t] = "open"]
    /\ snap' = [snap EXCEPT ![t] = Len(hist)]
    /\ UNCHANGED <<hist, writes>>

Write(t, k, v) ==
    /\ status[t] = "open"
    /\ writes' = [writes EXCEPT ![t][k] = v]
    /\ UNCHANGED <<hist, snap, status>>

\* Commit i is the newest one that touched key k.
IsNewest(k, i) ==
    /\ hist[i][k] # None
    /\ \A j \in (i + 1)..Len(hist) : hist[j][k] = None

Conflict(t) ==
    \E k \in Key : \E i \in (snap[t] + 1)..Len(hist) :
        writes[t][k] # None /\ IsNewest(k, i) /\ hist[i][k] # Tombstone

Commit(t) ==
    /\ status[t] = "open"
    /\ \/ writes[t] = NoWrites /\ UNCHANGED hist
       \/ writes[t] # NoWrites /\ ~Conflict(t) /\ hist' = Append(hist, writes[t])
    /\ status' = [status EXCEPT ![t] = "committed"]
    /\ UNCHANGED <<snap, writes>>

\* Rollback, a conflict, or a commit that failed.
Abort(t) ==
    /\ status[t] = "open"
    /\ status' = [status EXCEPT ![t] = "aborted"]
    /\ writes' \in {writes, [writes EXCEPT ![t] = NoWrites]}
    /\ UNCHANGED <<hist, snap>>

\* No open transaction survives a crash; at most one was being committed.
Crash ==
    /\ \E doubt \in SUBSET {t \in Txn : status[t] = "open"} :
        /\ \A t, u \in doubt : t = u
        /\ status' = [t \in Txn |-> IF t \in doubt THEN "indoubt"
                                    ELSE IF status[t] = "open" THEN "aborted"
                                    ELSE status[t]]
    /\ UNCHANGED <<hist, snap, writes>>

\* The commit the crash cut off is found to have happened, whole, or not at all.
Recover(t) ==
    /\ status[t] = "indoubt"
    /\ \/ /\ ~Conflict(t)
          /\ hist' = Append(hist, writes[t])
          /\ status' = [status EXCEPT ![t] = "committed"]
       \/ /\ UNCHANGED hist
          /\ status' = [status EXCEPT ![t] = "aborted"]
    /\ UNCHANGED <<snap, writes>>

Next ==
    \/ \E t \in Txn :
          \/ Begin(t) \/ Commit(t) \/ Abort(t) \/ Recover(t)
          \/ \E k \in Key, v \in Value \cup {Tombstone} : Write(t, k, v)
    \/ Crash

Spec == Init /\ [][Next]_vars
=============================================================================
