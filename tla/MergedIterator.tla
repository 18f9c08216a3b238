--------------------------- MODULE MergedIterator ---------------------------
(***************************************************************************)
(* A scan inside a transaction: engine.NewIterator overlays the buffered   *)
(* mutations under a prefix, as they are when the iterator is opened, on   *)
(* an iterator over the snapshot (merge_iter.go); NewReverseIterator scans *)
(* the snapshot alone.  Keys are numbers, in the order of their bytes.     *)
(* Each turn of the loop in produce is a step.                             *)
(***************************************************************************)
EXTENDS Naturals, Sequences

CONSTANTS
    MaxKey,       \* keys are 1..MaxKey
    Lo, Hi,       \* the keys that carry the scanned prefix are Lo..Hi
    Value,
    Tombstone,    \* a buffered delete
    None,         \* no value
    Unreadable,   \* a stored value that the store fails to return
    MaxMutations  \* bound on the buffered mutations

IterKey == 1..MaxKey
PrefixKeys == Lo..Hi

ASSUME MergedIteratorAssumption ==
    /\ MaxKey \in Nat
    /\ MaxMutations \in Nat
    /\ Lo \in IterKey /\ Hi \in IterKey
    /\ Tombstone \notin Value
    /\ None \notin Value \cup {Tombstone}
    /\ Unreadable \notin Value \cup {Tombstone, None}

VARIABLES
    snapshot,   \* the value of each key at the read timestamp
    mutations,  \* Txn.mutations when the iterator was opened
    reverse,    \* opened by NewReverseIterator
    storePos,   \* the snapshot iterator stands at the first key from here
    bufPos,     \* bi: the buffer stands at the first buffered key from here
    from,       \* where Rewind or Seek put the scan, 0 before
    pc,         \* "idle", or "producing" inside produce
    valid, curKey, curVal,
    yielded     \* the keys produced since Rewind or Seek

cursor == <<storePos, bufPos, from, pc, valid, curKey, curVal, yielded>>
iterVars == <<snapshot, mutations, reverse, cursor>>

Mutation == [key : IterKey, val : Value \cup {Tombstone}]

-----------------------------------------------------------------------------
(* bufferedForPrefix: the last mutation of every key under the prefix.     *)

BufferedKeys == {k \in PrefixKeys : \E i \in DOMAIN mutations : mutations[i].key = k}

\* Variant: the first mutation of a key is kept.
BufferedValueFirst(k) ==
    mutations[CHOOSE i \in DOMAIN mutations :
                 /\ mutations[i].key = k
                 /\ \A j \in DOMAIN mutations : j < i => mutations[j].key # k].val

BufferedValue(k) ==
    mutations[CHOOSE i \in DOMAIN mutations :
                 /\ mutations[i].key = k
                 /\ \A j \in DOMAIN mutations : i < j => mutations[j].key # k].val

Stored == {k \in PrefixKeys : snapshot[k] # None}

\* The first key of S at or after p, when there is one.
IsFirst(S, p, k) == k \in S /\ p <= k /\ \A j \in S : p <= j => k <= j
AtEnd(S, p) == \A k \in S : k < p

IterInit ==
    /\ snapshot \in [IterKey -> Value \cup {None, Unreadable}]
    /\ mutations \in UNION {[1..n -> Mutation] : n \in 0..MaxMutations}
    /\ reverse \in BOOLEAN
    /\ storePos = 0 /\ bufPos = 0 /\ from = 0
    /\ pc = "idle"
    /\ valid = FALSE /\ curKey = 0 /\ curVal = None
    /\ yielded = {}

-----------------------------------------------------------------------------
(* The forward scan.                                                       *)

\* Rewind is Seek to the start of the prefix.  The callers seek inside it.
Seek(k) ==
    /\ pc = "idle" /\ ~reverse
    /\ storePos' = k /\ bufPos' = k /\ from' = k
    /\ yielded' = {}
    /\ pc' = "producing"
    /\ UNCHANGED <<valid, curKey, curVal>>

Next_ ==
    /\ pc = "idle" /\ ~reverse
    /\ valid
    /\ pc' = "producing"
    /\ UNCHANGED <<storePos, bufPos, from, valid, curKey, curVal, yielded>>

ProduceEnd ==
    /\ pc = "producing"
    /\ AtEnd(Stored, storePos) /\ AtEnd(BufferedKeys, bufPos)
    /\ valid' = FALSE
    /\ pc' = "idle"
    /\ UNCHANGED <<storePos, bufPos, from, curKey, curVal, yielded>>

\* Variant: the snapshot's entry for a buffered key is not skipped.
SkipNothing(b) == storePos

\* The snapshot iterator moves on when it stands at the buffered key.
SkipOverridden(b) == IF IsFirst(Stored, storePos, b) THEN b + 1 ELSE storePos

\* Variant: the loop turns on a delete before the index has moved.
AfterBufferedStuck(b) == IF BufferedValue(b) = Tombstone THEN bufPos ELSE b + 1

\* bi++
AfterBuffered(b) == b + 1

\* The buffered entry comes first, or at the same key as the snapshot's.
ProduceBuffered ==
    /\ pc = "producing"
    /\ \E b \in IterKey :
        /\ IsFirst(BufferedKeys, bufPos, b)
        /\ \A s \in IterKey : IsFirst(Stored, storePos, s) => b <= s
        /\ storePos' = SkipOverridden(b)
        /\ bufPos' = AfterBuffered(b)
        /\ \/ /\ BufferedValue(b) = Tombstone
              /\ UNCHANGED <<pc, valid, curKey, curVal, yielded>>
           \/ /\ BufferedValue(b) # Tombstone
              /\ curKey' = b /\ curVal' = BufferedValue(b) /\ valid' = TRUE
              /\ yielded' = yielded \cup {b}
              /\ pc' = "idle"
    /\ UNCHANGED from

\* store.Value() failed: the entry is produced with a nil value.
ValueOrNil(v) == IF v = Unreadable THEN None ELSE v

ProduceStored ==
    /\ pc = "producing"
    /\ \E s \in IterKey :
        /\ IsFirst(Stored, storePos, s)
        /\ \A b \in IterKey : IsFirst(BufferedKeys, bufPos, b) => s < b
        /\ storePos' = s + 1
        /\ curKey' = s /\ curVal' = ValueOrNil(snapshot[s]) /\ valid' = TRUE
        /\ yielded' = yielded \cup {s}
        /\ pc' = "idle"
    /\ UNCHANGED <<bufPos, from>>

-----------------------------------------------------------------------------
(* The reverse scan: badgerIterator over the snapshot, last key first.  Its *)
(* Value hands the error of an unreadable value to the caller.             *)

IsLastBelow(S, p, k) == k \in S /\ k < p /\ \A j \in S : j < p => j <= k

ReverseTo(p) ==
    /\ \/ \E s \in IterKey :
             /\ IsLastBelow(Stored, p, s)
             /\ curKey' = s /\ curVal' = snapshot[s] /\ valid' = TRUE
       \/ /\ \A s \in Stored : s >= p
          /\ valid' = FALSE
          /\ UNCHANGED <<curKey, curVal>>
    /\ UNCHANGED <<storePos, bufPos, pc>>

\* Rewind seeks to the successor of the prefix.
RewindReverse ==
    /\ reverse
    /\ from' = Hi
    /\ ReverseTo(Hi + 1)
    /\ yielded' = IF valid' THEN {curKey'} ELSE {}

NextReverse ==
    /\ reverse /\ valid
    /\ ReverseTo(curKey)
    /\ UNCHANGED from
    /\ yielded' = IF valid' THEN yielded \cup {curKey'} ELSE yielded

IterNext ==
    /\ \/ \E k \in PrefixKeys : Seek(k)
       \/ Next_ \/ ProduceEnd \/ ProduceBuffered \/ ProduceStored
       \/ RewindReverse \/ NextReverse
    /\ UNCHANGED <<snapshot, mutations, reverse>>

IterSpec == IterInit /\ [][IterNext]_iterVars

\* A call to produce runs to its end.
IterFairness == WF_iterVars((ProduceEnd \/ ProduceBuffered \/ ProduceStored)
                            /\ UNCHANGED <<snapshot, mutations, reverse>>)

-----------------------------------------------------------------------------
(* engine.Get inside the same transaction searches the mutations itself,   *)
(* newest first, and stops at the first of the key.                        *)

Wrote(k) == \E i \in DOMAIN mutations : mutations[i].key = k

FoundAt(k) ==
    CHOOSE i \in DOMAIN mutations :
        /\ mutations[i].key = k
        /\ \A j \in DOMAIN mutations : i < j => mutations[j].key # k

\* Get returns a value, and which.  It answers ErrKeyNotFound for a key that is
\* not visible.
InView(k) == IF Wrote(k) THEN mutations[FoundAt(k)].val # Tombstone ELSE snapshot[k] # None
Reads(k) == IF Wrote(k) THEN mutations[FoundAt(k)].val ELSE snapshot[k]

-----------------------------------------------------------------------------
(* Properties.                                                             *)

\* The cursors stop one past the last key of the prefix, and the caller sees
\* keys under the prefix with real values, never a buffered delete.
TypeOK ==
    /\ snapshot \in [IterKey -> Value \cup {None, Unreadable}]
    /\ mutations \in Seq(Mutation)
    /\ reverse \in BOOLEAN
    /\ storePos \in 0..(Hi + 1) /\ bufPos \in 0..(Hi + 1)
    /\ from \in {0} \cup PrefixKeys
    /\ pc \in {"idle", "producing"}
    /\ valid \in BOOLEAN
    /\ curKey \in {0} \cup PrefixKeys
    /\ curVal \in Value \cup {None, Unreadable}
    /\ ~reverse => curVal # Unreadable
    /\ yielded \subseteq PrefixKeys

\* v is what a scan may show for the key.
Shows(k, v) == v = Reads(k) \/ (Reads(k) = Unreadable /\ v = None)

\* A scan shows what point reads show: between calls, the keys produced since
\* Rewind or Seek are all the visible ones up to the current key, with the
\* value Get returns (nil where Get returns the store's error), and at the end
\* of the scan all there are.
ScanAgreesWithGet ==
    pc = "idle" /\ ~reverse /\ from # 0 =>
        /\ valid => curKey \in yielded /\ Shows(curKey, curVal)
        /\ yielded = {k \in PrefixKeys : InView(k) /\ from <= k /\ (valid => k <= curKey)}

\* A scan keeps its direction: every entry a call of Next moves to is after
\* the one before it, and before it where the scan is in reverse.
InOrder ==
    [][/\ pc = "producing" /\ pc' = "idle" /\ valid' /\ yielded # {} => curKey < curKey'
       /\ NextReverse /\ valid' => curKey' < curKey]_iterVars

\* produce returns: skipping deletes does not loop for ever.
ProduceReturns == pc = "producing" ~> pc = "idle"
=============================================================================
