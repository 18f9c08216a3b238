----------------------------- MODULE PartsProofs -----------------------------
(***************************************************************************)
(* Proofs about three models that share no state.  MergedIterator, for any *)
(* keys, values and buffers: the invariant places the two cursors on one   *)
(* frontier, below which every visible key has been produced, and between  *)
(* it and the cursor that lags there is nothing.  HLC, for any wall        *)
(* readings, remote timestamps and widths.  Branch, for any clients,       *)
(* branches, rows and values.                                              *)
(***************************************************************************)
EXTENDS MergedIterator, HLC, Branch, WellFoundedInduction, TLAPS

-----------------------------------------------------------------------------
(* The merging iterator, and the hybrid clock.                             *)

\* The cursors keep their types.
CursorType ==
    /\ storePos \in Nat /\ bufPos \in Nat /\ from \in Nat
    /\ pc \in {"idle", "producing"}
    /\ pc = "producing" => ~reverse /\ from # 0
    /\ from = 0 => ~valid

Frontier == IF storePos <= bufPos THEN bufPos ELSE storePos

\* Nothing lies between a cursor and the frontier, and what lies before the
\* frontier has been produced.
FrontierInv ==
    /\ \A k \in Stored : storePos <= k => Frontier <= k
    /\ \A k \in BufferedKeys : bufPos <= k => Frontier <= k
    /\ from <= storePos /\ from <= bufPos
    /\ yielded = {k \in PrefixKeys : InView(k) /\ from <= k /\ k < Frontier}

\* Between calls the current entry is the one just below the frontier, or
\* both cursors are at their ends.
CurrentInv ==
    pc = "idle" =>
        /\ valid => curKey \in yielded /\ Shows(curKey, curVal) /\ Frontier = curKey + 1
        /\ ~valid => AtEnd(Stored, storePos) /\ AtEnd(BufferedKeys, bufPos)

ScanInv == CursorType /\ (~reverse /\ from # 0 => FrontierInv /\ CurrentInv)

LEMMA LeastExists ==
    ASSUME NEW S \in SUBSET Nat, S # {}
    PROVE  \E m \in S : \A j \in S : m <= j
<1>1. PICK x \in S : \A y \in S : ~(<<y, x>> \in OpToRel(<, Nat))
    BY NatLessThanWellFounded, WFMin, Zenon
<1>2. \A y \in S : ~(y < x)
    BY <1>1, Zenon DEF OpToRel
<1> QED BY <1>2

\* A cursor that is not at its end stands at some key.
LEMMA FirstExists ==
    ASSUME NEW S \in SUBSET Nat, NEW p \in Nat, NEW k \in S, p <= k
    PROVE  \E f \in S : IsFirst(S, p, f) /\ f <= k
<1> DEFINE T == {j \in S : p <= j}
<1>1. T \in SUBSET Nat /\ T # {} /\ k \in T
    BY Zenon
<1>2. PICK f \in T : \A j \in T : f <= j
    <2> HIDE DEF T
    <2> QED BY <1>1, LeastExists, Zenon
<1> QED BY <1>1, <1>2, Zenon DEF IsFirst

LEMMA KeySets == Stored \in SUBSET Nat /\ BufferedKeys \in SUBSET Nat /\ PrefixKeys \subseteq IterKey
               /\ Stored \subseteq PrefixKeys /\ BufferedKeys \subseteq PrefixKeys
BY MergedIteratorAssumption DEF Stored, BufferedKeys, PrefixKeys, IterKey

\* Get's search, newest first, and the iterator's last-write-wins buffer find the
\* same mutation.
LEMMA GetFindsBuffered ==
    ASSUME NEW k \in PrefixKeys
    PROVE  /\ InView(k) <=> IF k \in BufferedKeys THEN BufferedValue(k) # Tombstone ELSE k \in Stored
           /\ Reads(k) = IF k \in BufferedKeys THEN BufferedValue(k) ELSE snapshot[k]
<1>1. Wrote(k) <=> k \in BufferedKeys
    BY Zenon DEF Wrote, BufferedKeys
<1>2. mutations[FoundAt(k)].val = BufferedValue(k)
    BY Zenon DEF FoundAt, BufferedValue
<1>3. snapshot[k] # None <=> k \in Stored
    BY Zenon DEF Stored
<1> QED BY <1>1, <1>2, <1>3, Zenon DEF InView, Reads

\* The snapshot and the buffer do not change, so neither does what is visible.
LEMMA DataFrame ==
    ASSUME UNCHANGED <<snapshot, mutations>>
    PROVE  /\ Stored' = Stored /\ BufferedKeys' = BufferedKeys
           /\ \A k : (InView(k)' <=> InView(k)) /\ Reads(k)' = Reads(k)
<1>1. Stored' = Stored /\ BufferedKeys' = BufferedKeys
    BY Zenon DEF Stored, BufferedKeys
<1>2. \A k : (Wrote(k)' <=> Wrote(k)) /\ FoundAt(k)' = FoundAt(k)
    BY Zenon DEF Wrote, FoundAt
<1> QED BY <1>1, <1>2, Zenon DEF InView, Reads

LEMMA BufferedStep ==
    ASSUME ScanInv, ProduceBuffered, UNCHANGED <<snapshot, mutations, reverse>>
    PROVE  ScanInv'
<1>1. ~reverse /\ from # 0 /\ FrontierInv /\ CursorType /\ UNCHANGED <<reverse, from>>
    BY Zenon DEF ScanInv, CursorType, ProduceBuffered
<1>2. PICK b \in IterKey :
        /\ IsFirst(BufferedKeys, bufPos, b)
        /\ \A s \in IterKey : IsFirst(Stored, storePos, s) => b <= s
        /\ storePos' = SkipOverridden(b)
        /\ bufPos' = b + 1
        /\ \/ /\ BufferedValue(b) = Tombstone
              /\ UNCHANGED <<pc, valid, curKey, curVal, yielded>>
           \/ /\ BufferedValue(b) # Tombstone
              /\ curKey' = b /\ curVal' = BufferedValue(b) /\ valid' = TRUE
              /\ yielded' = yielded \cup {b}
              /\ pc' = "idle"
    BY Zenon DEF ProduceBuffered, AfterBuffered
<1>3. b \in Nat /\ b \in BufferedKeys /\ bufPos <= b /\ \A k \in BufferedKeys : bufPos <= k => b <= k
    BY <1>2 DEF IsFirst, IterKey
<1>4. Frontier <= b /\ Frontier \in Nat /\ storePos <= Frontier /\ bufPos <= Frontier
    BY <1>1, <1>3 DEF FrontierInv, Frontier, CursorType
<1>5. \A k \in Stored : storePos <= k => b <= k
    <2> SUFFICES ASSUME NEW k \in Stored, storePos <= k PROVE b <= k
        BY Zenon
    <2>1. PICK f \in Stored : IsFirst(Stored, storePos, f) /\ f <= k
        BY <1>1, KeySets, FirstExists, Zenon DEF CursorType
    <2> QED BY <1>2, <1>3, <2>1, KeySets DEF IterKey
<1>6. storePos' \in Nat /\ storePos' <= b + 1 /\ storePos <= storePos'
    BY <1>1, <1>2, <1>3, <1>4 DEF SkipOverridden, CursorType
<1>7. Frontier' = b + 1
    BY <1>2, <1>6, Zenon DEF Frontier
<1>8. \A k \in Stored : storePos' <= k => b + 1 <= k
    <2> SUFFICES ASSUME NEW k \in Stored, storePos' <= k, k < b + 1 PROVE FALSE
        BY <1>3, KeySets
    <2>1. k = b /\ storePos <= k
        BY <1>1, <1>3, <1>5, <1>6, KeySets DEF CursorType
    <2>2. IsFirst(Stored, storePos, b)
        BY <1>5, <2>1, Zenon DEF IsFirst
    <2> QED BY <1>2, <1>3, <2>1, <2>2 DEF SkipOverridden
<1>9. \A k \in PrefixKeys : Frontier <= k /\ k < b => ~InView(k)
    <2> SUFFICES ASSUME NEW k \in PrefixKeys, Frontier <= k, k < b PROVE ~InView(k)
        BY Zenon
    <2>1. k \in Nat /\ storePos <= k /\ bufPos <= k
        BY <1>1, <1>4, KeySets DEF CursorType, IterKey
    <2>2. k \notin Stored /\ k \notin BufferedKeys
        BY <1>3, <1>5, <2>1
    <2> QED BY <2>2, GetFindsBuffered, Zenon
<1>10. InView(b) <=> BufferedValue(b) # Tombstone
    BY <1>3, KeySets, GetFindsBuffered, Zenon
<1>11. yielded' = {k \in PrefixKeys : InView(k) /\ from <= k /\ k < b + 1}
    <2>1. yielded = {k \in PrefixKeys : InView(k) /\ from <= k /\ k < Frontier}
        BY <1>1, Zenon DEF FrontierInv
    <2>2. from <= b /\ b \in PrefixKeys
        BY <1>1, <1>3, <1>4, KeySets DEF FrontierInv, CursorType
    <2>3. \A k \in PrefixKeys : k \in Nat /\ (k < b + 1 <=> k < Frontier \/ (Frontier <= k /\ k < b) \/ k = b)
        BY <1>3, <1>4, KeySets DEF IterKey
    <2>4. \A k \in PrefixKeys : k \in yielded' <=> InView(k) /\ from <= k /\ k < b + 1
        BY <1>2, <1>9, <1>10, <2>1, <2>2, <2>3
    <2>5. yielded' \subseteq PrefixKeys
        BY <1>2, <2>1, <2>2
    <2> QED BY <2>4, <2>5, Zenon
<1>12. FrontierInv'
    <2>1. \A k \in Stored : storePos' <= k => Frontier' <= k
        BY <1>7, <1>8, Zenon
    <2>2. \A k \in BufferedKeys : bufPos' <= k => Frontier' <= k
        BY <1>2, <1>7, Zenon
    <2>3. from' <= storePos' /\ from' <= bufPos'
        BY <1>1, <1>2, <1>3, <1>4, <1>6 DEF FrontierInv, CursorType
    <2> QED BY <1>1, <1>7, <1>11, <2>1, <2>2, <2>3, DataFrame, Zenon DEF FrontierInv
<1>13. CurrentInv'
    <2>1. CASE BufferedValue(b) = Tombstone
        BY <1>2, <2>1, Zenon DEF CurrentInv, ProduceBuffered
    <2>2. CASE BufferedValue(b) # Tombstone
        <3>1. curKey' = b /\ valid' /\ b \in yielded' /\ Shows(b, curVal')
            BY <1>2, <1>3, <2>2, KeySets, GetFindsBuffered, Zenon DEF Shows
        <3> QED BY <1>7, <3>1, DataFrame, Zenon DEF CurrentInv, Shows
    <2> QED BY <2>1, <2>2, Zenon
<1>14. CursorType'
    BY <1>1, <1>2, <1>3, <1>6 DEF CursorType
<1> QED BY <1>12, <1>13, <1>14, Zenon DEF ScanInv

LEMMA StoredStep ==
    ASSUME ScanInv, ProduceStored, UNCHANGED <<snapshot, mutations, reverse>>
    PROVE  ScanInv'
<1>1. ~reverse /\ from # 0 /\ FrontierInv /\ CursorType /\ UNCHANGED <<reverse, from, bufPos>>
    BY Zenon DEF ScanInv, CursorType, ProduceStored
<1>2. PICK s \in IterKey :
        /\ IsFirst(Stored, storePos, s)
        /\ \A b \in IterKey : IsFirst(BufferedKeys, bufPos, b) => s < b
        /\ storePos' = s + 1
        /\ curKey' = s /\ curVal' = ValueOrNil(snapshot[s]) /\ valid' = TRUE
        /\ yielded' = yielded \cup {s}
        /\ pc' = "idle"
    BY Zenon DEF ProduceStored
<1>3. s \in Nat /\ s \in Stored /\ storePos <= s /\ \A k \in Stored : storePos <= k => s <= k
    BY <1>2 DEF IsFirst, IterKey
<1>4. Frontier <= s /\ Frontier \in Nat /\ storePos <= Frontier /\ bufPos <= Frontier
    BY <1>1, <1>3 DEF FrontierInv, Frontier, CursorType
<1>5. \A k \in BufferedKeys : bufPos <= k => s < k
    <2> SUFFICES ASSUME NEW k \in BufferedKeys, bufPos <= k PROVE s < k
        BY Zenon
    <2>1. PICK f \in BufferedKeys : IsFirst(BufferedKeys, bufPos, f) /\ f <= k
        BY <1>1, KeySets, FirstExists, Zenon DEF CursorType
    <2> QED BY <1>2, <1>3, <2>1, KeySets DEF IterKey
<1>6. Frontier' = s + 1
    BY <1>1, <1>2, <1>3, <1>4 DEF Frontier, CursorType
<1>7. s \notin BufferedKeys
    BY <1>1, <1>3, <1>4, <1>5 DEF CursorType
<1>8. \A k \in PrefixKeys : Frontier <= k /\ k < s => ~InView(k)
    <2> SUFFICES ASSUME NEW k \in PrefixKeys, Frontier <= k, k < s PROVE ~InView(k)
        BY Zenon
    <2>1. k \in Nat /\ storePos <= k /\ bufPos <= k
        BY <1>1, <1>4, KeySets DEF CursorType, IterKey
    <2>2. k \notin Stored /\ k \notin BufferedKeys
        BY <1>3, <1>5, <2>1
    <2> QED BY <2>2, GetFindsBuffered, Zenon
<1>9. yielded' = {k \in PrefixKeys : InView(k) /\ from <= k /\ k < s + 1}
    <2>1. yielded = {k \in PrefixKeys : InView(k) /\ from <= k /\ k < Frontier}
        BY <1>1, Zenon DEF FrontierInv
    <2>2. from <= s /\ s \in PrefixKeys /\ InView(s)
        BY <1>1, <1>3, <1>4, <1>7, KeySets, GetFindsBuffered DEF FrontierInv, CursorType
    <2>3. \A k \in PrefixKeys : k \in Nat /\ (k < s + 1 <=> k < Frontier \/ (Frontier <= k /\ k < s) \/ k = s)
        BY <1>3, <1>4, KeySets DEF IterKey
    <2>4. \A k \in PrefixKeys : k \in yielded' <=> InView(k) /\ from <= k /\ k < s + 1
        BY <1>2, <1>8, <2>1, <2>2, <2>3, Zenon
    <2>5. yielded' \subseteq PrefixKeys
        BY <1>2, <2>1, <2>2, Zenon
    <2> QED BY <2>4, <2>5, Zenon
<1>10. FrontierInv'
    <2>1. \A k \in Stored : storePos' <= k => Frontier' <= k
        BY <1>2, <1>6, Zenon
    <2>2. \A k \in BufferedKeys : bufPos' <= k => Frontier' <= k
        BY <1>1, <1>3, <1>5, <1>6, KeySets
    <2>3. from' <= storePos' /\ from' <= bufPos'
        BY <1>1, <1>2, <1>3 DEF FrontierInv, CursorType
    <2> QED BY <1>1, <1>6, <1>9, <2>1, <2>2, <2>3, DataFrame, Zenon DEF FrontierInv
<1>11. CurrentInv'
    <2>1. curKey' = s /\ valid' /\ s \in yielded' /\ Shows(s, curVal')
        BY <1>2, <1>3, <1>7, KeySets, GetFindsBuffered, Zenon DEF Shows, ValueOrNil
    <2> QED BY <1>6, <2>1, DataFrame, Zenon DEF CurrentInv, Shows
<1>12. CursorType'
    BY <1>1, <1>2, <1>3 DEF CursorType
<1> QED BY <1>10, <1>11, <1>12, Zenon DEF ScanInv

LEMMA ScanNext == ScanInv /\ [IterNext]_iterVars => ScanInv'
<1> SUFFICES ASSUME ScanInv, [IterNext]_iterVars PROVE ScanInv'
    BY Zenon
<1>1. UNCHANGED <<snapshot, mutations, reverse>>
    BY Zenon DEF IterNext, iterVars
<1>2. ASSUME NEW k \in PrefixKeys, Seek(k) PROVE ScanInv'
    <2>1. k \in Nat /\ k # 0 /\ storePos' = k /\ bufPos' = k /\ from' = k /\ pc' = "producing" /\ ~reverse
        BY <1>2, KeySets DEF Seek, IterKey
    <2>2. Frontier' = k
        BY <2>1, Zenon DEF Frontier
    <2>3. yielded' = {j \in PrefixKeys : InView(j) /\ k <= j /\ j < k}
        <3>1. \A j \in PrefixKeys : ~(k <= j /\ j < k)
            BY <2>1, KeySets DEF IterKey
        <3> QED BY <1>2, <3>1, Zenon DEF Seek
    <2>4. FrontierInv'
        BY <1>1, <2>1, <2>2, <2>3, DataFrame DEF FrontierInv
    <2> QED BY <1>1, <2>1, <2>4, Zenon DEF ScanInv, CursorType, CurrentInv
<1>3. CASE Next_
    <2>1. UNCHANGED <<storePos, bufPos, from, yielded>> /\ pc' = "producing"
        BY <1>3, Zenon DEF Next_
    <2>2. CASE from # 0
        BY <1>1, <1>3, <2>1, <2>2, DataFrame, Zenon
           DEF Next_, ScanInv, CursorType, FrontierInv, CurrentInv, Frontier
    <2>3. CASE from = 0
        BY <1>3, <2>3, Zenon DEF Next_, ScanInv, CursorType
    <2> QED BY <2>2, <2>3, Zenon
<1>4. CASE ProduceEnd
    <2>1. UNCHANGED <<storePos, bufPos, from, yielded>>
        BY <1>4, Zenon DEF ProduceEnd
    <2>2. AtEnd(Stored, storePos)' /\ AtEnd(BufferedKeys, bufPos)'
        BY <1>1, <1>4, <2>1, DataFrame, Zenon DEF ProduceEnd, AtEnd
    <2>3. FrontierInv'
        BY <1>1, <1>4, <2>1, DataFrame, Zenon
           DEF ProduceEnd, ScanInv, CursorType, FrontierInv, Frontier
    <2> QED BY <1>1, <1>4, <2>1, <2>2, <2>3, Zenon DEF ProduceEnd, ScanInv, CursorType, CurrentInv
<1>5. CASE RewindReverse \/ NextReverse
    BY <1>1, <1>5, MergedIteratorAssumption
       DEF RewindReverse, NextReverse, ReverseTo, ScanInv, CursorType, IterKey
<1>6. CASE UNCHANGED iterVars
    <2>1. UNCHANGED cursor
        BY <1>6, Zenon DEF iterVars
    <2> QED BY <1>1, <2>1, DataFrame, Zenon
            DEF cursor, ScanInv, CursorType, FrontierInv, CurrentInv, Frontier, AtEnd, Shows
<1> QED BY <1>1, <1>2, <1>3, <1>4, <1>5, <1>6, BufferedStep, StoredStep, Zenon DEF IterNext

\* A forward scan of a transaction, positioned anywhere in the prefix, shows
\* exactly what Get shows, for any snapshot and any buffer.
THEOREM ScanIsOverlay == IterSpec => []ScanAgreesWithGet
<1>1. IterInit => ScanInv
    BY DEF IterInit, ScanInv, CursorType
<1>2. ScanInv => ScanAgreesWithGet
    <2> SUFFICES ASSUME ScanInv, pc = "idle", ~reverse, from # 0
                 PROVE  /\ valid => curKey \in yielded /\ Shows(curKey, curVal)
                        /\ yielded = {k \in PrefixKeys :
                                         InView(k) /\ from <= k /\ (valid => k <= curKey)}
        BY Zenon DEF ScanAgreesWithGet
    <2>1. FrontierInv /\ CurrentInv /\ CursorType
        BY Zenon DEF ScanInv
    <2>2. yielded = {k \in PrefixKeys : InView(k) /\ from <= k /\ k < Frontier}
        BY <2>1, Zenon DEF FrontierInv
    <2>3. CASE valid
        <3>1. curKey \in yielded /\ Shows(curKey, curVal) /\ Frontier = curKey + 1
            BY <2>1, <2>3, Zenon DEF CurrentInv
        <3>2. curKey \in Nat /\ \A k \in PrefixKeys : k \in Nat
            BY <2>2, <3>1, KeySets DEF IterKey
        <3>3. \A k \in PrefixKeys : k < Frontier <=> k <= curKey
            BY <3>1, <3>2
        <3> QED BY <2>2, <2>3, <3>1, <3>3, Zenon
    <2>4. CASE ~valid
        <3>1. AtEnd(Stored, storePos) /\ AtEnd(BufferedKeys, bufPos)
            BY <2>1, <2>4, Zenon DEF CurrentInv
        <3>2. \A k \in PrefixKeys : InView(k) => k < Frontier
            BY <2>1, <3>1, KeySets, GetFindsBuffered DEF AtEnd, Frontier, CursorType, IterKey
        <3> QED BY <2>2, <2>4, <3>2, Zenon
    <2> QED BY <2>3, <2>4, Zenon
<1>3. IterSpec => []ScanInv
    BY <1>1, ScanNext, PTL DEF IterSpec
<1> QED BY <1>2, <1>3, PTL

-----------------------------------------------------------------------------
(* The order of a scan.                                                    *)

\* The entry last produced lies below the frontier, also while produce looks
\* for the next one.
LastInv == ~reverse /\ from # 0 /\ yielded # {} => curKey \in Nat /\ curKey < Frontier

\* Each turn of the loop that takes an entry takes it at or past the frontier
\* and moves the frontier past it.
LEMMA BufferedTurn ==
    ASSUME ScanInv, ProduceBuffered
    PROVE  \E b \in IterKey : /\ Frontier \in Nat /\ Frontier <= b /\ Frontier' = b + 1
                              /\ UNCHANGED <<pc, curKey, yielded>> \/ curKey' = b
<1>1. FrontierInv /\ CursorType
    BY Zenon DEF ScanInv, CursorType, ProduceBuffered
<1>2. PICK b \in IterKey :
        /\ IsFirst(BufferedKeys, bufPos, b)
        /\ storePos' = SkipOverridden(b)
        /\ bufPos' = b + 1
        /\ UNCHANGED <<pc, curKey, yielded>> \/ curKey' = b
    BY Zenon DEF ProduceBuffered, AfterBuffered
<1>3. b \in Nat /\ b \in BufferedKeys /\ bufPos <= b
    BY <1>2 DEF IsFirst, IterKey
<1>4. Frontier <= b /\ Frontier \in Nat /\ storePos <= Frontier
    BY <1>1, <1>3 DEF FrontierInv, Frontier, CursorType
<1>5. storePos' \in Nat /\ storePos' <= b + 1
    BY <1>1, <1>2, <1>3, <1>4 DEF SkipOverridden, CursorType
<1>6. Frontier' = b + 1
    BY <1>2, <1>5, Zenon DEF Frontier
<1> QED BY <1>2, <1>4, <1>6, Zenon

LEMMA StoredTurn ==
    ASSUME ScanInv, ProduceStored
    PROVE  \E s \in IterKey : /\ Frontier \in Nat /\ Frontier <= s /\ Frontier' = s + 1
                          /\ curKey' = s
<1>1. FrontierInv /\ CursorType /\ bufPos' = bufPos
    BY Zenon DEF ScanInv, CursorType, ProduceStored
<1>2. PICK s \in IterKey : IsFirst(Stored, storePos, s) /\ storePos' = s + 1 /\ curKey' = s
    BY Zenon DEF ProduceStored
<1>3. s \in Nat /\ s \in Stored /\ storePos <= s
    BY <1>2 DEF IsFirst, IterKey
<1>4. Frontier <= s /\ Frontier \in Nat /\ bufPos <= Frontier
    BY <1>1, <1>3 DEF FrontierInv, Frontier, CursorType
<1>5. Frontier' = s + 1
    BY <1>1, <1>2, <1>3, <1>4 DEF Frontier, CursorType
<1> QED BY <1>2, <1>4, <1>5, Zenon

LEMMA LastNext == ScanInv /\ LastInv /\ [IterNext]_iterVars => LastInv'
<1> SUFFICES ASSUME ScanInv, LastInv, [IterNext]_iterVars PROVE LastInv'
    BY Zenon
<1>1. reverse' = reverse
    BY Zenon DEF IterNext, iterVars
<1>2. ASSUME NEW k \in PrefixKeys, Seek(k) PROVE LastInv'
    BY <1>2, Zenon DEF Seek, LastInv
<1>3. CASE Next_ \/ ProduceEnd
    BY <1>1, <1>3, Zenon DEF Next_, ProduceEnd, LastInv, Frontier
<1>4. CASE ProduceBuffered
    <2>1. from' = from
        BY <1>4, Zenon DEF ProduceBuffered
    <2>2. PICK b \in IterKey : /\ Frontier \in Nat /\ Frontier <= b /\ Frontier' = b + 1
                               /\ UNCHANGED <<pc, curKey, yielded>> \/ curKey' = b
        BY <1>4, BufferedTurn, Zenon
    <2> QED BY <1>1, <2>1, <2>2 DEF LastInv, IterKey
<1>5. CASE ProduceStored
    <2>1. PICK s \in IterKey : Frontier \in Nat /\ Frontier <= s /\ Frontier' = s + 1 /\ curKey' = s
        BY <1>5, StoredTurn, Zenon
    <2> QED BY <2>1 DEF LastInv, IterKey
<1>6. CASE RewindReverse \/ NextReverse
    BY <1>1, <1>6, Zenon DEF RewindReverse, NextReverse, LastInv
<1>7. CASE UNCHANGED iterVars
    BY <1>7, Zenon DEF iterVars, cursor, LastInv, Frontier
<1> QED BY <1>2, <1>3, <1>4, <1>5, <1>6, <1>7, Zenon DEF IterNext

\* Whatever is buffered, deleted or stored: produce never goes back, so each
\* entry of a forward scan comes after the one before it, and each entry of a
\* reverse scan before.
THEOREM ScansKeepOrder == IterSpec => InOrder
<1> DEFINE Ordered == /\ pc = "producing" /\ pc' = "idle" /\ valid' /\ yielded # {} => curKey < curKey'
                      /\ NextReverse /\ valid' => curKey' < curKey
<1>1. IterInit => ScanInv /\ LastInv
    BY DEF IterInit, ScanInv, CursorType, LastInv
<1>2. IterSpec => [](ScanInv /\ LastInv)
    BY <1>1, ScanNext, LastNext, PTL DEF IterSpec
<1>3. ScanInv /\ LastInv /\ [IterNext]_iterVars => [Ordered]_iterVars
    <2> SUFFICES ASSUME ScanInv, LastInv, IterNext PROVE Ordered
        BY Zenon
    <2>1. ASSUME pc = "producing", pc' = "idle", valid', yielded # {} PROVE curKey < curKey'
        <3>1. curKey \in Nat /\ curKey < Frontier
            BY <2>1, Zenon DEF LastInv, ScanInv, CursorType
        <3>2. CASE ProduceBuffered
            BY <2>1, <3>1, <3>2, BufferedTurn DEF IterKey
        <3>3. CASE ProduceStored
            BY <3>1, <3>3, StoredTurn DEF IterKey
        <3>4. ~RewindReverse /\ ~NextReverse
            BY <2>1, Zenon DEF ScanInv, CursorType, RewindReverse, NextReverse
        <3> QED BY <2>1, <3>2, <3>3, <3>4, Zenon DEF IterNext, Seek, Next_, ProduceEnd
    <2>2. ASSUME NextReverse, valid' PROVE curKey' < curKey
        BY <2>2, Zenon DEF NextReverse, ReverseTo, IsLastBelow
    <2> QED BY <2>1, <2>2, Zenon
<1> QED BY <1>2, <1>3, PTL DEF IterSpec, InOrder

-----------------------------------------------------------------------------
(* The hybrid logical clock.                                               *)

LEMMA BumpType ==
    ASSUME NEW n \in 0..(LogicalMod - 1)
    PROVE  Bump(n) \in 0..(LogicalMod - 1) /\ (Bump(n) = n + 1 \/ Bump(n) = 0)
BY HLCAssumption DEF Bump

\* The clock keeps its type: the counter never leaves its width.
LEMMA ClockTypes == HLCSpec => []HLCTypeOK
<1> USE HLCAssumption
<1>1. HLCInit => HLCTypeOK
    BY DEF HLCInit, HLCTypeOK, NoRemote
<1>2. HLCTypeOK /\ [HLCNext]_hlcVars => HLCTypeOK'
    <2> SUFFICES ASSUME HLCTypeOK, [HLCNext]_hlcVars PROVE HLCTypeOK'
        OBVIOUS
    <2>1. ASSUME NEW w \in Wall, Now(w) PROVE HLCTypeOK'
        BY <2>1, BumpType DEF Now, HLCTypeOK, NoRemote
    <2>2. ASSUME NEW w \in Wall, NEW remote \in Remote, Update(w, remote) PROVE HLCTypeOK'
        <3>1. remote.wall \in Nat /\ remote.logical \in 0..(LogicalMod - 1)
            OBVIOUS
        <3>2. logical' \in 0..(LogicalMod - 1)
            BY <2>2, <3>1, BumpType DEF Update, HLCTypeOK
        <3> QED BY <2>2, <3>1, <3>2 DEF Update, MaxWall, HLCTypeOK
    <2>3. CASE UNCHANGED hlcVars
        BY <2>3 DEF hlcVars, HLCTypeOK
    <2> QED BY <2>1, <2>2, <2>3 DEF HLCNext
<1> QED BY <1>1, <1>2, PTL DEF HLCSpec

\* Every call of Now and Update moves the clock forward, and Update past the remote
\* timestamp, for any readings, remote timestamps and width, but for the Updates that
\* set the clock back or tie with it and for the wrap of the counter.
THEOREM ClockMovesForward == HLCSpec => ClockAdvances
<1> USE HLCAssumption
<1> DEFINE Forward == SetsBack \/ Advances \/ Wraps(lastWall)
           Past == call'.op = "update" => Ties \/ PassesRemote \/ Wraps(call'.remote.wall)
<1>1. HLCTypeOK /\ [HLCNext]_hlcVars => [Forward /\ Past]_hlcVars
    <2> SUFFICES ASSUME HLCTypeOK, HLCNext PROVE Forward /\ Past
        OBVIOUS
    <2>1. ASSUME NEW w \in Wall, Now(w) PROVE Forward /\ Past
        <3>1. Forward
            BY <2>1, BumpType DEF Now, HLCTypeOK, Advances, Wraps, Before
        <3>2. call'.op = "now"
            BY <2>1 DEF Now
        <3> QED BY <3>1, <3>2
    <2>2. ASSUME NEW w \in Wall, NEW remote \in Remote, Update(w, remote) PROVE Forward /\ Past
        <3> DEFINE m == MaxWall(w, remote)
        <3>1. /\ remote.wall \in Nat /\ remote.logical \in 0..(LogicalMod - 1)
              /\ m \in Nat /\ m >= remote.wall
            BY DEF MaxWall
        <3>2. call'.wall = w /\ call'.remote = remote /\ call'.op = "update"
            BY <2>2 DEF Update
        <3>3. CASE m = lastWall
            BY <2>2, <3>1, <3>2, <3>3, BumpType
            DEF Update, HLCTypeOK, Advances, Wraps, Before, Ties, PassesRemote
        <3>4. CASE m # lastWall /\ m = remote.wall
            BY <2>2, <3>1, <3>2, <3>4, BumpType
            DEF Update, HLCTypeOK, Advances, Wraps, Before, SetsBack, PassesRemote
        <3>5. CASE m # lastWall /\ m # remote.wall
            BY <2>2, <3>1, <3>2, <3>5
            DEF Update, HLCTypeOK, Advances, Before, SetsBack, PassesRemote
        <3> QED BY <3>3, <3>4, <3>5
    <2> QED BY <2>1, <2>2 DEF HLCNext
<1> QED BY <1>1, ClockTypes, PTL DEF HLCSpec, ClockAdvances

-----------------------------------------------------------------------------
(* Branches.                                                               *)

Content == Val \cup AllBranch \cup {Tomb, Absent}
TxnType == [open : BOOLEAN, snap : [Key -> Content], buf : [Key -> Content \cup {Keep}], since : SUBSET Key]

OpType ==
    {Idle, Tx, <<"createCommit">>, <<"dropCommit">>}
    \cup ({"create", "mergeCommit"} \X Feature \X AllBranch)
    \cup ({"merge", "mergeScan", "drop", "dropBegin"} \X Feature)

BranchTypeOK ==
    /\ db \in [Key -> Content]
    /\ txn \in [Client -> TxnType]
    /\ branch \in [Client -> AllBranch]
    /\ op \in [Client -> OpType]

\* The metadata of a branch names its parent, committed or buffered.
MetaInv ==
    \A b \in Feature :
        /\ db[MetaKey(b)] \in AllBranch \cup {Absent}
        /\ \A c \in Client : txn[c].buf[MetaKey(b)] \in AllBranch \cup {Absent, Keep}

\* The buffer holds no row of a table with a primary key on a branch other than b.
StaysOn(t, b) == \A a \in AllBranch \ {b}, r \in Row \ pkless : t.buf[RowKey(a, r)] = Keep

\* What the transaction t of a client on branch b relies on when its next step is o.
SessionOK(t, o, b) ==
    /\ o = Tx => t.open /\ StaysOn(t, b)
    /\ o[1] \in {"mergeScan", "mergeCommit"} => t.open
    /\ o[1] = "mergeScan" => t.buf = NoWrites

SessionInv == \A c \in Client : SessionOK(txn[c], op[c], branch[c])

BranchInv == BranchTypeOK /\ MetaInv /\ SessionInv

\* What is not committed since t's snapshot is in the store as t sees it.
Agrees(t) == t.open => \A k \in Key : k \notin t.since => t.snap[k] = db[k]

AgreeInv == \A c \in Client : Agrees(txn[c])

\* What the merge of a branch writes over the row it holds as own and the parent as its.
MergeWrite(own, its) ==
    IF own = Absent \/ (own = Tomb /\ its = Absent) THEN Keep
    ELSE IF own = Tomb THEN Absent ELSE own

\* The buffer holds what the merge of b into p is to install of t's snapshot.
Prepared(t, b, p) ==
    \A r \in Row : t.buf[RowKey(p, r)] = MergeWrite(t.snap[RowKey(b, r)], t.snap[RowKey(p, r)])

\* Unless a branch command came between, a merge about to commit merges into the parent.
MergeReady(c) ==
    /\ db[MetaKey(op[c][2])] = op[c][3] /\ op[c][3] # Absent
    /\ Prepared(txn[c], op[c][2], op[c][3])

MergeInv == \A c \in Client : op[c][1] = "mergeCommit" /\ c \notin moved => MergeReady(c)

-----------------------------------------------------------------------------
(* Keys, transactions and buffers.                                         *)

LEMMA Keys ==
    /\ \A b \in AllBranch, r \in Row : RowKey(b, r) \in Key
    /\ \A b \in Feature : MetaKey(b) \in Key
    /\ \A a, b \in AllBranch, r, s \in Row : RowKey(a, r) = RowKey(b, s) => a = b /\ r = s
    /\ \A a, b \in AllBranch, r \in Row : RowKey(a, r) # MetaKey(b)
    /\ \A a, b \in Feature : MetaKey(a) = MetaKey(b) => a = b
BY BranchAssumption, Zenon DEF RowKey, MetaKey, Key, AllBranch

LEMMA TxnTypes ==
    ASSUME db \in [Key -> Content]
    PROVE  /\ NoTxn \in TxnType /\ NoTxn.buf = NoWrites /\ ~NoTxn.open
           /\ \A k \in Key : NoTxn.snap[k] = Absent
           /\ Fresh \in TxnType /\ Fresh.buf = NoWrites /\ Fresh.open /\ Fresh.snap = db /\ Fresh.since = {}
           /\ \A k \in Key : NoWrites[k] = Keep
BY Zenon DEF NoTxn, Fresh, NoWrites, TxnType, Content

LEMMA BufferedType ==
    ASSUME NEW t \in TxnType, NEW w \in [Key -> Content \cup {Keep}]
    PROVE  /\ Buffered(t, w) \in TxnType
           /\ Buffered(t, w).open = t.open /\ Buffered(t, w).snap = t.snap /\ Buffered(t, w).since = t.since
           /\ \A k \in Key : Buffered(t, w).buf[k] = IF w[k] = Keep THEN t.buf[k] ELSE w[k]
BY Zenon DEF Buffered, TxnType

LEMMA OneType ==
    ASSUME NEW k, NEW v \in Content \cup {Keep}
    PROVE  One(k, v) \in [Key -> Content \cup {Keep}]
BY Zenon DEF One

\* An empty transaction is fit for every step but those of a session or a merge.
LEMMA NoTxnFits ==
    ASSUME NEW o \in OpType, NEW b, o # Tx, o[1] \notin {"mergeScan", "mergeCommit"}
    PROVE  SessionOK(NoTxn, o, b)
BY Zenon DEF SessionOK

\* The same holds with other keys committed since.
LEMMA SinceIsFree ==
    ASSUME NEW t \in TxnType, NEW s \in SUBSET Key
    PROVE  LET u == [t EXCEPT !.since = s]
           IN  u \in TxnType /\ u.open = t.open /\ u.buf = t.buf /\ u.snap = t.snap /\ u.since = s
BY Zenon DEF TxnType

-----------------------------------------------------------------------------
(* The steps that several actions share.                                   *)

\* The other clients' transactions are as they were.
LEMMA OthersKept ==
    ASSUME BranchInv, NEW c \in Client, NEW t \in TxnType, NEW o \in OpType, NEW b \in AllBranch,
           db' = db, pkless' = pkless,
           txn' = [txn EXCEPT ![c] = t], op' = [op EXCEPT ![c] = o], branch' = [branch EXCEPT ![c] = b],
           \A f \in Feature : t.buf[MetaKey(f)] \in AllBranch \cup {Absent, Keep},
           SessionOK(t, o, b)
    PROVE  BranchInv'
<1>1. BranchTypeOK'
    BY Zenon DEF BranchInv, BranchTypeOK
<1>2. MetaInv'
    BY Zenon DEF BranchInv, BranchTypeOK, MetaInv
<1>3. SessionInv'
    <2> SUFFICES ASSUME NEW d \in Client PROVE SessionOK(txn[d], op[d], branch[d])'
        BY Zenon DEF SessionInv
    <2>1. /\ txn'[d] = IF d = c THEN t ELSE txn[d]
          /\ op'[d] = IF d = c THEN o ELSE op[d]
          /\ branch'[d] = IF d = c THEN b ELSE branch[d]
        BY Zenon DEF BranchInv, BranchTypeOK
    <2>2. d # c => SessionOK(txn[d], op[d], branch[d])
        BY Zenon DEF BranchInv, SessionInv
    <2>3. CASE d = c
        <3>1. txn'[d] = t /\ op'[d] = o /\ branch'[d] = b
            BY <2>1, <2>3, Zenon
        <3>2. StaysOn(t, b) => StaysOn(txn[d], branch[d])'
            BY <3>1, Zenon DEF StaysOn
        <3> QED BY <3>1, <3>2, Zenon DEF SessionOK, NoWrites, Key
    <2>4. CASE d # c
        <3>1. txn'[d] = txn[d] /\ op'[d] = op[d] /\ branch'[d] = branch[d]
            BY <2>1, <2>4, Zenon
        <3>2. StaysOn(txn[d], branch[d]) => StaysOn(txn[d], branch[d])'
            BY <3>1, Zenon DEF StaysOn
        <3> QED BY <2>2, <2>4, <3>1, <3>2, Zenon DEF SessionOK, NoWrites, Key
    <2> QED BY <2>3, <2>4, Zenon
<1> QED BY <1>1, <1>2, <1>3, Zenon DEF BranchInv

LEMMA StepKeeps ==
    ASSUME BranchInv, NEW c \in Client, NEW t \in TxnType, NEW o \in OpType,
           Step(c, o, t),
           \A f \in Feature : t.buf[MetaKey(f)] \in AllBranch \cup {Absent, Keep},
           SessionOK(t, o, branch[c])
    PROVE  BranchInv'
<1>1. branch' = [branch EXCEPT ![c] = branch[c]] /\ branch[c] \in AllBranch
    BY Zenon DEF Step, BranchInv, BranchTypeOK
<1> QED BY Zenon, <1>1, OthersKept DEF Step

LEMMA CallKeeps ==
    ASSUME BranchInv, NEW c \in Client, NEW o \in OpType, o[1] \in {"create", "merge", "drop"}, Call(c, o)
    PROVE  BranchInv'
<1>1. /\ branch' = [branch EXCEPT ![c] = branch[c]] /\ branch[c] \in AllBranch
      /\ txn' = [txn EXCEPT ![c] = txn[c]] /\ txn[c] \in TxnType
    BY Zenon DEF Call, BranchInv, BranchTypeOK
<1>2. \A f \in Feature : txn[c].buf[MetaKey(f)] \in AllBranch \cup {Absent, Keep}
    BY Zenon DEF BranchInv, MetaInv
<1>3. SessionOK(txn[c], o, branch[c])
    <2>1. Tx[1] = "tx"
        BY DEF Tx
    <2> QED BY <2>1, Zenon DEF SessionOK
<1>4. db' = db /\ pkless' = pkless /\ op' = [op EXCEPT ![c] = o]
    BY Zenon DEF Call, Start
<1> QED BY Zenon, <1>1, <1>2, <1>3, <1>4, OthersKept

\* A row is written on the session's branch, or has no primary key.
LEMMA WriteKeeps ==
    ASSUME BranchInv, NEW c \in Client, NEW a \in AllBranch, NEW r \in Row, NEW v \in Content,
           a = branch[c] \/ r \in pkless, Write(c, RowKey(a, r), v)
    PROVE  BranchInv'
<1> DEFINE t == Buffered(txn[c], One(RowKey(a, r), v))
<1>0. txn[c] \in TxnType /\ branch[c] \in AllBranch /\ op[c] = Tx /\ Tx \in OpType
    BY Zenon DEF BranchInv, BranchTypeOK, Write, OpType
<1>1. One(RowKey(a, r), v) \in [Key -> Content \cup {Keep}]
    BY OneType, Zenon
<1>2. /\ t \in TxnType /\ t.open = txn[c].open
      /\ \A k \in Key : t.buf[k] = IF One(RowKey(a, r), v)[k] = Keep THEN txn[c].buf[k] ELSE One(RowKey(a, r), v)[k]
    BY <1>0, <1>1, BufferedType, Zenon
<1>3. \A k \in Key : k # RowKey(a, r) => t.buf[k] = txn[c].buf[k]
    BY <1>2, Zenon DEF One
<1>4. \A f \in Feature : t.buf[MetaKey(f)] \in AllBranch \cup {Absent, Keep}
    <2>1. ASSUME NEW f \in Feature PROVE t.buf[MetaKey(f)] = txn[c].buf[MetaKey(f)]
        <3>1. MetaKey(f) \in Key /\ f \in AllBranch
            BY Keys, Zenon DEF AllBranch
        <3>2. RowKey(a, r) # MetaKey(f)
            BY <3>1, Keys, Zenon
        <3> QED BY <1>3, <3>1, <3>2, Zenon
    <2>2. \A f \in Feature : txn[c].buf[MetaKey(f)] \in AllBranch \cup {Absent, Keep}
        BY Zenon DEF BranchInv, MetaInv
    <2> QED BY <2>1, <2>2, Zenon
<1>5. StaysOn(t, branch[c])
    <2>1. StaysOn(txn[c], branch[c])
        BY <1>0, Zenon DEF BranchInv, SessionInv, SessionOK
    <2>2. ASSUME NEW e \in AllBranch \ {branch[c]}, NEW x \in Row \ pkless
          PROVE  t.buf[RowKey(e, x)] = Keep
        <3>1. RowKey(e, x) # RowKey(a, r) /\ RowKey(e, x) \in Key
            BY Keys, Zenon
        <3> QED BY <1>3, <2>1, <3>1, Zenon DEF StaysOn
    <2> QED BY <2>2, Zenon DEF StaysOn
<1>6. SessionOK(t, Tx, branch[c])
    <2>1. txn[c].open
        BY <1>0, Zenon DEF BranchInv, SessionInv, SessionOK
    <2> QED BY <2>1, <1>2, <1>5, Zenon DEF SessionOK, Tx
<1>7. /\ txn' = [txn EXCEPT ![c] = t]
      /\ op' = [op EXCEPT ![c] = Tx] /\ branch' = [branch EXCEPT ![c] = branch[c]]
      /\ db' = db /\ pkless' = pkless
    BY <1>0, Zenon DEF Write, BranchInv, BranchTypeOK
<1> HIDE DEF t
<1> QED BY Zenon, <1>0, <1>2, <1>4, <1>6, <1>7, OthersKept

LEMMA InstallType ==
    ASSUME BranchTypeOK, NEW c \in Client
    PROVE  /\ Install(txn[c]) \in [Key -> Content]
           /\ \A k \in Key : Install(txn[c])[k] = IF txn[c].buf[k] = Keep THEN db[k] ELSE txn[c].buf[k]
BY DEF BranchTypeOK, TxnType, Install

\* What a commit leaves of the transaction of d.
LEMMA AfterCommitType ==
    ASSUME BranchTypeOK, NEW c \in Client, NEW d \in Client
    PROVE  /\ AfterCommit(c)[d] \in TxnType
           /\ \/ AfterCommit(c)[d] = NoTxn /\ (d = c \/ ~txn[d].open)
              \/ /\ d # c
                 /\ AfterCommit(c)[d].open = txn[d].open
                 /\ AfterCommit(c)[d].buf = txn[d].buf
                 /\ AfterCommit(c)[d].snap = txn[d].snap
                 /\ AfterCommit(c)[d].since = txn[d].since \cup Written(txn[c])
<1>1. txn[d] \in TxnType /\ txn[c] \in TxnType
    BY Zenon DEF BranchTypeOK
<1>2. CASE d = c \/ ~txn[d].open
    BY <1>2, TxnTypes, Zenon DEF AfterCommit, BranchTypeOK
<1>3. CASE ~(d = c \/ ~txn[d].open)
    <2>1. AfterCommit(c)[d] = [txn[d] EXCEPT !.since = txn[d].since \cup Written(txn[c])]
        BY <1>3, Zenon DEF AfterCommit
    <2>2. txn[d].since \cup Written(txn[c]) \in SUBSET Key
        BY <1>1, Zenon DEF TxnType, Written
    <2> QED BY <1>1, <1>3, <2>1, <2>2, SinceIsFree
<1> QED BY <1>2, <1>3, Zenon

LEMMA CommitKeeps ==
    ASSUME BranchInv, NEW c \in Client, CommitTxn(c)
    PROVE  BranchInv'
<1>0. BranchTypeOK /\ Idle \in OpType /\ branch[c] \in AllBranch /\ branch' = branch /\ pkless' = pkless
      /\ op' = [op EXCEPT ![c] = Idle]
    BY Zenon DEF BranchInv, BranchTypeOK, OpType, CommitTxn, Finish
<1>1. CASE txn' = Ended(c) /\ db' = db
    <2>1. branch' = [branch EXCEPT ![c] = branch[c]]
        BY <1>0, Zenon DEF BranchTypeOK
    <2>2. NoTxn \in TxnType /\ \A f \in Feature : NoTxn.buf[MetaKey(f)] \in AllBranch \cup {Absent, Keep}
        BY <1>0, TxnTypes, Keys, Zenon DEF BranchTypeOK
    <2>3. SessionOK(NoTxn, Idle, branch[c])
        BY DEF SessionOK, Idle, Tx
    <2> QED BY Zenon, <1>0, <1>1, <2>1, <2>2, <2>3, OthersKept DEF Ended
<1>2. CASE db' = Install(txn[c]) /\ txn' = AfterCommit(c)
    <2>1. txn' \in [Client -> TxnType]
        <3>1. DOMAIN txn' = Client /\ txn' = [d \in Client |-> txn'[d]]
            BY <1>2, Zenon DEF AfterCommit
        <3> QED BY <1>0, <1>2, <3>1, AfterCommitType, Zenon
    <2>2. BranchTypeOK'
        BY Zenon, <1>0, <1>2, <2>1, InstallType DEF BranchTypeOK
    <2>3. MetaInv'
        <3> SUFFICES ASSUME NEW b \in Feature
                     PROVE  /\ db'[MetaKey(b)] \in AllBranch \cup {Absent}
                            /\ \A d \in Client : txn'[d].buf[MetaKey(b)] \in AllBranch \cup {Absent, Keep}
            BY Zenon DEF MetaInv, MetaKey
        <3>1. db'[MetaKey(b)] \in AllBranch \cup {Absent}
            <4>1. MetaKey(b) \in Key /\ MetaInv
                BY Keys, Zenon DEF BranchInv
            <4>2. Install(txn[c])[MetaKey(b)] =
                      IF txn[c].buf[MetaKey(b)] = Keep THEN db[MetaKey(b)] ELSE txn[c].buf[MetaKey(b)]
                BY <1>0, <4>1, InstallType, Zenon
            <4> QED BY <1>2, <4>1, <4>2, Zenon DEF MetaInv
        <3>2. ASSUME NEW d \in Client PROVE txn'[d].buf[MetaKey(b)] \in AllBranch \cup {Absent, Keep}
            <4>1. txn[d].buf[MetaKey(b)] \in AllBranch \cup {Absent, Keep}
                BY Zenon DEF BranchInv, MetaInv
            <4>2. NoTxn.buf[MetaKey(b)] = Keep
                BY <1>0, TxnTypes, Keys, Zenon DEF BranchTypeOK
            <4>3. txn'[d] = NoTxn \/ txn'[d].buf = txn[d].buf
                BY <1>0, <1>2, AfterCommitType, Zenon
            <4> QED BY <4>1, <4>2, <4>3, Zenon
        <3> QED BY <3>1, <3>2, Zenon
    <2>4. SessionInv'
        <3> SUFFICES ASSUME NEW d \in Client PROVE SessionOK(txn[d], op[d], branch[d])'
            BY Zenon DEF SessionInv
        <3>1. branch'[d] = branch[d] /\ op'[d] \in OpType /\ op'[d] = IF d = c THEN Idle ELSE op[d]
            BY <1>0, <2>2, Zenon DEF BranchTypeOK
        <3>2. SessionOK(txn[d], op[d], branch[d])
            BY Zenon DEF BranchInv, SessionInv
        <3>3. CASE txn'[d] = NoTxn /\ (d = c \/ ~txn[d].open)
            <4>1. op'[d] # Tx /\ op'[d][1] \notin {"mergeScan", "mergeCommit"}
                <5>1. Idle # Tx /\ Idle[1] \notin {"mergeScan", "mergeCommit"}
                    BY DEF Idle, Tx
                <5> QED BY <3>1, <3>2, <3>3, <5>1, Zenon DEF SessionOK
            <4> QED BY <3>1, <3>3, <4>1, Zenon DEF SessionOK
        <3>4. CASE d # c /\ txn'[d].open = txn[d].open /\ txn'[d].buf = txn[d].buf /\ txn'[d].snap = txn[d].snap
            <4>1. op'[d] = op[d] /\ pkless' = pkless
                BY <1>0, <3>1, <3>4, Zenon
            <4>2. StaysOn(txn[d], branch[d]) => StaysOn(txn[d], branch[d])'
                BY <3>1, <3>4, <4>1, Zenon DEF StaysOn
            <4> QED BY <3>1, <3>2, <3>4, <4>1, <4>2, Zenon DEF SessionOK, NoWrites, Key
        <3> QED BY <1>0, <1>2, <3>3, <3>4, AfterCommitType, Zenon
    <2> QED BY <2>2, <2>3, <2>4, Zenon DEF BranchInv
<1> QED BY <1>1, <1>2, Zenon DEF CommitTxn

-----------------------------------------------------------------------------
(* The actions.                                                            *)

LEMMA ParentType ==
    ASSUME MetaInv, NEW b \in AllBranch
    PROVE  Parent(b) \in AllBranch
BY Zenon DEF MetaInv, Parent, AllBranch

LEMMA RowWrites ==
    ASSUME BranchInv, NEW c \in Client, NEW r \in Row,
           \/ \E v \in Val : Insert(c, r, v) \/ UpdateRow(c, r, v)
           \/ Delete(c, r)
    PROVE  BranchInv'
<1>0. branch[c] \in AllBranch /\ Val \subseteq Content /\ Tomb \in Content /\ Absent \in Content
    BY Zenon DEF BranchInv, BranchTypeOK, Content
<1>1. \E a \in AllBranch : (a = branch[c] \/ r \in pkless) /\ WriteKey(txn[c], branch[c], r) = RowKey(a, r)
    BY <1>0, ParentType, Zenon DEF WriteKey, BranchInv
<1>2. ASSUME NEW v \in Val, Insert(c, r, v) PROVE BranchInv'
    BY <1>0, <1>2, WriteKeeps, Zenon DEF Insert
<1>3. ASSUME NEW v \in Content, Write(c, WriteKey(txn[c], branch[c], r), v) PROVE BranchInv'
    <2>1. PICK a \in AllBranch : (a = branch[c] \/ r \in pkless) /\ WriteKey(txn[c], branch[c], r) = RowKey(a, r)
        BY <1>1, Zenon
    <2>2. Write(c, RowKey(a, r), v)
        BY <1>3, <2>1, Zenon
    <2> QED BY <2>1, <2>2, WriteKeeps, Zenon
<1> QED BY <1>0, <1>2, <1>3, Zenon DEF UpdateRow, Delete

\* The transactions of CREATE and DROP BRANCH write the metadata of one branch.
LEMMA MetaWrite ==
    ASSUME BranchInv, NEW c \in Client, NEW f \in Feature, NEW v \in AllBranch \cup {Absent}, NEW o \in OpType,
           o[1] \in {"createCommit", "dropCommit"},
           Step(c, o, Buffered(Fresh, One(MetaKey(f), v)))
    PROVE  BranchInv'
<1> DEFINE t == Buffered(Fresh, One(MetaKey(f), v))
<1>0. Fresh \in TxnType /\ Fresh.buf = NoWrites /\ \A k \in Key : NoWrites[k] = Keep
    BY TxnTypes, Zenon DEF BranchInv, BranchTypeOK
<1>1. v \in Content \cup {Keep} /\ One(MetaKey(f), v) \in [Key -> Content \cup {Keep}]
    BY OneType, Zenon DEF Content
<1>2. /\ t \in TxnType
      /\ \A k \in Key : t.buf[k] = IF One(MetaKey(f), v)[k] = Keep THEN Fresh.buf[k] ELSE One(MetaKey(f), v)[k]
    BY <1>0, <1>1, BufferedType, Zenon
<1>3. \A g \in Feature : t.buf[MetaKey(g)] \in AllBranch \cup {Absent, Keep}
    BY <1>0, <1>2, Keys, Zenon DEF One
<1>4. SessionOK(t, o, branch[c])
    BY DEF SessionOK, Tx
<1> HIDE DEF t
<1>5. Step(c, o, t)
    BY Zenon DEF t
<1> QED BY <1>2, <1>3, <1>4, <1>5, StepKeeps, Zenon

LEMMA ScanPrepares ==
    ASSUME BranchInv, NEW c \in Client, NEW b \in Feature, NEW p \in AllBranch, txn[c].buf = NoWrites
    PROVE  LET t == Buffered(txn[c], MergeOps(txn[c], b, p))
           IN  /\ t \in TxnType /\ t.open = txn[c].open /\ Prepared(t, b, p)
               /\ \A f \in Feature : t.buf[MetaKey(f)] \in AllBranch \cup {Absent, Keep}
<1> DEFINE w == MergeOps(txn[c], b, p)
           t == Buffered(txn[c], w)
<1>0. /\ txn[c] \in TxnType /\ b \in AllBranch
      /\ \A k \in Key : txn[c].snap[k] \in Content /\ Read(txn[c], k) = txn[c].snap[k]
    BY Zenon DEF BranchInv, BranchTypeOK, TxnType, Read, NoWrites, AllBranch
<1>1. \A k \in Key : k \notin {RowKey(p, r) : r \in Row} => w[k] = Keep
    BY Zenon DEF MergeOps
<1>2. \A r \in Row :
          w[RowKey(p, r)] =
              LET own == txn[c].snap[RowKey(b, r)]
              IN  IF own = Absent \/ (own = Tomb /\ txn[c].snap[RowKey(p, r)] = Absent) THEN Keep
                  ELSE IF own = Tomb THEN Absent ELSE own
    <2> TAKE r \in Row
    <2>1. RowKey(p, r) \in Key /\ RowKey(b, r) \in Key /\ RowKey(p, r)[2] = r
        BY <1>0, Keys, Zenon DEF RowKey
    <2> QED BY <1>0, <2>1, Zenon DEF MergeOps
<1>3. w \in [Key -> Content \cup {Keep}]
    <2>1. w = [k \in Key |-> w[k]]
        BY Zenon DEF MergeOps
    <2>2. ASSUME NEW k \in Key PROVE w[k] \in Content \cup {Keep}
        <3>1. CASE k \notin {RowKey(p, r) : r \in Row}
            BY <1>1, <3>1, Zenon
        <3>2. CASE k \in {RowKey(p, r) : r \in Row}
            <4>1. PICK r \in Row : k = RowKey(p, r)
                BY <3>2, Zenon
            <4>2. txn[c].snap[RowKey(b, r)] \in Content /\ Absent \in Content
                BY <1>0, Keys, Zenon DEF Content
            <4> QED BY <1>2, <4>1, <4>2, Zenon
        <3> QED BY <3>1, <3>2, Zenon
    <2> HIDE DEF w
    <2> QED BY <2>1, <2>2, Zenon
<1> HIDE DEF w
<1>4. /\ t \in TxnType /\ t.snap = txn[c].snap /\ t.open = txn[c].open
      /\ \A k \in Key : t.buf[k] = IF w[k] = Keep THEN txn[c].buf[k] ELSE w[k]
    BY <1>0, <1>3, BufferedType, Zenon
<1>5. \A f \in Feature : t.buf[MetaKey(f)] \in AllBranch \cup {Absent, Keep}
    <2>1. \A f \in Feature : MetaKey(f) \in Key /\ MetaKey(f) \notin {RowKey(p, r) : r \in Row}
        BY Keys, Zenon DEF AllBranch
    <2> QED BY <1>1, <1>4, <2>1, Zenon DEF NoWrites
<1>6. Prepared(t, b, p)
    <2> SUFFICES ASSUME NEW r \in Row
                 PROVE  t.buf[RowKey(p, r)] = MergeWrite(t.snap[RowKey(b, r)], t.snap[RowKey(p, r)])
        BY Zenon DEF Prepared
    <2>1. /\ RowKey(p, r) \in Key /\ txn[c].buf[RowKey(p, r)] = Keep
          /\ t.buf[RowKey(p, r)] = IF w[RowKey(p, r)] = Keep THEN txn[c].buf[RowKey(p, r)] ELSE w[RowKey(p, r)]
        BY <1>4, Keys, Zenon DEF NoWrites
    <2> HIDE DEF t
    <2> QED BY <1>2, <1>4, <2>1, Zenon DEF MergeWrite
<1> QED BY <1>4, <1>5, <1>6, Zenon DEF w

LEMMA DropKeeps ==
    ASSUME BranchInv, NEW c \in Client, DropPrefix(c)
    PROVE  BranchInv'
<1> DEFINE b == op[c][2]
           gone == {RowKey(b, r) : r \in Row}
<1>0. b \in Feature
    <2>1. op[c] \in OpType /\ op[c][1] = "drop"
        BY Zenon DEF DropPrefix, BranchInv, BranchTypeOK
    <2> QED BY <2>1 DEF OpType, Idle, Tx
<1>1. /\ op' = [op EXCEPT ![c] = <<"dropBegin", b>>]
      /\ db' = [k \in Key |-> IF k \in gone THEN Absent ELSE db[k]]
      /\ txn' = [d \in Client |->
                    [txn[d] EXCEPT !.snap = [k \in Key |-> IF k \in gone THEN Absent ELSE txn[d].snap[k]],
                                   !.since = txn[d].since \ gone]]
      /\ branch' = branch /\ pkless' = pkless
    BY Zenon DEF DropPrefix
<1> HIDE DEF b
<1>2. b \in AllBranch /\ \A f \in Feature : MetaKey(f) \notin gone
    BY <1>0, Keys, Zenon DEF AllBranch
<1> HIDE DEF gone
<1>3. ASSUME NEW d \in Client
      PROVE  /\ txn'[d] \in TxnType /\ txn'[d].open = txn[d].open /\ txn'[d].buf = txn[d].buf
             /\ \A k \in Key : txn'[d].snap[k] = IF k \in gone THEN Absent ELSE txn[d].snap[k]
    <2>1. txn[d] \in TxnType
        BY Zenon DEF BranchInv, BranchTypeOK
    <2> QED BY Zenon, <1>1, <2>1 DEF TxnType, Content
<1>4. BranchTypeOK'
    <2>1. txn' \in [Client -> TxnType]
        <3>1. txn' = [d \in Client |-> txn'[d]]
            BY Zenon, <1>1
        <3> QED BY <1>3, <3>1, Zenon
    <2>2. db' \in [Key -> Content]
        BY Zenon, <1>1 DEF BranchInv, BranchTypeOK, Content
    <2>3. op' \in [Client -> OpType]
        BY Zenon, <1>0, <1>1 DEF BranchInv, BranchTypeOK, OpType
    <2> QED BY Zenon, <1>1, <2>1, <2>2, <2>3 DEF BranchInv, BranchTypeOK
<1>5. MetaInv'
    BY Zenon, <1>1, <1>2, <1>3, Keys DEF BranchInv, MetaInv, MetaKey
<1>6. SessionInv'
    <2> SUFFICES ASSUME NEW d \in Client PROVE SessionOK(txn[d], op[d], branch[d])'
        BY Zenon DEF SessionInv
    <2>1. SessionOK(txn[d], op[d], branch[d]) /\ op[d] \in OpType
        BY Zenon DEF BranchInv, BranchTypeOK, SessionInv
    <2>2. op'[d] = IF d = c THEN <<"dropBegin", b>> ELSE op[d]
        BY Zenon, <1>1 DEF BranchInv, BranchTypeOK
    <2>3. branch'[d] = branch[d] /\ pkless' = pkless
        BY Zenon, <1>1
    <2>4. txn'[d].open = txn[d].open /\ txn'[d].buf = txn[d].buf
        BY <1>3, Zenon
    <2>5. CASE d = c
        BY <2>2, <2>5 DEF SessionOK, Tx
    <2>6. CASE d # c
        <3>1. op'[d] = op[d]
            BY <2>2, <2>6, Zenon
        <3>2. StaysOn(txn[d], branch[d])' <=> StaysOn(txn[d], branch[d])
            BY <2>3, <2>4, Zenon DEF StaysOn, RowKey
        <3> QED BY <2>1, <2>4, <3>1, <3>2, Zenon DEF SessionOK, NoWrites, Key
    <2> QED BY <2>5, <2>6, Zenon
<1> QED BY <1>4, <1>5, <1>6, Zenon DEF BranchInv

LEMMA BranchInit == Init => BranchInv
<1> SUFFICES ASSUME Init PROVE BranchInv
    BY Zenon
<1>1. PICK rows \in [Row -> Val \cup {Absent}], made \in SUBSET Feature :
          /\ db = [k \in Key |-> IF k[2] # "meta" THEN IF k[1] = Main THEN rows[k[2]] ELSE Absent
                                 ELSE IF k[1] \in made THEN Main ELSE Absent]
          /\ txn = [c \in Client |-> NoTxn]
    BY Zenon DEF Init, KVInit
<1>2. db \in [Key -> Content]
    BY <1>1, Zenon DEF Key, Content, AllBranch
<1>3. BranchTypeOK
    BY <1>1, <1>2, TxnTypes, Zenon DEF Init, BranchTypeOK, OpType, AllBranch
<1>4. MetaInv
    BY Zenon, <1>1, <1>2, TxnTypes, Keys DEF MetaInv, MetaKey, AllBranch
<1>5. SessionInv
    <2>1. Idle # Tx /\ Idle[1] \notin {"mergeScan", "mergeCommit"}
        BY DEF Idle, Tx
    <2>2. SessionOK(NoTxn, Idle, Main)
        BY <2>1, Zenon DEF SessionOK
    <2> QED BY <1>1, <2>2, Zenon DEF Init, SessionInv
<1> QED BY <1>3, <1>4, <1>5, Zenon DEF BranchInv

LEMMA BranchNext == BranchInv /\ [Next]_vars => BranchInv'
<1> SUFFICES ASSUME BranchInv, [Next]_vars PROVE BranchInv'
    BY Zenon
<1>0. /\ BranchTypeOK /\ MetaInv
      /\ NoTxn \in TxnType /\ NoTxn.buf = NoWrites
      /\ Fresh \in TxnType /\ Fresh.buf = NoWrites /\ Fresh.open
      /\ \A f \in Feature : NoWrites[MetaKey(f)] = Keep
      /\ \A a \in AllBranch, r \in Row : NoWrites[RowKey(a, r)] = Keep
      /\ Idle \in OpType /\ Tx \in OpType
    BY TxnTypes, Keys, Zenon DEF BranchInv, BranchTypeOK, OpType
<1>1. CASE UNCHANGED vars
    <2>1. db' = db /\ txn' = txn /\ pkless' = pkless /\ branch' = branch /\ op' = op
        BY <1>1, Zenon DEF vars
    <2>2. BranchTypeOK' /\ MetaInv'
        BY <1>0, <2>1, Zenon DEF BranchTypeOK, MetaInv
    <2>3. ASSUME NEW d \in Client PROVE SessionOK(txn[d], op[d], branch[d])'
        <3>1. SessionOK(txn[d], op[d], branch[d])
            BY Zenon DEF BranchInv, SessionInv
        <3>2. StaysOn(txn[d], branch[d])' <=> StaysOn(txn[d], branch[d])
            BY <2>1, Zenon DEF StaysOn, RowKey
        <3> QED BY <2>1, <3>1, <3>2, Zenon DEF SessionOK, NoWrites, Key
    <2> QED BY <2>2, <2>3, Zenon DEF BranchInv, SessionInv
<1>2. ASSUME NEW c \in Client, NEW b \in AllBranch, SetBranch(c, b) PROVE BranchInv'
    <2>1. /\ txn' = [txn EXCEPT ![c] = txn[c]] /\ txn[c] \in TxnType
          /\ op' = [op EXCEPT ![c] = Idle] /\ branch' = [branch EXCEPT ![c] = b]
          /\ db' = db /\ pkless' = pkless
        BY <1>0, <1>2, Zenon DEF SetBranch, BranchTypeOK
    <2>2. \A f \in Feature : txn[c].buf[MetaKey(f)] \in AllBranch \cup {Absent, Keep}
        BY <1>0, Zenon DEF MetaInv
    <2>3. SessionOK(txn[c], Idle, b)
        BY Zenon DEF SessionOK, Idle, Tx
    <2> QED BY ZenonT(30), <1>0, <2>1, <2>2, <2>3, OthersKept, Zenon
<1>3. ASSUME NEW c \in Client, Begin(c) PROVE BranchInv'
    <2>1. /\ txn' = [txn EXCEPT ![c] = Fresh] /\ op' = [op EXCEPT ![c] = Tx]
          /\ branch' = [branch EXCEPT ![c] = branch[c]] /\ branch[c] \in AllBranch
          /\ db' = db /\ pkless' = pkless
        BY <1>0, <1>3, Zenon DEF Begin, Start, BranchTypeOK
    <2>2. SessionOK(Fresh, Tx, branch[c])
        BY <1>0, Zenon DEF SessionOK, StaysOn, Tx
    <2> QED BY ZenonT(30), <1>0, <2>1, <2>2, OthersKept, Zenon
<1>4. ASSUME NEW c \in Client, Rollback(c) PROVE BranchInv'
    <2>1. /\ txn' = [txn EXCEPT ![c] = NoTxn] /\ op' = [op EXCEPT ![c] = Idle]
          /\ branch' = [branch EXCEPT ![c] = branch[c]] /\ branch[c] \in AllBranch
          /\ db' = db /\ pkless' = pkless
        BY <1>0, <1>4, Zenon DEF Rollback, Ended, Finish, BranchTypeOK
    <2>2. SessionOK(NoTxn, Idle, branch[c])
        BY Zenon DEF SessionOK, Idle, Tx
    <2> QED BY ZenonT(30), <1>0, <2>1, <2>2, OthersKept, Zenon
<1>5. ASSUME NEW c \in Client, CommitTxn(c) PROVE BranchInv'
    BY <1>5, CommitKeeps, Zenon
<1>6. ASSUME NEW c \in Client, NEW r \in Row, Delete(c, r) \/ \E v \in Val : Insert(c, r, v) \/ UpdateRow(c, r, v)
      PROVE BranchInv'
    BY <1>6, RowWrites, Zenon
<1>7. ASSUME NEW c \in Client, NEW b \in Feature,
             Merge(c, b) \/ Drop(c, b) \/ \E p \in AllBranch : Create(c, b, p)
      PROVE BranchInv'
    <2>1. /\ <<"merge", b>> \in OpType /\ <<"drop", b>> \in OpType
          /\ \A p \in AllBranch : <<"create", b, p>> \in OpType
        BY Zenon DEF OpType
    <2> QED BY Zenon, <1>7, <2>1, CallKeeps DEF Merge, Drop, Create
<1>8. ASSUME NEW c \in Client, CreateBegin(c) PROVE BranchInv'
    <2>1. op[c][2] \in Feature /\ op[c][3] \in AllBranch
        <3>1. op[c] \in OpType /\ op[c][1] = "create"
            BY <1>0, <1>8, Zenon DEF CreateBegin, BranchTypeOK
        <3> QED BY <3>1 DEF OpType, Idle, Tx
    <2>2. <<"createCommit">> \in OpType
        BY Zenon DEF OpType
    <2> QED BY <1>8, <2>1, <2>2, MetaWrite, Zenon DEF CreateBegin
<1>9. ASSUME NEW c \in Client, DropBegin(c) PROVE BranchInv'
    <2>1. op[c][2] \in Feature
        <3>1. op[c] \in OpType /\ op[c][1] = "dropBegin"
            BY <1>0, <1>9, Zenon DEF DropBegin, BranchTypeOK
        <3> QED BY <3>1 DEF OpType, Idle, Tx
    <2>2. <<"dropCommit">> \in OpType
        BY Zenon DEF OpType
    <2> QED BY <1>9, <2>1, <2>2, MetaWrite, Zenon DEF DropBegin
<1>10. ASSUME NEW c \in Client, MergeBegin(c) PROVE BranchInv'
    <2>1. op[c][2] \in Feature
        BY <1>0, <1>10 DEF MergeBegin, BranchTypeOK, OpType, Idle, Tx
    <2>2. <<"mergeScan", op[c][2]>> \in OpType
        BY <2>1, Zenon DEF OpType
    <2>3. SessionOK(Fresh, <<"mergeScan", op[c][2]>>, branch[c])
        BY <1>0, Zenon DEF SessionOK, Tx
    <2>4. /\ txn' = [txn EXCEPT ![c] = Fresh] /\ op' = [op EXCEPT ![c] = <<"mergeScan", op[c][2]>>]
          /\ branch' = [branch EXCEPT ![c] = branch[c]] /\ branch[c] \in AllBranch
          /\ db' = db /\ pkless' = pkless
        BY <1>0, <1>10, Zenon DEF MergeBegin, BranchTypeOK
    <2>5. Fresh \in TxnType /\ \A f \in Feature : Fresh.buf[MetaKey(f)] \in AllBranch \cup {Absent, Keep}
        BY <1>0, Zenon
    <2> QED BY <2>2, <2>3, <2>4, <2>5, OthersKept, Zenon
<1>11. ASSUME NEW c \in Client, MergeScan(c) PROVE BranchInv'
    <2>1. PICK b \in Feature : op[c] = <<"mergeScan", b>>
        <3>1. op[c] \in OpType /\ op[c][1] = "mergeScan"
            BY Zenon, <1>0, <1>11 DEF MergeScan, BranchTypeOK
        <3> QED BY <3>1 DEF OpType, Idle, Tx
    <2>2. CASE Step(c, Idle, NoTxn)
        <3>1. SessionOK(NoTxn, Idle, branch[c])
            BY Zenon DEF SessionOK, Idle, Tx
        <3> QED BY <1>0, <2>2, <3>1, StepKeeps, Zenon
    <2>3. CASE /\ Exists(b)
               /\ Step(c, <<"mergeCommit", b, db[MetaKey(b)]>>,
                       Buffered(txn[c], MergeOps(txn[c], b, db[MetaKey(b)])))
        <3>1. PICK p \in AllBranch : p = db[MetaKey(b)]
            BY <1>0, <2>3, Zenon DEF MetaInv, Exists
        <3>2. txn[c].buf = NoWrites /\ txn[c].open
            <4>1. op[c][1] = "mergeScan"
                BY <1>11, Zenon DEF MergeScan
            <4> QED BY <4>1, Zenon DEF BranchInv, SessionInv, SessionOK
        <3>3. PICK t : t = Buffered(txn[c], MergeOps(txn[c], b, p))
            BY Zenon
        <3>4. /\ t \in TxnType /\ t.open
              /\ \A f \in Feature : t.buf[MetaKey(f)] \in AllBranch \cup {Absent, Keep}
            BY <3>2, <3>3, ScanPrepares, Zenon
        <3>5. <<"mergeCommit", b, p>> \in OpType
            BY Zenon DEF OpType
        <3>6. SessionOK(t, <<"mergeCommit", b, p>>, branch[c])
            BY <3>4, Zenon DEF SessionOK, Tx
        <3>7. Step(c, <<"mergeCommit", b, p>>, t)
            BY <2>3, <3>1, <3>3, Zenon
        <3> QED BY <3>4, <3>5, <3>6, <3>7, StepKeeps, Zenon
    <2> QED BY <1>11, <2>1, <2>2, <2>3 DEF MergeScan
<1>12. ASSUME NEW c \in Client, DropPrefix(c) PROVE BranchInv'
    BY <1>12, DropKeeps, Zenon
<1>13. CASE Crash
    <2>1. /\ db' = db /\ pkless' = pkless /\ branch' = [c \in Client |-> Main]
          /\ txn' = [c \in Client |-> NoTxn] /\ op' = [c \in Client |-> Idle]
        BY <1>13, Zenon DEF Crash
    <2>2. BranchTypeOK'
        BY <1>0, <2>1, Zenon DEF BranchTypeOK, AllBranch
    <2>3. MetaInv'
        BY Zenon, <1>0, <2>1 DEF MetaInv, MetaKey
    <2>4. SessionInv'
        BY <2>1, Zenon DEF SessionInv, SessionOK, Idle, Tx
    <2> QED BY <2>2, <2>3, <2>4, Zenon DEF BranchInv
<1> QED BY <1>1, <1>2, <1>3, <1>4, <1>5, <1>6, <1>7, <1>8, <1>9, <1>10, <1>11, <1>12, <1>13, Zenon
        DEF Next, Commit, CreateCommit, MergeCommit, DropCommit

LEMMA BranchInvariance == Spec => []BranchInv
BY BranchInit, BranchNext, PTL DEF Spec

-----------------------------------------------------------------------------
(* The theorems.                                                           *)

\* A transaction on a branch commits to that branch only, for rows with a primary key
\* (branchRowKey), with any number of sessions and branches.
THEOREM WritesAreLocal == Spec => WritesStayOnBranch
<1>1. BranchInv => [\A c \in Client : Commit(c) =>
                       \A b \in AllBranch \ {branch[c]}, r \in Row \ pkless :
                           db'[RowKey(b, r)] = db[RowKey(b, r)]]_vars
    <2> SUFFICES ASSUME BranchInv, NEW c \in Client, Commit(c),
                        NEW b \in AllBranch \ {branch[c]}, NEW r \in Row \ pkless
                 PROVE  db'[RowKey(b, r)] = db[RowKey(b, r)]
        BY Zenon
    <2>1. BranchTypeOK /\ op[c] = Tx /\ CommitTxn(c)
        BY Zenon DEF BranchInv, Commit
    <2>2. txn[c].buf[RowKey(b, r)] = Keep
        BY <2>1, Zenon DEF BranchInv, SessionInv, SessionOK, StaysOn
    <2> QED BY <2>1, <2>2, InstallType, Keys, Zenon DEF CommitTxn
<1> QED BY <1>1, BranchInvariance, PTL DEF WritesStayOnBranch

\* What is not committed since a snapshot stays as the snapshot shows it, physical drops
\* included: they remove the rows from the store and from the snapshots at once.
LEMMA AgreeNext == BranchInv /\ AgreeInv /\ [Next]_vars => AgreeInv'
<1> SUFFICES ASSUME BranchInv, AgreeInv, [Next]_vars, NEW c \in Client PROVE Agrees(txn[c])'
    BY Zenon DEF AgreeInv
<1>0. /\ txn \in [Client -> TxnType] /\ txn[c] \in TxnType /\ BranchTypeOK /\ Agrees(txn[c])
      /\ ~NoTxn.open /\ Fresh.snap = db /\ Fresh.since = {} /\ Fresh \in TxnType
    BY TxnTypes, Zenon DEF BranchInv, BranchTypeOK, AgreeInv
<1>1. CASE db' = db /\ txn'[c] = txn[c]
    BY <1>0, <1>1, Zenon DEF Agrees, Key
<1>2. CASE db' = db /\ (txn'[c] = NoTxn \/ txn'[c] = Fresh)
    BY <1>0, <1>2, Zenon DEF Agrees, Key
<1>3. ASSUME NEW t \in {txn[c], Fresh}, NEW w, db' = db, txn'[c] = Buffered(t, w) PROVE Agrees(txn[c])'
    <2>1. t \in TxnType /\ Agrees(t)
        BY <1>0, Zenon DEF Agrees
    <2>2. Buffered(t, w).open = t.open /\ Buffered(t, w).snap = t.snap /\ Buffered(t, w).since = t.since
        BY <2>1, Zenon DEF Buffered, TxnType
    <2>3. t.open => \A k \in Key : k \notin t.since => t.snap[k] = db'[k]
        BY <1>3, <2>1, Zenon DEF Agrees
    <2>4. txn'[c].open = t.open /\ txn'[c].snap = t.snap /\ txn'[c].since = t.since
        BY <1>3, <2>2, Zenon
    <2> QED BY <2>3, <2>4, Zenon DEF Agrees, Key
<1>4. ASSUME NEW d \in Client, CommitTxn(d) PROVE Agrees(txn[c])'
    <2>1. CASE txn' = Ended(d) /\ db' = db
        BY <1>0, <1>1, <1>2, <2>1, Zenon DEF Ended
    <2>2. CASE db' = Install(txn[d]) /\ txn' = AfterCommit(d)
        <3>1. CASE txn'[c] = NoTxn
            BY <1>0, <3>1, Zenon DEF Agrees
        <3>2. CASE /\ txn'[c].open = txn[c].open /\ txn'[c].snap = txn[c].snap
                   /\ txn'[c].since = txn[c].since \cup Written(txn[d])
            <4>1. ASSUME NEW k \in Key, k \notin txn'[c].since PROVE db'[k] = db[k] /\ k \notin txn[c].since
                <5>1. txn[d].buf[k] = Keep /\ k \notin txn[c].since
                    BY <3>2, <4>1, Zenon DEF Written
                <5> QED BY <1>0, <2>2, <5>1, InstallType, Zenon
            <4> QED BY <1>0, <3>2, <4>1, Zenon DEF Agrees, Key
        <3> QED BY <1>0, <2>2, <3>1, <3>2, AfterCommitType, Zenon
    <2> QED BY <1>4, <2>1, <2>2, Zenon DEF CommitTxn
<1>5. ASSUME NEW d \in Client, DropPrefix(d) PROVE Agrees(txn[c])'
    <2> DEFINE gone == {RowKey(op[d][2], r) : r \in Row}
    <2>1. /\ db' = [k \in Key |-> IF k \in gone THEN Absent ELSE db[k]]
          /\ txn'[c] = [txn[c] EXCEPT !.snap = [k \in Key |-> IF k \in gone THEN Absent ELSE txn[c].snap[k]],
                                      !.since = txn[c].since \ gone]
        BY <1>5, Zenon DEF DropPrefix
    <2> HIDE DEF gone
    <2>2. /\ txn'[c].open = txn[c].open /\ txn'[c].since = txn[c].since \ gone
          /\ txn'[c].snap = [k \in Key |-> IF k \in gone THEN Absent ELSE txn[c].snap[k]]
        BY <1>0, <2>1, Zenon DEF TxnType
    <2>3. ASSUME NEW k \in Key, txn'[c].open, k \notin txn'[c].since PROVE txn'[c].snap[k] = db'[k]
        <3>1. CASE k \in gone
            BY <2>1, <2>2, <3>1, Zenon
        <3>2. CASE k \notin gone
            BY <1>0, <2>1, <2>2, <2>3, <3>2, Zenon DEF Agrees
        <3> QED BY <3>1, <3>2, Zenon
    <2> QED BY <2>3, Zenon DEF Agrees, Key
<1>6. CASE UNCHANGED vars
    BY <1>1, <1>6, Zenon DEF vars
<1>7. CASE Crash
    BY <1>2, <1>7, Zenon DEF Crash
<1>8. ASSUME NEW d \in Client, NEW t, db' = db, txn' = [txn EXCEPT ![d] = t],
             t = NoTxn \/ t = Fresh \/ (\E w : t = Buffered(Fresh, w)) \/ (\E w : t = Buffered(txn[d], w))
      PROVE  Agrees(txn[c])'
    <2>1. CASE d # c
        BY <1>0, <1>1, <1>8, <2>1, Zenon
    <2>2. CASE d = c
        BY <1>0, <1>2, <1>3, <1>8, <2>2, Zenon
    <2> QED BY <2>1, <2>2, Zenon
<1>9. ASSUME NEW d \in Client, NEW b \in AllBranch, SetBranch(d, b) PROVE Agrees(txn[c])'
    BY <1>1, <1>9, Zenon DEF SetBranch
<1>10. ASSUME NEW d \in Client, Begin(d) \/ Rollback(d) \/ MergeBegin(d) PROVE Agrees(txn[c])'
    BY <1>8, <1>10, Zenon DEF Begin, Rollback, MergeBegin, Ended
<1>11. ASSUME NEW d \in Client, NEW k, NEW v, Write(d, k, v) PROVE Agrees(txn[c])'
    BY <1>8, <1>11, Zenon DEF Write
<1>12. ASSUME NEW d \in Client, NEW r \in Row, Delete(d, r) \/ \E v \in Val : Insert(d, r, v) \/ UpdateRow(d, r, v)
       PROVE  Agrees(txn[c])'
    BY <1>11, <1>12, Zenon DEF Insert, UpdateRow, Delete
<1>13. ASSUME NEW d \in Client, NEW b \in Feature,
              Merge(d, b) \/ Drop(d, b) \/ \E p \in AllBranch : Create(d, b, p)
       PROVE  Agrees(txn[c])'
    BY Zenon, <1>1, <1>13 DEF Merge, Drop, Create, Call
<1>14. ASSUME NEW d \in Client, CreateBegin(d) \/ MergeScan(d) \/ DropBegin(d) PROVE Agrees(txn[c])'
    BY Zenon, <1>8, <1>14 DEF CreateBegin, MergeScan, DropBegin, Step
<1> QED BY Zenon, <1>4, <1>5, <1>6, <1>7, <1>9, <1>10, <1>12, <1>13, <1>14
        DEF Next, Commit, CreateCommit, MergeCommit, DropCommit

-----------------------------------------------------------------------------
(* What a step leaves of the rows that a client reads, if it does not move *)
(* them.                                                                   *)

\* DROP BRANCH removes rows of the branch only, also from the snapshots.
LEMMA DropSpares ==
    ASSUME BranchInv, NEW d \in Client, DropPrefix(d), NEW c \in Client
    PROVE  /\ op[d][2] \in Feature /\ branch' = branch /\ moved' = moved \cup On(op[d][2])
           /\ \A f \in Feature : db'[MetaKey(f)] = db[MetaKey(f)]
           /\ \A a \in AllBranch \ {op[d][2]}, r \in Row :
                 txn'[c].snap[RowKey(a, r)] = txn[c].snap[RowKey(a, r)]
           /\ txn'[c].buf = txn[c].buf
<1> DEFINE b == op[d][2]
           gone == {RowKey(b, r) : r \in Row}
<1>0. b \in Feature
    <2>1. op[d] \in OpType /\ op[d][1] = "drop"
        BY Zenon DEF DropPrefix, BranchInv, BranchTypeOK
    <2> QED BY <2>1 DEF OpType, Idle, Tx
<1>1. /\ branch' = branch /\ moved' = moved \cup On(b)
      /\ db' = [k \in Key |-> IF k \in gone THEN Absent ELSE db[k]]
      /\ txn' = [e \in Client |->
                    [txn[e] EXCEPT !.snap = [k \in Key |-> IF k \in gone THEN Absent ELSE txn[e].snap[k]],
                                   !.since = txn[e].since \ gone]]
    BY Zenon DEF DropPrefix
<1> HIDE DEF b
<1>2. /\ \A f \in Feature : MetaKey(f) \in Key /\ MetaKey(f) \notin gone
      /\ \A a \in AllBranch \ {b}, r \in Row : RowKey(a, r) \in Key /\ RowKey(a, r) \notin gone
    BY <1>0, Keys DEF AllBranch
<1> HIDE DEF gone
<1>3. \A f \in Feature : db'[MetaKey(f)] = db[MetaKey(f)]
    BY Zenon, <1>1, <1>2
<1>4. /\ txn'[c].snap = [k \in Key |-> IF k \in gone THEN Absent ELSE txn[c].snap[k]]
      /\ txn'[c].buf = txn[c].buf
    <2>1. txn[c] \in TxnType
        BY Zenon DEF BranchInv, BranchTypeOK
    <2> QED BY Zenon, <1>1, <2>1 DEF TxnType
<1>5. \A a \in AllBranch \ {b}, r \in Row : txn'[c].snap[RowKey(a, r)] = txn[c].snap[RowKey(a, r)]
    BY <1>2, <1>4, Zenon
<1> QED BY Zenon, <1>0, <1>1, <1>3, <1>4, <1>5 DEF b

\* A commit that leaves c out of moved leaves the parent of the branch c reads.
LEMMA CommitSpares ==
    ASSUME BranchInv, NEW d \in Client, CommitTxn(d), NEW c \in Client, c # d, txn[c].open, c \notin moved',
           NEW b \in AllBranch, Reading(c) = b
    PROVE  /\ branch' = branch /\ txn'[c].snap = txn[c].snap /\ txn'[c].buf = txn[c].buf /\ c \notin moved
           /\ b # Main => db'[MetaKey(b)] = db[MetaKey(b)]
<1>0. BranchTypeOK /\ branch' = branch
    BY Zenon DEF BranchInv, BranchTypeOK, CommitTxn, Finish
<1>1. CASE txn' = Ended(d) /\ db' = db /\ moved' = moved
    BY <1>0, <1>1, Zenon DEF Ended, BranchTypeOK
<1>2. CASE /\ db' = Install(txn[d]) /\ txn' = AfterCommit(d)
           /\ moved' = moved \cup UNION {On(a) : a \in {f \in Feature : MetaKey(f) \in Written(txn[d])}}
    <2>1. txn'[c].snap = txn[c].snap /\ txn'[c].buf = txn[c].buf
        BY <1>0, <1>2, AfterCommitType, Zenon
    <2>2. ASSUME b # Main PROVE db'[MetaKey(b)] = db[MetaKey(b)]
        <3>1. b \in Feature /\ MetaKey(b) \in Key /\ c \in On(b)
            BY <2>2, Keys, Zenon DEF AllBranch, On
        <3>2. MetaKey(b) \notin Written(txn[d])
            BY <1>2, <3>1, Zenon
        <3>3. txn[d].buf[MetaKey(b)] = Keep
            BY <3>1, <3>2, Zenon DEF Written
        <3> QED BY <1>0, <1>2, <3>1, <3>3, InstallType, Zenon
    <2>3. c \notin moved
        BY <1>2, Zenon
    <2> QED BY <1>0, <2>1, <2>2, <2>3, Zenon
<1> QED BY <1>1, <1>2, Zenon DEF CommitTxn

\* The rows of branch b, and of its parent p, that c reads are as they were.
Spared(c, b, p) ==
    /\ branch'[c] = branch[c]
    /\ b # Main => db'[MetaKey(b)] = db[MetaKey(b)]
    /\ \A r \in Row : txn'[c].snap[RowKey(b, r)] = txn[c].snap[RowKey(b, r)]
    /\ b # Main => \A r \in Row : txn'[c].snap[RowKey(p, r)] = txn[c].snap[RowKey(p, r)]

\* A step during a session's transaction, or while a merge is about to commit, spares what
\* the client reads unless it moves the client.
LEMMA StepSpares ==
    ASSUME BranchInv, [Next]_vars, NEW c \in Client, op[c] = Tx \/ op[c][1] = "mergeCommit",
           op'[c] = op[c], c \notin moved', NEW b \in AllBranch, Reading(c) = b
    PROVE  /\ Spared(c, b, Parent(b)) /\ c \notin moved
           /\ op[c] # Tx => txn'[c].buf = txn[c].buf
<1> DEFINE Goal == /\ Spared(c, b, Parent(b)) /\ c \notin moved
                   /\ op[c] # Tx => txn'[c].buf = txn[c].buf
<1>0. /\ txn[c].open /\ MetaInv /\ op[c] # Idle /\ op[c][1] \in {"tx", "mergeCommit"}
      /\ op \in [Client -> OpType] /\ txn \in [Client -> TxnType] /\ branch \in [Client -> AllBranch]
    <2>1. Idle[1] = "idle" /\ Tx[1] = "tx"
        BY DEF Idle, Tx
    <2> QED BY <2>1, Zenon DEF BranchInv, BranchTypeOK, SessionInv, SessionOK
<1>1. CASE /\ db' = db /\ branch'[c] = branch[c] /\ txn'[c].snap = txn[c].snap /\ c \notin moved
           /\ op[c] # Tx => txn'[c].buf = txn[c].buf
    BY <1>1, Zenon DEF Spared
<1>2. ASSUME NEW d \in Client, CommitTxn(d) PROVE Goal
    <2>1. d # c
        BY <1>0, <1>2, Zenon DEF CommitTxn, Finish
    <2>2. /\ branch' = branch /\ txn'[c].snap = txn[c].snap /\ txn'[c].buf = txn[c].buf /\ c \notin moved
          /\ b # Main => db'[MetaKey(b)] = db[MetaKey(b)]
        BY <1>0, <1>2, <2>1, CommitSpares, Zenon
    <2> QED BY <2>2, Zenon DEF Spared
<1>3. ASSUME NEW d \in Client, DropPrefix(d) PROVE Goal
    <2>1. /\ op[d][2] \in Feature /\ branch' = branch /\ moved' = moved \cup On(op[d][2])
          /\ \A f \in Feature : db'[MetaKey(f)] = db[MetaKey(f)]
          /\ \A a \in AllBranch \ {op[d][2]}, r \in Row :
                txn'[c].snap[RowKey(a, r)] = txn[c].snap[RowKey(a, r)]
          /\ txn'[c].buf = txn[c].buf
        BY <1>3, DropSpares, Zenon
    <2>2. c \notin moved /\ b # op[d][2] /\ (b # Main => Parent(b) # op[d][2])
        BY <2>1, BranchAssumption, Zenon DEF On
    <2>3. Parent(b) \in AllBranch
        BY <1>0, ParentType, Zenon
    <2> QED BY <2>1, <2>2, <2>3, Zenon DEF Spared, AllBranch
<1>4. CASE UNCHANGED vars
    BY <1>1, <1>4, Zenon DEF vars
<1>5. CASE Crash
    BY <1>0, <1>5, Zenon DEF Crash
<1>6. ASSUME NEW d \in Client, NEW a \in AllBranch, SetBranch(d, a) PROVE Goal
    <2>1. d # c
        BY <1>0, <1>6, Zenon DEF SetBranch
    <2> QED BY <1>0, <1>1, <1>6, <2>1, Zenon DEF SetBranch
<1>7. ASSUME NEW d \in Client, Begin(d) \/ MergeBegin(d) PROVE Goal
    <2>1. d # c
        <3>1. op[d] = Idle \/ op[d][1] = "merge"
            BY <1>7, Zenon DEF Begin, Start, MergeBegin
        <3> QED BY <1>0, <3>1
    <2> QED BY <1>0, <1>1, <1>7, <2>1, Zenon DEF Begin, MergeBegin
<1>8. ASSUME NEW d \in Client, Rollback(d) PROVE Goal
    <2>1. d # c
        BY <1>0, <1>8, Zenon DEF Rollback, Finish
    <2> QED BY <1>0, <1>1, <1>8, <2>1, Zenon DEF Rollback, Finish, Ended
<1>9. ASSUME NEW d \in Client, NEW k, NEW v, Write(d, k, v) PROVE Goal
    <2>1. txn[d] \in TxnType /\ Buffered(txn[d], One(k, v)).snap = txn[d].snap
        BY <1>0, Zenon DEF Buffered, TxnType
    <2>2. txn'[c].snap = txn[c].snap
        BY <1>0, <1>9, <2>1, Zenon DEF Write
    <2>3. op[c] # Tx => txn'[c].buf = txn[c].buf
        BY <1>0, <1>9, Zenon DEF Write
    <2> QED BY <1>1, <1>9, <2>2, <2>3, Zenon DEF Write
<1>10. ASSUME NEW d \in Client, NEW o, Call(d, o) PROVE Goal
    BY <1>1, <1>10, Zenon DEF Call
<1>11. ASSUME NEW d \in Client, d # c, NEW o, NEW t, Step(d, o, t) PROVE Goal
    BY <1>0, <1>1, <1>11, Zenon DEF Step
<1>12. ASSUME NEW d \in Client, CreateBegin(d) \/ MergeScan(d) \/ DropBegin(d) PROVE Goal
    <2>1. d # c
        <3>1. op[d][1] \in {"create", "mergeScan", "dropBegin"}
            BY Zenon, <1>12 DEF CreateBegin, MergeScan, DropBegin
        <3> QED BY <1>0, <3>1
    <2>2. \E o, t : Step(d, o, t)
        BY <1>12, Zenon DEF CreateBegin, MergeScan, DropBegin
    <2> QED BY <1>11, <2>1, <2>2, Zenon
<1>13. ASSUME NEW d \in Client, NEW r \in Row, Delete(d, r) \/ \E v \in Val : Insert(d, r, v) \/ UpdateRow(d, r, v)
       PROVE  Goal
    BY <1>9, <1>13, Zenon DEF Insert, UpdateRow, Delete
<1>14. ASSUME NEW d \in Client, NEW a \in Feature,
              Merge(d, a) \/ Drop(d, a) \/ \E p \in AllBranch : Create(d, a, p)
       PROVE  Goal
    BY Zenon, <1>10, <1>14 DEF Merge, Drop, Create
<1> QED BY Zenon, <1>2, <1>3, <1>4, <1>5, <1>6, <1>7, <1>8, <1>12, <1>13, <1>14
        DEF Next, Commit, CreateCommit, MergeCommit, DropCommit

\* A merge that is about to commit stays ready, from the step that scanned the branch on.
LEMMA MergeNext == BranchInv /\ MergeInv /\ [Next]_vars => MergeInv'
<1> SUFFICES ASSUME BranchInv, MergeInv, [Next]_vars, NEW c \in Client, op'[c][1] = "mergeCommit", c \notin moved'
             PROVE  MergeReady(c)'
    BY Zenon DEF MergeInv
<1>0. op \in [Client -> OpType] /\ txn \in [Client -> TxnType] /\ op[c] \in OpType /\ MetaInv
    BY Zenon DEF BranchInv, BranchTypeOK
<1>1. CASE op'[c] = op[c]
    <2>1. PICK b \in Feature, p \in AllBranch : op[c] = <<"mergeCommit", b, p>>
        BY <1>0, <1>1 DEF OpType, Idle, Tx
    <2>2. Reading(c) = b /\ b \in AllBranch /\ op[c] # Tx /\ op[c][2] = b /\ op[c][3] = p
        BY <2>1 DEF Reading, AllBranch, Tx
    <2>3. Spared(c, b, Parent(b)) /\ c \notin moved /\ txn'[c].buf = txn[c].buf
        BY <1>1, <2>2, StepSpares, Zenon
    <2>4. db[MetaKey(b)] = p /\ p # Absent /\ Prepared(txn[c], b, p)
        BY <1>1, <2>2, <2>3, Zenon DEF MergeInv, MergeReady
    <2>5. b # Main /\ Parent(b) = p
        BY <2>4, BranchAssumption, Zenon DEF Parent
    <2>6. db'[MetaKey(b)] = p /\ Prepared(txn[c], b, p)'
        BY <2>3, <2>4, <2>5, Zenon DEF Spared, Prepared, RowKey
    <2> QED BY <1>1, <2>2, <2>4, <2>6, Zenon DEF MergeReady, MetaKey, Prepared, RowKey
<1>2. ASSUME MergeScan(c) PROVE MergeReady(c)'
    <2>1. PICK b \in Feature : op[c] = <<"mergeScan", b>>
        <3>1. op[c][1] = "mergeScan"
            BY <1>2, Zenon DEF MergeScan
        <3> QED BY <1>0, <3>1 DEF OpType, Idle, Tx
    <2>2. CASE Step(c, Idle, NoTxn)
        <3>1. op'[c] = Idle
            BY <1>0, <2>2, Zenon DEF Step
        <3> QED BY <3>1 DEF Idle
    <2>3. CASE /\ Exists(b)
               /\ Step(c, <<"mergeCommit", b, db[MetaKey(b)]>>,
                       Buffered(txn[c], MergeOps(txn[c], b, db[MetaKey(b)])))
        <3>1. PICK p \in AllBranch : p = db[MetaKey(b)] /\ p # Absent
            BY <1>0, <2>3, Zenon DEF MetaInv, Exists
        <3>2. txn[c].buf = NoWrites
            BY <1>2, Zenon DEF MergeScan, BranchInv, SessionInv, SessionOK
        <3>3. PICK t : t = Buffered(txn[c], MergeOps(txn[c], b, p))
            BY Zenon
        <3>4. Prepared(t, b, p)
            BY <3>2, <3>3, ScanPrepares, Zenon
        <3>5. op'[c] = <<"mergeCommit", b, p>> /\ txn'[c] = t /\ db' = db
            BY <1>0, <2>3, <3>1, <3>3, Zenon DEF Step
        <3>6. op'[c][2] = b /\ op'[c][3] = p
            BY <3>5
        <3> QED BY <3>1, <3>4, <3>5, <3>6, Zenon DEF MergeReady, MetaKey, Prepared, RowKey
    <2>4. op[c][2] = b
        BY <2>1
    <2> QED BY <1>2, <2>2, <2>3, <2>4, Zenon DEF MergeScan
<1>3. ASSUME op'[c] # op[c] PROVE MergeScan(c)
    <2>1. ASSUME NEW d \in Client, NEW o, op' = [op EXCEPT ![d] = o], o[1] # "mergeCommit" PROVE FALSE
        BY <1>0, <1>3, <2>1, Zenon
    <2>2. /\ Idle[1] # "mergeCommit" /\ Tx[1] # "mergeCommit" /\ <<"createCommit">>[1] # "mergeCommit"
          /\ <<"dropCommit">>[1] # "mergeCommit"
          /\ \A b, p : /\ <<"create", b, p>>[1] # "mergeCommit" /\ <<"merge", b>>[1] # "mergeCommit"
                       /\ <<"mergeScan", b>>[1] # "mergeCommit"
                       /\ <<"drop", b>>[1] # "mergeCommit" /\ <<"dropBegin", b>>[1] # "mergeCommit"
        BY DEF Idle, Tx
    <2>3. ASSUME NEW d \in Client,
                 \/ Begin(d) \/ Rollback(d) \/ CommitTxn(d) \/ CreateBegin(d) \/ MergeBegin(d)
                 \/ DropPrefix(d) \/ DropBegin(d)
                 \/ \E b \in Feature : Merge(d, b) \/ Drop(d, b) \/ \E p \in AllBranch : Create(d, b, p)
          PROVE  FALSE
        <3>1. CASE Begin(d) \/ Rollback(d) \/ CommitTxn(d)
            BY <2>1, <2>2, <3>1, Zenon DEF Begin, Start, Rollback, CommitTxn, Finish
        <3>2. CASE CreateBegin(d) \/ MergeBegin(d) \/ DropPrefix(d) \/ DropBegin(d)
            BY <2>1, <2>2, <3>2, Zenon DEF CreateBegin, MergeBegin, DropPrefix, DropBegin, Step
        <3>3. CASE \E b \in Feature : Merge(d, b) \/ Drop(d, b) \/ \E p \in AllBranch : Create(d, b, p)
            BY <2>1, <2>2, <3>3, Zenon DEF Merge, Drop, Create, Call, Start
        <3> QED BY <2>3, <3>1, <3>2, <3>3, Zenon
    <2>4. ASSUME NEW d \in Client, MergeScan(d), d # c PROVE FALSE
        BY <1>0, <1>3, <2>4, Zenon DEF MergeScan, Step
    <2>5. ASSUME NEW d \in Client, NEW r \in Row, Delete(d, r) \/ \E v \in Val : Insert(d, r, v) \/ UpdateRow(d, r, v)
          PROVE  FALSE
        BY <1>3, <2>5, Zenon DEF Insert, UpdateRow, Delete, Write
    <2>6. ASSUME UNCHANGED vars \/ \E d \in Client, b \in AllBranch : SetBranch(d, b) PROVE FALSE
        BY <1>3, <2>6, Zenon DEF vars, SetBranch
    <2>7. CASE Crash
        BY <2>2, <2>7, Zenon DEF Crash
    <2> QED BY Zenon, <2>3, <2>4, <2>5, <2>6, <2>7 DEF Next, Commit, CreateCommit, MergeCommit, DropCommit
<1> QED BY <1>1, <1>2, <1>3, Zenon

LEMMA MergeInvariance == Spec => [](BranchInv /\ AgreeInv /\ MergeInv)
<1>1. Init => AgreeInv /\ MergeInv
    <2>1. Idle[1] # "mergeCommit" /\ NoTxn.open = FALSE
        BY DEF Idle, NoTxn
    <2> QED BY <2>1, Zenon DEF Init, KVInit, AgreeInv, Agrees, MergeInv
<1> QED BY <1>1, BranchInit, BranchNext, AgreeNext, MergeNext, PTL DEF Spec

\* A merge gives the parent what a session on the branch saw when it began and loses no
\* live row committed to the parent meanwhile (Merge in merge.go against scanTable), for
\* any clients, branches, rows and values.
THEOREM MergesShowTheBranch == Spec => MergeShowsBranch
<1> DEFINE Live(v) == IF v \in Val THEN v ELSE Absent
           Merged(c) ==
               LET seen == Shown([txn[c] EXCEPT !.buf = NoWrites], op[c][2])
               IN  \A r \in Row :
                      LET k == RowKey(op[c][3], r)
                      IN  IF k \in txn[c].since THEN db[k] # Absent => db'[k] = db[k]
                          ELSE (IF db'[k] \in Val THEN db'[k] ELSE Absent) = seen[r]
<1>1. ASSUME BranchInv, AgreeInv, MergeInv, NEW c \in Client, MergeCommit(c), ~Conflict(txn[c]), c \notin moved
      PROVE  Merged(c)
    <2>1. /\ BranchTypeOK /\ op[c] \in OpType /\ op[c][1] = "mergeCommit" /\ db' = Install(txn[c])
          /\ txn[c] \in TxnType /\ txn[c].open /\ Agrees(txn[c]) /\ MergeReady(c)
        BY <1>1, Zenon DEF BranchInv, BranchTypeOK, MergeCommit, CommitTxn, SessionInv, SessionOK, AgreeInv, MergeInv
    <2>2. PICK b \in Feature, p \in AllBranch : op[c] = <<"mergeCommit", b, p>>
        BY <2>1 DEF OpType, Idle, Tx
    <2>3. op[c][2] = b /\ op[c][3] = p /\ b \in AllBranch
        BY <2>2 DEF AllBranch
    <2>4. db[MetaKey(b)] = p /\ p # Absent /\ Prepared(txn[c], b, p) /\ b # Main
        BY <2>1, <2>3, BranchAssumption, Zenon DEF MergeReady
    <2>5. Parent(b) = p
        BY <2>4, Zenon DEF Parent
    <2> DEFINE t == [txn[c] EXCEPT !.buf = NoWrites]
    <2>6. t.snap = txn[c].snap /\ t.buf = NoWrites
        BY <2>1, Zenon DEF TxnType
    <2> SUFFICES ASSUME NEW r \in Row
                 PROVE  LET k == RowKey(p, r)
                        IN  IF k \in txn[c].since THEN db[k] # Absent => db'[k] = db[k]
                            ELSE Live(db'[k]) = Shown(t, b)[r]
        BY <2>3, Zenon
    <2> DEFINE k == RowKey(p, r)
               own == txn[c].snap[RowKey(b, r)]
    <2>7. /\ k \in Key /\ RowKey(b, r) \in Key
          /\ txn[c].buf[k] = MergeWrite(own, txn[c].snap[k])
          /\ db'[k] = IF txn[c].buf[k] = Keep THEN db[k] ELSE txn[c].buf[k]
        BY <2>1, <2>3, <2>4, Keys, InstallType, Zenon DEF Prepared
    <2> HIDE DEF t
    <2>8. Found(t, b, r) = IF own # Absent THEN own ELSE txn[c].snap[k]
        BY <2>4, <2>5, <2>6, <2>7, Zenon DEF Found, Read, NoWrites
    <2>9. Shown(t, b)[r] = Live(Found(t, b, r))
        BY Zenon DEF Shown, Visible
    <2> HIDE DEF k, own
    <2>10. CASE k \in txn[c].since
        <3>1. db[k] # Absent => txn[c].buf[k] = Keep
            BY <1>1, <2>7, <2>10, Zenon DEF Conflict, Written
        <3> QED BY <2>7, <2>10, <3>1, Zenon DEF k
    <2>11. CASE k \notin txn[c].since
        <3>1. db[k] = txn[c].snap[k]
            BY <2>1, <2>7, <2>11, Zenon DEF Agrees
        <3>2. Live(db'[k]) = Live(Found(t, b, r))
            <4>1. CASE own = Absent
                BY <2>7, <2>8, <3>1, <4>1, Zenon DEF MergeWrite
            <4>2. CASE own = Tomb
                BY <2>7, <2>8, <3>1, <4>2, BranchAssumption, Zenon DEF MergeWrite
            <4>3. CASE own # Absent /\ own # Tomb
                <5>1. own # Keep
                    BY <2>1, <2>7, BranchAssumption, Zenon DEF own, TxnType, Content, AllBranch
                <5> QED BY <2>7, <2>8, <4>3, <5>1, Zenon DEF MergeWrite
            <4> QED BY <4>1, <4>2, <4>3, Zenon
        <3> QED BY <2>9, <2>11, <3>2, Zenon DEF k
    <2> QED BY <2>10, <2>11, Zenon
<1>2. BranchInv /\ AgreeInv /\ MergeInv =>
          [\A c \in Client : MergeCommit(c) /\ ~Conflict(txn[c]) /\ c \notin moved => Merged(c)]_vars
    BY <1>1, Zenon
<1> QED BY <1>2, MergeInvariance, PTL DEF MergeShowsBranch

\* A transaction that writes nothing sees the same rows at each of its reads, as long as
\* neither its branch nor the parent is made or dropped meanwhile (scanTable).
THEOREM ReadsRepeat == Spec => BranchReadsRepeat
<1>1. ASSUME BranchInv, [Next]_vars, NEW c \in Client,
             op[c] = Tx, op'[c] = Tx, txn'[c].buf = txn[c].buf, c \notin moved'
      PROVE  Shown(txn[c], branch[c])' = Shown(txn[c], branch[c])
    <2>1. PICK b \in AllBranch : b = branch[c]
        BY <1>1, Zenon DEF BranchInv, BranchTypeOK
    <2>2. Reading(c) = b
        BY <1>1, <2>1 DEF Reading, Tx
    <2>3. Spared(c, b, Parent(b))
        BY <1>1, <2>2, StepSpares, Zenon
    <2>4. Parent(branch[c])' = Parent(branch[c]) /\ branch'[c] = b
        BY <2>1, <2>3, Zenon DEF Spared, Parent, MetaKey
    <2>5. ASSUME NEW r \in Row PROVE Found(txn[c], branch[c], r)' = Found(txn[c], branch[c], r)
        BY <1>1, <2>1, <2>3, <2>4, Zenon DEF Spared, Found, Read, RowKey
    <2> QED BY <2>5, Zenon DEF Shown, Visible
<1>2. BranchInv /\ [Next]_vars =>
          [\A c \in Client :
              op[c] = Tx /\ op'[c] = Tx /\ txn'[c].buf = txn[c].buf /\ c \notin moved' =>
                  Shown(txn[c], branch[c])' = Shown(txn[c], branch[c])]_vars
    BY <1>1, Zenon
<1> QED BY <1>2, BranchInvariance, PTL DEF Spec, BranchReadsRepeat

=============================================================================
