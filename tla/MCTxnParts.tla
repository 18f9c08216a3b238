----------------------------- MODULE MCTxnParts -----------------------------
(* What package transactions has beside its engine: the merged iterator and *)
(* the hybrid logical clock.  They share no state: a behaviour runs one of  *)
(* them.  The remote timestamps are behind, at and ahead of the readings.   *)
EXTENDS MergedIterator, HLC

VARIABLE part

MCRemote == [wall : {1, 3, 5}, logical : 0..3]

vars == <<iterVars, hlcVars, part>>

Init ==
    /\ IterInit /\ HLCInit
    /\ part \in {"iterator", "clock"}
    /\ part = "clock" => /\ snapshot = [k \in IterKey |-> None]
                         /\ mutations = <<>> /\ ~reverse

Next ==
    \/ part = "iterator" /\ IterNext /\ UNCHANGED <<hlcVars, part>>
    \/ part = "clock" /\ HLCNext /\ UNCHANGED <<iterVars, part>>

Spec ==
    /\ Init /\ [][Next]_vars
    /\ part = "iterator" => IterFairness
=============================================================================
