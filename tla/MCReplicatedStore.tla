------------------------- MODULE MCReplicatedStore -------------------------
(* ReplicatedStore with model values; replicas, transactions and keys are  *)
(* interchangeable.                                                        *)
EXTENDS ReplicatedStore, TLC

Symmetry == Permutations(Replica) \cup Permutations(Txn) \cup Permutations(Key)
=============================================================================
