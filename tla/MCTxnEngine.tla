---------------------------- MODULE MCTxnEngine ----------------------------
(* TxnEngine on small sets, with the symmetry of transactions and keys.    *)
EXTENDS TxnEngine, TLC

Symmetry == Permutations(Txn) \cup Permutations(Key)
=============================================================================
