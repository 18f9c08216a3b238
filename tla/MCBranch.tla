----------------------------- MODULE MCBranch -----------------------------
(* Branch with model values; clients, branches, rows and values are interchangeable. *)
EXTENDS Branch, TLC

Symmetry == Permutations(Client) \cup Permutations(Row) \cup Permutations(Val)
                \cup Permutations(Feature)
=============================================================================
