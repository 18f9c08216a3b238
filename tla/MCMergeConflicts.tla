-------------------------- MODULE MCMergeConflicts --------------------------
(* Branch with a record of what Merge documents that it looks at: the rows  *)
(* that the parent has changed since the branch was created.                *)
EXTENDS Branch

VARIABLE
    diverged  \* pairs of a branch and a row its parent changed after it was created

Created == {b \in Feature : db'[MetaKey(b)] # db[MetaKey(b)]}

\* A table with a primary key; the branches exist.
MCInit ==
    /\ Init /\ diverged = {}
    /\ pkless = {} /\ \A b \in Feature : Exists(b)

MCNext ==
    /\ Next
    /\ diverged' =
           {d \in diverged \cup
                  {x \in Feature \X Row : /\ Exists(x[1])
                                          /\ LET k == RowKey(Parent(x[1]), x[2])
                                             IN  db'[k] # db[k]} : d[1] \notin Created}

MCSpec == MCInit /\ [][MCNext]_<<vars, diverged>>

\* merge.go says of Merge: "if the parent already changed a key after the branch was
\* created AND the branch also changed it, the merge aborts".  So a merge that commits
\* writes no row that its parent had changed, since the branch was created, before the
\* merge began.
MergeAborts ==
    [][\A c \in Client, r \in Row :
          LET k == RowKey(op[c][3], r)
          IN  MergeCommit(c) /\ ~Conflict(txn[c]) /\ k \in Written(txn[c]) \ txn[c].since =>
                  <<op[c][2], r>> \notin diverged]_<<vars, diverged>>
=============================================================================
