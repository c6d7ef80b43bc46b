---------------------------- MODULE MCTreeStore ----------------------------
(***************************************************************************)
(* Small instances of TreeStore: one workspace from before roots, one      *)
(* created; a job with a budget of one creation that may also revise, and  *)
(* a second job that only revises, with the first job's content or with    *)
(* one of its own.                                                         *)
(***************************************************************************)
EXTENDS TreeStore

CONSTANTS w1, w2, j1, j2, x1, x2, c1, c2

HomeOfJobs == [j \in Jobs |-> w1]
OneCreatorTwoRevisers ==
    [j \in Jobs |-> IF j = j1 THEN {"create_item", "update_item"} ELSE {"update_item"}]
BudgetOfOne == [j \in Jobs |-> 1]
SharedAndOwnContent == [j \in Jobs |-> IF j = j1 THEN {x1} ELSE {x1, x2}]

\* The new workspace's root query and the creating job's count may fail once.
NewRootAndCreatorOnce == [x \in Workspaces \cup Jobs |-> IF x \in {w2, j1} THEN 1 ELSE 0]

\* For the run about one root: jobs without a capability for the tree, queries
\* that answer.
NoOperations == [j \in Jobs |-> {}]
NoFailedQueries == [x \in Workspaces \cup Jobs |-> 0]
=============================================================================
