----------------------------- MODULE TreeItems -----------------------------
(***************************************************************************)
(* The rows of tree_items and the reads made over them.  A table is the    *)
(* sequence of its committed rows, and an item's id is its position: an    *)
(* id says no more than which row it names, and a caller can only name as  *)
(* a parent a row that was committed before.  Titles, levels, descriptions,*)
(* style and timestamps are left out: nothing is decided on them.          *)
(***************************************************************************)
EXTENDS Sequences, Integers

(* What nobody's parent_id points to: the NULL parent of a root. *)
NoParent == 0

Governance == {"system_generated", "pending_review", "human_curated", "locked"}

\* The states in which a job may not revise an item.
Protected(g) == g \in {"human_curated", "locked"}

\* Rows of items that were not made by a job: no governance state yet
\* (COALESCE reads system_generated) and no job behind the content.
PlainItem(w, p, by, none) ==
    [ws |-> w, parent |-> p, by |-> by, content |-> none,
     gov |-> "system_generated", job |-> none]

\* createStructuredItem
StructuredItem(w, p, x, j) ==
    [ws |-> w, parent |-> p, by |-> "caller", content |-> x,
     gov |-> "system_generated", job |-> j]

----------------------------------------------------------------------------
\* getTreeRoot: LIMIT 1 without an order, any of them may be the answer.
Roots(T, w) == {i \in 1..Len(T) : T[i].ws = w /\ T[i].parent = NoParent}

\* listItemsByWorkspace
ItemsOf(T, w) == {i \in 1..Len(T) : T[i].ws = w}

\* Slip: the walk does not stop at the border of the workspace.
PathUpAcross(T, w, t) ==
    LET up[i \in 0..Len(T)] ==
            IF i = NoParent THEN <<>>
            ELSE IF i = t THEN <<i>>
            ELSE LET rest == up[T[i].parent]
                 IN  IF rest = <<>> THEN <<>> ELSE <<i>> \o rest
    IN  up

\* The loop of FindPaths: from an item to its parent as long as the workspace
\* has that item, until the target is reached.
PathUp(T, w, t) ==
    LET up[i \in 0..Len(T)] ==
            IF i \notin ItemsOf(T, w) THEN <<>>
            ELSE IF i = t THEN <<i>>
            ELSE LET rest == up[T[i].parent]
                 IN  IF rest = <<>> THEN <<>> ELSE <<i>> \o rest
    IN  up

\* FindPaths: at most one path, none when either end is not in the workspace.
FindPaths(T, w, s, t) ==
    IF {s, t} \subseteq ItemsOf(T, w) /\ PathUp(T, w, t)[s] # <<>>
    THEN {PathUp(T, w, t)[s]} ELSE {}

(***************************************************************************)
(* What a path is, said without a walk: the ancestors of an item inside    *)
(* its workspace are the least set that holds the item and the parents     *)
(* of its members; a path goes from parent to parent.                      *)
(***************************************************************************)
Ancestors(T, w, s) ==
    LET Closed(S) == \A i \in S : T[i].parent \in ItemsOf(T, w) => T[i].parent \in S
    IN  {a \in ItemsOf(T, w) :
            \A S \in SUBSET ItemsOf(T, w) : s \in S /\ Closed(S) => a \in S}

IsPath(T, s, t, p) ==
    /\ p # <<>> /\ p[1] = s /\ p[Len(p)] = t
    /\ \A k \in 1..(Len(p) - 1) : p[k + 1] = T[p[k]].parent
=============================================================================
