--------------------------- MODULE MCJobLogPaging ---------------------------
(* A small instance of JobLogPaging: page sizes 1 and 2. *)
EXTENDS JobLogPaging, TLC

CONSTANTS j1, j2, w1

AtMostTwo == [q \in Queries |-> 2]
TwoByDefault == [q \in Queries |-> 2]

MCSymmetry == Permutations(Jobs)
=============================================================================
