--------------------------- MODULE MCJobApproval ---------------------------
(* JobApproval with small sets of interchangeable ids and clients. *)
EXTENDS JobApproval, TLC

Symmetry == Permutations(Jobs) \cup Permutations(Plans)
            \cup Permutations(Approvals) \cup Permutations(Clients)
=============================================================================
