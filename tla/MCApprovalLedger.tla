-------------------------- MODULE MCApprovalLedger --------------------------
(* ApprovalLedger with small sets of interchangeable ids. *)
EXTENDS ApprovalLedger, TLC

Symmetry == Permutations(Jobs) \cup Permutations(Plans) \cup Permutations(Approvals)
=============================================================================
