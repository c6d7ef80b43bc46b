------------------------- MODULE MCJobStatusMirror -------------------------
(* JobStatusMirror with a few interchangeable callers. *)
EXTENDS JobStatusMirror, TLC

Symmetry == Permutations(Callers) \cup Permutations(Stages)
=============================================================================
