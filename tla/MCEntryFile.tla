---------------------------- MODULE MCEntryFile ----------------------------
(* A small instance of EntryFile. *)
EXTENDS EntryFile, TLC

MCSymmetry == Permutations(Writes) \cup Permutations(Readers)
=============================================================================
