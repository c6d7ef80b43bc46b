----------------------------- MODULE MCAccounts -----------------------------
(* A small instance of Accounts. *)
EXTENDS Accounts, TLC

MCSymmetry == Permutations(Users) \cup Permutations(Clients) \cup Permutations(AccountIds)
=============================================================================
