----------------------------- MODULE MCAccounts -----------------------------
(* Accounts for TLC. *)
EXTENDS Accounts, TLC

Sym == Permutations(Requests) \cup Permutations(Users) \cup Permutations(Codes)
=============================================================================
