----------------------------- MODULE MCRegistry -----------------------------
(* Registry for TLC. *)
EXTENDS Registry, TLC

Sym == Permutations(Requests)
=============================================================================
