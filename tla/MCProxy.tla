------------------------------ MODULE MCProxy ------------------------------
(* Proxy for TLC. *)
EXTENDS Proxy, TLC

Sym == Permutations(Requests)
=============================================================================
