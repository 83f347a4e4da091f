----------------------------- MODULE MCServers -----------------------------
(* Servers for TLC. *)
EXTENDS Servers, TLC

Sym == Permutations(Requests)
=============================================================================
