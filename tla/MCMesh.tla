------------------------------- MODULE MCMesh -------------------------------
(* Mesh for TLC. *)
EXTENDS Mesh, TLC

Sym == Permutations(Requests) \cup Permutations(HomeNodes)
=============================================================================
