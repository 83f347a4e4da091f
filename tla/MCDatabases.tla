---------------------------- MODULE MCDatabases ----------------------------
(* Databases with interchangeable requests, databases and users.             *)
EXTENDS Databases, TLC

Symmetric ==
  {p @@ q @@ s : p \in Permutations(Requests), q \in Permutations(DBs), s \in Permutations(Users)}
=============================================================================
