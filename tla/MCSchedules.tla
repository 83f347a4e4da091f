---------------------------- MODULE MCSchedules ----------------------------
(* Schedules and backups on small instances.                                *)
EXTENDS Schedules, TLC

Symmetric == Permutations(Jobs)

=============================================================================
