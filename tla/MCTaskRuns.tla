----------------------------- MODULE MCTaskRuns -----------------------------
(* Instance of TaskRuns for TLC. *)
EXTENDS TaskRuns, TLC

Symmetric == Permutations(Runs)
=============================================================================
