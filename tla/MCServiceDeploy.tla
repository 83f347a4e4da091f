--------------------------- MODULE MCServiceDeploy ---------------------------
(* Small instances of ServiceDeploy for TLC: tasks and images are model     *)
(* values and interchangeable, so the safety runs use their symmetry.       *)
EXTENDS ServiceDeploy, TLC

Symmetric == Permutations(Tasks) \cup Permutations(Images)
=============================================================================
