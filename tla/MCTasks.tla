------------------------------- MODULE MCTasks ------------------------------
(* Instances of Tasks for TLC.  Liveness is checked, so no symmetry.        *)
EXTENDS Tasks
=============================================================================
