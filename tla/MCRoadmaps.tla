----------------------------- MODULE MCRoadmaps -----------------------------
(* Instances of Roadmaps for TLC.                                           *)
EXTENDS Roadmaps, TLC

\* Requests and assignments are interchangeable.
Symmetric == Permutations(Procs) \cup Permutations(Assigns)
=============================================================================
