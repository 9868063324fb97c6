---------------------------- MODULE MCDocuments ----------------------------
(* Instances of Documents for TLC.                                         *)
EXTENDS Documents, TLC

\* Requests, types and object keys are interchangeable.
Symmetric == Permutations(Procs) \cup Permutations(Types) \cup Permutations(Keys)
=============================================================================
