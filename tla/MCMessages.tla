----------------------------- MODULE MCMessages -----------------------------
(* Instances of Messages for TLC.  Liveness is checked, so no symmetry.     *)
EXTENDS Messages
=============================================================================
