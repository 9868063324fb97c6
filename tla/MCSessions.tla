----------------------------- MODULE MCSessions -----------------------------
(* Instances of Sessions for TLC.                                           *)
EXTENDS Sessions, TLC

\* Requests, accounts and codes are interchangeable.
Symmetric == Permutations(Procs) \cup Permutations(Users) \cup Permutations(Otps)

\* Rows are deleted only by the refresh that replaces them: what is left is how
\* refreshes meet one another.
OnlyRefreshesDelete == tokens' \subseteq tokens => tokens' = tokens
=============================================================================
