------------------------------ MODULE Rollout ------------------------------
(***************************************************************************)
(* What a deployment promises about the version of the database: the        *)
(* service starts only when the newest version is in place, a version is    *)
(* never left half-way, and an upgrade is always to the newest one.  Only   *)
(* a downgrade takes the version away from a service that runs.             *)
(***************************************************************************)
EXTENDS Naturals

CONSTANT Newest   \* the newest version, a natural number

VARIABLES version, serving

Init == version \in 0 .. Newest /\ serving = FALSE

Upgrade == ~serving /\ version' = Newest /\ UNCHANGED serving
Downgrade == version' \in 0 .. (version - 1) /\ UNCHANGED serving
Serve == version = Newest /\ serving' = TRUE /\ UNCHANGED version
Stop == serving' = FALSE /\ UNCHANGED version

Next == Upgrade \/ Downgrade \/ Serve \/ Stop

Spec == Init /\ [][Next]_<<version, serving>>
=============================================================================
