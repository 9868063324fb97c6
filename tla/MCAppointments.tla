--------------------------- MODULE MCAppointments ---------------------------
(* Instances of Appointments for TLC: one adviser who owns every slot, and  *)
(* one student; either may book.                                            *)
EXTENDS Appointments, TLC

CONSTANTS stu, adv

MCUsers == {stu, adv}
MCRole == (stu :> "student") @@ (adv :> "adviser")
MCSlotOwner == [s \in Slots |-> adv]

\* Requests, slots and appointment ids are interchangeable.
Symmetric == Permutations(Procs) \cup Permutations(Slots) \cup Permutations(Appts)
=============================================================================
