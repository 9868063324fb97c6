------------------------------- MODULE Ledger -------------------------------
(***************************************************************************)
(* What the appointment tables promise to a reader, with no request, lock  *)
(* or session in sight: every operation happens at one instant.  Module    *)
(* Appointments is shown to implement this one.                            *)
(*                                                                         *)
(* The promise is the one the code can keep.  Book may take a slot that is *)
(* already taken (the code checks and marks it in different statements),   *)
(* and Cancel may free a slot that another appointment uses; but no        *)
(* operation ever leaves a taken slot that nobody holds, and the two       *)
(* calendar entries of an appointment come and go together with it.        *)
(***************************************************************************)

CONSTANTS Slots, Appts, Users, NoSlot

VARIABLES slots, status, slotOf, cancelled, events

vars == <<slots, status, slotOf, cancelled, events>>

Sides == {"student", "adviser"}
EventsOf(a) == {a} \X Sides

Exists(s) == slots[s] \in {"open", "booked"}

\* a holds slot s: it points at it and was never cancelled.
Holds(a, s) == slotOf[a] = s /\ ~cancelled[a]

Init ==
  /\ slots = [s \in Slots |-> "absent"]
  /\ status = [a \in Appts |-> "none"]
  /\ slotOf = [a \in Appts |-> NoSlot]
  /\ cancelled = [a \in Appts |-> FALSE]
  /\ events = {}

Publish(S) ==
  /\ \A s \in S : slots[s] = "absent"
  /\ slots' = [s \in Slots |-> IF s \in S THEN "open" ELSE slots[s]]
  /\ UNCHANGED <<status, slotOf, cancelled, events>>

Book(a, s) ==
  /\ status[a] = "none"
  /\ Exists(s)
  /\ slots' = [slots EXCEPT ![s] = "booked"]
  /\ status' = [status EXCEPT ![a] = "confirmed"]
  /\ slotOf' = [slotOf EXCEPT ![a] = s]
  /\ events' = events \cup EventsOf(a)
  /\ UNCHANGED cancelled

\* The slot of a is freed, or else it is left alone; a slot left taken still
\* has a holder other than a.
Cancel(a) ==
  /\ status[a] # "none"
  /\ \E st \in {status[a], "cancelled_by_student", "cancelled_by_adviser"} :
       status' = [status EXCEPT ![a] = st]
  /\ cancelled' = [cancelled EXCEPT ![a] = TRUE]
  /\ events' = events \ EventsOf(a)
  /\ \/ /\ slotOf[a] # NoSlot
        /\ slots' = [slots EXCEPT ![slotOf[a]] = "open"]
     \/ /\ slotOf[a] # NoSlot /\ slots[slotOf[a]] = "booked"
              => \E b \in Appts \ {a} : Holds(b, slotOf[a])
        /\ UNCHANGED slots
  /\ UNCHANGED slotOf

Complete(a) ==
  /\ status[a] # "none"
  /\ status' = [status EXCEPT ![a] = "completed"]
  /\ UNCHANGED <<slots, slotOf, cancelled, events>>

Withdraw(s) ==
  /\ Exists(s)
  /\ slots' = [slots EXCEPT ![s] = "deleted"]
  /\ slotOf' = [a \in Appts |-> IF slotOf[a] = s THEN NoSlot ELSE slotOf[a]]
  /\ UNCHANGED <<status, cancelled, events>>

DropEvent(e) ==
  /\ e \in events
  /\ events' = events \ {e}
  /\ UNCHANGED <<slots, status, slotOf, cancelled>>

Next ==
  \/ \E S \in SUBSET Slots : Publish(S)
  \/ \E s \in Slots : Withdraw(s)
  \/ \E a \in Appts : Cancel(a) \/ Complete(a)
  \/ \E a \in Appts, s \in Slots : Book(a, s)
  \/ \E e \in events : DropEvent(e)

Spec == Init /\ [][Next]_vars
=============================================================================
