---------------------------- MODULE Appointments ----------------------------
(***************************************************************************)
(* Availability slots, appointments and the calendar entries a booking     *)
(* creates (src/app/modules/appointments, src/app/modules/calendar), with  *)
(* the requests that change them as concurrent database transactions.      *)
(*                                                                         *)
(* PostgreSQL runs them at READ COMMITTED.  A SELECT returns the last      *)
(* committed row and takes no lock; an UPDATE or DELETE locks its row      *)
(* until the transaction ends and waits for a row locked by another one,   *)
(* then applies to whatever row is there.  The session writes nothing that *)
(* is seen by others before commit(), so a transaction is its reads, each  *)
(* a step, and one step that applies its writes and commits.  A row lock   *)
(* is a variable only where a transaction reads or waits again while it    *)
(* holds it: the appointment of a cancellation, and the slot of a delete   *)
(* whose ON DELETE SET NULL then waits for the appointments of the slot.   *)
(* Elsewhere taking the lock commutes with the steps of the others up to   *)
(* the commit, so both are one step.                                       *)
(***************************************************************************)
EXTENDS FiniteSets

CONSTANTS
  Procs,      \* requests being served at once (event loops, sessions)
  Slots,      \* ids of availability slots
  Appts,      \* ids of appointments: a bound on the bookings attempted
  Users,
  Role,       \* the role claimed by each user's access token
  SlotOwner,  \* the adviser (or admin) who publishes each slot
  NoSlot, NoAppt, NoUser, NoProc

Staff == {u \in Users : Role[u] \in {"adviser", "admin"}}

ASSUME RoleAssumption == Role \in [Users -> {"student", "adviser", "admin"}]
ASSUME OwnerAssumption == SlotOwner \in [Slots -> Staff]
ASSUME NullAssumption ==
  NoSlot \notin Slots /\ NoAppt \notin Appts /\ NoUser \notin Users /\ NoProc \notin Procs

VARIABLES
  slots,      \* slots[s]: absent, open (is_available), booked or deleted
  status,     \* the status column of each appointment, none before it exists
  slotOf,     \* the slot_id column
  student,    \* the student_id column
  adviser,    \* the adviser_id column
  cancelled,  \* whether cancelled_at is set
  events,     \* <<a, side>>: the calendar entry book() made for that side of a
  slotLock,   \* the delete that holds the slot's row lock
  apptLock,   \* the cancellation that holds the appointment's row lock
  txn         \* the local variables of the request each process serves

tables == <<slots, status, slotOf, student, adviser, cancelled, events>>
locks == <<slotLock, apptLock>>
vars == <<slots, status, slotOf, student, adviser, cancelled, events, slotLock, apptLock, txn>>

Sides == {"student", "adviser"}
EventsSwapped(a) == Sides \X {a}
EventsOf(a) == {a} \X Sides

SlotState == {"absent", "open", "booked", "deleted"}
CancelStatus == {"cancelled_by_student", "cancelled_by_adviser"}
Status == {"none", "confirmed", "completed"} \cup CancelStatus

\* saw is the status the session loaded; reopen is whether it loaded the slot
\* as taken, so that setting is_available writes an UPDATE.
Frame == [pc     : {"idle", "book", "cancel", "cancelling", "delete", "deleting", "complete"},
          user   : Users \cup {NoUser},
          slot   : Slots \cup {NoSlot},
          appt   : Appts \cup {NoAppt},
          saw    : Status,
          reopen : BOOLEAN]

Idle == [pc |-> "idle", user |-> NoUser, slot |-> NoSlot, appt |-> NoAppt,
         saw |-> "none", reopen |-> FALSE]

TypeOK ==
  /\ slots \in [Slots -> SlotState]
  /\ status \in [Appts -> Status]
  /\ slotOf \in [Appts -> Slots \cup {NoSlot}]
  /\ student \in [Appts -> Users \cup {NoUser}]
  /\ adviser \in [Appts -> Users \cup {NoUser}]
  /\ cancelled \in [Appts -> BOOLEAN]
  /\ events \subseteq Appts \X Sides
  /\ slotLock \in [Slots -> Procs \cup {NoProc}]
  /\ apptLock \in [Appts -> Procs \cup {NoProc}]
  /\ txn \in [Procs -> Frame]

Init ==
  /\ slots = [s \in Slots |-> "absent"]
  /\ status = [a \in Appts |-> "none"]
  /\ slotOf = [a \in Appts |-> NoSlot]
  /\ student = [a \in Appts |-> NoUser]
  /\ adviser = [a \in Appts |-> NoUser]
  /\ cancelled = [a \in Appts |-> FALSE]
  /\ events = {}
  /\ slotLock = [s \in Slots |-> NoProc]
  /\ apptLock = [a \in Appts |-> NoProc]
  /\ txn = [p \in Procs |-> Idle]

----------------------------------------------------------------------------
(* Requests begin, end and fail.                                           *)

Begin(p, frame) == txn[p] = Idle /\ txn' = [txn EXCEPT ![p] = frame]

\* The session is closed: what p locked is free again.
Release(p) ==
  /\ slotLock' = [s \in Slots |-> IF slotLock[s] = p THEN NoProc ELSE slotLock[s]]
  /\ apptLock' = [a \in Appts |-> IF apptLock[a] = p THEN NoProc ELSE apptLock[a]]

End(p) == txn' = [txn EXCEPT ![p] = Idle] /\ Release(p)

\* A failure before commit (an exception, a lost connection, a killed worker):
\* get_db rolls the session back, or PostgreSQL does.
Abort(p) == txn[p] # Idle /\ End(p) /\ UNCHANGED tables

----------------------------------------------------------------------------
(* Slots.                                                                  *)

\* One transaction inserts the slots of the request, one or a batch.
CreateSlots(u, S) ==
  /\ u \in Staff /\ S # {}
  /\ \A s \in S : slots[s] = "absent" /\ SlotOwner[s] = u
  /\ slots' = [s \in Slots |-> IF s \in S THEN "open" ELSE slots[s]]
  /\ UNCHANGED <<status, slotOf, student, adviser, cancelled, events, locks, txn>>

\* DELETE /slots/{id}: the checks are made on the row as loaded here.
DeleteRead(p, u, s) ==
  /\ u \in Staff /\ SlotOwner[s] = u
  /\ slots[s] = "open"
  /\ Begin(p, [Idle EXCEPT !.pc = "delete", !.slot = s])
  /\ UNCHANGED <<tables, locks>>

\* The DELETE statement gets the row lock.
DeleteLock(p) ==
  LET s == txn[p].slot IN
  /\ txn[p].pc = "delete"
  /\ slotLock[s] = NoProc /\ slots[s] # "deleted"
  /\ slotLock' = [slotLock EXCEPT ![s] = p]
  /\ txn' = [txn EXCEPT ![p].pc = "deleting"]
  /\ UNCHANGED <<tables, apptLock>>

\* Another delete came first: the session only warns that no row matched.
DeleteGone(p) ==
  /\ txn[p].pc = "delete"
  /\ slots[txn[p].slot] = "deleted"
  /\ End(p)
  /\ UNCHANGED tables

\* ON DELETE SET NULL rewrites the appointments of the slot, so it waits for
\* those that are locked.
NoWait(s) == TRUE
SetNullReady(s) == \A a \in Appts : slotOf[a] = s => apptLock[a] = NoProc

LeftDangling(s) == slotOf
SetNull(s) == [a \in Appts |-> IF slotOf[a] = s THEN NoSlot ELSE slotOf[a]]

DeleteCommit(p) ==
  LET s == txn[p].slot IN
  /\ txn[p].pc = "deleting"
  /\ SetNullReady(s)
  /\ slots' = [slots EXCEPT ![s] = "deleted"]
  /\ slotOf' = SetNull(s)
  /\ End(p)
  /\ UNCHANGED <<status, student, adviser, cancelled, events>>

----------------------------------------------------------------------------
(* Appointments.                                                           *)

\* An id no row and no open transaction uses (a fresh uuid4).
Fresh(a) == status[a] = "none" /\ \A p \in Procs : txn[p].appt # a

\* book() loads the slot and refuses one that is missing or taken.
BookRead(p, u, s) ==
  /\ slots[s] = "open"
  /\ \E a \in Appts :
       /\ Fresh(a)
       /\ Begin(p, [Idle EXCEPT !.pc = "book", !.user = u, !.slot = s, !.appt = a])
  /\ UNCHANGED <<tables, locks>>

\* mark_slot_unavailable.
StillOpen(s) == slots
Taken(s) == [slots EXCEPT ![s] = "booked"]

\* The slot is marked, the appointment and both calendar entries inserted.
BookCommit(p) ==
  LET s == txn[p].slot
      a == txn[p].appt IN
  /\ txn[p].pc = "book"
  /\ slotLock[s] = NoProc /\ slots[s] # "deleted"
  /\ slots' = Taken(s)
  /\ status' = [status EXCEPT ![a] = "confirmed"]
  /\ slotOf' = [slotOf EXCEPT ![a] = s]
  /\ student' = [student EXCEPT ![a] = txn[p].user]
  /\ adviser' = [adviser EXCEPT ![a] = SlotOwner[s]]
  /\ events' = events \cup EventsOf(a)
  /\ End(p)
  /\ UNCHANGED cancelled

\* The UPDATE of a slot deleted since it was loaded matches no row: the
\* session raises StaleDataError and everything is rolled back.
BookStale(p) ==
  /\ txn[p].pc = "book"
  /\ slots[txn[p].slot] = "deleted"
  /\ End(p)
  /\ UNCHANGED tables

MayCancel(u, a) ==
  /\ Role[u] = "student" => student[a] = u
  /\ Role[u] = "adviser" => adviser[a] = u

CancelRead(p, u, a) ==
  /\ status[a] # "none"
  /\ MayCancel(u, a)
  /\ Begin(p, [Idle EXCEPT !.pc = "cancel", !.user = u, !.appt = a,
                           !.slot = slotOf[a], !.saw = status[a]])
  /\ UNCHANGED <<tables, locks>>

\* The slot is loaded as taken, so that marking it available is a change.
NeverReopens(s) == FALSE
LoadsTaken(s) == s # NoSlot /\ slots[s] = "booked"

\* The UPDATE of the appointment gets its row lock; the slot is loaded next.
CancelUpdate(p) ==
  LET s == txn[p].slot
      a == txn[p].appt IN
  /\ txn[p].pc = "cancel"
  /\ apptLock[a] = NoProc
  /\ apptLock' = [apptLock EXCEPT ![a] = p]
  /\ txn' = [txn EXCEPT ![p].pc = "cancelling",
                        ![p].reopen = LoadsTaken(s)]
  /\ UNCHANGED <<tables, slotLock>>

\* The session writes a column only where the new value differs from the
\* loaded one.
Assign(column, a, loaded, value) ==
  [column EXCEPT ![a] = IF value = loaded THEN @ ELSE value]

\* The entries of both sides go, by source and owner.
CleanupStudentOnly(a) == events \ {<<a, "student">>}
Cleanup(a) == events \ EventsOf(a)

CancelCommit(p) ==
  LET s == txn[p].slot
      a == txn[p].appt
      target == IF Role[txn[p].user] = "student" THEN "cancelled_by_student"
                                                 ELSE "cancelled_by_adviser" IN
  /\ txn[p].pc = "cancelling"
  /\ txn[p].reopen => slotLock[s] = NoProc
  /\ status' = Assign(status, a, txn[p].saw, target)
  /\ cancelled' = [cancelled EXCEPT ![a] = TRUE]
  /\ slots' = IF txn[p].reopen THEN [slots EXCEPT ![s] = "open"] ELSE slots
  /\ events' = Cleanup(a)
  /\ End(p)
  /\ UNCHANGED <<slotOf, student, adviser>>

\* complete() checks neither the status nor who asks; on a completed
\* appointment it writes nothing.
CompleteRead(p, u, a) ==
  /\ u \in Staff
  /\ status[a] \notin {"none", "completed"}
  /\ Begin(p, [Idle EXCEPT !.pc = "complete", !.appt = a, !.saw = status[a]])
  /\ UNCHANGED <<tables, locks>>

CompleteCommit(p) ==
  LET a == txn[p].appt IN
  /\ txn[p].pc = "complete"
  /\ apptLock[a] = NoProc
  /\ status' = Assign(status, a, txn[p].saw, "completed")
  /\ End(p)
  /\ UNCHANGED <<slots, slotOf, student, adviser, cancelled, events>>

\* DELETE /calendar/{id} by the owner of the entry.
DeleteEvent(e) ==
  /\ events' = events \ {e}
  /\ UNCHANGED <<slots, status, slotOf, student, adviser, cancelled, locks, txn>>

----------------------------------------------------------------------------
(* p waits for a row that q has locked.                                    *)
WaitsFor(p, q) ==
  \/ txn[p].pc = "cancelling" /\ txn[p].reopen /\ slotLock[txn[p].slot] = q
  \/ /\ txn[p].pc = "deleting"
     /\ \E a \in Appts : slotOf[a] = txn[p].slot /\ apptLock[a] = q

\* PostgreSQL's deadlock detector rolls one of the two back.
NoDetector(p) == FALSE
DeadlockVictim(p) ==
  /\ \E q \in Procs : WaitsFor(p, q) /\ WaitsFor(q, p)
  /\ Abort(p)

Request(p) ==
  \/ \E u \in Users, s \in Slots : DeleteRead(p, u, s) \/ BookRead(p, u, s)
  \/ \E u \in Users, a \in Appts : CancelRead(p, u, a) \/ CompleteRead(p, u, a)

Proceed(p) ==
  \/ DeleteLock(p) \/ DeleteGone(p) \/ DeleteCommit(p)
  \/ BookCommit(p) \/ BookStale(p)
  \/ CancelUpdate(p) \/ CancelCommit(p)
  \/ CompleteCommit(p)
  \/ DeadlockVictim(p)

Next ==
  \/ \E u \in Users, S \in SUBSET Slots : CreateSlots(u, S)
  \/ \E e \in events : DeleteEvent(e)
  \/ \E p \in Procs : Request(p) \/ Proceed(p) \/ Abort(p)

Spec == Init /\ [][Next]_vars

\* The event loop runs every request that can run; PostgreSQL grants a row
\* lock to its waiters in turn, so one that is free again and again is got.
Fairness == \A p \in Procs : SF_vars(Proceed(p))

FairSpec == Spec /\ Fairness
----------------------------------------------------------------------------
(* What holds, whatever the interleaving.                                  *)

Holds(a, s) == slotOf[a] = s /\ ~cancelled[a]

\* A slot shown as taken has an appointment that was never cancelled, so some
\* cancellation can still free it: neither two cancellations that meet, nor a
\* failure between their statements, loses a slot of the adviser's for good
\* (service.py book 104-107, cancel 231-241).
NoLeakedSlot ==
  \A s \in Slots : slots[s] = "booked" => \E a \in Appts : Holds(a, s)

\* A slot that a standing appointment holds is free again only by the
\* cancellation of another appointment that had it: neither two bookings of one
\* slot that meet, nor a completion, nor a failure or a stale read, shows a slot
\* as free that somebody holds (service.py book 98-104, cancel 231-241).
OpenSlotExplained ==
  \A s \in Slots, a \in Appts :
    slots[s] = "open" /\ Holds(a, s) => \E b \in Appts \ {a} : slotOf[b] = s /\ cancelled[b]

\* A calendar entry made by a booking belongs to an appointment that stands:
\* no entry outlives a cancellation, however its request interleaves with
\* another cancel, a complete or the deletion of the other entry
\* (service.py 225-241, calendar/repository.py 54-63).
CalendarFollowsBooking ==
  \A a \in Appts : EventsOf(a) \cap events # {} =>
    status[a] \in {"confirmed", "completed"} /\ ~cancelled[a]

\* A cancellation that will free its slot finds the slot there when it writes,
\* although it loaded the slot earlier and holds no lock on it: the lock on the
\* appointment keeps the slot's delete waiting in its SET NULL.  So cancel
\* never fails with StaleDataError, as book can (service.py 231-236).
CancelNeverStale ==
  \A p \in Procs : txn[p].pc = "cancelling" /\ txn[p].reopen =>
    /\ slots[txn[p].slot] \in {"open", "booked"}
    /\ slotOf[txn[p].appt] = txn[p].slot

\* Every request ends, although a cancellation and the deletion of its slot
\* lock the two rows in opposite orders (service.py 231-236, router.py 73).
RequestsFinish ==
  \A p \in Procs : txn[p].pc # "idle" ~> txn[p].pc = "idle"

\* The transactions, with their locks, failures and stale reads, look to a
\* reader of the tables like the single-step operations of Ledger.
Abstract == INSTANCE Ledger
ImplementsLedger == Abstract!Spec

----------------------------------------------------------------------------
(* What the documents say and the code does not keep.                      *)

Confirmed(a, s) == slotOf[a] = s /\ status[a] = "confirmed"

\* At most one confirmed appointment per slot: the error the API documents for
\* a slot that is already booked (service.py 101-102).
NoDoubleBooking ==
  \A s \in Slots : \A a, b \in Appts : Confirmed(a, s) /\ Confirmed(b, s) => a = b

\* is_available is FALSE while the slot is booked (models.py 24).
OpenSlotIsFree ==
  \A s \in Slots, a \in Appts : slots[s] = "open" => ~Confirmed(a, s)
=============================================================================
