------------------------- MODULE AppointmentsProofs -------------------------
(***************************************************************************)
(* The invariants of module Appointments for any number of requests,       *)
(* slots, users and bookings, and the refinement of Ledger.                *)
(***************************************************************************)
EXTENDS Appointments, TLAPS

Exists(s) == slots[s] \in {"open", "booked"}

\* The local variables of a request agree with the tables and the locks.  What
\* carries the proof is that a loaded slot_id is stale only once the slot is
\* deleted for good, and that while a cancellation that will free its slot
\* holds the lock on its appointment the slot cannot go.
Coherent(p) ==
  /\ txn[p].pc = "book" =>
       /\ txn[p].slot \in Slots /\ slots[txn[p].slot] # "absent"
       /\ txn[p].appt \in Appts /\ status[txn[p].appt] = "none"
       /\ txn[p].user \in Users
  /\ txn[p].pc \in {"delete", "deleting"} =>
       txn[p].slot \in Slots /\ slots[txn[p].slot] # "absent"
  /\ txn[p].pc = "deleting" => Exists(txn[p].slot) /\ slotLock[txn[p].slot] = p
  /\ txn[p].pc \in {"cancel", "cancelling", "complete"} =>
       txn[p].appt \in Appts /\ status[txn[p].appt] # "none"
  /\ txn[p].pc = "complete" => txn[p].saw # "completed"
  /\ txn[p].pc \in {"cancel", "cancelling"} =>
       /\ txn[p].user \in Users
       /\ \/ slotOf[txn[p].appt] = txn[p].slot
          \/ /\ slotOf[txn[p].appt] = NoSlot
             /\ txn[p].slot \in Slots /\ slots[txn[p].slot] = "deleted"
  /\ txn[p].pc = "cancelling" =>
       /\ apptLock[txn[p].appt] = p
       /\ txn[p].reopen => /\ txn[p].slot \in Slots /\ Exists(txn[p].slot)
                           /\ slotOf[txn[p].appt] = txn[p].slot

\* Two bookings never work on one id.
DistinctBookings ==
  \A p, q \in Procs : txn[p].pc = "book" /\ txn[q].pc = "book" /\ txn[p].appt = txn[q].appt
                        => p = q

\* What the rows of one appointment say about each other.
Rows(a) ==
  /\ slotOf[a] # NoSlot => Exists(slotOf[a])
  /\ status[a] = "none" => slotOf[a] = NoSlot /\ ~cancelled[a] /\ EventsOf(a) \cap events = {}
  /\ status[a] \in CancelStatus => cancelled[a]
  /\ cancelled[a] => EventsOf(a) \cap events = {}

\* NoLeakedSlot is not inductive: the cancellation of the last holder might
\* have loaded the slot as open and so leave it taken.  A taken slot has a
\* holder that no cancellation in progress will drop without freeing the slot.
Firm(a, s) ==
  /\ Holds(a, s)
  /\ \A p \in Procs : txn[p].pc = "cancelling" /\ txn[p].appt = a => txn[p].reopen

FirmHolder == \A s \in Slots : slots[s] = "booked" => \E a \in Appts : Firm(a, s)

IInv ==
  /\ TypeOK
  /\ \A p \in Procs : Coherent(p)
  /\ DistinctBookings
  /\ \A a \in Appts : Rows(a)
  /\ FirmHolder

----------------------------------------------------------------------------
(* Facts about the helpers.                                                *)

\* A process that serves nothing has a well-typed frame.
LEMMA IdleType == Idle \in Frame
  BY DEF Idle, Frame, Status

\* The entries of two appointments are different entries.
LEMMA EventsDisjoint ==
  ASSUME NEW a, NEW b, a # b
  PROVE  EventsOf(a) \cap EventsOf(b) = {}
  BY DEF EventsOf

\* Ending a request resets its frame and frees its locks, and touches neither
\* the frame nor the locks of another.
LEMMA EndFacts ==
  ASSUME TypeOK, NEW p \in Procs, End(p)
  PROVE  /\ txn' \in [Procs -> Frame]
         /\ slotLock' \in [Slots -> Procs \cup {NoProc}]
         /\ apptLock' \in [Appts -> Procs \cup {NoProc}]
         /\ txn'[p] = Idle
         /\ \A q \in Procs \ {p} :
              /\ txn'[q] = txn[q]
              /\ \A s \in Slots : slotLock[s] = q => slotLock'[s] = q
              /\ \A a \in Appts : apptLock[a] = q => apptLock'[a] = q
  BY IdleType DEF TypeOK, End, Release

\* Beginning a request gives one process a frame and leaves the others theirs.
LEMMA BeginFacts ==
  ASSUME TypeOK, NEW p \in Procs, NEW f \in Frame, Begin(p, f)
  PROVE  /\ txn' \in [Procs -> Frame]
         /\ txn'[p] = f
         /\ \A q \in Procs \ {p} : txn'[q] = txn[q]
  BY DEF TypeOK, Begin

----------------------------------------------------------------------------
(* Each step preserves the invariant.                                      *)

\* Empty tables and idle processes satisfy the invariant.
LEMMA InitIInv == Init => IInv
  <1> SUFFICES ASSUME Init PROVE IInv
    OBVIOUS
  <1>1. TypeOK
    BY IdleType DEF Init, TypeOK, SlotState, Status
  <1>2. \A p \in Procs : Coherent(p)
    BY DEF Init, Coherent, Idle
  <1>3. DistinctBookings
    BY DEF Init, DistinctBookings, Idle
  <1>4. \A a \in Appts : Rows(a)
    BY DEF Init, Rows, CancelStatus
  <1>5. FirmHolder
    BY DEF Init, FirmHolder
  <1> QED
    BY <1>1, <1>2, <1>3, <1>4, <1>5 DEF IInv

\* Publishing slots: only absent slots change, and none of them is referred to.
LEMMA CreateSlotsStep ==
  ASSUME IInv, NEW u \in Users, NEW S \in SUBSET Slots, CreateSlots(u, S)
  PROVE  IInv'
  <1> USE DEF IInv, CreateSlots, locks
  <1>1. TypeOK'
    BY DEF TypeOK, SlotState
  <1>2. \A s \in Slots : slots'[s] = slots[s] \/ (slots[s] = "absent" /\ slots'[s] = "open")
    BY DEF TypeOK
  <1>3. \A p \in Procs : Coherent(p)'
    BY <1>2 DEF Coherent, Exists
  <1>4. DistinctBookings'
    BY DEF DistinctBookings
  <1>5. \A a \in Appts : Rows(a)'
    BY <1>2 DEF Rows, Exists, TypeOK
  <1>6. FirmHolder'
    BY <1>2 DEF FirmHolder, Firm, Holds
  <1> QED
    BY <1>1, <1>3, <1>4, <1>5, <1>6

\* Deleting a calendar entry by hand only shrinks the set of entries.
LEMMA DeleteEventStep ==
  ASSUME IInv, NEW e \in events, DeleteEvent(e)
  PROVE  IInv'
  <1> USE DEF IInv, DeleteEvent, locks
  <1>1. TypeOK'
    BY DEF TypeOK
  <1>2. \A p \in Procs : Coherent(p)'
    BY DEF Coherent, Exists
  <1>3. DistinctBookings'
    BY DEF DistinctBookings
  <1>4. \A a \in Appts : Rows(a)'
    BY DEF Rows, Exists
  <1>5. FirmHolder'
    BY DEF FirmHolder, Firm, Holds
  <1> QED
    BY <1>1, <1>2, <1>3, <1>4, <1>5

\* A request that begins only reads: its frame is the one new thing.
LEMMA BeginStep ==
  ASSUME IInv, NEW p \in Procs, NEW f \in Frame, Begin(p, f),
         UNCHANGED <<tables, locks>>,
         f.pc \in {"book", "cancel", "delete", "complete"},
         Coherent(p)',
         f.pc = "book" => \A q \in Procs : txn[q].appt # f.appt
  PROVE  IInv'
  <1> USE DEF IInv, tables, locks
  <1>1. /\ txn' \in [Procs -> Frame] /\ txn'[p] = f
        /\ \A q \in Procs \ {p} : txn'[q] = txn[q]
    BY BeginFacts
  <1>2. TypeOK'
    BY <1>1 DEF TypeOK
  <1>3. \A q \in Procs : Coherent(q)'
    <2>1. \A q \in Procs \ {p} : Coherent(q)'
      BY <1>1 DEF Coherent, Exists
    <2> QED
      BY <2>1
  <1>4. DistinctBookings'
    BY <1>1 DEF DistinctBookings
  <1>5. \A a \in Appts : Rows(a)'
    BY DEF Rows, Exists
  <1>6. FirmHolder'
    BY <1>1 DEF FirmHolder, Firm, Holds
  <1> QED
    BY <1>2, <1>3, <1>4, <1>5, <1>6

\* A request that begins writes no table; its frame says what it loaded.
LEMMA RequestStep ==
  ASSUME IInv, NEW p \in Procs, Request(p)
  PROVE  IInv'
  <1> USE DEF IInv
  <1>1. ASSUME NEW u \in Users, NEW s \in Slots, DeleteRead(p, u, s)
        PROVE  IInv'
    <2> DEFINE f == [Idle EXCEPT !.pc = "delete", !.slot = s]
    <2>1. f \in Frame /\ f.pc = "delete" /\ f.slot = s
      BY DEF Idle, Frame, Status
    <2>2. Begin(p, f) /\ UNCHANGED <<tables, locks>>
      BY <1>1 DEF DeleteRead
    <2>3. txn'[p] = f
      BY <2>1, <2>2, BeginFacts
    <2> HIDE DEF f
    <2>4. Coherent(p)'
      BY <1>1, <2>1, <2>2, <2>3 DEF Coherent, DeleteRead, tables
    <2> QED
      BY <2>1, <2>2, <2>4, BeginStep
  <1>2. ASSUME NEW u \in Users, NEW s \in Slots, BookRead(p, u, s)
        PROVE  IInv'
    <2>1. PICK a \in Appts : Fresh(a) /\ Begin(p, [Idle EXCEPT !.pc = "book", !.user = u,
                                                               !.slot = s, !.appt = a])
      BY <1>2 DEF BookRead
    <2> DEFINE f == [Idle EXCEPT !.pc = "book", !.user = u, !.slot = s, !.appt = a]
    <2>2. f \in Frame /\ f.pc = "book" /\ f.slot = s /\ f.appt = a /\ f.user = u
      BY DEF Idle, Frame, Status
    <2>3. Begin(p, f) /\ UNCHANGED <<tables, locks>>
      BY <1>2, <2>1 DEF BookRead
    <2>4. txn'[p] = f
      BY <2>2, <2>3, BeginFacts
    <2> HIDE DEF f
    <2>5. Coherent(p)'
      BY <1>2, <2>1, <2>2, <2>3, <2>4 DEF Coherent, BookRead, Fresh, tables
    <2>6. \A q \in Procs : txn[q].appt # f.appt
      BY <2>1, <2>2 DEF Fresh
    <2> QED
      BY <2>2, <2>3, <2>5, <2>6, BeginStep
  <1>3. ASSUME NEW u \in Users, NEW a \in Appts, CancelRead(p, u, a)
        PROVE  IInv'
    <2> DEFINE f == [Idle EXCEPT !.pc = "cancel", !.user = u, !.appt = a,
                                 !.slot = slotOf[a], !.saw = status[a]]
    <2>1. f \in Frame /\ f.pc = "cancel" /\ f.slot = slotOf[a] /\ f.appt = a /\ f.user = u
      BY DEF Idle, Frame, TypeOK
    <2>2. Begin(p, f) /\ UNCHANGED <<tables, locks>>
      BY <1>3 DEF CancelRead
    <2>3. txn'[p] = f
      BY <2>1, <2>2, BeginFacts
    <2> HIDE DEF f
    <2>4. Coherent(p)'
      BY <1>3, <2>1, <2>2, <2>3 DEF Coherent, CancelRead, tables
    <2> QED
      BY <2>1, <2>2, <2>4, BeginStep
  <1>4. ASSUME NEW u \in Users, NEW a \in Appts, CompleteRead(p, u, a)
        PROVE  IInv'
    <2> DEFINE f == [Idle EXCEPT !.pc = "complete", !.appt = a, !.saw = status[a]]
    <2>1. f \in Frame /\ f.pc = "complete" /\ f.appt = a /\ f.saw = status[a]
      BY DEF Idle, Frame, TypeOK
    <2>2. Begin(p, f) /\ UNCHANGED <<tables, locks>>
      BY <1>4 DEF CompleteRead
    <2>3. txn'[p] = f
      BY <2>1, <2>2, BeginFacts
    <2> HIDE DEF f
    <2>4. Coherent(p)'
      BY <1>4, <2>1, <2>2, <2>3 DEF Coherent, CompleteRead, tables
    <2> QED
      BY <2>1, <2>2, <2>4, BeginStep
  <1> QED
    BY <1>1, <1>2, <1>3, <1>4 DEF Request

\* Whatever ends a request without writing: a failure, a deadlock victim, a
\* delete or a booking that finds its slot gone.
LEMMA EndStep ==
  ASSUME IInv, NEW p \in Procs, End(p), UNCHANGED tables
  PROVE  IInv'
  <1> USE DEF IInv, tables
  <1>1. /\ txn' \in [Procs -> Frame] /\ txn'[p] = Idle
        /\ slotLock' \in [Slots -> Procs \cup {NoProc}]
        /\ apptLock' \in [Appts -> Procs \cup {NoProc}]
        /\ \A q \in Procs \ {p} :
             /\ txn'[q] = txn[q]
             /\ \A s \in Slots : slotLock[s] = q => slotLock'[s] = q
             /\ \A a \in Appts : apptLock[a] = q => apptLock'[a] = q
    BY EndFacts
  <1>2. TypeOK'
    BY <1>1 DEF TypeOK
  <1>3. \A q \in Procs : Coherent(q)'
    <2>1. Coherent(p)'
      BY <1>1 DEF Coherent, Idle
    <2>2. \A q \in Procs \ {p} : Coherent(q)'
      BY <1>1 DEF Coherent, Exists
    <2> QED
      BY <2>1, <2>2
  <1>4. DistinctBookings'
    BY <1>1 DEF DistinctBookings, Idle
  <1>5. \A a \in Appts : Rows(a)'
    BY DEF Rows, Exists
  <1>6. FirmHolder'
    BY <1>1 DEF FirmHolder, Firm, Holds, Idle
  <1> QED
    BY <1>2, <1>3, <1>4, <1>5, <1>6

\* The DELETE of a slot gets the row lock.
LEMMA DeleteLockStep ==
  ASSUME IInv, NEW p \in Procs, DeleteLock(p)
  PROVE  IInv'
  <1> DEFINE s == txn[p].slot
  <1> USE DEF IInv, tables
  <1>1. /\ txn[p].pc = "delete" /\ s \in Slots /\ slotLock[s] = NoProc /\ slots[s] # "deleted"
        /\ UNCHANGED <<tables, apptLock>>
    BY DEF DeleteLock, Coherent
  <1>2. txn' \in [Procs -> Frame] /\ \A q \in Procs \ {p} : txn'[q] = txn[q]
    BY DEF DeleteLock, TypeOK, Frame
  <1>3. /\ slotLock' \in [Slots -> Procs \cup {NoProc}] /\ slotLock'[s] = p
        /\ \A r \in Slots \ {s} : slotLock'[r] = slotLock[r]
    BY <1>1 DEF DeleteLock, TypeOK
  <1>4. txn'[p].pc = "deleting" /\ txn'[p].slot = s
    BY DEF DeleteLock, TypeOK, Frame
  <1>5. TypeOK'
    BY <1>1, <1>2, <1>3 DEF TypeOK
  <1>6. \A q \in Procs : Coherent(q)'
    <2>1. Coherent(p)'
      BY <1>1, <1>3, <1>4 DEF Coherent, Exists, TypeOK, SlotState
    <2>2. ASSUME NEW q \in Procs \ {p}
          PROVE  Coherent(q)'
      <3>1. slotLock[s] # q
        BY <1>1, NullAssumption
      <3> QED
        BY <1>1, <1>2, <1>3, <3>1 DEF Coherent, Exists
    <2> QED
      BY <2>1, <2>2
  <1>7. DistinctBookings'
    BY <1>2, <1>4 DEF DistinctBookings
  <1>8. \A a \in Appts : Rows(a)'
    BY <1>1 DEF Rows, Exists
  <1>9. FirmHolder'
    BY <1>1, <1>2, <1>4 DEF FirmHolder, Firm, Holds
  <1> QED
    BY <1>5, <1>6, <1>7, <1>8, <1>9

\* The slot and every reference to it go at once; no cancellation that will
\* free it is under way, for it would hold the lock of an appointment of it.
LEMMA DeleteCommitStep ==
  ASSUME IInv, NEW p \in Procs, DeleteCommit(p)
  PROVE  IInv'
  <1> DEFINE s == txn[p].slot
  <1> USE DEF IInv
  <1>1. /\ txn[p].pc = "deleting" /\ s \in Slots /\ SetNullReady(s)
        /\ End(p) /\ UNCHANGED <<status, student, adviser, cancelled, events>>
    BY DEF DeleteCommit, Coherent
  <1>2. /\ txn' \in [Procs -> Frame] /\ txn'[p] = Idle
        /\ slotLock' \in [Slots -> Procs \cup {NoProc}]
        /\ apptLock' \in [Appts -> Procs \cup {NoProc}]
        /\ \A q \in Procs \ {p} :
             /\ txn'[q] = txn[q]
             /\ \A r \in Slots : slotLock[r] = q => slotLock'[r] = q
             /\ \A a \in Appts : apptLock[a] = q => apptLock'[a] = q
    BY <1>1, EndFacts
  <1>3. /\ slots'[s] = "deleted" /\ \A r \in Slots \ {s} : slots'[r] = slots[r]
        /\ \A a \in Appts : slotOf'[a] = IF slotOf[a] = s THEN NoSlot ELSE slotOf[a]
    BY <1>1 DEF DeleteCommit, SetNull, TypeOK
  <1>4. TypeOK'
    BY <1>1, <1>2 DEF TypeOK, DeleteCommit, SetNull, SlotState
  <1>5. \A q \in Procs : Coherent(q)'
    <2>1. Coherent(p)'
      BY <1>2 DEF Coherent, Idle
    <2>2. ASSUME NEW q \in Procs \ {p}
          PROVE  Coherent(q)'
      <3>1. txn'[q] = txn[q]
        BY <1>2
      <3>2. txn[q].pc = "cancelling" /\ txn[q].reopen => txn[q].slot # s
        BY <1>1, NullAssumption DEF Coherent, SetNullReady
      <3>3. txn[q].pc = "deleting" => txn[q].slot # s
        BY <1>1 DEF Coherent
      <3> QED
        BY <1>1, <1>2, <1>3, <3>1, <3>2, <3>3, NullAssumption DEF Coherent, Exists
    <2> QED
      BY <2>1, <2>2
  <1>6. DistinctBookings'
    BY <1>2 DEF DistinctBookings, Idle
  <1>7. \A a \in Appts : Rows(a)'
    BY <1>1, <1>3 DEF Rows, Exists, TypeOK
  <1>8. FirmHolder'
    <2>1. ASSUME NEW r \in Slots, slots'[r] = "booked"
          PROVE  \E a \in Appts : Firm(a, r)'
      <3>1. r # s /\ slots[r] = "booked"
        BY <1>3, <2>1
      <3>2. PICK a \in Appts : Firm(a, r)
        BY <3>1 DEF FirmHolder
      <3> QED
        BY <1>1, <1>2, <1>3, <3>1, <3>2 DEF Firm, Holds, Idle
    <2> QED
      BY <2>1 DEF FirmHolder
  <1> QED
    BY <1>4, <1>5, <1>6, <1>7, <1>8

\* The appointment is new, so no cancellation in progress concerns it: it is a
\* firm holder of its slot.
LEMMA BookCommitStep ==
  ASSUME IInv, NEW p \in Procs, BookCommit(p)
  PROVE  IInv'
  <1> USE DEF IInv
  <1>0. PICK s \in Slots, a \in Appts : s = txn[p].slot /\ a = txn[p].appt
    BY DEF BookCommit, Taken, Coherent
  <1>1. /\ txn[p].pc = "book" /\ s \in Slots /\ slots[s] \notin {"absent", "deleted"}
        /\ slotLock[s] = NoProc /\ a \in Appts /\ status[a] = "none" /\ txn[p].user \in Users
        /\ End(p) /\ UNCHANGED cancelled
    BY <1>0 DEF BookCommit, Taken, Coherent
  <1>2. /\ txn' \in [Procs -> Frame] /\ txn'[p] = Idle
        /\ slotLock' \in [Slots -> Procs \cup {NoProc}]
        /\ apptLock' \in [Appts -> Procs \cup {NoProc}]
        /\ \A q \in Procs \ {p} :
             /\ txn'[q] = txn[q]
             /\ \A r \in Slots : slotLock[r] = q => slotLock'[r] = q
             /\ \A b \in Appts : apptLock[b] = q => apptLock'[b] = q
    BY <1>1, EndFacts
  <1>3. /\ slots'[s] = "booked" /\ \A r \in Slots \ {s} : slots'[r] = slots[r]
        /\ status'[a] = "confirmed" /\ slotOf'[a] = s
        /\ \A b \in Appts \ {a} : status'[b] = status[b] /\ slotOf'[b] = slotOf[b]
    BY <1>0, <1>1 DEF BookCommit, Taken, TypeOK
  <1>4. events' = events \cup EventsOf(a)
    BY <1>0 DEF BookCommit, Taken
  <1>5. TypeOK'
    <2>1. EventsOf(a) \subseteq Appts \X Sides
      BY <1>1 DEF EventsOf
    <2>2. SlotOwner[s] \in Users
      BY <1>1, OwnerAssumption DEF Staff
    <2>3. slots' \in [Slots -> SlotState] /\ status' \in [Appts -> Status]
      BY <1>0, <1>1 DEF TypeOK, BookCommit, Taken, SlotState, Status
    <2>4. /\ slotOf' \in [Appts -> Slots \cup {NoSlot}]
          /\ student' \in [Appts -> Users \cup {NoUser}]
          /\ adviser' \in [Appts -> Users \cup {NoUser}]
      BY <1>0, <1>1, <2>2 DEF TypeOK, BookCommit, Taken
    <2>5. events' \subseteq Appts \X Sides
      BY <1>4, <2>1 DEF TypeOK
    <2> QED
      BY <1>1, <1>2, <2>3, <2>4, <2>5 DEF TypeOK
  <1>6. \A q \in Procs : Coherent(q)'
    <2>1. Coherent(p)'
      BY <1>2 DEF Coherent, Idle
    <2>2. ASSUME NEW q \in Procs \ {p}
          PROVE  Coherent(q)'
      <3>1. txn'[q] = txn[q]
        BY <1>2
      <3>2. txn[q].pc = "book" => txn[q].appt # a
        BY <1>0, <1>1 DEF DistinctBookings
      <3>3. txn[q].pc \in {"cancel", "cancelling", "complete"} => txn[q].appt # a
        BY <1>1 DEF Coherent
      <3>4. txn[q].pc = "deleting" => txn[q].slot # s
        BY <1>1, NullAssumption DEF Coherent
      <3> QED
        BY <1>1, <1>2, <1>3, <3>1, <3>2, <3>3, <3>4 DEF Coherent, Exists
    <2> QED
      BY <2>1, <2>2
  <1>7. DistinctBookings'
    BY <1>2 DEF DistinctBookings, Idle
  <1>8. ASSUME NEW b \in Appts
        PROVE  Rows(b)'
    <2>1. CASE b = a
      BY <1>1, <1>3, <2>1 DEF Rows, Exists, CancelStatus
    <2>2. CASE b # a
      <3>1. EventsOf(b) \cap events' = EventsOf(b) \cap events
        BY <1>4, <2>2, EventsDisjoint
      <3> QED
        BY <1>1, <1>3, <2>2, <3>1 DEF Rows, Exists, TypeOK
    <2> QED
      BY <2>1, <2>2
  <1>9. FirmHolder'
    <2>1. Firm(a, s)'
      <3>1. Holds(a, s)'
        BY <1>1, <1>3 DEF Holds, Rows
      <3>2. \A q \in Procs : txn'[q].pc = "cancelling" => txn'[q].appt # a
        BY <1>1, <1>2 DEF Coherent, Idle
      <3> QED
        BY <3>1, <3>2 DEF Firm
    <2>2. ASSUME NEW r \in Slots \ {s}, slots'[r] = "booked"
          PROVE  \E b \in Appts : Firm(b, r)'
      <3>1. PICK b \in Appts : Firm(b, r)
        BY <1>3, <2>2 DEF FirmHolder
      <3>2. b # a
        BY <1>1, <3>1, NullAssumption DEF Firm, Holds, Rows
      <3> QED
        BY <1>1, <1>2, <1>3, <3>1, <3>2 DEF Firm, Holds, Idle
    <2> QED
      <3>1. ASSUME NEW r \in Slots, slots'[r] = "booked"
            PROVE  \E b \in Appts : Firm(b, r)'
        BY <1>1, <2>1, <2>2, <3>1
      <3> QED
        BY <3>1 DEF FirmHolder
  <1> QED
    BY <1>5, <1>6, <1>7, <1>8, <1>9

\* The slot is loaded under the lock on the appointment.  Where it is loaded as
\* taken, reopen is set, so a firm holder stays firm.
LEMMA CancelUpdateStep ==
  ASSUME IInv, NEW p \in Procs, CancelUpdate(p)
  PROVE  IInv'
  <1> USE DEF IInv, tables
  <1>0. PICK a \in Appts : a = txn[p].appt
    BY DEF CancelUpdate, Coherent
  <1>1. /\ txn[p].pc = "cancel" /\ apptLock[a] = NoProc /\ status[a] # "none"
        /\ txn[p].user \in Users
        /\ UNCHANGED <<tables, slotLock>>
    BY <1>0 DEF CancelUpdate, Coherent
  <1>2. txn' \in [Procs -> Frame] /\ \A q \in Procs \ {p} : txn'[q] = txn[q]
    <2>1. PICK r \in BOOLEAN : r = LoadsTaken(txn[p].slot)
      BY DEF LoadsTaken
    <2>2. txn' = [txn EXCEPT ![p] = [[@ EXCEPT !.pc = "cancelling"] EXCEPT !.reopen = r]]
      BY <2>1 DEF CancelUpdate, TypeOK, Frame
    <2>3. [[txn[p] EXCEPT !.pc = "cancelling"] EXCEPT !.reopen = r] \in Frame
      BY DEF TypeOK, Frame
    <2> QED
      BY <2>2, <2>3 DEF TypeOK
  <1>3. /\ txn'[p].pc = "cancelling" /\ txn'[p].appt = a /\ txn'[p].slot = txn[p].slot
        /\ txn'[p].user = txn[p].user /\ txn'[p].reopen = LoadsTaken(txn[p].slot)
    BY <1>0 DEF CancelUpdate, TypeOK, Frame
  <1>4. /\ apptLock' \in [Appts -> Procs \cup {NoProc}] /\ apptLock'[a] = p
        /\ \A b \in Appts \ {a} : apptLock'[b] = apptLock[b]
    BY <1>0 DEF CancelUpdate, TypeOK
  <1>5. TypeOK'
    BY <1>1, <1>2, <1>4 DEF TypeOK
  <1>6. \/ slotOf[a] = txn[p].slot
        \/ slotOf[a] = NoSlot /\ txn[p].slot \in Slots /\ slots[txn[p].slot] = "deleted"
    BY <1>0, <1>1 DEF Coherent
  <1>7. \A q \in Procs : Coherent(q)'
    <2>1. txn'[p].reopen => /\ txn[p].slot \in Slots /\ slots[txn[p].slot] = "booked"
                            /\ slotOf[a] = txn[p].slot
      <3>1. txn[p].slot \in Slots \cup {NoSlot}
        BY DEF TypeOK, Frame
      <3> QED
        BY <1>3, <1>6, <3>1 DEF LoadsTaken
    <2>2. Coherent(p)'
      BY <1>1, <1>3, <1>4, <1>6, <2>1 DEF Coherent, Exists
    <2>3. ASSUME NEW q \in Procs \ {p}
          PROVE  Coherent(q)'
      <3>1. apptLock[a] # q
        BY <1>1, NullAssumption
      <3> QED
        BY <1>1, <1>2, <1>4, <3>1 DEF Coherent, Exists
    <2> QED
      BY <2>2, <2>3
  <1>8. DistinctBookings'
    BY <1>2, <1>3 DEF DistinctBookings
  <1>9. \A b \in Appts : Rows(b)'
    BY <1>1 DEF Rows, Exists
  <1>10. FirmHolder'
    <2>1. ASSUME NEW s \in Slots, slots[s] = "booked", NEW b \in Appts, Firm(b, s)
          PROVE  Firm(b, s)'
      <3>1. Holds(b, s)'
        BY <1>1, <2>1 DEF Firm, Holds
      <3>2. b = a => txn'[p].reopen
        <4> SUFFICES ASSUME b = a PROVE LoadsTaken(txn[p].slot)
          BY <1>3
        <4>1. slotOf[a] = s
          BY <2>1 DEF Firm, Holds
        <4>2. txn[p].slot = s
          BY <1>6, <4>1, NullAssumption
        <4> QED
          BY <2>1, <4>2, NullAssumption DEF LoadsTaken
      <3> QED
        BY <1>2, <1>3, <2>1, <3>1, <3>2 DEF Firm
    <2> QED
      BY <1>1, <2>1 DEF FirmHolder
  <1> QED
    BY <1>5, <1>7, <1>8, <1>9, <1>10

\* What CancelCommit does to the rows, with its locals named.
LEMMA CancelCommitFacts ==
  ASSUME IInv, NEW p \in Procs, CancelCommit(p),
         NEW a \in Appts, a = txn[p].appt,
         NEW s, s = txn[p].slot
  PROVE  /\ status[a] # "none"
         /\ \E st \in {status[a], "cancelled_by_student", "cancelled_by_adviser"} :
              status' = [status EXCEPT ![a] = st]
         /\ cancelled' = [cancelled EXCEPT ![a] = TRUE]
         /\ events' = events \ EventsOf(a)
         /\ txn[p].reopen => /\ s \in Slots /\ Exists(s) /\ slotOf[a] = s
                             /\ slotLock[s] = NoProc
                             /\ slots' = [slots EXCEPT ![s] = "open"]
         /\ ~txn[p].reopen => slots' = slots
         /\ apptLock[a] = p
         /\ UNCHANGED <<slotOf, student, adviser>>
  <1>1. status[a] # "none" /\ apptLock[a] = p
    BY DEF IInv, CancelCommit, Coherent
  <1>2. \E st \in {status[a], "cancelled_by_student", "cancelled_by_adviser"} :
           status' = [status EXCEPT ![a] = st]
    BY DEF CancelCommit, Assign, IInv, TypeOK
  <1>3. txn[p].reopen => /\ s \in Slots /\ Exists(s) /\ slotOf[a] = s
                         /\ slotLock[s] = NoProc
                         /\ slots' = [slots EXCEPT ![s] = "open"]
    BY DEF IInv, CancelCommit, Coherent
  <1> QED
    BY <1>1, <1>2, <1>3 DEF CancelCommit, Cleanup

\* A cancellation commits: its appointment is cancelled, its entries go, its slot
\* is freed if it loaded it as taken.
LEMMA CancelCommitStep ==
  ASSUME IInv, NEW p \in Procs, CancelCommit(p)
  PROVE  IInv'
  <1> USE DEF IInv
  <1>0. /\ txn[p].pc = "cancelling" /\ End(p)
        /\ txn[p].appt \in Appts /\ txn[p].slot \in Slots \cup {NoSlot}
    BY DEF CancelCommit, Coherent, TypeOK, Frame
  <1> PICK a \in Appts, s \in Slots \cup {NoSlot} : a = txn[p].appt /\ s = txn[p].slot
    BY <1>0
  <1>1. /\ status[a] # "none"
        /\ \E st \in {status[a], "cancelled_by_student", "cancelled_by_adviser"} :
             status' = [status EXCEPT ![a] = st]
        /\ cancelled' = [cancelled EXCEPT ![a] = TRUE]
        /\ events' = events \ EventsOf(a)
        /\ txn[p].reopen => /\ s \in Slots /\ Exists(s) /\ slotOf[a] = s
                            /\ slotLock[s] = NoProc
                            /\ slots' = [slots EXCEPT ![s] = "open"]
        /\ ~txn[p].reopen => slots' = slots
        /\ apptLock[a] = p
        /\ UNCHANGED <<slotOf, student, adviser>>
    BY CancelCommitFacts
  <1>2. /\ txn' \in [Procs -> Frame] /\ txn'[p] = Idle
        /\ slotLock' \in [Slots -> Procs \cup {NoProc}]
        /\ apptLock' \in [Appts -> Procs \cup {NoProc}]
        /\ \A q \in Procs \ {p} :
             /\ txn'[q] = txn[q]
             /\ \A r \in Slots : slotLock[r] = q => slotLock'[r] = q
             /\ \A b \in Appts : apptLock[b] = q => apptLock'[b] = q
    BY <1>0, EndFacts
  <1>3. \A b \in Appts : status'[b] = "none" <=> status[b] = "none"
    BY <1>1 DEF TypeOK
  <1>4. \A r \in Slots : slots'[r] = slots[r] \/ (Exists(r) /\ slots'[r] = "open")
    BY <1>1 DEF TypeOK
  <1>5. TypeOK'
    <2>1. slots' \in [Slots -> SlotState]
      BY <1>1 DEF TypeOK, SlotState
    <2>2. status' \in [Appts -> Status]
      BY <1>1 DEF TypeOK, Status, CancelStatus
    <2> QED
      BY <1>1, <1>2, <2>1, <2>2 DEF TypeOK
  <1>6. \A q \in Procs : Coherent(q)'
    <2>1. Coherent(p)'
      BY <1>2 DEF Coherent, Idle
    <2>2. ASSUME NEW q \in Procs \ {p}
          PROVE  Coherent(q)'
      <3>1. Coherent(q) /\ txn'[q] = txn[q]
        BY <1>2
      <3>2. \A r \in Slots : Exists(r) => Exists(r)'
        BY <1>4 DEF Exists
      <3>3. \A r \in Slots : /\ slots[r] # "absent" => slots'[r] # "absent"
                             /\ slots[r] = "deleted" => slots'[r] = "deleted"
        BY <1>4 DEF Exists
      <3> QED
        BY <1>1, <1>2, <1>3, <3>1, <3>2, <3>3 DEF Coherent
    <2> QED
      BY <2>1, <2>2
  <1>7. DistinctBookings'
    BY <1>2 DEF DistinctBookings, Idle
  <1>8. ASSUME NEW b \in Appts
        PROVE  Rows(b)'
    <2>0. Rows(b) /\ slotOf'[b] = slotOf[b] /\ slotOf[b] \in Slots \cup {NoSlot}
      BY <1>1 DEF TypeOK
    <2>1. slotOf'[b] # NoSlot => slots'[slotOf'[b]] \in {"open", "booked"}
      BY <1>4, <2>0 DEF Rows, Exists
    <2>2. status'[b] = "none" => slotOf'[b] = NoSlot /\ ~cancelled'[b]
                                  /\ EventsOf(b) \cap events' = {}
      <3>1. CASE b = a
        BY <1>1, <1>3, <3>1
      <3>2. CASE b # a
        <4>1. cancelled'[b] = cancelled[b]
          BY <1>1, <3>2 DEF TypeOK
        <4> QED
          BY <1>1, <1>3, <2>0, <4>1 DEF Rows
      <3> QED
        BY <3>1, <3>2
    <2>3. status'[b] \in CancelStatus => cancelled'[b]
      <3>1. CASE b = a
        BY <1>1, <3>1 DEF TypeOK
      <3>2. CASE b # a
        <4>1. status'[b] = status[b] /\ cancelled'[b] = cancelled[b]
          BY <1>1, <3>2 DEF TypeOK
        <4> QED
          BY <2>0, <4>1 DEF Rows
      <3> QED
        BY <3>1, <3>2
    <2>4. cancelled'[b] => EventsOf(b) \cap events' = {}
      <3>1. CASE b = a
        BY <1>1, <3>1
      <3>2. CASE b # a
        <4>1. cancelled'[b] = cancelled[b]
          BY <1>1, <3>2 DEF TypeOK
        <4> QED
          BY <1>1, <2>0, <4>1 DEF Rows
      <3> QED
        BY <3>1, <3>2
    <2> QED
      BY <2>1, <2>2, <2>3, <2>4 DEF Rows, Exists, EventsOf
  <1>9. FirmHolder'
    <2>1. ASSUME NEW r \in Slots, slots'[r] = "booked"
          PROVE  \E b \in Appts : Firm(b, r)'
      <3>1. slots[r] = "booked" /\ ~(txn[p].reopen /\ r = s)
        BY <1>1, <1>4, <2>1 DEF TypeOK
      <3>2. PICK b \in Appts : Firm(b, r)
        BY <3>1 DEF FirmHolder
      <3>3. b # a
        BY <1>0, <1>1, <3>1, <3>2 DEF Firm, Holds
      <3>4. Holds(b, r)'
        BY <1>1, <3>2, <3>3 DEF Firm, Holds, TypeOK
      <3> QED
        BY <1>2, <3>2, <3>4 DEF Firm, Idle
    <2> QED
      BY <2>1 DEF FirmHolder
  <1> QED
    BY <1>5, <1>6, <1>7, <1>8, <1>9

\* What a completion leaves: only the status of its appointment may change.
LEMMA CompleteCommitFacts ==
  ASSUME IInv, NEW p \in Procs, CompleteCommit(p)
  PROVE  /\ txn[p].appt \in Appts /\ status[txn[p].appt] # "none"
         /\ status' = [status EXCEPT ![txn[p].appt] = "completed"]
         /\ End(p) /\ UNCHANGED <<slots, slotOf, student, adviser, cancelled, events>>
  <1>1. txn[p].appt \in Appts /\ status[txn[p].appt] # "none" /\ txn[p].saw # "completed"
    BY DEF IInv, Coherent, CompleteCommit
  <1> QED
    BY <1>1 DEF CompleteCommit, Assign

\* A completion commits.
LEMMA CompleteCommitStep ==
  ASSUME IInv, NEW p \in Procs, CompleteCommit(p)
  PROVE  IInv'
  <1> USE DEF IInv
  <1> PICK a \in Appts : a = txn[p].appt
    BY CompleteCommitFacts
  <1>1. /\ status[a] # "none" /\ status' = [status EXCEPT ![a] = "completed"]
        /\ End(p) /\ UNCHANGED <<slots, slotOf, student, adviser, cancelled, events>>
    BY CompleteCommitFacts
  <1>2. /\ txn' \in [Procs -> Frame] /\ txn'[p] = Idle
        /\ slotLock' \in [Slots -> Procs \cup {NoProc}]
        /\ apptLock' \in [Appts -> Procs \cup {NoProc}]
        /\ \A q \in Procs \ {p} :
             /\ txn'[q] = txn[q]
             /\ \A r \in Slots : slotLock[r] = q => slotLock'[r] = q
             /\ \A b \in Appts : apptLock[b] = q => apptLock'[b] = q
    BY <1>1, EndFacts
  <1>3. \A b \in Appts : status'[b] = "none" <=> status[b] = "none"
    BY <1>1 DEF TypeOK
  <1>4. TypeOK'
    BY <1>1, <1>2 DEF TypeOK, Status
  <1>5. \A q \in Procs : Coherent(q)'
    <2>1. Coherent(p)'
      BY <1>2 DEF Coherent, Idle
    <2>2. ASSUME NEW q \in Procs \ {p}
          PROVE  Coherent(q)'
      <3>1. Coherent(q) /\ txn'[q] = txn[q]
        BY <1>2
      <3> QED
        BY <1>1, <1>2, <1>3, <3>1 DEF Coherent, Exists
    <2> QED
      BY <2>1, <2>2
  <1>6. DistinctBookings'
    BY <1>2 DEF DistinctBookings, Idle
  <1>7. \A b \in Appts : Rows(b)'
    BY <1>1 DEF Rows, Exists, TypeOK, CancelStatus
  <1>8. FirmHolder'
    BY <1>1, <1>2 DEF FirmHolder, Firm, Holds, Idle
  <1> QED
    BY <1>4, <1>5, <1>6, <1>7, <1>8

\* Every step of a request in progress preserves the invariant.
LEMMA ProceedStep ==
  ASSUME IInv, NEW p \in Procs, Proceed(p)
  PROVE  IInv'
  <1>1. CASE DeleteLock(p)
    BY <1>1, DeleteLockStep
  <1>2. CASE DeleteGone(p)
    BY <1>2, EndStep DEF DeleteGone
  <1>3. CASE DeleteCommit(p)
    BY <1>3, DeleteCommitStep
  <1>4. CASE BookCommit(p)
    BY <1>4, BookCommitStep
  <1>5. CASE BookStale(p)
    BY <1>5, EndStep DEF BookStale
  <1>6. CASE CancelUpdate(p)
    BY <1>6, CancelUpdateStep
  <1>7. CASE CancelCommit(p)
    BY <1>7, CancelCommitStep
  <1>8. CASE CompleteCommit(p)
    BY <1>8, CompleteCommitStep
  <1>9. CASE DeadlockVictim(p)
    BY <1>9, EndStep DEF DeadlockVictim, Abort
  <1> QED
    BY <1>1, <1>2, <1>3, <1>4, <1>5, <1>6, <1>7, <1>8, <1>9 DEF Proceed

\* A step that changes nothing preserves the invariant.
LEMMA StutterStep == IInv /\ UNCHANGED vars => IInv'
  <1> SUFFICES ASSUME IInv, UNCHANGED vars PROVE IInv'
    OBVIOUS
  <1> USE DEF IInv, vars
  <1>1. TypeOK'
    BY DEF TypeOK
  <1>2. \A p \in Procs : Coherent(p)'
    BY DEF Coherent, Exists
  <1>3. DistinctBookings' /\ FirmHolder'
    BY DEF DistinctBookings, FirmHolder, Firm, Holds
  <1>4. \A a \in Appts : Rows(a)'
    BY DEF Rows, Exists
  <1> QED
    BY <1>1, <1>2, <1>3, <1>4

\* The invariant is inductive.
LEMMA NextStep == IInv /\ [Next]_vars => IInv'
  <1> SUFFICES ASSUME IInv, [Next]_vars PROVE IInv'
    OBVIOUS
  <1>1. ASSUME NEW u \in Users, NEW S \in SUBSET Slots, CreateSlots(u, S)
        PROVE  IInv'
    BY <1>1, CreateSlotsStep
  <1>2. ASSUME NEW e \in events, DeleteEvent(e)
        PROVE  IInv'
    BY <1>2, DeleteEventStep
  <1>3. ASSUME NEW p \in Procs, Request(p)
        PROVE  IInv'
    BY <1>3, RequestStep
  <1>4. ASSUME NEW p \in Procs, Proceed(p)
        PROVE  IInv'
    BY <1>4, ProceedStep
  <1>5. ASSUME NEW p \in Procs, Abort(p)
        PROVE  IInv'
    BY <1>5, EndStep DEF Abort
  <1>6. CASE UNCHANGED vars
    BY <1>6, StutterStep
  <1> QED
    BY <1>1, <1>2, <1>3, <1>4, <1>5, <1>6 DEF Next

\* A step that gives no appointment a slot, opens none that was held and unmarks
\* no cancellation leaves the reason for every free slot where it was.
LEMMA ExplainedStep ==
  ASSUME IInv, OpenSlotExplained,
         \A s \in Slots, a \in Appts :
           slots'[s] = "open" /\ slotOf'[a] = s => slots[s] = "open" /\ slotOf[a] = s,
         \A s \in Slots, b \in Appts :
           slots'[s] = "open" /\ slotOf[b] = s => slotOf'[b] = s,
         \A a \in Appts : cancelled[a] => cancelled'[a]
  PROVE  OpenSlotExplained'
  BY DEF OpenSlotExplained, Holds

\* A cancellation opens the slot it names in its own appointment, now cancelled.
LEMMA CancelExplained ==
  ASSUME IInv, OpenSlotExplained, NEW p \in Procs, CancelCommit(p)
  PROVE  OpenSlotExplained'
  <1>0. PICK c \in Appts : c = txn[p].appt
    BY DEF IInv, CancelCommit, Coherent
  <1>1. /\ cancelled' = [cancelled EXCEPT ![c] = TRUE] /\ slotOf' = slotOf
        /\ \/ slots' = slots
           \/ \E r \in Slots : slotOf[c] = r /\ slots' = [slots EXCEPT ![r] = "open"]
    BY <1>0, CancelCommitFacts
  <1> SUFFICES ASSUME NEW s \in Slots, NEW a \in Appts, slots'[s] = "open", Holds(a, s)'
               PROVE  \E b \in Appts \ {a} : slotOf'[b] = s /\ cancelled'[b]
    BY DEF OpenSlotExplained
  <1>2. slotOf[a] = s /\ ~cancelled[a] /\ a # c
    BY <1>0, <1>1 DEF Holds, IInv, TypeOK
  <1>3. CASE slots[s] = "open"
    BY <1>1, <1>2, <1>3 DEF OpenSlotExplained, Holds, IInv, TypeOK
  <1>4. CASE slots[s] # "open"
    <2>1. slotOf[c] = s
      BY <1>1, <1>4 DEF IInv, TypeOK
    <2> QED
      BY <1>0, <1>1, <1>2, <2>1 DEF IInv, TypeOK
  <1> QED
    BY <1>3, <1>4

\* Every step keeps the reason for a free slot that somebody holds.
LEMMA OpenSlotStep == IInv /\ OpenSlotExplained /\ [Next]_vars => OpenSlotExplained'
  <1> SUFFICES ASSUME IInv, OpenSlotExplained, [Next]_vars PROVE OpenSlotExplained'
    OBVIOUS
  <1>1. ASSUME NEW u \in Users, NEW S \in SUBSET Slots, CreateSlots(u, S)
        PROVE  OpenSlotExplained'
    <2>1. \A a \in Appts : slotOf[a] \in Slots => Exists(slotOf[a])
      BY NullAssumption DEF IInv, Rows, TypeOK
    <2> QED
      BY <1>1, <2>1, NullAssumption DEF CreateSlots, OpenSlotExplained, Holds, Exists, IInv, TypeOK
  <1>2. ASSUME NEW p \in Procs, BookCommit(p)
        PROVE  OpenSlotExplained'
    <2>1. PICK s \in Slots, a \in Appts : s = txn[p].slot /\ a = txn[p].appt
      BY <1>2 DEF BookCommit, IInv, Coherent
    <2>2. status[a] = "none" /\ slotOf[a] = NoSlot
      BY <1>2, <2>1 DEF BookCommit, IInv, Coherent, Rows
    <2>3. /\ slots' = [slots EXCEPT ![s] = "booked"]
          /\ slotOf' = [slotOf EXCEPT ![a] = s] /\ cancelled' = cancelled
      BY <1>2, <2>1 DEF BookCommit, Taken
    <2> QED
      BY <2>2, <2>3, NullAssumption, ExplainedStep DEF IInv, TypeOK
  <1>3. ASSUME NEW p \in Procs, CancelCommit(p)
        PROVE  OpenSlotExplained'
    BY <1>3, CancelExplained
  <1>4. ASSUME NEW p \in Procs, DeleteCommit(p)
        PROVE  OpenSlotExplained'
    <2>1. PICK s \in Slots : s = txn[p].slot
      BY <1>4 DEF DeleteCommit, IInv, Coherent
    <2>2. /\ slots' = [slots EXCEPT ![s] = "deleted"] /\ cancelled' = cancelled
          /\ slotOf' = [a \in Appts |-> IF slotOf[a] = s THEN NoSlot ELSE slotOf[a]]
      BY <1>4, <2>1 DEF DeleteCommit, SetNull
    <2> QED
      BY <2>2, NullAssumption, ExplainedStep DEF IInv, TypeOK
  <1>5. ASSUME UNCHANGED <<slots, slotOf, cancelled>>
        PROVE  OpenSlotExplained'
    BY <1>5 DEF OpenSlotExplained, Holds
  <1>6. ASSUME NEW p \in Procs, Proceed(p)
        PROVE  OpenSlotExplained'
    <2>1. CASE DeleteLock(p) \/ DeleteGone(p) \/ BookStale(p) \/ CancelUpdate(p)
               \/ CompleteCommit(p) \/ DeadlockVictim(p)
      BY <1>5, <2>1 DEF DeleteLock, DeleteGone, BookStale, CancelUpdate, CompleteCommit,
                        DeadlockVictim, Abort, tables
    <2> QED
      BY <1>2, <1>3, <1>4, <1>6, <2>1 DEF Proceed
  <1>7. ASSUME NEW p \in Procs, Request(p)
        PROVE  OpenSlotExplained'
    BY <1>5, <1>7 DEF Request, DeleteRead, BookRead, CancelRead, CompleteRead, tables
  <1>8. ASSUME NEW p \in Procs, Abort(p)
        PROVE  OpenSlotExplained'
    BY <1>5, <1>8 DEF Abort, tables
  <1>9. ASSUME NEW e \in events, DeleteEvent(e)
        PROVE  OpenSlotExplained'
    BY <1>5, <1>9 DEF DeleteEvent
  <1>10. CASE UNCHANGED vars
    BY <1>5, <1>10 DEF vars
  <1> QED
    BY <1>1, <1>6, <1>7, <1>8, <1>9, <1>10 DEF Next

----------------------------------------------------------------------------
(* The invariants of the specification.                                    *)

\* The inductive invariant holds of every reachable state.
THEOREM Inductive == Spec => []IInv
  <1>1. Init => IInv
    BY InitIInv
  <1>2. IInv /\ [Next]_vars => IInv'
    BY NextStep
  <1> QED
    BY <1>1, <1>2, PTL DEF Spec

\* Every column and every request's locals keep their types, for any number of
\* requests, slots, users and bookings.
THEOREM TypeCorrect == Spec => []TypeOK
  <1>1. IInv => TypeOK
    BY DEF IInv
  <1> QED
    BY <1>1, Inductive, PTL

\* A taken slot always has an appointment that was never cancelled: racing
\* bookings, cancellations and deletes never lose a slot (book, cancel and
\* delete_slot).
THEOREM NoLeak == Spec => []NoLeakedSlot
  <1>1. IInv => NoLeakedSlot
    BY DEF IInv, FirmHolder, Firm, NoLeakedSlot
  <1> QED
    BY <1>1, Inductive, PTL

\* A slot that a standing appointment holds is shown as free only when another
\* appointment that had it was cancelled, for any number of requests (book,
\* cancel, complete).
THEOREM OpenExplained == Spec => []OpenSlotExplained
  <1>1. Init => OpenSlotExplained
    BY DEF Init, OpenSlotExplained
  <1>2. IInv /\ OpenSlotExplained /\ [Next]_vars => OpenSlotExplained'
    BY OpenSlotStep
  <1> QED
    BY <1>1, <1>2, Inductive, PTL DEF Spec

\* A booking's calendar entries go with its cancellation and never outlive it,
\* whatever runs beside (cancel and delete_by_source).
THEOREM CalendarCorrect == Spec => []CalendarFollowsBooking
  <1>1. IInv => CalendarFollowsBooking
    <2> SUFFICES ASSUME IInv, NEW a \in Appts, EventsOf(a) \cap events # {}
                 PROVE  status[a] \in {"confirmed", "completed"} /\ ~cancelled[a]
      BY DEF CalendarFollowsBooking
    <2>1. status[a] # "none" /\ ~cancelled[a] /\ status[a] \notin CancelStatus
      BY DEF IInv, Rows
    <2>2. status[a] \in Status
      BY DEF IInv, TypeOK
    <2> QED
      BY <2>1, <2>2 DEF Status
  <1> QED
    BY <1>1, Inductive, PTL

\* The slot a cancellation is about to free is still there and still its own,
\* though only the appointment is locked (cancel against delete_slot).
THEOREM NeverStale == Spec => []CancelNeverStale
  <1>1. IInv => CancelNeverStale
    BY DEF IInv, Coherent, Exists, CancelNeverStale
  <1> QED
    BY <1>1, Inductive, PTL

----------------------------------------------------------------------------
(* The refinement of Ledger.                                               *)

\* The initial tables are those of Ledger.
LEMMA InitRefines == Init => Abstract!Init
  BY DEF Init, Abstract!Init

\* The commit of a booking is Book of Ledger.
LEMMA BookRefines ==
  ASSUME IInv, NEW p \in Procs, BookCommit(p)
  PROVE  Abstract!Next
  <1>1. /\ txn[p].slot \in Slots /\ slots[txn[p].slot] # "absent"
        /\ txn[p].appt \in Appts /\ status[txn[p].appt] = "none"
    BY DEF IInv, Coherent, BookCommit, Taken
  <1>2. slots[txn[p].slot] \in {"open", "booked"}
    BY <1>1 DEF IInv, TypeOK, SlotState, BookCommit, Taken
  <1>3. Abstract!Book(txn[p].appt, txn[p].slot)
    BY <1>1, <1>2 DEF BookCommit, Taken, Abstract!Book, Abstract!Exists, Abstract!EventsOf,
                      Abstract!Sides, EventsOf, Sides
  <1> QED
    BY <1>1, <1>3 DEF Abstract!Next

\* The commit of a slot's deletion is Withdraw of Ledger.
LEMMA WithdrawRefines ==
  ASSUME IInv, NEW p \in Procs, DeleteCommit(p)
  PROVE  Abstract!Next
  <1>1. txn[p].slot \in Slots /\ slots[txn[p].slot] \in {"open", "booked"}
    BY DEF IInv, Coherent, Exists, DeleteCommit
  <1>2. Abstract!Withdraw(txn[p].slot)
    BY <1>1 DEF DeleteCommit, SetNull, Abstract!Withdraw, Abstract!Exists
  <1> QED
    BY <1>1, <1>2 DEF Abstract!Next

\* A cancellation that does not free its slot leaves it with another holder:
\* the firm one, which cannot be the appointment being cancelled.
LEMMA CancelRefines ==
  ASSUME IInv, NEW p \in Procs, CancelCommit(p)
  PROVE  Abstract!Next
  <1>0. txn[p].pc = "cancelling" /\ txn[p].appt \in Appts
    BY DEF IInv, CancelCommit, Coherent
  <1> PICK a \in Appts : a = txn[p].appt
    BY <1>0
  <1>1. /\ status[a] # "none"
        /\ \E st \in {status[a], "cancelled_by_student", "cancelled_by_adviser"} :
             status' = [status EXCEPT ![a] = st]
        /\ cancelled' = [cancelled EXCEPT ![a] = TRUE]
        /\ events' = events \ EventsOf(a)
        /\ txn[p].reopen => /\ slotOf[a] \in Slots
                            /\ slots' = [slots EXCEPT ![slotOf[a]] = "open"]
        /\ ~txn[p].reopen => slots' = slots
        /\ slotOf' = slotOf
    BY CancelCommitFacts
  <1>2. txn[p].reopen => slotOf[a] # NoSlot
    BY <1>1, NullAssumption
  <1>3. ASSUME ~txn[p].reopen, slotOf[a] # NoSlot, slots[slotOf[a]] = "booked"
        PROVE  \E b \in Appts \ {a} : Holds(b, slotOf[a])
    <2>1. slotOf[a] \in Slots
      BY <1>3 DEF IInv, TypeOK
    <2>2. PICK b \in Appts : Firm(b, slotOf[a])
      BY <1>3, <2>1 DEF IInv, FirmHolder
    <2>3. b # a
      BY <1>0, <1>3, <2>2 DEF Firm
    <2> QED
      BY <2>2, <2>3 DEF Firm
  <1>4. Abstract!Cancel(a)
    BY <1>1, <1>2, <1>3 DEF Abstract!Cancel, Abstract!Holds, Holds, Abstract!EventsOf,
                            Abstract!Sides, EventsOf, Sides
  <1> QED
    BY <1>4 DEF Abstract!Next

\* The commit of a completion is Complete of Ledger.
LEMMA CompleteRefines ==
  ASSUME IInv, NEW p \in Procs, CompleteCommit(p)
  PROVE  Abstract!Next
  <1>1. Abstract!Complete(txn[p].appt) /\ txn[p].appt \in Appts
    BY CompleteCommitFacts DEF Abstract!Complete
  <1> QED
    BY <1>1 DEF Abstract!Next

\* Every step is a step of Ledger or leaves its variables alone.
LEMMA NextRefines == IInv /\ [Next]_vars => [Abstract!Next]_(Abstract!vars)
  <1> SUFFICES ASSUME IInv, [Next]_vars PROVE Abstract!Next \/ UNCHANGED Abstract!vars
    OBVIOUS
  <1> USE DEF tables, Abstract!vars
  <1>1. ASSUME NEW u \in Users, NEW S \in SUBSET Slots, CreateSlots(u, S)
        PROVE  Abstract!Next
    <2>1. Abstract!Publish(S)
      BY <1>1 DEF CreateSlots, Abstract!Publish
    <2> QED
      BY <2>1 DEF Abstract!Next
  <1>2. ASSUME NEW e \in events, DeleteEvent(e)
        PROVE  Abstract!Next
    <2>1. Abstract!DropEvent(e)
      BY <1>2 DEF DeleteEvent, Abstract!DropEvent
    <2> QED
      BY <2>1 DEF Abstract!Next
  <1>3. ASSUME NEW p \in Procs, Request(p)
        PROVE  UNCHANGED Abstract!vars
    BY <1>3 DEF Request, DeleteRead, BookRead, CancelRead, CompleteRead
  <1>4. ASSUME NEW p \in Procs, Abort(p)
        PROVE  UNCHANGED Abstract!vars
    BY <1>4 DEF Abort
  <1>5. ASSUME NEW p \in Procs, Proceed(p)
        PROVE  Abstract!Next \/ UNCHANGED Abstract!vars
    <2>1. CASE BookCommit(p)
      BY <2>1, BookRefines
    <2>2. CASE DeleteCommit(p)
      BY <2>2, WithdrawRefines
    <2>3. CASE CancelCommit(p)
      BY <2>3, CancelRefines
    <2>4. CASE CompleteCommit(p)
      BY <2>4, CompleteRefines
    <2>5. CASE DeleteLock(p) \/ CancelUpdate(p)
      BY <2>5 DEF DeleteLock, CancelUpdate
    <2>6. CASE DeleteGone(p) \/ BookStale(p) \/ DeadlockVictim(p)
      BY <2>6 DEF DeleteGone, BookStale, DeadlockVictim, Abort
    <2> QED
      BY <1>5, <2>1, <2>2, <2>3, <2>4, <2>5, <2>6 DEF Proceed
  <1>6. CASE UNCHANGED vars
    BY <1>6 DEF vars
  <1> QED
    BY <1>1, <1>2, <1>3, <1>4, <1>5, <1>6 DEF Next

\* The concurrent transactions implement the single-step Ledger, for every
\* value of the constants: the tables never show a reader more than it allows.
THEOREM Refinement == Spec => ImplementsLedger
  <1>1. Init => Abstract!Init
    BY InitRefines
  <1>2. IInv /\ [Next]_vars => [Abstract!Next]_(Abstract!vars)
    BY NextRefines
  <1>3. Spec => Abstract!Init /\ [][Abstract!Next]_(Abstract!vars)
    BY <1>1, <1>2, Inductive, PTL DEF Spec
  <1> QED
    BY <1>3 DEF ImplementsLedger, Abstract!Spec
=============================================================================
