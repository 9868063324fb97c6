\* Two requests at once: both may find the slot open.
SPECIFICATION Spec
\* Once every slot and booking id is used up nothing is left to request.
CHECK_DEADLOCK FALSE
CONSTANTS
  Procs = {p1, p2}
  Slots = {s1}
  Appts = {a1, a2}
  stu = stu
  adv = adv
  Users <- MCUsers
  Role <- MCRole
  SlotOwner <- MCSlotOwner
  NoSlot = NoSlot
  NoAppt = NoAppt
  NoUser = NoUser
  NoProc = NoProc
INVARIANT
  NoDoubleBooking
