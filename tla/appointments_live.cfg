\* Two requests at once over two slots and one booking: every request ends.
SPECIFICATION FairSpec
\* Once every slot and booking id is used up nothing is left to request.
CHECK_DEADLOCK FALSE
CONSTANTS
  Procs = {p1, p2}
  Slots = {s1, s2}
  Appts = {a1}
  stu = stu
  adv = adv
  Users <- MCUsers
  Role <- MCRole
  SlotOwner <- MCSlotOwner
  NoSlot = NoSlot
  NoAppt = NoAppt
  NoUser = NoUser
  NoProc = NoProc
PROPERTY
  RequestsFinish
