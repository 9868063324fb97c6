\* A student with a conversation and one without.
SPECIFICATION Spec
CONSTANTS
  Procs = {p1}
  Convos = {c1, c2}
  Seeded = {c1}
  MaxRequests = 1
  WithImage = {}
  NoConvo = NoConvo
  NoProc = NoProc
INVARIANT HandedOutIsThere
CHECK_DEADLOCK FALSE
