SPECIFICATION FairSpec
CONSTANTS
  Procs = {p1, p2}
  Events <- Both
  MaxRetries = 3
  MaxRequests = 3
INVARIANTS Announced
PROPERTIES Settles
CHECK_DEADLOCK FALSE
