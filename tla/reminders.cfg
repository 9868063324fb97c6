SPECIFICATION JobsSpec
CONSTANTS
  Workers = {w1, w2}
  Tasks = {t1}
  Appts = {a1}
  Days = 4
  Times <- LaterTimes
  MaxEdits = 1
  MaxFaults = 1
SYMMETRY Symmetric
INVARIANTS RemindersKept
CHECK_DEADLOCK FALSE
