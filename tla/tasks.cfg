\* Two requests and the job over one task, its deadline at any of three instants.
SPECIFICATION FairSpec
CONSTANTS
  Procs = {p1, p2}
  Tasks = {t1}
  MaxClock = 2
  NoTask = NoTask
  NoDeadline = NoDeadline
INVARIANTS
  TypeOK
  DoneHasCompletion
  HistoryExplains
PROPERTIES
  OverdueOnlyWhenLate
  LateIsMarked
