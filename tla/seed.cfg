SPECIFICATION SeedSpec
CONSTANTS
  Procs = {p1, p2}
  MaxRuns = 2
  NStudents = 2
  NUniversities = 3
  NRoadmaps = 4
  NSteps = 2
  NFaq = 1
  NNews = 2
  Promoted = {1}
  NSpare = 1
  Unreliable <- MayFail
SYMMETRY Symmetric
INVARIANTS AllOrNothing SeededOnce SeededIsSound
CHECK_DEADLOCK FALSE
