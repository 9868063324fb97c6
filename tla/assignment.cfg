\* One assignment of a roadmap with two tasks, and no failure.
SPECIFICATION UnfailingSpec
CONSTANTS
  Procs = {p1}
  Assigns = {a1}
  Students = {s1}
  Universities = {u1}
  N = 2
  NoAssign = NoAssign
  NoStudent = NoStudent
  NoUniversity = NoUniversity
INVARIANT
  AssignedIsComplete
