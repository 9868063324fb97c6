\* Two assignments at once of a roadmap with two tasks, to one student.
SPECIFICATION Spec
CONSTANTS
  Procs = {p1, p2}
  Assigns = {a1, a2}
  Students = {s1}
  Universities = {u1}
  N = 2
  NoAssign = NoAssign
  NoStudent = NoStudent
  NoUniversity = NoUniversity
SYMMETRY Symmetric
INVARIANTS
  TypeOK
  NoticedIsComplete
  StopsAtOneTask
