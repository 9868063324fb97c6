\* Three requests at once over two documents of one student, three uploads.
SPECIFICATION Spec
\* Once the account is deleted nothing is left to request.
CHECK_DEADLOCK FALSE
CONSTANTS
  Procs = {p1, p2, p3}
  Students = {s1}
  Types = {cv, letter}
  Keys = {k1, k2, k3}
  NoDoc = NoDoc
  NoKey = NoKey
  NoProc = NoProc
SYMMETRY Symmetric
INVARIANTS
  TypeOK
  MissingIsAccounted
PROPERTY
  ChangesWhatItLoaded
