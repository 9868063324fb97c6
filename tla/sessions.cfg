\* Three requests at once over one account, three seconds and two codes.
SPECIFICATION Spec
\* Once the account is deleted nothing is left to request.
CHECK_DEADLOCK FALSE
CONSTANTS
  Procs = {p1, p2, p3}
  Users = {u1}
  Otps = {o1, o2}
  MaxClock = 2
  Life = 1
  NoUser = NoUser
  NoOtp = NoOtp
SYMMETRY Symmetric
INVARIANTS
  TypeOK
  SpentOtpIsGone
PROPERTIES
  DeactivationDrains
  SplitsExplained
