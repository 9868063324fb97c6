\* Two requests at once: two refreshes with one token.
SPECIFICATION Spec
\* Once the account is deleted nothing is left to request.
CHECK_DEADLOCK FALSE
CONSTANTS
  Procs = {p1, p2}
  Users = {u1}
  Otps = {o1, o2}
  MaxClock = 2
  Life = 1
  NoUser = NoUser
  NoOtp = NoOtp
SYMMETRY Symmetric
PROPERTY
  RefreshOnLiveToken
ACTION_CONSTRAINT
  OnlyRefreshesDelete
