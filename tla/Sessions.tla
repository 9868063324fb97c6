------------------------------ MODULE Sessions ------------------------------
(***************************************************************************)
(* Accounts, refresh tokens and the one-time codes of a password reset     *)
(* (src/app/modules/auth, src/app/modules/users).                          *)
(*                                                                         *)
(* Rows of refresh_tokens and users live in PostgreSQL, the code in Redis; *)
(* no transaction spans both.  A refresh token is a JWT that holds the     *)
(* user and an expiry in whole seconds, so two tokens made for one user in *)
(* the same second are one and the same string, and token_hash is UNIQUE.  *)
(*                                                                         *)
(* Login, registration and refresh check the account first and write later *)
(* (the check is a step, the writes and the commit another).  Logout, the  *)
(* deletes and the sweep keep nothing of what they read, so each is one    *)
(* step.  Passwords are left out: nothing here depends on which one it is. *)
(***************************************************************************)
EXTENDS Naturals, FiniteSets

CONSTANTS
  Procs,     \* requests being served at once
  Users,     \* accounts, one per e-mail address; a deleted one stays deleted
  Otps,      \* one-time codes: no two mails carry the same one
  MaxClock,  \* bound: the last second of a behaviour
  Life,      \* seconds a refresh token lives (30 days in the code)
  NoUser, NoOtp

ASSUME ClockAssumption == MaxClock \in Nat /\ Life \in Nat
\* A server process serves finitely many requests.
ASSUME ProcsAssumption == IsFiniteSet(Procs)
ASSUME SessionNullAssumption == NoUser \notin Users /\ NoOtp \notin Otps

VARIABLES
  account,  \* account[u]: none, active, inactive or deleted
  tokens,   \* rows of refresh_tokens: <<u, second of issue>>
  otp,      \* the Redis key otp:<email>, NoOtp when absent
  spent,    \* history: codes with which a password has been reset
  clock,
  txn       \* the local variables of the request each process serves

store == <<account, tokens, otp, spent>>
vars == <<account, tokens, otp, spent, clock, txn>>

Seconds == 0 .. MaxClock
Tokens == Users \X Seconds
TokensOf(u) == {tok \in tokens : tok[1] = u}
Expired(tok) == tok[2] + Life < clock

\* token is the one being rotated; doomed the rows a reset has deleted but not
\* committed.
Frame == [pc     : {"idle", "register", "issue", "rotate", "reset", "flushed"},
          user   : Users \cup {NoUser},
          token  : SUBSET Tokens,
          otp    : Otps \cup {NoOtp},
          doomed : SUBSET Tokens]

Idle == [pc |-> "idle", user |-> NoUser, token |-> {}, otp |-> NoOtp, doomed |-> {}]

TypeOK ==
  /\ account \in [Users -> {"none", "active", "inactive", "deleted"}]
  /\ tokens \subseteq Tokens
  /\ otp \in [Users -> Otps \cup {NoOtp}]
  /\ spent \subseteq Otps
  /\ clock \in Seconds
  /\ txn \in [Procs -> Frame]

Init ==
  /\ account = [u \in Users |-> "none"]
  /\ tokens = {}
  /\ otp = [u \in Users |-> NoOtp]
  /\ spent = {}
  /\ clock = 0
  /\ txn = [p \in Procs |-> Idle]

Exists(u) == account[u] \in {"active", "inactive"}

Begin(p, frame) == txn[p] = Idle /\ txn' = [txn EXCEPT ![p] = frame]
End(p) == txn' = [txn EXCEPT ![p] = Idle]

\* A failure, or a row that is gone or already there: nothing is written.
Abort(p) == txn[p] # Idle /\ End(p) /\ UNCHANGED <<store, clock>>

Tick ==
  /\ clock < MaxClock
  /\ clock' = clock + 1
  /\ UNCHANGED <<store, txn>>

----------------------------------------------------------------------------
(* Accounts.                                                               *)

RegisterRead(p, u) ==
  /\ account[u] = "none"
  /\ Begin(p, [Idle EXCEPT !.pc = "register", !.user = u])
  /\ UNCHANGED <<store, clock>>

\* users.email is UNIQUE: of two that found the address free one fails
\* (Abort).  The account is committed before its first token is issued.
RegisterCommit(p) ==
  LET u == txn[p].user IN
  /\ txn[p].pc = "register"
  /\ account[u] = "none"
  /\ account' = [account EXCEPT ![u] = "active"]
  /\ txn' = [txn EXCEPT ![p].pc = "issue"]
  /\ UNCHANGED <<tokens, otp, spent, clock>>

\* An adviser creates the account; no session comes with it.
InviteStudent(u) ==
  /\ account[u] = "none"
  /\ account' = [account EXCEPT ![u] = "active"]
  /\ UNCHANGED <<tokens, otp, spent, clock, txn>>

DeactivateMe(u) ==
  /\ Exists(u)
  /\ account' = [account EXCEPT ![u] = "inactive"]
  /\ tokens' = tokens \ TokensOf(u)
  /\ UNCHANGED <<otp, spent, clock, txn>>

\* The user's rows go with it: user_id has ON DELETE CASCADE.
DeleteStudent(u) ==
  /\ Exists(u)
  /\ account' = [account EXCEPT ![u] = "deleted"]
  /\ tokens' = tokens \ TokensOf(u)
  /\ UNCHANGED <<otp, spent, clock, txn>>

----------------------------------------------------------------------------
(* Sessions.                                                               *)

AnyAccount(u) == Exists(u)
MayHaveSession(u) == account[u] = "active"

Login(p, u) ==
  /\ MayHaveSession(u)
  /\ Begin(p, [Idle EXCEPT !.pc = "issue", !.user = u])
  /\ UNCHANGED <<store, clock>>

\* The new row needs its user (a foreign key) and a hash no row has.
Insertable(tok, rows) == Exists(tok[1]) /\ tok \notin rows

IssueTokens(p) ==
  LET tok == <<txn[p].user, clock>> IN
  /\ txn[p].pc = "issue"
  /\ Insertable(tok, tokens)
  /\ tokens' = tokens \cup {tok}
  /\ End(p)
  /\ UNCHANGED <<account, otp, spent, clock>>

\* The row is found and live, and its user may still have a session.
RefreshRead(p, tok) ==
  /\ tok \in tokens /\ ~Expired(tok)
  /\ MayHaveSession(tok[1])
  /\ Begin(p, [Idle EXCEPT !.pc = "rotate", !.user = tok[1], !.token = {tok}])
  /\ UNCHANGED <<store, clock>>

RefreshExpired(tok) ==
  /\ tok \in tokens /\ Expired(tok)
  /\ tokens' = tokens \ {tok}
  /\ UNCHANGED <<account, otp, spent, clock, txn>>

RotateKeepsOld(p) ==
  LET tok == <<txn[p].user, clock>> IN
  /\ txn[p].pc = "rotate"
  /\ Insertable(tok, tokens)
  /\ tokens' = tokens \cup {tok}
  /\ End(p)
  /\ UNCHANGED <<account, otp, spent, clock>>

\* The DELETE takes whatever row is there, which may be none by now.
Rotate(p) ==
  LET left == tokens \ txn[p].token
      tok == <<txn[p].user, clock>> IN
  /\ txn[p].pc = "rotate"
  /\ Insertable(tok, left)
  /\ tokens' = left \cup {tok}
  /\ End(p)
  /\ UNCHANGED <<account, otp, spent, clock>>

\* logout, or the session deleted by its id.
DeleteSession(tok) ==
  /\ tok \in tokens
  /\ tokens' = tokens \ {tok}
  /\ UNCHANGED <<account, otp, spent, clock, txn>>

DeleteAllSessions(u) ==
  /\ TokensOf(u) # {}
  /\ tokens' = tokens \ TokensOf(u)
  /\ UNCHANGED <<account, otp, spent, clock, txn>>

\* The daily job.
CleanupExpired ==
  /\ \E tok \in tokens : Expired(tok)
  /\ tokens' = {tok \in tokens : ~Expired(tok)}
  /\ UNCHANGED <<account, otp, spent, clock, txn>>

----------------------------------------------------------------------------
(* Password reset.                                                         *)

Fresh(o) ==
  /\ o \notin spent
  /\ \A u \in Users : otp[u] # o
  /\ \A p \in Procs : txn[p].otp # o

ForgotPassword(u, o) ==
  /\ Exists(u) /\ Fresh(o)
  /\ otp' = [otp EXCEPT ![u] = o]
  /\ UNCHANGED <<account, tokens, spent, clock, txn>>

OtpExpires(u) ==
  /\ otp[u] # NoOtp
  /\ otp' = [otp EXCEPT ![u] = NoOtp]
  /\ UNCHANGED <<account, tokens, spent, clock, txn>>

ResetRead(p, u) ==
  /\ otp[u] # NoOtp /\ Exists(u)
  /\ Begin(p, [Idle EXCEPT !.pc = "reset", !.user = u, !.otp = otp[u]])
  /\ UNCHANGED <<store, clock>>

\* The rows are deleted but not committed; the key goes at once, whatever it
\* holds by now.
KeyKept(u) == otp
KeyBlanked(u) == [otp EXCEPT ![u] = {}]
KeyDeleted(u) == [otp EXCEPT ![u] = NoOtp]

ResetFlush(p) ==
  LET u == txn[p].user IN
  /\ txn[p].pc = "reset"
  /\ otp' = KeyDeleted(u)
  /\ txn' = [txn EXCEPT ![p].pc = "flushed", ![p].doomed = TokensOf(u)]
  /\ UNCHANGED <<account, tokens, spent, clock>>

ResetCommit(p) ==
  /\ txn[p].pc = "flushed"
  /\ tokens' = tokens \ txn[p].doomed
  /\ spent' = spent \cup {txn[p].otp}
  /\ End(p)
  /\ UNCHANGED <<account, otp, clock>>

----------------------------------------------------------------------------
Request(p) ==
  \/ \E u \in Users : RegisterRead(p, u) \/ Login(p, u) \/ ResetRead(p, u)
  \/ \E tok \in tokens : RefreshRead(p, tok)

Proceed(p) ==
  \/ RegisterCommit(p) \/ IssueTokens(p) \/ Rotate(p)
  \/ ResetFlush(p) \/ ResetCommit(p)
  \/ Abort(p)

Next ==
  \/ \E p \in Procs : Request(p) \/ Proceed(p)
  \/ \E u \in Users : \/ InviteStudent(u) \/ DeactivateMe(u) \/ DeleteStudent(u)
                      \/ DeleteAllSessions(u) \/ OtpExpires(u)
  \/ \E u \in Users, o \in Otps : ForgotPassword(u, o)
  \/ \E tok \in tokens : RefreshExpired(tok) \/ DeleteSession(tok)
  \/ CleanupExpired \/ Tick

Spec == Init /\ [][Next]_vars
----------------------------------------------------------------------------
(* What holds, whatever the interleaving.                                  *)

\* A code with which a password was reset is never in Redis again, however
\* often it was submitted and wherever the server stopped: the key goes before
\* the commit (service.py 180-183).  The price is a code lost when it stops
\* in between.
SpentOtpIsGone == \A u \in Users : otp[u] \notin spent

\* Requests that have passed the is_active check and will insert a row.
Admitted(u) == {p \in Procs : txn[p].pc \in {"issue", "rotate"} /\ txn[p].user = u}

\* A deactivated account drains: its sessions, with the ones still on their
\* way, only become fewer (service.py 109-110, 125-127).
DeactivationDrains ==
  [][\A u \in Users : account[u] = "inactive" =>
       Cardinality(TokensOf(u)') + Cardinality(Admitted(u)')
         <= Cardinality(TokensOf(u)) + Cardinality(Admitted(u))]_vars

\* Tokens that a refresh under way is going to replace.
InUse == UNION {txn[p].token : p \in Procs}
Held(u) == TokensOf(u) \ InUse

\* The sessions a user has or is about to get: a token and the refresh that
\* replaces it are one.
SessionsOf(u) == Cardinality(Held(u)) + Cardinality(Admitted(u))

LogsIn(p, u) == txn[p].pc # "issue" /\ txn'[p].pc = "issue" /\ txn'[p].user = u

\* A refresh begins with a token that another has loaded and not replaced yet.
Shares(p, u) ==
  /\ txn[p] = Idle /\ txn'[p].pc = "rotate" /\ txn'[p].user = u
  /\ \E q \in Procs \ {p} : txn[q].pc = "rotate" /\ txn[q].token = txn'[p].token

\* Refreshing never multiplies sessions, whatever logs out, fails, expires or
\* is swept meanwhile, but for the one window the code leaves open: a second
\* refresh that loads a token between another's read of it and its commit
\* (service.py 115-141).  Otherwise only a login or a registration adds one.
SplitsExplained ==
  [][\A u \in Users : SessionsOf(u)' > SessionsOf(u) =>
       \E p \in Procs : LogsIn(p, u) \/ Shares(p, u)]_vars

\* The old refresh token is invalid as soon as it has been used, as the API
\* document says: no refresh succeeds on a token that is gone
\* (Nobal_Edu_Backend.md 570).
RefreshOnLiveToken ==
  [][\A p \in Procs : txn[p].pc = "rotate" /\ txn'[p] = Idle /\ tokens' # tokens =>
       txn[p].token \subseteq tokens]_vars

\* Deactivation revokes all tokens, as deactivate_me's docstring says: a
\* deactivated account has none (users/service.py 119).
DeactivatedHasNoTokens ==
  \A u \in Users : account[u] = "inactive" => TokensOf(u) = {}
=============================================================================
