--------------------------- MODULE SessionsProofs ---------------------------
(***************************************************************************)
(* The invariants of module Sessions for any number of requests, accounts, *)
(* codes and seconds.                                                      *)
(***************************************************************************)
EXTENDS Sessions, FiniteSetTheorems, TLAPS

\* A code is in Redis for one account at most.
OneKeyPerCode ==
  \A u, v \in Users : otp[u] = otp[v] /\ otp[u] # NoOtp => u = v

\* A reset under way holds a code that no other account has, and that no
\* account has once the key is deleted.
Resetting(p) ==
  /\ txn[p].pc # "idle" => txn[p].user \in Users
  /\ txn[p].pc \in {"reset", "flushed"} => txn[p].otp \in Otps
  /\ txn[p].pc = "reset" => \A v \in Users \ {txn[p].user} : otp[v] # txn[p].otp
  /\ txn[p].pc = "flushed" => \A v \in Users : otp[v] # txn[p].otp

\* A refresh under way holds one token, of the user it serves; no other request
\* holds any.
Refreshing(p) ==
  IF txn[p].pc = "rotate"
  THEN \E tok \in Tokens : txn[p].token = {tok} /\ txn[p].user = tok[1]
  ELSE txn[p].token = {}

\* SpentOtpIsGone is not inductive: a commit spends the code of its request,
\* which must be known to be out of Redis by then, for good.  SplitsExplained
\* rests on Refreshing.
IInv ==
  /\ TypeOK
  /\ OneKeyPerCode
  /\ \A p \in Procs : Resetting(p)
  /\ SpentOtpIsGone
  /\ \A p \in Procs : Refreshing(p)

----------------------------------------------------------------------------
\* A process that serves nothing has a well-typed frame.
LEMMA IdleType == Idle \in Frame
  BY DEF Idle, Frame

\* What beginning and ending a request do to the frames.
LEMMA BeginFacts ==
  ASSUME TypeOK, NEW p \in Procs, NEW f \in Frame, Begin(p, f)
  PROVE  /\ txn' \in [Procs -> Frame] /\ txn'[p] = f
         /\ \A q \in Procs \ {p} : txn'[q] = txn[q]
  BY DEF TypeOK, Begin

\* The end of a request leaves the other frames as they are.
LEMMA EndFacts ==
  ASSUME TypeOK, NEW p \in Procs, End(p)
  PROVE  /\ txn' \in [Procs -> Frame] /\ txn'[p] = Idle
         /\ \A q \in Procs \ {p} : txn'[q] = txn[q]
  BY IdleType DEF TypeOK, End

\* No accounts, no tokens and idle processes satisfy the invariant.
LEMMA InitIInv == Init => IInv
  <1> SUFFICES ASSUME Init PROVE IInv
    OBVIOUS
  <1>1. TypeOK
    BY IdleType, ClockAssumption DEF Init, TypeOK, Seconds
  <1>2. \A p \in Procs : Resetting(p) /\ Refreshing(p)
    BY DEF Init, Resetting, Refreshing, Idle
  <1> QED
    BY <1>1, <1>2 DEF Init, IInv, OneKeyPerCode, SpentOtpIsGone

----------------------------------------------------------------------------
(* Each step preserves the invariant.                                      *)

\* A request that begins only reads.
LEMMA BeginStep ==
  ASSUME IInv, NEW p \in Procs, NEW f \in Frame, Begin(p, f), UNCHANGED <<store, clock>>,
         f.user \in Users, f.pc # "flushed",
         IF f.pc = "rotate" THEN \E tok \in Tokens : f.token = {tok} /\ f.user = tok[1]
                            ELSE f.token = {},
         f.pc = "reset" => f.otp = otp[f.user] /\ f.otp \in Otps
  PROVE  IInv'
  <1> USE DEF IInv, store
  <1>1. /\ txn' \in [Procs -> Frame] /\ txn'[p] = f
        /\ \A q \in Procs \ {p} : txn'[q] = txn[q]
    BY BeginFacts
  <1>2. TypeOK'
    BY <1>1 DEF TypeOK
  <1>3. ASSUME NEW q \in Procs
        PROVE  Resetting(q)'
    <2>1. CASE q = p
      <3>1. f.pc = "reset" => \A v \in Users \ {f.user} : otp[v] # f.otp
        BY SessionNullAssumption DEF OneKeyPerCode
      <3> QED
        BY <1>1, <2>1, <3>1 DEF Resetting
    <2>2. CASE q # p
      BY <1>1, <2>2 DEF Resetting
    <2> QED
      BY <2>1, <2>2
  <1>4. \A q \in Procs : Refreshing(q)'
    BY <1>1 DEF Refreshing
  <1> QED
    BY <1>2, <1>3, <1>4 DEF OneKeyPerCode, SpentOtpIsGone

\* A request that begins writes nothing.
LEMMA RequestStep ==
  ASSUME IInv, NEW p \in Procs, Request(p)
  PROVE  IInv'
  <1> USE DEF IInv
  <1>1. ASSUME NEW u \in Users, RegisterRead(p, u) \/ Login(p, u)
        PROVE  IInv'
    <2>1. PICK pc \in {"register", "issue"} :
            Begin(p, [[Idle EXCEPT !.pc = pc] EXCEPT !.user = u]) /\ UNCHANGED <<store, clock>>
      BY <1>1 DEF RegisterRead, Login
    <2> DEFINE f == [[Idle EXCEPT !.pc = pc] EXCEPT !.user = u]
    <2>2. f \in Frame /\ f.user = u /\ f.pc = pc /\ f.token = {}
      BY DEF Idle, Frame
    <2> HIDE DEF f
    <2> QED
      BY <2>1, <2>2, BeginStep DEF f
  <1>2. ASSUME NEW u \in Users, ResetRead(p, u)
        PROVE  IInv'
    <2> DEFINE f == [Idle EXCEPT !.pc = "reset", !.user = u, !.otp = otp[u]]
    <2>1. f \in Frame /\ f.user = u /\ f.pc = "reset" /\ f.otp = otp[u] /\ f.token = {}
      BY DEF Idle, Frame, TypeOK
    <2>2. otp[u] \in Otps
      BY <1>2 DEF ResetRead, TypeOK
    <2>3. Begin(p, f) /\ UNCHANGED <<store, clock>>
      BY <1>2 DEF ResetRead
    <2> HIDE DEF f
    <2> QED
      BY <2>1, <2>2, <2>3, BeginStep
  <1>3. ASSUME NEW tok \in tokens, RefreshRead(p, tok)
        PROVE  IInv'
    <2> DEFINE f == [Idle EXCEPT !.pc = "rotate", !.user = tok[1], !.token = {tok}]
    <2>1. /\ f \in Frame /\ f.user = tok[1] /\ f.pc = "rotate" /\ f.token = {tok}
          /\ tok \in Tokens /\ tok[1] \in Users
      BY DEF Idle, Frame, TypeOK, Tokens
    <2>2. Begin(p, f) /\ UNCHANGED <<store, clock>>
      BY <1>3 DEF RefreshRead
    <2> HIDE DEF f
    <2> QED
      BY <2>1, <2>2, BeginStep
  <1> QED
    BY <1>1, <1>2, <1>3 DEF Request

\* A request that ends with some rows deleted and perhaps one inserted.
LEMMA RowsEndStep ==
  ASSUME IInv, NEW p \in Procs, End(p), tokens' \subseteq Tokens,
         UNCHANGED <<account, otp, spent, clock>>
  PROVE  IInv'
  <1> USE DEF IInv
  <1>1. /\ txn' \in [Procs -> Frame] /\ txn'[p] = Idle
        /\ \A q \in Procs \ {p} : txn'[q] = txn[q]
    BY EndFacts
  <1>2. TypeOK'
    BY <1>1 DEF TypeOK
  <1>3. \A q \in Procs : Resetting(q)' /\ Refreshing(q)'
    BY <1>1 DEF Resetting, Refreshing, Idle
  <1> QED
    BY <1>2, <1>3 DEF OneKeyPerCode, SpentOtpIsGone

\* A step outside any open transaction that leaves codes and frames alone and
\* inserts no row.
LEMMA TablesStep ==
  ASSUME IInv, UNCHANGED <<otp, spent, txn>>, clock' \in Seconds,
         account' \in [Users -> {"none", "active", "inactive", "deleted"}],
         tokens' \subseteq tokens
  PROVE  IInv'
  <1> USE DEF IInv
  <1>1. TypeOK'
    BY DEF TypeOK
  <1>2. \A q \in Procs : Resetting(q)' /\ Refreshing(q)'
    BY DEF Resetting, Refreshing
  <1> QED
    BY <1>1, <1>2 DEF OneKeyPerCode, SpentOtpIsGone

\* A registration commits its account and goes on to issue a token.
LEMMA RegisterCommitStep ==
  ASSUME IInv, NEW p \in Procs, RegisterCommit(p)
  PROVE  IInv'
  <1> USE DEF IInv
  <1>1. PICK u \in Users : u = txn[p].user
    BY DEF RegisterCommit, Resetting
  <1>2. /\ txn' \in [Procs -> Frame] /\ txn'[p].pc = "issue" /\ txn'[p].user = u
        /\ txn'[p].token = txn[p].token /\ txn[p].pc = "register"
        /\ \A q \in Procs \ {p} : txn'[q] = txn[q]
    BY <1>1 DEF RegisterCommit, TypeOK, Frame
  <1>3. /\ account' = [account EXCEPT ![u] = "active"]
        /\ UNCHANGED <<tokens, otp, spent, clock>>
    BY <1>1 DEF RegisterCommit
  <1>4. TypeOK'
    BY <1>2, <1>3 DEF TypeOK
  <1>5. \A q \in Procs : Resetting(q)'
    BY <1>2, <1>3 DEF Resetting
  <1>6. \A q \in Procs : Refreshing(q)'
    BY <1>2 DEF Refreshing
  <1> QED
    BY <1>3, <1>4, <1>5, <1>6 DEF OneKeyPerCode, SpentOtpIsGone

\* Both ways a request inserts a row.
LEMMA InsertStep ==
  ASSUME IInv, NEW p \in Procs, IssueTokens(p) \/ Rotate(p)
  PROVE  IInv'
  <1> USE DEF IInv
  <1>1. PICK u \in Users : u = txn[p].user
    BY DEF IssueTokens, Rotate, Resetting
  <1>2. /\ End(p) /\ UNCHANGED <<account, otp, spent, clock>>
        /\ tokens' \subseteq tokens \cup {<<u, clock>>}
    BY <1>1 DEF IssueTokens, Rotate
  <1>3. tokens' \subseteq Tokens
    BY <1>2 DEF TypeOK, Tokens
  <1> QED
    BY <1>2, <1>3, RowsEndStep

\* The key goes: whatever code it held, the request's own is in Redis no more.
LEMMA ResetFlushStep ==
  ASSUME IInv, NEW p \in Procs, ResetFlush(p)
  PROVE  IInv'
  <1> USE DEF IInv
  <1>1. PICK u \in Users : u = txn[p].user
    BY DEF ResetFlush, Resetting
  <1>2. /\ otp' = [otp EXCEPT ![u] = NoOtp] /\ txn[p].pc = "reset"
        /\ UNCHANGED <<account, tokens, spent, clock>>
    BY <1>1 DEF ResetFlush, KeyDeleted
  <1>3. /\ txn' \in [Procs -> Frame] /\ txn'[p].pc = "flushed"
        /\ txn'[p].user = u /\ txn'[p].otp = txn[p].otp
        /\ txn'[p].token = txn[p].token
        /\ \A q \in Procs \ {p} : txn'[q] = txn[q]
    <2>1. TokensOf(u) \in SUBSET Tokens
      BY DEF TokensOf, TypeOK
    <2> QED
      BY <1>1, <2>1 DEF ResetFlush, TypeOK, Frame
  <1>4. TypeOK'
    BY <1>2, <1>3 DEF TypeOK
  <1>5. \A v \in Users : otp'[v] = otp[v] \/ otp'[v] = NoOtp
    BY <1>2 DEF TypeOK
  <1>6. ASSUME NEW q \in Procs
        PROVE  Resetting(q)'
    <2>1. CASE q = p
      <3>1. txn[p].otp \in Otps /\ \A v \in Users \ {u} : otp[v] # txn[p].otp
        BY <1>1, <1>2 DEF Resetting
      <3>2. \A v \in Users : otp'[v] # txn[p].otp
        BY <1>2, <3>1, SessionNullAssumption DEF TypeOK
      <3> QED
        BY <1>3, <2>1, <3>1, <3>2 DEF Resetting
    <2>2. CASE q # p
      BY <1>3, <1>5, <2>2, SessionNullAssumption DEF Resetting
    <2> QED
      BY <2>1, <2>2
  <1>7. OneKeyPerCode'
    BY <1>2, <1>5 DEF OneKeyPerCode
  <1>8. SpentOtpIsGone'
    <2>1. NoOtp \notin spent
      BY SessionNullAssumption DEF TypeOK
    <2> QED
      BY <1>2, <1>5, <2>1 DEF SpentOtpIsGone
  <1>9. \A q \in Procs : Refreshing(q)'
    BY <1>2, <1>3 DEF Refreshing
  <1> QED
    BY <1>4, <1>6, <1>7, <1>8, <1>9

\* A reset commits: the code is spent, and its key has gone before.
LEMMA ResetCommitStep ==
  ASSUME IInv, NEW p \in Procs, ResetCommit(p)
  PROVE  IInv'
  <1> USE DEF IInv, ResetCommit
  <1>1. /\ txn' \in [Procs -> Frame] /\ txn'[p] = Idle
        /\ \A q \in Procs \ {p} : txn'[q] = txn[q]
    BY EndFacts
  <1>2. txn[p].otp \in Otps /\ \A v \in Users : otp[v] # txn[p].otp
    BY DEF Resetting
  <1>3. TypeOK'
    BY <1>1, <1>2 DEF TypeOK
  <1>4. \A q \in Procs : Resetting(q)' /\ Refreshing(q)'
    BY <1>1 DEF Resetting, Refreshing, Idle
  <1>5. SpentOtpIsGone'
    BY <1>2 DEF SpentOtpIsGone
  <1> QED
    BY <1>3, <1>4, <1>5 DEF OneKeyPerCode

\* A new code replaces the old one and is no code already spent.
LEMMA ForgotPasswordStep ==
  ASSUME IInv, NEW u \in Users, NEW o \in Otps, ForgotPassword(u, o)
  PROVE  IInv'
  <1> USE DEF IInv, ForgotPassword, Fresh
  <1>1. TypeOK'
    BY DEF TypeOK
  <1>2. \A v \in Users : otp'[v] = otp[v] \/ (v = u /\ otp'[v] = o)
    BY DEF TypeOK
  <1>3. \A q \in Procs : Resetting(q)' /\ Refreshing(q)'
    BY <1>2 DEF Resetting, Refreshing
  <1>4. OneKeyPerCode'
    BY <1>2 DEF OneKeyPerCode
  <1>5. SpentOtpIsGone'
    BY <1>2 DEF SpentOtpIsGone
  <1> QED
    BY <1>1, <1>3, <1>4, <1>5

\* A code expires: one key goes.
LEMMA OtpExpiresStep ==
  ASSUME IInv, NEW u \in Users, OtpExpires(u)
  PROVE  IInv'
  <1> USE DEF IInv, OtpExpires
  <1>1. TypeOK'
    BY DEF TypeOK
  <1>2. \A v \in Users : otp'[v] = otp[v] \/ otp'[v] = NoOtp
    BY DEF TypeOK
  <1>3. \A q \in Procs : Resetting(q)' /\ Refreshing(q)'
    BY <1>2, SessionNullAssumption DEF Resetting, Refreshing
  <1>4. OneKeyPerCode'
    BY <1>2 DEF OneKeyPerCode
  <1>5. SpentOtpIsGone'
    BY <1>2, SessionNullAssumption DEF SpentOtpIsGone, TypeOK
  <1> QED
    BY <1>1, <1>3, <1>4, <1>5

\* An account comes, goes or is deactivated, perhaps with its rows.
LEMMA AccountStep ==
  ASSUME IInv, NEW u \in Users, InviteStudent(u) \/ DeactivateMe(u) \/ DeleteStudent(u)
  PROVE  IInv'
  <1> USE DEF IInv
  <1>1. PICK st \in {"active", "inactive", "deleted"} : account' = [account EXCEPT ![u] = st]
    BY DEF InviteStudent, DeactivateMe, DeleteStudent
  <1>2. tokens' \subseteq tokens /\ UNCHANGED <<otp, spent, clock, txn>>
    BY DEF InviteStudent, DeactivateMe, DeleteStudent
  <1> QED
    BY <1>1, <1>2, TablesStep DEF TypeOK

\* Deleting rows, and the clock.
LEMMA SweepStep ==
  ASSUME IInv, tokens' \subseteq tokens, clock' \in Seconds,
         UNCHANGED <<account, otp, spent, txn>>
  PROVE  IInv'
  BY TablesStep DEF IInv, TypeOK

\* The invariant is inductive.
LEMMA NextStep == IInv /\ [Next]_vars => IInv'
  <1> SUFFICES ASSUME IInv, [Next]_vars PROVE IInv'
    OBVIOUS
  <1>1. ASSUME NEW p \in Procs, Request(p)
        PROVE  IInv'
    BY <1>1, RequestStep
  <1>2. ASSUME NEW p \in Procs, Proceed(p)
        PROVE  IInv'
    <2>1. CASE RegisterCommit(p)
      BY <2>1, RegisterCommitStep
    <2>2. CASE IssueTokens(p) \/ Rotate(p)
      BY <2>2, InsertStep
    <2>3. CASE ResetFlush(p)
      BY <2>3, ResetFlushStep
    <2>4. CASE ResetCommit(p)
      BY <2>4, ResetCommitStep
    <2>5. CASE Abort(p)
      BY <2>5, RowsEndStep DEF Abort, store, IInv, TypeOK
    <2> QED
      BY <1>2, <2>1, <2>2, <2>3, <2>4, <2>5 DEF Proceed
  <1>3. ASSUME NEW u \in Users, InviteStudent(u) \/ DeactivateMe(u) \/ DeleteStudent(u)
        PROVE  IInv'
    BY <1>3, AccountStep
  <1>4. ASSUME NEW u \in Users, DeleteAllSessions(u)
        PROVE  IInv'
    BY <1>4, SweepStep DEF DeleteAllSessions, IInv, TypeOK
  <1>5. ASSUME NEW u \in Users, OtpExpires(u)
        PROVE  IInv'
    BY <1>5, OtpExpiresStep
  <1>6. ASSUME NEW u \in Users, NEW o \in Otps, ForgotPassword(u, o)
        PROVE  IInv'
    BY <1>6, ForgotPasswordStep
  <1>7. ASSUME NEW tok \in tokens, RefreshExpired(tok) \/ DeleteSession(tok)
        PROVE  IInv'
    BY <1>7, SweepStep DEF RefreshExpired, DeleteSession, IInv, TypeOK
  <1>8. CASE CleanupExpired
    BY <1>8, SweepStep DEF CleanupExpired, IInv, TypeOK
  <1>9. CASE Tick
    <2>1. clock' \in Seconds
      BY <1>9, ClockAssumption DEF Tick, IInv, TypeOK, Seconds
    <2> QED
      BY <1>9, <2>1, SweepStep DEF Tick, store
  <1>10. CASE UNCHANGED vars
    BY <1>10, SweepStep DEF vars, IInv, TypeOK
  <1> QED
    BY <1>1, <1>2, <1>3, <1>4, <1>5, <1>6, <1>7, <1>8, <1>9, <1>10 DEF Next

----------------------------------------------------------------------------
\* The invariant holds in every reachable state, whatever the number of requests,
\* accounts, codes and seconds (modules/auth, modules/users).
THEOREM Inductive == Spec => []IInv
  <1>1. IInv /\ [Next]_vars => IInv'
    BY NextStep
  <1> QED
    BY <1>1, InitIInv, PTL DEF Spec

\* Every column, key and local keeps its type, for any number of requests,
\* accounts, codes and seconds.
THEOREM TypeCorrect == Spec => []TypeOK
  <1>1. IInv => TypeOK
    BY DEF IInv
  <1> QED
    BY <1>1, Inductive, PTL

\* A code that has reset a password never works again, wherever requests meet
\* or the server stops between Redis and the commit (reset_password).
THEOREM SpentForGood == Spec => []SpentOtpIsGone
  <1>1. IInv => SpentOtpIsGone
    BY DEF IInv
  <1> QED
    BY <1>1, Inductive, PTL

----------------------------------------------------------------------------
(* What a deactivated account has left only becomes fewer.                  *)

\* There are finitely many requests and seconds.
LEMMA Finite ==
  ASSUME TypeOK, NEW u \in Users
  PROVE  IsFiniteSet(TokensOf(u)) /\ IsFiniteSet(Admitted(u))
  <1>1. IsFiniteSet({u} \X Seconds)
    <2>1. IsFiniteSet(Seconds)
      BY ClockAssumption, FS_Interval DEF Seconds
    <2>2. IsFiniteSet({u})
      BY FS_Singleton
    <2> QED
      BY <2>1, <2>2, FS_Product
  <1>2. TokensOf(u) \subseteq {u} \X Seconds
    BY DEF TokensOf, TypeOK, Tokens
  <1>3. Admitted(u) \subseteq Procs
    BY DEF Admitted
  <1> QED
    BY <1>1, <1>2, <1>3, ProcsAssumption, FS_Subset

\* A step loses sessions and requests on their way to one, or turns one such
\* request into a session.
Loses(u) == TokensOf(u)' \subseteq TokensOf(u) /\ Admitted(u)' \subseteq Admitted(u)
Turns(u) ==
  \E p \in Admitted(u), tok \in Tokens :
    /\ Admitted(u)' \subseteq Admitted(u) \ {p}
    /\ TokensOf(u)' \subseteq TokensOf(u) \cup {tok}

\* Of two finite sets that only lose elements, or of which one loses an element
\* and the other gains at most one, the sizes do not add up to more.
LEMMA Exchange ==
  ASSUME NEW S, NEW T, NEW S2, NEW T2, IsFiniteSet(S), IsFiniteSet(T),
         \/ S2 \subseteq S /\ T2 \subseteq T
         \/ \E x \in S : \E y : S2 \subseteq S \ {x} /\ T2 \subseteq T \cup {y}
  PROVE  /\ Cardinality(S) \in Nat /\ Cardinality(T) \in Nat
         /\ Cardinality(S2) \in Nat /\ Cardinality(T2) \in Nat
         /\ Cardinality(S2) + Cardinality(T2) <= Cardinality(S) + Cardinality(T)
  <1>1. CASE S2 \subseteq S /\ T2 \subseteq T
    <2>1. /\ IsFiniteSet(S2) /\ IsFiniteSet(T2)
          /\ Cardinality(S2) <= Cardinality(S) /\ Cardinality(T2) <= Cardinality(T)
      BY <1>1, FS_Subset
    <2>2. /\ Cardinality(S) \in Nat /\ Cardinality(T) \in Nat
          /\ Cardinality(S2) \in Nat /\ Cardinality(T2) \in Nat
      BY <2>1, FS_CardinalityType
    <2> QED
      BY <2>1, <2>2
  <1>2. CASE \E x \in S : \E y : S2 \subseteq S \ {x} /\ T2 \subseteq T \cup {y}
    <2> PICK x \in S : \E y : S2 \subseteq S \ {x} /\ T2 \subseteq T \cup {y}
      BY <1>2
    <2>1. PICK y : S2 \subseteq S \ {x} /\ T2 \subseteq T \cup {y}
      OBVIOUS
    <2>2. IsFiniteSet(S \ {x}) /\ Cardinality(S \ {x}) = Cardinality(S) - 1
      BY FS_RemoveElement
    <2>3. /\ IsFiniteSet(T \cup {y})
          /\ Cardinality(T \cup {y}) = IF y \in T THEN Cardinality(T) ELSE Cardinality(T) + 1
      BY FS_AddElement
    <2>4. /\ IsFiniteSet(S2) /\ Cardinality(S2) <= Cardinality(S \ {x})
          /\ IsFiniteSet(T2) /\ Cardinality(T2) <= Cardinality(T \cup {y})
      BY <2>1, <2>2, <2>3, FS_Subset
    <2>5. /\ Cardinality(S) \in Nat /\ Cardinality(T) \in Nat
          /\ Cardinality(S2) \in Nat /\ Cardinality(T2) \in Nat
      BY <2>4, FS_CardinalityType
    <2> QED
      BY <2>2, <2>3, <2>4, <2>5
  <1> QED
    BY <1>1, <1>2

\* Either way there are not more of both together.
LEMMA FewerLeft ==
  ASSUME TypeOK, NEW u \in Users, Loses(u) \/ Turns(u)
  PROVE  Cardinality(TokensOf(u)') + Cardinality(Admitted(u)')
           <= Cardinality(TokensOf(u)) + Cardinality(Admitted(u))
  <1> DEFINE T == TokensOf(u)
             A == Admitted(u)
             T2 == TokensOf(u)'
             A2 == Admitted(u)'
  <1>1. IsFiniteSet(T) /\ IsFiniteSet(A)
    BY Finite
  <1>2. \/ A2 \subseteq A /\ T2 \subseteq T
        \/ \E p \in A : \E tok : A2 \subseteq A \ {p} /\ T2 \subseteq T \cup {tok}
    BY DEF Loses, Turns
  <1> HIDE DEF T, A, T2, A2
  <1>3. /\ Cardinality(A) \in Nat /\ Cardinality(T) \in Nat
        /\ Cardinality(A2) \in Nat /\ Cardinality(T2) \in Nat
        /\ Cardinality(A2) + Cardinality(T2) <= Cardinality(A) + Cardinality(T)
    BY <1>1, <1>2, Exchange, Zenon
  <1>4. Cardinality(T2) + Cardinality(A2) <= Cardinality(T) + Cardinality(A)
    BY <1>3
  <1> QED
    BY <1>4 DEF T, A, T2, A2

\* A request that begins for an inactive account is not admitted.
LEMMA BeginDrains ==
  ASSUME IInv, NEW p \in Procs, Request(p), NEW u \in Users, account[u] = "inactive"
  PROVE  Loses(u)
  <1>1. UNCHANGED tokens
    BY DEF Request, RegisterRead, Login, ResetRead, RefreshRead, store
  <1>2. \A q \in Procs \ {p} : txn'[q] = txn[q]
    BY DEF Request, RegisterRead, Login, ResetRead, RefreshRead, Begin, IInv, TypeOK
  <1>3. p \notin Admitted(u)'
    <2>1. CASE \E v \in Users : RegisterRead(p, v) \/ ResetRead(p, v)
      <3>1. txn'[p].pc \in {"register", "reset"}
        BY <2>1 DEF RegisterRead, ResetRead, Begin, Idle, IInv, TypeOK
      <3> QED
        BY <3>1 DEF Admitted
    <2>2. ASSUME NEW v \in Users, Login(p, v)
          PROVE  p \notin Admitted(u)'
      <3>1. txn'[p].user = v /\ account[v] = "active"
        BY <2>2 DEF Login, MayHaveSession, Begin, Idle, IInv, TypeOK
      <3> QED
        BY <3>1 DEF Admitted
    <2>3. ASSUME NEW tok \in tokens, RefreshRead(p, tok)
          PROVE  p \notin Admitted(u)'
      <3>1. txn'[p].user = tok[1] /\ account[tok[1]] = "active"
        BY <2>3 DEF RefreshRead, MayHaveSession, Begin, Idle, IInv, TypeOK
      <3> QED
        BY <3>1 DEF Admitted
    <2> QED
      BY <2>1, <2>2, <2>3 DEF Request
  <1> QED
    BY <1>1, <1>2, <1>3 DEF Loses, TokensOf, Admitted

\* A request that inserts a row is one that was admitted; the others insert none,
\* and a registration commits for an account that is not there yet.
LEMMA ProceedDrains ==
  ASSUME IInv, NEW p \in Procs, Proceed(p), NEW u \in Users, account[u] = "inactive"
  PROVE  Loses(u) \/ Turns(u)
  <1> USE DEF IInv
  <1>1. CASE RegisterCommit(p)
    <2>1. txn[p].user # u /\ UNCHANGED tokens
      BY <1>1 DEF RegisterCommit
    <2>2. /\ \A q \in Procs \ {p} : txn'[q] = txn[q]
          /\ txn'[p].user = txn[p].user
      BY <1>1 DEF RegisterCommit, TypeOK, Frame
    <2> QED
      BY <2>1, <2>2 DEF Loses, TokensOf, Admitted
  <1>2. CASE IssueTokens(p) \/ Rotate(p)
    <2> DEFINE tok == <<txn[p].user, clock>>
    <2>1. /\ End(p) /\ txn[p].pc \in {"issue", "rotate"}
          /\ tokens' \subseteq tokens \cup {tok}
      BY <1>2 DEF IssueTokens, Rotate
    <2>2. txn[p].user \in Users /\ tok \in Tokens
      BY <2>1 DEF Resetting, TypeOK, Tokens
    <2>3. txn'[p].pc = "idle" /\ \A q \in Procs \ {p} : txn'[q] = txn[q]
      BY <2>1, EndFacts DEF Idle
    <2>4. Admitted(u)' \subseteq Admitted(u) \ {p}
      BY <2>3 DEF Admitted
    <2>5. CASE txn[p].user = u
      <3>1. p \in Admitted(u)
        BY <2>1, <2>5 DEF Admitted
      <3>2. TokensOf(u)' \subseteq TokensOf(u) \cup {tok}
        BY <2>1 DEF TokensOf
      <3> QED
        BY <2>2, <2>4, <3>1, <3>2 DEF Turns
    <2>6. CASE txn[p].user # u
      BY <2>1, <2>4, <2>6 DEF Loses, TokensOf
    <2> QED
      BY <2>5, <2>6
  <1>3. CASE ResetFlush(p)
    <2>1. /\ txn'[p].pc = "flushed" /\ UNCHANGED tokens
          /\ \A q \in Procs \ {p} : txn'[q] = txn[q]
      BY <1>3 DEF ResetFlush, TypeOK, Frame
    <2> QED
      BY <2>1 DEF Loses, TokensOf, Admitted
  <1>4. CASE ResetCommit(p) \/ Abort(p)
    <2>1. End(p) /\ tokens' \subseteq tokens
      BY <1>4 DEF ResetCommit, Abort, store
    <2>2. txn'[p].pc = "idle" /\ \A q \in Procs \ {p} : txn'[q] = txn[q]
      BY <2>1, EndFacts DEF Idle
    <2> QED
      BY <2>1, <2>2 DEF Loses, TokensOf, Admitted
  <1> QED
    BY <1>1, <1>2, <1>3, <1>4 DEF Proceed

\* Every step of the specification.
LEMMA StepDrains ==
  ASSUME IInv, [Next]_vars, NEW u \in Users, account[u] = "inactive"
  PROVE  Loses(u) \/ Turns(u)
  <1>1. ASSUME NEW p \in Procs, Request(p) \/ Proceed(p)
        PROVE  Loses(u) \/ Turns(u)
    BY <1>1, BeginDrains, ProceedDrains
  <1>2. CASE \/ \E v \in Users : \/ InviteStudent(v) \/ DeactivateMe(v) \/ DeleteStudent(v)
                                 \/ DeleteAllSessions(v) \/ OtpExpires(v)
             \/ \E v \in Users, o \in Otps : ForgotPassword(v, o)
             \/ \E tok \in tokens : RefreshExpired(tok) \/ DeleteSession(tok)
             \/ CleanupExpired \/ Tick \/ UNCHANGED vars
    <2>1. tokens' \subseteq tokens /\ UNCHANGED txn
      BY <1>2 DEF InviteStudent, DeactivateMe, DeleteStudent, DeleteAllSessions, OtpExpires,
                  ForgotPassword, RefreshExpired, DeleteSession, CleanupExpired, Tick,
                  store, vars
    <2> QED
      BY <2>1 DEF Loses, TokensOf, Admitted
  <1> QED
    BY <1>1, <1>2 DEF Next

\* However many requests are on their way, a deactivated account has never more
\* sessions left than it had with them: only a request admitted before the
\* deactivation adds one (login, refresh_tokens, deactivate_me).
THEOREM Drains == Spec => DeactivationDrains
  <1>1. IInv /\ [Next]_vars =>
          [\A u \in Users : account[u] = "inactive" =>
             Cardinality(TokensOf(u)') + Cardinality(Admitted(u)')
               <= Cardinality(TokensOf(u)) + Cardinality(Admitted(u))]_vars
    BY StepDrains, FewerLeft DEF IInv
  <1> QED
    BY <1>1, Inductive, PTL DEF Spec, DeactivationDrains

----------------------------------------------------------------------------
(* Refreshing does not multiply sessions.                                   *)

\* Requests and sessions only become fewer, or one of the one kind becomes one
\* of the other.
Keeps(u) ==
  \/ Held(u)' \subseteq Held(u) /\ Admitted(u)' \subseteq Admitted(u)
  \/ \E p \in Admitted(u) : \E tok :
       Admitted(u)' \subseteq Admitted(u) \ {p} /\ Held(u)' \subseteq Held(u) \cup {tok}
  \/ \E tok \in Held(u) : \E p :
       Held(u)' \subseteq Held(u) \ {tok} /\ Admitted(u)' \subseteq Admitted(u) \cup {p}

\* Then they are not more together.
LEMMA KeepsCount ==
  ASSUME TypeOK, NEW u \in Users, Keeps(u)
  PROVE  ~(SessionsOf(u)' > SessionsOf(u))
  <1> DEFINE H == Held(u)
             A == Admitted(u)
             H2 == Held(u)'
             A2 == Admitted(u)'
  <1>1. IsFiniteSet(H) /\ IsFiniteSet(A)
    BY Finite, FS_Subset DEF Held
  <1>2. \/ H2 \subseteq H /\ A2 \subseteq A
        \/ \E p \in A : \E tok : A2 \subseteq A \ {p} /\ H2 \subseteq H \cup {tok}
        \/ \E tok \in H : \E p : H2 \subseteq H \ {tok} /\ A2 \subseteq A \cup {p}
    BY DEF Keeps
  <1>3. SessionsOf(u) = Cardinality(H) + Cardinality(A)
    BY DEF SessionsOf
  <1>4. SessionsOf(u)' = Cardinality(H2) + Cardinality(A2)
    BY DEF SessionsOf
  <1> HIDE DEF H, A, H2, A2
  <1>5. CASE \/ H2 \subseteq H /\ A2 \subseteq A
             \/ \E p \in A : \E tok : A2 \subseteq A \ {p} /\ H2 \subseteq H \cup {tok}
    <2>1. /\ Cardinality(A) \in Nat /\ Cardinality(H) \in Nat
          /\ Cardinality(A2) \in Nat /\ Cardinality(H2) \in Nat
          /\ Cardinality(A2) + Cardinality(H2) <= Cardinality(A) + Cardinality(H)
      BY <1>1, <1>5, Exchange, Zenon
    <2> QED
      BY <1>3, <1>4, <2>1
  <1>6. CASE \E tok \in H : \E p : H2 \subseteq H \ {tok} /\ A2 \subseteq A \cup {p}
    <2>1. /\ Cardinality(H) \in Nat /\ Cardinality(A) \in Nat
          /\ Cardinality(H2) \in Nat /\ Cardinality(A2) \in Nat
          /\ Cardinality(H2) + Cardinality(A2) <= Cardinality(H) + Cardinality(A)
      BY <1>1, <1>6, Exchange, Zenon
    <2> QED
      BY <1>3, <1>4, <2>1
  <1> QED
    BY <1>2, <1>5, <1>6

\* A request that begins is counted only if it logs in, shares a token with
\* another refresh, or takes its token out of the others.
LEMMA BeginKeeps ==
  ASSUME IInv, NEW p \in Procs, Request(p), NEW u \in Users
  PROVE  Keeps(u) \/ LogsIn(p, u) \/ Shares(p, u)
  <1> USE DEF IInv
  <1>1. /\ UNCHANGED tokens /\ txn[p] = Idle
        /\ \A q \in Procs \ {p} : txn'[q] = txn[q]
    BY DEF Request, RegisterRead, Login, ResetRead, RefreshRead, Begin, store, TypeOK
  <1>2. txn[p].token = {} /\ txn[p].pc = "idle"
    BY <1>1 DEF Idle
  <1>3. InUse' = InUse \cup txn'[p].token
    BY <1>1, <1>2 DEF InUse
  <1>4. Held(u)' \subseteq Held(u)
    BY <1>1, <1>3 DEF Held, TokensOf
  <1>5. CASE \E v \in Users : RegisterRead(p, v) \/ ResetRead(p, v)
    <2>1. txn'[p].pc \in {"register", "reset"}
      BY <1>5 DEF RegisterRead, ResetRead, Begin, Idle, TypeOK
    <2>2. Admitted(u)' \subseteq Admitted(u)
      BY <1>1, <2>1 DEF Admitted
    <2> QED
      BY <1>4, <2>2 DEF Keeps
  <1>6. ASSUME NEW v \in Users, Login(p, v)
        PROVE  Keeps(u) \/ LogsIn(p, u)
    <2>1. txn'[p].pc = "issue" /\ txn'[p].user = v
      BY <1>6 DEF Login, Begin, Idle, TypeOK
    <2>2. CASE v = u
      BY <1>2, <2>1, <2>2 DEF LogsIn
    <2>3. CASE v # u
      <3>1. Admitted(u)' \subseteq Admitted(u)
        BY <1>1, <2>1, <2>3 DEF Admitted
      <3> QED
        BY <1>4, <3>1 DEF Keeps
    <2> QED
      BY <2>2, <2>3
  <1>7. ASSUME NEW tok \in tokens, RefreshRead(p, tok)
        PROVE  Keeps(u) \/ Shares(p, u)
    <2>1. /\ txn'[p].pc = "rotate" /\ txn'[p].user = tok[1] /\ txn'[p].token = {tok}
      BY <1>7 DEF RefreshRead, Begin, Idle, TypeOK
    <2>2. CASE tok[1] # u
      <3>1. Admitted(u)' \subseteq Admitted(u)
        BY <1>1, <2>1, <2>2 DEF Admitted
      <3> QED
        BY <1>4, <3>1 DEF Keeps
    <2>3. CASE tok[1] = u /\ tok \in InUse
      <3>1. PICK q \in Procs : tok \in txn[q].token
        BY <2>3 DEF InUse
      <3>2. q # p /\ txn[q].pc = "rotate" /\ txn[q].token = {tok}
        BY <1>2, <3>1 DEF Refreshing
      <3> QED
        BY <1>1, <2>1, <2>3, <3>2 DEF Shares
    <2>4. CASE tok[1] = u /\ tok \notin InUse
      <3>1. tok \in Held(u)
        BY <2>4 DEF Held, TokensOf
      <3>2. Held(u)' \subseteq Held(u) \ {tok}
        BY <1>3, <1>4, <2>1 DEF Held
      <3>3. Admitted(u)' \subseteq Admitted(u) \cup {p}
        BY <1>1 DEF Admitted
      <3> QED
        BY <3>1, <3>2, <3>3 DEF Keeps
    <2> QED
      BY <2>2, <2>3, <2>4
  <1> QED
    BY <1>5, <1>6, <1>7 DEF Request

\* A request that ends gives up its place; what it stands for afterwards is the
\* row it inserts, or the token it was to replace and has left there.
LEMMA EndKeeps ==
  ASSUME IInv, NEW p \in Procs, End(p), NEW u \in Users, NEW tok \in Tokens,
         \A t \in Held(u)' : t \in Held(u) \/ t = tok,
         txn[p].pc \in {"issue", "rotate"}, tok[1] = txn[p].user
  PROVE  Keeps(u)
  <1>1. txn'[p].pc = "idle" /\ \A q \in Procs \ {p} : txn'[q] = txn[q]
    BY EndFacts DEF Idle, IInv
  <1>2. Admitted(u)' \subseteq Admitted(u) \ {p}
    BY <1>1 DEF Admitted
  <1>3. CASE txn[p].user = u
    <2>1. p \in Admitted(u)
      BY <1>3 DEF Admitted
    <2>2. Held(u)' \subseteq Held(u) \cup {tok}
      OBVIOUS
    <2> QED
      BY <1>2, <2>1, <2>2 DEF Keeps
  <1>4. CASE txn[p].user # u
    <2>1. Held(u)' \subseteq Held(u)
      BY <1>4 DEF Held, TokensOf
    <2> QED
      BY <1>2, <2>1 DEF Keeps
  <1> QED
    BY <1>3, <1>4

\* A request that goes on: only a registration, once committed, logs in.
LEMMA ProceedKeeps ==
  ASSUME IInv, NEW p \in Procs, Proceed(p), NEW u \in Users
  PROVE  Keeps(u) \/ LogsIn(p, u)
  <1> USE DEF IInv
  <1>1. CASE RegisterCommit(p)
    <2>1. /\ \A q \in Procs \ {p} : txn'[q] = txn[q]
          /\ txn[p].pc = "register" /\ txn'[p].pc = "issue"
          /\ txn'[p].user = txn[p].user /\ txn'[p].token = txn[p].token
          /\ UNCHANGED tokens
      BY <1>1 DEF RegisterCommit, TypeOK, Frame
    <2>2. CASE txn[p].user = u
      BY <2>1, <2>2 DEF LogsIn
    <2>3. CASE txn[p].user # u
      <3>1. Held(u)' = Held(u)
        BY <2>1 DEF Held, TokensOf, InUse
      <3>2. Admitted(u)' \subseteq Admitted(u)
        BY <2>1, <2>3 DEF Admitted
      <3> QED
        BY <3>1, <3>2 DEF Keeps
    <2> QED
      BY <2>2, <2>3
  <1>2. CASE IssueTokens(p) \/ Rotate(p)
    <2> DEFINE tok == <<txn[p].user, clock>>
    <2>1. /\ End(p) /\ txn[p].pc \in {"issue", "rotate"}
          /\ \A t \in tokens' : t = tok \/ t \in tokens \ txn[p].token
      BY <1>2 DEF IssueTokens, Rotate, Refreshing
    <2>2. tok \in Tokens /\ tok[1] = txn[p].user
      BY <2>1 DEF Resetting, TypeOK, Tokens
    <2>3. InUse \subseteq InUse' \cup txn[p].token
      BY <2>1, EndFacts DEF InUse
    <2>4. \A t \in Held(u)' : t \in Held(u) \/ t = tok
      BY <2>1, <2>3 DEF Held, TokensOf
    <2> HIDE DEF tok
    <2> QED
      BY <2>1, <2>2, <2>4, EndKeeps
  <1>3. CASE Abort(p) /\ txn[p].pc = "rotate"
    <2>1. End(p) /\ UNCHANGED tokens
      BY <1>3 DEF Abort, store
    <2>2. PICK tok \in Tokens : txn[p].token = {tok} /\ txn[p].user = tok[1]
      BY <1>3 DEF Refreshing
    <2>3. InUse \subseteq InUse' \cup {tok}
      BY <2>1, <2>2, EndFacts DEF InUse
    <2>4. \A t \in Held(u)' : t \in Held(u) \/ t = tok
      BY <2>1, <2>3 DEF Held, TokensOf
    <2> QED
      BY <1>3, <2>1, <2>2, <2>4, EndKeeps
  <1>4. CASE ResetFlush(p)
    <2>1. /\ \A q \in Procs \ {p} : txn'[q] = txn[q]
          /\ txn'[p].pc = "flushed" /\ txn'[p].token = txn[p].token
          /\ UNCHANGED tokens
      BY <1>4 DEF ResetFlush, TypeOK, Frame
    <2>2. Held(u)' = Held(u)
      BY <2>1 DEF Held, TokensOf, InUse
    <2>3. Admitted(u)' \subseteq Admitted(u)
      BY <2>1 DEF Admitted
    <2> QED
      BY <2>2, <2>3 DEF Keeps
  <1>5. CASE ResetCommit(p) \/ (Abort(p) /\ txn[p].pc # "rotate")
    <2>1. End(p) /\ tokens' \subseteq tokens /\ txn[p].token = {}
      BY <1>5 DEF ResetCommit, Abort, store, Refreshing
    <2>2. txn'[p] = Idle /\ \A q \in Procs \ {p} : txn'[q] = txn[q]
      BY <2>1, EndFacts
    <2>3. InUse \subseteq InUse'
      BY <2>1, <2>2 DEF InUse
    <2>4. Held(u)' \subseteq Held(u)
      BY <2>1, <2>3 DEF Held, TokensOf
    <2>5. Admitted(u)' \subseteq Admitted(u)
      BY <2>2 DEF Admitted, Idle
    <2> QED
      BY <2>4, <2>5 DEF Keeps
  <1> QED
    BY <1>1, <1>2, <1>3, <1>4, <1>5 DEF Proceed

\* Every step of the specification.
LEMMA StepKeeps ==
  ASSUME IInv, [Next]_vars, NEW u \in Users
  PROVE  Keeps(u) \/ \E p \in Procs : LogsIn(p, u) \/ Shares(p, u)
  <1>1. ASSUME NEW p \in Procs, Request(p) \/ Proceed(p)
        PROVE  Keeps(u) \/ LogsIn(p, u) \/ Shares(p, u)
    BY <1>1, BeginKeeps, ProceedKeeps
  <1>2. CASE \/ \E v \in Users : \/ InviteStudent(v) \/ DeactivateMe(v) \/ DeleteStudent(v)
                                 \/ DeleteAllSessions(v) \/ OtpExpires(v)
             \/ \E v \in Users, o \in Otps : ForgotPassword(v, o)
             \/ \E tok \in tokens : RefreshExpired(tok) \/ DeleteSession(tok)
             \/ CleanupExpired \/ Tick \/ UNCHANGED vars
    <2>1. tokens' \subseteq tokens /\ UNCHANGED txn
      BY <1>2 DEF InviteStudent, DeactivateMe, DeleteStudent, DeleteAllSessions, OtpExpires,
                  ForgotPassword, RefreshExpired, DeleteSession, CleanupExpired, Tick,
                  store, vars
    <2>2. Held(u)' \subseteq Held(u) /\ Admitted(u)' \subseteq Admitted(u)
      BY <2>1 DEF Held, TokensOf, InUse, Admitted
    <2> QED
      BY <2>2 DEF Keeps
  <1> QED
    BY <1>1, <1>2 DEF Next

\* For any number of requests, accounts and seconds, whatever is interrupted,
\* deleted or swept: only a login, a registration, or a second refresh that
\* loads a token another has not replaced yet gives a user one session more
\* (refresh_tokens, _issue_tokens).
THEOREM NoSplit == Spec => SplitsExplained
  <1>1. IInv /\ [Next]_vars =>
          [\A u \in Users : SessionsOf(u)' > SessionsOf(u) =>
             \E p \in Procs : LogsIn(p, u) \/ Shares(p, u)]_vars
    BY StepKeeps, KeepsCount DEF IInv
  <1> QED
    BY <1>1, Inductive, PTL DEF Spec, SplitsExplained
=============================================================================
