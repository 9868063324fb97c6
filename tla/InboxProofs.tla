----------------------------- MODULE InboxProofs -----------------------------
(***************************************************************************)
(* What people are told.  The services tell it in order, for any number of  *)
(* requests and any limit of retries (Inbox).  The scheduled jobs remind of *)
(* what the rule says, for any number of workers, rows, days and failures   *)
(* (Reminders); the two modules share neither state nor steps.              *)
(***************************************************************************)
EXTENDS Inbox, Reminders, FiniteSetTheorems, TLAPS

\* What a service may have left to do.
Remaining ==
  {<<"student", "adviser", "commit">>, <<"adviser", "commit">>, <<"commit">>,
   <<"commit", "student", "adviser">>, <<"commit", "student">>,
   <<"student", "adviser">>, <<"student">>, <<"adviser">>}

Frame == [pc    : {"idle", "query", "store", "invalidate", "tell"},
          key   : Keys,
          value : Nat,
          event : Events \cup {"none"},
          plan  : Remaining \cup {<<>>}]

Mail == [state : {"none", "queued", "sent", "given up", "lost"}, retries : Nat]

Typed ==
  /\ told \subseteq Events /\ faqs \in Nat
  /\ mails \in [Mails -> Mail]
  /\ proc \in [Procs -> Frame]

\* Announced is not inductive: what a service has left to do must agree with
\* what it has done.
Queued(e, u) == mails[<<e, u>>] # Unsent

Telling(p) ==
  LET e == proc[p].event
      rest == proc[p].plan IN
  /\ e \in Events
  /\ IF e = "booked"
     THEN \/ rest = <<"student", "adviser", "commit">>
          \/ rest = <<"adviser", "commit">> /\ Queued(e, "student")
          \/ rest = <<"commit">> /\ Queued(e, "student") /\ Queued(e, "adviser")
     ELSE \/ rest \in {<<"commit", "student", "adviser">>, <<"commit", "student">>}
          \/ rest \in {<<"student", "adviser">>, <<"student">>, <<"adviser">>} /\ e \in told

AllTelling == \A p \in Procs : proc[p].pc = "tell" => Telling(p)

IInv == Typed /\ AllTelling /\ Announced

----------------------------------------------------------------------------
\* A process that serves nothing, and a mail that was never queued.
LEMMA NothingType == Idle \in Frame /\ Unsent \in Mail
  BY DEF Idle, Frame, Keys, Unsent, Mail

\* What is counted or listed is a number.
LEMMA SourceType ==
  ASSUME Typed, NEW k \in Keys
  PROVE  Source(k) \in Nat
  <1> DEFINE all == {"booked", "cancelled", "updated"}
  <1>1. IsFiniteSet(all)
    <2>1. IsFiniteSet({"booked"}) /\ IsFiniteSet({"cancelled"}) /\ IsFiniteSet({"updated"})
      BY FS_Singleton
    <2>2. IsFiniteSet({"booked"} \cup {"cancelled"})
      BY <2>1, FS_Union
    <2>3. IsFiniteSet(({"booked"} \cup {"cancelled"}) \cup {"updated"})
      BY <2>1, <2>2, FS_Union
    <2>4. all = ({"booked"} \cup {"cancelled"}) \cup {"updated"}
      OBVIOUS
    <2> QED
      BY <2>3, <2>4
  <1>2. IsFiniteSet(told \ read)
    BY <1>1, FS_Subset, EventsAssumption DEF Typed
  <1> QED
    BY <1>2, FS_CardinalityType DEF Source, Typed, Keys

\* The statements of the plans, and what is left after each.
LEMMA PlanFacts ==
  /\ Head(<<"student", "adviser", "commit">>) = "student"
  /\ Tail(<<"student", "adviser", "commit">>) = <<"adviser", "commit">>
  /\ Head(<<"adviser", "commit">>) = "adviser" /\ Tail(<<"adviser", "commit">>) = <<"commit">>
  /\ Head(<<"commit">>) = "commit" /\ Tail(<<"commit">>) = <<>>
  /\ Head(<<"commit", "student", "adviser">>) = "commit"
  /\ Tail(<<"commit", "student", "adviser">>) = <<"student", "adviser">>
  /\ Head(<<"commit", "student">>) = "commit" /\ Tail(<<"commit", "student">>) = <<"student">>
  /\ Head(<<"student", "adviser">>) = "student" /\ Tail(<<"student", "adviser">>) = <<"adviser">>
  /\ Head(<<"student">>) = "student" /\ Tail(<<"student">>) = <<>>
  /\ Head(<<"adviser">>) = "adviser" /\ Tail(<<"adviser">>) = <<>>
  OBVIOUS

\* Nothing has happened.
LEMMA InitIInv == Init => IInv
  <1> SUFFICES ASSUME Init PROVE IInv
    OBVIOUS
  <1>1. Typed
    BY NothingType DEF Init, Typed
  <1>2. AllTelling
    BY DEF Init, AllTelling, Idle
  <1>3. Announced
    BY DEF Init, Announced, Mails
  <1> QED
    BY <1>1, <1>2, <1>3 DEF IInv

\* A step that commits no notice, queues no mail and gives no process anything
\* to tell.
LEMMA QuietStep ==
  ASSUME IInv, Typed', told' = told,
         \A m \in Mails : mails'[m] = Unsent <=> mails[m] = Unsent,
         \A p \in Procs : proc'[p] = proc[p] \/ proc'[p].pc # "tell"
  PROVE  IInv'
  <1>1. \A e \in Events, u \in Users : Queued(e, u)' <=> Queued(e, u)
    BY DEF Queued, Mails
  <1>2. AllTelling'
    <2> SUFFICES ASSUME NEW p \in Procs, proc'[p].pc = "tell" PROVE Telling(p)'
      BY DEF AllTelling
    <2>1. proc'[p] = proc[p] /\ Telling(p)
      BY DEF IInv, AllTelling
    <2> QED
      BY <1>1, <2>1 DEF Telling, Users
  <1>3. Announced'
    BY <1>1 DEF IInv, Announced, Queued
  <1> QED
    BY <1>2, <1>3 DEF IInv

\* Readers, writers and their ends.
LEMMA CacheStep ==
  ASSUME IInv, NEW p \in Procs,
         \/ \E k \in Keys : Miss(p, k)
         \/ Query(p) \/ Store(p) \/ Invalidate(p) \/ Abort(p) \/ ChangeFaqs(p)
         \/ \E E \in SUBSET Events : MarkRead(p, E)
  PROVE  IInv'
  <1> USE DEF IInv
  <1> DEFINE Quiet == /\ told' = told /\ mails' = mails /\ faqs' \in Nat
                      /\ \E f \in Frame : f.pc # "tell" /\ proc' = [proc EXCEPT ![p] = f]
  <1>1. Quiet
    <2>1. ASSUME NEW k \in Keys, Miss(p, k)
          PROVE  Quiet
      BY <2>1, NothingType DEF Miss, Begin, tables, Typed, Idle, Frame
    <2>2. CASE Query(p)
      <3>1. proc[p] \in Frame /\ Source(proc[p].key) \in Nat
        BY SourceType DEF Typed, Frame
      <3> QED
        BY <2>2, <3>1 DEF Query, Goto, tables, Typed, Frame
    <2>3. CASE Store(p) \/ Invalidate(p) \/ Abort(p)
      BY <2>3, NothingType DEF Store, Invalidate, Abort, End, Goto, tables, Typed, Idle
    <2>4. CASE ChangeFaqs(p)
      <3>1. told' = told /\ mails' = mails /\ faqs' \in Nat
        BY <2>4 DEF ChangeFaqs, Typed
      <3> QED
        BY <2>4, <3>1, NothingType DEF ChangeFaqs, Changed, Begin, Idle, Frame, Keys
    <2>5. ASSUME NEW E \in SUBSET Events, MarkRead(p, E)
          PROVE  Quiet
      BY <2>5 DEF MarkRead, Changed, Begin, Typed, Idle, Frame, Keys
    <2> QED
      BY <2>1, <2>2, <2>3, <2>4, <2>5
  <1>2. Typed'
    BY <1>1 DEF Typed
  <1> QED
    BY <1>1, <1>2, QuietStep DEF Typed

\* Mails that are tried, sent, put back or lost stay mails that were queued.
LEMMA MailStep ==
  ASSUME IInv, NEW m \in Mails, Attempt(m)
  PROVE  IInv'
  <1> USE DEF IInv
  <1>1. PICK mail \in Mail : mail # Unsent /\ Waiting(m) /\ Becomes(m, mail)
    <2>1. mails[m] \in Mail
      BY DEF Typed
    <2>2. CASE Send(m) \/ Lose(m)
      BY <2>1, <2>2 DEF Send, Lose, Waiting, Mail, Unsent
    <2>3. CASE Raise(m)
      <3>1. CASE mails[m].retries < MaxRetries
        <4>1. mails[m].retries \in Nat /\ mails[m].retries + 1 \in Nat
          <5>1. mails[m].retries \in Nat
            BY <2>1 DEF Mail
          <5>2. \A i \in Nat : i + 1 \in Nat
            OBVIOUS
          <5> QED
            BY <5>1, <5>2
        <4>2. Becomes(m, [mails[m] EXCEPT !.retries = mails[m].retries + 1]) /\ Waiting(m)
          BY <2>3, <3>1 DEF Raise
        <4>3. [mails[m] EXCEPT !.retries = mails[m].retries + 1] \in Mail
          BY <2>1, <4>1 DEF Mail
        <4>4. [mails[m] EXCEPT !.retries = mails[m].retries + 1] # Unsent
          BY <2>1, <4>2 DEF Mail, Unsent, Waiting
        <4> QED
          BY <4>2, <4>3, <4>4
      <3>2. CASE ~(mails[m].retries < MaxRetries)
        BY <2>1, <2>3, <3>2 DEF Raise, Waiting, Mail, Unsent
      <3> QED
        BY <3>1, <3>2
    <2> QED
      BY <2>2, <2>3 DEF Attempt
  <1>2. told' = told /\ faqs' = faqs /\ proc' = proc /\ mails' = [mails EXCEPT ![m] = mail]
    BY <1>1 DEF Becomes, tables
  <1>3. Typed'
    BY <1>2 DEF Typed
  <1>4. \A n \in Mails : mails'[n] = Unsent <=> mails[n] = Unsent
    BY <1>1, <1>2 DEF Typed, Waiting, Unsent
  <1> QED
    BY <1>2, <1>3, <1>4, QuietStep

\* An entry that expires.
LEMMA ExpireStep ==
  ASSUME IInv, NEW k \in Keys, Expire(k)
  PROVE  IInv'
  <1>1. UNCHANGED <<told, faqs, mails, proc>>
    BY DEF Expire, tables
  <1>2. Typed'
    BY <1>1 DEF IInv, Typed
  <1> QED
    BY <1>1, <1>2, QuietStep

\* Whoever still tells agrees with more notices and more mails, too.
LEMMA OthersTelling ==
  ASSUME IInv, NEW p \in Procs, told \subseteq told',
         \A m \in Mails : mails[m] # Unsent => mails'[m] # Unsent,
         \A q \in Procs \ {p} : proc'[q] = proc[q],
         proc'[p].pc = "tell" => Telling(p)'
  PROVE  AllTelling'
  <1> SUFFICES ASSUME NEW q \in Procs \ {p}, proc'[q].pc = "tell" PROVE Telling(q)'
    BY DEF AllTelling
  <1>1. proc'[q] = proc[q] /\ Telling(q)
    BY DEF IInv, AllTelling
  <1>2. \A e \in Events, u \in Users : Queued(e, u) => Queued(e, u)'
    BY DEF Queued, Mails
  <1> QED
    BY <1>1, <1>2 DEF Telling, Users

\* A service begins to tell: its whole plan is ahead of it.
LEMMA TellStep ==
  ASSUME IInv, NEW p \in Procs, NEW e \in Events, Tell(p, e)
  PROVE  IInv'
  <1> USE DEF IInv
  <1>1. /\ told' = told /\ mails' = mails /\ faqs' = faqs
        /\ proc' = [proc EXCEPT ![p] = [Idle EXCEPT !.pc = "tell", !.event = e, !.plan = Plan(e)]]
    BY DEF Tell, Begin, tables
  <1>2. e \in {"booked", "cancelled", "updated"}
    BY EventsAssumption
  <1>3. Plan(e) \in Remaining
    BY <1>2 DEF Plan, Booked, Cancelled, Updated, Remaining
  <1>4. Typed'
    BY <1>1, <1>3 DEF Typed, Idle, Frame, Keys
  <1>5. proc'[p].event = e /\ proc'[p].plan = Plan(e)
    BY <1>1 DEF Typed, Idle
  <1>6. Telling(p)'
    BY <1>2, <1>5 DEF Telling, Plan, Booked, Cancelled, Updated
  <1>7. AllTelling'
    BY <1>1, <1>6, OthersTelling DEF Typed
  <1> QED
    BY <1>1, <1>4, <1>7 DEF Announced

\* What is left after a statement.
LEMMA DoneFacts ==
  ASSUME Typed, NEW p \in Procs, proc[p].pc = "tell", proc[p].plan # <<>>, Done(p)
  PROVE  /\ proc' \in [Procs -> Frame]
         /\ \A q \in Procs \ {p} : proc'[q] = proc[q]
         /\ proc'[p].pc = "tell" => /\ proc'[p].plan = Tail(proc[p].plan)
                                    /\ proc'[p].plan # <<>>
                                    /\ proc'[p].event = proc[p].event
  <1>1. proc[p] \in Frame
    BY DEF Typed
  <1>2. CASE Tail(proc[p].plan) = <<>>
    BY <1>2, NothingType DEF Done, End, Goto, Typed, Idle
  <1>3. CASE Tail(proc[p].plan) # <<>>
    <2>1. proc' = [proc EXCEPT ![p] = [proc[p] EXCEPT !.plan = Tail(proc[p].plan)]]
      BY <1>3 DEF Done, Goto
    <2>2. Tail(proc[p].plan) \in Remaining
      BY <1>1, <1>3, PlanFacts DEF Frame, Remaining
    <2>3. [proc[p] EXCEPT !.plan = Tail(proc[p].plan)] \in Frame
      BY <1>1, <2>2 DEF Frame
    <2> QED
      BY <1>1, <1>3, <2>1, <2>3 DEF Typed, Frame
  <1> QED
    BY <1>2, <1>3

\* The notices of an event are committed.
LEMMA CommitStep ==
  ASSUME IInv, NEW p \in Procs, CommitNotices(p)
  PROVE  IInv'
  <1> USE DEF IInv
  <1> DEFINE e == proc[p].event
             rest == proc[p].plan
  <1>1. Telling(p) /\ e \in Events /\ Head(rest) = "commit"
    BY DEF CommitNotices, AllTelling, Telling
  <1>2. rest \in {<<"commit">>, <<"commit", "student", "adviser">>, <<"commit", "student">>}
    BY <1>1, PlanFacts DEF Telling
  <1>3. told' = told \cup {e} /\ mails' = mails /\ faqs' = faqs /\ Done(p)
    BY DEF CommitNotices
  <1>4. /\ proc' \in [Procs -> Frame]
        /\ \A q \in Procs \ {p} : proc'[q] = proc[q]
        /\ proc'[p].pc = "tell" => /\ proc'[p].plan = Tail(rest) /\ proc'[p].plan # <<>>
                                   /\ proc'[p].event = e
    BY <1>2, <1>3, DoneFacts DEF CommitNotices
  <1>5. Typed'
    BY <1>1, <1>3, <1>4 DEF Typed
  <1>6. proc'[p].pc = "tell" => Telling(p)'
    <2> SUFFICES ASSUME proc'[p].pc = "tell" PROVE Telling(p)'
      OBVIOUS
    <2>1. rest \in {<<"commit", "student", "adviser">>, <<"commit", "student">>} /\ e # "booked"
      BY <1>1, <1>2, <1>4, PlanFacts DEF Telling
    <2>2. proc'[p].plan \in {<<"student", "adviser">>, <<"student">>}
      BY <1>4, <2>1, PlanFacts
    <2> QED
      BY <1>1, <1>3, <1>4, <2>1, <2>2 DEF Telling
  <1>7. AllTelling'
    BY <1>3, <1>4, <1>6, OthersTelling
  <1>8. e = "booked" => \A u \in Users : mails[<<e, u>>] # Unsent
    BY <1>1, <1>2, PlanFacts DEF Telling, Queued, Users
  <1>9. Announced'
    BY <1>1, <1>3, <1>8 DEF Announced
  <1> QED
    BY <1>5, <1>7, <1>9

\* A mail is queued.
LEMMA QueueStep ==
  ASSUME IInv, NEW p \in Procs, QueueMail(p)
  PROVE  IInv'
  <1> USE DEF IInv
  <1> DEFINE e == proc[p].event
             rest == proc[p].plan
             u == Head(rest)
             m == <<e, u>>
  <1>1. Telling(p) /\ e \in Events /\ u \in Users /\ m \in Mails
    BY DEF QueueMail, AllTelling, Telling, Mails
  <1>2. \/ e = "booked" /\ rest = <<"student", "adviser", "commit">>
        \/ e = "booked" /\ rest = <<"adviser", "commit">> /\ Queued(e, "student")
        \/ /\ e # "booked" /\ e \in told
           /\ rest \in {<<"student", "adviser">>, <<"student">>, <<"adviser">>}
    BY <1>1, PlanFacts DEF Telling, Users
  <1>3. /\ told' = told /\ faqs' = faqs /\ Done(p)
        /\ mails' = [mails EXCEPT ![m] = [mails[m] EXCEPT !.state = "queued"]]
    BY DEF QueueMail, tables
  <1>4. mails'[m] # Unsent /\ \A n \in Mails \ {m} : mails'[n] = mails[n]
    <2>1. mails[m] \in Mail /\ m \in DOMAIN mails
      BY <1>1 DEF Typed
    <2>2. mails'[m].state = "queued"
      BY <1>3, <2>1 DEF Mail
    <2> QED
      BY <1>1, <1>3, <2>2 DEF Unsent, Typed
  <1>5. /\ proc' \in [Procs -> Frame]
        /\ \A q \in Procs \ {p} : proc'[q] = proc[q]
        /\ proc'[p].pc = "tell" => /\ proc'[p].plan = Tail(rest) /\ proc'[p].plan # <<>>
                                   /\ proc'[p].event = e
    BY <1>2, <1>3, DoneFacts DEF QueueMail
  <1>6. Typed'
    <2>1. mails[m] \in Mail
      BY <1>1 DEF Typed
    <2>2. [mails[m] EXCEPT !.state = "queued"] \in Mail
      BY <2>1 DEF Mail
    <2> QED
      BY <1>1, <1>3, <1>5, <2>2 DEF Typed
  <1>7. proc'[p].pc = "tell" => Telling(p)'
    <2> SUFFICES ASSUME proc'[p].pc = "tell" PROVE Telling(p)'
      OBVIOUS
    <2>1. Queued(e, "student") => mails'[<<e, "student">>] # Unsent
      BY <1>1, <1>4 DEF Queued, Mails, Users
    <2>2. CASE e = "booked" /\ rest = <<"student", "adviser", "commit">>
      BY <1>1, <1>4, <1>5, <2>2, PlanFacts DEF Telling, Queued
    <2>3. CASE e = "booked" /\ rest = <<"adviser", "commit">> /\ Queued(e, "student")
      BY <1>1, <1>4, <1>5, <2>1, <2>3, PlanFacts DEF Telling, Queued
    <2>4. CASE /\ e # "booked" /\ e \in told
               /\ rest \in {<<"student", "adviser">>, <<"student">>, <<"adviser">>}
      <3>1. proc'[p].plan = <<"adviser">>
        BY <1>5, <2>4, PlanFacts
      <3> QED
        BY <1>1, <1>3, <1>5, <2>4, <3>1 DEF Telling
    <2> QED
      BY <1>2, <2>2, <2>3, <2>4
  <1>8. AllTelling'
    BY <1>3, <1>4, <1>5, <1>7, OthersTelling
  <1>9. Announced'
    <2> SUFFICES ASSUME NEW f \in Events
                 PROVE  IF f = "booked"
                        THEN f \in told => \A v \in Users : mails'[<<f, v>>] # Unsent
                        ELSE (\E v \in Users : mails'[<<f, v>>] # Unsent) => f \in told
      BY <1>3 DEF Announced
    <2>1. CASE f = e
      BY <1>1, <1>2, <1>4, <2>1 DEF Announced, Mails
    <2>2. CASE f # e
      BY <1>4, <2>2 DEF Announced, Mails
    <2> QED
      BY <2>1, <2>2
  <1> QED
    BY <1>6, <1>8, <1>9

\* The invariant is inductive.
LEMMA NextStep == IInv /\ [Next]_vars => IInv'
  <1> SUFFICES ASSUME IInv, [Next]_vars PROVE IInv'
    OBVIOUS
  <1>1. ASSUME NEW p \in Procs, Request(p)
        PROVE  IInv'
    <2>1. \A d \in told : {d} \in SUBSET Events
      BY DEF IInv, Typed
    <2>2. told \in SUBSET Events
      BY DEF IInv, Typed
    <2>3. CASE \E d \in Events : Tell(p, d)
      BY <2>3, TellStep
    <2>4. CASE ~\E d \in Events : Tell(p, d)
      BY <1>1, <2>1, <2>2, <2>4, CacheStep DEF Request
    <2> QED
      BY <2>3, <2>4
  <1>2. ASSUME NEW p \in Procs, Proceed(p) \/ Abort(p)
        PROVE  IInv'
    BY <1>2, CacheStep, CommitStep, QueueStep DEF Proceed
  <1>3. ASSUME NEW k \in Keys, Expire(k)
        PROVE  IInv'
    BY <1>3, ExpireStep
  <1>4. ASSUME NEW m \in Mails, Attempt(m)
        PROVE  IInv'
    BY <1>4, MailStep
  <1>5. CASE UNCHANGED vars
    <2>1. UNCHANGED <<told, faqs, mails, proc>>
      BY <1>5 DEF vars
    <2>2. Typed'
      BY <2>1 DEF IInv, Typed
    <2> QED
      BY <2>1, <2>2, QuietStep
  <1> QED
    BY <1>1, <1>2, <1>3, <1>4, <1>5 DEF Next

----------------------------------------------------------------------------
\* Notices and mails of an event appear in the order that keeps one from
\* standing without the other, for any number of requests, events and retries,
\* whatever fails in between (appointments/service.py, tasks/service.py).
THEOREM TellsInOrder == Spec => []Announced
  <1>1. Init => IInv
    BY InitIInv
  <1>2. IInv /\ [Next]_vars => IInv'
    BY NextStep
  <1>3. IInv => Announced
    BY DEF IInv
  <1> QED
    BY <1>1, <1>2, <1>3, PTL DEF Spec
----------------------------------------------------------------------------
(* The scheduled jobs.  RemindersKept is not inductive: it needs that a run is *)
(* made once, by one worker, and that what the run holds in its memory is      *)
(* about the rows as they have stood since before eight.                       *)

\* What reminders a job makes.
KindOf(name) == CASE name = "deadlines" -> "deadline" [] name = "appointments" -> "appointment"
                  [] name = "staleness" -> "staleness" [] OTHER -> "none"
JobNames == {"overdue", "deadlines", "appointments", "staleness"}

Rows == [status : {"none", "open", "done", "overdue", "confirmed", "cancelled"},
         at : Nat, since : Nat]

\* Jobs wait in the queue from their hour on.
JobsTyped ==
  /\ now \in Nat /\ task \in [Tasks -> Rows] /\ appt \in [Appts -> Rows]
  /\ \A j \in queue : j \in [name : JobNames, at : Nat] /\ j.at <= now
                      /\ (j.name = "deadlines" => Hour(j.at) = 1)
  /\ DOMAIN job = Workers

\* A job that runs: its reminders, and their mails, are of its kind and its run.
Performs(w) ==
  LET j == job[w] IN
  /\ j = [name |-> j.name, at |-> j.at, notices |-> j.notices, mails |-> j.mails]
  /\ j.name \in JobNames /\ j.at \in Nat /\ j.at <= now
  /\ [name |-> j.name, at |-> j.at] \notin queue
  /\ \A r \in j.notices \cup j.mails : r.kind = KindOf(j.name) /\ r.run = j.at
  /\ j.name = "staleness" => j.mails \subseteq notices \cup j.notices
  /\ j.name # "staleness" => j.notices \subseteq mailed \cup j.mails
  /\ j.name = "deadlines" => Hour(j.at) = 1
  /\ j.name = "appointments" => Hour(now) = 1

\* It knows what stands as it is since before eight.
KnowsTasks(w) ==
  job[w].name = "deadlines" /\ Day(now) = Day(job[w].at) =>
    \A t \in Tasks : task[t].status = "open" /\ task[t].since <= Day(now) =>
      (Reminder("deadline", t, "student", job[w].at) \in job[w].notices
         <=> Day(task[t].at) - Day(now) \in {1, 3})
KnowsAppts(w) ==
  job[w].name = "appointments" /\ now = job[w].at =>
    \A a \in Appts, u \in {"student", "adviser"} :
      appt[a].status = "confirmed" /\ appt[a].since <= Day(now) =>
        (Reminder("appointment", a, u, job[w].at) \in job[w].notices
           <=> Day(appt[a].at) = Day(now))

\* Nobody will run this job any more.
Over(name, at) ==
  /\ at <= now /\ [name |-> name, at |-> at] \notin queue
  /\ \A w \in Workers : ~(job[w].name = name /\ job[w].at = at)

Exclusive ==
  /\ \A v, w \in Workers : job[w] # NoJob /\ job[v].name = job[w].name /\ job[v].at = job[w].at
                           => v = w
  /\ \A n \in notices : n.run \in Nat
        /\ (n.kind = "deadline" => Over("deadlines", n.run))
        /\ (n.kind = "appointment" => Over("appointments", n.run))
  /\ \A k \in kept : /\ k \in {"deadlines", "appointments"} \X Nat
                     /\ Over(k[1], EightOn(k[2]))

TasksKept ==
  \A t \in Tasks, d \in 0 .. Days - 1 :
    <<"deadlines", d>> \in kept /\ task[t].status = "open" /\ task[t].since <= d =>
      (Reminded("deadline", t, "student", d) <=> Day(task[t].at) - d \in {1, 3})
ApptsKept ==
  \A a \in Appts, d \in 0 .. Days - 1, u \in {"student", "adviser"} :
    <<"appointments", d>> \in kept /\ appt[a].status = "confirmed" /\ appt[a].since <= d =>
      (Reminded("appointment", a, u, d) <=> Day(appt[a].at) = d)
MailsKept ==
  /\ \A n \in notices : n.kind # "staleness" => n \in mailed
  /\ \A m \in mailed : m.kind = "staleness" => m \in notices

Running == \A w \in Workers : job[w] # NoJob => Performs(w) /\ KnowsTasks(w) /\ KnowsAppts(w)

JobsInv == JobsTyped /\ Exclusive /\ Running /\ TasksKept /\ ApptsKept /\ MailsKept

----------------------------------------------------------------------------
\* The hours and days of an instant; what is changed from eight on is found
\* changed the next day.
LEMMA DayAndHour ==
  ASSUME NEW n \in Nat
  PROVE  /\ Day(n) \in Nat /\ Hour(n) \in 0 .. 2 /\ n = 3 * Day(n) + Hour(n)
         /\ Hour(n) = 1 => EightOn(Day(n)) = n
  <1>1. Day(n) \in Int /\ Hour(n) \in 0 .. 2 /\ n = 3 * Day(n) + Hour(n)
    BY DEF Day, Hour
  <1>2. Day(n) >= 0
    BY <1>1
  <1> QED
    BY <1>1, <1>2 DEF EightOn

\* What changes at eight or later counts from the next day on.
LEMMA ChangedLater ==
  ASSUME NEW n \in Nat, NEW d \in Nat, EightOn(d) <= n
  PROVE  (n + 2) \div 3 \in Nat /\ ~((n + 2) \div 3 <= d)
  BY DEF EightOn

\* The four days of the query hold the days of the reminders.
LEMMA InFourDays ==
  ASSUME NEW due \in Nat, now \in Nat, DaysLeft(due) \in {1, 3}
  PROVE  InWindow(due)
  <1>1. /\ due = 3 * Day(due) + Hour(due) /\ now = 3 * Day(now) + Hour(now)
        /\ Hour(due) \in 0 .. 2 /\ Hour(now) \in 0 .. 2
        /\ Day(due) \in Nat /\ Day(now) \in Nat
    BY DayAndHour
  <1> QED
    BY <1>1 DEF InWindow, DaysLeft

\* What beat sends.
LEMMA ScheduledJobs ==
  ASSUME NEW t \in Nat, NEW j \in Scheduled(t)
  PROVE  /\ j \in [name : JobNames, at : Nat] /\ j.at = t
         /\ j.name = "deadlines" => Hour(t) = 1
  BY DEF Scheduled, JobNames

\* At first nothing runs and nobody was reminded.
LEMMA InitJobs == JobsInit => JobsInv
  <1> SUFFICES ASSUME JobsInit
               PROVE  JobsInv
    OBVIOUS
  <1>1. JobsTyped
    BY ScheduledJobs DEF JobsInit, JobsTyped, Rows, Absent
  <1> QED
    BY <1>1 DEF JobsInit, JobsInv, Exclusive, Running, TasksKept, ApptsKept, MailsKept

\* People change rows, a job ends without a commit: whatever a run knows or has
\* kept is about rows that are as they were.
LEMMA QuietKeeps ==
  ASSUME JobsInv, UNCHANGED <<now, queue, outcome>>,
         task' \in [Tasks -> Rows], appt' \in [Appts -> Rows], DOMAIN job' = Workers,
         \A w \in Workers : job'[w] \in {job[w], NoJob},
         \A t \in Tasks : task'[t] = task[t] \/ task'[t].status # "open"
                          \/ task'[t].since = (now + 2) \div 3,
         \A a \in Appts : appt'[a] = appt[a] \/ appt'[a].status # "confirmed"
                          \/ appt'[a].since = (now + 2) \div 3
  PROVE  JobsInv'
  <1> USE DEF outcome
  <1>1. JobsTyped'
    BY DEF JobsInv, JobsTyped
  <1>2. ASSUME NEW name, NEW at, Over(name, at), name # "none"
        PROVE  Over(name, at)'
    BY <1>2 DEF Over, NoJob
  <1>3. Exclusive'
    <2>1. ASSUME NEW v \in Workers, NEW w \in Workers, job'[w] # NoJob,
                 job'[v].name = job'[w].name, job'[v].at = job'[w].at
          PROVE  v = w
      <3>1. job'[w] = job[w] /\ job[w] # NoJob /\ job[w].name # "none"
        BY <2>1 DEF JobsInv, Running, Performs, JobNames
      <3>2. job'[v] = job[v]
        BY <2>1, <3>1 DEF NoJob
      <3> QED
        BY <2>1, <3>1, <3>2 DEF JobsInv, Exclusive
    <2>2. \A n \in notices : n.run \in Nat
            /\ (n.kind = "deadline" => Over("deadlines", n.run)')
            /\ (n.kind = "appointment" => Over("appointments", n.run)')
      BY <1>2 DEF JobsInv, Exclusive
    <2>3. \A k \in kept : k \in {"deadlines", "appointments"} \X Nat
                          /\ Over(k[1], EightOn(k[2]))'
      BY <1>2 DEF JobsInv, Exclusive
    <2> QED
      BY <2>1, <2>2, <2>3 DEF Exclusive
  <1>4. ASSUME NEW w \in Workers, job'[w] # NoJob
        PROVE  Performs(w)' /\ KnowsTasks(w)' /\ KnowsAppts(w)'
    <2>1. job'[w] = job[w] /\ Performs(w) /\ KnowsTasks(w) /\ KnowsAppts(w) /\ now \in Nat
      BY <1>4 DEF JobsInv, Running, JobsTyped
    <2>2. Performs(w)'
      BY <2>1 DEF Performs
    <2>3. KnowsTasks(w)'
      <3>1. SUFFICES ASSUME job[w].name = "deadlines", Day(now) = Day(job[w].at),
                            NEW t \in Tasks, task'[t].status = "open", task'[t].since <= Day(now)
                     PROVE  task'[t] = task[t]
        BY <2>1 DEF KnowsTasks
      <3>2. EightOn(Day(now)) <= now /\ Day(now) \in Nat
        BY <2>1, <3>1, DayAndHour DEF Performs
      <3> QED
        BY <2>1, <3>1, <3>2, ChangedLater
    <2>4. KnowsAppts(w)'
      <3>1. SUFFICES ASSUME job[w].name = "appointments",
                            NEW a \in Appts, appt'[a].status = "confirmed",
                            appt'[a].since <= Day(now)
                     PROVE  appt'[a] = appt[a]
        BY <2>1 DEF KnowsAppts
      <3>2. EightOn(Day(now)) <= now /\ Day(now) \in Nat
        BY <2>1, <3>1, DayAndHour DEF Performs
      <3> QED
        BY <2>1, <3>1, <3>2, ChangedLater
    <2> QED
      BY <2>2, <2>3, <2>4
  <1>5. ASSUME NEW k \in kept
        PROVE  k[2] \in Nat /\ EightOn(k[2]) <= now /\ now \in Nat
    BY DEF JobsInv, Exclusive, Over, JobsTyped
  <1>6. TasksKept'
    <2>1. SUFFICES ASSUME NEW t \in Tasks, NEW d \in 0 .. Days - 1, <<"deadlines", d>> \in kept,
                          task'[t].status = "open", task'[t].since <= d
                   PROVE  task'[t] = task[t]
      BY DEF JobsInv, TasksKept, Reminded
    <2>2. d \in Nat /\ EightOn(d) <= now /\ now \in Nat
      BY <1>5, <2>1
    <2> QED
      BY <2>1, <2>2, ChangedLater
  <1>7. ApptsKept'
    <2>1. SUFFICES ASSUME NEW a \in Appts, NEW d \in 0 .. Days - 1,
                          <<"appointments", d>> \in kept,
                          appt'[a].status = "confirmed", appt'[a].since <= d
                   PROVE  appt'[a] = appt[a]
      BY DEF JobsInv, ApptsKept, Reminded
    <2>2. d \in Nat /\ EightOn(d) <= now /\ now \in Nat
      BY <1>5, <2>1
    <2> QED
      BY <2>1, <2>2, ChangedLater
  <1>8. MailsKept'
    BY DEF JobsInv, MailsKept
  <1> QED
    BY <1>1, <1>3, <1>4, <1>6, <1>7, <1>8 DEF JobsInv, Running

\* What people do meanwhile.
LEMMA UseKeeps == JobsInv /\ Use => JobsInv'
  <1> SUFFICES ASSUME JobsInv, Use
               PROVE  JobsInv'
    OBVIOUS
  <1>1. now \in Nat /\ (now + 2) \div 3 \in Nat /\ DOMAIN job = Workers
        /\ task \in [Tasks -> Rows] /\ appt \in [Appts -> Rows]
    <2>1. now \in Nat
      BY DEF JobsInv, JobsTyped
    <2>2. Day(now + 2) \in Nat
      BY <2>1, DayAndHour
    <2> QED
      BY <2>1, <2>2 DEF JobsInv, JobsTyped, Day
  <1>2. ASSUME NEW st \in {"open", "done", "overdue", "confirmed", "cancelled", "none"},
               NEW at \in Nat
        PROVE  Row(st, at) \in Rows /\ Row(st, at).since = (now + 2) \div 3
    BY <1>1 DEF Row, Rows
  <1>3. \A t \in Tasks : task[t].at \in Nat /\ task[t].status \in
          {"open", "done", "overdue", "confirmed", "cancelled", "none"}
    BY <1>1 DEF Rows
  <1>4. \A a \in Appts : appt[a].at \in Nat
    BY <1>1 DEF Rows
  <1>5. ASSUME UNCHANGED <<now, queue, job, outcome, appt>>, NEW t \in Tasks,
               NEW st \in {"open", "done", "overdue", "confirmed", "cancelled", "none"},
               NEW at \in Nat, task' = [task EXCEPT ![t] = Row(st, at)]
        PROVE  JobsInv'
    <2>1. task' \in [Tasks -> Rows] /\ \A u \in Tasks : task'[u] = task[u]
                                         \/ task'[u].since = (now + 2) \div 3
      BY <1>1, <1>2, <1>5
    <2> QED
      BY <1>1, <1>5, <2>1, QuietKeeps
  <1>6. ASSUME UNCHANGED <<now, queue, job, outcome, task>>, NEW a \in Appts,
               NEW st \in {"confirmed", "cancelled"},
               NEW at \in Nat, appt' = [appt EXCEPT ![a] = Row(st, at)]
        PROVE  JobsInv'
    <2>1. appt' \in [Appts -> Rows] /\ \A u \in Appts : appt'[u] = appt[u]
                                         \/ appt'[u].since = (now + 2) \div 3
      BY <1>1, <1>2, <1>6
    <2> QED
      BY <1>1, <1>6, <2>1, QuietKeeps
  <1>7. ASSUME NEW t \in Tasks, NEW due \in Times, CreateTask(t, due)
        PROVE  JobsInv'
    BY <1>5, <1>7, TimesAssumption DEF CreateTask, Untouched
  <1>8. ASSUME NEW t \in Tasks, NEW due \in Times, MoveDeadline(t, due)
        PROVE  JobsInv'
    <2>1. task' = [task EXCEPT ![t] = Row(task[t].status, due)]
      BY <1>1, <1>8 DEF MoveDeadline
    <2> QED
      BY <1>3, <1>5, <1>8, <2>1, TimesAssumption DEF MoveDeadline, Untouched
  <1>9. ASSUME NEW t \in Tasks, NEW st \in {"open", "done"}, PatchStatus(t, st)
        PROVE  JobsInv'
    <2>1. task' = [task EXCEPT ![t] = Row(st, task[t].at)]
      BY <1>1, <1>9 DEF PatchStatus
    <2>2. UNCHANGED <<now, queue, job, outcome, appt>> /\ task[t].at \in Nat
      BY <1>3, <1>9 DEF PatchStatus, Untouched
    <2> QED
      BY <1>5, <2>1, <2>2
  <1>10. ASSUME NEW a \in Appts, Cancel(a)
         PROVE  JobsInv'
    <2>1. appt' = [appt EXCEPT ![a] = Row("cancelled", appt[a].at)]
      BY <1>1, <1>10 DEF Cancel
    <2> QED
      BY <1>4, <1>6, <1>10, <2>1 DEF Cancel, Untouched
  <1>11. ASSUME NEW a \in Appts, NEW start \in Times, Book(a, start)
         PROVE  JobsInv'
    BY <1>6, <1>11, TimesAssumption DEF Book, Untouched
  <1>12. ASSUME NEW v \in BOOLEAN, Verify(v)
         PROVE  JobsInv'
    BY <1>1, <1>12, QuietKeeps DEF Verify, Untouched
  <1> QED
    BY <1>7, <1>8, <1>9, <1>10, <1>11, <1>12 DEF Use

\* A run that ends without a commit.
LEMMA MarkKeeps ==
  ASSUME JobsInv, NEW w \in Workers, MarkOverdue(w)
  PROVE  JobsInv'
  <1>1. now \in Nat /\ (now + 2) \div 3 \in Nat /\ DOMAIN job = Workers
        /\ task \in [Tasks -> Rows] /\ appt \in [Appts -> Rows]
    <2>1. now \in Nat
      BY DEF JobsInv, JobsTyped
    <2>2. Day(now + 2) \in Nat
      BY <2>1, DayAndHour
    <2> QED
      BY <2>1, <2>2 DEF JobsInv, JobsTyped, Day
  <1>2. \A t \in Tasks : task'[t] = task[t] \/ task'[t] = Row("overdue", task[t].at)
    BY DEF MarkOverdue
  <1>3. \A t \in Tasks : task[t] \in Rows /\ Row("overdue", task[t].at) \in Rows
                         /\ Row("overdue", task[t].at).status = "overdue"
    BY <1>1 DEF Row, Rows
  <1>4. DOMAIN task' = Tasks /\ task' = [t \in Tasks |-> task'[t]]
    BY DEF MarkOverdue
  <1>5. task' \in [Tasks -> Rows]
    BY <1>2, <1>3, <1>4
  <1>6. \A t \in Tasks : task'[t] = task[t] \/ task'[t].status # "open"
    BY <1>2, <1>3
  <1>7. DOMAIN job' = Workers /\ \A v \in Workers : job'[v] \in {job[v], NoJob}
    BY <1>1 DEF MarkOverdue
  <1>8. UNCHANGED <<now, queue, outcome>> /\ UNCHANGED appt
    BY DEF MarkOverdue
  <1> QED
    BY <1>1, <1>5, <1>6, <1>7, <1>8, QuietKeeps

\* Nor does one that dies.
LEMMA FailKeeps ==
  ASSUME JobsInv, NEW w \in Workers, Fail(w)
  PROVE  JobsInv'
  <1>1. DOMAIN job' = Workers /\ \A v \in Workers : job'[v] \in {job[v], NoJob}
    BY DEF Fail, JobsInv, JobsTyped
  <1>2. UNCHANGED <<now, queue, outcome, task, appt>>
    BY DEF Fail, records
  <1>3. task \in [Tasks -> Rows] /\ appt \in [Appts -> Rows]
    BY DEF JobsInv, JobsTyped
  <1> QED
    BY <1>1, <1>2, <1>3, QuietKeeps

\* Time passes while nobody works: what beat sends is of the new instant.
LEMMA TickKeeps == JobsInv /\ Tick => JobsInv'
  <1> SUFFICES ASSUME JobsInv, Tick
               PROVE  JobsInv'
    OBVIOUS
  <1> USE DEF outcome, records
  <1>1. now \in Nat /\ now' = now + 1 /\ queue' = queue \cup Scheduled(now + 1)
        /\ UNCHANGED <<records, job, outcome>> /\ \A w \in Workers : job[w] = NoJob
    BY DEF JobsInv, JobsTyped, Tick
  <1>2. \A j \in Scheduled(now + 1) : /\ j \in [name : JobNames, at : Nat] /\ j.at = now + 1
                                      /\ j.name = "deadlines" => Hour(j.at) = 1
    BY <1>1, ScheduledJobs
  <1>3. JobsTyped'
    BY <1>1, <1>2 DEF JobsInv, JobsTyped
  <1>4. ASSUME NEW name, NEW at \in Nat, Over(name, at)
        PROVE  Over(name, at)'
    <2>1. at <= now /\ [name |-> name, at |-> at] \notin queue
      BY <1>4 DEF Over
    <2>2. [name |-> name, at |-> at] \notin Scheduled(now + 1)
      BY <1>1, <1>2, <2>1
    <2> QED
      BY <1>1, <1>4, <2>1, <2>2 DEF Over
  <1>5. Exclusive'
    <2>1. \A k \in kept : EightOn(k[2]) \in Nat
      BY DEF JobsInv, Exclusive, EightOn
    <2> QED
      BY <1>1, <1>4, <2>1 DEF JobsInv, Exclusive
  <1>6. Running'
    BY <1>1 DEF Running
  <1>7. TasksKept' /\ ApptsKept' /\ MailsKept'
    BY <1>1 DEF JobsInv, TasksKept, ApptsKept, MailsKept, Reminded
  <1> QED
    BY <1>3, <1>5, <1>6, <1>7 DEF JobsInv

\* The rows a job reads are of its kind and its run.
LEMMA RowsOfRun ==
  ASSUME NEW j, j.name \in JobNames, NEW r \in RowsOf(j)
  PROVE  r.kind = KindOf(j.name) /\ r.run = j.at
  BY DEF RowsOf, DeadlineRows, AppointmentRows, StalenessRows, Reminder, KindOf, JobNames

\* A worker takes a job: no other has it, and what it reads is what stands.
LEMMA TakeKeeps ==
  ASSUME JobsInv, NEW w \in Workers, NEW j \in queue, Take(w, j)
  PROVE  JobsInv'
  <1> USE DEF outcome, records
  <1>1. /\ now \in Nat /\ j.name \in JobNames /\ j.at \in Nat /\ j.at <= now
        /\ j = [name |-> j.name, at |-> j.at]
        /\ j.name = "deadlines" => Hour(j.at) = 1
        /\ DOMAIN job = Workers
    BY DEF JobsInv, JobsTyped
  <1>2. /\ job[w] = NoJob /\ queue' = queue \ {j}
        /\ UNCHANGED <<now, task, appt, notices, mailed, kept>>
    BY DEF Take
  <1> DEFINE new == [name |-> j.name, at |-> j.at, notices |-> RowsOf(j), mails |-> RowsOf(j)]
  <1>3. \/ job' = job
        \/ ~ReturnsEarly(j) /\ job' = [job EXCEPT ![w] = new]
    BY DEF Take
  <1>4. JobsTyped'
    BY <1>2, <1>3 DEF JobsInv, JobsTyped
  <1>5. ASSUME NEW name, NEW at, Over(name, at)
        PROVE  Over(name, at)'
    <2>1. \A v \in Workers : job'[v] = job[v] \/ (job'[v].name = j.name /\ job'[v].at = j.at)
      <3>1. CASE job' = job
        BY <3>1
      <3>2. CASE job' = [job EXCEPT ![w] = new]
        <4>1. job'[w] = new /\ new.name = j.name /\ new.at = j.at
              /\ \A x \in Workers : x # w => job'[x] = job[x]
          BY <1>1, <3>2
        <4> QED
          BY <4>1
      <3> QED
        BY <1>3, <3>1, <3>2
    <2>2. ~(j.name = name /\ j.at = at)
      BY <1>1, <1>5 DEF Over
    <2>3. \A v \in Workers : ~(job'[v].name = name /\ job'[v].at = at)
      BY <1>5, <2>1, <2>2 DEF Over
    <2> QED
      BY <1>2, <1>5, <2>3 DEF Over
  <1>6. \A v \in Workers : job[v] # NoJob => ~(job[v].name = j.name /\ job[v].at = j.at)
    <2> SUFFICES ASSUME NEW v \in Workers, job[v] # NoJob, job[v].name = j.name, job[v].at = j.at
                 PROVE  FALSE
      OBVIOUS
    <2>1. Performs(v)
      BY DEF JobsInv, Running
    <2> QED
      BY <1>1, <2>1 DEF Performs
  <1>7. Exclusive'
    <2>1. ASSUME NEW u \in Workers, NEW v \in Workers, job'[u] # NoJob,
                 job'[v].name = job'[u].name, job'[v].at = job'[u].at
          PROVE  v = u
      <3>1. \A x \in Workers : job[x] # NoJob => job[x].name \in JobNames
        BY DEF JobsInv, Running, Performs
      <3>2. "none" \notin JobNames /\ NoJob.name = "none"
        BY DEF JobNames, NoJob
      <3>3. CASE job' = job
        BY <2>1, <3>3 DEF JobsInv, Exclusive
      <3>4. CASE job' = [job EXCEPT ![w] = new]
        <4>1. job'[w] = new /\ new.name = j.name /\ new.at = j.at
              /\ \A x \in Workers : x # w => job'[x] = job[x]
          BY <1>1, <3>4
        <4>2. CASE u = w
          <5> SUFFICES ASSUME v # w PROVE FALSE
            BY <4>2
          <5> QED
            BY <1>1, <1>6, <2>1, <3>2, <4>1, <4>2
        <4>3. CASE u # w /\ v = w
          BY <1>6, <2>1, <4>1, <4>3
        <4>4. CASE u # w /\ v # w
          BY <2>1, <4>1, <4>4 DEF JobsInv, Exclusive
        <4> QED
          BY <4>2, <4>3, <4>4
      <3> QED
        BY <1>3, <3>3, <3>4
    <2> QED
      BY <1>2, <1>5, <2>1 DEF JobsInv, Exclusive
  <1>8. ASSUME NEW v \in Workers, job'[v] = job[v], job'[v] # NoJob
        PROVE  Performs(v)' /\ KnowsTasks(v)' /\ KnowsAppts(v)'
    <2>1. Performs(v) /\ KnowsTasks(v) /\ KnowsAppts(v)
      BY <1>8 DEF JobsInv, Running
    <2>2. Performs(v)'
      BY <1>2, <1>8, <2>1 DEF Performs
    <2> QED
      BY <1>2, <1>8, <2>1, <2>2 DEF KnowsTasks, KnowsAppts
  <1>9. ASSUME ~ReturnsEarly(j), job'[w] = new
        PROVE  Performs(w)' /\ KnowsTasks(w)' /\ KnowsAppts(w)'
    <2>1. \A r \in RowsOf(j) : r.kind = KindOf(j.name) /\ r.run = j.at
      BY <1>1, RowsOfRun
    <2>2. j.name = "appointments" => Hour(now) = 1
      BY <1>9 DEF ReturnsEarly
    <2>3. Performs(w)'
      BY <1>1, <1>2, <1>9, <2>1, <2>2 DEF Performs
    <2>4. KnowsTasks(w)'
      <3>1. SUFFICES ASSUME j.name = "deadlines", NEW t \in Tasks, task[t].status = "open"
                     PROVE  Reminder("deadline", t, "student", j.at) \in RowsOf(j)
                              <=> Day(task[t].at) - Day(now) \in {1, 3}
        BY <1>2, <1>9 DEF KnowsTasks
      <3>2. RowsOf(j) = DeadlineRows(j.at)
        BY <3>1 DEF RowsOf
      <3>3. Reminder("deadline", t, "student", j.at) \in DeadlineRows(j.at)
              <=> InWindow(task[t].at) /\ DaysLeft(task[t].at) \in {1, 3}
        BY <3>1 DEF DeadlineRows, Reminder
      <3>4. task[t].at \in Nat
        BY DEF JobsInv, JobsTyped, Rows
      <3>5. DaysLeft(task[t].at) \in {1, 3} => InWindow(task[t].at)
        BY <1>1, <3>4, InFourDays
      <3> QED
        BY <3>2, <3>3, <3>5 DEF DaysLeft
    <2>5. KnowsAppts(w)'
      <3>1. SUFFICES ASSUME j.name = "appointments", NEW a \in Appts,
                            NEW u \in {"student", "adviser"}, appt[a].status = "confirmed"
                     PROVE  Reminder("appointment", a, u, j.at) \in RowsOf(j)
                              <=> Day(appt[a].at) = Day(now)
        BY <1>2, <1>9 DEF KnowsAppts
      <3>2. RowsOf(j) = AppointmentRows(j.at)
        BY <3>1 DEF RowsOf
      <3>3. Reminder("appointment", a, u, j.at) \in AppointmentRows(j.at)
              <=> \E u2 \in {"student", "adviser"},
                     a2 \in {b \in Appts : /\ appt[b].status = "confirmed"
                                         /\ Day(appt[b].at) = Day(now)} :
                    Reminder("appointment", a, u, j.at) = Reminder("appointment", a2, u2, j.at)
        BY DEF AppointmentRows
      <3>4. ASSUME NEW u2, NEW a2, Reminder("appointment", a, u, j.at)
                                     = Reminder("appointment", a2, u2, j.at)
            PROVE  a2 = a /\ u2 = u
        BY <3>4 DEF Reminder
      <3> QED
        BY <3>1, <3>2, <3>3, <3>4
    <2> QED
      BY <2>3, <2>4, <2>5
  <1>10. Running'
    <2>1. ASSUME NEW v \in Workers, job'[v] # NoJob
          PROVE  Performs(v)' /\ KnowsTasks(v)' /\ KnowsAppts(v)'
      <3>1. job'[v] = job[v] \/ (v = w /\ ~ReturnsEarly(j) /\ job'[w] = new)
        BY <1>1, <1>3
      <3> QED
        BY <1>8, <1>9, <2>1, <3>1
    <2> QED
      BY <2>1 DEF Running
  <1>11. TasksKept' /\ ApptsKept' /\ MailsKept'
    BY <1>2 DEF JobsInv, TasksKept, ApptsKept, MailsKept, Reminded
  <1> QED
    BY <1>4, <1>7, <1>10, <1>11 DEF JobsInv

\* A mail goes into the queue: it is on record there whatever the job does next.
LEMMA MailKeeps ==
  ASSUME JobsInv, NEW w \in Workers, QueueReminder(w)
  PROVE  JobsInv'
  <1> USE DEF records
  <1>1. PICK m \in job[w].mails :
          /\ InTurn(w, m) /\ mailed' = mailed \cup {m}
          /\ job' = [job EXCEPT ![w].mails = @ \ {m}]
          /\ UNCHANGED <<now, records, queue, notices, kept, edits, faults>>
    BY DEF QueueReminder
  <1>2. DOMAIN job = Workers /\ job[w] # NoJob
    <2>1. NoJob.mails = {}
      BY DEF NoJob
    <2> QED
      BY <1>1, <2>1 DEF JobsInv, JobsTyped
  <1>3. Performs(w) /\ KnowsTasks(w) /\ KnowsAppts(w)
    BY <1>2 DEF JobsInv, Running
  <1>4. /\ job'[w] = [name |-> job[w].name, at |-> job[w].at, notices |-> job[w].notices,
                      mails |-> job[w].mails \ {m}]
        /\ \A v \in Workers : v # w => job'[v] = job[v]
        /\ DOMAIN job' = Workers
    <2>1. job[w] = [name |-> job[w].name, at |-> job[w].at, notices |-> job[w].notices,
                    mails |-> job[w].mails]
      BY <1>3 DEF Performs
    <2>2. job'[w] = [job[w] EXCEPT !.mails = @ \ {m}]
      BY <1>1, <1>2
    <2> QED
      BY <1>1, <1>2, <2>1, <2>2
  <1>5. \A v \in Workers : /\ job'[v].name = job[v].name /\ job'[v].at = job[v].at
                           /\ job'[v].notices = job[v].notices
                           /\ job'[v] # NoJob => job[v] # NoJob
    BY <1>2, <1>4
  <1>6. JobsTyped'
    BY <1>1, <1>4 DEF JobsInv, JobsTyped
  <1>7. ASSUME NEW name, NEW at
        PROVE  Over(name, at)' <=> Over(name, at)
    BY <1>1, <1>5 DEF Over
  <1>8. Exclusive'
    <2>1. \A u, v \in Workers : job'[u] # NoJob /\ job'[v].name = job'[u].name
                                /\ job'[v].at = job'[u].at => v = u
      BY <1>5 DEF JobsInv, Exclusive
    <2> QED
      BY <1>1, <1>7, <2>1 DEF JobsInv, Exclusive
  <1>9. Running'
    <2>1. ASSUME NEW v \in Workers, job'[v] # NoJob
          PROVE  Performs(v)' /\ KnowsTasks(v)' /\ KnowsAppts(v)'
      <3>1. Performs(v) /\ KnowsTasks(v) /\ KnowsAppts(v)
        BY <1>5, <2>1 DEF JobsInv, Running
      <3>2. KnowsTasks(v)' /\ KnowsAppts(v)'
        BY <1>1, <1>5, <3>1 DEF KnowsTasks, KnowsAppts
      <3>3. CASE v # w
        <4>1. job'[v] = job[v]
          BY <1>4, <3>3
        <4>2. Performs(v)'
          BY <1>1, <3>1, <4>1 DEF Performs
        <4> QED
          BY <3>2, <4>2
      <3>4. CASE v = w
        <4>1. Performs(w)'
          BY <1>1, <1>3, <1>4 DEF Performs
        <4> QED
          BY <3>2, <3>4, <4>1
      <3> QED
        BY <3>3, <3>4
    <2> QED
      BY <2>1 DEF Running
  <1>10. TasksKept' /\ ApptsKept'
    BY <1>1 DEF JobsInv, TasksKept, ApptsKept, Reminded
  <1>11. MailsKept'
    <2>1. m.kind = KindOf(job[w].name) /\ job[w].name \in JobNames
          /\ (job[w].name = "staleness" => job[w].mails \subseteq notices \cup job[w].notices)
      BY <1>1, <1>3 DEF Performs
    <2>2. m.kind = "staleness" => job[w].name = "staleness"
      BY <2>1 DEF KindOf, JobNames
    <2>3. m.kind = "staleness" => m \in notices
      BY <1>1, <2>1, <2>2 DEF InTurn
    <2> QED
      BY <1>1, <2>3 DEF JobsInv, MailsKept
  <1> QED
    BY <1>6, <1>8, <1>9, <1>10, <1>11 DEF JobsInv

\* A run commits: what it reminds of is what nobody else has or will.
LEMMA JobCommitKeeps ==
  ASSUME JobsInv, NEW w \in Workers, Commit(w)
  PROVE  JobsInv'
  <1> USE DEF records
  <1> DEFINE j == job[w]
  <1>1. /\ j.name \notin {"none", "overdue"} /\ (j.name # "staleness" => j.mails = {})
        /\ notices' = notices \cup j.notices
        /\ UNCHANGED <<now, task, appt, queue, mailed>>
    BY DEF Commit, Ready
  <1>2. j # NoJob /\ DOMAIN job = Workers /\ now \in Nat
    BY <1>1 DEF NoJob, JobsInv, JobsTyped
  <1>3. Performs(w) /\ KnowsTasks(w) /\ KnowsAppts(w)
    BY <1>2 DEF JobsInv, Running
  <1>4. /\ j.name \in {"deadlines", "appointments", "staleness"} /\ j.at \in Nat /\ j.at <= now
        /\ j = [name |-> j.name, at |-> j.at, notices |-> j.notices, mails |-> j.mails]
        /\ \A r \in j.notices : r.kind = KindOf(j.name) /\ r.run = j.at
    BY <1>1, <1>3 DEF Performs, JobNames
  <1>5. /\ DOMAIN job' = Workers /\ \A v \in Workers : v # w => job'[v] = job[v]
        /\ \/ j.mails = {} /\ job'[w] = NoJob
           \/ /\ j.name = "staleness"
              /\ job'[w] = [name |-> j.name, at |-> j.at, notices |-> {}, mails |-> j.mails]
    <2>1. job' = [job EXCEPT ![w] = IF j.mails = {} THEN NoJob ELSE [j EXCEPT !.notices = {}]]
      BY <1>2 DEF Commit
    <2>2. job'[w] = IF j.mails = {} THEN NoJob ELSE [j EXCEPT !.notices = {}]
      BY <1>2, <2>1
    <2>3. [j EXCEPT !.notices = {}]
            = [name |-> j.name, at |-> j.at, notices |-> {}, mails |-> j.mails]
      BY <1>4
    <2> QED
      BY <1>1, <1>2, <2>1, <2>2, <2>3
  <1>6. JobsTyped'
    BY <1>1, <1>5 DEF JobsInv, JobsTyped
  <1>7. ASSUME NEW name, NEW at, Over(name, at), name # "none"
        PROVE  Over(name, at)'
    BY <1>1, <1>5, <1>7 DEF Over, NoJob
  <1>8. ASSUME NEW name, NEW at, name = j.name, at = j.at
        PROVE  ~Over(name, at) /\ (name # "staleness" => Over(name, at)')
    <2>1. \A v \in Workers : v # w => ~(job[v].name = name /\ job[v].at = at)
      BY <1>2, <1>8 DEF JobsInv, Exclusive
    <2>2. [name |-> name, at |-> at] \notin queue /\ at <= now
      BY <1>3, <1>8 DEF Performs
    <2>3. name # "staleness" => job'[w].name = "none"
      BY <1>1, <1>5, <1>8 DEF NoJob
    <2>4. name # "staleness" => \A v \in Workers : ~(job'[v].name = name /\ job'[v].at = at)
      BY <1>1, <1>5, <1>8, <2>1, <2>3
    <2>5. ~Over(name, at)
      BY <1>8 DEF Over
    <2>6. name # "staleness" => Over(name, at)'
      BY <1>1, <2>2, <2>4 DEF Over
    <2> QED
      BY <2>5, <2>6
  \* What it adds to the runs that were made when they were due.
  <1>9. \A k \in kept' : k \in kept \/
          /\ k = <<j.name, Day(j.at)>> /\ j.name \in {"deadlines", "appointments"}
          /\ EightOn(Day(j.at)) = j.at /\ Day(j.at) \in Nat /\ Day(now) = Day(j.at)
          /\ j.name = "appointments" => now = j.at
    <2> SUFFICES ASSUME OnTime(w)
                 PROVE  /\ j.name \in {"deadlines", "appointments"}
                        /\ EightOn(Day(j.at)) = j.at /\ Day(j.at) \in Nat /\ Day(now) = Day(j.at)
                        /\ j.name = "appointments" => now = j.at
      BY DEF Commit
    <2>1. /\ j.name \in {"deadlines", "appointments"}
          /\ j.name = "deadlines" => Day(now) = Day(j.at)
          /\ j.name = "appointments" => now = j.at
      BY <1>4 DEF OnTime
    <2>2. Hour(j.at) = 1
      BY <1>3, <2>1 DEF Performs
    <2> QED
      BY <1>4, <2>1, <2>2, DayAndHour
  <1>10. Exclusive'
    <2>1. ASSUME NEW u \in Workers, NEW v \in Workers, job'[u] # NoJob,
                 job'[v].name = job'[u].name, job'[v].at = job'[u].at
          PROVE  v = u
      <3>1. job[u] # NoJob /\ job[u].name # "none" /\ job'[u].name = job[u].name
            /\ job'[u].at = job[u].at
        <4>1. job[u] # NoJob /\ job'[u].name = job[u].name /\ job'[u].at = job[u].at
          BY <1>2, <1>5, <2>1
        <4> QED
          BY <4>1 DEF JobsInv, Running, Performs, JobNames
      <3>2. job'[v] # NoJob
        BY <2>1, <3>1 DEF NoJob
      <3>3. job'[v].name = job[v].name /\ job'[v].at = job[v].at
        BY <1>5, <3>2
      <3> QED
        BY <2>1, <3>1, <3>3 DEF JobsInv, Exclusive
    <2>2. ASSUME NEW n \in notices'
          PROVE  /\ n.run \in Nat
                 /\ n.kind = "deadline" => Over("deadlines", n.run)'
                 /\ n.kind = "appointment" => Over("appointments", n.run)'
      <3>1. CASE n \in notices
        BY <1>7, <3>1 DEF JobsInv, Exclusive
      <3>2. CASE n \in j.notices
        <4>1. n.run = j.at /\ n.kind = KindOf(j.name)
          BY <1>4, <3>2
        <4>2. (n.kind = "deadline" => j.name = "deadlines")
              /\ (n.kind = "appointment" => j.name = "appointments")
          BY <1>4, <4>1 DEF KindOf
        <4>3. n.run \in Nat
          BY <1>4, <4>1
        <4>4. n.kind = "deadline" => Over("deadlines", n.run)'
          BY <1>8, <4>1, <4>2
        <4>5. n.kind = "appointment" => Over("appointments", n.run)'
          BY <1>8, <4>1, <4>2
        <4> QED
          BY <4>3, <4>4, <4>5
      <3> QED
        BY <1>1, <2>2, <3>1, <3>2
    <2>3. ASSUME NEW k \in kept'
          PROVE  k \in {"deadlines", "appointments"} \X Nat /\ Over(k[1], EightOn(k[2]))'
      <3>1. CASE k \in kept
        BY <1>7, <3>1 DEF JobsInv, Exclusive
      <3>2. CASE /\ k = <<j.name, Day(j.at)>> /\ j.name \in {"deadlines", "appointments"}
                 /\ EightOn(Day(j.at)) = j.at /\ Day(j.at) \in Nat
        <4>1. k[1] = j.name /\ EightOn(k[2]) = j.at /\ k[1] # "staleness"
              /\ k \in {"deadlines", "appointments"} \X Nat
          BY <3>2
        <4> QED
          BY <1>8, <4>1
      <3> QED
        BY <1>9, <3>1, <3>2
    <2> QED
      BY <2>1, <2>2, <2>3 DEF Exclusive
  <1>11. Running'
    <2>1. ASSUME NEW v \in Workers, job'[v] # NoJob
          PROVE  Performs(v)' /\ KnowsTasks(v)' /\ KnowsAppts(v)'
      <3>1. CASE v # w
        <4>1. job'[v] = job[v] /\ Performs(v) /\ KnowsTasks(v) /\ KnowsAppts(v)
          BY <1>5, <2>1, <3>1 DEF JobsInv, Running
        <4>2. Performs(v)'
          BY <1>1, <4>1 DEF Performs
        <4> QED
          BY <1>1, <4>1, <4>2 DEF KnowsTasks, KnowsAppts
      <3>2. CASE v = w
        <4>1. /\ j.name = "staleness"
              /\ job'[w] = [name |-> j.name, at |-> j.at, notices |-> {}, mails |-> j.mails]
          BY <1>5, <2>1, <3>2
        <4>2. Performs(w)'
          BY <1>1, <1>3, <4>1 DEF Performs
        <4> QED
          BY <3>2, <4>1, <4>2 DEF KnowsTasks, KnowsAppts
      <3> QED
        BY <3>1, <3>2
    <2> QED
      BY <2>1 DEF Running
  <1>12. TasksKept'
    <2>1. SUFFICES ASSUME NEW t \in Tasks, NEW d \in 0 .. Days - 1, <<"deadlines", d>> \in kept',
                          task[t].status = "open", task[t].since <= d
                   PROVE  Reminder("deadline", t, "student", EightOn(d)) \in notices \cup j.notices
                            <=> Day(task[t].at) - d \in {1, 3}
      BY <1>1 DEF TasksKept, Reminded
    <2> DEFINE r == Reminder("deadline", t, "student", EightOn(d))
    <2>2. r.kind = "deadline" /\ r.run = EightOn(d)
      BY DEF Reminder
    <2>3. r \in j.notices => j.name = "deadlines" /\ j.at = EightOn(d)
      BY <1>4, <2>2 DEF KindOf
    <2>4. CASE <<"deadlines", d>> \in kept
      <3>1. Over("deadlines", EightOn(d))
        BY <2>4 DEF JobsInv, Exclusive
      <3>2. r \notin j.notices
        BY <1>8, <2>3, <3>1
      <3>3. r \in notices <=> Day(task[t].at) - d \in {1, 3}
        BY <2>1, <2>4 DEF JobsInv, TasksKept, Reminded
      <3> QED
        BY <3>2, <3>3
    <2>5. CASE j.name = "deadlines" /\ d = Day(j.at) /\ EightOn(d) = j.at /\ Day(now) = d
      <3>1. r \notin notices
        <4>1. r \in notices => Over("deadlines", EightOn(d))
          BY <2>2 DEF JobsInv, Exclusive
        <4> QED
          BY <1>8, <2>5, <4>1
      <3>2. r \in j.notices <=> Day(task[t].at) - d \in {1, 3}
        BY <1>3, <2>1, <2>5 DEF KnowsTasks
      <3> QED
        BY <3>1, <3>2
    <2> QED
      BY <1>9, <2>1, <2>4, <2>5
  <1>13. ApptsKept'
    <2>1. SUFFICES ASSUME NEW a \in Appts, NEW d \in 0 .. Days - 1,
                          NEW u \in {"student", "adviser"},
                          <<"appointments", d>> \in kept',
                          appt[a].status = "confirmed", appt[a].since <= d
                   PROVE  Reminder("appointment", a, u, EightOn(d)) \in notices \cup j.notices
                            <=> Day(appt[a].at) = d
      BY <1>1 DEF ApptsKept, Reminded
    <2> DEFINE r == Reminder("appointment", a, u, EightOn(d))
    <2>2. r.kind = "appointment" /\ r.run = EightOn(d)
      BY DEF Reminder
    <2>3. r \in j.notices => j.name = "appointments" /\ j.at = EightOn(d)
      BY <1>4, <2>2 DEF KindOf
    <2>4. CASE <<"appointments", d>> \in kept
      <3>1. Over("appointments", EightOn(d))
        BY <2>4 DEF JobsInv, Exclusive
      <3>2. r \notin j.notices
        BY <1>8, <2>3, <3>1
      <3>3. r \in notices <=> Day(appt[a].at) = d
        BY <2>1, <2>4 DEF JobsInv, ApptsKept, Reminded
      <3> QED
        BY <3>2, <3>3
    <2>5. CASE /\ j.name = "appointments" /\ d = Day(j.at) /\ EightOn(d) = j.at
               /\ Day(now) = d /\ now = j.at
      <3>1. r \notin notices
        <4>1. r \in notices => Over("appointments", EightOn(d))
          BY <2>2 DEF JobsInv, Exclusive
        <4> QED
          BY <1>8, <2>5, <4>1
      <3>2. r \in j.notices <=> Day(appt[a].at) = d
        BY <1>3, <2>1, <2>5 DEF KnowsAppts
      <3> QED
        BY <3>1, <3>2
    <2> QED
      BY <1>9, <2>1, <2>4, <2>5
  <1>14. MailsKept'
    <2>1. ASSUME NEW n \in j.notices, n.kind # "staleness"
          PROVE  n \in mailed
      <3>1. j.name # "staleness"
        BY <1>4, <2>1 DEF KindOf
      <3> QED
        BY <1>1, <1>3, <3>1 DEF Performs
    <2> QED
      BY <1>1, <2>1 DEF JobsInv, MailsKept
  <1> QED
    BY <1>6, <1>10, <1>11, <1>12, <1>13, <1>14 DEF JobsInv

\* Every step keeps the invariant.
LEMMA JobStepKeeps == JobsInv /\ [JobsNext]_jobsVars => JobsInv'
  <1> SUFFICES ASSUME JobsInv, [JobsNext]_jobsVars
               PROVE  JobsInv'
    OBVIOUS
  <1>1. ASSUME NEW w \in Workers, Work(w)
        PROVE  JobsInv'
    BY <1>1, TakeKeeps, MailKeeps, JobCommitKeeps, MarkKeeps, FailKeeps DEF Work
  <1>2. CASE UNCHANGED jobsVars
    <2>1. UNCHANGED <<now, task, appt, queue, job, notices, mailed, kept>>
      BY <1>2 DEF jobsVars
    <2>2. task' \in [Tasks -> Rows] /\ appt' \in [Appts -> Rows] /\ DOMAIN job' = Workers
      BY <2>1 DEF JobsInv, JobsTyped
    <2> QED
      BY <2>1, <2>2, QuietKeeps DEF outcome
  <1> QED
    BY <1>1, <1>2, TickKeeps, UseKeeps DEF JobsNext

\* Whoever stood unchanged at eight on a day whose run came on time was reminded
\* on it exactly when the rule says so, notices have their mails, and the mail of
\* the staleness job its notice (reminder_tasks.py 22-101, maintenance_tasks.py
\* 56-71): for any number of workers, tasks, appointments, days, edits and
\* failures, whatever the order in which late jobs leave the queue.
THEOREM RemindsTheDue == JobsSpec => []RemindersKept
  <1>1. JobsInv => RemindersKept
    BY DEF JobsInv, TasksKept, ApptsKept, MailsKept, RemindersKept
  <1> QED
    BY <1>1, InitJobs, JobStepKeeps, PTL DEF JobsSpec
=============================================================================
