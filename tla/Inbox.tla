-------------------------------- MODULE Inbox --------------------------------
(***************************************************************************)
(* What reaches a student: notices, the number of unread ones, mails and    *)
(* the list of questions and answers (src/app/modules/notifications,        *)
(* src/app/modules/faq, src/app/workers/email_tasks.py, src/app/email), and *)
(* the services that tell of what they have committed.                      *)
(*                                                                         *)
(* The number and the list are cached in Redis.  A reader that finds no     *)
(* entry queries the database and stores what it found; a writer commits    *)
(* and deletes the entry afterwards; every entry expires.  The services     *)
(* that create notices hold no Redis client and leave the entry alone.      *)
(*                                                                         *)
(* A mail is a task in a queue.  The task is taken out before it runs, and  *)
(* put back, up to max_retries times, when sending raises.                  *)
(***************************************************************************)
EXTENDS Naturals, FiniteSets, Sequences

CONSTANTS
  Procs,        \* requests being served at once
  Events,       \* what happens, of "booked", "cancelled" and "updated"
  MaxRetries,   \* max_retries of the mail task
  MaxRequests   \* bound: the requests of a behaviour

ASSUME RetriesAssumption == MaxRetries \in Nat
ASSUME EventsAssumption == Events \subseteq {"booked", "cancelled", "updated"}

VARIABLES
  told,      \* the events of which a notice is committed, to the student and
             \* to the adviser where there is one to tell
  read,      \* those the student has read
  faqs,      \* the list, known by the number of changes made to it
  redis,     \* the entry of each key, or Empty
  mails,     \* each mail: how often it was put back, and how it ended
  proc,      \* the request each process serves
  requests   \* how many requests there were

tables == <<told, read, faqs>>
vars == <<told, read, faqs, redis, mails, proc, requests>>

Keys == {"unread", "faqs"}
Users == {"student", "adviser"}
Mails == Events \X Users
Empty == <<>>
Unsent == [state |-> "none", retries |-> 0]

Idle == [pc |-> "idle", key |-> "faqs", value |-> 0, event |-> "none", plan |-> <<>>]

Init ==
  /\ told = {} /\ read = {} /\ faqs = 0
  /\ redis = [k \in Keys |-> Empty]
  /\ mails = [m \in Mails |-> Unsent]
  /\ proc = [p \in Procs |-> Idle]
  /\ requests = 0

Begin(p, frame) ==
  /\ proc[p] = Idle /\ requests < MaxRequests
  /\ proc' = [proc EXCEPT ![p] = frame]
  /\ requests' = requests + 1

Goto(p, frame) == proc' = [proc EXCEPT ![p] = frame] /\ UNCHANGED requests
End(p) == Goto(p, Idle)

\* An exception, a lost connection or a killed process.  Nothing of an open
\* transaction stays; the services swallow what happens after their commit.
Abort(p) == proc[p] # Idle /\ End(p) /\ UNCHANGED <<tables, redis, mails>>

-----------------------------------------------------------------------------
(* Readers: get_unread_count and list_faqs.                                 *)

Source(k) == CASE k = "unread" -> Cardinality(told \ read)
               [] k = "faqs"   -> faqs

\* A reader that finds an entry returns it and changes nothing.
Miss(p, k) ==
  /\ redis[k] = Empty
  /\ Begin(p, [Idle EXCEPT !.pc = "query", !.key = k])
  /\ UNCHANGED <<tables, redis, mails>>

Query(p) ==
  /\ proc[p].pc = "query"
  /\ Goto(p, [proc[p] EXCEPT !.pc = "store", !.value = Source(proc[p].key)])
  /\ UNCHANGED <<tables, redis, mails>>

Store(p) ==
  /\ proc[p].pc = "store"
  /\ redis' = [redis EXCEPT ![proc[p].key] = <<proc[p].value>>]
  /\ End(p)
  /\ UNCHANGED <<tables, mails>>

\* Every entry is stored with a time to live.
KeptForever(k) == FALSE /\ UNCHANGED vars
Expire(k) ==
  /\ redis[k] # Empty
  /\ redis' = [redis EXCEPT ![k] = Empty]
  /\ UNCHANGED <<tables, mails, proc, requests>>

-----------------------------------------------------------------------------
(* Writers commit, then delete the entry.                                   *)

Changed(p, k) == Begin(p, [Idle EXCEPT !.pc = "invalidate", !.key = k])

\* mark_read of one notice, mark_all_read of all.
MarkRead(p, E) ==
  /\ read' = read \cup E
  /\ Changed(p, "unread")
  /\ UNCHANGED <<told, faqs, redis, mails>>

\* create_faq, update_faq, delete_faq and reorder, by the staff.
ChangeFaqs(p) ==
  /\ faqs' = faqs + 1
  /\ Changed(p, "faqs")
  /\ UNCHANGED <<told, read, redis, mails>>

Invalidate(p) ==
  /\ proc[p].pc = "invalidate"
  /\ redis' = [redis EXCEPT ![proc[p].key] = Empty]
  /\ End(p)
  /\ UNCHANGED <<tables, mails>>

-----------------------------------------------------------------------------
(* Services that tell.                                                      *)

\* What book, cancel and update_task do after their commit, in order: "commit"
\* is that of the notices, a user is the mail put into the queue.
NoticesFirst == <<"commit", "student", "adviser">>
Booked == <<"student", "adviser", "commit">>
Cancelled == <<"commit", "student", "adviser">>
Updated == <<"commit", "student">>
Plan(e) ==
  CASE e = "booked"    -> Booked
    [] e = "cancelled" -> Cancelled
    [] e = "updated"   -> Updated

Tell(p, e) ==
  /\ e \notin told /\ \A u \in Users : mails[<<e, u>>] = Unsent
  /\ \A q \in Procs : proc[q].event # e
  /\ Begin(p, [Idle EXCEPT !.pc = "tell", !.event = e, !.plan = Plan(e)])
  /\ UNCHANGED <<tables, redis, mails>>

\* The statement done; the request ends with the last one.
Done(p) ==
  LET rest == Tail(proc[p].plan) IN
  IF rest = <<>> THEN End(p) ELSE Goto(p, [proc[p] EXCEPT !.plan = rest])

CommitNotices(p) ==
  /\ proc[p].pc = "tell" /\ Head(proc[p].plan) = "commit"
  /\ told' = told \cup {proc[p].event}
  /\ Done(p)
  /\ UNCHANGED <<read, faqs, redis, mails>>

QueueMail(p) ==
  LET u == Head(proc[p].plan) IN
  /\ proc[p].pc = "tell" /\ u \in Users
  /\ mails' = [mails EXCEPT ![<<proc[p].event, u>>].state = "queued"]
  /\ Done(p)
  /\ UNCHANGED <<tables, redis>>

-----------------------------------------------------------------------------
(* The mail task.                                                           *)

Waiting(m) == mails[m].state = "queued"

Becomes(m, mail) ==
  /\ mails' = [mails EXCEPT ![m] = mail]
  /\ UNCHANGED <<tables, redis, proc, requests>>

Send(m) == Waiting(m) /\ Becomes(m, [mails[m] EXCEPT !.state = "sent"])

\* send_email raises, even when the server took the mail and its answer is lost.
Raise(m) ==
  /\ Waiting(m)
  /\ Becomes(m, IF mails[m].retries < MaxRetries
                  THEN [mails[m] EXCEPT !.retries = @ + 1]
                  ELSE [mails[m] EXCEPT !.state = "given up"])

\* The worker dies with the task it has taken.
Lose(m) == Waiting(m) /\ Becomes(m, [mails[m] EXCEPT !.state = "lost"])

Attempt(m) == Send(m) \/ Raise(m) \/ Lose(m)

-----------------------------------------------------------------------------
Request(p) ==
  \/ \E k \in Keys : Miss(p, k)
  \/ \E e \in told : MarkRead(p, {e})
  \/ MarkRead(p, told)
  \/ ChangeFaqs(p)
  \/ \E e \in Events : Tell(p, e)

Proceed(p) ==
  \/ Query(p) \/ Store(p) \/ Invalidate(p)
  \/ CommitNotices(p) \/ QueueMail(p)

Next ==
  \/ \E p \in Procs : Request(p) \/ Proceed(p) \/ Abort(p)
  \/ \E k \in Keys : Expire(k)
  \/ \E m \in Mails : Attempt(m)

Spec == Init /\ [][Next]_vars

\* Requests are served, entries expire and a worker takes what is queued.
Fairness ==
  /\ \A p \in Procs : WF_vars(Proceed(p))
  /\ \A k \in Keys : WF_vars(Expire(k))
  /\ \A m \in Mails : WF_vars(Attempt(m))

FairSpec == Spec /\ Fairness
-----------------------------------------------------------------------------
\* Whoever finds the notice of a booking has its mail queued; the student whose
\* mail tells of a cancellation or of a changed task finds the notice.  No
\* failure between the statements, which the services swallow, turns it round
\* (appointments/service.py 146-198, 243-304, tasks/service.py 139-174).
Announced ==
  \A e \in Events :
    IF e = "booked" THEN e \in told => \A u \in Users : mails[<<e, u>>] # Unsent
                    ELSE (\E u \in Users : mails[<<e, u>>] # Unsent) => e \in told

\* When the requests have stopped, each cache comes to hold what the database
\* holds or nothing, and stays so, although creators of notices never touch the
\* entry, a writer may die before it deletes it and a slow reader may store a
\* count or a list older than the deletion; and no mail is tried for ever
\* (notifications/service.py 51-78, faq/service.py 19-74, email_tasks.py 9-22).
Fresh(k) == redis[k] \in {Empty, <<Source(k)>>}
Settles == <>[](/\ \A k \in Keys : Fresh(k)
                /\ \A m \in Mails : ~Waiting(m))
=============================================================================
