------------------------------ MODULE Reminders ------------------------------
(***************************************************************************)
(* The scheduled jobs that tell people things: reminders of deadlines and   *)
(* of appointments, the review of universities, and the job that marks      *)
(* tasks overdue (src/app/workers).  Celery beat puts a job into the Redis  *)
(* queue at its hour, and a worker takes it out before it runs it: a job    *)
(* waits for as long as no worker is there, and is gone when one dies.      *)
(*                                                                         *)
(* Each reminder is a notice, inserted in the one transaction of the job,   *)
(* and a mail, put into the queue of the mail task at once.  Tasks and      *)
(* appointments change at any time while a job runs.                        *)
(*                                                                         *)
(* Time is counted in instants, three a day: a quarter past midnight, eight *)
(* and nine o'clock in Almaty.  A job takes seconds, so no instant comes    *)
(* while one runs.                                                          *)
(***************************************************************************)
EXTENDS Integers

CONSTANTS
  Workers,     \* processes of the Celery worker
  Tasks,       \* ids of tasks: a bound on the tasks created
  Appts,       \* ids of appointments: a bound on the bookings
  Days,        \* bound: the days of a behaviour, from a Monday on
  Times,       \* bound: the instants of deadlines and appointments
  MaxEdits,    \* bound: changes to what exists
  MaxFaults    \* bound: instants without a worker, and jobs that fail

ASSUME DaysAssumption == Days \in Nat \ {0}
ASSUME TimesAssumption == Times \subseteq Nat

VARIABLES
  now,
  task,      \* the deadline and status of each task, and since when
  appt,      \* the start and status of each appointment, and since when
  verified,  \* whether every university was verified within a year
  queue,     \* the jobs waiting for a worker
  job,       \* what each worker is doing
  notices,   \* the reminders committed
  mailed,    \* the reminders put into the mail task's queue
  kept,      \* history: the runs that were made when they were due
  edits, faults

records == <<task, appt, verified>>
outcome == <<notices, mailed, kept>>
jobsVars == <<now, task, appt, verified, queue, job, notices, mailed, kept, edits, faults>>

Day(t) == t \div 3
Hour(t) == t % 3        \* 0, 1 and 2 for the three instants of a day
EightOn(d) == 3 * d + 1

\* What beat sends at an instant.  The appointment reminders are hourly.
Scheduled(t) ==
  [name : {"appointments"}
          \cup (IF Hour(t) = 0 THEN {"overdue"} ELSE {})
          \cup (IF Hour(t) = 1 THEN {"deadlines"} ELSE {})
          \cup (IF Hour(t) = 2 /\ Day(t) % 7 = 0 THEN {"staleness"} ELSE {}),
   at   : {t}]

NoJob == [name |-> "none", at |-> 0, notices |-> {}, mails |-> {}]
Absent == [status |-> "none", at |-> 0, since |-> 0]

JobsInit ==
  /\ now = 0
  /\ task = [t \in Tasks |-> Absent]
  /\ appt = [a \in Appts |-> Absent]
  /\ verified \in BOOLEAN
  /\ queue = Scheduled(0)
  /\ job = [w \in Workers |-> NoJob]
  /\ notices = {} /\ mailed = {} /\ kept = {}
  /\ edits = 0 /\ faults = 0

-----------------------------------------------------------------------------
(* Time.                                                                    *)

\* An instant passes; with jobs left in the queue, the workers were down.
Tick ==
  /\ now + 1 < 3 * Days
  /\ \A w \in Workers : job[w] = NoJob
  /\ \/ queue = {} /\ UNCHANGED faults
     \/ queue # {} /\ faults < MaxFaults /\ faults' = faults + 1
  /\ now' = now + 1
  /\ queue' = queue \cup Scheduled(now')
  /\ UNCHANGED <<records, job, outcome, edits>>

-----------------------------------------------------------------------------
(* What people do meanwhile.                                                *)

Edit == edits < MaxEdits /\ edits' = edits + 1
Untouched == UNCHANGED <<now, queue, job, outcome, faults>>

\* since: the first day that finds the row at eight as it is now.
Row(st, t) == [status |-> st, at |-> t, since |-> (now + 2) \div 3]

\* Deadlines lie in the future (TaskCreate, TaskUpdate).
CreateTask(t, due) ==
  /\ task[t].status = "none" /\ due > now
  /\ task' = [task EXCEPT ![t] = Row("open", due)]
  /\ UNCHANGED <<appt, verified, edits>> /\ Untouched

\* update_task moves the deadline and leaves the status.
MoveDeadline(t, due) ==
  /\ Edit /\ task[t].status # "none" /\ due > now
  /\ task' = [task EXCEPT ![t] = Row(@.status, due)]
  /\ UNCHANGED <<appt, verified>> /\ Untouched

\* patch_status, to done or back.
PatchStatus(t, st) ==
  /\ Edit /\ task[t].status # "none"
  /\ task' = [task EXCEPT ![t] = Row(st, @.at)]
  /\ UNCHANGED <<appt, verified>> /\ Untouched

\* The start of a slot may lie in the past.
Book(a, start) ==
  /\ appt[a].status = "none"
  /\ appt' = [appt EXCEPT ![a] = Row("confirmed", start)]
  /\ UNCHANGED <<task, verified, edits>> /\ Untouched

\* The queries find it no more: it is cancelled or completed, or its slot, which
\* holds the start, is deleted.
Cancel(a) ==
  /\ Edit /\ appt[a].status # "none"
  /\ appt' = [appt EXCEPT ![a] = Row("cancelled", @.at)]
  /\ UNCHANGED <<task, verified>> /\ Untouched

\* An adviser enters the date of verification, or a university without one.
Verify(v) ==
  /\ Edit /\ verified' = v
  /\ UNCHANGED <<task, appt>> /\ Untouched

-----------------------------------------------------------------------------
(* The jobs.                                                                *)

Reminder(kind, id, user, at) == [kind |-> kind, of |-> id, to |-> user, run |-> at]

\* The query takes the deadlines of four days, then the days that are left are
\* counted from date to date.
WithinThreeDays(due) == due >= now /\ due <= now + 9
InWindow(due) == due >= now /\ due <= now + 12
DaysLeft(due) == Day(due) - Day(now)

DeadlineRows(at) ==
  {Reminder("deadline", t, "student", at) : t \in
    {t \in Tasks : /\ task[t].status = "open"
                   /\ InWindow(task[t].at) /\ DaysLeft(task[t].at) \in {1, 3}}}

AppointmentRows(at) ==
  {Reminder("appointment", a, u, at) : u \in {"student", "adviser"}, a \in
    {a \in Appts : appt[a].status = "confirmed" /\ Day(appt[a].at) = Day(now)}}

StalenessRows(at) ==
  {Reminder("staleness", "universities", "adviser", at)}

RowsOf(j) ==
  CASE j.name = "deadlines" -> DeadlineRows(j.at)
    [] j.name = "appointments" -> AppointmentRows(j.at)
    [] j.name = "staleness" -> StalenessRows(j.at)
    [] j.name = "overdue" -> {}

\* The reminders of appointments stop here but within five minutes of eight, the
\* staleness job when it finds nothing.
ReturnsEarly(j) ==
  \/ j.name = "appointments" /\ Hour(now) # 1
  \/ j.name = "staleness" /\ verified

\* A worker takes a job off the queue and reads its rows.
Take(w, j) ==
  /\ job[w] = NoJob
  /\ queue' = queue \ {j}
  /\ job' = IF ReturnsEarly(j) THEN job ELSE
              [job EXCEPT ![w] = [name |-> j.name, at |-> j.at,
                                  notices |-> RowsOf(j), mails |-> RowsOf(j)]]
  /\ UNCHANGED <<now, records, outcome, edits, faults>>

\* The loops queue the mails as they go; a row's student comes before its
\* adviser.  The staleness job queues its mail when the notice is committed.
InTurn(w, m) ==
  /\ m.to = "adviser" =>
       ~\E s \in job[w].mails : s.to = "student" /\ s.of = m.of /\ s.kind = m.kind
  /\ job[w].name = "staleness" => job[w].notices = {}

QueueReminder(w) ==
  \E m \in job[w].mails :
    /\ InTurn(w, m)
    /\ mailed' = mailed \cup {m}
    /\ job' = [job EXCEPT ![w].mails = @ \ {m}]
    /\ UNCHANGED <<now, records, queue, notices, kept, edits, faults>>

\* The one commit of the job.
Ready(w) == job[w].name # "staleness" => job[w].mails = {}

\* It ran when it should: on its day, and the appointments at eight.
OnTime(w) ==
  CASE job[w].name = "deadlines" -> Day(now) = Day(job[w].at)
    [] job[w].name = "appointments" -> now = job[w].at
    [] OTHER -> FALSE

\* The commit, and the end of a job that has no mail left to queue.
Commit(w) ==
  /\ job[w].name \notin {"none", "overdue"}
  /\ job[w].notices # {} \/ job[w].mails = {}
  /\ Ready(w)
  /\ notices' = notices \cup job[w].notices
  /\ kept' = IF OnTime(w) THEN kept \cup {<<job[w].name, Day(job[w].at)>>} ELSE kept
  /\ job' = [job EXCEPT ![w] = IF @.mails = {} THEN NoJob ELSE [@ EXCEPT !.notices = {}]]
  /\ UNCHANGED <<now, records, queue, mailed, edits, faults>>

\* One UPDATE of what is late.
MarkOverdue(w) ==
  /\ job[w].name = "overdue"
  /\ task' = [t \in Tasks |->
       IF task[t].status = "open" /\ task[t].at < now THEN Row("overdue", task[t].at)
                                                      ELSE task[t]]
  /\ job' = [job EXCEPT ![w] = NoJob]
  /\ UNCHANGED <<now, appt, verified, queue, outcome, edits, faults>>

\* The worker dies, or the database or the broker fails: the transaction is
\* rolled back, and nobody runs the job again.
Fail(w) ==
  /\ job[w] # NoJob /\ faults < MaxFaults
  /\ faults' = faults + 1
  /\ job' = [job EXCEPT ![w] = NoJob]
  /\ UNCHANGED <<now, records, queue, outcome, edits>>

Work(w) == (\E j \in queue : Take(w, j)) \/ QueueReminder(w) \/ Commit(w) \/ MarkOverdue(w) \/ Fail(w)

Use ==
  \/ \E t \in Tasks, due \in Times : CreateTask(t, due) \/ MoveDeadline(t, due)
  \/ \E t \in Tasks, st \in {"open", "done"} : PatchStatus(t, st)
  \/ \E a \in Appts : Cancel(a) \/ \E start \in Times : Book(a, start)
  \/ \E v \in BOOLEAN : Verify(v)

JobsNext == Tick \/ Use \/ \E w \in Workers : Work(w)

JobsSpec == JobsInit /\ [][JobsNext]_jobsVars

-----------------------------------------------------------------------------
Reminded(kind, id, user, d) == Reminder(kind, id, user, EightOn(d)) \in notices

\* Who stood unchanged at eight on a day whose run came on time was reminded on
\* it exactly when the rule says so: of a deadline one day and three days ahead
\* by the calendar, whatever its hour and however the four-day window of the
\* query cuts it, and of an appointment on its day, both sides
\* (reminder_tasks.py 22-43, 74-101).  Whoever has a reminder among the notices
\* has the mail, although mails cannot be rolled back and a mail without its
\* notice may be left by a job that failed; the staleness job, which commits
\* first, never leaves one (reminder_tasks.py 48-71, maintenance_tasks.py 56-71).
RemindersKept ==
  /\ \A t \in Tasks, d \in 0 .. Days - 1 :
       <<"deadlines", d>> \in kept /\ task[t].status = "open" /\ task[t].since <= d =>
         (Reminded("deadline", t, "student", d) <=> Day(task[t].at) - d \in {1, 3})
  /\ \A a \in Appts, d \in 0 .. Days - 1 :
       /\ <<"appointments", d>> \in kept
       /\ appt[a].status = "confirmed" /\ appt[a].since <= d
       => \A u \in {"student", "adviser"} :
            Reminded("appointment", a, u, d) <=> Day(appt[a].at) = d
  /\ \A n \in notices : n.kind # "staleness" => n \in mailed
  /\ \A m \in mailed : m.kind = "staleness" => m \in notices
=============================================================================
