------------------------------ MODULE Roadmaps ------------------------------
(***************************************************************************)
(* Assigning a roadmap to a student (src/app/modules/roadmaps), with the   *)
(* enrollment, the tasks and the calendar entries it creates in the        *)
(* modules enrollments, tasks and calendar.                                *)
(*                                                                         *)
(* assign_roadmap calls services that each commit, so one request is a     *)
(* chain of transactions: the roadmap of the student, the enrollment, then *)
(* for each template task the task, its notice and its calendar entry, and *)
(* the notice of the roadmap at the end.  It may fail between any two, and *)
(* nothing undoes or resumes what was committed.  Only the two notices are *)
(* tried and forgotten; but a notice of a task whose INSERT fails leaves   *)
(* the session unusable, and the next statement fails.                     *)
(*                                                                         *)
(* The template of a roadmap never changes once it is created, so it is a  *)
(* constant.  A template task is its place in the order of the template.   *)
(***************************************************************************)
EXTENDS Naturals

CONSTANTS
  Procs,         \* assignments being served at once
  Assigns,       \* ids of student_roadmaps: a bound on the assignments
  Students,
  Universities,
  N,             \* tasks of the template
  NoAssign, NoStudent, NoUniversity

ASSUME TemplateAssumption == N \in Nat
ASSUME RoadmapNullAssumption ==
  NoAssign \notin Assigns /\ NoStudent \notin Students /\ NoUniversity \notin Universities

Template == 1 .. N

VARIABLES
  link,      \* the roadmap's university_id
  owner,     \* the student_id of each student_roadmap, NoStudent before it exists
  due,       \* due[a][i]: the deadline assignment a gives to task i
  enrolled,  \* rows of enrollments: <<student, university>>
  task,      \* task[a][i]: none, live or gone (deleted)
  event,     \* event[a][i]: the calendar entry of that task's deadline
  noticed,   \* assignments whose student has been told of the roadmap
  txn        \* the local variables of the request each process serves

rows == <<owner, due, enrolled, task, event, noticed>>
vars == <<link, owner, due, enrolled, task, event, noticed, txn>>

\* past stands for any deadline that is not in the future, asked for by the
\* adviser or computed from a days_offset that is not positive.
Deadline == {"none", "future", "past"}
Life == {"none", "live", "gone"}

Frame == [pc     : {"idle", "enroll", "insert", "task", "notice", "event"},
          assign : Assigns \cup {NoAssign},
          uni    : Universities \cup {NoUniversity},  \* loaded with the roadmap
          step   : 1 .. N + 1]                        \* the template task at hand

Idle == [pc |-> "idle", assign |-> NoAssign, uni |-> NoUniversity, step |-> 1]

TypeOK ==
  /\ link \in Universities \cup {NoUniversity}
  /\ owner \in [Assigns -> Students \cup {NoStudent}]
  /\ due \in [Assigns -> [Template -> Deadline]]
  /\ enrolled \subseteq Students \X Universities
  /\ task \in [Assigns -> [Template -> Life]]
  /\ event \in [Assigns -> [Template -> Life]]
  /\ noticed \subseteq Assigns
  /\ txn \in [Procs -> Frame]

Nothing(value) == [a \in Assigns |-> [i \in Template |-> value]]

Init ==
  /\ link = NoUniversity
  /\ owner = [a \in Assigns |-> NoStudent]
  /\ due = Nothing("none")
  /\ enrolled = {}
  /\ task = Nothing("none")
  /\ event = Nothing("none")
  /\ noticed = {}
  /\ txn = [p \in Procs |-> Idle]

End(p) == txn' = [txn EXCEPT ![p] = Idle]

\* A failure between two commits.
Abort(p) == txn[p] # Idle /\ End(p) /\ UNCHANGED <<link, rows>>

----------------------------------------------------------------------------
(* The assignment.                                                         *)

\* The student_roadmap is inserted and committed first.
AssignRoadmap(p, a, st, deadlines) ==
  /\ txn[p] = Idle
  /\ owner[a] = NoStudent
  /\ owner' = [owner EXCEPT ![a] = st]
  /\ due' = [due EXCEPT ![a] = deadlines]
  /\ txn' = [txn EXCEPT ![p] =
       [Idle EXCEPT !.pc = IF link = NoUniversity THEN "task" ELSE "enroll",
                    !.assign = a, !.uni = link]]
  /\ UNCHANGED <<link, enrolled, task, event, noticed>>

EnrollmentSwapped(st, u) == <<u, st>>
Enrollment(st, u) == <<st, u>>

\* A student enrolled already is left alone.
EnrollRead(p) ==
  /\ txn[p].pc = "enroll"
  /\ txn' = [txn EXCEPT ![p].pc =
       IF Enrollment(owner[txn[p].assign], txn[p].uni) \in enrolled
         THEN "task" ELSE "insert"]
  /\ UNCHANGED <<link, rows>>

\* The index on (student, university) is unique: where someone else has
\* enrolled the student since, the INSERT fails and the request with it.
EnrollCommit(p) ==
  LET row == Enrollment(owner[txn[p].assign], txn[p].uni) IN
  /\ txn[p].pc = "insert"
  /\ row \notin enrolled
  /\ enrolled' = enrolled \cup {row}
  /\ txn' = [txn EXCEPT ![p].pc = "task"]
  /\ UNCHANGED <<link, owner, due, task, event, noticed>>

\* create_adviser_task commits the task.
TaskCommit(p) ==
  LET a == txn[p].assign
      i == txn[p].step IN
  /\ txn[p].pc = "task" /\ i \in Template
  /\ due[a][i] # "past"
  /\ task' = [task EXCEPT ![a][i] = "live"]
  /\ txn' = [txn EXCEPT ![p].pc = "notice"]
  /\ UNCHANGED <<link, owner, due, enrolled, event, noticed>>

\* A deadline that is not in the future ends the request here, after the
\* tasks before it are committed.
\* (SkipPast would go on with the next one.)
SkipPast(p) ==
  LET i == txn[p].step IN
  /\ txn[p].pc = "task" /\ i \in Template
  /\ due[txn[p].assign][i] = "past"
  /\ txn' = [txn EXCEPT ![p].step = i + 1]
  /\ UNCHANGED <<link, rows>>

RejectDeadline(p) ==
  LET i == txn[p].step IN
  /\ txn[p].pc = "task" /\ i \in Template
  /\ due[txn[p].assign][i] = "past"
  /\ End(p)
  /\ UNCHANGED <<link, rows>>

\* The student is told of the task; a task without a deadline is done with.
TaskNotice(p) ==
  LET i == txn[p].step IN
  /\ txn[p].pc = "notice"
  /\ txn' = IF due[txn[p].assign][i] = "future"
              THEN [txn EXCEPT ![p].pc = "event"]
              ELSE [txn EXCEPT ![p].pc = "task", ![p].step = i + 1]
  /\ UNCHANGED <<link, rows>>

\* CalendarService.create_event commits the entry, whether or not the task is
\* still there.
EventCommit(p) ==
  LET a == txn[p].assign
      i == txn[p].step IN
  /\ txn[p].pc = "event"
  /\ event' = [event EXCEPT ![a][i] = "live"]
  /\ txn' = [txn EXCEPT ![p].pc = "task", ![p].step = i + 1]
  /\ UNCHANGED <<link, owner, due, enrolled, task, noticed>>

AlmostThrough(p) == txn[p].pc = "task" /\ txn[p].step >= N
Through(p) == txn[p].pc = "task" /\ txn[p].step > N

\* The student is told of the roadmap, if that works; the request succeeds.
RoadmapNotice(p) ==
  /\ Through(p)
  /\ \/ noticed' = noticed \cup {txn[p].assign}
     \/ UNCHANGED noticed
  /\ End(p)
  /\ UNCHANGED <<link, owner, due, enrolled, task, event>>

----------------------------------------------------------------------------
(* What others do meanwhile.                                               *)

\* update_roadmap with a university, or with null.
UpdateRoadmap(u) ==
  /\ link # u
  /\ link' = u
  /\ UNCHANGED <<rows, txn>>

\* enroll() checks and inserts; the unique index makes that one step.
Enroll(st, u) ==
  /\ <<st, u>> \notin enrolled
  /\ enrolled' = enrolled \cup {<<st, u>>}
  /\ UNCHANGED <<link, owner, due, task, event, noticed, txn>>

DeleteEnrollment(st, u) ==
  /\ <<st, u>> \in enrolled
  /\ enrolled' = enrolled \ {<<st, u>>}
  /\ UNCHANGED <<link, owner, due, task, event, noticed, txn>>

\* delete_task leaves the calendar alone.
DeleteTask(a, i) ==
  /\ task[a][i] = "live"
  /\ task' = [task EXCEPT ![a][i] = "gone"]
  /\ UNCHANGED <<link, owner, due, enrolled, event, noticed, txn>>

DeleteEvent(a, i) ==
  /\ event[a][i] = "live"
  /\ event' = [event EXCEPT ![a][i] = "gone"]
  /\ UNCHANGED <<link, owner, due, enrolled, task, noticed, txn>>

----------------------------------------------------------------------------
Assignment(p) ==
  \/ \E a \in Assigns, st \in Students, deadlines \in [Template -> Deadline] :
       AssignRoadmap(p, a, st, deadlines)
  \/ EnrollRead(p) \/ EnrollCommit(p)
  \/ TaskCommit(p) \/ RejectDeadline(p) \/ TaskNotice(p) \/ EventCommit(p)
  \/ RoadmapNotice(p)

Others ==
  \/ \E u \in Universities \cup {NoUniversity} : UpdateRoadmap(u)
  \/ \E st \in Students, u \in Universities : Enroll(st, u) \/ DeleteEnrollment(st, u)
  \/ \E a \in Assigns, i \in Template : DeleteTask(a, i) \/ DeleteEvent(a, i)

Next ==
  \/ \E p \in Procs : Assignment(p) \/ Abort(p)
  \/ Others

Spec == Init /\ [][Next]_vars

\* Nothing fails: a request ends early only where the code refuses it.
UnfailingNext == Others \/ \E p \in Procs : Assignment(p)
UnfailingSpec == Init /\ [][UnfailingNext]_vars
----------------------------------------------------------------------------
\* The task was made for the assignment, and so was its calendar entry if it
\* has a deadline; either may have been deleted since.
Made(a, i) == task[a][i] # "none"
MadeWithEntry(a, i) == Made(a, i) /\ (due[a][i] = "future" => event[a][i] # "none")

\* A student is told of a roadmap only when every task of it was made, with
\* its calendar entry: no failure or refusal half-way is announced
\* (service.py 129-197).
NoticedIsComplete ==
  \A a \in noticed, i \in Template : MadeWithEntry(a, i)

\* An assignment that stopped half-way stopped at one task: all before it are
\* complete, nothing after it was made, and no entry stands for a task that
\* never was (service.py 129-167).
StopsAtOneTask ==
  \A a \in Assigns, i \in Template :
    /\ event[a][i] # "none" => Made(a, i) /\ due[a][i] = "future"
    /\ Made(a, i) => \A j \in 1 .. i - 1 : MadeWithEntry(a, j)

\* The documented effect of POST /roadmaps/{id}/assign, without any failure: an
\* assignment that is no longer being served has its tasks and their entries
\* (service.py 101-107, 129-137).
AssignedIsComplete ==
  \A a \in Assigns :
    owner[a] # NoStudent /\ (\A p \in Procs : txn[p].assign # a)
      => \A i \in Template : MadeWithEntry(a, i)
=============================================================================
