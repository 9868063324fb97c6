------------------------------- MODULE Tasks --------------------------------
(***************************************************************************)
(* Tasks of students, their history and the nightly job that marks them    *)
(* overdue (src/app/modules/tasks, src/app/workers/maintenance_tasks.py).  *)
(*                                                                         *)
(* update_task and patch_status load the task first and write later, and   *)
(* the session writes only the columns whose new value differs from the    *)
(* one it loaded.  The job is one UPDATE ... WHERE: PostgreSQL finds the   *)
(* rows, waits for those that others have locked and tests its condition   *)
(* again on what they committed.  Its search and its end are two steps     *)
(* here, so that everything may happen in between.                         *)
(***************************************************************************)
EXTENDS Naturals

CONSTANTS
  Procs,     \* requests being served at once
  Tasks,     \* ids of tasks: a bound on the tasks created
  MaxClock,  \* bound: the last instant of a behaviour
  NoTask, NoDeadline

ASSUME TaskClockAssumption == MaxClock \in Nat
ASSUME TaskNullAssumption == NoTask \notin Tasks /\ NoDeadline \notin Nat

VARIABLES
  status,     \* none before the task exists, gone after it is deleted
  deadline,
  completed,  \* whether completed_at is set
  history,    \* the new_value of each status change in the task's history
  clock,
  txn,        \* the local variables of the request each process serves
  job         \* the job: whether it runs, since when, the rows it found

rows == <<status, deadline, completed, history>>
vars == <<status, deadline, completed, history, clock, txn, job>>

Instants == 0 .. MaxClock
Deadlines == Instants \cup {NoDeadline}
Patchable == {"todo", "in_progress", "done"}
TaskStatus == Patchable \cup {"overdue"}

Frame == [pc   : {"idle", "patch", "update"},
          task : Tasks \cup {NoTask},
          saw  : TaskStatus,       \* the status loaded
          had  : Deadlines,        \* the deadline loaded
          new  : Patchable,        \* the status asked for
          due  : Deadlines]        \* the deadline asked for

Idle == [pc |-> "idle", task |-> NoTask, saw |-> "todo", had |-> NoDeadline,
         new |-> "todo", due |-> NoDeadline]

Asleep == [on |-> FALSE, now |-> 0, rows |-> {}]

TypeOK ==
  /\ status \in [Tasks -> TaskStatus \cup {"none", "gone"}]
  /\ deadline \in [Tasks -> Deadlines]
  /\ completed \in [Tasks -> BOOLEAN]
  /\ history \in [Tasks -> SUBSET Patchable]
  /\ clock \in Instants
  /\ txn \in [Procs -> Frame]
  /\ job \in [on : BOOLEAN, now : Instants, rows : SUBSET Tasks]

Init ==
  /\ status = [t \in Tasks |-> "none"]
  /\ deadline = [t \in Tasks |-> NoDeadline]
  /\ completed = [t \in Tasks |-> FALSE]
  /\ history = [t \in Tasks |-> {}]
  /\ clock = 0
  /\ txn = [p \in Procs |-> Idle]
  /\ job = Asleep

Exists(t) == status[t] \in TaskStatus

\* TaskCreate and TaskUpdate refuse a deadline that is not in the future.
Acceptable(d) == d # NoDeadline => d > clock

Begin(p, frame) == txn[p] = Idle /\ txn' = [txn EXCEPT ![p] = frame]
End(p) == txn' = [txn EXCEPT ![p] = Idle]

\* A failure before commit, or a task that is gone when it is written.
Abort(p) == txn[p] # Idle /\ End(p) /\ UNCHANGED <<rows, clock, job>>

Tick ==
  /\ clock < MaxClock
  /\ clock' = clock + 1
  /\ UNCHANGED <<rows, txn, job>>

----------------------------------------------------------------------------
(* Requests.                                                               *)

\* An adviser's task or a student's own; both start as todo.
CreateTask(t, d) ==
  /\ status[t] = "none" /\ Acceptable(d)
  /\ status' = [status EXCEPT ![t] = "todo"]
  /\ deadline' = [deadline EXCEPT ![t] = d]
  /\ UNCHANGED <<completed, history, clock, txn, job>>

\* The history goes with the task: task_id has ON DELETE CASCADE.
DeleteTask(t) ==
  /\ Exists(t)
  /\ status' = [status EXCEPT ![t] = "gone"]
  /\ history' = [history EXCEPT ![t] = {}]
  /\ UNCHANGED <<deadline, completed, clock, txn, job>>

PatchRead(p, t, st) ==
  /\ Exists(t)
  /\ Begin(p, [Idle EXCEPT !.pc = "patch", !.task = t, !.saw = status[t], !.new = st])
  /\ UNCHANGED <<rows, clock, job>>

\* completed_at is set by every request for done, and never cleared.
CompletedFromTodo(t, new, saw) == completed[t] \/ (new = "done" /\ saw = "todo")
CompletedNow(t, new, saw) == completed[t] \/ new = "done"

\* The new_value of the entry add_history writes.
LoggedSwapped(saw, new) == saw
Logged(saw, new) == new

PatchCommit(p) ==
  LET t == txn[p].task
      saw == txn[p].saw
      new == txn[p].new IN
  /\ txn[p].pc = "patch" /\ Exists(t)
  /\ status' = [status EXCEPT ![t] = IF new = saw THEN @ ELSE new]
  /\ completed' = [completed EXCEPT ![t] = CompletedNow(t, new, saw)]
  /\ history' = [history EXCEPT ![t] = @ \cup {Logged(saw, new)}]
  /\ End(p)
  /\ UNCHANGED <<deadline, clock, job>>

\* update_task with a deadline, given or cleared; the other fields do not
\* matter here.
UpdateRead(p, t, d) ==
  /\ Exists(t) /\ Acceptable(d)
  /\ Begin(p, [Idle EXCEPT !.pc = "update", !.task = t, !.had = deadline[t], !.due = d])
  /\ UNCHANGED <<rows, clock, job>>

UpdateCommit(p) ==
  LET t == txn[p].task IN
  /\ txn[p].pc = "update" /\ Exists(t)
  /\ deadline' = [deadline EXCEPT ![t] = IF txn[p].due = txn[p].had THEN @ ELSE txn[p].due]
  /\ End(p)
  /\ UNCHANGED <<status, completed, history, clock, job>>

----------------------------------------------------------------------------
(* The job.                                                                *)

\* Unfinished at the instant now, with a deadline that has passed.
Unfinished == {"todo", "in_progress"}
LateAt(t, now) == status[t] \in Unfinished /\ deadline[t] # NoDeadline /\ deadline[t] < now
Late(t) == LateAt(t, clock)

\* The rows the search finds, and those that still match when it has them.
FoundTodo == {t \in Tasks : Late(t) /\ status[t] = "todo"}
Found == {t \in Tasks : Late(t)}
AsFound == job.rows
StillLate == {t \in job.rows : LateAt(t, job.now)}

JobSearch ==
  /\ ~job.on
  /\ job' = [on |-> TRUE, now |-> clock, rows |-> Found]
  /\ UNCHANGED <<rows, clock, txn>>

JobCommit ==
  /\ job.on
  /\ status' = [t \in Tasks |-> IF t \in StillLate THEN "overdue" ELSE status[t]]
  /\ job' = Asleep
  /\ UNCHANGED <<deadline, completed, history, clock, txn>>

\* The worker dies or loses its connection.
JobAbort ==
  /\ job.on
  /\ job' = Asleep
  /\ UNCHANGED <<rows, clock, txn>>

----------------------------------------------------------------------------
Request(p) ==
  \/ \E t \in Tasks, st \in Patchable : PatchRead(p, t, st)
  \/ \E t \in Tasks, d \in Deadlines : UpdateRead(p, t, d)
  \/ PatchCommit(p) \/ UpdateCommit(p) \/ Abort(p)

Next ==
  \/ \E p \in Procs : Request(p)
  \/ \E t \in Tasks : DeleteTask(t) \/ \E d \in Deadlines : CreateTask(t, d)
  \/ JobSearch \/ JobCommit \/ JobAbort
  \/ Tick

Spec == Init /\ [][Next]_vars

\* Celery beat starts the job every day, and not every run of it fails.
Fairness == WF_vars(JobSearch) /\ SF_vars(JobCommit)

FairSpec == Spec /\ Fairness
----------------------------------------------------------------------------
\* A task turns overdue only while it is unfinished and its deadline has
\* passed, although the job found it earlier and a student may have finished
\* it, or an adviser moved the deadline, since (tasks/repository.py 56-63).
OverdueOnlyWhenLate ==
  [][\A t \in Tasks : status'[t] = "overdue" /\ status[t] # "overdue" => Late(t)]_vars

\* A task that is done has its completion time, whatever status the request
\* that finished it had loaded and whatever ran beside (service.py 187-192).
DoneHasCompletion ==
  \A t \in Tasks : status[t] = "done" => completed[t]

\* A status other than the first and the job's has its entry in the history,
\* although the request that wrote it may have loaded another status than the
\* one it replaced (service.py 187-197).
HistoryExplains ==
  \A t \in Tasks : Exists(t) => status[t] \in {"todo", "overdue"} \cup history[t]

\* A task whose deadline has passed is marked, finished, moved or deleted in
\* the end: no status it may have escapes the job (maintenance_tasks.py 17-22).
LateIsMarked == \A t \in Tasks : Late(t) ~> ~Late(t)
=============================================================================
