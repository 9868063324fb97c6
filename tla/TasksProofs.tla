---------------------------- MODULE TasksProofs -----------------------------
(* Theorems about Tasks, for any number of requests, tasks and instants.    *)
EXTENDS Tasks, TLAPS

\* The job's instant is never ahead of the clock: a row that is late at it is
\* late still.
JobInThePast == job.now \leq clock

\* A request under way has a task.
OnSomeTask == \A p \in Procs : txn[p].pc # "idle" => txn[p].task \in Tasks

IInv ==
  /\ TypeOK
  /\ OnSomeTask
  /\ JobInThePast
  /\ DoneHasCompletion
  /\ HistoryExplains

----------------------------------------------------------------------------
\* A process that serves nothing has a well-typed frame.
LEMMA IdleType == Idle \in Frame
  BY DEF Idle, Frame, TaskStatus, Patchable, Deadlines

\* A job that is not running has a well-typed frame.
LEMMA AsleepType == Asleep \in [on : BOOLEAN, now : Instants, rows : SUBSET Tasks]
  BY TaskClockAssumption DEF Asleep, Instants

\* No tasks, no job and idle processes satisfy the invariant.
LEMMA InitIInv == Init => IInv
<1> SUFFICES ASSUME Init PROVE IInv
  OBVIOUS
<1>1. TypeOK
  BY IdleType, AsleepType, TaskClockAssumption
     DEF Init, TypeOK, Deadlines, Instants
<1>2. JobInThePast
  BY DEF Init, Asleep, JobInThePast
<1>3. DoneHasCompletion /\ HistoryExplains
  BY DEF Init, DoneHasCompletion, HistoryExplains, Exists, TaskStatus, Patchable
<1>4. OnSomeTask
  BY DEF Init, Idle, OnSomeTask
<1> QED
  BY <1>1, <1>2, <1>3, <1>4 DEF IInv

----------------------------------------------------------------------------
(* Each step preserves the invariant.                                      *)

\* A step that writes no row and leaves the job alone: a request that begins
\* or fails.
LEMMA FrameStep ==
  ASSUME IInv, NEW p \in Procs, NEW frame \in Frame,
         frame.pc # "idle" => frame.task \in Tasks,
         txn' = [txn EXCEPT ![p] = frame], UNCHANGED <<rows, clock, job>>
  PROVE  IInv'
<1>1. TypeOK'
  BY DEF IInv, TypeOK, rows
<1>2. JobInThePast' /\ DoneHasCompletion' /\ HistoryExplains'
  BY DEF IInv, rows, JobInThePast, DoneHasCompletion, HistoryExplains, Exists
<1>3. OnSomeTask'
  BY DEF IInv, TypeOK, OnSomeTask
<1> QED
  BY <1>1, <1>2, <1>3 DEF IInv

\* A request that begins writes nothing.
LEMMA RequestStep ==
  ASSUME IInv, NEW p \in Procs, Request(p)
  PROVE  IInv'
<1>1. ASSUME NEW t \in Tasks, NEW st \in Patchable, PatchRead(p, t, st)
      PROVE  IInv'
  <2> DEFINE frame == [Idle EXCEPT !.pc = "patch", !.task = t,
                                   !.saw = status[t], !.new = st]
  <2>1. frame \in Frame /\ frame.task = t
    BY <1>1, IdleType DEF PatchRead, Exists, Frame, Idle
  <2> QED
    BY <1>1, <2>1, FrameStep DEF PatchRead, Begin
<1>2. ASSUME NEW t \in Tasks, NEW d \in Deadlines, UpdateRead(p, t, d)
      PROVE  IInv'
  <2> DEFINE frame == [Idle EXCEPT !.pc = "update", !.task = t,
                                   !.had = deadline[t], !.due = d]
  <2>1. frame \in Frame /\ frame.task = t
    BY IdleType DEF IInv, TypeOK, Frame, Idle
  <2> QED
    BY <1>2, <2>1, FrameStep DEF UpdateRead, Begin
<1>3. CASE PatchCommit(p)
  <2> DEFINE t == txn[p].task
             new == txn[p].new
  <2>1. t \in Tasks /\ new \in Patchable /\ txn[p] \in Frame
    BY <1>3 DEF PatchCommit, IInv, TypeOK, OnSomeTask, Frame
  <2>2. TypeOK'
    <3>1. status' \in [Tasks -> TaskStatus \cup {"none", "gone"}]
      BY <1>3, <2>1 DEF PatchCommit, IInv, TypeOK, TaskStatus
    <3>2. completed' \in [Tasks -> BOOLEAN]
      BY <1>3, <2>1 DEF PatchCommit, CompletedNow, IInv, TypeOK
    <3>3. history' \in [Tasks -> SUBSET Patchable]
      BY <1>3, <2>1 DEF PatchCommit, Logged, IInv, TypeOK
    <3>4. txn' \in [Procs -> Frame]
      BY <1>3, IdleType DEF PatchCommit, End, IInv, TypeOK
    <3> QED
      BY <1>3, <3>1, <3>2, <3>3, <3>4 DEF PatchCommit, IInv, TypeOK
  <2>3. DoneHasCompletion'
    BY <1>3, <2>1 DEF PatchCommit, CompletedNow, IInv, TypeOK, DoneHasCompletion
  <2>4. HistoryExplains'
    BY <1>3, <2>1 DEF PatchCommit, Logged, IInv, TypeOK, HistoryExplains, Exists
  <2>5. OnSomeTask'
    BY <1>3 DEF PatchCommit, End, Idle, IInv, TypeOK, OnSomeTask
  <2> QED
    BY <1>3, <2>2, <2>3, <2>4, <2>5 DEF PatchCommit, IInv, JobInThePast
<1>4. CASE UpdateCommit(p)
  <2>1. TypeOK'
    BY <1>4, IdleType DEF UpdateCommit, End, IInv, TypeOK, Frame
  <2>2. OnSomeTask'
    BY <1>4 DEF UpdateCommit, End, Idle, IInv, TypeOK, OnSomeTask
  <2> QED
    BY <1>4, <2>1, <2>2
       DEF UpdateCommit, IInv, JobInThePast, DoneHasCompletion, HistoryExplains, Exists
<1>5. CASE Abort(p)
  BY <1>5, IdleType, FrameStep DEF Abort, End, Idle
<1> QED
  BY <1>1, <1>2, <1>3, <1>4, <1>5 DEF Request

\* Creating and deleting a task.
LEMMA TaskStep ==
  ASSUME IInv, NEW t \in Tasks, DeleteTask(t) \/ \E d \in Deadlines : CreateTask(t, d)
  PROVE  IInv'
<1>1. CASE DeleteTask(t)
  BY <1>1 DEF DeleteTask, IInv, TypeOK, OnSomeTask, JobInThePast, DoneHasCompletion,
              HistoryExplains, Exists, TaskStatus, Patchable
<1>2. ASSUME NEW d \in Deadlines, CreateTask(t, d)
      PROVE  IInv'
  BY <1>2 DEF CreateTask, IInv, TypeOK, OnSomeTask, JobInThePast, DoneHasCompletion,
              HistoryExplains, Exists, TaskStatus, Patchable
<1> QED
  BY <1>1, <1>2

\* The job searches, commits or fails.
LEMMA JobStep ==
  ASSUME IInv, JobSearch \/ JobCommit \/ JobAbort
  PROVE  IInv'
<1>1. CASE JobSearch
  <2>1. TypeOK' /\ JobInThePast'
    BY <1>1 DEF JobSearch, Found, rows, IInv, TypeOK, JobInThePast, Instants
  <2> QED
    BY <1>1, <2>1 DEF JobSearch, rows, IInv, OnSomeTask, DoneHasCompletion, HistoryExplains, Exists
<1>2. CASE JobCommit
  <2>1. TypeOK' /\ JobInThePast'
    BY <1>2, AsleepType, TaskClockAssumption
       DEF JobCommit, IInv, TypeOK, JobInThePast, Asleep, Instants, TaskStatus
  <2>2. DoneHasCompletion' /\ HistoryExplains'
    BY <1>2 DEF JobCommit, StillLate, LateAt, Unfinished, IInv, TypeOK,
                DoneHasCompletion, HistoryExplains, Exists, TaskStatus, Patchable
  <2> QED
    BY <1>2, <2>1, <2>2 DEF JobCommit, IInv, OnSomeTask
<1>3. CASE JobAbort
  <2>1. TypeOK' /\ JobInThePast'
    BY <1>3, AsleepType, TaskClockAssumption
       DEF JobAbort, rows, IInv, TypeOK, JobInThePast, Asleep, Instants
  <2> QED
    BY <1>3, <2>1 DEF JobAbort, rows, IInv, OnSomeTask, DoneHasCompletion, HistoryExplains, Exists
<1> QED
  BY <1>1, <1>2, <1>3

\* The invariant is inductive.
LEMMA NextStep == IInv /\ [Next]_vars => IInv'
<1> SUFFICES ASSUME IInv, [Next]_vars PROVE IInv'
  OBVIOUS
<1>1. CASE Tick
  BY <1>1, TaskClockAssumption
     DEF Tick, rows, IInv, TypeOK, OnSomeTask, JobInThePast, DoneHasCompletion,
         HistoryExplains, Exists, Instants
<1>2. CASE UNCHANGED vars
  BY <1>2 DEF vars, IInv, TypeOK, OnSomeTask, JobInThePast, DoneHasCompletion, HistoryExplains, Exists
<1> QED
  BY <1>1, <1>2, RequestStep, TaskStep, JobStep DEF Next

----------------------------------------------------------------------------
\* The inductive invariant holds of every reachable state.
THEOREM Inductive == Spec => []IInv
<1> QED
  BY InitIInv, NextStep, PTL DEF Spec

\* Columns, locals and the job's own keep their types (tasks/models.py).
THEOREM TypeCorrect == Spec => []TypeOK
<1>1. IInv => TypeOK
  BY DEF IInv
<1> QED
  BY <1>1, Inductive, PTL

\* A done task has its completion time, whatever the requests for it had
\* loaded (patch_status).
THEOREM DoneIsComplete == Spec => []DoneHasCompletion
<1>1. IInv => DoneHasCompletion
  BY DEF IInv
<1> QED
  BY <1>1, Inductive, PTL

\* The history names every status that a request has given a task
\* (patch_status, add_history).
THEOREM HistoryIsKept == Spec => []HistoryExplains
<1>1. IInv => HistoryExplains
  BY DEF IInv
<1> QED
  BY <1>1, Inductive, PTL

\* The step that turns a task overdue is the job's, and the task is late then.
LEMMA OverdueStep ==
  ASSUME IInv, [Next]_vars, NEW t \in Tasks,
         status'[t] = "overdue", status[t] # "overdue"
  PROVE  Late(t)
<1>1. ASSUME NEW p \in Procs, Request(p) PROVE FALSE
  <2>1. CASE PatchCommit(p)
    BY <2>1 DEF PatchCommit, IInv, TypeOK, Frame, Patchable
  <2> QED
    BY <1>1, <2>1 DEF Request, PatchRead, UpdateRead, UpdateCommit, Abort, rows
<1>2. ASSUME NEW s \in Tasks, DeleteTask(s) \/ \E d \in Deadlines : CreateTask(s, d)
      PROVE  FALSE
  BY <1>2 DEF DeleteTask, CreateTask, IInv, TypeOK
<1>3. CASE JobCommit
  <2>1. LateAt(t, job.now)
    BY <1>3 DEF JobCommit, StillLate, IInv, TypeOK
  <2> QED
    BY <2>1, TaskClockAssumption
       DEF LateAt, Late, IInv, TypeOK, JobInThePast, Deadlines, Instants
<1>4. CASE JobSearch \/ JobAbort \/ Tick \/ UNCHANGED vars
  BY <1>4 DEF JobSearch, JobAbort, Tick, rows, vars
<1> QED
  BY <1>1, <1>2, <1>3, <1>4 DEF Next

\* The job never marks a task that was finished, moved or deleted after its
\* UPDATE had found it (mark_overdue_bulk).
THEOREM OverdueIsLate == Spec => OverdueOnlyWhenLate
<1>1. IInv /\ [Next]_vars =>
        [\A t \in Tasks : status'[t] = "overdue" /\ status[t] # "overdue" => Late(t)]_vars
  BY OverdueStep
<1> QED
  BY <1>1, Inductive, PTL DEF Spec, OverdueOnlyWhenLate
=============================================================================
