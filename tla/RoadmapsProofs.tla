--------------------------- MODULE RoadmapsProofs ---------------------------
(* Theorems about Roadmaps, for any number of requests, assignments,        *)
(* students, universities and template tasks.                               *)
EXTENDS Roadmaps, TLAPS

----------------------------------------------------------------------------
(* The inductive invariant: where a request is in its assignment, and what  *)
(* it has committed so far.                                                 *)

Making(p) == txn[p].pc \in {"notice", "event"}

\* The tasks before the one at hand are complete, those after it are not
\* there, and the one at hand is there as far as the request has come.
Coherent(p) ==
  LET a == txn[p].assign
      k == txn[p].step IN
  txn[p].pc # "idle" =>
    /\ a \in Assigns /\ owner[a] # NoStudent
    /\ txn[p].pc \in {"enroll", "insert"} => txn[p].uni \in Universities
    /\ Making(p) => k \in Template /\ Made(a, k)
    /\ txn[p].pc = "event" => due[a][k] = "future"
    /\ \A i \in Template : i < k => MadeWithEntry(a, i)
    /\ \A i \in Template : i > k \/ (i = k /\ ~Making(p)) => task[a][i] = "none"
    /\ \A i \in Template : i >= k => event[a][i] = "none"

\* No two requests serve one assignment.
DistinctAssigns ==
  \A p, q \in Procs : txn[p].pc # "idle" /\ txn[q].pc # "idle" /\ p # q
    => txn[p].assign # txn[q].assign

\* What holds of one assignment whoever serves it: nothing is there before it
\* exists, and the two properties.
Unborn(a) ==
  owner[a] = NoStudent => \A i \in Template : task[a][i] = "none" /\ event[a][i] = "none"

Stops(a) ==
  \A i \in Template :
    /\ event[a][i] # "none" => Made(a, i) /\ due[a][i] = "future"
    /\ Made(a, i) => \A j \in 1 .. i - 1 : MadeWithEntry(a, j)

Told(a) ==
  a \in noticed => owner[a] # NoStudent /\ \A i \in Template : MadeWithEntry(a, i)

Sound(a) == Unborn(a) /\ Stops(a) /\ Told(a)

IInv ==
  /\ TypeOK
  /\ \A p \in Procs : Coherent(p)
  /\ DistinctAssigns
  /\ \A a \in Assigns : Sound(a)

----------------------------------------------------------------------------
\* A process that serves nothing has a well-typed frame.
LEMMA IdleType == Idle \in Frame
  BY TemplateAssumption DEF Idle, Frame

\* No assignments and idle processes satisfy the invariant.
LEMMA InitIInv == Init => IInv
<1> SUFFICES ASSUME Init PROVE IInv
  OBVIOUS
<1>1. TypeOK
  BY IdleType DEF Init, TypeOK, Nothing, Deadline, Life
<1>2. \A p \in Procs : txn[p].pc = "idle"
  BY DEF Init, Idle
<1>3. \A a \in Assigns : Sound(a)
  BY DEF Init, Nothing, Sound, Unborn, Stops, Told, Made, MadeWithEntry
<1> QED
  BY <1>1, <1>2, <1>3 DEF IInv, Coherent, DistinctAssigns

\* The rows of an assignment that a step leaves as they are.
Same(a) ==
  /\ owner'[a] = owner[a]
  /\ due'[a] = due[a]
  /\ task'[a] = task[a]
  /\ event'[a] = event[a]

\* A step of one request on one assignment disturbs neither the other
\* requests nor the other assignments.
LEMMA LocalStep ==
  ASSUME IInv, TypeOK',
         NEW p \in Procs, NEW a \in Assigns, NEW frame \in Frame,
         txn' = [txn EXCEPT ![p] = frame],
         frame.pc # "idle" => frame.assign = a,
         (txn[p].pc # "idle" /\ txn[p].assign = a) \/ owner[a] = NoStudent,
         \A b \in Assigns \ {a} : Same(b) /\ (b \in noticed' => b \in noticed),
         Coherent(p)', Sound(a)'
  PROVE  IInv'
<1>1. ASSUME NEW q \in Procs, q # p PROVE txn'[q] = txn[q]
  BY <1>1 DEF IInv, TypeOK
<1>2. txn'[p] = frame
  BY DEF IInv, TypeOK
<1>3. ASSUME NEW q \in Procs, q # p, txn[q].pc # "idle"
      PROVE  txn[q].assign \in Assigns /\ txn[q].assign # a
  BY <1>3 DEF IInv, Coherent, DistinctAssigns
<1>4. ASSUME NEW q \in Procs PROVE Coherent(q)'
  <2>1. CASE q # p
    BY <1>1, <1>3, <2>1 DEF IInv, Coherent, Making, Same, Made, MadeWithEntry
  <2> QED
    BY <2>1
<1>5. DistinctAssigns'
  BY <1>1, <1>2, <1>3 DEF IInv, DistinctAssigns
<1>6. ASSUME NEW b \in Assigns PROVE Sound(b)'
  <2>1. CASE b # a
    BY <2>1 DEF IInv, Sound, Unborn, Stops, Told, Same, Made, MadeWithEntry
  <2> QED
    BY <2>1
<1> QED
  BY <1>4, <1>5, <1>6 DEF IInv

\* A request may end, or move on without writing a row of its assignment.
LEMMA ReadStep ==
  ASSUME IInv, NEW p \in Procs, NEW frame \in Frame, txn[p].pc # "idle",
         txn' = [txn EXCEPT ![p] = frame],
         frame.pc # "idle" => frame.assign = txn[p].assign,
         enrolled' \subseteq Students \X Universities,
         UNCHANGED <<link, owner, due, task, event, noticed>>,
         Coherent(p)'
  PROVE  IInv'
<1>1. PICK a \in Assigns : a = txn[p].assign
  BY DEF IInv, Coherent
<1>2. TypeOK'
  BY DEF IInv, TypeOK
<1>3. Sound(a)'
  BY <1>1 DEF IInv, Sound, Unborn, Stops, Told, Made, MadeWithEntry
<1>4. \A b \in Assigns \ {a} : Same(b) /\ (b \in noticed' => b \in noticed)
  BY DEF Same
<1> QED
  BY <1>1, <1>2, <1>3, <1>4, LocalStep

\* An assignment begins with a row no request and no task refers to.
LEMMA AssignStep ==
  ASSUME IInv, NEW p \in Procs, NEW a \in Assigns, NEW st \in Students,
         NEW deadlines \in [Template -> Deadline], AssignRoadmap(p, a, st, deadlines)
  PROVE  IInv'
<1> DEFINE frame == [Idle EXCEPT !.pc = IF link = NoUniversity THEN "task" ELSE "enroll",
                                 !.assign = a, !.uni = link]
<1>1. frame \in Frame /\ txn' = [txn EXCEPT ![p] = frame]
  BY IdleType DEF AssignRoadmap, IInv, TypeOK, Frame
<1>2. txn'[p] = frame
  BY <1>1 DEF IInv, TypeOK
<1>3. TypeOK'
  BY <1>1 DEF AssignRoadmap, IInv, TypeOK
<1>4. owner'[a] # NoStudent /\ \A i \in Template : task'[a][i] = "none" /\ event'[a][i] = "none"
  BY RoadmapNullAssumption DEF AssignRoadmap, IInv, TypeOK, Sound, Unborn
<1>5. a \notin noticed'
  BY DEF AssignRoadmap, IInv, Sound, Told
<1>6. Sound(a)'
  BY <1>4, <1>5 DEF Sound, Unborn, Stops, Told, Made
<1>7. Coherent(p)'
  <2>1. frame.assign = a /\ frame.step = 1 /\ frame.pc \in {"task", "enroll"}
        /\ (frame.pc = "enroll" => frame.uni \in Universities)
    BY DEF Idle, IInv, TypeOK
  <2> HIDE DEF frame
  <2>2. \A i \in Template : ~(i < 1)
    BY DEF Template
  <2> QED
    BY <1>2, <1>4, <2>1, <2>2 DEF Coherent, Making
<1>8. \A b \in Assigns \ {a} : Same(b) /\ (b \in noticed' => b \in noticed)
  BY DEF AssignRoadmap, Same, IInv, TypeOK
<1>9. owner[a] = NoStudent /\ (frame.pc # "idle" => frame.assign = a)
  BY DEF AssignRoadmap, Idle
<1> HIDE DEF frame
<1> QED
  BY <1>1, <1>3, <1>6, <1>7, <1>8, <1>9, LocalStep

\* The enrollment is looked up, and inserted where it is missing.
LEMMA EnrollStep ==
  ASSUME IInv, NEW p \in Procs, EnrollRead(p) \/ EnrollCommit(p)
  PROVE  IInv'
<1>1. PICK pc \in {"insert", "task"} : txn' = [txn EXCEPT ![p].pc = pc]
  BY DEF EnrollRead, EnrollCommit
<1> DEFINE frame == [txn[p] EXCEPT !.pc = pc]
<1>2. txn' = [txn EXCEPT ![p] = frame] /\ frame \in Frame /\ txn'[p] = frame
  BY <1>1 DEF IInv, TypeOK, Frame
<1>3. txn[p].pc \in {"enroll", "insert"} /\ UNCHANGED <<link, owner, due, task, event, noticed>>
  BY DEF EnrollRead, EnrollCommit, rows
<1>4. frame.assign = txn[p].assign /\ frame.step = txn[p].step /\ frame.uni = txn[p].uni
      /\ frame.pc = pc
  BY DEF IInv, TypeOK, Frame
<1> HIDE DEF frame
<1>5. Coherent(p)'
  BY <1>2, <1>3, <1>4 DEF IInv, Coherent, Making, Made, MadeWithEntry
<1>6. enrolled' \subseteq Students \X Universities
  <2>1. CASE EnrollRead(p)
    BY <2>1 DEF EnrollRead, rows, IInv, TypeOK
  <2>2. CASE EnrollCommit(p)
    <3>1. txn[p].assign \in Assigns /\ txn[p].uni \in Universities
          /\ owner[txn[p].assign] \in Students
      BY <2>2 DEF EnrollCommit, IInv, TypeOK, Coherent
    <3> QED
      BY <2>2, <3>1 DEF EnrollCommit, Enrollment, IInv, TypeOK
  <2> QED
    BY <2>1, <2>2
<1> QED
  BY <1>2, <1>3, <1>4, <1>5, <1>6, ReadStep

\* A request that ends, refused or failed.
LEMMA EndStep ==
  ASSUME IInv, NEW p \in Procs, Abort(p) \/ RejectDeadline(p)
  PROVE  IInv'
<1>1. txn' = [txn EXCEPT ![p] = Idle] /\ UNCHANGED <<link, rows>>
  BY DEF Abort, RejectDeadline, End
<1>2. TypeOK'
  BY <1>1, IdleType DEF rows, IInv, TypeOK
<1>3. txn'[p].pc = "idle" /\ \A q \in Procs \ {p} : txn'[q] = txn[q]
  BY <1>1 DEF IInv, TypeOK, Idle
<1>4. \A q \in Procs : Coherent(q)'
  BY <1>1, <1>3 DEF rows, IInv, Coherent, Making, Made, MadeWithEntry
<1>5. DistinctAssigns'
  BY <1>3 DEF IInv, DistinctAssigns
<1>6. \A a \in Assigns : Sound(a)'
  BY <1>1 DEF rows, IInv, Sound, Unborn, Stops, Told, Made, MadeWithEntry
<1> QED
  BY <1>2, <1>4, <1>5, <1>6 DEF IInv

\* The task at hand is made: everything before it is complete, so the
\* assignment still stops at one task.
LEMMA TaskCommitStep ==
  ASSUME IInv, NEW p \in Procs, TaskCommit(p)
  PROVE  IInv'
<1>1. PICK a \in Assigns : a = txn[p].assign
  BY DEF TaskCommit, IInv, Coherent
<1>2. PICK k \in Template : k = txn[p].step
  BY DEF TaskCommit
<1> DEFINE frame == [txn[p] EXCEPT !.pc = "notice"]
<1>3. frame \in Frame /\ txn' = [txn EXCEPT ![p] = frame] /\ txn'[p] = frame
  BY DEF TaskCommit, IInv, TypeOK, Frame
<1>4. frame.assign = a /\ frame.step = k /\ frame.pc = "notice"
  BY <1>1, <1>2 DEF IInv, TypeOK, Frame
<1> HIDE DEF frame
<1>5. task' = [task EXCEPT ![a][k] = "live"]
      /\ UNCHANGED <<link, owner, due, enrolled, event, noticed>>
  BY <1>1, <1>2 DEF TaskCommit
<1>6. TypeOK'
  BY <1>3, <1>5 DEF IInv, TypeOK, Life
<1>7. task'[a][k] = "live" /\ \A i \in Template \ {k} : task'[a][i] = task[a][i]
  BY <1>5 DEF IInv, TypeOK
<1>8. owner[a] # NoStudent
      /\ (\A i \in Template : i < k => MadeWithEntry(a, i))
      /\ (\A i \in Template : i >= k => task[a][i] = "none" /\ event[a][i] = "none")
  BY <1>1, <1>2 DEF TaskCommit, IInv, Coherent, Making, Template
<1>9. Coherent(p)'
  BY <1>3, <1>4, <1>5, <1>7, <1>8 DEF Coherent, Making, Made, MadeWithEntry, Template
<1>10. Stops(a)'
  <2> SUFFICES ASSUME NEW i \in Template
               PROVE  /\ event'[a][i] # "none" => Made(a, i)' /\ due'[a][i] = "future"
                      /\ Made(a, i)' => \A j \in 1 .. i - 1 : MadeWithEntry(a, j)'
    BY DEF Stops
  <2>1. event[a][i] # "none" => Made(a, i) /\ due[a][i] = "future"
    BY DEF IInv, Sound, Stops
  <2>2. \A j \in Template : j < k => MadeWithEntry(a, j)'
    BY <1>5, <1>7, <1>8 DEF Made, MadeWithEntry, Template
  <2>3. i \leq k => \A j \in 1 .. i - 1 : j \in Template /\ j < k
    BY TemplateAssumption DEF Template
  <2>4. ~(i \leq k) => task'[a][i] = "none"
    BY <1>7, <1>8 DEF Template
  <2> QED
    BY <1>5, <1>7, <2>1, <2>2, <2>3, <2>4 DEF Made
<1>11. Unborn(a)' /\ Told(a)'
  BY <1>5, <1>7, <1>8 DEF IInv, Sound, Unborn, Told, Made, MadeWithEntry
<1>12. \A b \in Assigns \ {a} : Same(b) /\ (b \in noticed' => b \in noticed)
  BY <1>5 DEF Same, IInv, TypeOK
<1>13. txn[p].pc # "idle"
  BY DEF TaskCommit
<1> QED
  BY <1>1, <1>3, <1>4, <1>6, <1>9, <1>10, <1>11, <1>12, <1>13, LocalStep DEF Sound

\* The notice of a task changes nothing that is stated.
LEMMA TaskNoticeStep ==
  ASSUME IInv, NEW p \in Procs, TaskNotice(p)
  PROVE  IInv'
<1>1. PICK a \in Assigns : a = txn[p].assign
  BY DEF TaskNotice, IInv, Coherent
<1>2. PICK k \in Template : k = txn[p].step
  BY DEF TaskNotice, IInv, Coherent, Making
<1>3. UNCHANGED <<link, owner, due, enrolled, task, event, noticed>> /\ txn[p].pc = "notice"
  BY DEF TaskNotice, rows
<1>4. owner[a] # NoStudent /\ Made(a, k)
      /\ (\A i \in Template : i < k => MadeWithEntry(a, i))
      /\ (\A i \in Template : i > k => task[a][i] = "none")
      /\ (\A i \in Template : i >= k => event[a][i] = "none")
  BY <1>1, <1>2, <1>3 DEF IInv, Coherent, Making
<1>5. CASE due[a][k] = "future"
  <2> DEFINE frame == [txn[p] EXCEPT !.pc = "event"]
  <2>1. frame \in Frame /\ txn' = [txn EXCEPT ![p] = frame] /\ txn'[p] = frame
    BY <1>1, <1>2, <1>5 DEF TaskNotice, IInv, TypeOK, Frame
  <2>2. frame.assign = a /\ frame.step = k /\ frame.pc = "event"
    BY <1>1, <1>2 DEF IInv, TypeOK, Frame
  <2> HIDE DEF frame
  <2>3. Coherent(p)'
    BY <1>3, <1>4, <1>5, <2>1, <2>2 DEF Coherent, Making, Made, MadeWithEntry, Template
  <2> QED
    BY <1>1, <1>3, <2>1, <2>2, <2>3, ReadStep DEF IInv, TypeOK
<1>6. CASE due[a][k] # "future"
  <2> DEFINE frame == [txn[p] EXCEPT !.pc = "task", !.step = k + 1]
  <2>1. frame \in Frame /\ txn' = [txn EXCEPT ![p] = frame] /\ txn'[p] = frame
    BY <1>1, <1>2, <1>6, TemplateAssumption DEF TaskNotice, IInv, TypeOK, Frame, Template
  <2>2. frame.assign = a /\ frame.step = k + 1 /\ frame.pc = "task"
    BY <1>1 DEF IInv, TypeOK, Frame
  <2> HIDE DEF frame
  <2>3. \A i \in Template : i < k + 1 => MadeWithEntry(a, i)
    BY <1>4, <1>6 DEF MadeWithEntry, Template
  <2>4. \A i \in Template : i >= k + 1 => i > k
    BY DEF Template
  <2>5. Coherent(p)'
    BY <1>3, <1>4, <2>1, <2>2, <2>3, <2>4 DEF Coherent, Making, Made, MadeWithEntry, Template
  <2> QED
    BY <1>1, <1>3, <2>1, <2>2, <2>5, ReadStep DEF IInv, TypeOK
<1> QED
  BY <1>5, <1>6

\* The entry of the task at hand completes it.
LEMMA EventCommitStep ==
  ASSUME IInv, NEW p \in Procs, EventCommit(p)
  PROVE  IInv'
<1>1. PICK a \in Assigns : a = txn[p].assign
  BY DEF EventCommit, IInv, Coherent
<1>2. PICK k \in Template : k = txn[p].step
  BY DEF EventCommit, IInv, Coherent, Making
<1> DEFINE frame == [txn[p] EXCEPT !.pc = "task", !.step = k + 1]
<1>3. frame \in Frame /\ txn' = [txn EXCEPT ![p] = frame] /\ txn'[p] = frame
  BY <1>2, TemplateAssumption DEF EventCommit, IInv, TypeOK, Frame, Template
<1>4. frame.assign = a /\ frame.step = k + 1 /\ frame.pc = "task"
  BY <1>1 DEF IInv, TypeOK, Frame
<1> HIDE DEF frame
<1>5. event' = [event EXCEPT ![a][k] = "live"]
      /\ UNCHANGED <<link, owner, due, enrolled, task, noticed>>
      /\ txn[p].pc = "event"
  BY <1>1, <1>2 DEF EventCommit
<1>6. TypeOK'
  BY <1>3, <1>5 DEF IInv, TypeOK, Life
<1>7. event'[a][k] = "live" /\ \A i \in Template \ {k} : event'[a][i] = event[a][i]
  BY <1>5 DEF IInv, TypeOK
<1>8. owner[a] # NoStudent /\ Made(a, k) /\ due[a][k] = "future"
      /\ (\A i \in Template : i < k => MadeWithEntry(a, i))
      /\ (\A i \in Template : i > k => task[a][i] = "none")
      /\ (\A i \in Template : i >= k => event[a][i] = "none")
  BY <1>1, <1>2, <1>5 DEF IInv, Coherent, Making
<1>9. \A i \in Template : i < k + 1 => MadeWithEntry(a, i)'
  BY <1>5, <1>7, <1>8 DEF Made, MadeWithEntry, Template
<1>10. \A i \in Template : i >= k + 1 => task'[a][i] = "none" /\ event'[a][i] = "none"
  BY <1>5, <1>7, <1>8 DEF Template
<1>11. Coherent(p)'
  BY <1>3, <1>4, <1>5, <1>8, <1>9, <1>10 DEF Coherent, Making, Template
<1>12. Stops(a)'
  BY <1>5, <1>7, <1>8 DEF IInv, Sound, Stops, Made, MadeWithEntry, Template
<1>13. Unborn(a)' /\ Told(a)'
  BY <1>5, <1>7, <1>8 DEF IInv, Sound, Unborn, Told, Made, MadeWithEntry
<1>14. \A b \in Assigns \ {a} : Same(b) /\ (b \in noticed' => b \in noticed)
  BY <1>5 DEF Same, IInv, TypeOK
<1> QED
  BY <1>1, <1>3, <1>4, <1>5, <1>6, <1>11, <1>12, <1>13, <1>14, LocalStep DEF Sound

\* The student is told when no template task is left.
LEMMA RoadmapNoticeStep ==
  ASSUME IInv, NEW p \in Procs, RoadmapNotice(p)
  PROVE  IInv'
<1>1. PICK a \in Assigns : a = txn[p].assign
  BY DEF RoadmapNotice, Through, IInv, Coherent
<1>2. txn' = [txn EXCEPT ![p] = Idle] /\ noticed' \subseteq noticed \cup {a}
      /\ UNCHANGED <<link, owner, due, enrolled, task, event>> /\ txn[p].pc = "task"
  BY <1>1 DEF RoadmapNotice, Through, End
<1>3. TypeOK'
  BY <1>2, IdleType DEF IInv, TypeOK
<1>4. Coherent(p)'
  BY <1>2 DEF IInv, TypeOK, Coherent, Idle
<1>5. owner[a] # NoStudent /\ \A i \in Template : MadeWithEntry(a, i)
  <2>1. \A i \in Template : i < txn[p].step
    BY TemplateAssumption DEF RoadmapNotice, Through, Template, IInv, TypeOK, Frame
  <2> QED
    BY <1>1, <1>2, <2>1 DEF IInv, Coherent
<1>6. Sound(a)'
  BY <1>2, <1>5 DEF IInv, Sound, Unborn, Stops, Told, Made, MadeWithEntry
<1>7. \A b \in Assigns \ {a} : Same(b) /\ (b \in noticed' => b \in noticed)
  BY <1>2 DEF Same
<1>8. Idle.pc = "idle"
  BY DEF Idle
<1> QED
  BY <1>1, <1>2, <1>3, <1>4, <1>6, <1>7, <1>8, IdleType, LocalStep

\* Deleting a task or an entry keeps the fact that it was made.
LEMMA OthersStep ==
  ASSUME IInv, Others
  PROVE  IInv'
<1> DEFINE Kept(old, new) ==
      \A a \in Assigns, i \in Template : (new[a][i] = "none") <=> (old[a][i] = "none")
<1> DEFINE Good == TypeOK' /\ Kept(task, task') /\ Kept(event, event')
                   /\ UNCHANGED <<owner, due, noticed, txn>>
<1>a. ASSUME NEW u \in Universities \cup {NoUniversity}, UpdateRoadmap(u) PROVE Good
  BY <1>a DEF UpdateRoadmap, rows, IInv, TypeOK
<1>b. ASSUME NEW st \in Students, NEW u \in Universities,
             Enroll(st, u) \/ DeleteEnrollment(st, u)
      PROVE  Good
  BY <1>b DEF Enroll, DeleteEnrollment, IInv, TypeOK
<1>c. ASSUME NEW a \in Assigns, NEW i \in Template, DeleteTask(a, i) PROVE Good
  <2>1. task' \in [Assigns -> [Template -> Life]]
    BY <1>c DEF DeleteTask, IInv, TypeOK, Life
  <2>2. Kept(task, task')
    BY <1>c DEF DeleteTask, IInv, TypeOK
  <2> QED
    BY <1>c, <2>1, <2>2 DEF DeleteTask, IInv, TypeOK
<1>d. ASSUME NEW a \in Assigns, NEW i \in Template, DeleteEvent(a, i) PROVE Good
  <2>1. event' \in [Assigns -> [Template -> Life]]
    BY <1>d DEF DeleteEvent, IInv, TypeOK, Life
  <2>2. Kept(event, event')
    BY <1>d DEF DeleteEvent, IInv, TypeOK
  <2> QED
    BY <1>d, <2>1, <2>2 DEF DeleteEvent, IInv, TypeOK
<1>e. Good
  BY <1>a, <1>b, <1>c, <1>d DEF Others
<1>1. UNCHANGED <<owner, due, noticed, txn>>
  BY <1>e
<1>2. TypeOK'
  BY <1>e
<1>3. \A a \in Assigns, i \in Template : /\ task'[a][i] = "none" <=> task[a][i] = "none"
                                         /\ event'[a][i] = "none" <=> event[a][i] = "none"
  BY <1>e
<1>4. \A a \in Assigns, i \in Template : /\ Made(a, i)' <=> Made(a, i)
                                         /\ MadeWithEntry(a, i)' <=> MadeWithEntry(a, i)
  BY <1>1, <1>3 DEF Made, MadeWithEntry
<1>5. \A p \in Procs : Coherent(p)'
  BY <1>1, <1>3, <1>4 DEF IInv, Coherent, Making
<1>6. \A a \in Assigns : Sound(a)'
  BY <1>1, <1>3, <1>4, TemplateAssumption DEF IInv, Sound, Unborn, Stops, Told, Template
<1>7. DistinctAssigns'
  BY <1>1 DEF IInv, DistinctAssigns
<1> QED
  BY <1>2, <1>5, <1>6, <1>7 DEF IInv

\* The invariant is inductive.
LEMMA NextStep == IInv /\ [Next]_vars => IInv'
<1> SUFFICES ASSUME IInv, [Next]_vars PROVE IInv'
  OBVIOUS
<1>1. ASSUME NEW p \in Procs, Assignment(p) PROVE IInv'
  BY <1>1, AssignStep, EnrollStep, EndStep, TaskCommitStep, TaskNoticeStep,
     EventCommitStep, RoadmapNoticeStep DEF Assignment
<1>2. ASSUME NEW p \in Procs, Abort(p) PROVE IInv'
  BY <1>2, EndStep
<1>3. CASE UNCHANGED vars
  <2>1. TypeOK' /\ DistinctAssigns'
    BY <1>3 DEF vars, IInv, TypeOK, DistinctAssigns
  <2>2. \A p \in Procs : Coherent(p)'
    BY <1>3 DEF vars, IInv, Coherent, Making, Made, MadeWithEntry
  <2>3. \A a \in Assigns : Sound(a)'
    BY <1>3 DEF vars, IInv, Sound, Unborn, Stops, Told, Made, MadeWithEntry
  <2> QED
    BY <2>1, <2>2, <2>3 DEF IInv
<1> QED
  BY <1>1, <1>2, <1>3, OthersStep DEF Next

----------------------------------------------------------------------------
\* The inductive invariant holds of every reachable state.
THEOREM Inductive == Spec => []IInv
<1> QED
  BY InitIInv, NextStep, PTL DEF Spec

\* Every row and every request's locals keep their types (roadmaps/models.py).
THEOREM TypeCorrect == Spec => []TypeOK
<1>1. IInv => TypeOK
  BY DEF IInv
<1> QED
  BY <1>1, Inductive, PTL

\* A student is told of a roadmap only when all of it was made, for a template
\* of any length and any number of requests at once (assign_roadmap).
THEOREM NoticeMeansComplete == Spec => []NoticedIsComplete
<1>1. IInv => NoticedIsComplete
  BY DEF IInv, TypeOK, Sound, Told, NoticedIsComplete
<1> QED
  BY <1>1, Inductive, PTL

\* Wherever an assignment fails or is refused, it stops at one task of its
\* template and everything before that is complete (assign_roadmap).
THEOREM StopsCleanly == Spec => []StopsAtOneTask
<1>1. IInv => StopsAtOneTask
  BY DEF IInv, Sound, Stops, StopsAtOneTask
<1> QED
  BY <1>1, Inductive, PTL
=============================================================================
