-------------------------------- MODULE Seed --------------------------------
(***************************************************************************)
(* The script that fills a database for demonstrations                      *)
(* (src/scripts/seed_data.py): some accounts are found or created, then     *)
(* rows are made for every student in one transaction, flushed table by     *)
(* table and committed at the end.  Images and documents go to the object   *)
(* store on the way.  The script may run twice at once, be repeated with    *)
(* SEED_FORCE, fail anywhere, and meet students of the application.         *)
(*                                                                         *)
(* The rows are those of the source as far as the rules of the application  *)
(* concern them: who refers to whom, what is taken, done, late, read or     *)
(* stored.  Names, scores and texts are left out.  Days count from the day, *)
(* minutes from the minute of the run.                                      *)
(***************************************************************************)
EXTENDS Integers, Migrations, Models

CONSTANTS
  Procs,           \* processes in which the script may run
  MaxRuns,         \* bound: how often it is started
  NStudents,       \* SEED_STUDENTS
  NUniversities, NRoadmaps, NSteps, NFaq, NNews,  \* lengths of the data pools
  Promoted,        \* the news that go into calendars (allow_calendar)
  NSpare,          \* slots that stay free
  Unreliable       \* bound: the uploads that may fail, <<i>> for the image and
                   \* <<i, t>> for the document of type t of a student i

ASSUME RunsAssumption == MaxRuns \in Nat
ASSUME NStudentsAssumption == NStudents \in Nat \ {0}
\* The script samples up to three universities; no pool of its data is empty.
ASSUME PoolsAssumption == /\ NUniversities \in Nat /\ NUniversities >= 3
                          /\ {NRoadmaps, NSteps, NFaq, NNews} \subseteq Nat \ {0}
                          /\ NSpare \in Nat
                          /\ Promoted \subseteq 1 .. NNews

VARIABLES
  origin,   \* what made the tables: "models" or "migrations"
  rows,     \* the rows committed, by table
  objects,  \* the objects in the store
  starts,   \* how often the script was started
  script    \* each process: its stage and the rows of its transaction

seedVars == <<origin, rows, objects, starts, script>>

Students == 0 .. NStudents - 1
Universities == 0 .. NUniversities - 1
None == <<>>   \* NULL

Tables == {"users", "profiles", "universities", "programs", "enrollments", "roadmaps",
  "templates", "student_roadmaps", "tasks", "history", "slots", "appointments",
  "conversations", "messages", "notifications", "events", "faqs", "news", "alumni",
  "documents", "tokens"}
NoRows == [t \in Tables |-> {}]
Plus(f, g) == [t \in Tables |-> f[t] \cup (IF t \in DOMAIN g THEN g[t] ELSE {})]

\* Every row carries the number of the run that made it; 0 is the application.
Mark(r, S) == {[run |-> r, row |-> x] : x \in S}
RowsOf(f, t) == {x.row : x \in f[t]}

-----------------------------------------------------------------------------
(* The rows of a run, in the order in which the script makes them.          *)

Role(email) == email[1]
Admin == <<"admin", 0>>
Adviser == <<"adviser", 0>>
Student(i) == <<"student", i>>
Accounts == <<Admin, Adviser>> \o [i \in 1 .. NStudents |-> Student(i - 1)]

ProfilesIfMissing(r) ==
  Mark(r, {Student(i) : i \in {j \in Students : Student(j) \notin RowsOf(rows, "profiles")}})
Profiles(r) == Mark(r, {Student(i) : i \in Students})

Programs(r) ==
  Mark(r, UNION {{[university |-> u, nr |-> p] : p \in 1 .. 2 + (u % 2)} : u \in Universities})

\* random.sample: 1 to 3 distinct universities for each student.
Samples == {c \in [Students -> SUBSET Universities] :
              \A i \in Students : Cardinality(c[i]) = 1 + (i % 3)}
Enrollments(r, c) ==
  Mark(r, UNION {{[student |-> i, university |-> u] : u \in c[i]} : i \in Students})

Roadmaps(r) ==
  Mark(r, {[nr |-> k, university |-> IF k % 2 = 0 THEN <<k % NUniversities>> ELSE None] :
             k \in 0 .. NRoadmaps - 1})
Templates(r) == Mark(r, {[roadmap |-> k, step |-> s] : k \in 0 .. NRoadmaps - 1, s \in 1 .. NSteps})

StudentRoadmaps(r) ==
  Mark(r, {[student |-> i, roadmap |-> i % NRoadmaps, active |-> TRUE] : i \in Students}
     \cup {[student |-> i, roadmap |-> (i + 3) % NRoadmaps, active |-> FALSE] :
             i \in {j \in Students : j % 3 = 0}})

\* Four tasks for each student, with the days of their deadline and completion.
TasksOf(i) ==
  LET task(k, by, status, days) ==
        [student |-> i, nr |-> k, by |-> by, status |-> status, deadline |-> days,
         completed |-> IF status = "done" THEN <<-(1 + (i % 4))>> ELSE None,
         roadmap |-> IF k = 1 THEN <<i % NRoadmaps>> ELSE None]
  IN { task(1, Adviser, "in_progress", 10 + (i % 14)),
       task(2, Student(i), "todo", 5 + (i % 7)),
       task(3, Adviser, IF i % 2 = 0 THEN "done" ELSE "overdue", -(2 + (i % 5))),
       task(4, Adviser, "todo", 3 + (i % 6)) }
Tasks(r) == Mark(r, UNION {TasksOf(i) : i \in Students})

\* The creation of every task, and its first change where it has one.
History(r) ==
  LET entry(t, old, new) == [student |-> t.student, task |-> t.nr, old |-> old, new |-> new]
      T == UNION {TasksOf(i) : i \in Students}
  IN Mark(r, {entry(t, "", t.status) : t \in T}
        \cup {entry(t, "todo", t.status) : t \in {s \in T : s.status \in {"done", "in_progress"}}})

\* The start is in hours; the last slots stay free.
Slots(r) ==
  Mark(r, {[nr |-> i, start |-> 24 * (i \div 3 + 1) + 2 * (i % 3), open |-> i >= NStudents] :
             i \in 0 .. NStudents + NSpare - 1})

AppointmentsNext(r) ==
  Mark(r, {[slot |-> i + 1, student |-> i,
            status |-> <<"confirmed", "pending", "completed">>[(i % 3) + 1]] : i \in Students})
Appointments(r) ==
  Mark(r, {[slot |-> i, student |-> i,
            status |-> <<"confirmed", "pending", "completed">>[(i % 3) + 1]] : i \in Students})

Conversations(r) == Mark(r, {[student |-> i, last |-> -(i + 1)] : i \in Students})

\* Three messages; every fifth conversation has an image in the second, if the
\* upload succeeds.
Images == {i \in Students : i % 5 = 0}
MessagesOf(i, stored) ==
  LET message(k, by, at, read) ==
        [student |-> i, nr |-> k, by |-> by, at |-> at, read |-> read,
         image |-> k = 2 /\ i \in stored]
  IN { message(1, Student(i), -(120 + i), TRUE),
       message(2, Adviser, -(60 + i), i % 2 = 0),
       message(3, Student(i), -(i + 1), FALSE) }
Messages(r, stored) == Mark(r, UNION {MessagesOf(i, stored) : i \in Students})

Notifications(r) ==
  LET notice(i, type, read) == [user |-> Student(i), type |-> type, read |-> read]
  IN Mark(r, {notice(i, "new_task", i % 3 = 0) : i \in Students}
        \cup {notice(i, "new_message", FALSE) : i \in Students}
        \cup {notice(i, "appointment_confirmed", FALSE) : i \in {j \in Students : j % 4 = 0}}
        \cup {[user |-> Adviser, type |-> "appointment_confirmed", read |-> FALSE]})

\* Consultations, first deadlines, and the news of the calendar for the first
\* five students.
Events(r) ==
  LET event(i, type, nr) == [student |-> i, type |-> type, source |-> nr]
  IN Mark(r, {event(i, "appointment", i) : i \in Students}
        \cup {event(i, "task", 1) : i \in Students}
        \cup {event(i, "news", n) : i \in {j \in Students : j < 5}, n \in Promoted})

Alumni(r) == Mark(r, {[university |-> u, program |-> 1] : u \in Universities})

\* Two or three documents of successive types; one whose upload fails gets a key
\* that names nothing.
Papers == UNION {{<<i, (i + d) % 7>> : d \in 0 .. 1 + (i % 2)} : i \in Students}
Documents(r, stored) ==
  Mark(r, {[student |-> d[1], type |-> d[2], missing |-> d \notin stored] : d \in Papers})

Tokens(r) == Mark(r, {Accounts[k] : k \in 1 .. Len(Accounts)})
-----------------------------------------------------------------------------
(* The script.                                                              *)

Idle == [pc |-> "idle", run |-> 0, at |-> 1, absent |-> FALSE, rows |-> NoRows]

SeedInit ==
  /\ origin \in {"models", "migrations"}
  /\ rows = NoRows /\ objects = {} /\ starts = 0
  /\ script = [p \in Procs |-> Idle]

Emails == RowsOf(rows, "users")
Made(p, t) == RowsOf(script[p].rows, t)
Others(p, t) == UNION {Made(q, t) : q \in Procs \ {p}}

\* No run starts where there are students, unless it is forced.
Start(p, force) ==
  /\ script[p] = Idle /\ starts < MaxRuns
  /\ starts' = starts + 1
  /\ script' = IF force \/ \A e \in Emails : Role(e) # "student"
               THEN [script EXCEPT ![p] = [Idle EXCEPT !.pc = "accounts", !.run = starts + 1]]
               ELSE script
  /\ UNCHANGED <<origin, rows, objects>>

\* _get_or_create_user: the query.
Find(p) ==
  LET s == script[p] IN
  /\ s.pc = "accounts" /\ ~s.absent
  /\ script' = [script EXCEPT ![p] =
       IF s.at > Len(Accounts) THEN [s EXCEPT !.pc = "universities"]
       ELSE IF Accounts[s.at] \in Emails THEN [s EXCEPT !.at = @ + 1]
       ELSE [s EXCEPT !.absent = TRUE]]
  /\ UNCHANGED <<origin, rows, objects, starts>>

SchemaOf == IF origin = "models" THEN CreateAll ELSE SchemaAt(HeadRevision)
UniqueEmail == <<"users", {"email"}>> \in UniquesOf(SchemaOf)

\* The insert: it waits for another transaction with the same email, and fails
\* if there is a row by now.
Create(p) ==
  LET s == script[p]
      e == Accounts[s.at] IN
  /\ s.absent
  /\ UniqueEmail => e \notin Others(p, "users") \cup Emails
  /\ script' = [script EXCEPT ![p] =
       [s EXCEPT !.at = @ + 1, !.absent = FALSE,
                 !.rows = Plus(@, [users |-> Mark(s.run, {e})])]]
  /\ UNCHANGED <<origin, rows, objects, starts>>

\* A flush that sends new rows and goes on to the next stage.
Flush(p, stage, next, new) ==
  /\ script[p].pc = stage
  /\ script' = [script EXCEPT ![p].pc = next, ![p].rows = Plus(@, new)]
  /\ UNCHANGED <<origin, rows, starts>>

ColumnsAreThere(t) ==
  {c \in CreateAll.columns : c[1] = t} \subseteq SchemaOf.columns

\* One profile for a user, who is there: the flush waits for, or fails on, another.
FlushUniversities(p) ==
  LET r == script[p].run IN
  /\ ColumnsAreThere("universities")
  /\ {x.row : x \in Profiles(r)} \subseteq Emails \cup Made(p, "users")
  /\ {x.row : x \in Profiles(r)}
       \cap (Others(p, "profiles") \cup RowsOf(rows, "profiles")) = {}
  /\ Flush(p, "universities", "programs",
           [profiles |-> Profiles(r), universities |-> Mark(r, Universities)])
  /\ UNCHANGED objects

FlushPrograms(p) ==
  /\ Flush(p, "programs", "roadmaps", [programs |-> Programs(script[p].run)])
  /\ UNCHANGED objects

FlushRoadmaps(p) ==
  /\ ColumnsAreThere("roadmaps")
  /\ \E c \in Samples :
       Flush(p, "roadmaps", "student_roadmaps",
             [enrollments |-> Enrollments(script[p].run, c),
              roadmaps |-> Roadmaps(script[p].run)])
  /\ UNCHANGED objects

FlushStudentRoadmaps(p) ==
  LET r == script[p].run IN
  /\ Flush(p, "student_roadmaps", "tasks",
           [templates |-> Templates(r), student_roadmaps |-> StudentRoadmaps(r)])
  /\ UNCHANGED objects

FlushTasks(p) ==
  /\ Flush(p, "tasks", "slots", [tasks |-> Tasks(script[p].run)])
  /\ UNCHANGED objects

FlushSlots(p) ==
  LET r == script[p].run IN
  /\ Flush(p, "slots", "appointments", [history |-> History(r), slots |-> Slots(r)])
  /\ UNCHANGED objects

\* The slot of an appointment is marked once more.
FlushAppointments(p) ==
  LET s == script[p]
      taken == {a.row.slot : a \in Appointments(s.run)}
      made == Plus(s.rows, [appointments |-> Appointments(s.run)])
      slots == {IF x.row.nr \in taken THEN [x EXCEPT !.row.open = FALSE] ELSE x :
                  x \in made["slots"]} IN
  /\ s.pc = "appointments"
  /\ script' = [script EXCEPT ![p].pc = "conversations",
                              ![p].rows = [made EXCEPT !["slots"] = slots]]
  /\ UNCHANGED <<origin, rows, objects, starts>>

FlushConversations(p) ==
  /\ Flush(p, "conversations", "news", [conversations |-> Conversations(script[p].run)])
  /\ UNCHANGED objects

\* Images are uploaded while the messages are made.
FlushNews(p) ==
  LET r == script[p].run IN
  \E failed \in SUBSET Unreliable :
    LET stored == {i \in Images : <<i>> \notin failed} IN
    /\ objects' = objects \cup Mark(r, {<<i>> : i \in stored})
    /\ Flush(p, "news", "documents",
             [messages |-> Messages(r, stored), notifications |-> Notifications(r),
              events |-> {e \in Events(r) : e.row.type # "news"},
              faqs |-> Mark(r, 1 .. NFaq), news |-> Mark(r, 1 .. NNews)])

\* Documents are uploaded one by one; the rest is flushed by the commit.
Upload(p) ==
  LET r == script[p].run IN
  \E failed \in SUBSET Unreliable :
    LET stored == Papers \ failed IN
    /\ objects' = objects \cup Mark(r, stored)
    /\ Flush(p, "documents", "commit",
             [events |-> Events(r), alumni |-> Alumni(r),
              documents |-> Documents(r, stored), tokens |-> Tokens(r)])

CommitEarly(p) ==
  /\ script[p].pc \in {"programs", "commit"}
  /\ rows' = Plus(rows, script[p].rows)
  /\ script' = [script EXCEPT ![p] = Idle]
  /\ UNCHANGED <<origin, objects, starts>>

CommitSeed(p) ==
  /\ script[p].pc = "commit"
  /\ rows' = Plus(rows, script[p].rows)
  /\ script' = [script EXCEPT ![p] = Idle]
  /\ UNCHANGED <<origin, objects, starts>>

\* An error or a crash rolls everything back; what is uploaded stays.
FailSeed(p) ==
  /\ script[p].pc # "idle"
  /\ script' = [script EXCEPT ![p] = Idle]
  /\ UNCHANGED <<origin, rows, objects, starts>>

-----------------------------------------------------------------------------
(* The application meanwhile: a student registers, with a profile, and an   *)
(* administrator deletes one who has no appointment.                        *)

RegisterStudent(e) ==
  /\ e \notin Emails \cup UNION {Made(p, "users") : p \in Procs}
  /\ rows' = Plus(rows, [users |-> Mark(0, {e}), profiles |-> Mark(0, {e})])
  /\ UNCHANGED <<origin, objects, starts, script>>

Delete(e) ==
  /\ [run |-> 0, row |-> e] \in rows["users"]
  /\ rows' = [rows EXCEPT !["users"] = @ \ Mark(0, {e}), !["profiles"] = @ \ Mark(0, {e})]
  /\ UNCHANGED <<origin, objects, starts, script>>

\* A student of the script, and one who is not.
Outside == {Student(0), Student(NStudents)}

SeedNext ==
  \/ \E p \in Procs :
       \/ \E force \in BOOLEAN : Start(p, force)
       \/ Find(p) \/ Create(p) \/ FlushUniversities(p) \/ FlushPrograms(p)
       \/ FlushRoadmaps(p) \/ FlushStudentRoadmaps(p) \/ FlushTasks(p) \/ FlushSlots(p)
       \/ FlushAppointments(p) \/ FlushConversations(p) \/ FlushNews(p) \/ Upload(p)
       \/ CommitSeed(p) \/ FailSeed(p)
  \/ \E e \in Outside : RegisterStudent(e) \/ Delete(e)

SeedSpec == SeedInit /\ [][SeedNext]_seedVars
-----------------------------------------------------------------------------
(* Properties.                                                              *)

\* A run leaves rows in all of its tables or in none, whatever fails and whoever
\* else runs (one commit, seed_data.py:810).
AllOrNothing ==
  \A r \in 1 .. MaxRuns :
    {t \in Tables : \E x \in rows[t] : x.run = r} \in {{}, Tables}

\* The script adds its students once and never again, forced or not, on either
\* schema: the profiles of a second run meet UNIQUE(user_id)
\* (profile/models.py:19) although seed_data.py:299 offers SEED_FORCE=1 "to add
\* more", and on the migrated schema the columns of universities are missing.
SeededOnce ==
  /\ Cardinality({x.run : x \in rows["tokens"]}) <= 1
  /\ origin = "migrations" => rows["tokens"] = {}

\* The rows a run has left in a table.
Left(r, t) == {x.row : x \in {y \in rows[t] : y.run = r}}

\* A slot is taken exactly if one appointment names it.
SlotsAgree(slots, appointments) ==
  \A s \in slots :
    Cardinality({a \in appointments : a.slot = s.nr}) = (IF s.open THEN 0 ELSE 1)

\* A task is done exactly if it has a completion time, late only if its deadline
\* is past, and its history ends in its status.
TasksAgree(tasks, history) ==
  \A t \in tasks :
    LET past == {h \in history : h.student = t.student /\ h.task = t.nr} IN
    /\ t.status = "done" <=> t.completed # None
    /\ t.status = "overdue" => t.deadline < 0
    /\ t.status \in {"todo", "in_progress"} => t.deadline > 0
    /\ \E h \in past : h.new = t.status
    /\ \A h \in past : h.old # "" => \E g \in past : g.old = ""

\* last_message_at is the time of the last message.
ConversationsAgree(conversations, messages) ==
  \A c \in conversations :
    LET times == {m.at : m \in {n \in messages : n.student = c.student}}
    IN c.last \in times /\ \A at \in times : at <= c.last

\* What an entry of the calendar names is there.
CalendarAgrees(events, appointments, tasks, news) ==
  \A e \in events :
    \/ e.type = "appointment" /\ \E a \in appointments :
         a.student = e.student /\ a.slot = e.source
    \/ e.type = "task" /\ \E t \in tasks : t.student = e.student /\ t.nr = e.source
    \/ e.type = "news" /\ e.source \in news

\* What is seeded obeys the rules the application keeps: those above, and an image
\* that a message names is stored (seed_data.py 480-800).
SeededIsSound ==
  \A r \in {x.run : x \in rows["tokens"]} :
    /\ SlotsAgree(Left(r, "slots"), Left(r, "appointments"))
    /\ TasksAgree(Left(r, "tasks"), Left(r, "history"))
    /\ ConversationsAgree(Left(r, "conversations"), Left(r, "messages"))
    /\ \A m \in Left(r, "messages") :
         m.image => [run |-> r, row |-> <<m.student>>] \in objects
    /\ CalendarAgrees(Left(r, "events"), Left(r, "appointments"), Left(r, "tasks"),
                      Left(r, "news"))
=============================================================================
