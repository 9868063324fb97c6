# A TLA+ model of the Nobal Edu backend

The backend (`src/app`) is a FastAPI application over PostgreSQL, Redis, MinIO and Celery,
with Alembic migrations (`src/migrations`) and scripts that fill its database
(`src/scripts`). This directory models the parts of it whose correctness depends on the
order in which concurrent requests, jobs, migrations and failures meet, checks them with
TLC on small instances, and proves the main invariants with TLAPS for every value of the
constants.

## 1. The system

The server runs as several worker processes (`uvicorn --workers 2`), each with an event
loop that serves many requests at once; Celery runs jobs in other processes. **What they
share is the database.** The rules every model rests on:

* `app/database.py` 26-34: a request has one session. It never commits by itself: what the
  handler has not committed is rolled back when the session is closed, whether the handler
  returned or raised.
* PostgreSQL runs at READ COMMITTED. A SELECT sees the last committed row and locks
  nothing; an UPDATE or DELETE locks the row to the end of the transaction, waits for
  others and then applies to the row it finds.
* SQLAlchemy holds loaded rows in memory until it is told to refresh
  (`expire_on_commit=False`), and writes only columns whose value differs from the loaded
  one.

So a handler is a sequence of *reads*, one *commit*, and then often more transactions:
notices, mails, calendar entries. Other requests run between any two, and a crash may fall
between any two.

### Components

| component | state | operations | what makes it correct |
|---|---|---|---|
| appointments | slots, appointments | create slots, delete slot, book, cancel, complete | a slot is not lost, not shared, not taken from a confirmed appointment |
| calendar | entries by owner and source | created by book and by roadmap tasks, deleted by owner or by cancel | entries follow what they stand for |
| auth | refresh tokens (PostgreSQL), one-time codes (Redis) | register, login, refresh, logout, sessions, forgot/reset, nightly sweep | a spent code is dead; refreshing does not multiply sessions |
| users | accounts, settings of notifications | invite, deactivate, delete, update | deactivation and deletion end sessions |
| tasks | tasks, status history | create, update, status, delete; nightly overdue job | only late tasks become overdue, and all do; history and completion time agree with the status |
| roadmaps | templates, assignments | assign (a chain of commits), link to a university | an announced assignment is whole |
| enrollments | one row per student and university | enroll, unenroll, created by an assignment | at most one row |
| messages | conversations, messages, last_message_at | get conversation, send, broadcast, image upload | broadcasts are atomic, nobody is told of what is not there |
| notifications | rows, unread count cached in Redis | create, read, list | notices and mails agree; the cached count settles |
| documents, storage | rows in PostgreSQL, objects in MinIO | upload, delete | rows and objects agree |
| faq | rows, the list cached in Redis | four edits, list | the cached list settles |
| news, universities, alumni, profile | reference rows | single-row edits | their tables are those of the models |
| reports | none | aggregate queries | |
| workers | the queue in Redis | overdue tasks, token sweep, reminders, review of universities, mails with retries | who is due is reminded, once; each late task is marked; no mail is tried for ever |
| migrations | the schema, `alembic_version` | sixteen upgrades and downgrades | the schema is that of its revision; no upgrade is stopped by rows or by another |
| deployment | the API container | start, stop, downgrade | the server meets the newest schema |
| scripts | none | seed the demo data, make the adviser | all or nothing, once, and by the rules of the application |
| core, email, application | none | roles, tokens, hashing, SMTP, wiring | |

Interaction is by direct calls inside one process (appointments -> calendar,
notifications; roadmaps -> tasks, enrollments, calendar), by shared tables, by the Celery
queue (mails) and by the daily jobs. The API container runs the migrations before the
server (`docker-compose.yml` 86-88); an operator's downgrade may run beside the server.

### What is hard here

Check-then-act across statements (book, delete_slot, login, refresh, enrolment); handlers
that do not check the state they change (cancel, complete); chains of commits (assign,
broadcast, registration); two stores without a common transaction (Redis and PostgreSQL,
MinIO and PostgreSQL); lock cycles; a job that races with users; caches that are filled
and emptied outside the transaction; mails that cannot be rolled back; windows of time cut
in UTC and counted in local days; migrations that depend on rows of older releases.
`PROJECT.json` lists each hazard at its line with the property about it.

## 2. The modules

| module | models | checked by |
|---|---|---|
| `Ledger` | the abstract appointment tables: every operation in one step | implemented by `Appointments` |
| `Appointments` | `modules/appointments`, entries in `modules/calendar` | runs `appointments`, `appointments_live`, `double_booking`; `AppointmentsProofs` |
| `Sessions` | `modules/auth`, accounts of `modules/users`, the token sweep | `sessions`; `SessionsProofs` |
| `Tasks` | `modules/tasks`, the overdue job | `tasks`; `TasksProofs` |
| `Roadmaps` | assignment in `modules/roadmaps`, rows of `modules/enrollments` | `roadmaps`; `RoadmapsProofs` |
| `Messages` | `modules/messages` with the image in storage | `messages`; `MessagesProofs` |
| `Documents` | `modules/documents` with the objects in storage | `documents`; `DocumentsProofs` |
| `Inbox` | notices, unread count and FAQ list with their caches, the mail task; what book, cancel and update_task tell | `inbox`; `InboxProofs` |
| `Reminders` | the schedule, queue and workers; deadline and appointment reminders, review of universities | `reminders`; `InboxProofs` |
| `Schema` | a database schema as a value and the statements of Alembic on it | used by `Migrations`, `Models`, `Deployment`, `Seed` |
| `Migrations` | the sixteen files of `migrations/versions`, both ways | `deployment` |
| `Models` | the tables of the SQLAlchemy models and where the newest schema falls short of them | `deployment`, `seed` |
| `Chain` | what each migration comes to, statement by statement, as assumptions TLC evaluates | `seed`; used by `DeploymentProofs` |
| `Rollout` | the abstract deployment: versions change by whole commands | implemented by `Deployment` |
| `Deployment` | `docker-compose.yml`, `migrations/env.py`, the server's writes beside a migration, `create_admin.py` | `deployment`; `DeploymentProofs` |
| `Seed` | `scripts/seed_data.py` | `seed`; `DeploymentProofs` |

`MC*` modules give the constants of the TLC runs. `Seed` and `Reminders` name their
specifications `SeedSpec` and `JobsSpec`, because each shares a module of proofs with
another model, with which it has no variable in common. The shape is the same everywhere:

* Rows are functions from ids to column values; a row that does not exist has a value that
  says so (`"none"`, `"absent"`). Ids are drawn from a finite set, which bounds the number
  of rows ever created.
* `txn[p]` holds the local variables of the request that process `p` is serving: the
  program counter and what it has loaded. `Idle` is a process that serves none.
* A handler is `XRead` (load and check, keep what was loaded) and `XCommit` (apply all
  writes and commit). Where a row lock is visible to others before the commit it is a
  variable; where taking it commutes with everything up to the commit it is part of the
  commit.
* `Abort(p)` is a failure anywhere before a commit; after the first commit of a chain it
  leaves what was committed. Actions that keep nothing from their read, such as a guarded
  DELETE, are a single step.

**Appointments.** `slots[s]`, `status[a]`, `slotOf[a]`, `student[a]`, `adviser[a]`,
`cancelled[a]` are the columns; `events` the calendar entries. `BookRead/BookCommit` are
`service.py` 91-144, `CancelRead/CancelUpdate/CancelCommit` 208-241 (the appointment is
locked by its UPDATE before the slot is loaded), `DeleteRead/DeleteLock/DeleteCommit` the
handler in `router.py` 60-74 with the `SET NULL` of the foreign key. `Assign` is the
session's rule that an unchanged value writes nothing: two cancels by the same side leave
the status to a `complete` that came between.

**Sessions.** Tokens are pairs of a user and the second of issue, which is what the JWT is
made from; `Insertable` is the UNIQUE constraint and the foreign key. `RefreshRead` loads
the row, `Rotate` deletes whatever row is left of it and inserts the new one. `otp` is the
Redis key, `spent` a history variable. The reset deletes the key before it commits
(`ResetFlush`, `ResetCommit`).

**Tasks.** `JobSearch` finds the late rows, `JobCommit` updates those that are still late,
as PostgreSQL re-evaluates the WHERE clause of an UPDATE on a row it waited for.
`PatchRead/PatchCommit` and `UpdateRead/UpdateCommit` are the two ways to change a task.

**Roadmaps.** `AssignRoadmap`, `EnrollRead`, `EnrollCommit`, then for each task
`TaskCommit` (or `RejectDeadline`), `TaskNotice`, `EventCommit`, at last `RoadmapNotice`:
the commits of `service.py` 87-199 in order.

**Messages.** A request of `kind` send or broadcast goes `Start`, `Upload`, then `Write`
per conversation (insert and UPDATE of `last_message_at`, which locks the row), `Commit`,
and the notices: for one message `Notice` then `Mail`, for a broadcast `NoticeOne` per
conversation, each with its mail, then one `NoticesCommit`.

**Documents.** `row[d]` is the object key named by the row of a student and a type, which
the unique index makes one at most; `objects` is what MinIO holds. An upload goes
`UploadRead`, `DropObject` and `EraseRow` if a row was loaded, `PutObject`, then
`InsertCommit` or `InsertConflict`; a deletion `DeleteRead`, `DropObject`, `EraseRow`,
`DeleteCommit`. `lock[d]` is the request whose DELETE of the row is not committed yet.
`made` and `dropped` are history.

**Inbox.** `told` and `read` stand for the rows of `notifications` (by the event they tell
of), `faqs` for the list by its version, `redis[k]` for the two cached keys. A reader that
misses goes `Miss`, `Query`, `Store` (`notifications/service.py` 65-78, `faq/service.py`
19-32): between the two last its value may grow old. A writer commits and then
`Invalidate`s. `Plan(e)` is the order of the commit of the notices and of the mails in the
services that tell of an event: book queues its mails before the notices, cancel and
update_task after. `Attempt(m)` is one run of the mail task with its `max_retries`.

**Reminders.** `queue` holds the jobs beat has sent, `job[w]` what a worker has loaded and
not yet committed; `Take` removes the job from the queue first, as Celery acknowledges
early, so `Fail` loses it. `InWindow` is the query's window of four times 24 hours and
`DaysLeft` the difference of dates that decides (`reminder_tasks.py` 22-43). A slot may be
made, and booked, in the past: no handler compares it with the clock. Rows carry
`since`, the first day that finds them at eight as they are now, and `kept` names the runs
that were on time; both are history.

**Schema, Migrations, Models.** A schema is a record of columns, foreign keys and indexes,
with the width of `group_type`, the roles and the groups, the only rows a migration reads
or writes. A statement `Fits` when PostgreSQL carries it out, `After` is its effect, and
`Locks` the tables it locks against writes: its own, and those that a foreign key it makes
or drops refers to. Renaming a column locks only the column's own table. A migration is
the list of its statements; `Models` is the list that `create_all` would run.

**Deployment.** `command` is the transaction of an Alembic command: `Execute` is one
statement, `Stamp` the end of one migration, `Commit` the end of all. `Register` and
`CreateAdviser` are writes of the server meanwhile; they wait for the tables that the
statements so far have locked (`command.locks`), and they need every column the models
name. So a downgrade from the head leaves `users` and `student_profiles` open to a
registration between the two statements of 0012, and its group may be too long for the
second. `late` is what was written since the last statement. An operator does not
downgrade a container that is just starting.

**Seed.** A process goes through the flushes of the script in order and commits once.
`Start` is the check that no student is there, `Find` and `Create` the get-or-create of an
account (which waits for another transaction with the same email). `origin` says whether
the tables come from the models, as in the tests, or from the migrations; what is missing
there stops a flush, and so does a student who is deleted before the profiles refer to
the account. The rows themselves are computed as the script computes them, from the
student's number and from lists of names and texts that are not empty
(`PoolsAssumption`).

## 3. Runs

| run | instance | shows |
|---|---|---|
| `appointments` | 2 requests, 2 slots, 2 appointments, one student, one adviser; symmetry | no leaked slot, calendar follows the booking, cancel never meets a deleted slot, `Ledger` is implemented |
| `appointments_live` | 2 requests, 2 slots, 1 appointment, fair | every request ends |
| `sessions` | 3 requests, 1 account, 2 codes, seconds 0..2 | spent codes, draining of a deactivated account, how sessions can multiply |
| `tasks` | 2 requests and the job, 1 task, instants 0..2, fair | completion, history, overdue only when late, late is marked |
| `roadmaps` | 2 assignments, 1 student, 1 university, 2 tasks | announced is complete, an aborted one stops at one task |
| `messages` | 2 requests, 3 conversations of which 2 exist at the start, the second with an image, fair | told only of what was sent, atomic broadcasts, last_message_at, image stored, every request ends |
| `documents` | 3 requests, 1 student, 2 types, 3 object keys; symmetry | only a failure parts a row from its object; no lost update |
| `deployment` | every revision at the start, with any rows of its time; downgrades to 0, 1 and 12; one downgrade, one stop; fair | the schema is that of its revision, rows follow, what stands in the way and what the server may write in between, the drift from the models, `Rollout` is implemented, a container that starts serves |
| `seed` | 2 processes, 2 starts, forced or not; 2 students; both schemas; two uploads that may fail; a student registers or is deleted | all or nothing, at most once, by the rules of the application |
| `reminders` | 2 workers, 4 days, 1 task, 1 appointment, 1 edit, 1 fault; symmetry | who is due is reminded, and no other |
| `inbox` | 2 requests at once, 3 in all, a booking and an update, 3 retries; fair | order of notices and mails, caches and mails settle |
| `double_booking` | the smallest that fails | the slot of `Nobal_Edu_Backend.md` 1396 is booked twice |

Five more configurations state what a document, docstring or test says and the code does
not do. They are run by hand, and TLC finds each violated (see `findings` in
`PROJECT.json`):

    tlc -config cancel_again.cfg MCAppointments       # OpenSlotIsFree
    tlc -config deactivation.cfg MCSessions           # DeactivatedHasNoTokens
    tlc -config refresh_twice.cfg MCSessions          # RefreshOnLiveToken
    tlc -config assignment.cfg MCRoadmaps             # AssignedIsComplete
    tlc -config lost_conversation.cfg MCMessages      # HandedOutIsThere

The listed runs check what does hold in their place: `OpenSlotExplained` (only another
cancellation opens a slot that is held), `DeactivationDrains` (only requests admitted
before the deactivation add a session), `SplitsExplained` (only a second refresh that
loads a token before the first has replaced it makes two sessions of one; in
`refresh_twice.cfg` rows are deleted by refreshes alone, so that what TLC shows is two of
them), `StopsAtOneTask` (an assignment that is cut off stops at one task).

**Why the bounds are enough.** A race here is between two requests on one row, or a
request and a job. A third request is present in `sessions` and `documents`, so that the
state left by one race meets another operation while both are open. In `appointments` a
third was run once, on one slot, with the same result; two keep the run short. Two
appointments let one slot be booked twice or booked again after a cancellation, which is
all that the sharing of a slot needs; the proofs cover any number. Two tasks in a template
give a first, a middle (between two tasks) and a last point of failure. In `Messages`,
`MaxRequests` is the bound on requests ever made, and two suffice for two broadcasts in
opposite orders; `WithImage` fixes which of them has an image. In `Sessions`, `MaxClock`
and `Life` let a token be issued, used in the same second and the next, and expire. In
`Tasks`, `MaxClock` puts a deadline before, at and after the job's instant. In
`Documents`, three keys bound the uploads that store something: one document replaced by
two that race. In `Deployment`, `Goals` are the empty database (on whose way the downgrade
of 0001 fails on the tables it forgets), the revision above it, and the one below the
subgroups; two of the values of `group_type` suffice because a group matters only by its
length and its letter. All sixteen migrations are in every instance: they are definitions,
not parameters. In `Seed`, student 0 has an image in the conversation and a task that is
done, student 1 one that is overdue; what else the script varies with the student's number
moves dates and counts within a branch. A second start is a repetition or a rival. In
`Reminders`, four days hold a reminder three days ahead, the days between and one day
ahead; `Times` are the first and the last instant of the fourth day, where the query's
window and the dates disagree. In `Inbox`, two requests at once let a reader hold an old
value across a writer's invalidation, and the third request is the one that commits the
change. A cancellation has the plan of an update and one mail more; it is in the proof and
left out of the run for its length. Symmetry is used only in runs without liveness.

**Fairness.** `Appointments` and `Messages` assume strong fairness of each request's next
step: the event loop runs every request that can run, and PostgreSQL grants a lock to its
waiters in turn, so that a request whose row is free again and again gets it. The deadlock
detector is among these steps: it runs after a second of waiting. No fairness is assumed
of failures or of new requests. `Tasks` assumes that the clock runs on, that the beat
scheduler starts the job again and again (`celery_app.py` 26-47), that a job which can
commit does so in the end, and that requests end. `Deployment` assumes that a command that
can go on goes on and that a container whose migrations are through starts its server:
PostgreSQL and the shell carry out what was started. Stops, downgrades and writes are not
assumed to happen. `Inbox` assumes that a request that is served goes on (unless it is
aborted, which no fairness forces or forbids), that an entry of Redis expires, since each
is stored with a time to live, and that a worker attempts each mail in the queue.
`Settles` rests on the time to live: the deletions by writers make the common case quick,
but no stale entry outlasts its life even where one is lost. The other safety runs assume
none.

Some processes stop for good in a bounded instance (every id used, every account deleted),
so those runs do not check deadlock and say so; a request stuck for ever is what
`RequestsFinish` excludes.

## 4. Proofs

TLAPS proves, for every value of the constants that meets the stated ASSUMEs (null values
are outside the sets of ids; `Role` and `SlotOwner` have their types; clocks, lives and
bounds are naturals; requests in progress are finitely many; events are those the code
has; the seed script's lists are not empty; there is a day to be reminded on). Every
invariant a listed run checks is a theorem, and so are the action properties and the two
refinements:

| module | inductive invariant | theorems |
|---|---|---|
| `AppointmentsProofs` | `TypeOK`; each request's frame agrees with its program counter and its locks (`Coherent`); two bookings in progress have different ids (`DistinctBookings`); columns of a row agree with its status (`Rows`); a cancellation that will free its slot holds the appointment's lock and the slot exists (`FirmHolder`) | `TypeCorrect`, `NoLeak`, `OpenExplained`, `CalendarCorrect`, `NeverStale`, `Refinement` |
| `SessionsProofs` | types, frames, codes in use are not spent, a refresh holds one token of the user it serves | `TypeCorrect`, `SpentForGood`, `Drains`, `NoSplit` |
| `TasksProofs` | types, frames | `TypeCorrect`, `DoneIsComplete`, `HistoryIsKept`, `OverdueIsLate` |
| `RoadmapsProofs` | types, frames, two requests have different assignments, and what each assignment has made so far is what its request's position says (`Sound`) | `TypeCorrect`, `NoticeMeansComplete`, `StopsCleanly` |
| `MessagesProofs` | types, frames, distinct numbers, what a request has written is all of or none of its messages (`Sound`) | `TypeCorrect`, `NothingFalseIsTold`, `BroadcastIsAtomic`, `LastIsReal`, `ImagesAreStored` |
| `DocumentsProofs` | types, frames, a request that has erased its row holds its lock (`Holding`, `Rows`), what it loaded is the row of no other document (`LoadedFrom`), keys stored are nobody's yet (`Unnamed`) | `TypeCorrect`, `OnlyFailuresLose`, `NoLostUpdate` |
| `DeploymentProofs`, of `Deployment` | a container that starts runs an upgrade to the head or has it behind it; the goal of a downgrade stays below what is committed, and no container starts meanwhile (`Shape`); the work of the open command is the schema of its revision after the statements done, with the rows it found, and the committed database is that of its revision; a command that has changed the width of `group_type` holds the lock of its table (`Inv`) | `RolloutKept`, `SchemaKept`, `WayIsClear`, `RowsStayInStep`, `DriftIsKnown` |
| `DeploymentProofs`, of `Seed` | a transaction has filled the tables its stage says, each as one run leaves it (`UnderWay`); one run is past the flush of the profiles, and none has committed before it (`OneSeeds`); what is committed is of one run, whole, on the models' schema, or of the application (`Settled`) | `SeedsAllOrNothing`, `SeedsOnce`, `SeedsSound` |
| `InboxProofs`, of `Inbox` | types; what a service has left of its plan agrees with what it has done (`AllTelling`) | `TellsInOrder` |
| `InboxProofs`, of `Reminders` | types; a job of a day runs once; what a worker loaded at eight are the rows as they stood, or rows changed since, which count from the next day (`JobsInv`) | `RemindsTheDue` |

`NoLeak` needs more than the slot and its appointments: a cancellation decides to free the
slot from what it loaded, and between that and its commit the slot may be booked by
another, or deleted. The argument is the lock order: the delete holds the slot and waits
for the locked appointment. `Refinement` maps each step to an operation of `Ledger` or to
a stutter, with the same invariant, variables mapped to themselves. `OpenExplained` rests
on the same invariant: whoever holds a slot that is open must have been overtaken by a
cancellation, whose appointment still names the slot. `Drains` counts: a step takes
sessions and admitted requests of a deactivated account away, or turns one such request
into a session. `NoSplit` counts too, with a token and the refreshes that hold it taken as
one session: a refresh that begins takes its token out of the one set and itself into the
other, one that ends, in whatever way, goes back, and only a second refresh of a token
that is already out adds without taking. `RolloutKept` needs nothing of what the
migrations contain, only that a command is one transaction and that `&&` ties the server
to it; it would hold for any sixteen migrations.

`SchemaKept` and the three after it do need what the migrations contain. What a list of
statements makes of a schema without rows is a computation on closed terms, and `Chain`
states its outcome as named assumptions, which TLC evaluates in full: the schema after
each statement, that the statement fits there, and where the list ends. What the prover
adds is everything that varies: any rows (only statements of 0012 and 0013 read or write
them, and the proof goes through all the lists to say so), any goals, the server's writes
between two statements, and any number of failed, killed and repeated commands. For
`RowsStayInStep` it must be known that no group is written once 0012 has shortened the
column: from there on the command holds the lock of `student_profiles`, which `Inv` says.
`DriftIsKnown` is `DriftAssumption`, about the last schema, together with
`SchemaIsOfRevision`.

`SeedsAllOrNothing` is not inductive: a run that starts beside another has a transaction
that is as good as the first's. What decides is the flush of the profiles. It names every
student, the account is shared or waited for, and `profiles.user_id` is unique: of two
transactions the second waits and, when the first commits, fails. Everything after that
flush is therefore done by one process on a database without seeded rows, and the one
commit makes all of its tables at once. `SeedsSound` is then about one run's rows alone:
lemmas about the arithmetic of the script (days, slots, statuses from the student's
number) for any number of students.

`RemindsTheDue` compares the notices with the state at eight o'clock of each day whose run
came on time, and the state moves on while late jobs wait in the queue. The invariant
carries, for each worker, that whoever stood unchanged since eight is in what it loaded as
it stands now, and for each run that is over that its notices are the ones the rule asks
for. That the query's window of four times 24 hours in UTC misses nobody whose difference
of local dates is 1 or 3 is a lemma about instants (`InFourDays`).

Only model-checked: `RequestsFinish`, `LateIsMarked`, `Settles` and `Arrives`, since
liveness under fairness is out of the prover's reach; the effect of the sixteen concrete
lists of statements, as said, since it would take the prover an induction over each list;
and every violation.

## 5. What the code does not do as it says

Each is a finding in `PROJECT.json`, with the line it disagrees with:

* A slot is booked twice (`double_booking`); a second cancellation opens a slot another
  student holds; a deactivated account gets a session from a request in progress; a
  refresh token used twice at once gives two sessions; an assignment cut off leaves part
  of a roadmap; the id of a conversation handed out on first use names nothing.
* The migrated database is not that of the models (`DriftAtHead`). Universities and
  roadmaps lack columns there, so every query of the ORM on them fails, and with them the
  weekly review, the assignment of a roadmap and the seed script. `users.email` and
  `refresh_tokens.token_hash` are not unique there, so two registrations with one email at
  once may both succeed. `Sessions` assumes the models' constraints, as the tests do.
* `SEED_FORCE=1` never adds students (`SeededOnce`).

Two observations that are no findings: `Nobal_Edu_Backend.md` 1346-1348 gives other hours
for some jobs than `celery_app.py` 26-47, which the model follows (the review of
universities is weekly there, not daily); and a reminder of an appointment that a worker
takes up more than five minutes late is dropped for that day.

## 6. Not modelled, and why

* Passwords, mail texts and token signatures: no property depends on which they are.
  One-time codes are distinct here; the code draws six digits at random.
* `change_password` revokes no session: it changes nothing that is modelled.
* Who may see what: roles appear only where they guard a change of state. In `Messages`
  there is one adviser.
* The length of a slot, times of day, time zones outside of `Reminders`: slots are not
  compared with each other by the code.
* Read-only queries, listings, reports: they change nothing.
* Edits of news, alumni, profiles, universities and of roadmap templates: each writes one
  row in a transaction of its own, with no rule between rows. Read flags of messages are
  set by their reader alone.
* The settings of notifications: got or created, and read by nothing else.
* Types, defaults and nullability of columns: every column the migrations add to a table
  is nullable or has a default, so that rows never stand in its way.
* The workers wait for no migration, and each job opens an event loop over a shared pool
  of connections: both end in a job that fails, which `Reminders` allows at any point.
* The order in which two mails of one appointment arrive: nothing in the code orders them.
* The notices of a task's creation and completion: their plan is that of an update.
* That a slot may be deleted under a booking in progress (`router.py` 70, `SET NULL`) is
  in the model of `Appointments`; no property forbids it, because the foreign key says so.

What would come next, in order: an abstract seeding in one step that `Seed` implements; an
abstract cache that `Inbox` implements; read flags composed with `Messages`.
