----------------------------- MODULE Deployment -----------------------------
(***************************************************************************)
(* How the system is brought up (src/docker-compose.yml).  The API          *)
(* container runs `alembic upgrade head' and, if that succeeds, the server. *)
(* Alembic carries out every migration that is missing in one transaction   *)
(* (src/migrations/env.py), statement by statement; a failure or a crash    *)
(* rolls all of it back and ends the container.  An operator may also       *)
(* downgrade, while the server runs or not.                                 *)
(*                                                                         *)
(* The server, when it runs, writes while an operator's downgrade is in     *)
(* progress: what it commits the downgrade sees from then on, except that   *)
(* a write waits for the tables that the statements so far have locked.     *)
(* The workers do not wait for the migrations at all.                       *)
(***************************************************************************)
EXTENDS Migrations, Models

CONSTANTS
  Groups,      \* the values of group_type in use
  Goals,       \* bound: the revisions to which an operator downgrades
  MaxStops, MaxDowngrades  \* bounds: how many there are in a behaviour

ASSUME GroupsAssumption == Groups \subseteq {"D", "D1", "D2", "F", "F1", "F2", "F3", "F4"}
ASSUME GoalsAssumption == Goals \subseteq 0 .. HeadRevision
ASSUME BoundsAssumption == MaxStops \in Nat /\ MaxDowngrades \in Nat

VARIABLES
  db,        \* the database as committed
  revision,  \* alembic_version, as committed
  command,   \* the transaction of the Alembic command that runs, if one does
  api,       \* the API container
  late,      \* history: what was written since the last statement of the command
  stops, downgrades  \* how many there were

vars == <<db, revision, command, api, late, stops, downgrades>>

\* The command has got to revision `at', and to statement `done' of the next
\* migration; `work' is the database as its transaction sees it, `locks' the
\* tables it has locked.
NoCommand == [on |-> FALSE, goal |-> 0, at |-> 0, done |-> 0, work |-> Empty, locks |-> {}]

\* What the releases of the time had written: subgroups and advisers are
\* younger than their migrations.
RolesAt(n) == {"student", IF n < Advisers THEN "conductor" ELSE "adviser"}
GroupsAt(n) == {g \in Groups : n >= Subgroups \/ Length(g) = 1}

Init ==
  /\ revision \in 0 .. HeadRevision
  /\ \E R \in SUBSET RolesAt(revision), G \in SUBSET GroupsAt(revision) :
       /\ revision = 0 => R = {}
       /\ "student" \notin R => G = {}
       /\ db = [SchemaAt(revision) EXCEPT !.roles = R, !.groups = G]
  /\ command = NoCommand /\ api = "down" /\ late = {}
  /\ stops = 0 /\ downgrades = 0

-----------------------------------------------------------------------------
(* The Alembic command.                                                     *)

Begin(n) ==
  command' = [on |-> TRUE, goal |-> n, at |-> revision, done |-> 0, work |-> db,
              locks |-> {}]

Upgrading == command.at < command.goal
Script == IF Upgrading THEN Upgrades[command.at + 1] ELSE Downgrades[command.at]
Running == command.on /\ command.at # command.goal
Pending == Running /\ command.done < Len(Script)
Statement == Script[command.done + 1]

Execute ==
  /\ Pending /\ Fits(command.work, Statement)
  /\ command' = [command EXCEPT !.work = After(@, Statement), !.done = @ + 1,
                                !.locks = @ \cup Locks(command.work, Statement)]
  /\ late' = {}
  /\ UNCHANGED <<db, revision, api, stops, downgrades>>

\* A migration is through: Alembic notes its revision, in the same transaction.
StampEach ==
  /\ Running /\ command.done = Len(Script)
  /\ command' = [command EXCEPT !.at = IF Upgrading THEN @ + 1 ELSE @ - 1, !.done = 0]
  /\ db' = command.work /\ revision' = command'.at
  /\ UNCHANGED <<api, late, stops, downgrades>>

Stamp ==
  /\ Running /\ command.done = Len(Script)
  /\ command' = [command EXCEPT !.at = IF Upgrading THEN @ + 1 ELSE @ - 1, !.done = 0]
  /\ UNCHANGED <<db, revision, api, late, stops, downgrades>>

Commit ==
  /\ command.on /\ command.at = command.goal
  /\ db' = command.work /\ revision' = command.goal
  /\ command' = NoCommand
  /\ UNCHANGED <<api, late, stops, downgrades>>

\* A statement fails: the transaction is rolled back, and `&&' ends a container
\* that was starting.
Fail ==
  /\ Pending /\ ~Fits(command.work, Statement)
  /\ command' = NoCommand
  /\ api' = IF api = "starting" THEN "down" ELSE api
  /\ UNCHANGED <<db, revision, late, stops, downgrades>>

-----------------------------------------------------------------------------
(* The containers and the operator.                                         *)

StartContainer ==
  /\ api = "down" /\ ~command.on
  /\ api' = "starting" /\ Begin(HeadRevision)
  /\ UNCHANGED <<db, revision, late, stops, downgrades>>

\* uvicorn, and the lifespan of the application.
Serve ==
  /\ api = "starting" /\ ~command.on
  /\ api' = "serving"
  /\ UNCHANGED <<db, revision, command, late, stops, downgrades>>

\* The containers are stopped or crash, with the command they run.
Stop ==
  /\ api # "down" \/ command.on
  /\ stops < MaxStops /\ stops' = stops + 1
  /\ api' = "down" /\ command' = NoCommand
  /\ UNCHANGED <<db, revision, late, downgrades>>

\* alembic downgrade, in a container that serves or in one of its own.
Downgrade(n) ==
  /\ api # "starting" /\ ~command.on
  /\ n < revision /\ Begin(n)
  /\ downgrades < MaxDowngrades /\ downgrades' = downgrades + 1
  /\ UNCHANGED <<db, revision, api, late, stops>>

-----------------------------------------------------------------------------
(* Writes of the application.                                               *)

\* A query of the ORM names every column of the tables it is about, and a write
\* waits while the command has locked one of them.
ColumnsOf(T) == {c \in CreateAll.columns : c[1] \in T}
Usable(T) == ColumnsOf(T) \subseteq db.columns /\ command.locks \cap T = {}

Written(d, R, G) == [d EXCEPT !.roles = @ \cup R, !.groups = @ \cup G]

Write(R, G) ==
  /\ db' = Written(db, R, G)
  /\ db' # db
  /\ command' = IF command.on THEN [command EXCEPT !.work = Written(@, R, G)] ELSE command
  /\ late' = IF command.on THEN late \cup R \cup G ELSE late
  /\ UNCHANGED <<revision, api, stops, downgrades>>

\* A student registers.  (To change the group of one, a request would wait for
\* the row that 0012 has updated; a new row does not.)
Register(g) ==
  /\ api = "serving" /\ Usable({"users", "student_profiles"})
  /\ Length(g) <= db.width
  /\ Write({"student"}, {g})

\* scripts/create_admin.py, in the API container.
CreateAdviser ==
  /\ api # "down" /\ Usable({"users"})
  /\ Write({"adviser"}, {})

Migrating == Execute \/ Stamp \/ Commit \/ Fail
Next ==
  \/ Migrating \/ StartContainer \/ Serve \/ Stop
  \/ \E n \in Goals : Downgrade(n)
  \/ \E g \in Groups : Register(g)
  \/ CreateAdviser

\* PostgreSQL and the shell get on with what was started.
Fairness == WF_vars(Migrating) /\ WF_vars(Serve)

Spec == Init /\ [][Next]_vars /\ Fairness
-----------------------------------------------------------------------------
(* Properties.                                                              *)

Schema(d) == [d EXCEPT !.roles = {}, !.groups = {}]

\* However commands fail, crash and follow each other, the committed database
\* has exactly the tables, columns, keys and indexes of the revision it is
\* stamped with (the whole command is one transaction: env.py:66-69, and every
\* downgrade() undoes its upgrade()).
SchemaIsOfRevision == Schema(db) = SchemaAt(revision)

\* No migration, in either direction, is stopped by what the others or earlier
\* releases left, or by the rows, except: the downgrade of 0001, which drops
\* users while conversations, messages, slots and appointments refer to it
\* (0001_initial.py:186); and the downgrade of 0012, when a student of a subgroup
\* registers between its two statements, the update that shortens the groups and
\* the change of the column (0012_group_type_extend.py:29).
NothingInTheWay ==
  Pending /\ ~Fits(command.work, Statement) =>
    \/ Statement = DropTable("users") /\ command.at = 1
    \/ Statement = Recast(1) /\ \E g \in late : g \in Groups /\ Length(g) = 2

\* Rows follow the schema through every command, the writes of the server in
\* the middle of one included: there is no conductor from 0013 on, and no
\* subgroup in a column that is too short for it
\* (0013_rename_conductor_to_adviser.py:18, 0012_group_type_extend.py:30).
RowsFollowRevision ==
  /\ revision >= Advisers => "conductor" \notin db.roles
  /\ revision < Subgroups => \A g \in db.groups : Length(g) = 1

\* At the newest revision the database differs from the models in the points
\* that Drifts names, and no others: the campus columns of a university
\* (universities/models.py:33) and the university of a roadmap
\* (roadmaps/models.py:20) are missing, and so are two foreign keys of tasks, the
\* unique email and the unique token_hash.
DriftAtHead == revision = HeadRevision => Drifts(db)

\* The deployment keeps the promise of Rollout: the server starts only on the
\* newest revision, and revisions change by whole commands.
Abstract == INSTANCE Rollout WITH Newest <- HeadRevision,
                                  version <- revision, serving <- (api = "serving")
ImplementsRollout == Abstract!Spec

\* A container that starts, on a database of any revision and with any rows of
\* its time, gets to serve unless somebody stops it: no upgrade waits for ever
\* or fails (docker-compose.yml:86-88).
Arrives ==
  \A k \in 0 .. MaxStops :
    (api = "starting" /\ stops = k) ~> (api = "serving" \/ stops > k)
=============================================================================
