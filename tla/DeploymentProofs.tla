-------------------------- MODULE DeploymentProofs --------------------------
(***************************************************************************)
(* The deployment keeps the promise of Rollout, and the committed database  *)
(* has the schema and the rows of its revision, whatever groups are in use, *)
(* goals an operator has, and however often containers stop.  The seed      *)
(* script leaves all of its rows or none, and does so once: the two modules *)
(* have no variable in common.                                              *)
(***************************************************************************)
EXTENDS Deployment, Seed, Chain, FiniteSetTheorems, SequenceTheorems, TLAPS

\* The refinement is not inductive: it rests on what the command that runs has
\* to do with the container.  A container that starts runs an upgrade to the
\* head until it is there; a downgrade runs in no container that starts, and
\* its goal stays older than what is committed.
Shape ==
  /\ revision \in 0 .. HeadRevision
  /\ command = [on |-> command.on, goal |-> command.goal, at |-> command.at,
                done |-> command.done, work |-> command.work, locks |-> command.locks]
  /\ command.on \in BOOLEAN
  /\ command.on => \/ command.goal = HeadRevision /\ api = "starting"
                   \/ command.goal \in 0 .. (revision - 1) /\ api # "starting"
  /\ api = "starting" /\ ~command.on => revision = HeadRevision

----------------------------------------------------------------------------
\* There are sixteen migrations.
LEMMA HeadIsNat == HeadRevision = 16 /\ HeadRevision \in Nat
  BY DEF HeadRevision, Upgrades

\* Nothing runs at first.
LEMMA InitShape == Init => Shape
  BY HeadIsNat DEF Init, Shape, NoCommand

\* A statement, or a stamp, leaves all but the progress of the command alone.
LEMMA ProgressStep ==
  ASSUME Shape, Execute \/ Stamp
  PROVE  Shape' /\ UNCHANGED <<revision, api>>
  <1>1. /\ command'.on = command.on /\ command'.goal = command.goal
        /\ command' = [on |-> command'.on, goal |-> command'.goal, at |-> command'.at,
                       done |-> command'.done, work |-> command'.work,
                       locks |-> command'.locks]
    <2>1. CASE Execute
      BY <2>1 DEF Execute, Shape
    <2>2. CASE Stamp
      BY <2>2 DEF Stamp, Shape
    <2> QED
      BY <2>1, <2>2
  <1>2. UNCHANGED <<revision, api>>
    BY DEF Execute, Stamp
  <1> QED
    BY <1>1, <1>2 DEF Shape

\* A commit is an upgrade to the head, with no server, or a downgrade.
LEMMA CommitStep ==
  ASSUME Shape, Commit
  PROVE  Shape' /\ (Abstract!Upgrade \/ Abstract!Downgrade)
  <1>1. /\ command.on /\ revision' = command.goal /\ command' = NoCommand /\ api' = api
    BY DEF Commit
  <1>2. CASE command.goal = HeadRevision /\ api = "starting"
    BY <1>1, <1>2, HeadIsNat DEF Shape, NoCommand, Abstract!Upgrade
  <1>3. CASE command.goal \in 0 .. (revision - 1) /\ api # "starting"
    BY <1>1, <1>3, HeadIsNat DEF Shape, NoCommand, Abstract!Downgrade
  <1> QED
    BY <1>1, <1>2, <1>3 DEF Shape

\* A failure or a stop ends the command, and the container that was starting.
LEMMA EndOfCommand ==
  ASSUME Shape, Fail \/ Stop
  PROVE  Shape' /\ (Abstract!Stop \/ UNCHANGED <<revision, api>>)
  <1>1. revision' = revision /\ command' = NoCommand
    BY DEF Fail, Stop
  <1>2. CASE Fail
    <2>1. api' = api \/ api' = "down"
      BY <1>2 DEF Fail
    <2>2. api' # "starting"
      BY <1>2 DEF Fail
    <2> QED
      BY <1>1, <2>1, <2>2 DEF Shape, NoCommand, Abstract!Stop
  <1>3. CASE Stop
    BY <1>1, <1>3 DEF Stop, Shape, NoCommand, Abstract!Stop
  <1> QED
    BY <1>2, <1>3

\* A container starts with a command of its own; an operator starts another.
LEMMA BeginStep ==
  ASSUME Shape, StartContainer \/ \E n \in Goals : Downgrade(n)
  PROVE  Shape' /\ UNCHANGED <<revision, (api = "serving")>>
  <1>1. CASE StartContainer
    BY <1>1 DEF StartContainer, Begin, Shape
  <1>2. ASSUME NEW n \in Goals, Downgrade(n)
        PROVE  Shape' /\ UNCHANGED <<revision, (api = "serving")>>
    <2>1. n \in 0 .. (revision - 1)
      BY <1>2, GoalsAssumption, HeadIsNat DEF Downgrade, Shape
    <2> QED
      BY <1>2, <2>1 DEF Downgrade, Begin, Shape
  <1> QED
    BY <1>1, <1>2

\* The server is up only when the upgrade is committed.
LEMMA ServeStep ==
  ASSUME Shape, Serve
  PROVE  Shape' /\ Abstract!Serve
  BY DEF Serve, Shape, Abstract!Serve

\* Rows that the application writes change no revision.
LEMMA WriteStep ==
  ASSUME Shape, NEW R, NEW G, Write(R, G)
  PROVE  Shape' /\ UNCHANGED <<revision, api>>
  <1>1. UNCHANGED <<revision, api>>
    BY DEF Write
  <1>2. /\ command'.on = command.on /\ command'.goal = command.goal
        /\ command' = [on |-> command'.on, goal |-> command'.goal, at |-> command'.at,
                       done |-> command'.done, work |-> command'.work,
                       locks |-> command'.locks]
    BY DEF Write, Shape
  <1> QED
    BY <1>1, <1>2 DEF Shape

\* Every step keeps the shape and is a step of Rollout, or stutters there.
LEMMA NextStep ==
  ASSUME Shape, [Next]_vars
  PROVE  Shape' /\ [Abstract!Next]_<<revision, (api = "serving")>>
  <1>1. CASE Execute \/ Stamp
    BY <1>1, ProgressStep
  <1>2. CASE Commit
    BY <1>2, CommitStep DEF Abstract!Next
  <1>3. CASE Fail \/ Stop
    BY <1>3, EndOfCommand DEF Abstract!Next
  <1>4. CASE StartContainer \/ \E n \in Goals : Downgrade(n)
    BY <1>4, BeginStep
  <1>5. CASE Serve
    BY <1>5, ServeStep DEF Abstract!Next
  <1>6. CASE CreateAdviser \/ \E g \in Groups : Register(g)
    BY <1>6, WriteStep DEF CreateAdviser, Register
  <1>7. CASE UNCHANGED vars
    BY <1>7 DEF vars, Shape
  <1> QED
    BY <1>1, <1>2, <1>3, <1>4, <1>5, <1>6, <1>7 DEF Next, Migrating

----------------------------------------------------------------------------
\* The server starts only on the newest revision, an upgrade leads there in one
\* step and never under a server, and only a downgrade takes the revision away
\* (docker-compose.yml, migrations/env.py).
THEOREM RolloutKept == Spec => ImplementsRollout
  <1>1. Init => Shape /\ Abstract!Init
    BY InitShape, HeadIsNat DEF Init, Shape, Abstract!Init
  <1>2. Shape /\ [Next]_vars => Shape' /\ [Abstract!Next]_<<revision, (api = "serving")>>
    BY NextStep
  <1>3. Spec => Abstract!Init /\ [][Abstract!Next]_<<revision, (api = "serving")>>
    BY <1>1, <1>2, PTL DEF Spec
  <1> QED
    BY <1>3 DEF ImplementsRollout, Abstract!Spec

-----------------------------------------------------------------------------
(* What the statements of the migrations are about.                         *)

\* The kinds of statements that change a schema; the others are about rows.
SchemaOps == {"table", "drop_table", "add", "drop", "rename", "index", "drop_index"}

\* Each of the other statements is of one of these kinds.
LEMMA KindOfStatement ==
  /\ \A t, cs, F : Table(t, cs, F).op \in SchemaOps
  /\ \A t : DropTable(t).op \in SchemaOps
  /\ \A t, cs : Add(t, cs).op \in SchemaOps /\ Drop(t, cs).op \in SchemaOps
  /\ \A t, c, d : Rename(t, c, d).op \in SchemaOps
  /\ \A i, t, cs : Index(i, t, cs).op \in SchemaOps /\ Unique(i, t, cs).op \in SchemaOps
  /\ \A i : DropIndex(i).op \in SchemaOps
  BY DEF Table, DropTable, Add, Drop, Rename, Index, Unique, DropIndex, SchemaOps

\* Only 0012 and 0013 are about rows as well.
AboutRows(n, k, up) ==
  IF up THEN \/ n = Subgroups /\ k = 1 /\ Upgrades[n][k] = Recast(2)
             \/ n = Advisers /\ k = 1 /\ Upgrades[n][k] = Rewrite("conductor", "adviser")
  ELSE \/ n = Subgroups /\ k = 1 /\ Downgrades[n][k] = Truncate
       \/ n = Subgroups /\ k = 2 /\ Downgrades[n][k] = Recast(1)
       \/ n = Advisers /\ k = 1 /\ Downgrades[n][k] = Rewrite("adviser", "conductor")

\* All of a migration is about the schema.
OnlySchema(ops) == \A k \in 1 .. Len(ops) : ops[k].op \in SchemaOps

\* All the other migrations are about the schema only, statement by statement.
LEMMA UpgradesOfSchema ==
  /\ OnlySchema(Upgrade0001) /\ OnlySchema(Upgrade0002) /\ OnlySchema(Upgrade0003)
  /\ OnlySchema(Upgrade0004) /\ OnlySchema(Upgrade0005) /\ OnlySchema(Upgrade0006)
  /\ OnlySchema(Upgrade0007) /\ OnlySchema(Upgrade0008) /\ OnlySchema(Upgrade0009)
  /\ OnlySchema(Upgrade0010) /\ OnlySchema(Upgrade2dad) /\ OnlySchema(Upgrade0011)
  /\ OnlySchema(Upgrade0014) /\ OnlySchema(Upgrade0015)
  <1>1. OnlySchema(Upgrade0001)
    BY KindOfStatement DEF OnlySchema, Upgrade0001
  <1>2. OnlySchema(Upgrade0002)
    BY KindOfStatement DEF OnlySchema, Upgrade0002
  <1>3. OnlySchema(Upgrade0003)
    BY KindOfStatement DEF OnlySchema, Upgrade0003
  <1>4. OnlySchema(Upgrade0004)
    BY KindOfStatement DEF OnlySchema, Upgrade0004
  <1>5. OnlySchema(Upgrade0005)
    BY KindOfStatement DEF OnlySchema, Upgrade0005
  <1>6. OnlySchema(Upgrade0006)
    BY KindOfStatement DEF OnlySchema, Upgrade0006
  <1>7. OnlySchema(Upgrade0007)
    BY KindOfStatement DEF OnlySchema, Upgrade0007
  <1>8. OnlySchema(Upgrade0008)
    BY KindOfStatement DEF OnlySchema, Upgrade0008
  <1>9. OnlySchema(Upgrade0009)
    BY KindOfStatement DEF OnlySchema, Upgrade0009
  <1>10. OnlySchema(Upgrade0010)
    BY KindOfStatement DEF OnlySchema, Upgrade0010
  <1>11. OnlySchema(Upgrade2dad)
    BY KindOfStatement DEF OnlySchema, Upgrade2dad
  <1>12. OnlySchema(Upgrade0011)
    BY KindOfStatement DEF OnlySchema, Upgrade0011
  <1>13. OnlySchema(Upgrade0014)
    BY KindOfStatement DEF OnlySchema, Upgrade0014
  <1>14. OnlySchema(Upgrade0015)
    BY KindOfStatement DEF OnlySchema, Upgrade0015
  <1> QED
    BY <1>1, <1>2, <1>3, <1>4, <1>5, <1>6, <1>7, <1>8, <1>9, <1>10, <1>11, <1>12, <1>13, <1>14

\* So do those of the way back.
LEMMA DowngradesOfSchema ==
  /\ OnlySchema(Downgrade0001) /\ OnlySchema(Downgrade0002) /\ OnlySchema(Downgrade0003)
  /\ OnlySchema(Downgrade0004) /\ OnlySchema(Downgrade0005) /\ OnlySchema(Downgrade0006)
  /\ OnlySchema(Downgrade0007) /\ OnlySchema(Downgrade0008) /\ OnlySchema(Downgrade0009)
  /\ OnlySchema(Downgrade0010) /\ OnlySchema(Downgrade2dad) /\ OnlySchema(Downgrade0011)
  /\ OnlySchema(Downgrade0014) /\ OnlySchema(Downgrade0015)
  <1>1. OnlySchema(Downgrade0001)
    BY KindOfStatement DEF OnlySchema, Downgrade0001
  <1>2. OnlySchema(Downgrade0002)
    BY KindOfStatement DEF OnlySchema, Downgrade0002
  <1>3. OnlySchema(Downgrade0003)
    BY KindOfStatement DEF OnlySchema, Downgrade0003
  <1>4. OnlySchema(Downgrade0004)
    BY KindOfStatement DEF OnlySchema, Downgrade0004
  <1>5. OnlySchema(Downgrade0005)
    BY KindOfStatement DEF OnlySchema, Downgrade0005
  <1>6. OnlySchema(Downgrade0006)
    BY KindOfStatement DEF OnlySchema, Downgrade0006
  <1>7. OnlySchema(Downgrade0007)
    BY KindOfStatement DEF OnlySchema, Downgrade0007
  <1>8. OnlySchema(Downgrade0008)
    BY KindOfStatement DEF OnlySchema, Downgrade0008
  <1>9. OnlySchema(Downgrade0009)
    BY KindOfStatement DEF OnlySchema, Downgrade0009
  <1>10. OnlySchema(Downgrade0010)
    BY KindOfStatement DEF OnlySchema, Downgrade0010
  <1>11. OnlySchema(Downgrade2dad)
    BY KindOfStatement DEF OnlySchema, Downgrade2dad
  <1>12. OnlySchema(Downgrade0011)
    BY KindOfStatement DEF OnlySchema, Downgrade0011
  <1>13. OnlySchema(Downgrade0014)
    BY KindOfStatement DEF OnlySchema, Downgrade0014
  <1>14. OnlySchema(Downgrade0015)
    BY KindOfStatement DEF OnlySchema, Downgrade0015
  <1> QED
    BY <1>1, <1>2, <1>3, <1>4, <1>5, <1>6, <1>7, <1>8, <1>9, <1>10, <1>11, <1>12, <1>13, <1>14

\* So every statement of an upgrade is about the schema, or one of the two.
LEMMA UpgradeOps ==
  ASSUME NEW n \in 1 .. HeadRevision, NEW k \in 1 .. Len(Upgrades[n])
  PROVE  Upgrades[n][k].op \in SchemaOps \/ AboutRows(n, k, TRUE)
  <1>1. CASE n = 13
    <2>1. Upgrades[n] = Upgrade0012
      BY <1>1 DEF Upgrades
    <2> QED
      BY <1>1, <2>1 DEF Upgrade0012, AboutRows, Subgroups
  <1>2. CASE n = 14
    <2>1. Upgrades[n] = Upgrade0013
      BY <1>2 DEF Upgrades
    <2>2. OnlySchema(RenameConductor) /\ RenameConductor \in Seq(Range(RenameConductor))
      BY KindOfStatement DEF OnlySchema, RenameConductor, Range
    <2>3. /\ Upgrade0013[1] = Rewrite("conductor", "adviser")
          /\ k # 1 => /\ k - 1 \in 1 .. Len(RenameConductor)
                      /\ Upgrade0013[k] = RenameConductor[k - 1]
      <3> DEFINE S == Range(RenameConductor) \cup {Rewrite("conductor", "adviser")}
      <3>1. RenameConductor \in Seq(S) /\ <<Rewrite("conductor", "adviser")>> \in Seq(S)
        BY <2>2
      <3>2. Len(<<Rewrite("conductor", "adviser")>>) = 1
        OBVIOUS
      <3> HIDE DEF S
      <3> QED
        BY <2>1, <3>1, <3>2 DEF Upgrade0013
    <2>4. CASE k = 1
      BY <1>2, <2>1, <2>3, <2>4 DEF AboutRows, Advisers
    <2>5. CASE k # 1
      BY <2>1, <2>2, <2>3, <2>5 DEF OnlySchema
    <2> QED
      BY <2>4, <2>5
  <1>3. CASE n \notin {13, 14}
    <2>1. OnlySchema(Upgrades[n])
      BY <1>3, UpgradesOfSchema, HeadIsNat DEF Upgrades
    <2> QED
      BY <2>1 DEF OnlySchema
  <1> QED
    BY <1>1, <1>2, <1>3

\* And of a downgrade, or one of the three.
LEMMA DowngradeOps ==
  ASSUME NEW n \in 1 .. HeadRevision, NEW k \in 1 .. Len(Downgrades[n])
  PROVE  Downgrades[n][k].op \in SchemaOps \/ AboutRows(n, k, FALSE)
  <1>1. CASE n = 13
    <2>1. Downgrades[n] = Downgrade0012
      BY <1>1 DEF Downgrades
    <2> QED
      BY <1>1, <2>1 DEF Downgrade0012, AboutRows, Subgroups
  <1>2. CASE n = 14
    <2>1. Downgrades[n] = Downgrade0013
      BY <1>2 DEF Downgrades
    <2> QED
      BY <1>2, <2>1, KindOfStatement DEF Downgrade0013, AboutRows, Advisers
  <1>3. CASE n \notin {13, 14}
    <2>1. OnlySchema(Downgrades[n])
      BY <1>3, DowngradesOfSchema, HeadIsNat DEF Downgrades
    <2> QED
      BY <2>1 DEF OnlySchema
  <1> QED
    BY <1>1, <1>2, <1>3

-----------------------------------------------------------------------------
(* What a statement does to a database, and to its schema alone.            *)

\* d has the fields of a database.
IsRecord(d) ==
  d = [columns |-> d.columns, refs |-> d.refs, indexes |-> d.indexes, width |-> d.width,
       roles |-> d.roles, groups |-> d.groups, ok |-> d.ok]

\* Only the rows are replaced.
LEMMA OtherRows ==
  ASSUME NEW d, IsRecord(d), NEW R, NEW G
  PROVE  [d EXCEPT !.roles = R, !.groups = G] =
           [columns |-> d.columns, refs |-> d.refs, indexes |-> d.indexes,
            width |-> d.width, roles |-> R, groups |-> G, ok |-> d.ok]
  <1> DEFINE fields == {"columns", "refs", "indexes", "width", "roles", "groups", "ok"}
             e == [d EXCEPT !.roles = R, !.groups = G]
  <1>1. DOMAIN d = fields
    BY DEF IsRecord
  <1>2. e = [x \in fields |-> IF x = "groups" THEN G ELSE IF x = "roles" THEN R ELSE d[x]]
    BY <1>1
  <1> QED
    BY <1>2

\* A schema is a database without rows.
LEMMA SchemaFields ==
  ASSUME NEW d, IsRecord(d)
  PROVE  Schema(d) = [columns |-> d.columns, refs |-> d.refs, indexes |-> d.indexes,
                      width |-> d.width, roles |-> {}, groups |-> {}, ok |-> d.ok]
  BY OtherRows DEF Schema

\* Databases that differ in their rows only have one schema.
LEMMA SameSchema ==
  ASSUME NEW d, IsRecord(d), NEW R, NEW G, NEW e,
         e = [columns |-> d.columns, refs |-> d.refs, indexes |-> d.indexes,
              width |-> d.width, roles |-> R, groups |-> G, ok |-> d.ok]
  PROVE  IsRecord(e) /\ Schema(e) = Schema(d)
  <1>1. IsRecord(e)
    BY DEF IsRecord
  <1> QED
    BY <1>1, SchemaFields

\* What the application writes is in the rows.
LEMMA AfterWriting ==
  ASSUME NEW d, IsRecord(d), NEW R, NEW G
  PROVE  LET e == Written(d, R, G) IN
         /\ IsRecord(e) /\ Schema(e) = Schema(d) /\ e.width = d.width
         /\ e.roles = d.roles \cup R /\ e.groups = d.groups \cup G
  <1>1. Written(d, R, G) =
          [columns |-> d.columns, refs |-> d.refs, indexes |-> d.indexes, width |-> d.width,
           roles |-> d.roles \cup R, groups |-> d.groups \cup G, ok |-> d.ok]
    BY OtherRows DEF Written
  <1> QED
    BY <1>1, SameSchema


\* A statement about the schema does to a database what it does to its schema, and
\* leaves the rows alone.
LEMMA AfterOnSchema ==
  ASSUME NEW d, IsRecord(d), NEW o, o.op \in SchemaOps
  PROVE  /\ IsRecord(After(d, o)) /\ Schema(After(d, o)) = After(Schema(d), o)
         /\ After(d, o).roles = d.roles /\ After(d, o).groups = d.groups
         /\ After(d, o).width = d.width
  <1> DEFINE s == Schema(d)
  <1>1. /\ s.columns = d.columns /\ s.refs = d.refs /\ s.indexes = d.indexes
        /\ s.width = d.width /\ s.ok = d.ok /\ IsRecord(s) /\ s.roles = {} /\ s.groups = {}
    BY SchemaFields DEF IsRecord
  <1> HIDE DEF s
  <1>2. CASE o.op = "table"
    BY <1>1, <1>2 DEF After, IsRecord, Schema
  <1>3. CASE o.op = "drop_table"
    BY <1>1, <1>3 DEF After, IsRecord, Schema
  <1>4. CASE o.op = "add"
    BY <1>1, <1>4 DEF After, IsRecord, Schema
  <1>5. CASE o.op = "drop"
    BY <1>1, <1>5 DEF After, IsRecord, Schema
  <1>6. CASE o.op = "rename"
    BY <1>1, <1>6 DEF After, IsRecord, Schema
  <1>7. CASE o.op = "index"
    BY <1>1, <1>7 DEF After, IsRecord, Schema
  <1>8. CASE o.op = "drop_index"
    BY <1>1, <1>8 DEF After, IsRecord, Schema
  <1> QED
    BY <1>2, <1>3, <1>4, <1>5, <1>6, <1>7, <1>8 DEF SchemaOps

\* Whether it fits depends on columns, keys and indexes only.
LEMMA FitsOnSchema ==
  ASSUME NEW d, IsRecord(d), NEW o, o.op \in SchemaOps
  PROVE  Fits(d, o) <=> Fits(Schema(d), o)
  <1> SUFFICES ASSUME NEW s, s.columns = d.columns, s.refs = d.refs, s.indexes = d.indexes
               PROVE  Fits(d, o) <=> Fits(s, o)
    BY SchemaFields
  <1>1. TablesOf(s) = TablesOf(d)
    BY DEF TablesOf
  <1>2. ASSUME NEW e
        PROVE  /\ o.op = "table" =>
                    Fits(e, o) = (/\ o.table \notin TablesOf(e)
                                  /\ \A f \in o.refs : f[2] \in TablesOf(e) \cup {o.table})
               /\ o.op = "drop_table" =>
                    Fits(e, o) = (/\ o.table \in TablesOf(e)
                                  /\ \A f \in e.refs : f[3] = o.table => f[1] = o.table)
               /\ o.op = "add" =>
                    Fits(e, o) = (/\ o.table \in TablesOf(e)
                                  /\ ({o.table} \X o.columns) \cap e.columns = {})
               /\ o.op = "drop" => Fits(e, o) = (({o.table} \X o.columns) \subseteq e.columns)
               /\ o.op = "rename" => Fits(e, o) = (/\ <<o.table, o.from>> \in e.columns
                                                   /\ <<o.table, o.to>> \notin e.columns)
               /\ o.op = "index" => Fits(e, o) = (/\ ({o.table} \X o.columns) \subseteq e.columns
                                                  /\ \A i \in e.indexes : i.name # o.name)
               /\ o.op = "drop_index" => Fits(e, o) = (\E i \in e.indexes : i.name = o.name)
    BY DEF Fits
  <1>3. CASE o.op = "table"
    BY <1>1, <1>2, <1>3
  <1>4. CASE o.op = "drop_table"
    BY <1>1, <1>2, <1>4
  <1>5. CASE o.op = "add"
    BY <1>1, <1>2, <1>5
  <1>6. CASE o.op = "drop"
    BY <1>1, <1>2, <1>6
  <1>7. CASE o.op = "rename"
    BY <1>1, <1>2, <1>7
  <1>8. CASE o.op = "index"
    BY <1>1, <1>2, <1>8
  <1>9. CASE o.op = "drop_index"
    BY <1>1, <1>2, <1>9
  <1> QED
    BY <1>3, <1>4, <1>5, <1>6, <1>7, <1>8, <1>9 DEF SchemaOps

\* The statements about rows change those, or the width, and no schema besides.
LEMMA AfterRecast ==
  ASSUME NEW d, IsRecord(d), NEW n
  PROVE  LET e == After(d, Recast(n)) IN
         /\ IsRecord(e) /\ Schema(e) = After(Schema(d), Recast(n))
         /\ e.roles = d.roles /\ e.groups = d.groups /\ e.width = n
  <1> DEFINE e == After(d, Recast(n))
             s == Schema(d)
  <1>1. ASSUME NEW c, IsRecord(c)
        PROVE  After(c, Recast(n)) =
                 [columns |-> c.columns, refs |-> c.refs, indexes |-> c.indexes,
                  width |-> n, roles |-> c.roles, groups |-> c.groups, ok |-> c.ok]
    BY <1>1 DEF After, Recast, IsRecord
  <1>2. IsRecord(e) /\ e.roles = d.roles /\ e.groups = d.groups /\ e.width = n
    BY <1>1 DEF IsRecord
  <1>3. Schema(e) = After(s, Recast(n))
    <2>1. /\ IsRecord(s) /\ s.columns = d.columns /\ s.refs = d.refs /\ s.indexes = d.indexes
          /\ s.roles = {} /\ s.groups = {} /\ s.ok = d.ok
      BY SchemaFields DEF IsRecord
    <2> QED
      BY <1>1, <1>2, <2>1, SchemaFields
  <1> QED
    BY <1>2, <1>3

\* The roles are rewritten.
LEMMA AfterRewrite ==
  ASSUME NEW d, IsRecord(d), NEW r, NEW t
  PROVE  LET e == After(d, Rewrite(r, t)) IN
         /\ IsRecord(e) /\ Schema(e) = Schema(d) /\ After(Schema(d), Rewrite(r, t)) = Schema(d)
         /\ e.roles = {IF x = r THEN t ELSE x : x \in d.roles}
         /\ e.groups = d.groups /\ e.width = d.width
  <1>1. ASSUME NEW c, IsRecord(c)
        PROVE  After(c, Rewrite(r, t)) =
                 [columns |-> c.columns, refs |-> c.refs, indexes |-> c.indexes,
                  width |-> c.width, roles |-> {IF x = r THEN t ELSE x : x \in c.roles},
                  groups |-> c.groups, ok |-> c.ok]
    BY <1>1 DEF After, Rewrite, IsRecord
  <1> DEFINE e == After(d, Rewrite(r, t))
             s == Schema(d)
  <1>2. IsRecord(e) /\ Schema(e) = s
    <2>1. IsRecord(e)
      BY <1>1 DEF IsRecord
    <2> QED
      BY <1>1, <2>1, SchemaFields
  <1>3. After(s, Rewrite(r, t)) = s
    <2>1. IsRecord(s) /\ s.roles = {}
      BY SchemaFields DEF IsRecord
    <2>2. {IF x = r THEN t ELSE x : x \in s.roles} = s.roles
      BY <2>1
    <2> HIDE DEF s
    <2> QED
      BY <1>1, <2>1, <2>2 DEF IsRecord
  <1> QED
    BY <1>1, <1>2, <1>3

\* The groups are shortened.
LEMMA AfterTruncate ==
  ASSUME NEW d, IsRecord(d)
  PROVE  LET e == After(d, Truncate) IN
         /\ IsRecord(e) /\ Schema(e) = Schema(d) /\ After(Schema(d), Truncate) = Schema(d)
         /\ e.groups = {Letter(g) : g \in d.groups}
         /\ e.roles = d.roles /\ e.width = d.width
  <1>1. ASSUME NEW c, IsRecord(c)
        PROVE  After(c, Truncate) =
                 [columns |-> c.columns, refs |-> c.refs, indexes |-> c.indexes,
                  width |-> c.width, roles |-> c.roles,
                  groups |-> {Letter(g) : g \in c.groups}, ok |-> c.ok]
    BY <1>1 DEF After, Truncate, IsRecord
  <1> DEFINE e == After(d, Truncate)
             s == Schema(d)
  <1>2. IsRecord(e) /\ Schema(e) = s
    <2>1. IsRecord(e)
      BY <1>1 DEF IsRecord
    <2> QED
      BY <1>1, <2>1, SchemaFields
  <1>3. After(s, Truncate) = s
    <2>1. IsRecord(s) /\ s.groups = {}
      BY SchemaFields DEF IsRecord
    <2>2. {Letter(g) : g \in s.groups} = s.groups
      BY <2>1
    <2> HIDE DEF s
    <2> QED
      BY <1>1, <2>1, <2>2 DEF IsRecord
  <1> QED
    BY <1>1, <1>2, <1>3

\* A group takes one character or two, and its letter one.
LEMMA LengthOf ==
  ASSUME NEW g
  PROVE  Length(g) \in {1, 2} /\ Length(Letter(g)) = 1
  BY DEF Length, Letter

\* The lists of statements are sequences.
LEMMA Lengths ==
  \A n \in 1 .. HeadRevision : Len(Upgrades[n]) \in Nat /\ Len(Downgrades[n]) \in Nat
  <1>1. ASSUME NEW n \in 1 .. 16
        PROVE  Len(Upgrades[n]) \in Nat
    BY DEF Upgrades, Upgrade0001, Upgrade0002, Upgrade0003, Upgrade0004, Upgrade0005, Upgrade0006,
         Upgrade0007, Upgrade0008, Upgrade0009, Upgrade0010, Upgrade2dad, Upgrade0011,
         Upgrade0012, Upgrade0013, RenameConductor, Upgrade0014, Upgrade0015
  <1>2. ASSUME NEW n \in 1 .. 16
        PROVE  Len(Downgrades[n]) \in Nat
    BY DEF Downgrades, Downgrade0001, Downgrade0002, Downgrade0003, Downgrade0004,
         Downgrade0005, Downgrade0006,
         Downgrade0007, Downgrade0008, Downgrade0009, Downgrade0010, Downgrade2dad, Downgrade0011,
         Downgrade0012, Downgrade0013, Downgrade0014, Downgrade0015
  <1> QED
    BY <1>1, <1>2, HeadIsNat

\* What the statement that is next leads to, and what it is if it is about rows.
LEMMA FirstStatements ==
  /\ Len(Upgrades[Advisers]) >= 1 /\ Upgrades[Advisers][1] = Rewrite("conductor", "adviser")
  /\ Downgrades[Subgroups] = <<Truncate, Recast(1)>> /\ Len(Downgrades[1]) >= 1
  <1>1. Upgrades[Advisers] = <<Rewrite("conductor", "adviser")>> \o RenameConductor
    BY DEF Upgrades, Upgrade0013, Advisers
  <1>2. RenameConductor \in Seq(Range(RenameConductor))
    BY DEF RenameConductor, Range
  <1>3. /\ Len(<<Rewrite("conductor", "adviser")>> \o RenameConductor) >= 1
        /\ (<<Rewrite("conductor", "adviser")>> \o RenameConductor)[1] =
             Rewrite("conductor", "adviser")
    <2> DEFINE S == Range(RenameConductor) \cup {Rewrite("conductor", "adviser")}
    <2>1. RenameConductor \in Seq(S) /\ <<Rewrite("conductor", "adviser")>> \in Seq(S)
      BY <1>2
    <2>2. Len(<<Rewrite("conductor", "adviser")>>) = 1
      OBVIOUS
    <2> HIDE DEF S
    <2> QED
      BY <2>1, <2>2
  <1>4. Downgrades[Subgroups] = <<Truncate, Recast(1)>> /\ Len(Downgrades[1]) >= 1
    BY DEF Downgrades, Subgroups, Downgrade0012, Downgrade0001
  <1> QED
    BY <1>1, <1>3, <1>4

-----------------------------------------------------------------------------
(* The inductive invariant.                                                 *)

\* A group needs no more room than its column has.
RowsFit(d) == d.width \in {1, 2} /\ \A g \in d.groups : Length(g) <= d.width

\* What is committed is of its revision, and its rows fit.
Committed ==
  /\ IsRecord(db) /\ Schema(db) = SchemaAt(revision) /\ RowsFit(db)
  /\ revision >= Advisers => "conductor" \notin db.roles

\* The schema a command sees after `done' statements on the way from revision
\* `at' to its goal.
Stage(at, goal, done) ==
  IF at < goal THEN Up(at, done) ELSE IF at > goal THEN Down(at, done) ELSE SchemaAt(at)

\* From which point on, and up to which, no conductor is left.
OnlyAdvisers(at, goal, done) ==
  IF at < goal THEN at >= Advisers \/ (at = Advisers - 1 /\ done >= 1)
               ELSE at > Advisers \/ (at = Advisers /\ done = 0)

\* The command that runs has got as far as it says: its transaction sees the
\* schema of that point, and rows to match.  Between the two statements of the
\* downgrade of 0012 the only subgroups are those the server has added since the
\* first.  Where the column of the groups is another than the committed one, its
\* table is locked.
Progress ==
  /\ command.at \in 0 .. HeadRevision
  /\ command.done \in 0 .. (IF Running THEN Len(Script) ELSE 0)
  /\ Running /\ ~Upgrading /\ command.at = 1 => command.done < Len(Script)
  /\ IsRecord(command.work) /\ RowsFit(command.work)
  /\ Schema(command.work) = Stage(command.at, command.goal, command.done)
  /\ OnlyAdvisers(command.at, command.goal, command.done) =>
       "conductor" \notin command.work.roles
  /\ Running /\ ~Upgrading /\ command.at = Subgroups /\ command.done = 1 =>
       \A g \in command.work.groups : Length(g) = 2 => g \in late \cap Groups
  /\ command.work.width # db.width => "student_profiles" \in command.locks

Inv == Shape /\ Committed /\ (command.on => Progress)

\* Where the command is, in numbers.
LEMMA Place ==
  ASSUME Inv, Pending
  PROVE  /\ command.at \in 0 .. 16 /\ command.goal \in 0 .. 16
         /\ Upgrading => command.at \in 0 .. 15
         /\ ~Upgrading => command.at \in 1 .. 16 /\ command.at > command.goal
                          /\ ~(command.at < command.goal)
  <1>1. command.at \in 0 .. 16 /\ command.goal \in 0 .. 16 /\ command.at # command.goal
    BY HeadIsNat DEF Inv, Shape, Progress, Pending, Running
  <1> QED
    BY <1>1 DEF Upgrading

\* And which of its statements is next.
LEMMA Position ==
  ASSUME Inv, Pending
  PROVE  /\ command.done \in Nat /\ (command.done + 1) - 1 = command.done
         /\ command.done + 1 \in 1 .. Len(Script)
         /\ command.done + 1 # Len(Script) => command.done + 1 < Len(Script)
  <1>1. command.done \in 0 .. Len(Script)
    BY DEF Inv, Progress, Pending, Running
  <1>2. command.done < Len(Script)
    BY DEF Pending
  <1>3. Len(Script) \in Int
    <2>1. \A n \in 1 .. HeadRevision : Len(Upgrades[n]) \in Nat /\ Len(Downgrades[n]) \in Nat
      BY Lengths
    <2> QED
      BY <2>1, Place, HeadIsNat DEF Script
  <1> QED
    BY <1>1, <1>2, <1>3

\* The statement that is next, if any is pending, leads on; the one exception
\* is the last of the downgrade of 0001.
LEMMA NextStatement ==
  ASSUME Inv, Pending
  PROVE  LET s == Schema(command.work) IN
         \/ Leads(s, Statement, Stage(command.at, command.goal, command.done + 1))
            /\ (~Upgrading /\ command.at = 1 => command.done + 1 < Len(Script))
         \/ ~Upgrading /\ command.at = 1 /\ Statement = DropTable("users") /\ ~Fits(s, Statement)
  <1> DEFINE n == command.at
             k == command.done + 1
  <1>1. Schema(command.work) = Stage(n, command.goal, command.done)
    BY DEF Inv, Progress, Pending, Running
  <1>2. CASE Upgrading
    <2>1. n \in 0 .. HeadRevision - 1 /\ Script = Upgrades[n + 1] /\ Statement = Script[k]
      BY <1>2, Place, HeadIsNat DEF Script, Statement
    <2>2. k \in 1 .. Len(Upgrades[n + 1]) /\ k - 1 = command.done
      BY <2>1, Position
    <2>3. Leads(Up(n, k - 1), Upgrades[n + 1][k], Up(n, k))
      BY <2>1, <2>2, UpgradesAssumption
    <2>4. /\ Stage(n, command.goal, command.done) = Up(n, k - 1)
          /\ Stage(n, command.goal, k) = Up(n, k)
      BY <1>2, <2>2 DEF Stage, Upgrading
    <2> QED
      BY <1>1, <1>2, <2>1, <2>3, <2>4
  <1>3. CASE ~Upgrading
    <2>1. /\ n \in 1 .. HeadRevision /\ n > command.goal /\ ~(n < command.goal)
          /\ Script = Downgrades[n] /\ Statement = Script[k]
      BY <1>3, Place, HeadIsNat DEF Script, Statement
    <2>2. k \in 1 .. Len(Downgrades[n]) /\ k - 1 = command.done
      BY <2>1, Position
    <2>3. IF n = 1 /\ k = Len(Downgrades[n])
          THEN Downgrades[n][k] = DropTable("users") /\ ~Fits(Down(n, k - 1), Downgrades[n][k])
          ELSE Leads(Down(n, k - 1), Downgrades[n][k], Down(n, k))
      BY <2>1, <2>2, DowngradesAssumption
    <2>4. /\ Stage(n, command.goal, command.done) = Down(n, k - 1)
          /\ Stage(n, command.goal, k) = Down(n, k)
      BY <2>1, <2>2 DEF Stage
    <2>5. n = 1 /\ k # Len(Downgrades[n]) => k < Len(Script)
      BY <2>1, <2>2, Position
    <2> QED
      BY <1>1, <1>3, <2>1, <2>3, <2>4, <2>5
  <1> QED
    BY <1>2, <1>3

\* What it is, if it is about rows.
LEMMA NextKind ==
  ASSUME Inv, Pending
  PROVE  \/ Statement.op \in SchemaOps
         \/ Upgrading /\ command.at + 1 = Subgroups /\ command.done = 0 /\ Statement = Recast(2)
         \/ /\ Upgrading /\ command.at + 1 = Advisers /\ command.done = 0
            /\ Statement = Rewrite("conductor", "adviser")
         \/ ~Upgrading /\ command.at = Subgroups /\ command.done = 0 /\ Statement = Truncate
         \/ ~Upgrading /\ command.at = Subgroups /\ command.done = 1 /\ Statement = Recast(1)
         \/ /\ ~Upgrading /\ command.at = Advisers /\ command.done = 0
            /\ Statement = Rewrite("adviser", "conductor")
  <1> DEFINE n == command.at
             k == command.done + 1
  <1>1. CASE Upgrading
    <2>1. /\ n + 1 \in 1 .. HeadRevision /\ Script = Upgrades[n + 1] /\ Statement = Script[k]
      BY <1>1, Place, HeadIsNat DEF Script, Statement
    <2>2. k \in 1 .. Len(Upgrades[n + 1])
      BY <2>1, Position
    <2>3. Statement.op \in SchemaOps \/ AboutRows(n + 1, k, TRUE)
      BY <2>1, <2>2, UpgradeOps
    <2>4. k = 1 => command.done = 0
      BY Position
    <2> QED
      BY <1>1, <2>1, <2>3, <2>4 DEF AboutRows
  <1>2. CASE ~Upgrading
    <2>1. n \in 1 .. HeadRevision /\ Script = Downgrades[n] /\ Statement = Script[k]
      BY <1>2, Place, HeadIsNat DEF Script, Statement
    <2>2. k \in 1 .. Len(Downgrades[n])
      BY <2>1, Position
    <2>3. Statement.op \in SchemaOps \/ AboutRows(n, k, FALSE)
      BY <2>1, <2>2, DowngradeOps
    <2>4. (k = 1 => command.done = 0) /\ (k = 2 => command.done = 1)
      BY Position
    <2> QED
      BY <1>2, <2>1, <2>3, <2>4 DEF AboutRows
  <1> QED
    BY <1>1, <1>2

\* Only the shortening of the group column depends on the rows, and only on the
\* subgroups that came in after they were shortened.
LEMMA WhatDoesNotFit ==
  ASSUME Inv, Pending
  PROVE  \/ Fits(command.work, Statement) <=> Fits(Schema(command.work), Statement)
         \/ Statement = Recast(1) /\ \E g \in late : g \in Groups /\ Length(g) = 2
  <1> DEFINE w == command.work
  <1>1. IsRecord(w) /\ RowsFit(w)
    BY DEF Inv, Progress, Pending, Running
  <1>2. CASE Statement.op \in SchemaOps
    BY <1>1, <1>2, FitsOnSchema
  <1>3. ASSUME NEW n \in {1, 2}, Statement = Recast(n)
        PROVE  /\ Fits(Schema(w), Statement)
               /\ Fits(w, Statement) <=> \A g \in w.groups : Length(g) <= n
    <2>1. ASSUME NEW d
          PROVE  Fits(d, Recast(n)) = (\A g \in d.groups : Length(g) <= n)
      BY DEF Fits, Recast
    <2>2. Schema(w).groups = {}
      BY <1>1, SchemaFields
    <2> QED
      BY <1>3, <2>1, <2>2
  <1>4. CASE Statement = Recast(2)
    <2>1. \A g \in w.groups : Length(g) <= 2
      BY LengthOf
    <2> QED
      BY <1>3, <1>4, <2>1
  <1>5. CASE ~Upgrading /\ command.at = Subgroups /\ command.done = 1 /\ Statement = Recast(1)
    <2>1. CASE \A g \in w.groups : Length(g) <= 1
      BY <1>3, <1>5, <2>1
    <2>2. CASE \E g \in w.groups : Length(g) = 2
      <3>1. \A g \in w.groups : Length(g) = 2 => g \in late \cap Groups
        BY <1>5 DEF Inv, Progress, Pending, Running
      <3> QED
        BY <1>5, <2>2, <3>1
    <2> QED
      BY <2>1, <2>2, LengthOf
  <1>6. ASSUME NEW d, Statement.op \in {"rewrite", "truncate"}
        PROVE  Fits(d, Statement)
    BY <1>6 DEF Fits
  <1>7. CASE Statement.op \in {"rewrite", "truncate"}
    BY <1>6, <1>7
  <1> QED
    BY <1>2, <1>4, <1>5, <1>7, NextKind DEF Rewrite, Truncate

-----------------------------------------------------------------------------
(* Every step keeps it.                                                     *)

\* What is to be shown of a step; the shape is.
Kept == Committed' /\ (command'.on => Progress')

\* A statement takes the command to its next point.
LEMMA ExecuteKeeps ==
  ASSUME Inv, Execute
  PROVE  Kept
  <1> DEFINE w == command.work
             o == Statement
             e == After(w, o)
  <1>1. Pending /\ Fits(w, o) /\ IsRecord(w) /\ RowsFit(w) /\ Committed
    BY DEF Execute, Pending, Running, Inv, Progress
  <1>2. /\ command'.on /\ command'.goal = command.goal /\ command'.at = command.at
        /\ command'.done = command.done + 1 /\ command'.work = e
        /\ command'.locks = command.locks \cup Locks(w, o)
        /\ UNCHANGED <<db, revision>>
    BY <1>1 DEF Execute, Inv, Shape, Pending, Running
  <1>3. (Running' <=> Running) /\ (Upgrading' <=> Upgrading) /\ Script' = Script
    BY <1>1, <1>2 DEF Running, Upgrading, Script, Pending
  <1>4. Leads(Schema(w), o, Stage(command.at, command.goal, command.done + 1))
        /\ (~Upgrading /\ command.at = 1 => command.done + 1 < Len(Script))
    <2>1. ~(o = DropTable("users") /\ ~Fits(Schema(w), o))
      BY <1>1, FitsOnSchema, KindOfStatement
    <2> QED
      BY <1>1, <2>1, NextStatement
  <1> DEFINE Good == /\ IsRecord(e) /\ RowsFit(e) /\ Schema(e) = After(Schema(w), o)
                     /\ OnlyAdvisers(command.at, command.goal, command.done + 1) =>
                          "conductor" \notin e.roles
                     /\ ~Upgrading /\ command.at = Subgroups /\ command.done + 1 = 1 =>
                          \A g \in e.groups : Length(g) # 2
                     /\ e.width # w.width => "student_profiles" \in Locks(w, o)
  <1>5. ASSUME Good
        PROVE  Kept
    <2>1. Committed'
      BY <1>1, <1>2 DEF Committed
    <2>2. command.at \in 0 .. HeadRevision /\ command.done + 1 \in 0 .. Len(Script)
      BY <1>1, Place, Position, HeadIsNat
    <2>3. Schema(e) = Stage(command.at, command.goal, command.done + 1)
      BY <1>4, <1>5 DEF Leads
    <2>4. e.width # db.width => "student_profiles" \in command'.locks
      <3>1. w.width # db.width => "student_profiles" \in command.locks
        BY <1>1 DEF Inv, Progress, Pending, Running
      <3> HIDE DEF e, o
      <3> QED
        BY <1>2, <1>5, <3>1
    <2> HIDE DEF e, o
    <2>5. Progress'
      BY <1>1, <1>2, <1>3, <1>4, <1>5, <2>2, <2>3, <2>4 DEF Progress, Pending
    <2> QED
      BY <2>1, <2>5 DEF Kept
  <1> SUFFICES Good
    BY <1>5
  <1> HIDE DEF Good
  <1>6. CASE o.op \in SchemaOps
    <2>1. /\ IsRecord(e) /\ Schema(e) = After(Schema(w), o)
          /\ e.roles = w.roles /\ e.groups = w.groups /\ e.width = w.width
      BY <1>1, <1>6, AfterOnSchema
    <2>2. ~(Upgrading /\ command.at = Advisers - 1 /\ command.done = 0)
      <3>1. SUFFICES ASSUME Upgrading, command.at = Advisers - 1, command.done = 0
                     PROVE  o = Rewrite("conductor", "adviser")
        BY <1>6 DEF Rewrite, SchemaOps
      <3> QED
        BY <3>1, FirstStatements DEF Statement, Script, Advisers
    <2>3. ~(~Upgrading /\ command.at = Subgroups /\ command.done + 1 = 1)
      <3>1. SUFFICES ASSUME ~Upgrading, command.at = Subgroups, command.done + 1 = 1
                     PROVE  o = Truncate
        BY <1>6 DEF Truncate, SchemaOps
      <3> QED
        BY <3>1, FirstStatements DEF Statement, Script
    <2>4. OnlyAdvisers(command.at, command.goal, command.done + 1) =>
            OnlyAdvisers(command.at, command.goal, command.done)
      BY <1>1, <2>2, Place, Position DEF OnlyAdvisers, Advisers, Upgrading
    <2>5. "conductor" \in e.roles =>
            ~OnlyAdvisers(command.at, command.goal, command.done + 1)
      BY <1>1, <2>1, <2>4 DEF Inv, Progress, Pending, Running
    <2>6. RowsFit(e)
      BY <1>1, <2>1 DEF RowsFit
    <2> QED
      BY <2>1, <2>3, <2>5, <2>6 DEF Good
  <1>7. ASSUME NEW n \in {1, 2}, o = Recast(n),
               \/ Upgrading /\ command.at + 1 = Subgroups
               \/ ~Upgrading /\ command.at = Subgroups /\ command.done = 1
        PROVE  Good
    <2>1. /\ IsRecord(e) /\ Schema(e) = After(Schema(w), o)
          /\ e.roles = w.roles /\ e.groups = w.groups /\ e.width = n
      BY <1>1, <1>7, AfterRecast
    <2>2. \A g \in w.groups : Length(g) <= n
      BY <1>1, <1>7 DEF Fits, Recast
    <2>3. RowsFit(e)
      BY <2>1, <2>2 DEF RowsFit
    <2>4. ~OnlyAdvisers(command.at, command.goal, command.done + 1)
      BY <1>1, <1>7, Place DEF OnlyAdvisers, Advisers, Subgroups, Upgrading
    <2>5. "student_profiles" \in Locks(w, o)
      BY <1>7 DEF Locks, Recast
    <2> QED
      BY <1>7, <2>1, <2>3, <2>4, <2>5 DEF Good
  <1>8. CASE Upgrading /\ command.at + 1 = Advisers /\ o = Rewrite("conductor", "adviser")
    <2>1. /\ IsRecord(e) /\ Schema(e) = After(Schema(w), o) /\ "conductor" \notin e.roles
          /\ e.groups = w.groups /\ e.width = w.width
      BY <1>1, <1>8, AfterRewrite
    <2>2. RowsFit(e)
      BY <1>1, <2>1 DEF RowsFit
    <2> QED
      BY <1>8, <2>1, <2>2 DEF Good
  <1>9. CASE /\ ~Upgrading /\ command.at = Advisers /\ command.done = 0
             /\ o = Rewrite("adviser", "conductor")
    <2>1. /\ IsRecord(e) /\ Schema(e) = After(Schema(w), o)
          /\ e.groups = w.groups /\ e.width = w.width
      BY <1>1, <1>9, AfterRewrite
    <2>2. RowsFit(e)
      BY <1>1, <2>1 DEF RowsFit
    <2> QED
      BY <1>9, <2>1, <2>2 DEF Good, OnlyAdvisers, Advisers, Subgroups, Upgrading
  <1>10. CASE ~Upgrading /\ command.at = Subgroups /\ o = Truncate
    <2>1. /\ IsRecord(e) /\ Schema(e) = After(Schema(w), o)
          /\ e.groups = {Letter(g) : g \in w.groups} /\ e.roles = w.roles /\ e.width = w.width
      BY <1>1, <1>10, AfterTruncate
    <2>2. \A g \in e.groups : Length(g) = 1
      BY <2>1, LengthOf
    <2>3. RowsFit(e)
      BY <1>1, <2>1, <2>2 DEF RowsFit
    <2> QED
      BY <1>10, <2>1, <2>2, <2>3 DEF Good, OnlyAdvisers, Advisers, Subgroups, Upgrading
  <1> QED
    BY <1>1, <1>5, <1>6, <1>7, <1>8, <1>9, <1>10, NextKind DEF Subgroups

\* A migration is through: its last schema is the one of the next revision.
LEMMA StampKeeps ==
  ASSUME Inv, Stamp
  PROVE  Kept
  <1> DEFINE n == command.at
  <1>1. Running /\ command.done = Len(Script) /\ Progress /\ Committed
    BY DEF Stamp, Running, Inv
  <1>2. /\ command'.on /\ command'.goal = command.goal /\ command'.work = command.work
        /\ command'.at = (IF Upgrading THEN n + 1 ELSE n - 1) /\ command'.done = 0
        /\ command'.locks = command.locks
        /\ UNCHANGED <<db, revision, late>>
    BY DEF Stamp, Inv, Shape, Running
  <1>3. /\ n \in 0 .. 16 /\ command.goal \in 0 .. 16 /\ n # command.goal
        /\ HeadRevision = 16
    BY <1>1, HeadIsNat DEF Inv, Shape, Progress, Running
  <1>4. command'.at \in 0 .. 16
    BY <1>2, <1>3 DEF Upgrading
  <1>5. Schema(command.work) = SchemaAt(command'.at)
    <2>1. CASE Upgrading
      <3>1. n \in 0 .. HeadRevision - 1 /\ Script = Upgrades[n + 1]
        BY <1>3, <2>1 DEF Upgrading, Script
      <3>2. Schema(command.work) = Up(n, Len(Upgrades[n + 1]))
        BY <1>1, <2>1, <3>1 DEF Progress, Stage, Upgrading
      <3> QED
        BY <1>2, <2>1, <3>1, <3>2, UpgradesAssumption
    <2>2. CASE ~Upgrading
      <3>1. n \in 1 .. HeadRevision /\ n > command.goal /\ Script = Downgrades[n]
        BY <1>3, <2>2 DEF Upgrading, Script
      <3>2. Schema(command.work) = Down(n, Len(Downgrades[n]))
        BY <1>1, <2>2, <3>1 DEF Progress, Stage, Upgrading
      <3>3. n # 1
        <4>1. Len(Script) \in Nat
          BY <3>1, Lengths
        <4> QED
          BY <1>1, <2>2, <4>1 DEF Progress
      <3> QED
        BY <1>2, <2>2, <3>1, <3>2, <3>3, DowngradesAssumption
    <2> QED
      BY <2>1, <2>2
  <1>6. Schema(command'.work) = Stage(command'.at, command'.goal, 0)
    <2>1. /\ command'.at # 16 => Up(command'.at, 0) = SchemaAt(command'.at)
          /\ command'.at # 0 => Down(command'.at, 0) = SchemaAt(command'.at)
      <3>1. /\ command'.at # 16 => command'.at \in 0 .. HeadRevision - 1
            /\ command'.at # 0 => command'.at \in 1 .. HeadRevision
        BY <1>3, <1>4
      <3> QED
        BY <3>1, UpgradesAssumption, DowngradesAssumption
    <2> QED
      BY <1>2, <1>3, <1>4, <1>5, <2>1 DEF Stage
  <1>7. OnlyAdvisers(command'.at, command'.goal, 0) => "conductor" \notin command.work.roles
    <2>1. CASE Upgrading
      <3>1. n = Advisers - 1 => Script = Upgrades[Advisers]
        BY <2>1 DEF Script, Advisers
      <3>2. OnlyAdvisers(command'.at, command'.goal, 0) =>
              n >= Advisers \/ n = Advisers - 1
        BY <1>2, <1>3, <2>1 DEF OnlyAdvisers, Advisers, Upgrading
      <3>3. n = Advisers - 1 => command.done >= 1
        BY <1>1, <3>1, FirstStatements
      <3> QED
        BY <1>1, <1>3, <2>1, <3>2, <3>3 DEF OnlyAdvisers, Progress, Upgrading
    <2>2. CASE ~Upgrading
      <3>1. OnlyAdvisers(command'.at, command'.goal, 0) =>
              OnlyAdvisers(n, command.goal, command.done)
        BY <1>2, <1>3, <2>2 DEF OnlyAdvisers, Advisers, Upgrading
      <3> QED
        BY <1>1, <3>1 DEF Progress
    <2> QED
      BY <2>1, <2>2
  <1>8. /\ Len(Script)' \in Nat \/ ~Running'
        /\ Running' /\ ~Upgrading' /\ command'.at = 1 => Len(Script)' >= 1
    <2>1. Running' /\ Upgrading' => command'.at + 1 \in 1 .. HeadRevision
      BY <1>2, <1>3, <1>4 DEF Upgrading
    <2>2. Running' /\ ~Upgrading' => command'.at \in 1 .. HeadRevision
      BY <1>2, <1>3, <1>4 DEF Upgrading, Running
    <2>3. Running' => Len(Script') \in Nat
      BY <2>1, <2>2, Lengths DEF Script
    <2>4. ~Upgrading' /\ command'.at = 1 => Len(Script') >= 1
      BY FirstStatements DEF Script
    <2> QED
      BY <2>3, <2>4
  <1>9. Progress'
    BY <1>1, <1>2, <1>3, <1>4, <1>6, <1>7, <1>8 DEF Progress
  <1> QED
    BY <1>1, <1>2, <1>9 DEF Kept, Committed

\* What is committed is what the command has come to.
LEMMA CommitKeeps ==
  ASSUME Inv, Commit
  PROVE  Kept
  <1>1. /\ Progress /\ command.at = command.goal /\ command.goal \in 0 .. 16
        /\ ~command'.on /\ revision' = command.goal /\ db' = command.work
    BY HeadIsNat DEF Commit, Inv, Shape, NoCommand
  <1>2. Schema(command.work) = SchemaAt(command.goal)
    BY <1>1 DEF Progress, Stage
  <1>3. command.goal >= Advisers => "conductor" \notin command.work.roles
    <2>1. command.done = 0
      BY <1>1 DEF Progress, Running
    <2> QED
      BY <1>1, <2>1 DEF Progress, OnlyAdvisers, Advisers
  <1> QED
    BY <1>1, <1>2, <1>3 DEF Kept, Committed, Progress

\* A command begins with what is committed.
LEMMA BeginKeeps ==
  ASSUME Inv, NEW n \in 0 .. 16, Begin(n), UNCHANGED <<db, revision, late>>
  PROVE  Kept
  <1>1. /\ command'.on /\ command'.goal = n /\ command'.at = revision /\ command'.done = 0
        /\ command'.work = db /\ revision \in 0 .. 16 /\ HeadRevision = 16 /\ Committed
    BY HeadIsNat DEF Begin, Inv, Shape
  <1>2. Schema(db) = Stage(revision, n, 0)
    <2>1. /\ revision # 16 => Up(revision, 0) = SchemaAt(revision)
          /\ revision # 0 => Down(revision, 0) = SchemaAt(revision)
      <3>1. /\ revision # 16 => revision \in 0 .. HeadRevision - 1
            /\ revision # 0 => revision \in 1 .. HeadRevision
        BY <1>1
      <3> QED
        BY <3>1, UpgradesAssumption, DowngradesAssumption
    <2> QED
      BY <1>1, <2>1 DEF Stage, Committed
  <1>3. OnlyAdvisers(revision, n, 0) => "conductor" \notin db.roles
    BY <1>1 DEF OnlyAdvisers, Committed, Advisers
  <1>4. /\ Running' => Len(Script') \in Nat
        /\ ~Upgrading' /\ command'.at = 1 => Len(Script') >= 1
    <2>1. Running' /\ Upgrading' => command'.at + 1 \in 1 .. HeadRevision
      BY <1>1 DEF Upgrading
    <2>2. Running' /\ ~Upgrading' => command'.at \in 1 .. HeadRevision
      BY <1>1 DEF Upgrading, Running
    <2>3. Running' => Len(Script') \in Nat
      BY <2>1, <2>2, Lengths DEF Script
    <2>4. ~Upgrading' /\ command'.at = 1 => Len(Script') >= 1
      BY FirstStatements DEF Script
    <2> QED
      BY <2>3, <2>4
  <1>5. Progress'
    BY <1>1, <1>2, <1>3, <1>4 DEF Progress, Committed
  <1> QED
    BY <1>1, <1>5 DEF Kept, Committed

\* Rows that the application writes fit, and are no conductors.
LEMMA WriteKeeps ==
  ASSUME Inv, NEW R \in SUBSET {"student", "adviser"}, NEW G \in SUBSET Groups, Write(R, G),
         \A g \in G : Length(g) <= db.width,
         G # {} /\ command.on => command.work.width = db.width
  PROVE  Kept
  <1>1. /\ db' = Written(db, R, G) /\ UNCHANGED revision
        /\ command'.on = command.on
        /\ ~command.on => command' = command
    BY DEF Write, Inv, Shape
  <1>2. /\ IsRecord(db') /\ Schema(db') = Schema(db) /\ db'.roles = db.roles \cup R
        /\ db'.groups = db.groups \cup G /\ db'.width = db.width
    BY <1>1, AfterWriting DEF Inv, Committed
  <1>3. Committed'
    <2>1. RowsFit(db)'
      BY <1>2 DEF RowsFit, Inv, Committed
    <2> QED
      BY <1>1, <1>2, <2>1 DEF Committed, Inv
  <1>4. ASSUME command.on
        PROVE  Progress'
    <2>1. /\ command'.goal = command.goal /\ command'.at = command.at
          /\ command'.done = command.done /\ command'.work = Written(command.work, R, G)
          /\ command'.locks = command.locks /\ late' = late \cup R \cup G
      BY <1>4 DEF Write, Inv, Shape
    <2>2. Progress
      BY <1>4 DEF Inv
    <2> DEFINE w == command.work
               v == command'.work
    <2>3. /\ IsRecord(v) /\ Schema(v) = Schema(w) /\ v.roles = w.roles \cup R
          /\ v.groups = w.groups \cup G /\ v.width = w.width
      BY <2>1, <2>2, AfterWriting DEF Progress
    <2>4. RowsFit(v)
      BY <1>4, <2>2, <2>3 DEF RowsFit, Progress
    <2>5. (Running' <=> Running) /\ (Upgrading' <=> Upgrading) /\ Script' = Script
      BY <1>1, <2>1 DEF Running, Upgrading, Script
    <2>6. v.width # db'.width => "student_profiles" \in command'.locks
      BY <1>2, <2>1, <2>2, <2>3 DEF Progress
    <2> HIDE DEF v
    <2> QED
      BY <2>1, <2>2, <2>3, <2>4, <2>5, <2>6 DEF Progress, v
  <1> QED
    BY <1>1, <1>3, <1>4 DEF Kept

\* Every step keeps the invariant.
LEMMA StepKeeps ==
  ASSUME Inv, [Next]_vars
  PROVE  Inv'
  <1>1. Shape'
    BY NextStep DEF Inv
  <1> SUFFICES Kept
    BY <1>1 DEF Inv, Kept
  <1>2. CASE Execute
    BY <1>2, ExecuteKeeps
  <1>3. CASE Stamp
    BY <1>3, StampKeeps
  <1>4. CASE Commit
    BY <1>4, CommitKeeps
  <1>5. CASE Fail \/ Stop
    BY <1>5 DEF Fail, Stop, Kept, NoCommand, Inv, Committed
  <1>6. CASE StartContainer
    BY <1>6, BeginKeeps, HeadIsNat DEF StartContainer
  <1>7. ASSUME NEW n \in Goals, Downgrade(n)
        PROVE  Kept
    BY <1>7, BeginKeeps, GoalsAssumption, HeadIsNat DEF Downgrade
  <1>8. CASE Serve \/ UNCHANGED vars
    <2>1. UNCHANGED <<db, revision, command, late>>
      BY <1>8 DEF Serve, vars
    <2> QED
      BY <2>1 DEF Kept, Inv, Committed, Progress, Running, Upgrading, Script
  <1>9. ASSUME NEW g \in Groups, Register(g)
        PROVE  Kept
    <2>1. command.on => command.work.width = db.width
      <3>1. command.locks \cap {"users", "student_profiles"} = {}
        BY <1>9 DEF Register, Usable
      <3>2. command.on /\ command.work.width # db.width =>
              "student_profiles" \in command.locks
        BY DEF Inv, Progress
      <3> QED
        BY <3>1, <3>2
    <2> QED
      BY <1>9, <2>1, WriteKeeps DEF Register
  <1>10. CASE CreateAdviser
    BY <1>10, WriteKeeps DEF CreateAdviser
  <1> QED
    BY <1>2, <1>3, <1>4, <1>5, <1>6, <1>7, <1>8, <1>9, <1>10 DEF Next, Migrating

\* And it holds at first.
LEMMA InitInv == Init => Inv
  <1> SUFFICES ASSUME Init
               PROVE  Inv
    OBVIOUS
  <1>1. PICK R \in SUBSET RolesAt(revision), G \in SUBSET GroupsAt(revision) :
          db = [SchemaAt(revision) EXCEPT !.roles = R, !.groups = G]
    BY DEF Init
  <1> DEFINE s == SchemaAt(revision)
  <1>2. /\ IsRecord(s) /\ s.roles = {} /\ s.groups = {} /\ revision \in 0 .. 16
        /\ s.width = IF revision < Subgroups THEN 1 ELSE 2
    BY SchemasAssumption, HeadIsNat DEF Init, IsRecord
  <1>3. /\ IsRecord(db) /\ Schema(db) = Schema(s) /\ db.roles = R /\ db.groups = G
        /\ db.width = s.width
    <2>1. db = [columns |-> s.columns, refs |-> s.refs, indexes |-> s.indexes,
                width |-> s.width, roles |-> R, groups |-> G, ok |-> s.ok]
      BY <1>1, <1>2, OtherRows
    <2> QED
      BY <1>2, <2>1, SameSchema
  <1>4. Schema(s) = s
    BY <1>2, SchemaFields DEF IsRecord
  <1>5. RowsFit(db)
    BY <1>2, <1>3, LengthOf DEF RowsFit, GroupsAt, Subgroups
  <1>6. revision >= Advisers => "conductor" \notin db.roles
    BY <1>2, <1>3 DEF RolesAt, Advisers
  <1>7. Committed
    BY <1>3, <1>4, <1>5, <1>6 DEF Committed
  <1> QED
    BY <1>7, InitShape DEF Inv, Init, NoCommand

\* However commands fail, crash and follow each other, the committed database
\* has the schema of the revision it is stamped with (migrations/env.py:66).
THEOREM SchemaKept == Spec => []SchemaIsOfRevision
  <1>1. Inv => SchemaIsOfRevision
    BY DEF Inv, Committed, SchemaIsOfRevision
  <1> QED
    BY <1>1, InitInv, StepKeeps, PTL DEF Spec

\* Nothing but the two statements stands in the way of a command
\* (0001_initial.py:186, 0012_group_type_extend.py:29).
THEOREM WayIsClear == Spec => []NothingInTheWay
  <1>1. ASSUME Inv, Pending, ~Fits(command.work, Statement)
        PROVE  \/ Statement = DropTable("users") /\ command.at = 1
               \/ Statement = Recast(1) /\ \E g \in late : g \in Groups /\ Length(g) = 2
    BY <1>1, NextStatement, WhatDoesNotFit DEF Leads
  <1>2. Inv => NothingInTheWay
    BY <1>1 DEF NothingInTheWay
  <1> QED
    BY <1>2, InitInv, StepKeeps, PTL DEF Spec

\* Rows follow the schema (0013_rename_conductor_to_adviser.py:18,
\* 0012_group_type_extend.py:30).
THEOREM RowsStayInStep == Spec => []RowsFollowRevision
  <1>1. ASSUME Inv
        PROVE  RowsFollowRevision
    <2>1. revision < Subgroups => db.width = 1
      <3>1. revision \in 0 .. HeadRevision /\ db.width = SchemaAt(revision).width
        BY <1>1, SchemaFields DEF Inv, Shape, Committed
      <3> QED
        BY <3>1, SchemasAssumption
    <2>2. ASSUME NEW g \in db.groups, revision < Subgroups
          PROVE  Length(g) = 1
      BY <1>1, <2>1, <2>2, LengthOf DEF Inv, Committed, RowsFit
    <2> QED
      BY <1>1, <2>2 DEF RowsFollowRevision, Inv, Committed
  <1> QED
    BY <1>1, InitInv, StepKeeps, PTL DEF Spec

\* The migrated database falls short of the models in these points and no others,
\* after any history (0001_initial.py:23, universities/models.py:33).
THEOREM DriftIsKnown == Spec => []DriftAtHead
  <1>1. ASSUME Inv, revision = HeadRevision
        PROVE  Drifts(db)
    <2> DEFINE s == SchemaAt(HeadRevision)
    <2>1. /\ s.columns = db.columns /\ s.refs = db.refs /\ s.indexes = db.indexes
          /\ s.width = db.width
      BY <1>1, SchemaFields DEF Inv, Committed
    <2>2. TablesOf(db) = TablesOf(s) /\ UniquesOf(db) = UniquesOf(s)
      BY <2>1 DEF TablesOf, UniquesOf
    <2> QED
      BY <2>1, <2>2, DriftAssumption DEF Drifts
  <1>2. Inv => DriftAtHead
    BY <1>1 DEF DriftAtHead
  <1> QED
    BY <1>2, InitInv, StepKeeps, PTL DEF Spec

----------------------------------------------------------------------------
(***************************************************************************)
(* The seed script (Seed).  Its properties are not inductive.  They rest on *)
(* what a run has filled when it comes to a stage, and on the flush of the  *)
(* profiles: it names every student, profiles are unique, so one run at a   *)
(* time is past it, and none when a run has committed.  So a transaction    *)
(* that is committed is the first one, and holds every table as one run     *)
(* leaves it.                                                               *)
(***************************************************************************)

\* The stages of a run.
Stages == {"accounts", "universities", "programs", "roadmaps", "student_roadmaps", "tasks",
  "slots", "appointments", "conversations", "news", "documents", "commit"}

\* The tables a run has filled when it comes to a stage.
Filled(pc) ==
  (IF pc \in {"idle", "accounts", "universities"} THEN {}
   ELSE {"users", "profiles", "universities"})
  \cup (IF pc \in {"idle", "accounts", "universities", "programs"} THEN {} ELSE {"programs"})
  \cup (IF pc \in {"student_roadmaps", "tasks", "slots", "appointments", "conversations", "news",
                   "documents", "commit"} THEN {"enrollments", "roadmaps"} ELSE {})
  \cup (IF pc \in {"tasks", "slots", "appointments", "conversations", "news", "documents",
                   "commit"} THEN {"templates", "student_roadmaps"} ELSE {})
  \cup (IF pc \in {"slots", "appointments", "conversations", "news", "documents", "commit"}
        THEN {"tasks"} ELSE {})
  \cup (IF pc \in {"appointments", "conversations", "news", "documents", "commit"}
        THEN {"history", "slots"} ELSE {})
  \cup (IF pc \in {"conversations", "news", "documents", "commit"} THEN {"appointments"} ELSE {})
  \cup (IF pc \in {"news", "documents", "commit"} THEN {"conversations"} ELSE {})
  \cup (IF pc \in {"documents", "commit"}
        THEN {"messages", "notifications", "events", "faqs", "news"} ELSE {})
  \cup (IF pc = "commit" THEN {"alumni", "documents", "tokens"} ELSE {})

\* Table t is S as run r leaves it, with the images in the store O.
Right(S, r, t, O) ==
  /\ S # {} /\ \A x \in S : x.run = r
  /\ t = "users" => \E x \in S : x.row = Admin
  /\ t = "profiles" => S = Profiles(r)
  /\ t = "tasks" => S = Tasks(r)
  /\ t = "history" => S = History(r)
  /\ t = "slots" => S = Slots(r)
  /\ t = "appointments" => S = Appointments(r)
  /\ t = "conversations" => S = Conversations(r)
  /\ t = "messages" => \E stored \in SUBSET Images :
       S = Messages(r, stored) /\ Mark(r, {<<i>> : i \in stored}) \subseteq O
  /\ t = "events" => S \subseteq Events(r)
  /\ t = "news" => S = Mark(r, 1 .. NNews)

\* What run r has committed.
Part(r, t) == {x \in rows[t] : x.run = r}
HasCommitted(r) == \E t \in Tables : Part(r, t) # {}

\* A run is past the flush of the profiles.
Claims(p) == script[p].pc \in Stages \ {"accounts", "universities"}

\* The record of a process, field by field.
Formed(s) ==
  /\ s = [pc |-> s.pc, run |-> s.run, at |-> s.at, absent |-> s.absent, rows |-> s.rows]
  /\ s.pc \in Stages \cup {"idle"} /\ s.run \in Nat /\ s.at \in Nat \ {0}
  /\ s.absent \in BOOLEAN /\ (s.absent => s.pc = "accounts")
  /\ s.pc # "idle" => s.run # 0
  /\ s.rows = [t \in Tables |-> s.rows[t]]

\* The type of the state.
SeedTyped ==
  /\ origin \in {"models", "migrations"} /\ starts \in Nat /\ DOMAIN rows = Tables
  /\ DOMAIN script = Procs /\ \A p \in Procs : Formed(script[p])

\* The transaction of a run that is under way.
UnderWay(p) ==
  LET s == script[p] IN
  /\ \A t \in Tables : IF t \in Filled(s.pc) THEN Right(s.rows[t], s.run, t, objects)
                       ELSE t # "users" => s.rows[t] = {}
  /\ \A x \in s.rows["users"] : x.run = s.run
  /\ ~Claims(p) /\ (s.at > 1 \/ s.pc = "universities") =>
       \/ \E x \in s.rows["users"] : x.row = Admin
       \/ \E x \in rows["users"] : x.run # 0

\* Rows of the application, and of one run.
Settled ==
  /\ \A t \in Tables : \A x \in rows[t] :
       x.run = 0 => t \in {"users", "profiles"} /\ x.row \in Outside
  /\ \A r, q : HasCommitted(r) /\ HasCommitted(q) /\ r # 0 /\ q # 0 => r = q
  /\ \A r : HasCommitted(r) /\ r # 0 =>
       origin = "models" /\ \A t \in Tables : Right(Part(r, t), r, t, objects)

\* One run is past the flush of the profiles, with the models' schema, and none has
\* committed before it.
OneSeeds ==
  /\ \A p, q \in Procs : Claims(p) /\ Claims(q) => p = q
  /\ \A p \in Procs : Claims(p) => origin = "models" /\ \A r : HasCommitted(r) => r = 0

\* The inductive invariant.
SeedInv ==
  /\ SeedTyped /\ Settled /\ OneSeeds
  /\ \A p \in Procs : script[p].pc # "idle" => UnderWay(p)

----------------------------------------------------------------------------
\* What was right stays right: objects are only added.
LEMMA RightStays ==
  ASSUME NEW S, NEW r, NEW t, NEW O, NEW P, Right(S, r, t, O), O \subseteq P
  PROVE  Right(S, r, t, P)
  <1>1. t = "messages" => \E stored \in SUBSET Images :
          S = Messages(r, stored) /\ Mark(r, {<<i>> : i \in stored}) \subseteq P
    BY DEF Right
  <1> QED
    BY <1>1 DEF Right

\* What is added to the rows of a transaction.
LEMMA PlusRows ==
  ASSUME NEW f, NEW g
  PROVE  /\ DOMAIN Plus(f, g) = Tables
         /\ Plus(f, g) = [u \in Tables |-> Plus(f, g)[u]]
         /\ \A t \in Tables : t \in DOMAIN g => Plus(f, g)[t] = f[t] \cup g[t]
         /\ \A t \in Tables : t \notin DOMAIN g => Plus(f, g)[t] = f[t]
  BY DEF Plus

\* A step of one run that commits nothing.
LEMMA RunStep ==
  ASSUME SeedInv, NEW p \in Procs, UNCHANGED <<origin, rows>>, objects \subseteq objects',
         starts' \in Nat, DOMAIN script' = Procs,
         \A q \in Procs : q # p => script'[q] = script[q],
         Formed(script'[p]), script'[p].pc # "idle" => UnderWay(p)',
         Claims(p)' =>
           \/ Claims(p)
           \/ /\ origin = "models" /\ \A q \in Procs : ~Claims(q)
              /\ \A r : HasCommitted(r) => r = 0
  PROVE  SeedInv'
  <1>1. SeedTyped'
    <2>1. \A q \in Procs : Formed(script'[q])
      <3>1. \A q \in Procs : q # p => Formed(script'[q])
        BY DEF SeedInv, SeedTyped
      <3> QED
        BY <3>1
    <2> QED
      BY <2>1 DEF SeedInv, SeedTyped
  <1>2. \A r, t : Part(r, t)' = Part(r, t)
    BY DEF Part
  <1>3. \A r : HasCommitted(r)' <=> HasCommitted(r)
    BY <1>2 DEF HasCommitted
  <1>4. Settled'
    <2>1. ASSUME NEW r, HasCommitted(r), r # 0, NEW t \in Tables
          PROVE  Right(Part(r, t)', r, t, objects')
      BY <1>2, <2>1, RightStays DEF SeedInv, Settled
    <2> QED
      BY <1>3, <2>1 DEF SeedInv, Settled
  <1>5. OneSeeds'
    <2>1. \A q \in Procs : q # p => (Claims(q)' <=> Claims(q))
      BY DEF Claims
    <2> QED
      BY <1>3, <2>1 DEF SeedInv, OneSeeds
  <1>6. ASSUME NEW q \in Procs, script'[q].pc # "idle"
        PROVE  UnderWay(q)'
    <2>1. CASE q = p
      BY <1>6, <2>1
    <2>2. CASE q # p
      <3>1. script'[q] = script[q] /\ UnderWay(q)
        BY <1>6, <2>2 DEF SeedInv
      <3>2. ASSUME NEW t \in Tables, t \in Filled(script[q].pc)
            PROVE  Right(script[q].rows[t], script[q].run, t, objects')
        BY <3>1, <3>2, RightStays DEF UnderWay
      <3>3. Claims(q)' <=> Claims(q)
        BY <3>1 DEF Claims
      <3> QED
        BY <3>1, <3>2, <3>3 DEF UnderWay
    <2> QED
      BY <2>1, <2>2
  <1> QED
    BY <1>1, <1>4, <1>5, <1>6 DEF SeedInv

\* The accounts: the administrator is the first.
LEMMA FirstAccount == Len(Accounts) \in Nat /\ Len(Accounts) >= 1 /\ Accounts[1] = Admin
  <1> DEFINE b == [i \in 1 .. NStudents |-> Student(i - 1)]
             T == {Student(i - 1) : i \in 1 .. NStudents} \cup {Admin, Adviser}
  <1>1. <<Admin, Adviser>> \in Seq(T)
    OBVIOUS
  <1>2. NStudents \in Nat
    BY NStudentsAssumption
  <1>3. b \in [1 .. NStudents -> T]
    OBVIOUS
  <1>4. b \in Seq(T) /\ Len(b) = NStudents
    <2> HIDE DEF b, T
    <2> QED
      BY <1>2, <1>3
  <1>5. Accounts = <<Admin, Adviser>> \o b
    BY DEF Accounts
  <1> HIDE DEF b, T
  <1>6. /\ Len(Accounts) = Len(<<Admin, Adviser>>) + Len(b)
        /\ \A i \in 1 .. Len(<<Admin, Adviser>>) : Accounts[i] = <<Admin, Adviser>>[i]
    BY <1>1, <1>4, <1>5, ConcatProperties
  <1> QED
    BY <1>2, <1>4, <1>6

\* Students of the application are not the administrator.
LEMMA AdminNotOutside == Admin \notin Outside
  BY DEF Admin, Outside, Student

\* Before its first flush a run has made accounts only.
LEMMA NothingFilled ==
  ASSUME NEW pc \in {"idle", "accounts", "universities"}
  PROVE  Filled(pc) = {}
  BY DEF Filled

\* An idle process has no rows to add.
LEMMA IdleFields ==
  /\ Idle = [pc |-> "idle", run |-> 0, at |-> 1, absent |-> FALSE, rows |-> NoRows]
  /\ NoRows = [t \in Tables |-> NoRows[t]] /\ \A t \in Tables : NoRows[t] = {}
  BY DEF Idle, NoRows

\* A run that starts.
LEMMA StartKeeps ==
  ASSUME SeedInv, NEW p \in Procs, NEW force \in BOOLEAN, Start(p, force)
  PROVE  SeedInv'
  <1>1. /\ script[p] = Idle /\ starts \in Nat /\ starts' = starts + 1 /\ DOMAIN script = Procs
        /\ UNCHANGED <<origin, rows, objects>>
    BY DEF SeedInv, SeedTyped, Start
  <1>2. CASE script' = script
    <2>1. script'[p] = [pc |-> "idle", run |-> 0, at |-> 1, absent |-> FALSE, rows |-> NoRows]
      BY <1>1, <1>2, IdleFields
    <2>2. Formed(script'[p]) /\ script'[p].pc = "idle" /\ ~Claims(p)'
      BY <2>1, IdleFields DEF Formed, Claims, Stages
    <2> QED
      BY <1>1, <1>2, <2>2, RunStep
  <1>3. CASE script' = [script EXCEPT ![p] = [Idle EXCEPT !.pc = "accounts", !.run = starts + 1]]
    <2>1. script'[p] = [pc |-> "accounts", run |-> starts + 1, at |-> 1, absent |-> FALSE,
                        rows |-> NoRows]
      <3>1. script'[p] = [Idle EXCEPT !.pc = "accounts", !.run = starts + 1]
        BY <1>1, <1>3
      <3> QED
        BY <3>1, IdleFields
    <2>2. UnderWay(p)'
      <3>1. Filled("accounts") = {} /\ "users" \in Tables
        BY NothingFilled DEF Tables
      <3> QED
        BY <2>1, <3>1, IdleFields DEF UnderWay
    <2>3. starts' \in Nat /\ \A q \in Procs : q # p => script'[q] = script[q]
      BY <1>1, <1>3
    <2>4. Formed(script'[p]) /\ ~Claims(p)'
      BY <1>1, <2>1, IdleFields DEF Formed, Claims, Stages
    <2> QED
      BY <1>1, <1>3, <2>2, <2>3, <2>4, RunStep
  <1> QED
    BY <1>2, <1>3 DEF Start

\* One account after the other, found or created.
LEMMA FindKeeps ==
  ASSUME SeedInv, NEW p \in Procs, Find(p)
  PROVE  SeedInv'
  <1> DEFINE s == script[p]
  <1>1. /\ s.pc = "accounts" /\ s.absent = FALSE /\ UNCHANGED <<origin, rows, objects, starts>>
        /\ DOMAIN script = Procs /\ starts \in Nat /\ s.run \in Nat /\ s.run # 0
        /\ s.at \in Nat \ {0} /\ s.rows = [t \in Tables |-> s.rows[t]] /\ UnderWay(p)
        /\ s = [pc |-> s.pc, run |-> s.run, at |-> s.at, absent |-> s.absent, rows |-> s.rows]
    BY DEF SeedInv, SeedTyped, Formed, Find
  <1>2. /\ \A t \in Tables : t # "users" => s.rows[t] = {}
        /\ \A x \in s.rows["users"] : x.run = s.run
        /\ s.at > 1 => \/ \E x \in s.rows["users"] : x.row = Admin
                       \/ \E x \in rows["users"] : x.run # 0
    BY <1>1, NothingFilled DEF UnderWay, Claims
  <1>3. \A q \in Procs : q # p => script'[q] = script[q]
    BY <1>1 DEF Find
  <1>4. DOMAIN script' = Procs
    BY <1>1 DEF Find
  <1>5. ASSUME NEW pc \in {"accounts", "universities"}, NEW at \in Nat \ {0},
               NEW absent \in BOOLEAN,
               absent => pc = "accounts",
               script'[p] = [pc |-> pc, run |-> s.run, at |-> at, absent |-> absent,
                             rows |-> s.rows],
               at > 1 \/ pc = "universities" => \/ s.at > 1
                                                \/ \E x \in rows["users"] : x.run # 0
        PROVE  SeedInv'
    <2>1. UnderWay(p)'
      BY <1>1, <1>2, <1>5, NothingFilled DEF UnderWay
    <2>2. Formed(script'[p]) /\ ~Claims(p)'
      BY <1>1, <1>5 DEF Formed, Claims, Stages
    <2> QED
      BY <1>1, <1>3, <1>4, <2>1, <2>2, RunStep
  <1>6. CASE s.at > Len(Accounts)
    <2>1. script'[p] = [s EXCEPT !.pc = "universities"]
      BY <1>1, <1>6 DEF Find
    <2>2. script'[p] = [pc |-> "universities", run |-> s.run, at |-> s.at, absent |-> FALSE,
                        rows |-> s.rows]
      BY <1>1, <2>1
    <2>3. s.at > 1
      BY <1>1, <1>6, FirstAccount
    <2> QED
      BY <1>1, <1>5, <2>2, <2>3
  <1>7. CASE ~(s.at > Len(Accounts)) /\ Accounts[s.at] \in Emails
    <2>1. script'[p] = [s EXCEPT !.at = @ + 1]
      BY <1>1, <1>7 DEF Find
    <2>2. script'[p] = [pc |-> "accounts", run |-> s.run, at |-> s.at + 1, absent |-> FALSE,
                        rows |-> s.rows]
      BY <1>1, <2>1
    <2>3. s.at > 1 \/ \E x \in rows["users"] : x.run # 0
      <3>1. SUFFICES ASSUME s.at = 1
                     PROVE  \E x \in rows["users"] : x.run # 0
        BY <1>1
      <3>2. PICK x \in rows["users"] : x.row = Admin
        BY <1>7, <3>1, FirstAccount DEF Emails, RowsOf
      <3>3. "users" \in Tables
        BY DEF Tables
      <3> QED
        BY <3>2, <3>3, AdminNotOutside DEF SeedInv, Settled
    <2>4. s.at + 1 \in Nat \ {0}
      BY <1>1
    <2> QED
      BY <1>5, <2>2, <2>3, <2>4
  <1>8. CASE ~(s.at > Len(Accounts)) /\ Accounts[s.at] \notin Emails
    <2>1. script'[p] = [s EXCEPT !.absent = TRUE]
      BY <1>1, <1>8 DEF Find
    <2>2. script'[p] = [pc |-> "accounts", run |-> s.run, at |-> s.at, absent |-> TRUE,
                        rows |-> s.rows]
      BY <1>1, <2>1
    <2> QED
      BY <1>1, <1>5, <2>2
  <1> QED
    BY <1>6, <1>7, <1>8

\* An account is created: the run has it from then on.
LEMMA CreateKeeps ==
  ASSUME SeedInv, NEW p \in Procs, Create(p)
  PROVE  SeedInv'
  <1> DEFINE s == script[p]
             e == Accounts[s.at]
             f == Plus(s.rows, [users |-> Mark(s.run, {e})])
  <1>1. /\ s.absent /\ UNCHANGED <<origin, rows, objects, starts>>
        /\ DOMAIN script = Procs /\ starts \in Nat /\ s.run \in Nat
        /\ (s.absent => s.pc = "accounts")
        /\ (s.pc # "idle" => s.run # 0 /\ UnderWay(p))
        /\ s.at \in Nat \ {0} /\ s.rows = [t \in Tables |-> s.rows[t]]
        /\ s = [pc |-> s.pc, run |-> s.run, at |-> s.at, absent |-> s.absent, rows |-> s.rows]
    BY DEF SeedInv, SeedTyped, Formed, Create
  <1>2. s.pc = "accounts" /\ s.run # 0 /\ UnderWay(p)
    BY <1>1
  <1>3. /\ \A t \in Tables : t # "users" => s.rows[t] = {}
        /\ \A x \in s.rows["users"] : x.run = s.run
        /\ s.at > 1 => \/ \E x \in s.rows["users"] : x.row = Admin
                       \/ \E x \in rows["users"] : x.run # 0
    BY <1>2, NothingFilled DEF UnderWay, Claims
  <1>4. /\ \A q \in Procs : q # p => script'[q] = script[q]
        /\ DOMAIN script' = Procs
        /\ script'[p] = [s EXCEPT !.at = @ + 1, !.absent = FALSE, !.rows = f]
    BY <1>1 DEF Create
  <1>5. script'[p] = [pc |-> "accounts", run |-> s.run, at |-> s.at + 1, absent |-> FALSE,
                      rows |-> f]
    <2> HIDE DEF f
    <2> QED
      BY <1>1, <1>2, <1>4
  <1>6. /\ f = [t \in Tables |-> f[t]] /\ \A t \in Tables : t # "users" => f[t] = {}
        /\ f["users"] = s.rows["users"] \cup Mark(s.run, {e})
    <2> DEFINE g == [users |-> Mark(s.run, {e})]
    <2>1. "users" \in Tables /\ DOMAIN g = {"users"} /\ g["users"] = Mark(s.run, {e})
      BY DEF Tables
    <2>2. f = Plus(s.rows, g)
      OBVIOUS
    <2> HIDE DEF f, g
    <2> QED
      BY <1>3, <2>1, <2>2, PlusRows
  <1>7. /\ \A x \in f["users"] : x.run = s.run
        /\ \E x \in f["users"] : x.row = e
        /\ \A x \in s.rows["users"] : x \in f["users"]
    <2>1. Mark(s.run, {e}) = {[run |-> s.run, row |-> e]}
      BY DEF Mark
    <2> DEFINE x == [run |-> s.run, row |-> e]
    <2>2. f["users"] = s.rows["users"] \cup {x} /\ x.run = s.run /\ x.row = e
      BY <1>6, <2>1
    <2> HIDE DEF f, x, e
    <2> QED
      BY <1>3, <2>2
  <1>8. \/ \E x \in f["users"] : x.row = Admin
        \/ \E x \in rows["users"] : x.run # 0
    <2>1. CASE s.at = 1
      BY <1>7, <2>1, FirstAccount
    <2>2. CASE s.at # 1
      <3>1. s.at > 1
        BY <1>1, <2>2
      <3> QED
        BY <1>3, <1>7, <3>1
    <2> QED
      BY <2>1, <2>2
  <1>9. UnderWay(p)'
    <2> HIDE DEF f
    <2> QED
      BY <1>1, <1>5, <1>6, <1>7, <1>8, NothingFilled DEF UnderWay
  <1> HIDE DEF f
  <1>10. Formed(script'[p]) /\ ~Claims(p)'
    BY <1>1, <1>2, <1>5, <1>6 DEF Formed, Claims, Stages
  <1> QED
    BY <1>1, <1>4, <1>9, <1>10, RunStep

\* A run that fails leaves nothing.
LEMMA SeedFailKeeps ==
  ASSUME SeedInv, NEW p \in Procs, FailSeed(p)
  PROVE  SeedInv'
  <1>1. /\ DOMAIN script' = Procs /\ \A q \in Procs : q # p => script'[q] = script[q]
        /\ script'[p] = Idle /\ UNCHANGED <<origin, rows, objects, starts>> /\ starts \in Nat
    BY DEF SeedInv, SeedTyped, FailSeed
  <1>2. script'[p] = [pc |-> "idle", run |-> 0, at |-> 1, absent |-> FALSE, rows |-> NoRows]
    BY <1>1, IdleFields
  <1>3. Formed(script'[p]) /\ script'[p].pc = "idle" /\ ~Claims(p)'
    BY <1>2, IdleFields DEF Formed, Claims, Stages
  <1> QED
    BY <1>1, <1>3, RunStep

----------------------------------------------------------------------------
\* What a run makes has rows, all of them its own.
LEMMA MarkedRows ==
  ASSUME NEW r, NEW S, S # {}
  PROVE  Mark(r, S) # {} /\ \A x \in Mark(r, S) : x.run = r
  <1>1. PICK y : y \in S
    OBVIOUS
  <1>2. [run |-> r, row |-> y] \in Mark(r, S)
    BY <1>1 DEF Mark
  <1>3. \A x \in Mark(r, S) : x.run = r
    BY DEF Mark
  <1> QED
    BY <1>2, <1>3

\* The tables of which nothing more is said.
LEMMA PlainRight ==
  ASSUME NEW r, NEW S, S # {}, NEW O,
         NEW t \in {"universities", "programs", "enrollments", "roadmaps", "templates",
                    "student_roadmaps", "notifications", "faqs", "alumni", "documents",
                    "tokens"}
  PROVE  Right(Mark(r, S), r, t, O)
  BY MarkedRows DEF Right

\* There is a first student.
LEMMA FirstStudent == 0 \in Students
  BY NStudentsAssumption DEF Students

\* The profiles of a run, one for each student.
LEMMA ProfilesRight ==
  ASSUME NEW r, NEW O
  PROVE  Right(Profiles(r), r, "profiles", O)
  <1>1. {Student(i) : i \in Students} # {}
    BY FirstStudent
  <1> QED
    BY <1>1, MarkedRows DEF Right, Profiles

\* The tables made from the pools are not empty.
LEMMA PoolsRight ==
  ASSUME NEW r, NEW O
  PROVE  /\ Right(Mark(r, Universities), r, "universities", O)
         /\ Right(Programs(r), r, "programs", O)
         /\ Right(Roadmaps(r), r, "roadmaps", O)
         /\ Right(Templates(r), r, "templates", O)
         /\ Right(Mark(r, 1 .. NFaq), r, "faqs", O)
         /\ Right(Mark(r, 1 .. NNews), r, "news", O)
         /\ Right(Alumni(r), r, "alumni", O)
  <1>1. 0 \in Universities /\ 0 \in 0 .. NRoadmaps - 1 /\ 1 \in 1 .. NSteps
        /\ 1 \in 1 .. NFaq /\ 1 \in 1 .. NNews
    BY PoolsAssumption DEF Universities
  <1>2. [university |-> 0, nr |-> 1] \in
          UNION {{[university |-> u, nr |-> p] : p \in 1 .. 2 + (u % 2)} : u \in Universities}
    <2>1. [university |-> 0, nr |-> 1] \in {[university |-> 0, nr |-> p] : p \in 1 .. 2 + (0 % 2)}
      OBVIOUS
    <2> QED
      BY <1>1, <2>1
  <1>3. Right(Programs(r), r, "programs", O)
    BY <1>2, PlainRight DEF Programs
  <1>4. Right(Roadmaps(r), r, "roadmaps", O)
    <2> DEFINE S == {[nr |-> k, university |-> IF k % 2 = 0 THEN <<k % NUniversities>> ELSE None] :
                       k \in 0 .. NRoadmaps - 1}
    <2>1. S # {} /\ Roadmaps(r) = Mark(r, S)
      BY <1>1 DEF Roadmaps
    <2> HIDE DEF S
    <2> QED
      BY <2>1, PlainRight
  <1>5. Right(Templates(r), r, "templates", O)
    <2> DEFINE S == {[roadmap |-> k, step |-> s] : k \in 0 .. NRoadmaps - 1, s \in 1 .. NSteps}
    <2>1. [roadmap |-> 0, step |-> 1] \in S
      BY <1>1
    <2>2. Templates(r) = Mark(r, S)
      BY DEF Templates
    <2> HIDE DEF S
    <2>3. S # {}
      BY <2>1
    <2> QED
      BY <2>2, <2>3, PlainRight
  <1>6. Right(Alumni(r), r, "alumni", O)
    <2> DEFINE S == {[university |-> u, program |-> 1] : u \in Universities}
    <2>1. S # {} /\ Alumni(r) = Mark(r, S)
      BY <1>1 DEF Alumni
    <2> HIDE DEF S
    <2> QED
      BY <2>1, PlainRight
  <1>7. Right(Mark(r, Universities), r, "universities", O)
    BY <1>1, PlainRight
  <1>8. Right(Mark(r, 1 .. NFaq), r, "faqs", O)
    <2>1. 1 .. NFaq # {}
      BY <1>1
    <2> QED
      BY <2>1, PlainRight
  <1>9. Right(Mark(r, 1 .. NNews), r, "news", O)
    <2>1. 1 .. NNews # {}
      BY <1>1
    <2> QED
      BY <2>1, MarkedRows DEF Right
  <1> QED
    BY <1>3, <1>4, <1>5, <1>6, <1>7, <1>8, <1>9

\* The enrollments of a run.
LEMMA EnrollmentsRight ==
  ASSUME NEW r, NEW O, NEW c \in Samples
  PROVE  Right(Enrollments(r, c), r, "enrollments", O)
  <1>1. Cardinality(c[0]) = 1
    <2>1. Cardinality(c[0]) = 1 + (0 % 3)
      BY FirstStudent DEF Samples
    <2> QED
      BY <2>1
  <1>2. c[0] # {}
    BY <1>1, FS_EmptySet
  <1>3. PICK u : u \in c[0]
    BY <1>2
  <1> DEFINE S == UNION {{[student |-> i, university |-> v] : v \in c[i]} : i \in Students}
  <1>4. [student |-> 0, university |-> u] \in S
    <2>1. [student |-> 0, university |-> u] \in {[student |-> 0, university |-> v] : v \in c[0]}
      BY <1>3
    <2> QED
      BY <2>1, FirstStudent
  <1>5. Enrollments(r, c) = Mark(r, S)
    BY DEF Enrollments
  <1> HIDE DEF S
  <1> QED
    BY <1>4, <1>5, PlainRight

\* The roadmaps assigned to the students.
LEMMA StudentRoadmapsRight ==
  ASSUME NEW r, NEW O
  PROVE  Right(StudentRoadmaps(r), r, "student_roadmaps", O)
  <1> DEFINE A == {[student |-> i, roadmap |-> i % NRoadmaps, active |-> TRUE] : i \in Students}
             B == {[student |-> i, roadmap |-> (i + 3) % NRoadmaps, active |-> FALSE] :
                     i \in {j \in Students : j % 3 = 0}}
  <1>1. A # {} /\ StudentRoadmaps(r) = Mark(r, A \cup B)
    BY FirstStudent DEF StudentRoadmaps
  <1> HIDE DEF A, B
  <1>2. A \cup B # {}
    BY <1>1
  <1> QED
    BY <1>1, <1>2, PlainRight

\* The tasks with their history.
LEMMA TasksRight ==
  ASSUME NEW r, NEW O
  PROVE  Right(Tasks(r), r, "tasks", O) /\ Right(History(r), r, "history", O)
  <1> DEFINE T == UNION {TasksOf(i) : i \in Students}
  <1>1. TasksOf(0) # {}
    BY DEF TasksOf
  <1>2. T # {}
    BY <1>1, FirstStudent
  <1>3. Tasks(r) = Mark(r, T)
    BY DEF Tasks
  <1> DEFINE A == {[student |-> t.student, task |-> t.nr, old |-> "", new |-> t.status] : t \in T}
             B == {[student |-> t.student, task |-> t.nr, old |-> "todo", new |-> t.status] :
                     t \in {s \in T : s.status \in {"done", "in_progress"}}}
  <1>4. History(r) = Mark(r, A \cup B)
    BY DEF History
  <1> HIDE DEF T
  <1>5. A # {}
    BY <1>2
  <1> HIDE DEF A, B
  <1>6. A \cup B # {}
    BY <1>5
  <1> QED
    BY <1>2, <1>3, <1>4, <1>6, MarkedRows DEF Right

\* The slots, those of the appointments and the spare ones.
LEMMA SlotsRight ==
  ASSUME NEW r, NEW O
  PROVE  /\ Right(Slots(r), r, "slots", O) /\ Right(Appointments(r), r, "appointments", O)
         /\ Right(Conversations(r), r, "conversations", O)
  <1> DEFINE A == {[nr |-> i, start |-> 24 * (i \div 3 + 1) + 2 * (i % 3),
                    open |-> i >= NStudents] :
                     i \in 0 .. NStudents + NSpare - 1}
             B == {[slot |-> i, student |-> i,
                    status |-> <<"confirmed", "pending", "completed">>[(i % 3) + 1]] :
                      i \in Students}
             C == {[student |-> i, last |-> -(i + 1)] : i \in Students}
  <1>1. Slots(r) = Mark(r, A) /\ Appointments(r) = Mark(r, B) /\ Conversations(r) = Mark(r, C)
    BY DEF Slots, Appointments, Conversations
  <1>2. 0 \in 0 .. NStudents + NSpare - 1
    BY NStudentsAssumption, PoolsAssumption
  <1>3. A # {} /\ B # {} /\ C # {}
    BY <1>2, FirstStudent
  <1> HIDE DEF A, B, C
  <1> QED
    BY <1>1, <1>3, MarkedRows DEF Right

\* The messages: an image is named if it was stored.
LEMMA MessagesRight ==
  ASSUME NEW r, NEW O, NEW stored \in SUBSET Images,
         Mark(r, {<<i>> : i \in stored}) \subseteq O
  PROVE  Right(Messages(r, stored), r, "messages", O)
  <1> DEFINE M == UNION {MessagesOf(i, stored) : i \in Students}
  <1>1. MessagesOf(0, stored) # {}
    BY DEF MessagesOf
  <1>2. M # {} /\ Messages(r, stored) = Mark(r, M)
    BY <1>1, FirstStudent DEF Messages
  <1> HIDE DEF M
  <1>3. /\ Messages(r, stored) # {} /\ \A x \in Messages(r, stored) : x.run = r
        /\ \E s \in SUBSET Images : /\ Messages(r, stored) = Messages(r, s)
                                    /\ Mark(r, {<<i>> : i \in s}) \subseteq O
    BY <1>2, MarkedRows
  <1> QED
    BY <1>3 DEF Right

\* The notifications of a run.
LEMMA NotificationsRight ==
  ASSUME NEW r, NEW O
  PROVE  Right(Notifications(r), r, "notifications", O)
  <1> DEFINE notice(i, type, read) == [user |-> Student(i), type |-> type, read |-> read]
             A == {notice(i, "new_task", i % 3 = 0) : i \in Students}
                  \cup {notice(i, "new_message", FALSE) : i \in Students}
                  \cup {notice(i, "appointment_confirmed", FALSE) :
                          i \in {j \in Students : j % 4 = 0}}
             a == [user |-> Adviser, type |-> "appointment_confirmed", read |-> FALSE]
  <1>1. Notifications(r) = Mark(r, A \cup {a})
    BY DEF Notifications
  <1> HIDE DEF A, a
  <1>2. A \cup {a} # {}
    OBVIOUS
  <1> QED
    BY <1>1, <1>2, PlainRight

\* The events of the calendar, without the news and with them.
LEMMA EventsRight ==
  ASSUME NEW r, NEW O
  PROVE  /\ Right({e \in Events(r) : e.row.type # "news"}, r, "events", O)
         /\ Right(Events(r), r, "events", O)
  <1> DEFINE event(i, type, nr) == [student |-> i, type |-> type, source |-> nr]
             A == {event(i, "appointment", i) : i \in Students}
             B == {event(i, "task", 1) : i \in Students}
             C == {event(i, "news", n) : i \in {j \in Students : j < 5}, n \in Promoted}
             a == event(0, "appointment", 0)
  <1>1. Events(r) = Mark(r, A \cup B \cup C) /\ a \in A /\ a.type = "appointment"
    BY FirstStudent DEF Events
  <1> HIDE DEF A, B, C, a
  <1>2. [run |-> r, row |-> a] \in Events(r)
    BY <1>1 DEF Mark
  <1>3. [run |-> r, row |-> a] \in {e \in Events(r) : e.row.type # "news"}
    BY <1>1, <1>2
  <1>4. \A x \in Events(r) : x.run = r
    BY <1>1, <1>2, MarkedRows
  <1> QED
    BY <1>2, <1>3, <1>4 DEF Right

\* What is made last: alumni, documents, tokens.
LEMMA LastRight ==
  ASSUME NEW r, NEW O, NEW stored
  PROVE  Right(Documents(r, stored), r, "documents", O) /\ Right(Tokens(r), r, "tokens", O)
  <1> DEFINE A == {[student |-> d[1], type |-> d[2], missing |-> d \notin stored] : d \in Papers}
             B == {Accounts[k] : k \in 1 .. Len(Accounts)}
  <1>1. Documents(r, stored) = Mark(r, A) /\ Tokens(r) = Mark(r, B)
    BY DEF Documents, Tokens
  <1>2. B # {}
    <2>1. 1 \in 1 .. Len(Accounts)
      BY FirstAccount
    <2> QED
      BY <2>1
  <1>3. <<0, 0>> \in Papers
    <2>1. <<0, (0 + 0) % 7>> \in {<<0, (0 + d) % 7>> : d \in 0 .. 1 + (0 % 2)}
      OBVIOUS
    <2>2. <<0, (0 + 0) % 7>> \in Papers
      BY <2>1, FirstStudent DEF Papers
    <2> QED
      BY <2>2
  <1>4. A # {}
    BY <1>3
  <1> HIDE DEF A, B
  <1> QED
    BY <1>1, <1>2, <1>4, PlainRight

----------------------------------------------------------------------------
\* A flush as a change of the record of its process.
LEMMA FlushRecord ==
  ASSUME SeedInv, NEW p \in Procs, NEW stage, NEW next, NEW new, Flush(p, stage, next, new)
  PROVE  /\ script[p].pc = stage /\ UNCHANGED <<origin, rows, starts>> /\ DOMAIN script' = Procs
         /\ \A q \in Procs : q # p => script'[q] = script[q]
         /\ script'[p] = [pc |-> next, run |-> script[p].run, at |-> script[p].at,
                          absent |-> script[p].absent, rows |-> Plus(script[p].rows, new)]
  <1> DEFINE s == script[p]
             f == Plus(s.rows, new)
  <1>1. /\ s = [pc |-> s.pc, run |-> s.run, at |-> s.at, absent |-> s.absent, rows |-> s.rows]
        /\ DOMAIN script = Procs
    BY DEF SeedInv, SeedTyped, Formed
  <1>2. script' = [script EXCEPT ![p].pc = next, ![p].rows = f]
    BY DEF Flush
  <1> HIDE DEF f
  <1>3. script'[p] = [s EXCEPT !.pc = next, !.rows = f]
    BY <1>1, <1>2
  <1>4. [s EXCEPT !.pc = next, !.rows = f]
          = [pc |-> next, run |-> s.run, at |-> s.at, absent |-> s.absent, rows |-> f]
    <2> DEFINE fields == {"pc", "run", "at", "absent", "rows"}
    <2>1. DOMAIN s = fields
      BY <1>1
    <2>2. [s EXCEPT !.pc = next, !.rows = f]
            = [x \in fields |-> IF x = "rows" THEN f ELSE IF x = "pc" THEN next ELSE s[x]]
      BY <2>1
    <2> QED
      BY <2>2
  <1>5. DOMAIN script' = Procs /\ \A q \in Procs : q # p => script'[q] = script[q]
    BY <1>1, <1>2
  <1>6. s.pc = stage /\ UNCHANGED <<origin, rows, starts>>
    BY DEF Flush
  <1> QED
    BY <1>3, <1>4, <1>5, <1>6 DEF f

\* The accounts are there from the first flush on.
LEMMA UsersFilled ==
  ASSUME NEW pc \in Stages \ {"accounts", "universities"}
  PROVE  "users" \in Filled(pc) /\ "profiles" \in Filled(pc)
  BY DEF Filled, Stages

\* A flush: its tables are right when it is done, the others as they were.
LEMMA FlushKeeps ==
  ASSUME SeedInv, NEW p \in Procs, NEW stage \in Stages \ {"accounts"},
         NEW next \in Stages \ {"accounts", "universities"}, NEW new,
         Flush(p, stage, next, new), objects \subseteq objects',
         \A t \in Tables :
           IF t \in Filled(next)
           THEN \/ t \in Filled(stage) /\ t \notin DOMAIN new
                \/ Right(Plus(script[p].rows, new)[t], script[p].run, t, objects')
           ELSE t \notin Filled(stage) /\ t \notin DOMAIN new,
         \/ Claims(p)
         \/ /\ origin = "models" /\ \A q \in Procs : ~Claims(q)
            /\ \A r : HasCommitted(r) => r = 0
  PROVE  SeedInv'
  <1> DEFINE s == script[p]
             f == Plus(s.rows, new)
  <1>1. /\ s.pc = stage /\ UNCHANGED <<origin, rows, starts>> /\ DOMAIN script' = Procs
        /\ \A q \in Procs : q # p => script'[q] = script[q]
        /\ script'[p] = [pc |-> next, run |-> s.run, at |-> s.at, absent |-> s.absent,
                         rows |-> f]
    BY FlushRecord
  <1>2. Formed(s) /\ starts \in Nat
    BY DEF SeedInv, SeedTyped
  <1>3. "idle" \notin Stages
    BY DEF Stages
  <1>4. UnderWay(p)
    BY <1>1, <1>3 DEF SeedInv
  <1>5. f = [t \in Tables |-> f[t]] /\ \A t \in Tables : t \notin DOMAIN new => f[t] = s.rows[t]
    <2>1. f = [t \in Tables |-> f[t]]
      BY PlusRows
    <2>2. \A t \in Tables : t \notin DOMAIN new => f[t] = s.rows[t]
      BY PlusRows
    <2> QED
      BY <2>1, <2>2
  <1>6. ASSUME NEW t \in Tables
        PROVE  IF t \in Filled(next) THEN Right(f[t], s.run, t, objects')
               ELSE t # "users" => f[t] = {}
    <2>1. CASE t \in Filled(next) /\ t \in Filled(stage) /\ t \notin DOMAIN new
      <3>1. f[t] = s.rows[t] /\ Right(s.rows[t], s.run, t, objects)
        BY <1>1, <1>4, <1>5, <2>1 DEF UnderWay
      <3> HIDE DEF f
      <3> QED
        BY <2>1, <3>1, RightStays
    <2>2. CASE t \in Filled(next) /\ Right(f[t], s.run, t, objects')
      BY <2>2
    <2>3. CASE t \notin Filled(next)
      <3>1. t \notin Filled(stage) /\ f[t] = s.rows[t]
        BY <1>5, <2>3
      <3> QED
        BY <1>1, <1>4, <2>3, <3>1 DEF UnderWay
    <2> QED
      BY <2>1, <2>2, <2>3
  <1> HIDE DEF f
  <1>7. Claims(p)'
    BY <1>1 DEF Claims
  <1>8. \A x \in f["users"] : x.run = s.run
    <2>1. "users" \in Tables /\ "users" \in Filled(next)
      BY UsersFilled DEF Tables
    <2>2. Right(f["users"], s.run, "users", objects')
      BY <1>6, <2>1
    <2> QED
      BY <2>2 DEF Right
  <1>9. UnderWay(p)'
    BY <1>1, <1>6, <1>7, <1>8 DEF UnderWay
  <1>10. Formed(script'[p])
    BY <1>1, <1>2, <1>3, <1>5 DEF Formed
  <1> QED
    BY <1>1, <1>2, <1>9, <1>10, RunStep

\* A flush of tables that were empty, after the profiles.
LEMMA FlushMore ==
  ASSUME SeedInv, NEW p \in Procs, NEW stage \in Stages \ {"accounts", "universities"},
         NEW next \in Stages \ {"accounts", "universities"}, NEW new,
         Flush(p, stage, next, new), objects \subseteq objects',
         DOMAIN new \subseteq Tables \ Filled(stage),
         Filled(next) = Filled(stage) \cup DOMAIN new,
         \A t \in DOMAIN new : Right(new[t], script[p].run, t, objects')
  PROVE  SeedInv'
  <1> DEFINE f == Plus(script[p].rows, new)
  <1>1. script[p].pc = stage /\ Claims(p) /\ script[p].pc # "idle"
    BY DEF Flush, Claims, Stages
  <1>2. UnderWay(p)
    BY <1>1 DEF SeedInv
  <1>3. ASSUME NEW t \in DOMAIN new
        PROVE  f[t] = new[t]
    <2>1. t \in Tables /\ t \notin Filled(stage) /\ t # "users"
      BY UsersFilled
    <2>2. f[t] = script[p].rows[t] \cup new[t]
      BY <2>1, PlusRows
    <2>3. script[p].rows[t] = {}
      BY <1>1, <1>2, <2>1 DEF UnderWay
    <2> HIDE DEF f
    <2> QED
      BY <2>2, <2>3
  <1> HIDE DEF f
  <1>4. \A t \in Tables :
          IF t \in Filled(next)
          THEN \/ t \in Filled(stage) /\ t \notin DOMAIN new
               \/ Right(f[t], script[p].run, t, objects')
          ELSE t \notin Filled(stage) /\ t \notin DOMAIN new
    BY <1>3
  <1> QED
    BY <1>1, <1>4, FlushKeeps DEF f

----------------------------------------------------------------------------
\* On the migrated schema the columns of the universities are missing.
LEMMA MigratedLacks == origin = "migrations" => ~ColumnsAreThere("universities")
  <1> SUFFICES ASSUME origin = "migrations"
               PROVE  ~ColumnsAreThere("universities")
    OBVIOUS
  <1> DEFINE d == SchemaAt(HeadRevision)
  <1>1. {c[1] : c \in CreateAll.columns \ d.columns} = {"universities", "roadmaps"}
    BY DriftAssumption DEF Drifts
  <1>2. SchemaOf = d
    BY DEF SchemaOf
  <1> HIDE DEF d
  <1>3. PICK c \in CreateAll.columns \ d.columns : c[1] = "universities"
    BY <1>1
  <1> QED
    BY <1>2, <1>3 DEF ColumnsAreThere

\* The profiles go in where no other run has made them, and nobody did before.
LEMMA FlushUniversitiesKeeps ==
  ASSUME SeedInv, NEW p \in Procs, FlushUniversities(p)
  PROVE  SeedInv'
  <1> DEFINE s == script[p]
             new == [profiles |-> Profiles(s.run), universities |-> Mark(s.run, Universities)]
             f == Plus(s.rows, new)
             x(r) == [run |-> r, row |-> Student(0)]
  <1>1. /\ ColumnsAreThere("universities") /\ UNCHANGED objects
        /\ Flush(p, "universities", "programs", new) /\ s.pc = "universities"
        /\ {y.row : y \in Profiles(s.run)}
             \cap (Others(p, "profiles") \cup RowsOf(rows, "profiles")) = {}
    BY DEF FlushUniversities, Flush
  <1>2. origin = "models"
    BY <1>1, MigratedLacks DEF SeedInv, SeedTyped
  <1>3. ASSUME NEW r
        PROVE  x(r) \in Profiles(r) /\ x(r).row = Student(0)
    BY FirstStudent DEF Profiles, Mark
  <1>4. Student(0) \notin Others(p, "profiles") /\ Student(0) \notin RowsOf(rows, "profiles")
    BY <1>1, <1>3
  <1>5. ASSUME NEW r, HasCommitted(r)
        PROVE  r = 0
    <2> SUFFICES ASSUME r # 0
                 PROVE  FALSE
      OBVIOUS
    <2>1. Part(r, "profiles") = Profiles(r)
      <3>1. Right(Part(r, "profiles"), r, "profiles", objects)
        BY <1>5 DEF SeedInv, Settled, Tables
      <3> QED
        BY <3>1 DEF Right
    <2>2. x(r) \in rows["profiles"]
      BY <1>3, <2>1 DEF Part
    <2> QED
      BY <1>3, <1>4, <2>2 DEF RowsOf
  <1>6. ASSUME NEW q \in Procs
        PROVE  ~Claims(q)
    <2> SUFFICES ASSUME Claims(q)
                 PROVE  FALSE
      OBVIOUS
    <2>1. q # p /\ script[q].pc \in Stages \ {"accounts", "universities"}
      BY <1>1 DEF Claims
    <2>2. "profiles" \in Filled(script[q].pc) /\ "profiles" \in Tables
          /\ script[q].pc # "idle"
      BY <2>1, UsersFilled DEF Tables, Stages
    <2>3. Right(script[q].rows["profiles"], script[q].run, "profiles", objects)
      BY <2>2 DEF SeedInv, UnderWay
    <2>4. x(script[q].run) \in script[q].rows["profiles"]
      BY <1>3, <2>3 DEF Right
    <2>5. Student(0) \in Made(q, "profiles")
      BY <1>3, <2>4 DEF Made, RowsOf
    <2> QED
      BY <1>4, <2>1, <2>5 DEF Others
  <1>7. UnderWay(p) /\ ~Claims(p)
    BY <1>1, <1>6 DEF SeedInv
  <1>8. Right(s.rows["users"], s.run, "users", objects')
    <2>1. ~\E y \in rows["users"] : y.run # 0
      BY <1>5 DEF HasCommitted, Part, Tables
    <2>2. /\ \A y \in s.rows["users"] : y.run = s.run
          /\ \E y \in s.rows["users"] : y.row = Admin
      BY <1>1, <1>7, <2>1 DEF UnderWay
    <2> QED
      BY <2>2 DEF Right
  <1>9. DOMAIN new = {"profiles", "universities"} /\ new["profiles"] = Profiles(s.run)
        /\ new["universities"] = Mark(s.run, Universities)
    OBVIOUS
  <1>10. {"users", "profiles", "universities"} \subseteq Tables
    BY DEF Tables
  <1>11. s.rows["profiles"] = {} /\ s.rows["universities"] = {}
    BY <1>1, <1>7, <1>10, NothingFilled DEF UnderWay
  <1> HIDE DEF new
  <1>12. /\ f["users"] = s.rows["users"] /\ f["profiles"] = Profiles(s.run)
         /\ f["universities"] = Mark(s.run, Universities)
    <2>1. f = Plus(s.rows, new)
      OBVIOUS
    <2> HIDE DEF f
    <2>2. f["users"] = s.rows["users"]
      BY <1>9, <1>10, <2>1, PlusRows
    <2>3. f["profiles"] = Profiles(s.run)
      <3>1. f["profiles"] = s.rows["profiles"] \cup new["profiles"]
        BY <1>9, <1>10, <2>1, PlusRows
      <3> QED
        BY <1>9, <1>11, <3>1
    <2>4. f["universities"] = Mark(s.run, Universities)
      <3>1. f["universities"] = s.rows["universities"] \cup new["universities"]
        BY <1>9, <1>10, <2>1, PlusRows
      <3> QED
        BY <1>9, <1>11, <3>1
    <2> QED
      BY <2>2, <2>3, <2>4
  <1>13. Filled("universities") = {} /\ Filled("programs") = {"users", "profiles", "universities"}
    BY DEF Filled
  <1>14. \A t \in Filled("programs") : Right(f[t], s.run, t, objects')
    BY <1>8, <1>12, <1>13, ProfilesRight, PoolsRight
  <1> HIDE DEF f
  <1>15. \A t \in Tables :
           IF t \in Filled("programs")
           THEN \/ t \in Filled("universities") /\ t \notin DOMAIN new
                \/ Right(f[t], s.run, t, objects')
           ELSE t \notin Filled("universities") /\ t \notin DOMAIN new
    BY <1>9, <1>13, <1>14
  <1>16. "universities" \in Stages \ {"accounts"}
         /\ "programs" \in Stages \ {"accounts", "universities"} /\ objects \subseteq objects'
    BY <1>1 DEF Stages
  <1> QED
    BY <1>1, <1>2, <1>5, <1>6, <1>15, <1>16, FlushKeeps DEF f

\* The other flushes fill tables that were empty: the programs,
LEMMA FlushProgramsKeeps ==
  ASSUME SeedInv, NEW p \in Procs, FlushPrograms(p)
  PROVE  SeedInv'
  <1> DEFINE r == script[p].run
             new == [programs |-> Programs(r)]
  <1>1. Flush(p, "programs", "roadmaps", new) /\ objects \subseteq objects'
    BY DEF FlushPrograms
  <1>2. DOMAIN new = {"programs"} /\ new["programs"] = Programs(r)
    OBVIOUS
  <1> HIDE DEF new
  <1>3. \A t \in DOMAIN new : Right(new[t], r, t, objects')
    BY <1>2, PoolsRight
  <1>4. {"programs", "roadmaps"} \subseteq Stages \ {"accounts", "universities"}
        /\ DOMAIN new \subseteq Tables \ Filled("programs")
    BY <1>2 DEF Stages, Filled, Tables
  <1>5. Filled("roadmaps") = Filled("programs") \cup DOMAIN new
    BY <1>2 DEF Filled
  <1> QED
    BY <1>1, <1>3, <1>4, <1>5, FlushMore

\* the roadmaps and the enrollments,
LEMMA FlushRoadmapsKeeps ==
  ASSUME SeedInv, NEW p \in Procs, FlushRoadmaps(p)
  PROVE  SeedInv'
  <1> DEFINE r == script[p].run
  <1>1. PICK c \in Samples :
          Flush(p, "roadmaps", "student_roadmaps",
                [enrollments |-> Enrollments(r, c), roadmaps |-> Roadmaps(r)])
    BY DEF FlushRoadmaps
  <1> DEFINE new == [enrollments |-> Enrollments(r, c), roadmaps |-> Roadmaps(r)]
  <1>2. DOMAIN new = {"enrollments", "roadmaps"} /\ new["enrollments"] = Enrollments(r, c)
        /\ new["roadmaps"] = Roadmaps(r)
    OBVIOUS
  <1>3. Flush(p, "roadmaps", "student_roadmaps", new) /\ objects \subseteq objects'
    BY <1>1 DEF FlushRoadmaps
  <1> HIDE DEF new
  <1>4. \A t \in DOMAIN new : Right(new[t], r, t, objects')
    BY <1>2, PoolsRight, EnrollmentsRight
  <1>5. {"roadmaps", "student_roadmaps"} \subseteq Stages \ {"accounts", "universities"}
        /\ DOMAIN new \subseteq Tables \ Filled("roadmaps")
    BY <1>2 DEF Stages, Filled, Tables
  <1>6. Filled("student_roadmaps") = Filled("roadmaps") \cup DOMAIN new
    BY <1>2 DEF Filled
  <1> QED
    BY <1>3, <1>4, <1>5, <1>6, FlushMore

\* the templates and the roadmaps of the students,
LEMMA FlushStudentRoadmapsKeeps ==
  ASSUME SeedInv, NEW p \in Procs, FlushStudentRoadmaps(p)
  PROVE  SeedInv'
  <1> DEFINE r == script[p].run
             new == [templates |-> Templates(r), student_roadmaps |-> StudentRoadmaps(r)]
  <1>1. Flush(p, "student_roadmaps", "tasks", new) /\ objects \subseteq objects'
    BY DEF FlushStudentRoadmaps
  <1>2. DOMAIN new = {"templates", "student_roadmaps"} /\ new["templates"] = Templates(r)
        /\ new["student_roadmaps"] = StudentRoadmaps(r)
    OBVIOUS
  <1> HIDE DEF new
  <1>3. \A t \in DOMAIN new : Right(new[t], r, t, objects')
    BY <1>2, PoolsRight, StudentRoadmapsRight
  <1>4. {"student_roadmaps", "tasks"} \subseteq Stages \ {"accounts", "universities"}
        /\ DOMAIN new \subseteq Tables \ Filled("student_roadmaps")
    BY <1>2 DEF Stages, Filled, Tables
  <1>5. Filled("tasks") = Filled("student_roadmaps") \cup DOMAIN new
    BY <1>2 DEF Filled
  <1> QED
    BY <1>1, <1>3, <1>4, <1>5, FlushMore

\* the tasks and their history,
LEMMA FlushTasksKeeps ==
  ASSUME SeedInv, NEW p \in Procs, FlushTasks(p)
  PROVE  SeedInv'
  <1> DEFINE r == script[p].run
             new == [tasks |-> Tasks(r)]
  <1>1. Flush(p, "tasks", "slots", new) /\ objects \subseteq objects'
    BY DEF FlushTasks
  <1>2. DOMAIN new = {"tasks"} /\ new["tasks"] = Tasks(r)
    OBVIOUS
  <1> HIDE DEF new
  <1>3. \A t \in DOMAIN new : Right(new[t], r, t, objects')
    BY <1>2, TasksRight
  <1>4. {"tasks", "slots"} \subseteq Stages \ {"accounts", "universities"}
        /\ DOMAIN new \subseteq Tables \ Filled("tasks")
    BY <1>2 DEF Stages, Filled, Tables
  <1>5. Filled("slots") = Filled("tasks") \cup DOMAIN new
    BY <1>2 DEF Filled
  <1> QED
    BY <1>1, <1>3, <1>4, <1>5, FlushMore

\* the slots,
LEMMA FlushSlotsKeeps ==
  ASSUME SeedInv, NEW p \in Procs, FlushSlots(p)
  PROVE  SeedInv'
  <1> DEFINE r == script[p].run
             new == [history |-> History(r), slots |-> Slots(r)]
  <1>1. Flush(p, "slots", "appointments", new) /\ objects \subseteq objects'
    BY DEF FlushSlots
  <1>2. DOMAIN new = {"history", "slots"} /\ new["history"] = History(r)
        /\ new["slots"] = Slots(r)
    OBVIOUS
  <1> HIDE DEF new
  <1>3. \A t \in DOMAIN new : Right(new[t], r, t, objects')
    BY <1>2, TasksRight, SlotsRight
  <1>4. {"slots", "appointments"} \subseteq Stages \ {"accounts", "universities"}
        /\ DOMAIN new \subseteq Tables \ Filled("slots")
    BY <1>2 DEF Stages, Filled, Tables
  <1>5. Filled("appointments") = Filled("slots") \cup DOMAIN new
    BY <1>2 DEF Filled
  <1> QED
    BY <1>1, <1>3, <1>4, <1>5, FlushMore

\* The slots of the appointments were taken already when they were made.
LEMMA FlushAppointmentsKeeps ==
  ASSUME SeedInv, NEW p \in Procs, FlushAppointments(p)
  PROVE  SeedInv'
  <1> DEFINE s == script[p]
             r == s.run
             new == [appointments |-> Appointments(r)]
             taken == {a.row.slot : a \in Appointments(r)}
             mark(x) == IF x.row.nr \in taken THEN [x EXCEPT !.row.open = FALSE] ELSE x
             f == Plus(s.rows, new)
  <1>1. s.pc = "appointments" /\ UNCHANGED <<origin, rows, objects, starts>>
        /\ script' = [script EXCEPT ![p].pc = "conversations",
                        ![p].rows = [f EXCEPT !["slots"] = {mark(x) : x \in f["slots"]}]]
    BY DEF FlushAppointments
  <1>2. f["slots"] = Slots(r)
    <2>1. "slots" \in Filled(s.pc) /\ "slots" \in Tables /\ s.pc # "idle"
      BY <1>1 DEF Filled, Tables
    <2>2. s.rows["slots"] = Slots(r)
      BY <2>1 DEF SeedInv, UnderWay, Right
    <2>3. DOMAIN new = {"appointments"}
      OBVIOUS
    <2> HIDE DEF new
    <2> QED
      BY <2>1, <2>2, <2>3, PlusRows
  <1>3. taken = Students
    <2>1. \A a \in Appointments(r) : a.row.slot \in Students
      BY DEF Appointments, Mark
    <2>2. ASSUME NEW i \in Students
          PROVE  \E a \in Appointments(r) : a.row.slot = i
      <3> DEFINE y == [slot |-> i, student |-> i,
                       status |-> <<"confirmed", "pending", "completed">>[(i % 3) + 1]]
      <3>1. [run |-> r, row |-> y] \in Appointments(r)
        BY DEF Appointments, Mark
      <3> QED
        BY <3>1
    <2> QED
      BY <2>1, <2>2
  <1>4. ASSUME NEW x \in Slots(r)
        PROVE  mark(x) = x
    <2> HIDE DEF taken
    <2> DEFINE y(i, open) == [run |-> r, row |-> [nr |-> i, start |-> 24 * (i \div 3 + 1)
                                                    + 2 * (i % 3), open |-> open]]
    <2>1. PICK i \in 0 .. NStudents + NSpare - 1 : x = y(i, i >= NStudents)
      BY DEF Slots, Mark
    <2>2. i \in Students => (i >= NStudents) = FALSE
      BY NStudentsAssumption DEF Students
    <2>3. x.row.nr = i
      BY <2>1
    <2>4. CASE i \in Students
      <3>1. x = y(i, FALSE)
        BY <2>1, <2>2, <2>4
      <3> DEFINE z == [nr |-> i, start |-> 24 * (i \div 3 + 1) + 2 * (i % 3), open |-> FALSE]
      <3>2. [z EXCEPT !.open = FALSE] = z
        <4>1. z = [k \in {"nr", "start", "open"} |-> z[k]] /\ z["open"] = FALSE
          OBVIOUS
        <4> HIDE DEF z
        <4> QED
          BY <4>1
      <3>3. x = [run |-> r, row |-> z] /\ x.row = z
        BY <3>1
      <3> HIDE DEF z, y
      <3>4. [x EXCEPT !.row = z] = x
        BY <3>3
      <3>5. [x EXCEPT !.row.open = FALSE] = [x EXCEPT !.row = [z EXCEPT !.open = FALSE]]
        BY <3>3
      <3>6. [x EXCEPT !.row.open = FALSE] = x
        BY <3>2, <3>4, <3>5
      <3> QED
        BY <3>6
    <2>5. CASE i \notin Students
      BY <1>3, <2>3, <2>5
    <2> QED
      BY <2>4, <2>5
  <1>5. {mark(x) : x \in f["slots"]} = f["slots"]
    <2> HIDE DEF mark, f
    <2> QED
      BY <1>2, <1>4
  <1>6. [f EXCEPT !["slots"] = f["slots"]] = f
    <2>1. f = [t \in Tables |-> f[t]]
      BY PlusRows
    <2> HIDE DEF f
    <2> QED
      BY <2>1
  <1>7. Flush(p, "appointments", "conversations", new) /\ objects \subseteq objects'
    <2>1. script' = [script EXCEPT ![p].pc = "conversations", ![p].rows = f]
      <3> HIDE DEF f, mark
      <3> QED
        BY <1>1, <1>5, <1>6
    <2> QED
      BY <1>1, <2>1 DEF Flush
  <1>8. DOMAIN new = {"appointments"} /\ new["appointments"] = Appointments(r)
    OBVIOUS
  <1> HIDE DEF new, f, mark, taken
  <1>9. \A t \in DOMAIN new : Right(new[t], r, t, objects')
    BY <1>8, SlotsRight
  <1>10. {"appointments", "conversations"} \subseteq Stages \ {"accounts", "universities"}
         /\ DOMAIN new \subseteq Tables \ Filled("appointments")
    BY <1>8 DEF Stages, Filled, Tables
  <1>11. Filled("conversations") = Filled("appointments") \cup DOMAIN new
    BY <1>8 DEF Filled
  <1> QED
    BY <1>7, <1>9, <1>10, <1>11, FlushMore

\* the conversations.
LEMMA FlushConversationsKeeps ==
  ASSUME SeedInv, NEW p \in Procs, FlushConversations(p)
  PROVE  SeedInv'
  <1> DEFINE r == script[p].run
             new == [conversations |-> Conversations(r)]
  <1>1. Flush(p, "conversations", "news", new) /\ objects \subseteq objects'
    BY DEF FlushConversations
  <1>2. DOMAIN new = {"conversations"} /\ new["conversations"] = Conversations(r)
    OBVIOUS
  <1> HIDE DEF new
  <1>3. \A t \in DOMAIN new : Right(new[t], r, t, objects')
    BY <1>2, SlotsRight
  <1>4. {"conversations", "news"} \subseteq Stages \ {"accounts", "universities"}
        /\ DOMAIN new \subseteq Tables \ Filled("conversations")
    BY <1>2 DEF Stages, Filled, Tables
  <1>5. Filled("news") = Filled("conversations") \cup DOMAIN new
    BY <1>2 DEF Filled
  <1> QED
    BY <1>1, <1>3, <1>4, <1>5, FlushMore

\* The images that messages name are in the store by then.
LEMMA FlushNewsKeeps ==
  ASSUME SeedInv, NEW p \in Procs, FlushNews(p)
  PROVE  SeedInv'
  <1> DEFINE r == script[p].run
  <1>1. PICK failed \in SUBSET Unreliable :
          LET stored == {i \in Images : <<i>> \notin failed} IN
          /\ objects' = objects \cup Mark(r, {<<i>> : i \in stored})
          /\ Flush(p, "news", "documents",
               [messages |-> Messages(r, stored), notifications |-> Notifications(r),
                events |-> {e \in Events(r) : e.row.type # "news"},
                faqs |-> Mark(r, 1 .. NFaq), news |-> Mark(r, 1 .. NNews)])
    BY DEF FlushNews
  <1> DEFINE stored == {i \in Images : <<i>> \notin failed}
             new == [messages |-> Messages(r, stored), notifications |-> Notifications(r),
                     events |-> {e \in Events(r) : e.row.type # "news"},
                     faqs |-> Mark(r, 1 .. NFaq), news |-> Mark(r, 1 .. NNews)]
  <1>2. /\ Flush(p, "news", "documents", new) /\ objects \subseteq objects'
        /\ stored \in SUBSET Images /\ Mark(r, {<<i>> : i \in stored}) \subseteq objects'
    BY <1>1
  <1>3. /\ DOMAIN new = {"messages", "notifications", "events", "faqs", "news"}
        /\ new["messages"] = Messages(r, stored) /\ new["notifications"] = Notifications(r)
        /\ new["events"] = {e \in Events(r) : e.row.type # "news"}
        /\ new["faqs"] = Mark(r, 1 .. NFaq) /\ new["news"] = Mark(r, 1 .. NNews)
    OBVIOUS
  <1> HIDE DEF new, stored
  <1>4. \A t \in DOMAIN new : Right(new[t], r, t, objects')
    BY <1>2, <1>3, MessagesRight, NotificationsRight, EventsRight, PoolsRight
  <1>5. {"news", "documents"} \subseteq Stages \ {"accounts", "universities"}
        /\ DOMAIN new \subseteq Tables \ Filled("news")
    BY <1>3 DEF Stages, Filled, Tables
  <1>6. Filled("documents") = Filled("news") \cup DOMAIN new
    BY <1>3 DEF Filled
  <1> QED
    BY <1>2, <1>4, <1>5, <1>6, FlushMore

\* The last flush adds the news to the calendars.
LEMMA UploadKeeps ==
  ASSUME SeedInv, NEW p \in Procs, Upload(p)
  PROVE  SeedInv'
  <1> DEFINE s == script[p]
             r == s.run
  <1>1. PICK failed \in SUBSET Unreliable :
          LET stored == Papers \ failed IN
          /\ objects' = objects \cup Mark(r, stored)
          /\ Flush(p, "documents", "commit",
               [events |-> Events(r), alumni |-> Alumni(r),
                documents |-> Documents(r, stored), tokens |-> Tokens(r)])
    BY DEF Upload
  <1> DEFINE stored == Papers \ failed
             new == [events |-> Events(r), alumni |-> Alumni(r),
                     documents |-> Documents(r, stored), tokens |-> Tokens(r)]
             f == Plus(s.rows, new)
  <1>2. Flush(p, "documents", "commit", new) /\ objects \subseteq objects'
        /\ s.pc = "documents"
    BY <1>1 DEF Flush
  <1>3. /\ DOMAIN new = {"events", "alumni", "documents", "tokens"}
        /\ new["events"] = Events(r) /\ new["alumni"] = Alumni(r)
        /\ new["documents"] = Documents(r, stored) /\ new["tokens"] = Tokens(r)
    OBVIOUS
  <1> HIDE DEF new, stored
  <1>4. /\ {"alumni", "documents", "tokens", "events"} \subseteq Tables
        /\ "events" \in Filled("documents")
        /\ "alumni" \notin Filled("documents") /\ "documents" \notin Filled("documents")
        /\ "tokens" \notin Filled("documents")
    BY DEF Tables, Filled
  <1>5. UnderWay(p) /\ Claims(p)
    BY <1>2 DEF SeedInv, Claims, Stages
  <1>6. s.rows["events"] \subseteq Events(r)
    <2>1. Right(s.rows["events"], r, "events", objects)
      BY <1>2, <1>4, <1>5 DEF UnderWay
    <2> QED
      BY <2>1 DEF Right
  <1>7. s.rows["alumni"] = {} /\ s.rows["documents"] = {} /\ s.rows["tokens"] = {}
    BY <1>2, <1>4, <1>5 DEF UnderWay
  <1>8. /\ f["events"] = Events(r) /\ f["alumni"] = Alumni(r)
        /\ f["documents"] = Documents(r, stored) /\ f["tokens"] = Tokens(r)
    <2>1. f = Plus(s.rows, new)
      OBVIOUS
    <2> HIDE DEF f
    <2>2. \A t \in DOMAIN new : f[t] = s.rows[t] \cup new[t]
      BY <1>3, <1>4, <2>1, PlusRows
    <2>3. f["events"] = s.rows["events"] \cup Events(r)
          /\ f["alumni"] = s.rows["alumni"] \cup Alumni(r)
          /\ f["documents"] = s.rows["documents"] \cup Documents(r, stored)
          /\ f["tokens"] = s.rows["tokens"] \cup Tokens(r)
      BY <1>3, <2>2
    <2>4. s.rows["events"] \cup Events(r) = Events(r)
      BY <1>6
    <2> QED
      BY <1>7, <2>3, <2>4
  <1>9. \A t \in DOMAIN new : Right(f[t], r, t, objects')
    BY <1>3, <1>8, EventsRight, PoolsRight, LastRight
  <1>10. Filled("commit") = Filled("documents") \cup DOMAIN new
    BY <1>3 DEF Filled
  <1> HIDE DEF f
  <1>11. \A t \in Tables :
           IF t \in Filled("commit")
           THEN \/ t \in Filled("documents") /\ t \notin DOMAIN new
                \/ Right(f[t], r, t, objects')
           ELSE t \notin Filled("documents") /\ t \notin DOMAIN new
    BY <1>9, <1>10
  <1>12. "documents" \in Stages \ {"accounts"}
         /\ "commit" \in Stages \ {"accounts", "universities"}
    BY DEF Stages
  <1> QED
    BY <1>2, <1>5, <1>11, <1>12, FlushKeeps DEF f

----------------------------------------------------------------------------
\* The commit: the one run that is past the profiles is the first to commit.
LEMMA SeedCommitKeeps ==
  ASSUME SeedInv, NEW p \in Procs, CommitSeed(p)
  PROVE  SeedInv'
  <1> DEFINE s == script[p]
             r == s.run
  <1>1. /\ s.pc = "commit" /\ rows' = Plus(rows, s.rows) /\ UNCHANGED <<origin, objects, starts>>
        /\ DOMAIN script' = Procs /\ \A q \in Procs : q # p => script'[q] = script[q]
        /\ script'[p] = Idle /\ DOMAIN s.rows = Tables
    BY DEF SeedInv, SeedTyped, Formed, CommitSeed
  <1>2. UnderWay(p) /\ Claims(p) /\ r # 0 /\ r \in Nat
    BY <1>1 DEF SeedInv, SeedTyped, Formed, Claims, Stages
  <1>3. /\ \A q \in Procs : Claims(q) => q = p
        /\ origin = "models" /\ \A q : HasCommitted(q) => q = 0
    BY <1>2 DEF SeedInv, OneSeeds
  <1>4. ASSUME NEW t \in Tables
        PROVE  Right(s.rows[t], r, t, objects) /\ \A x \in s.rows[t] : x.run = r
    <2>1. t \in Filled("commit")
      BY DEF Filled, Tables
    <2>2. Right(s.rows[t], r, t, objects)
      BY <1>1, <1>2, <2>1 DEF UnderWay
    <2> QED
      BY <2>2 DEF Right
  <1>5. ASSUME NEW t \in Tables
        PROVE  /\ rows'[t] = rows[t] \cup s.rows[t] /\ \A x \in rows[t] : x.run = 0
    <2>1. rows'[t] = rows[t] \cup s.rows[t]
      BY <1>1, PlusRows
    <2>2. \A x \in rows[t] : x.run = 0
      BY <1>3 DEF HasCommitted, Part
    <2> QED
      BY <2>1, <2>2
  <1>6. ASSUME NEW t \in Tables, NEW q
        PROVE  /\ q = r => Part(q, t)' = s.rows[t]
               /\ q # r /\ q # 0 => Part(q, t)' = {}
    <2>1. Part(q, t)' = {x \in rows'[t] : x.run = q}
      BY DEF Part
    <2> HIDE DEF s, r
    <2>2. ASSUME NEW x \in rows'[t]
          PROVE  (x \in s.rows[t] /\ x.run = r) \/ (x \in rows[t] /\ x.run = 0)
      <3>1. x \in rows[t] \/ x \in s.rows[t]
        BY <1>5
      <3>2. x \in rows[t] => x.run = 0
        BY <1>5
      <3>3. x \in s.rows[t] => x.run = r
        BY <1>4
      <3> QED
        BY <3>1, <3>2, <3>3
    <2>3. \A x \in s.rows[t] : x.run = r /\ x \in rows'[t]
      BY <1>4, <1>5
    <2>4. q = r => Part(q, t)' = s.rows[t]
      BY <1>2, <2>1, <2>2, <2>3
    <2>5. q # r /\ q # 0 => Part(q, t)' = {}
      BY <2>1, <2>2
    <2> QED
      BY <2>4, <2>5
  <1>7. ASSUME NEW q, HasCommitted(q)', q # 0
        PROVE  q = r
    BY <1>6, <1>7 DEF HasCommitted
  <1>8. Settled'
    <2>1. ASSUME NEW t \in Tables, NEW x \in rows'[t], x.run = 0
          PROVE  t \in {"users", "profiles"} /\ x.row \in Outside
      <3>1. x \in rows[t]
        BY <1>2, <1>4, <1>5, <2>1
      <3> QED
        BY <2>1, <3>1 DEF SeedInv, Settled
    <2>2. ASSUME NEW q, HasCommitted(q)', q # 0, NEW t \in Tables
          PROVE  Right(Part(q, t)', q, t, objects')
      <3>1. q = r
        BY <1>7, <2>2
      <3>2. Part(q, t)' = s.rows[t] /\ Right(s.rows[t], r, t, objects) /\ objects' = objects
        BY <1>1, <1>4, <1>6, <3>1
      <3> QED
        BY <3>1, <3>2
    <2> QED
      BY <1>1, <1>3, <1>7, <2>1, <2>2 DEF Settled
  <1>9. OneSeeds'
    <2>1. \A q \in Procs : ~Claims(q)'
      <3>1. ASSUME NEW q \in Procs, q # p
            PROVE  ~Claims(q)'
        BY <1>1, <1>3, <3>1 DEF Claims
      <3>2. ~Claims(p)'
        BY <1>1, IdleFields DEF Claims, Stages
      <3> QED
        BY <3>1, <3>2
    <2> QED
      BY <2>1 DEF OneSeeds
  <1>10. SeedTyped'
    <2>1. Formed(Idle)
      BY IdleFields DEF Formed
    <2>2. \A q \in Procs : Formed(script'[q])
      BY <1>1, <2>1 DEF SeedInv, SeedTyped
    <2>3. DOMAIN rows' = Tables
      BY <1>1, PlusRows
    <2> QED
      BY <1>1, <2>2, <2>3 DEF SeedInv, SeedTyped
  <1>11. ASSUME NEW q \in Procs, script'[q].pc # "idle"
         PROVE  UnderWay(q)'
    <2>1. q # p /\ script'[q] = script[q]
      BY <1>1, <1>11, IdleFields
    <2>2. UnderWay(q) /\ (Claims(q)' <=> Claims(q))
      BY <1>11, <2>1 DEF SeedInv, Claims
    <2>3. \A x \in rows["users"] : x \in rows'["users"]
      BY <1>5 DEF Tables
    <2> QED
      BY <1>1, <2>1, <2>2, <2>3 DEF UnderWay
  <1> QED
    BY <1>8, <1>9, <1>10, <1>11 DEF SeedInv

\* The application changes rows of its own.
LEMMA ApplicationStep ==
  ASSUME SeedInv, UNCHANGED <<origin, objects, starts, script>>, DOMAIN rows' = Tables,
         \A t \in Tables : \A x :
           \/ x \in rows'[t] <=> x \in rows[t]
           \/ x.run = 0 /\ t \in {"users", "profiles"} /\ x.row \in Outside
  PROVE  SeedInv'
  <1>1. ASSUME NEW r, r # 0, NEW t \in Tables
        PROVE  Part(r, t)' = Part(r, t)
    BY <1>1 DEF Part
  <1>2. \A r : r # 0 => (HasCommitted(r)' <=> HasCommitted(r))
    BY <1>1 DEF HasCommitted
  <1>3. Settled'
    <2>1. \A t \in Tables : \A x \in rows'[t] :
            x.run = 0 => t \in {"users", "profiles"} /\ x.row \in Outside
      BY DEF SeedInv, Settled
    <2>2. ASSUME NEW r, HasCommitted(r)', r # 0, NEW t \in Tables
          PROVE  Right(Part(r, t)', r, t, objects')
      BY <1>1, <1>2, <2>2 DEF SeedInv, Settled
    <2>3. \A r, q : HasCommitted(r)' /\ HasCommitted(q)' /\ r # 0 /\ q # 0 => r = q
      BY <1>2 DEF SeedInv, Settled
    <2>4. \A r : HasCommitted(r)' /\ r # 0 => origin' = "models"
      BY <1>2 DEF SeedInv, Settled
    <2> QED
      BY <2>1, <2>2, <2>3, <2>4 DEF Settled
  <1>4. OneSeeds'
    <2>1. \A q \in Procs : Claims(q)' <=> Claims(q)
      BY DEF Claims
    <2> QED
      BY <1>2, <2>1 DEF SeedInv, OneSeeds
  <1>5. SeedTyped'
    BY DEF SeedInv, SeedTyped
  <1>6. ASSUME NEW q \in Procs, script[q].pc # "idle"
        PROVE  UnderWay(q)'
    <2>1. UnderWay(q) /\ (Claims(q)' <=> Claims(q))
      BY <1>6 DEF SeedInv, Claims
    <2>2. (\E x \in rows["users"] : x.run # 0) => \E x \in rows'["users"] : x.run # 0
      BY DEF Tables
    <2> QED
      BY <2>1, <2>2 DEF UnderWay
  <1> QED
    BY <1>3, <1>4, <1>5, <1>6 DEF SeedInv

\* A student registers with an address that nobody has.
LEMMA RegisterKeeps ==
  ASSUME SeedInv, NEW e \in Outside, RegisterStudent(e)
  PROVE  SeedInv'
  <1> DEFINE g == [users |-> Mark(0, {e}), profiles |-> Mark(0, {e})]
             y == [run |-> 0, row |-> e]
  <1>1. rows' = Plus(rows, g) /\ UNCHANGED <<origin, objects, starts, script>>
    BY DEF RegisterStudent
  <1>2. DOMAIN g = {"users", "profiles"} /\ g["users"] = {y} /\ g["profiles"] = {y}
        /\ y.run = 0 /\ y.row = e
    BY DEF Mark
  <1> HIDE DEF g, y
  <1>3. DOMAIN rows' = Tables /\ \A t \in Tables :
          IF t \in {"users", "profiles"} THEN rows'[t] = rows[t] \cup {y} ELSE rows'[t] = rows[t]
    BY <1>1, <1>2, PlusRows
  <1>4. \A t \in Tables : \A x :
          \/ x \in rows'[t] <=> x \in rows[t]
          \/ x.run = 0 /\ t \in {"users", "profiles"} /\ x.row \in Outside
    BY <1>2, <1>3
  <1> QED
    BY <1>1, <1>3, <1>4, ApplicationStep

\* A student who registered is deleted, and the profile with the account.
LEMMA DeleteKeeps ==
  ASSUME SeedInv, NEW e \in Outside, Delete(e)
  PROVE  SeedInv'
  <1> DEFINE y == [run |-> 0, row |-> e]
  <1>1. /\ DOMAIN rows = Tables /\ UNCHANGED <<origin, objects, starts, script>>
        /\ rows' = [rows EXCEPT !["users"] = @ \ Mark(0, {e}), !["profiles"] = @ \ Mark(0, {e})]
    BY DEF SeedInv, SeedTyped, Delete
  <1>2. Mark(0, {e}) = {y} /\ y.run = 0 /\ y.row = e
    BY DEF Mark
  <1> HIDE DEF y
  <1>3. DOMAIN rows' = Tables /\ \A t \in Tables :
          IF t \in {"users", "profiles"} THEN rows'[t] = rows[t] \ {y} ELSE rows'[t] = rows[t]
    BY <1>1, <1>2 DEF Tables
  <1>4. \A t \in Tables : \A x :
          \/ x \in rows'[t] <=> x \in rows[t]
          \/ x.run = 0 /\ t \in {"users", "profiles"} /\ x.row \in Outside
    BY <1>2, <1>3
  <1> QED
    BY <1>1, <1>3, <1>4, ApplicationStep

\* At first nobody seeds.
LEMMA SeedInitKeeps == SeedInit => SeedInv
  <1> SUFFICES ASSUME SeedInit
               PROVE  SeedInv
    OBVIOUS
  <1>1. /\ \A p \in Procs : script[p] = Idle
        /\ DOMAIN script = Procs /\ origin \in {"models", "migrations"}
        /\ rows = NoRows /\ starts = 0
    BY DEF SeedInit
  <1>2. Formed(Idle) /\ Idle.pc = "idle" /\ "idle" \notin Stages
    BY IdleFields DEF Formed, Stages
  <1>3. SeedTyped
    <2>1. DOMAIN rows = Tables
      BY <1>1 DEF NoRows
    <2>2. \A p \in Procs : Formed(script[p])
      BY <1>1, <1>2
    <2> QED
      BY <1>1, <2>1, <2>2 DEF SeedTyped
  <1>4. \A t \in Tables : rows[t] = {}
    BY <1>1, IdleFields
  <1>5. \A r : ~HasCommitted(r)
    BY <1>4 DEF HasCommitted, Part
  <1>6. Settled /\ OneSeeds
    BY <1>1, <1>2, <1>4, <1>5 DEF Settled, OneSeeds, Claims
  <1> QED
    BY <1>1, <1>2, <1>3, <1>6 DEF SeedInv

\* Nothing happens.
LEMMA SeedStutter ==
  ASSUME SeedInv, UNCHANGED seedVars
  PROVE  SeedInv'
  <1>1. UNCHANGED <<origin, rows, objects, starts, script>>
    BY DEF seedVars
  <1>2. DOMAIN rows' = Tables
    BY <1>1 DEF SeedInv, SeedTyped
  <1> QED
    BY <1>1, <1>2, ApplicationStep

\* The invariant is inductive.
LEMMA SeedStepKeeps == SeedInv /\ [SeedNext]_seedVars => SeedInv'
  <1> SUFFICES ASSUME SeedInv, [SeedNext]_seedVars
               PROVE  SeedInv'
    OBVIOUS
  <1>1. ASSUME NEW p \in Procs, \E force \in BOOLEAN : Start(p, force)
        PROVE  SeedInv'
    BY <1>1, StartKeeps
  <1>2. ASSUME NEW p \in Procs, \/ Find(p) \/ Create(p) \/ FailSeed(p) \/ CommitSeed(p)
        PROVE  SeedInv'
    BY <1>2, FindKeeps, CreateKeeps, SeedFailKeeps, SeedCommitKeeps
  <1>3. ASSUME NEW p \in Procs,
               \/ FlushUniversities(p) \/ FlushPrograms(p) \/ FlushRoadmaps(p)
               \/ FlushStudentRoadmaps(p) \/ FlushTasks(p) \/ FlushSlots(p)
        PROVE  SeedInv'
    BY <1>3, FlushUniversitiesKeeps, FlushProgramsKeeps, FlushRoadmapsKeeps,
       FlushStudentRoadmapsKeeps, FlushTasksKeeps, FlushSlotsKeeps
  <1>4. ASSUME NEW p \in Procs, \/ FlushAppointments(p) \/ FlushConversations(p)
                                \/ FlushNews(p) \/ Upload(p)
        PROVE  SeedInv'
    BY <1>4, FlushAppointmentsKeeps, FlushConversationsKeeps, FlushNewsKeeps, UploadKeeps
  <1>5. ASSUME NEW e \in Outside, RegisterStudent(e) \/ Delete(e)
        PROVE  SeedInv'
    BY <1>5, RegisterKeeps, DeleteKeeps
  <1>6. CASE UNCHANGED seedVars
    BY <1>6, SeedStutter
  <1> QED
    BY <1>1, <1>2, <1>3, <1>4, <1>5, <1>6 DEF SeedNext

----------------------------------------------------------------------------
(* What the rows of a run are, without the number of the run.                *)

\* Without the number of the run, marked rows are the rows.
LEMMA MarkedAre ==
  ASSUME NEW r, NEW S
  PROVE  {x.row : x \in Mark(r, S)} = S
  <1>1. \A y \in S : [run |-> r, row |-> y] \in Mark(r, S)
    BY DEF Mark
  <1>2. \A x \in Mark(r, S) : x.row \in S
    BY DEF Mark
  <1>3. ASSUME NEW y \in S
        PROVE  y \in {x.row : x \in Mark(r, S)}
    <2>1. [run |-> r, row |-> y].row = y
      OBVIOUS
    <2> QED
      BY <1>1, <2>1
  <1> QED
    BY <1>2, <1>3

\* A slot is taken exactly if one appointment names it.
LEMMA SlotsSound ==
  ASSUME NEW r, NEW S, NEW A,
         S = {x.row : x \in Slots(r)}, A = {x.row : x \in Appointments(r)}
  PROVE  SlotsAgree(S, A)
  <1> SUFFICES ASSUME NEW s \in S
               PROVE  Cardinality({a \in A : a.slot = s.nr}) = (IF s.open THEN 0 ELSE 1)
    BY DEF SlotsAgree
  <1> DEFINE SS == {[nr |-> i, start |-> 24 * (i \div 3 + 1) + 2 * (i % 3),
                     open |-> i >= NStudents] : i \in 0 .. NStudents + NSpare - 1}
             ap(i) == [slot |-> i, student |-> i,
                       status |-> <<"confirmed", "pending", "completed">>[(i % 3) + 1]]
             AA == {ap(i) : i \in Students}
  <1>1. Slots(r) = Mark(r, SS) /\ Appointments(r) = Mark(r, AA)
    BY DEF Slots, Appointments
  <1>2. S = SS /\ A = AA
    <2> HIDE DEF SS, AA
    <2> QED
      BY <1>1, MarkedAre
  <1>3. PICK i \in 0 .. NStudents + NSpare - 1 : s.nr = i /\ s.open = (i >= NStudents)
    <2>1. PICK i \in 0 .. NStudents + NSpare - 1 :
            s = [nr |-> i, start |-> 24 * (i \div 3 + 1) + 2 * (i % 3), open |-> i >= NStudents]
      BY <1>2
    <2> QED
      BY <2>1, Zenon
  <1>4. CASE i \in Students
    <2>1. ~s.open
      <3>1. ~(i >= NStudents)
        BY <1>4, NStudentsAssumption DEF Students
      <3> QED
        BY <1>3, <3>1, Zenon
    <2>2. \A a \in A : a.slot = s.nr <=> a = ap(i)
      <3>1. ap(i) \in A /\ \A k \in Students : ap(k).slot = k
        BY <1>2, <1>4
      <3>2. \A a \in A : a = ap(a.slot)
        BY <1>2
      <3> HIDE DEF ap
      <3> QED
        BY <1>2, <1>3, <1>4, <3>1, <3>2
    <2>3. ap(i) \in A
      BY <1>2, <1>4
    <2> HIDE DEF ap
    <2>4. {a \in A : a.slot = s.nr} = {ap(i)}
      BY <2>2, <2>3
    <2> QED
      BY <2>1, <2>4, FS_Singleton
  <1>5. CASE i \notin Students
    <2>1. s.open
      <3>1. i >= NStudents
        BY <1>5, NStudentsAssumption, PoolsAssumption DEF Students
      <3> QED
        BY <1>3, <3>1, Zenon
    <2>2. \A a \in A : a.slot \in Students
      BY <1>2
    <2>3. {a \in A : a.slot = s.nr} = {}
      BY <1>3, <1>5, <2>2
    <2> QED
      BY <2>1, <2>3, FS_EmptySet
  <1> QED
    BY <1>4, <1>5

\* A task agrees with its days, and its history with its status.
LEMMA TaskDays ==
  ASSUME NEW i \in Students, NEW t \in TasksOf(i)
  PROVE  /\ t.status = "done" <=> t.completed # None
         /\ t.status = "overdue" => t.deadline < 0
         /\ t.status \in {"todo", "in_progress"} => t.deadline > 0
         /\ t.status \in {"todo", "in_progress", "done", "overdue"}
         /\ t.student = i /\ t.nr \in 1 .. 4
  <1> DEFINE task(k, by, status, days) ==
               [student |-> i, nr |-> k, by |-> by, status |-> status, deadline |-> days,
                completed |-> IF status = "done" THEN <<-(1 + (i % 4))>> ELSE None,
                roadmap |-> IF k = 1 THEN <<i % NRoadmaps>> ELSE None]
             fine(u) == /\ u.status = "done" <=> u.completed # None
                        /\ u.status = "overdue" => u.deadline < 0
                        /\ u.status \in {"todo", "in_progress"} => u.deadline > 0
                        /\ u.status \in {"todo", "in_progress", "done", "overdue"}
                        /\ u.student = i /\ u.nr \in 1 .. 4
  <1>1. /\ i \in Nat /\ i % 14 \in 0 .. 13 /\ i % 7 \in 0 .. 6 /\ i % 5 \in 0 .. 4
        /\ i % 6 \in 0 .. 5
    BY NStudentsAssumption DEF Students
  <1>2. \/ t = task(1, Adviser, "in_progress", 10 + (i % 14))
        \/ t = task(2, Student(i), "todo", 5 + (i % 7))
        \/ t = task(3, Adviser, IF i % 2 = 0 THEN "done" ELSE "overdue", -(2 + (i % 5)))
        \/ t = task(4, Adviser, "todo", 3 + (i % 6))
    BY DEF TasksOf
  <1>3. ASSUME NEW k \in 1 .. 4, NEW by, NEW status \in {"todo", "in_progress", "done", "overdue"},
               NEW days \in Int, status = "overdue" => days < 0,
               status \in {"todo", "in_progress"} => days > 0, t = task(k, by, status, days)
        PROVE  fine(t)
    <2>1. t.status = status /\ t.deadline = days /\ t.student = i /\ t.nr = k
          /\ t.completed = IF status = "done" THEN <<-(1 + (i % 4))>> ELSE None
      BY <1>3
    <2>2. <<-(1 + (i % 4))>> # None
      BY DEF None
    <2> QED
      BY <1>3, <2>1, <2>2
  <1>4. fine(t)
    <2>1. CASE t = task(1, Adviser, "in_progress", 10 + (i % 14))
      BY <1>1, <1>3, <2>1
    <2>2. CASE t = task(2, Student(i), "todo", 5 + (i % 7))
      BY <1>1, <1>3, <2>2
    <2>3. CASE t = task(3, Adviser, IF i % 2 = 0 THEN "done" ELSE "overdue", -(2 + (i % 5)))
      BY <1>1, <1>3, <2>3
    <2>4. CASE t = task(4, Adviser, "todo", 3 + (i % 6))
      BY <1>1, <1>3, <2>4
    <2> QED
      BY <1>2, <2>1, <2>2, <2>3, <2>4
  <1> QED
    BY <1>4

LEMMA HistorySound ==
  ASSUME NEW r, NEW T, NEW H,
         T = {x.row : x \in Tasks(r)}, H = {x.row : x \in History(r)}
  PROVE  TasksAgree(T, H)
  <1> SUFFICES ASSUME NEW t \in T
               PROVE  LET past == {h \in H : h.student = t.student /\ h.task = t.nr} IN
                      /\ t.status = "done" <=> t.completed # None
                      /\ t.status = "overdue" => t.deadline < 0
                      /\ t.status \in {"todo", "in_progress"} => t.deadline > 0
                      /\ \E h \in past : h.new = t.status
                      /\ \A h \in past : h.old # "" => \E g \in past : g.old = ""
    BY DEF TasksAgree
  <1> DEFINE U == UNION {TasksOf(i) : i \in Students}
             entry(u, old, new) == [student |-> u.student, task |-> u.nr, old |-> old, new |-> new]
             HH == {entry(u, "", u.status) : u \in U}
                   \cup {entry(u, "todo", u.status) :
                           u \in {s \in U : s.status \in {"done", "in_progress"}}}
             past == {h \in H : h.student = t.student /\ h.task = t.nr}
             first == entry(t, "", t.status)
  <1>1. Tasks(r) = Mark(r, U) /\ History(r) = Mark(r, HH)
    BY DEF Tasks, History
  <1>2. T = U /\ H = HH
    <2> HIDE DEF U, HH
    <2> QED
      BY <1>1, MarkedAre
  <1>3. PICK i \in Students : t \in TasksOf(i)
    BY <1>2
  <1>4. first \in H
    BY <1>2
  <1>5. first \in past /\ first.new = t.status /\ first.old = ""
    BY <1>4
  <1> HIDE DEF past, first, HH, U
  <1>6. /\ t.status = "done" <=> t.completed # None
        /\ t.status = "overdue" => t.deadline < 0
        /\ t.status \in {"todo", "in_progress"} => t.deadline > 0
    BY <1>3, TaskDays
  <1>7. /\ \E h \in past : h.new = t.status
        /\ \A h \in past : h.old # "" => \E g \in past : g.old = ""
    BY <1>5
  <1> QED
    BY <1>6, <1>7 DEF past

\* The time of a conversation is that of its last message.
LEMMA ConversationsSound ==
  ASSUME NEW r, NEW stored, NEW C, NEW M,
         C = {x.row : x \in Conversations(r)}, M = {x.row : x \in Messages(r, stored)}
  PROVE  ConversationsAgree(C, M)
  <1> SUFFICES ASSUME NEW c \in C
               PROVE  LET times == {m.at : m \in {n \in M : n.student = c.student}}
                      IN c.last \in times /\ \A at \in times : at <= c.last
    BY DEF ConversationsAgree
  <1> DEFINE CC == {[student |-> i, last |-> -(i + 1)] : i \in Students}
             MM == UNION {MessagesOf(i, stored) : i \in Students}
             mine == {n \in M : n.student = c.student}
             times == {m.at : m \in mine}
  <1>1. Conversations(r) = Mark(r, CC) /\ Messages(r, stored) = Mark(r, MM)
    BY DEF Conversations, Messages
  <1>2. C = CC /\ M = MM
    <2> HIDE DEF CC, MM
    <2> QED
      BY <1>1, MarkedAre
  <1>3. PICK i \in Students : c.student = i /\ c.last = -(i + 1)
    BY <1>2
  <1>4. i \in Nat
    BY NStudentsAssumption DEF Students
  <1>5. ASSUME NEW k \in Students, NEW m \in MessagesOf(k, stored)
        PROVE  m.student = k /\ m.at \in {-(120 + k), -(60 + k), -(k + 1)}
    BY DEF MessagesOf
  <1>6. \A m \in mine : m.at \in {-(120 + i), -(60 + i), -(i + 1)}
    BY <1>2, <1>3, <1>5
  <1>7. \E m \in MessagesOf(i, stored) : m.at = -(i + 1) /\ m.student = i
    BY DEF MessagesOf
  <1>8. PICK m \in mine : m.at = -(i + 1)
    BY <1>2, <1>3, <1>7
  <1> HIDE DEF mine
  <1>9. c.last \in times
    BY <1>3, <1>8
  <1>10. \A at \in times : at <= c.last
    BY <1>3, <1>4, <1>6
  <1> QED
    BY <1>9, <1>10 DEF mine

\* An image that a message names is one that was stored.
LEMMA ImagesSound ==
  ASSUME NEW r, NEW stored, NEW m \in {x.row : x \in Messages(r, stored)}, m.image
  PROVE  m.student \in stored
  <1> DEFINE MM == UNION {MessagesOf(i, stored) : i \in Students}
  <1>1. Messages(r, stored) = Mark(r, MM)
    BY DEF Messages
  <1>2. m \in MM
    <2> HIDE DEF MM
    <2> QED
      BY <1>1, MarkedAre
  <1>3. PICK i \in Students : m \in MessagesOf(i, stored)
    BY <1>2
  <1> DEFINE message(k, by, at, read) ==
               [student |-> i, nr |-> k, by |-> by, at |-> at, read |-> read,
                image |-> k = 2 /\ i \in stored]
  <1>4. \/ m = message(1, Student(i), -(120 + i), TRUE)
        \/ m = message(2, Adviser, -(60 + i), i % 2 = 0)
        \/ m = message(3, Student(i), -(i + 1), FALSE)
    BY <1>3 DEF MessagesOf
  <1>5. m.student = i /\ m.image = (m.nr = 2 /\ i \in stored)
    <2>1. CASE m = message(1, Student(i), -(120 + i), TRUE)
      BY <2>1, Zenon
    <2>2. CASE m = message(2, Adviser, -(60 + i), i % 2 = 0)
      BY <2>2, Zenon
    <2>3. CASE m = message(3, Student(i), -(i + 1), FALSE)
      BY <2>3, Zenon
    <2> QED
      BY <1>4, <2>1, <2>2, <2>3
  <1> QED
    BY <1>5

\* What an entry of the calendar names is there.
LEMMA CalendarSound ==
  ASSUME NEW r, NEW E, NEW A, NEW T, E \subseteq {x.row : x \in Events(r)},
         A = {x.row : x \in Appointments(r)}, T = {x.row : x \in Tasks(r)}
  PROVE  CalendarAgrees(E, A, T, 1 .. NNews)
  <1> SUFFICES ASSUME NEW e \in {x.row : x \in Events(r)}
               PROVE  \/ e.type = "appointment" /\ \E a \in A :
                           a.student = e.student /\ a.slot = e.source
                      \/ e.type = "task" /\ \E t \in T : t.student = e.student /\ t.nr = e.source
                      \/ e.type = "news" /\ e.source \in 1 .. NNews
    BY DEF CalendarAgrees
  <1> DEFINE event(i, type, nr) == [student |-> i, type |-> type, source |-> nr]
             B == {event(i, "appointment", i) : i \in Students}
             C == {event(i, "task", 1) : i \in Students}
             D == {event(i, "news", n) : i \in {j \in Students : j < 5}, n \in Promoted}
             ap(i) == [slot |-> i, student |-> i,
                       status |-> <<"confirmed", "pending", "completed">>[(i % 3) + 1]]
             AA == {ap(i) : i \in Students}
             U == UNION {TasksOf(i) : i \in Students}
  <1>1. /\ Events(r) = Mark(r, B \cup C \cup D) /\ Appointments(r) = Mark(r, AA)
        /\ Tasks(r) = Mark(r, U)
    BY DEF Events, Appointments, Tasks
  <1>2. e \in B \cup C \cup D /\ A = AA /\ T = U
    <2> HIDE DEF B, C, D, AA, U
    <2> QED
      BY <1>1, MarkedAre
  <1>3. CASE e \in B
    <2>1. PICK i \in Students : e = event(i, "appointment", i)
      BY <1>3
    <2>2. ap(i) \in A /\ ap(i).student = i /\ ap(i).slot = i
      BY <1>2
    <2> QED
      BY <2>1, <2>2
  <1>4. CASE e \in C
    <2>1. PICK i \in Students : e = event(i, "task", 1)
      BY <1>4
    <2>2. \E t \in TasksOf(i) : t.student = i /\ t.nr = 1
      BY DEF TasksOf
    <2>3. \E t \in T : t.student = i /\ t.nr = 1
      BY <1>2, <2>2
    <2> QED
      BY <2>1, <2>3
  <1>5. CASE e \in D
    <2>1. PICK i \in Students, n \in Promoted : e = event(i, "news", n)
      BY <1>5
    <2> QED
      BY <2>1, PoolsAssumption
  <1> QED
    BY <1>2, <1>3, <1>4, <1>5

\* The invariant holds always.
LEMMA SeedSafe == SeedSpec => []SeedInv
  <1>1. SeedInit => SeedInv
    BY SeedInitKeeps
  <1>2. SeedInv /\ [SeedNext]_seedVars => SeedInv'
    BY SeedStepKeeps
  <1> QED
    BY <1>1, <1>2, PTL DEF SeedSpec

\* What is committed has all tables right.
LEMMA CommittedRight ==
  ASSUME SeedInv, NEW r, r # 0, NEW t \in Tables, NEW x \in rows[t], x.run = r
  PROVE  \A u \in Tables : Right(Part(r, u), r, u, objects) /\ Part(r, u) # {}
  <1>1. HasCommitted(r)
    BY DEF HasCommitted, Part
  <1> QED
    BY <1>1 DEF SeedInv, Settled, Right

\* A run of the seed script leaves rows in all of its tables or in none, whatever
\* fails and whoever else runs (one commit, seed_data.py:810): for any number of
\* processes, runs and students, and any uploads that fail.
THEOREM SeedsAllOrNothing == SeedSpec => []AllOrNothing
  <1>1. SeedInv => AllOrNothing
    <2> SUFFICES ASSUME SeedInv, NEW r \in 1 .. MaxRuns
                 PROVE  {t \in Tables : \E x \in rows[t] : x.run = r} \in {{}, Tables}
      BY DEF AllOrNothing
    <2>1. r # 0
      BY RunsAssumption
    <2>2. ASSUME NEW t \in Tables, NEW x \in rows[t], x.run = r
          PROVE  \A u \in Tables : \E y \in rows[u] : y.run = r
      <3>1. \A u \in Tables : Part(r, u) # {}
        BY <2>1, <2>2, CommittedRight
      <3> QED
        BY <3>1 DEF Part
    <2> QED
      BY <2>2
  <1> QED
    BY <1>1, SeedSafe, PTL

\* The script adds its students once and never again, forced or not: a second run
\* meets UNIQUE(user_id) (profile/models.py:19), and on the migrated schema the
\* first one already lacks columns (seed_data.py:298-299 says otherwise).
THEOREM SeedsOnce == SeedSpec => []SeededOnce
  <1>1. SeedInv => SeededOnce
    <2> SUFFICES ASSUME SeedInv
                 PROVE  SeededOnce
      OBVIOUS
    <2>1. "tokens" \in Tables /\ "tokens" \notin {"users", "profiles"}
      BY DEF Tables
    <2>2. ASSUME NEW x \in rows["tokens"]
          PROVE  x.run # 0 /\ HasCommitted(x.run) /\ origin = "models"
      <3>1. x.run # 0
        BY <2>1 DEF SeedInv, Settled
      <3>2. HasCommitted(x.run)
        BY <2>1 DEF HasCommitted, Part
      <3> QED
        BY <3>1, <3>2 DEF SeedInv, Settled
    <2>3. \A x, y \in rows["tokens"] : x.run = y.run
      BY <2>2 DEF SeedInv, Settled
    <2>4. Cardinality({x.run : x \in rows["tokens"]}) <= 1
      <3> DEFINE R == {x.run : x \in rows["tokens"]}
      <3> SUFFICES Cardinality(R) <= 1
        OBVIOUS
      <3>1. CASE R = {}
        BY <3>1, FS_EmptySet
      <3>2. CASE R # {}
        <4>1. PICK r : R = {r}
          BY <2>3, <3>2
        <4>2. Cardinality({r}) = 1
          BY FS_Singleton
        <4> QED
          BY <4>1, <4>2
      <3> QED
        BY <3>1, <3>2
    <2> QED
      BY <2>2, <2>4 DEF SeededOnce
  <1> QED
    BY <1>1, SeedSafe, PTL

\* What is seeded obeys the rules that the application keeps: slots and their
\* appointments, tasks with their days and history, conversations and their last
\* message, images and the store, entries of the calendar and what they name
\* (seed_data.py 480-800), for any number of students and any length of the pools.
THEOREM SeedsSound == SeedSpec => []SeededIsSound
  <1>1. SeedInv => SeededIsSound
    <2> SUFFICES ASSUME SeedInv, NEW z \in rows["tokens"], NEW r, r = z.run
                 PROVE  /\ SlotsAgree(Left(r, "slots"), Left(r, "appointments"))
                        /\ TasksAgree(Left(r, "tasks"), Left(r, "history"))
                        /\ ConversationsAgree(Left(r, "conversations"), Left(r, "messages"))
                        /\ \A m \in Left(r, "messages") :
                             m.image => [run |-> r, row |-> <<m.student>>] \in objects
                        /\ CalendarAgrees(Left(r, "events"), Left(r, "appointments"),
                                          Left(r, "tasks"), Left(r, "news"))
      BY DEF SeededIsSound
    <2>1. "tokens" \in Tables /\ "tokens" \notin {"users", "profiles"}
      BY DEF Tables
    <2>2. r # 0
      BY <2>1 DEF SeedInv, Settled
    <2>3. \A t \in Tables : Right(Part(r, t), r, t, objects)
      BY <2>1, <2>2, CommittedRight
    <2>4. \A t : Left(r, t) = {x.row : x \in Part(r, t)}
      BY DEF Part, Left
    <2>5. /\ Part(r, "tasks") = Tasks(r) /\ Part(r, "history") = History(r)
          /\ Part(r, "slots") = Slots(r) /\ Part(r, "appointments") = Appointments(r)
          /\ Part(r, "conversations") = Conversations(r)
          /\ Part(r, "events") \subseteq Events(r) /\ Part(r, "news") = Mark(r, 1 .. NNews)
      BY <2>3 DEF Right, Tables
    <2>6. PICK stored \in SUBSET Images :
            /\ Part(r, "messages") = Messages(r, stored)
            /\ Mark(r, {<<i>> : i \in stored}) \subseteq objects
      BY <2>3 DEF Right, Tables
    <2>7. /\ Left(r, "tasks") = {x.row : x \in Tasks(r)}
          /\ Left(r, "history") = {x.row : x \in History(r)}
          /\ Left(r, "slots") = {x.row : x \in Slots(r)}
          /\ Left(r, "appointments") = {x.row : x \in Appointments(r)}
          /\ Left(r, "conversations") = {x.row : x \in Conversations(r)}
          /\ Left(r, "messages") = {x.row : x \in Messages(r, stored)}
          /\ Left(r, "events") \subseteq {x.row : x \in Events(r)}
      BY <2>4, <2>5, <2>6
    <2>8. Left(r, "news") = 1 .. NNews
      <3>1. Left(r, "news") = {x.row : x \in Mark(r, 1 .. NNews)}
        BY <2>4, <2>5
      <3> QED
        BY <3>1, MarkedAre
    <2>9. SlotsAgree(Left(r, "slots"), Left(r, "appointments"))
      BY <2>7, SlotsSound
    <2>10. TasksAgree(Left(r, "tasks"), Left(r, "history"))
      BY <2>7, HistorySound
    <2>11. ConversationsAgree(Left(r, "conversations"), Left(r, "messages"))
      BY <2>7, ConversationsSound
    <2>12. ASSUME NEW m \in Left(r, "messages"), m.image
           PROVE  [run |-> r, row |-> <<m.student>>] \in objects
      <3>1. m.student \in stored
        BY <2>7, <2>12, ImagesSound
      <3> QED
        BY <2>6, <3>1 DEF Mark
    <2>13. CalendarAgrees(Left(r, "events"), Left(r, "appointments"), Left(r, "tasks"),
                          Left(r, "news"))
      BY <2>7, <2>8, CalendarSound
    <2> QED
      BY <2>9, <2>10, <2>11, <2>12, <2>13
  <1> QED
    BY <1>1, SeedSafe, PTL
=============================================================================
