------------------------------- MODULE Chain -------------------------------
(***************************************************************************)
(* What the chain of migrations comes to, statement by statement.  The      *)
(* lists of Migrations are data: TLC computes the facts below from them,    *)
(* each in full, and the proofs about the deployment start from there.      *)
(***************************************************************************)
EXTENDS Migrations, Models

\* The schema after the first k statements of the migration that leads up from
\* revision n, and of the one that leads down from it.
Up(n, k) == Run(SchemaAt(n), SubSeq(Upgrades[n + 1], 1, k))
Down(n, k) == Run(SchemaAt(n), SubSeq(Downgrades[n], 1, k))

\* Statement o takes schema d to schema e.
Leads(d, o, e) == Fits(d, o) /\ e = After(d, o)

\* A schema has no rows, and stores subgroups from 0012 on.
ASSUME SchemasAssumption ==
  \A n \in 0 .. HeadRevision :
    LET s == SchemaAt(n) IN
    s = [columns |-> s.columns, refs |-> s.refs, indexes |-> s.indexes,
         width |-> IF n < Subgroups THEN 1 ELSE 2,
         roles |-> {}, groups |-> {}, ok |-> TRUE]

\* Every migration leads from the schema of one revision to that of the next.
ASSUME UpgradesAssumption ==
  \A n \in 0 .. HeadRevision - 1 :
    LET ops == Upgrades[n + 1] IN
    /\ Up(n, 0) = SchemaAt(n) /\ Up(n, Len(ops)) = SchemaAt(n + 1)
    /\ \A k \in 1 .. Len(ops) : Leads(Up(n, k - 1), ops[k], Up(n, k))

\* And back, but that the first cannot be undone: its last statement drops users.
ASSUME DowngradesAssumption ==
  \A n \in 1 .. HeadRevision :
    LET ops == Downgrades[n] IN
    /\ Down(n, 0) = SchemaAt(n)
    /\ n # 1 => Down(n, Len(ops)) = SchemaAt(n - 1)
    /\ \A k \in 1 .. Len(ops) :
         IF n = 1 /\ k = Len(ops)
         THEN ops[k] = DropTable("users") /\ ~Fits(Down(n, k - 1), ops[k])
         ELSE Leads(Down(n, k - 1), ops[k], Down(n, k))

\* The schema the chain ends in, against the models.
ASSUME DriftAssumption == Drifts(SchemaAt(HeadRevision))
=============================================================================
