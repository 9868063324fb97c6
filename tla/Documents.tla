----------------------------- MODULE Documents -----------------------------
(***************************************************************************)
(* The documents of students (src/app/modules/documents): a row in         *)
(* PostgreSQL that names an object in MinIO, which no transaction spans.   *)
(*                                                                         *)
(* An upload replaces the document of its type.  It removes the old object *)
(* first, then the old row, stores the new object under a fresh key and    *)
(* inserts the row that names it; only the rows are undone by a rollback.  *)
(* The DELETE of a row locks it to the end of the transaction, and both    *)
(* another DELETE of it and an INSERT for the same student and type, which *)
(* the unique index compares with it, wait until then.                     *)
(***************************************************************************)
EXTENDS FiniteSets

CONSTANTS
  Procs,     \* requests being served at once
  Students,
  Types,     \* values of doc_type
  Keys,      \* object keys: a bound on the uploads that store something
  NoDoc, NoKey, NoProc

Docs == Students \X Types

ASSUME DocumentNullAssumption ==
  NoDoc \notin Docs /\ NoKey \notin Keys /\ NoProc \notin Procs

VARIABLES
  students,  \* accounts that exist
  row,       \* the key named by each document's row, NoKey without a row
  objects,   \* keys under which MinIO holds an object
  made,      \* history: keys ever stored
  dropped,   \* history: keys whose object was removed by a request that failed later
  lock,      \* the request that has deleted the document's row, uncommitted
  txn        \* the local variables of the request each process serves

vars == <<students, row, objects, made, dropped, lock, txn>>

\* old is the key in the row as loaded, new the key stored for this upload.
Frame == [pc   : {"idle", "drop", "erase", "put", "insert", "commit"},
          kind : {"upload", "delete"},
          doc  : Docs \cup {NoDoc},
          old  : Keys \cup {NoKey},
          new  : Keys \cup {NoKey}]

Idle == [pc |-> "idle", kind |-> "upload", doc |-> NoDoc, old |-> NoKey, new |-> NoKey]

TypeOK ==
  /\ students \subseteq Students
  /\ row \in [Docs -> Keys \cup {NoKey}]
  /\ objects \subseteq Keys /\ made \subseteq Keys /\ dropped \subseteq Keys
  /\ lock \in [Docs -> Procs \cup {NoProc}]
  /\ txn \in [Procs -> Frame]

Init ==
  /\ students = Students
  /\ row = [d \in Docs |-> NoKey]
  /\ objects = {} /\ made = {} /\ dropped = {}
  /\ lock = [d \in Docs |-> NoProc]
  /\ txn = [p \in Procs |-> Idle]

Begin(p, frame) == txn[p] = Idle /\ txn' = [txn EXCEPT ![p] = frame]

\* The session is closed: the rows p locked are free again.
End(p) ==
  /\ txn' = [txn EXCEPT ![p] = Idle]
  /\ lock' = [d \in Docs |-> IF lock[d] = p THEN NoProc ELSE lock[d]]

\* The object of the row as loaded has been removed.
HasDropped(p) == txn[p].pc \in {"erase", "put", "insert", "commit"} /\ txn[p].old # NoKey

\* A failure (a lost connection, MinIO away, a deadlock, a killed worker): the
\* rows are as before, the objects are not.
Abort(p) ==
  /\ txn[p] # Idle
  /\ End(p)
  /\ dropped' = IF HasDropped(p) THEN dropped \cup {txn[p].old} ELSE dropped
  /\ UNCHANGED <<students, row, objects, made>>

----------------------------------------------------------------------------
(* Upload and delete.                                                      *)

\* The row is kept as loaded.  (LoadedId would keep its id for its key.)
LoadedId(d) == d
Loaded(d) == row[d]

UploadRead(p, d) ==
  /\ Begin(p, [Idle EXCEPT !.pc = IF row[d] = NoKey THEN "put" ELSE "drop",
                           !.doc = d, !.old = Loaded(d)])
  /\ UNCHANGED <<students, row, objects, made, dropped, lock>>

DeleteRead(p, d) ==
  /\ row[d] # NoKey
  /\ Begin(p, [Idle EXCEPT !.pc = "drop", !.kind = "delete", !.doc = d, !.old = Loaded(d)])
  /\ UNCHANGED <<students, row, objects, made, dropped, lock>>

\* delete_file swallows an S3Error, which may mean that the object stays.
DropObject(p) ==
  /\ txn[p].pc = "drop"
  /\ objects' \in {objects, objects \ {txn[p].old}}
  /\ txn' = [txn EXCEPT ![p].pc = "erase"]
  /\ UNCHANGED <<students, row, made, dropped, lock>>

\* The row is deleted and flushed.  If it is gone meanwhile no row matches and
\* the session only warns.
EraseRow(p) ==
  LET d == txn[p].doc IN
  /\ txn[p].pc = "erase"
  /\ \/ /\ row[d] = txn[p].old /\ lock[d] = NoProc
        /\ lock' = [lock EXCEPT ![d] = p]
     \/ /\ row[d] # txn[p].old
        /\ UNCHANGED lock
  /\ txn' = [txn EXCEPT ![p].pc = IF txn[p].kind = "upload" THEN "put" ELSE "commit"]
  /\ UNCHANGED <<students, row, objects, made, dropped>>

\* The key holds a fresh uuid4.  (SameKey would leave the uuid out.)
SameKey(k, d) == k \notin made \/ (row[d] # NoKey /\ k = row[d])
Fresh(k, d) == k \notin made

PutObject(p) ==
  /\ txn[p].pc = "put"
  /\ \E k \in Keys :
       /\ Fresh(k, txn[p].doc)
       /\ objects' = objects \cup {k}
       /\ made' = made \cup {k}
       /\ txn' = [txn EXCEPT ![p].pc = "insert", ![p].new = k]
  /\ UNCHANGED <<students, row, dropped, lock>>

\* No row of the same student and type, but one that this request has deleted.
\* (Overwrites would be a table without the unique index.)
Overwrites(p, d) == TRUE
Vacant(p, d) == lock[d] = p \/ (lock[d] = NoProc /\ row[d] = NoKey)

InsertCommit(p) ==
  LET d == txn[p].doc IN
  /\ txn[p].pc = "insert"
  /\ d[1] \in students
  /\ Vacant(p, d)
  /\ row' = [row EXCEPT ![d] = txn[p].new]
  /\ End(p)
  /\ UNCHANGED <<students, objects, made, dropped>>

\* The unique index, or the foreign key, refuses the row.
InsertConflict(p) ==
  LET d == txn[p].doc IN
  /\ txn[p].pc = "insert"
  /\ \/ d[1] \notin students
     \/ lock[d] = NoProc /\ row[d] # NoKey
  /\ End(p)
  /\ UNCHANGED <<students, row, objects, made, dropped>>

DeleteCommit(p) ==
  LET d == txn[p].doc IN
  /\ txn[p].pc = "commit"
  /\ row' = IF lock[d] = p THEN [row EXCEPT ![d] = NoKey] ELSE row
  /\ End(p)
  /\ UNCHANGED <<students, objects, made, dropped>>

\* The rows go with the account; nothing removes the objects.
DeleteStudent(s) ==
  /\ s \in students
  /\ \A d \in Docs : d[1] = s => lock[d] = NoProc
  /\ students' = students \ {s}
  /\ row' = [d \in Docs |-> IF d[1] = s THEN NoKey ELSE row[d]]
  /\ UNCHANGED <<objects, made, dropped, lock, txn>>

----------------------------------------------------------------------------
Request(p) == \E d \in Docs : UploadRead(p, d) \/ DeleteRead(p, d)

Proceed(p) ==
  \/ DropObject(p) \/ EraseRow(p) \/ PutObject(p)
  \/ InsertCommit(p) \/ InsertConflict(p) \/ DeleteCommit(p)

Next ==
  \/ \E p \in Procs : Request(p) \/ Proceed(p) \/ Abort(p)
  \/ \E s \in Students : DeleteStudent(s)

Spec == Init /\ [][Next]_vars
----------------------------------------------------------------------------
\* A document whose object is gone is being replaced or deleted by a request
\* that loaded it, or such a request failed after it had removed the object.
\* Requests that all succeed, and those that lose the race for a document,
\* leave every row with its object, however they interleave
\* (service.py 51-71, 87-95).
MissingIsAccounted ==
  \A d \in Docs : row[d] \in Keys \ objects =>
    row[d] \in dropped \/ \E p \in Procs : HasDropped(p) /\ txn[p].old = row[d]

\* No update is lost: a row is replaced, or deleted while its student stays,
\* only by a request that had loaded that very row.  Of two uploads that meet
\* one is refused, and no document is removed by a request that had another one
\* in mind (service.py 51-55, 87-95, models.py 28).
ChangesWhatItLoaded ==
  [][\A d \in Docs : row[d] # NoKey /\ row'[d] # row[d] /\ d[1] \in students' =>
       \E p \in Procs : txn[p].doc = d /\ txn[p].old = row[d] /\ txn[p].new = row'[d]]_vars
=============================================================================
