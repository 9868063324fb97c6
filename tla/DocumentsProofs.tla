-------------------------- MODULE DocumentsProofs --------------------------
(* Theorems about Documents, for any number of requests, students, types    *)
(* and object keys.                                                         *)
EXTENDS Documents, TLAPS

----------------------------------------------------------------------------
(* The inductive invariant: keys are never used twice, and the row a        *)
(* request has erased stays its own until it ends.                          *)

Serving(p) == txn[p].pc # "idle"
Erased(p) == txn[p].pc \in {"put", "insert", "commit"} /\ txn[p].old # NoKey

Coherent(p) ==
  /\ Serving(p) => txn[p].doc \in Docs
  /\ txn[p].pc = "idle" => txn[p].old = NoKey
  /\ txn[p].pc \in {"drop", "erase"} => txn[p].old # NoKey
  /\ txn[p].old # NoKey => txn[p].old \in made
  /\ txn[p].pc # "insert" => txn[p].new = NoKey
  /\ txn[p].pc = "insert" => txn[p].new \in objects \cap made

\* The row that a request erased is its own until it ends, or was gone.
Holding(p) == Erased(p) => lock[txn[p].doc] = p \/ row[txn[p].doc] # txn[p].old

\* What a request loaded can be the row of no other document.
LoadedFrom(p) == \A d \in Docs : row[d] # NoKey /\ row[d] = txn[p].old => d = txn[p].doc

\* What a request stored is nobody's yet.
Unnamed(p) ==
  txn[p].pc = "insert" =>
    /\ \A d \in Docs : row[d] # txn[p].new
    /\ \A q \in Procs : txn[q].old # txn[p].new /\ (q # p => txn[q].new # txn[p].new)

Rows(d) ==
  /\ row[d] # NoKey => row[d] \in made
  /\ d[1] \notin students => row[d] = NoKey
  /\ \A c \in Docs : row[c] = row[d] /\ row[c] # NoKey => c = d
  /\ lock[d] # NoProc =>
       /\ txn[lock[d]].doc = d /\ Erased(lock[d])
       /\ row[d] = txn[lock[d]].old

Bookkeeping == objects \subseteq made

IInv ==
  /\ TypeOK
  /\ \A p \in Procs : Coherent(p) /\ Holding(p) /\ LoadedFrom(p) /\ Unnamed(p)
  /\ \A d \in Docs : Rows(d)
  /\ Bookkeeping
  /\ MissingIsAccounted

----------------------------------------------------------------------------
\* A process that serves nothing has a well-typed frame.
LEMMA IdleType == Idle \in Frame
  BY DEF Idle, Frame

\* No documents and idle processes satisfy the invariant.
LEMMA InitIInv == Init => IInv
<1> SUFFICES ASSUME Init PROVE IInv
  OBVIOUS
<1>1. TypeOK
  BY IdleType DEF Init, TypeOK
<1>2. \A p \in Procs : Coherent(p) /\ Holding(p) /\ LoadedFrom(p) /\ Unnamed(p)
  BY DEF Init, Idle, Coherent, Holding, LoadedFrom, Unnamed, Serving, Erased
<1>3. \A d \in Docs : Rows(d)
  BY DEF Init, Rows, Docs
<1>4. Bookkeeping /\ MissingIsAccounted
  BY DocumentNullAssumption DEF Init, Bookkeeping, MissingIsAccounted
<1> QED
  BY <1>1, <1>2, <1>3, <1>4 DEF IInv

\* A request begins with the row as loaded, holds no lock and has stored nothing.
LEMMA RequestStep ==
  ASSUME IInv, NEW p \in Procs, Request(p)
  PROVE  IInv'
<1>1. PICK d \in Docs, frame \in Frame :
        /\ txn[p] = Idle /\ txn' = [txn EXCEPT ![p] = frame]
        /\ frame.doc = d /\ frame.old = row[d] /\ frame.new = NoKey
        /\ frame.pc \in {"put", "drop"} /\ (frame.pc = "put" <=> row[d] = NoKey)
        /\ UNCHANGED <<students, row, objects, made, dropped, lock>>
  <2>1. PICK d \in Docs : UploadRead(p, d) \/ DeleteRead(p, d)
    BY DEF Request
  <2>2. row[d] \in Keys \cup {NoKey}
    BY DEF IInv, TypeOK
  <2>3. CASE UploadRead(p, d)
    <3> DEFINE frame == [Idle EXCEPT !.pc = IF row[d] = NoKey THEN "put" ELSE "drop",
                                     !.doc = d, !.old = row[d]]
    <3>1. frame \in Frame
      BY <2>2 DEF Idle, Frame
    <3> QED
      BY <2>3, <3>1 DEF UploadRead, Begin, Loaded, Idle
  <2>4. CASE DeleteRead(p, d)
    <3> DEFINE frame == [Idle EXCEPT !.pc = "drop", !.kind = "delete",
                                     !.doc = d, !.old = row[d]]
    <3>1. frame \in Frame
      BY <2>2 DEF Idle, Frame
    <3> QED
      BY <2>4, <3>1 DEF DeleteRead, Begin, Loaded, Idle
  <2> QED
    BY <2>1, <2>3, <2>4
<1>2. TypeOK'
  BY <1>1 DEF IInv, TypeOK
<1>3. /\ txn'[p] = frame
      /\ \A q \in Procs : q # p => txn'[q] = txn[q]
      /\ \A q \in Procs : txn'[q].new = txn[q].new
  BY <1>1 DEF IInv, TypeOK, Idle
<1>4. Coherent(p)' /\ Holding(p)' /\ Unnamed(p)'
  BY <1>1, <1>3 DEF IInv, Rows, Coherent, Holding, Unnamed, Serving, Erased
<1>5. LoadedFrom(p)'
  BY <1>1, <1>3 DEF IInv, Rows, LoadedFrom
<1>6. ASSUME NEW q \in Procs, q # p
      PROVE  Coherent(q)' /\ Holding(q)' /\ LoadedFrom(q)' /\ Unnamed(q)'
  <2>1. Coherent(q) /\ Holding(q) /\ LoadedFrom(q) /\ Unnamed(q)
    BY DEF IInv
  <2>2. Coherent(q)' /\ Holding(q)' /\ LoadedFrom(q)'
    BY <1>1, <1>3, <1>6, <2>1 DEF Coherent, Holding, LoadedFrom, Serving, Erased
  <2>3. Unnamed(q)'
    BY <1>1, <1>3, <1>6, <2>1 DEF Unnamed
  <2> QED
    BY <2>2, <2>3
<1>7. ASSUME NEW c \in Docs PROVE Rows(c)'
  <2>1. Rows(c) /\ (lock[c] # NoProc => lock[c] \in Procs)
    BY DEF IInv, TypeOK
  <2>2. lock[c] # p
    BY <1>1, <2>1, DocumentNullAssumption DEF Rows, Erased, Idle
  <2> QED
    BY <1>1, <1>3, <2>1, <2>2 DEF Rows, Erased
<1>8. Bookkeeping' /\ MissingIsAccounted'
  <2>1. \A q \in Procs : HasDropped(q) => q # p
    BY <1>1 DEF HasDropped, Idle
  <2> QED
    BY <1>1, <1>3, <2>1 DEF IInv, Bookkeeping, MissingIsAccounted, HasDropped
<1> QED
  BY <1>2, <1>4, <1>5, <1>6, <1>7, <1>8 DEF IInv

\* What a step of p leaves as it is for the other requests: it changes neither
\* rows nor locks of theirs, nor the keys they hold.
LEMMA OthersUntouched ==
  ASSUME IInv, NEW p \in Procs, NEW q \in Procs, q # p, txn'[q] = txn[q],
         \A d \in Docs : lock[d] = q => lock'[d] = q,
         \A d \in Docs : row'[d] \in {row[d], NoKey, txn[p].new},
         made \subseteq made', objects \cap {txn[q].new} \subseteq objects'
  PROVE  Coherent(q)' /\ Holding(q)' /\ LoadedFrom(q)'
  <1>1. Coherent(q) /\ Holding(q) /\ LoadedFrom(q) /\ Unnamed(p) /\ Coherent(p)
    BY DEF IInv
  <1>2. txn[p].new = NoKey \/ txn[p].new # txn[q].old
    BY <1>1 DEF Unnamed, Coherent
  <1>3. Coherent(q)'
    BY <1>1 DEF Coherent, Serving
  <1>4. Holding(q)'
    <2>1. SUFFICES ASSUME Erased(q)', lock'[txn[q].doc] # q
                   PROVE  row'[txn[q].doc] # txn[q].old
      BY DEF Holding
    <2>2. Erased(q) /\ txn[q].doc \in Docs
      BY <2>1, <1>1 DEF Erased, Coherent, Serving
    <2>3. row[txn[q].doc] # txn[q].old
      BY <2>1, <2>2, <1>1 DEF Holding
    <2> QED
      BY <2>2, <2>3, <1>2 DEF Erased
  <1>5. LoadedFrom(q)'
    BY <1>1, <1>2 DEF LoadedFrom
  <1> QED
    BY <1>3, <1>4, <1>5

\* The old object is removed, or stays; its row is accounted for from here on.
LEMMA DropObjectStep ==
  ASSUME IInv, NEW p \in Procs, DropObject(p)
  PROVE  IInv'
<1>1. /\ txn[p].pc = "drop" /\ objects' \in {objects, objects \ {txn[p].old}}
      /\ txn' = [txn EXCEPT ![p].pc = "erase"]
      /\ UNCHANGED <<students, row, made, dropped, lock>>
  BY DEF DropObject
<1>2. TypeOK'
  <2>1. [txn[p] EXCEPT !.pc = "erase"] \in Frame
    BY <1>1 DEF IInv, TypeOK, Frame
  <2> QED
    BY <1>1, <2>1 DEF IInv, TypeOK
<1>3. /\ txn'[p].pc = "erase" /\ txn'[p].doc = txn[p].doc /\ txn'[p].old = txn[p].old
      /\ txn'[p].new = txn[p].new
      /\ \A q \in Procs : q # p => txn'[q] = txn[q]
  BY <1>1 DEF IInv, TypeOK, Frame
<1>4. Coherent(p) /\ LoadedFrom(p)
  BY DEF IInv
<1>5. Coherent(p)' /\ Holding(p)' /\ LoadedFrom(p)' /\ Unnamed(p)'
  BY <1>1, <1>3, <1>4 DEF Coherent, Holding, LoadedFrom, Unnamed, Serving, Erased
<1>6. ASSUME NEW q \in Procs, q # p
      PROVE  Coherent(q)' /\ Holding(q)' /\ LoadedFrom(q)' /\ Unnamed(q)'
  <2>1. Unnamed(q) /\ Coherent(q) /\ Coherent(p)
    BY DEF IInv
  <2>2. txn[p].old # txn[q].new
    BY <2>1, <1>1, DocumentNullAssumption DEF Unnamed, Coherent
  <2>3. Coherent(q)' /\ Holding(q)' /\ LoadedFrom(q)'
    BY <1>1, <1>3, <1>6, <2>2, OthersUntouched
  <2>4. Unnamed(q)'
    BY <1>1, <1>3, <1>6, <2>1 DEF Unnamed
  <2> QED
    BY <2>3, <2>4
<1>7. ASSUME NEW d \in Docs PROVE Rows(d)'
  <2>1. Rows(d) /\ (lock[d] # NoProc => lock[d] \in Procs)
    BY DEF IInv, TypeOK
  <2>2. lock[d] # p
    BY <1>1, <2>1, DocumentNullAssumption DEF Rows, Erased
  <2> QED
    BY <1>1, <1>3, <2>1, <2>2 DEF Rows, Erased
<1>8. Bookkeeping'
  BY <1>1 DEF IInv, Bookkeeping
<1>9. MissingIsAccounted'
  <2>1. SUFFICES ASSUME NEW d \in Docs, row[d] \in Keys, row[d] \notin objects', row[d] \notin dropped
                 PROVE  \E q \in Procs : HasDropped(q)' /\ txn'[q].old = row[d]
    BY <1>1 DEF MissingIsAccounted
  <2>2. CASE row[d] = txn[p].old
    BY <1>3, <1>4, <2>2, <1>1 DEF HasDropped, Coherent
  <2>3. CASE row[d] # txn[p].old
    <3>1. PICK q \in Procs : HasDropped(q) /\ txn[q].old = row[d]
      BY <1>1, <2>1, <2>3 DEF IInv, MissingIsAccounted
    <3> QED
      BY <1>3, <2>3, <3>1 DEF HasDropped
  <2> QED
    BY <2>2, <2>3
<1> QED
  BY <1>2, <1>5, <1>6, <1>7, <1>8, <1>9 DEF IInv

\* The row is locked by the request that deletes it, or it was gone.
LEMMA EraseRowStep ==
  ASSUME IInv, NEW p \in Procs, EraseRow(p)
  PROVE  IInv'
<1> DEFINE d == txn[p].doc
<1>1. /\ txn[p].pc = "erase"
      /\ \/ row[d] = txn[p].old /\ lock[d] = NoProc /\ lock' = [lock EXCEPT ![d] = p]
         \/ row[d] # txn[p].old /\ lock' = lock
      /\ txn' = [txn EXCEPT ![p].pc = IF txn[p].kind = "upload" THEN "put" ELSE "commit"]
      /\ UNCHANGED <<students, row, objects, made, dropped>>
  BY DEF EraseRow
<1>2. Coherent(p) /\ LoadedFrom(p) /\ d \in Docs
  BY <1>1 DEF IInv, Coherent, Serving
<1>3. TypeOK'
  <2>1. [txn[p] EXCEPT !.pc = IF txn[p].kind = "upload" THEN "put" ELSE "commit"] \in Frame
    BY DEF IInv, TypeOK, Frame
  <2> QED
    BY <1>1, <2>1 DEF IInv, TypeOK
<1>4. /\ txn'[p].pc \in {"put", "commit"} /\ txn'[p].doc = d /\ txn'[p].old = txn[p].old
      /\ txn'[p].new = txn[p].new
      /\ \A q \in Procs : q # p => txn'[q] = txn[q]
  BY <1>1 DEF IInv, TypeOK, Frame
<1>5. Coherent(p)' /\ LoadedFrom(p)' /\ Unnamed(p)'
  BY <1>1, <1>2, <1>4 DEF Coherent, LoadedFrom, Unnamed, Serving
<1>6. Holding(p)'
  BY <1>1, <1>2, <1>4 DEF IInv, TypeOK, Holding
<1>7. ASSUME NEW q \in Procs, q # p
      PROVE  Coherent(q)' /\ Holding(q)' /\ LoadedFrom(q)' /\ Unnamed(q)'
  <2>1. \A c \in Docs : lock[c] = q => lock'[c] = q
    BY <1>1, <1>2, DocumentNullAssumption DEF IInv, TypeOK
  <2>2. Coherent(q)' /\ Holding(q)' /\ LoadedFrom(q)'
    BY <1>1, <1>4, <1>7, <2>1, OthersUntouched
  <2>3. Unnamed(q)'
    BY <1>1, <1>4, <1>7 DEF IInv, Unnamed
  <2> QED
    BY <2>2, <2>3
<1>8. ASSUME NEW c \in Docs PROVE Rows(c)'
  <2>1. Rows(c) /\ (lock[c] # NoProc => lock[c] \in Procs)
    BY DEF IInv, TypeOK
  <2>2. lock[c] # p
    BY <1>1, <2>1, DocumentNullAssumption DEF Rows, Erased
  <2>3. CASE lock'[c] = lock[c]
    BY <1>1, <1>4, <2>1, <2>2, <2>3 DEF Rows, Erased
  <2>4. CASE lock'[c] # lock[c]
    <3>1. c = d /\ lock'[c] = p /\ row[d] = txn[p].old
      BY <1>1, <1>2, <2>4 DEF IInv, TypeOK
    <3>2. row[d] # NoKey
      <4>1. txn[p].old # NoKey
        BY <1>2, <1>1 DEF Coherent
      <4> QED
        BY <4>1, <3>1
    <3> QED
      BY <1>1, <1>4, <2>1, <3>1, <3>2 DEF Rows, Erased
  <2> QED
    BY <2>3, <2>4
<1>9. Bookkeeping'
  BY <1>1 DEF IInv, Bookkeeping
<1>10. MissingIsAccounted'
  <2>1. \A q \in Procs : HasDropped(q) => HasDropped(q)' /\ txn'[q].old = txn[q].old
    BY <1>1, <1>4 DEF HasDropped
  <2> QED
    BY <1>1, <2>1 DEF IInv, MissingIsAccounted
<1> QED
  BY <1>3, <1>5, <1>6, <1>7, <1>8, <1>9, <1>10 DEF IInv

\* The new object goes under a key that nothing names.
LEMMA PutObjectStep ==
  ASSUME IInv, NEW p \in Procs, PutObject(p)
  PROVE  IInv'
<1>1. PICK k \in Keys :
        /\ txn[p].pc = "put" /\ k \notin made
        /\ objects' = objects \cup {k} /\ made' = made \cup {k}
        /\ txn' = [txn EXCEPT ![p].pc = "insert", ![p].new = k]
        /\ UNCHANGED <<students, row, dropped, lock>>
  BY DEF PutObject, Fresh
<1>2. TypeOK'
  <2>1. [txn[p] EXCEPT !.pc = "insert", !.new = k] \in Frame
    BY DEF IInv, TypeOK, Frame
  <2> QED
    BY <1>1, <2>1 DEF IInv, TypeOK
<1>3. /\ txn'[p].pc = "insert" /\ txn'[p].doc = txn[p].doc /\ txn'[p].old = txn[p].old
      /\ txn'[p].new = k
      /\ \A q \in Procs : q # p => txn'[q] = txn[q]
  BY <1>1 DEF IInv, TypeOK, Frame
<1>4. \A q \in Procs : txn[q].old # k /\ txn[q].new # k
  <2>1. k # NoKey
    BY DocumentNullAssumption
  <2> QED
    BY <1>1, <2>1 DEF IInv, Coherent
<1>5. \A d \in Docs : row[d] # k
  BY <1>1, DocumentNullAssumption DEF IInv, Rows
<1>6. Coherent(p)' /\ Holding(p)' /\ LoadedFrom(p)'
  <2>1. Coherent(p) /\ Holding(p) /\ LoadedFrom(p)
    BY DEF IInv
  <2> QED
    <3>1. Coherent(p)'
      BY <1>1, <1>3, <2>1 DEF Coherent, Serving
    <3>2. Holding(p)'
      BY <1>1, <1>3, <2>1 DEF Holding, Erased
    <3>3. LoadedFrom(p)'
      BY <1>1, <1>3, <2>1 DEF LoadedFrom
    <3> QED
      BY <3>1, <3>2, <3>3
<1>7. Unnamed(p)'
  BY <1>1, <1>3, <1>4, <1>5 DEF Unnamed
<1>8. ASSUME NEW q \in Procs, q # p
      PROVE  Coherent(q)' /\ Holding(q)' /\ LoadedFrom(q)' /\ Unnamed(q)'
  <2>1. Coherent(q)' /\ Holding(q)' /\ LoadedFrom(q)'
    BY <1>1, <1>3, <1>8, OthersUntouched
  <2>2. Unnamed(q)'
    <3>1. Unnamed(q) /\ txn'[q] = txn[q]
      BY <1>3, <1>8 DEF IInv
    <3>2. \A o \in Procs : txn'[o].old = txn[o].old
      BY <1>3
    <3>3. \A o \in Procs : o # q => txn'[o].new # txn[q].new \/ txn[q].pc # "insert"
      BY <1>3, <1>4, <3>1 DEF Unnamed
    <3> QED
      BY <1>1, <3>1, <3>2, <3>3 DEF Unnamed
  <2> QED
    BY <2>1, <2>2
<1>9. ASSUME NEW d \in Docs PROVE Rows(d)'
  <2>1. Rows(d) /\ (lock[d] # NoProc => lock[d] \in Procs)
    BY DEF IInv, TypeOK
  <2>2. lock[d] # NoProc => Erased(lock[d])' /\ txn'[lock[d]].doc = txn[lock[d]].doc
                             /\ txn'[lock[d]].old = txn[lock[d]].old
    BY <1>1, <1>3, <2>1 DEF Rows, Erased
  <2> QED
    BY <1>1, <2>1, <2>2 DEF Rows
<1>10. Bookkeeping'
  BY <1>1 DEF IInv, Bookkeeping
<1>11. MissingIsAccounted'
  <2>1. \A q \in Procs : HasDropped(q) => HasDropped(q)' /\ txn'[q].old = txn[q].old
    BY <1>1, <1>3 DEF HasDropped
  <2> QED
    BY <1>1, <2>1 DEF IInv, MissingIsAccounted
<1> QED
  BY <1>2, <1>6, <1>7, <1>8, <1>9, <1>10, <1>11 DEF IInv

\* The end of a request: its locks are free, the others keep theirs.
LEMMA EndFacts ==
  ASSUME IInv, NEW p \in Procs, End(p)
  PROVE  /\ txn' \in [Procs -> Frame] /\ lock' \in [Docs -> Procs \cup {NoProc}]
         /\ txn'[p] = Idle /\ \A q \in Procs : q # p => txn'[q] = txn[q]
         /\ \A d \in Docs : lock'[d] = IF lock[d] = p THEN NoProc ELSE lock[d]
  BY IdleType DEF IInv, TypeOK, End

\* A request ends and changes at most the row of its document: to the key it
\* stored, or to none, and only if the row was its own or there was none.
LEMMA EndStep ==
  ASSUME IInv, NEW p \in Procs, NEW d \in Docs, NEW k \in {row[d], NoKey, txn[p].new},
         txn[p] # Idle, txn[p].doc = d, End(p),
         row' = [row EXCEPT ![d] = k],
         k # row[d] => lock[d] = p \/ (lock[d] = NoProc /\ row[d] = NoKey),
         k # NoKey => d[1] \in students,
         k = txn[p].new /\ k # NoKey => txn[p].pc = "insert",
         dropped \subseteq dropped', dropped' \subseteq Keys,
         HasDropped(p) /\ row'[d] = txn[p].old /\ txn[p].old \in Keys => txn[p].old \in dropped',
         UNCHANGED <<students, objects, made>>
  PROVE  IInv'
<1>1. /\ txn' \in [Procs -> Frame] /\ lock' \in [Docs -> Procs \cup {NoProc}]
      /\ txn'[p] = Idle /\ \A q \in Procs : q # p => txn'[q] = txn[q]
      /\ \A c \in Docs : lock'[c] = IF lock[c] = p THEN NoProc ELSE lock[c]
  BY EndFacts
<1>2. TypeOK /\ Coherent(p) /\ LoadedFrom(p) /\ Unnamed(p)
  BY DEF IInv
<1>3. k \in Keys \cup {NoKey}
  BY <1>2 DEF TypeOK, Frame
<1>4. /\ row'[d] = k /\ \A c \in Docs : c # d => row'[c] = row[c]
  BY <1>2 DEF TypeOK
<1>5. TypeOK'
  BY <1>1, <1>2, <1>3 DEF TypeOK
<1>6. Coherent(p)' /\ Holding(p)' /\ LoadedFrom(p)' /\ Unnamed(p)'
  BY <1>1 DEF Idle, Coherent, Holding, LoadedFrom, Unnamed, Serving, Erased
<1>7. ASSUME NEW q \in Procs, q # p
      PROVE  Coherent(q)' /\ Holding(q)' /\ LoadedFrom(q)' /\ Unnamed(q)'
  <2>1. \A c \in Docs : lock[c] = q => lock'[c] = q
    BY <1>1, <1>7
  <2>2. \A c \in Docs : row'[c] \in {row[c], NoKey, txn[p].new}
    BY <1>4
  <2>3. Coherent(q)' /\ Holding(q)' /\ LoadedFrom(q)'
    BY <1>1, <1>7, <2>1, <2>2, OthersUntouched
  <2>4. Unnamed(q)'
    <3>1. SUFFICES ASSUME txn[q].pc = "insert" PROVE Unnamed(q)'
      BY <1>1, <1>7 DEF Unnamed
    <3>2. Unnamed(q) /\ txn'[q] = txn[q] /\ txn[q].new # NoKey
      BY <1>1, <1>7, <3>1, DocumentNullAssumption DEF IInv, Coherent, TypeOK
    <3>3. \A c \in Docs : row'[c] # txn[q].new
      BY <1>7, <2>2, <3>1, <3>2 DEF Unnamed
    <3>4. \A o \in Procs : txn'[o].old # txn[q].new /\ (o # q => txn'[o].new # txn[q].new)
      BY <1>1, <3>1, <3>2 DEF Unnamed, Idle
    <3> QED
      BY <3>2, <3>3, <3>4 DEF Unnamed
  <2> QED
    BY <2>3, <2>4
<1>8. ASSUME NEW c \in Docs PROVE Rows(c)'
  <2>1. Rows(c) /\ Rows(d) /\ (lock[c] # NoProc => lock[c] \in Procs)
    BY <1>2 DEF IInv, TypeOK
  <2>2. row'[c] # NoKey => row'[c] \in made
    BY <1>2, <1>4, <2>1 DEF Rows, Coherent
  <2>3. c[1] \notin students => row'[c] = NoKey
    BY <1>4, <2>1 DEF Rows
  <2>4. \A e \in Docs : row'[e] = row'[c] /\ row'[c] # NoKey => e = c
    <3>1. \A e \in Docs : row[e] = row[c] /\ row[c] # NoKey => e = c
      BY <2>1 DEF Rows
    <3>2. k # NoKey /\ k # row[d] => \A e \in Docs : row[e] # k
      BY <1>2 DEF Unnamed
    <3>3. \A e \in Docs : row[e] = row[d] /\ row[d] # NoKey => e = d
      BY <2>1 DEF Rows
    <3> QED
      BY <1>4, <3>1, <3>2, <3>3
  <2>5. ASSUME lock'[c] # NoProc
        PROVE  /\ txn'[lock'[c]].doc = c /\ Erased(lock[c])'
               /\ row'[c] = txn'[lock'[c]].old
    <3>1. lock'[c] = lock[c] /\ lock[c] # p /\ lock[c] \in Procs
      BY <1>1, <2>1, <2>5
    <3>2. txn'[lock[c]] = txn[lock[c]]
      BY <1>1, <3>1
    <3>3. row'[c] = row[c]
      BY <1>4, <3>1, <2>5
    <3> QED
      BY <2>1, <2>5, <3>1, <3>2, <3>3 DEF Rows, Erased
  <2> QED
    BY <2>2, <2>3, <2>4, <2>5 DEF Rows
<1>9. Bookkeeping'
  BY DEF IInv, Bookkeeping
<1>10. MissingIsAccounted'
  <2>1. SUFFICES ASSUME NEW c \in Docs, row'[c] \in Keys, row'[c] \notin objects,
                        row'[c] \notin dropped'
                 PROVE  \E q \in Procs : HasDropped(q)' /\ txn'[q].old = row'[c]
    BY DEF MissingIsAccounted
  <2>2. row'[c] = row[c]
    BY <1>2, <1>4, <2>1, DocumentNullAssumption DEF Coherent
  <2>3. PICK q \in Procs : HasDropped(q) /\ txn[q].old = row[c]
    BY <2>1, <2>2 DEF IInv, MissingIsAccounted
  <2>4. q # p
    BY <1>2, <1>4, <2>1, <2>2, <2>3, DocumentNullAssumption DEF LoadedFrom
  <2> QED
    BY <1>1, <2>2, <2>3, <2>4 DEF HasDropped
<1> QED
  BY <1>5, <1>6, <1>7, <1>8, <1>9, <1>10 DEF IInv

\* The document a request in progress is about.
LEMMA ServedDoc ==
  ASSUME IInv, NEW p \in Procs, txn[p] # Idle
  PROVE  txn[p].doc \in Docs \/ txn[p].pc = "idle"
  BY DEF IInv, Coherent, Serving

\* An upload commits: its row names the object it stored.
LEMMA InsertCommitStep ==
  ASSUME IInv, NEW p \in Procs, InsertCommit(p)
  PROVE  IInv'
<1>1. txn[p].pc = "insert" /\ txn[p].doc \in Docs /\ txn[p] # Idle /\ Unnamed(p)
  BY DEF IInv, InsertCommit, Coherent, Serving, Idle
<1>2. row' = [row EXCEPT ![txn[p].doc] = txn[p].new] /\ row'[txn[p].doc] = txn[p].new
  BY <1>1 DEF IInv, TypeOK, InsertCommit
<1>3. txn[p].new # txn[p].old
  BY <1>1 DEF Unnamed
<1> QED
  BY <1>1, <1>2, <1>3, EndStep DEF IInv, TypeOK, InsertCommit, Vacant

\* An upload that is refused leaves the rows as they are; the row it had loaded
\* is not among them.
LEMMA InsertConflictStep ==
  ASSUME IInv, NEW p \in Procs, InsertConflict(p)
  PROVE  IInv'
<1> DEFINE d == txn[p].doc
<1>1. txn[p].pc = "insert" /\ d \in Docs /\ txn[p] # Idle /\ Holding(p) /\ Rows(d)
  BY DEF IInv, InsertConflict, Coherent, Serving, Idle
<1>2. HasDropped(p) /\ txn[p].old \in Keys => row[d] # txn[p].old
  BY <1>1, DocumentNullAssumption DEF InsertConflict, Holding, Rows, HasDropped, Erased
<1>3. row' = [row EXCEPT ![d] = row[d]] /\ row'[d] = row[d]
  BY <1>1 DEF IInv, TypeOK, InsertConflict
<1>4. row[d] # NoKey => d[1] \in students
  BY <1>1 DEF Rows
<1>5. row[d] = txn[p].new /\ row[d] # NoKey => txn[p].pc = "insert"
  BY <1>1
<1> QED
  BY <1>1, <1>2, <1>3, <1>4, <1>5, EndStep DEF IInv, TypeOK, InsertConflict

\* A deletion commits.
LEMMA DeleteCommitStep ==
  ASSUME IInv, NEW p \in Procs, DeleteCommit(p)
  PROVE  IInv'
<1> DEFINE d == txn[p].doc
<1>1. txn[p].pc = "commit" /\ d \in Docs /\ txn[p] # Idle /\ Holding(p) /\ Rows(d)
  BY DEF IInv, DeleteCommit, Coherent, Serving, Idle
<1>2. txn[p].new = NoKey
  BY <1>1 DEF IInv, Coherent
<1>3. CASE lock[d] = p
  <2>1. row' = [row EXCEPT ![d] = NoKey] /\ row'[d] = NoKey
    BY <1>1, <1>3 DEF IInv, TypeOK, DeleteCommit
  <2>2. HasDropped(p) => row'[d] # txn[p].old
    BY <2>1 DEF HasDropped
  <2>3. End(p) /\ UNCHANGED <<students, objects, made, dropped>> /\ dropped' \subseteq Keys
    BY DEF IInv, TypeOK, DeleteCommit
  <2>4. HasDropped(p) /\ row'[d] = txn[p].old /\ txn[p].old \in Keys => txn[p].old \in dropped'
    BY <2>2
  <2>5. dropped \subseteq dropped' /\ UNCHANGED <<students, objects, made>>
    BY <2>3
  <2>6. NoKey = txn[p].new /\ NoKey # NoKey => txn[p].pc = "insert"
    OBVIOUS
  <2> QED
    BY <1>1, <1>3, <2>1, <2>3, <2>4, <2>5, <2>6, EndStep
<1>4. CASE lock[d] # p
  <2>1. row' = [row EXCEPT ![d] = row[d]] /\ row'[d] = row[d]
    BY <1>1, <1>4 DEF IInv, TypeOK, DeleteCommit
  <2>2. HasDropped(p) => row[d] # txn[p].old
    BY <1>1, <1>4 DEF Holding, HasDropped, Erased
  <2>3. row[d] # NoKey => d[1] \in students
    BY <1>1 DEF Rows
  <2> QED
    BY <1>1, <1>2, <2>1, <2>2, <2>3, EndStep DEF IInv, TypeOK, DeleteCommit
<1> QED
  BY <1>3, <1>4

\* A request fails: what it removed from the store is on record.
LEMMA AbortStep ==
  ASSUME IInv, NEW p \in Procs, Abort(p)
  PROVE  IInv'
<1> DEFINE d == txn[p].doc
<1>1. txn[p] # Idle /\ End(p) /\ UNCHANGED <<students, row, objects, made>>
      /\ dropped' = IF HasDropped(p) THEN dropped \cup {txn[p].old} ELSE dropped
  BY DEF Abort
<1>2. txn[p].old \in Keys \cup {NoKey} /\ dropped' \subseteq Keys
  BY <1>1 DEF IInv, TypeOK, Frame, HasDropped
<1>3. CASE d \in Docs
  <2>1. row' = [row EXCEPT ![d] = row[d]] /\ row'[d] = row[d] /\ Rows(d)
    BY <1>1, <1>3 DEF IInv, TypeOK
  <2>2. row[d] # NoKey => d[1] \in students
    BY <2>1 DEF Rows
  <2>3. row[d] = txn[p].new /\ row[d] # NoKey => txn[p].pc = "insert"
    BY DEF IInv, Coherent
  <2>4. /\ dropped \subseteq dropped'
        /\ HasDropped(p) => txn[p].old \in dropped'
    BY <1>1
  <2> QED
    BY <1>1, <1>2, <1>3, <2>1, <2>2, <2>3, <2>4, EndStep
<1>4. CASE d \notin Docs
  <2>1. txn[p].pc = "idle" /\ txn[p].old = NoKey /\ txn[p].new = NoKey
    BY <1>4 DEF IInv, Coherent, Serving
  <2>2. \A c \in Docs : lock[c] # p
    BY <2>1, DocumentNullAssumption DEF IInv, TypeOK, Rows, Erased
  <2>3. lock' = lock
    BY <1>1, <2>2 DEF IInv, TypeOK, End
  <2>4. txn' \in [Procs -> Frame] /\ txn'[p] = Idle /\ \A q \in Procs : q # p => txn'[q] = txn[q]
    BY <1>1, EndFacts
  <2>5. \A q \in Procs : /\ txn'[q].pc = txn[q].pc /\ txn'[q].old = txn[q].old
                           /\ txn'[q].new = txn[q].new /\ (q # p => txn'[q].doc = txn[q].doc)
    BY <2>1, <2>4 DEF Idle
  <2>6. TypeOK'
    BY <1>1, <1>2, <2>3, <2>4 DEF IInv, TypeOK
  <2>7. \A q \in Procs : Coherent(q)' /\ Holding(q)' /\ LoadedFrom(q)' /\ Unnamed(q)'
    <3>1. Coherent(p)' /\ Holding(p)' /\ LoadedFrom(p)' /\ Unnamed(p)'
      BY <2>4 DEF Idle, Coherent, Holding, LoadedFrom, Unnamed, Serving, Erased
    <3>2. ASSUME NEW q \in Procs, q # p
          PROVE  Coherent(q)' /\ Holding(q)' /\ LoadedFrom(q)' /\ Unnamed(q)'
      <4>1. Coherent(q) /\ Holding(q) /\ LoadedFrom(q) /\ Unnamed(q)
        BY DEF IInv
      <4>2. Coherent(q)' /\ Holding(q)' /\ LoadedFrom(q)'
        BY <1>1, <2>3, <2>4, <3>2, <4>1 DEF Coherent, Holding, LoadedFrom, Serving, Erased
      <4>3. Unnamed(q)'
        BY <1>1, <2>5, <4>1 DEF Unnamed
      <4> QED
        BY <4>2, <4>3
    <3> QED
      BY <3>1, <3>2
  <2>8. ASSUME NEW c \in Docs PROVE Rows(c)'
    <3>1. Rows(c) /\ (lock[c] # NoProc => lock[c] \in Procs)
      BY DEF IInv, TypeOK
    <3> QED
      BY <1>1, <2>2, <2>3, <2>5, <3>1 DEF Rows, Erased
  <2>9. Bookkeeping' /\ MissingIsAccounted'
    BY <1>1, <2>1, <2>5 DEF IInv, Bookkeeping, MissingIsAccounted, HasDropped
  <2> QED
    BY <2>6, <2>7, <2>8, <2>9 DEF IInv
<1> QED
  BY <1>3, <1>4

\* The rows of a student go with the account.
LEMMA DeleteStudentStep ==
  ASSUME IInv, NEW s \in Students, DeleteStudent(s)
  PROVE  IInv'
<1>1. /\ \A d \in Docs : d[1] = s => lock[d] = NoProc
      /\ students' = students \ {s}
      /\ row' = [d \in Docs |-> IF d[1] = s THEN NoKey ELSE row[d]]
      /\ UNCHANGED <<objects, made, dropped, lock, txn>>
  BY DEF DeleteStudent
<1>2. \A d \in Docs : row'[d] = IF d[1] = s THEN NoKey ELSE row[d]
  BY <1>1
<1>3. TypeOK'
  BY <1>1 DEF IInv, TypeOK
<1>4. ASSUME NEW q \in Procs
      PROVE  Coherent(q)' /\ Holding(q)' /\ LoadedFrom(q)' /\ Unnamed(q)'
  <2>1. Coherent(q) /\ Holding(q) /\ LoadedFrom(q) /\ Unnamed(q)
    BY DEF IInv
  <2>2. Coherent(q)' /\ LoadedFrom(q)'
    BY <1>1, <1>2, <2>1 DEF Coherent, LoadedFrom, Serving
  <2>3. Holding(q)'
    BY <1>1, <1>2, <2>1 DEF Holding, Erased, Coherent, Serving
  <2>4. Unnamed(q)'
    <3>1. txn[q].pc = "insert" => txn[q].new # NoKey
      BY <2>1, DocumentNullAssumption DEF IInv, TypeOK, Coherent
    <3> QED
      BY <1>1, <1>2, <2>1, <3>1 DEF Unnamed
  <2> QED
    BY <2>2, <2>3, <2>4
<1>5. ASSUME NEW c \in Docs PROVE Rows(c)'
  <2>1. \A e \in Docs : Rows(e)
    BY DEF IInv
  <2> QED
    BY <1>1, <1>2, <2>1 DEF Rows, Erased
<1>6. Bookkeeping' /\ MissingIsAccounted'
  BY <1>1, <1>2, DocumentNullAssumption DEF IInv, Bookkeeping, MissingIsAccounted, HasDropped
<1> QED
  BY <1>3, <1>4, <1>5, <1>6 DEF IInv

\* The invariant is inductive.
LEMMA NextStep == IInv /\ [Next]_vars => IInv'
<1> SUFFICES ASSUME IInv, [Next]_vars PROVE IInv'
  OBVIOUS
<1>1. ASSUME NEW p \in Procs, Request(p) PROVE IInv'
  BY <1>1, RequestStep
<1>2. ASSUME NEW p \in Procs, Proceed(p) PROVE IInv'
  BY <1>2, DropObjectStep, EraseRowStep, PutObjectStep, InsertCommitStep, InsertConflictStep,
     DeleteCommitStep DEF Proceed
<1>3. ASSUME NEW p \in Procs, Abort(p) PROVE IInv'
  BY <1>3, AbortStep
<1>4. ASSUME NEW s \in Students, DeleteStudent(s) PROVE IInv'
  BY <1>4, DeleteStudentStep
<1>5. CASE UNCHANGED vars
  BY <1>5 DEF vars, IInv, TypeOK, Coherent, Holding, LoadedFrom, Unnamed, Rows, Bookkeeping,
     MissingIsAccounted, Serving, Erased, HasDropped
<1> QED
  BY <1>1, <1>2, <1>3, <1>4, <1>5 DEF Next

----------------------------------------------------------------------------
\* The invariant holds in every reachable state, for any number of requests,
\* students, types and keys (modules/documents/service.py).
THEOREM Inductive == Spec => []IInv
  BY InitIInv, NextStep, PTL DEF Spec

\* Rows, objects and requests keep their types (modules/documents/models.py).
THEOREM TypeCorrect == Spec => []TypeOK
  <1>1. IInv => TypeOK
    BY DEF IInv
  <1> QED
    BY <1>1, Inductive, PTL

\* A row without its object is being replaced or deleted, or a request that
\* had removed the object failed: requests that only race with each other
\* leave every document whole (service.py 51-71, 87-95).
THEOREM OnlyFailuresLose == Spec => []MissingIsAccounted
  <1>1. IInv => MissingIsAccounted
    BY DEF IInv
  <1> QED
    BY <1>1, Inductive, PTL

\* A row changes only by a request that had loaded it: no update is lost
\* (service.py 51-55, 87-95, models.py 28).
THEOREM NoLostUpdate == Spec => ChangesWhatItLoaded
<1> DEFINE Changes == \A d \in Docs : row[d] # NoKey /\ row'[d] # row[d] /\ d[1] \in students' =>
      \E p \in Procs : txn[p].doc = d /\ txn[p].old = row[d] /\ txn[p].new = row'[d]
<1>1. IInv /\ [Next]_vars => [Changes]_vars
  <2>1. SUFFICES ASSUME IInv, Next, NEW d \in Docs, row[d] # NoKey, row'[d] # row[d],
                        d[1] \in students'
                 PROVE  \E p \in Procs : /\ txn[p].doc = d /\ txn[p].old = row[d]
                                          /\ txn[p].new = row'[d]
    BY DEF vars
  <2>2. \A s \in Students : ~ DeleteStudent(s)
    BY <2>1 DEF DeleteStudent
  <2>3. PICK p \in Procs : InsertCommit(p) \/ DeleteCommit(p)
    BY <2>1, <2>2 DEF Next, Request, Proceed, UploadRead, DeleteRead, DropObject, EraseRow,
       PutObject, InsertConflict, Abort
  <2>4. d = txn[p].doc
    BY <2>1, <2>3 DEF IInv, TypeOK, InsertCommit, DeleteCommit
  <2>5. lock[d] = p
    BY <2>1, <2>3, <2>4 DEF InsertCommit, DeleteCommit, Vacant
  <2>6. txn[p].old = row[d]
    <3>1. Rows(d) /\ p # NoProc
      BY <2>1, DocumentNullAssumption DEF IInv
    <3> QED
      BY <2>5, <3>1 DEF Rows
  <2>7. txn[p].new = row'[d]
    <3>1. CASE InsertCommit(p)
      BY <2>1, <2>4, <3>1 DEF IInv, TypeOK, InsertCommit
    <3>2. CASE DeleteCommit(p)
      <4>1. row'[d] = NoKey
        BY <2>1, <2>4, <2>5, <3>2 DEF IInv, TypeOK, DeleteCommit
      <4>2. txn[p].pc = "commit" /\ Coherent(p)
        BY <2>1, <3>2 DEF IInv, DeleteCommit
      <4> QED
        BY <4>1, <4>2 DEF Coherent
    <3> QED
      BY <2>3, <3>1, <3>2
  <2> QED
    BY <2>4, <2>6, <2>7
<1> QED
  BY <1>1, Inductive, PTL DEF Spec, ChangesWhatItLoaded
=============================================================================
