------------------------------ MODULE Messages ------------------------------
(***************************************************************************)
(* Conversations between students and their adviser                        *)
(* (src/app/modules/messages): messages, broadcasts, images and the        *)
(* notices and mails that follow a message.                                *)
(*                                                                         *)
(* A request writes its messages one conversation after another, in one    *)
(* transaction: each message also updates its conversation, whose row      *)
(* stays locked until the commit.  The conversations of a broadcast come   *)
(* from a query without an order, so two broadcasts may lock them in       *)
(* opposite orders.  The notices are a second transaction, made when the   *)
(* messages are committed; mails go to the queue at once.  A failure there *)
(* is swallowed.                                                           *)
(*                                                                         *)
(* One adviser, so a conversation stands for its student.  Requests are    *)
(* numbered in the order in which their transactions start: the number is  *)
(* the created_at of their messages.                                       *)
(***************************************************************************)
EXTENDS Naturals

CONSTANTS
  Procs,        \* requests being served at once
  Convos,       \* ids of conversations
  Seeded,       \* those whose rows are there from the start
  MaxRequests,  \* bound: sends and broadcasts in a behaviour
  WithImage,    \* the requests that carry an image, by number
  NoConvo, NoProc

ASSUME SeededAssumption == Seeded \subseteq Convos
ASSUME RequestsAssumption == MaxRequests \in Nat /\ WithImage \subseteq 1 .. MaxRequests
ASSUME MessageNullAssumption == NoConvo \notin Convos /\ NoProc \notin Procs

VARIABLES
  live,      \* rows of conversations
  handed,    \* ids of conversations that were made for a student who asked
  targets,   \* the conversations each request writes to
  objects,   \* the images in the object store, by request
  sent,      \* messages committed: <<request, conversation>>
  last,      \* last_message_at, 0 for null
  notices,   \* messages whose recipient has a notification row
  mails,     \* messages whose recipient's mail is in the queue
  requests,  \* how many requests have started
  lock,      \* the request that holds the conversation's row lock
  txn        \* the local variables of the request each process serves

history == <<targets, requests>>
rows == <<live, sent, last, notices>>
vars == <<live, handed, targets, objects, sent, last, notices, mails, requests, lock, txn>>

Numbers == 1 .. MaxRequests
MessagesSwapped(b) == targets[b] \X {b}
MessagesOf(b) == {b} \X targets[b]

\* left are the conversations still to be written or notified after next;
\* pending those whose notices are flushed but not committed.
Frame == [pc      : {"idle", "upload", "write", "commit", "notice", "mail", "notices"},
          number  : 0 .. MaxRequests,
          kind    : {"send", "broadcast"},
          next    : Convos \cup {NoConvo},
          left    : SUBSET Convos,
          pending : SUBSET Convos]

Idle == [pc |-> "idle", number |-> 0, kind |-> "send", next |-> NoConvo,
         left |-> {}, pending |-> {}]

TypeOK ==
  /\ live \subseteq Convos /\ handed \subseteq Convos
  /\ targets \in [Numbers -> SUBSET Convos]
  /\ objects \subseteq Numbers
  /\ sent \subseteq Numbers \X Convos
  /\ last \in [Convos -> 0 .. MaxRequests]
  /\ notices \subseteq Numbers \X Convos
  /\ mails \subseteq Numbers \X Convos
  /\ requests \in 0 .. MaxRequests
  /\ lock \in [Convos -> Procs \cup {NoProc}]
  /\ txn \in [Procs -> Frame]

Init ==
  /\ live = Seeded /\ handed = {}
  /\ targets = [b \in Numbers |-> {}]
  /\ objects = {} /\ sent = {} /\ notices = {} /\ mails = {}
  /\ last = [c \in Convos |-> 0]
  /\ requests = 0
  /\ lock = [c \in Convos |-> NoProc]
  /\ txn = [p \in Procs |-> Idle]

Unlocked(p) == [c \in Convos |-> IF lock[c] = p THEN NoProc ELSE lock[c]]
End(p) == txn' = [txn EXCEPT ![p] = Idle] /\ lock' = Unlocked(p)

\* A failure: the transaction at hand is rolled back.  After the commit of the
\* messages the request succeeds all the same.
Abort(p) ==
  /\ txn[p] # Idle
  /\ End(p)
  /\ UNCHANGED <<rows, handed, history, objects, mails>>

----------------------------------------------------------------------------
(* Conversations.                                                          *)

\* GET /conversations/my for a student without one: it is inserted by a
\* transaction that nobody commits.
GetMyConversation(c) ==
  /\ c \notin Seeded /\ c \notin handed
  /\ handed' = handed \cup {c}
  /\ UNCHANGED <<rows, history, objects, mails, lock, txn>>

\* The student's conversation and its messages go with the account.
DeleteStudent(c) ==
  /\ c \in live /\ lock[c] = NoProc
  /\ live' = live \ {c}
  /\ UNCHANGED <<handed, history, objects, sent, last, notices, mails, lock, txn>>

----------------------------------------------------------------------------
(* The messages of a request.                                              *)

Start(p, kind, S) ==
  LET b == requests + 1 IN
  /\ txn[p] = Idle /\ b \in Numbers
  /\ requests' = b
  /\ targets' = [targets EXCEPT ![b] = S]
  /\ \E c \in S :
       txn' = [txn EXCEPT ![p] =
         [Idle EXCEPT !.pc = IF b \in WithImage THEN "upload" ELSE "write", !.number = b,
                      !.kind = kind, !.next = c, !.left = S \ {c}]]
  /\ UNCHANGED <<rows, handed, objects, mails, lock>>

\* To an id the sender was given, or one in the list of conversations.
Send(p, c) ==
  /\ c \in live \cup handed
  /\ Start(p, "send", {c})

\* To the adviser's conversations, all or those that pass the filter.
Broadcast(p, S) ==
  /\ S # {} /\ S \subseteq live
  /\ Start(p, "broadcast", S)

\* The image is stored before any row is written.
UploadIgnored(p) ==
  /\ txn[p].pc = "upload"
  /\ txn' = [txn EXCEPT ![p].pc = "write"]
  /\ UNCHANGED <<rows, handed, history, objects, mails, lock>>

Upload(p) ==
  /\ txn[p].pc = "upload"
  /\ objects' = objects \cup {txn[p].number}
  /\ txn' = [txn EXCEPT ![p].pc = "write"]
  /\ UNCHANGED <<rows, handed, history, mails, lock>>

\* create_message: the message is inserted and its conversation updated, which
\* waits for the row lock.
Advance(p) ==
  IF txn[p].left = {}
    THEN txn' = [txn EXCEPT ![p].pc = "commit", ![p].next = NoConvo]
    ELSE \E c \in txn[p].left :
           txn' = [txn EXCEPT ![p].next = c, ![p].left = @ \ {c}]

\* (WriteEach would commit every message by itself.)
WriteEach(p) ==
  LET c == txn[p].next IN
  /\ txn[p].pc = "write"
  /\ c \in live /\ lock[c] = NoProc
  /\ lock' = [lock EXCEPT ![c] = p]
  /\ sent' = sent \cup {<<txn[p].number, c>>}
  /\ last' = [last EXCEPT ![c] = txn[p].number]
  /\ Advance(p)
  /\ UNCHANGED <<live, notices, handed, history, objects, mails>>

Write(p) ==
  LET c == txn[p].next IN
  /\ txn[p].pc = "write"
  /\ c \in live /\ lock[c] = NoProc
  /\ lock' = [lock EXCEPT ![c] = p]
  /\ Advance(p)
  /\ UNCHANGED <<rows, handed, history, objects, mails>>

\* The foreign key of the message has no row to point to.
WriteNowhere(p) ==
  /\ txn[p].pc = "write" /\ txn[p].next \notin live
  /\ End(p)
  /\ UNCHANGED <<rows, handed, history, objects, mails>>

\* The update copies created_at, which is when the transaction started.
StampedNow(b) == requests
Stamp(b) == b

Commit(p) ==
  LET b == txn[p].number IN
  /\ txn[p].pc = "commit"
  /\ sent' = sent \cup MessagesOf(b)
  /\ last' = [c \in Convos |-> IF c \in targets[b] THEN Stamp(b) ELSE last[c]]
  /\ lock' = Unlocked(p)
  /\ txn' = [txn EXCEPT ![p].pc = IF txn[p].kind = "send" THEN "notice" ELSE "notices",
                        ![p].left = targets[b]]
  /\ UNCHANGED <<live, notices, handed, history, objects, mails>>

----------------------------------------------------------------------------
(* Telling the recipients.                                                 *)

\* _notify_message: the notice is committed, then the mail queued.  A
\* conversation that is gone raises, and the exception is swallowed.
Notice(p) ==
  /\ txn[p].pc = "notice"
  /\ \A c \in txn[p].left : c \in live
  /\ notices' = notices \cup ({txn[p].number} \X txn[p].left)
  /\ txn' = [txn EXCEPT ![p].pc = "mail"]
  /\ UNCHANGED <<live, sent, last, handed, history, objects, mails, lock>>

Mail(p) ==
  /\ txn[p].pc = "mail"
  /\ mails' = mails \cup ({txn[p].number} \X txn[p].left)
  /\ End(p)
  /\ UNCHANGED <<rows, handed, history, objects>>

\* broadcast: for each conversation that is still there the notice is flushed
\* and the mail queued; one commit at the end.
\* (ToldAll would go through every conversation instead.)
ToldAll(p) == live \ txn[p].pending
Told(p) == txn[p].left

NoticeOne(p, c) ==
  /\ txn[p].pc = "notices" /\ c \in Told(p)
  /\ IF c \in live
       THEN /\ mails' = mails \cup {<<txn[p].number, c>>}
            /\ txn' = [txn EXCEPT ![p].left = @ \ {c}, ![p].pending = @ \cup {c}]
       ELSE /\ txn' = [txn EXCEPT ![p].left = @ \ {c}]
            /\ UNCHANGED mails
  /\ UNCHANGED <<rows, handed, history, objects, lock>>

NoticesCommit(p) ==
  /\ txn[p].pc = "notices" /\ Told(p) = {}
  /\ notices' = notices \cup ({txn[p].number} \X txn[p].pending)
  /\ End(p)
  /\ UNCHANGED <<live, sent, last, handed, history, objects, mails>>

\* The conversation of a single message is gone: the request ends.
NoticeNowhere(p) ==
  /\ txn[p].pc = "notice"
  /\ \E c \in txn[p].left : c \notin live
  /\ End(p)
  /\ UNCHANGED <<rows, handed, history, objects, mails>>

----------------------------------------------------------------------------
WaitsFor(p, q) == txn[p].pc = "write" /\ lock[txn[p].next] = q

\* PostgreSQL rolls back a transaction that waits in a circle.
NoDetector(p) == FALSE
DeadlockVictim(p) ==
  /\ \E S \in SUBSET Procs : p \in S /\ \A q \in S : \E r \in S : WaitsFor(q, r)
  /\ Abort(p)

Proceed(p) ==
  \/ Upload(p) \/ Write(p) \/ WriteNowhere(p) \/ Commit(p)
  \/ Notice(p) \/ NoticeNowhere(p) \/ Mail(p)
  \/ (\E c \in Convos : NoticeOne(p, c)) \/ NoticesCommit(p)
  \/ DeadlockVictim(p)

Request(p) ==
  \/ \E c \in Convos : Send(p, c)
  \/ \E S \in SUBSET Convos : Broadcast(p, S)

Next ==
  \/ \E c \in Convos : GetMyConversation(c) \/ DeleteStudent(c)
  \/ \E p \in Procs : Request(p) \/ Proceed(p) \/ Abort(p)

Spec == Init /\ [][Next]_vars

\* As in Appointments: requests that can run do, and a row lock that is free
\* again and again is granted.
Fairness == \A p \in Procs : SF_vars(Proceed(p))
FairSpec == Spec /\ Fairness
----------------------------------------------------------------------------
\* Nobody is told, by a notice or by mail, of a message that was not
\* committed, wherever the request stopped (service.py 175-218, 80-82).
ToldOfSentOnly == notices \cup mails \subseteq sent

\* A broadcast reaches all its conversations or none, although it writes them
\* one by one, may fail at each and may be rolled back while it waits
\* (service.py 165-175).
AllOrNone ==
  \A b \in Numbers : sent \cap MessagesOf(b) \in {{}, MessagesOf(b)}

\* last_message_at is null while a conversation is empty and is the created_at
\* of one of its own messages afterwards, whichever of the requests that meet
\* there commits last (repository.py 116-124).
LastIsAMessage ==
  \A c \in live :
    IF \E b \in Numbers : <<b, c>> \in sent THEN <<last[c], c>> \in sent
                                            ELSE last[c] = 0

\* A message with an image is shown only with its object in the store: a
\* failure between the two leaves an object without a message, never a
\* message without its object (service.py 94-106, 232-243).
SentImageIsStored == \A m \in sent : m[1] \in WithImage => m[1] \in objects

\* Every request ends, although two broadcasts may lock the conversations in
\* opposite orders (service.py 165-175, repository.py 119-123).
RequestsFinish == \A p \in Procs : txn[p].pc # "idle" ~> txn[p].pc = "idle"

\* A conversation given to a student takes messages: the test of the flow gets
\* one and sends to it (router.py 37-44, tests/test_messages.py 35-48).
HandedOutIsThere == handed \subseteq live
=============================================================================
