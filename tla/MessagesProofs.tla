--------------------------- MODULE MessagesProofs ---------------------------
(* Theorems about Messages, for any number of requests, conversations and   *)
(* images.                                                                  *)
EXTENDS Messages, TLAPS

----------------------------------------------------------------------------
(* The inductive invariant: what a request has committed by where it is.    *)

Serving(p) == txn[p].pc # "idle"
Writing(p) == txn[p].pc \in {"upload", "write", "commit"}
Telling(p) == txn[p].pc \in {"notice", "mail", "notices"}

\* Nothing of the request is committed while it writes, all of it afterwards;
\* its image is stored before it writes.
Coherent(p) ==
  LET b == txn[p].number IN
  /\ Serving(p) => b \in Numbers /\ b <= requests
  /\ Writing(p) => txn[p].pending = {} /\ \A c \in Convos : <<b, c>> \notin sent
  /\ txn[p].pc \in {"write", "commit"} => (b \in WithImage => b \in objects)
  /\ Telling(p) => /\ \A c \in targets[b] : <<b, c>> \in sent
                   /\ txn[p].left \subseteq targets[b]
                   /\ txn[p].pending \subseteq targets[b]

DistinctNumbers ==
  \A p, q \in Procs : Serving(p) /\ Serving(q) /\ p # q => txn[p].number # txn[q].number

\* What holds of the messages of one request.
Unstarted(b) == b > requests => \A c \in Convos : <<b, c>> \notin sent
Whole(b) ==
  \/ \A c \in Convos : <<b, c>> \notin sent
  \/ \A c \in Convos : <<b, c>> \in sent <=> c \in targets[b]
Sound(b) == Unstarted(b) /\ Whole(b)

IInv ==
  /\ TypeOK
  /\ \A p \in Procs : Coherent(p)
  /\ DistinctNumbers
  /\ \A b \in Numbers : Sound(b)
  /\ ToldOfSentOnly
  /\ LastIsAMessage
  /\ SentImageIsStored

----------------------------------------------------------------------------
\* A request that is not there is well typed.
LEMMA IdleType == Idle \in Frame
  BY RequestsAssumption DEF Idle, Frame

\* The invariant holds at the start.
LEMMA InitIInv == Init => IInv
<1> SUFFICES ASSUME Init PROVE IInv
  OBVIOUS
<1>1. TypeOK
  BY IdleType, SeededAssumption, RequestsAssumption DEF Init, TypeOK
<1>2. \A p \in Procs : txn[p].pc = "idle"
  BY DEF Init, Idle
<1>3. (\A p \in Procs : Coherent(p)) /\ DistinctNumbers
  BY <1>2 DEF Coherent, DistinctNumbers, Serving, Writing, Telling
<1>4. (\A b \in Numbers : Sound(b)) /\ ToldOfSentOnly /\ LastIsAMessage /\ SentImageIsStored
  BY <1>1 DEF Init, TypeOK, Sound, Unstarted, Whole, ToldOfSentOnly, LastIsAMessage,
     SentImageIsStored
<1> QED
  BY <1>1, <1>3, <1>4 DEF IInv

\* The locks of a request can be dropped.
LEMMA UnlockedType ==
  ASSUME TypeOK, NEW p \in Procs
  PROVE  Unlocked(p) \in [Convos -> Procs \cup {NoProc}]
  BY DEF TypeOK, Unlocked

\* A step of one request that commits no message disturbs neither the other
\* requests nor what is committed.
LEMMA QuietStep ==
  ASSUME IInv, NEW p \in Procs, NEW frame \in Frame,
         txn' = [txn EXCEPT ![p] = frame],
         frame.pc # "idle" => Serving(p) /\ frame.number = txn[p].number,
         lock' \in [Convos -> Procs \cup {NoProc}],
         objects \subseteq objects', objects' \subseteq Numbers,
         notices' \cup mails' \subseteq sent,
         UNCHANGED <<live, handed, targets, sent, last, requests>>,
         Coherent(p)'
  PROVE  IInv'
<1>1. TypeOK'
  BY DEF IInv, TypeOK
<1>2. ASSUME NEW q \in Procs, q # p PROVE txn'[q] = txn[q]
  BY <1>2 DEF IInv, TypeOK
<1>3. txn'[p] = frame
  BY DEF IInv, TypeOK
<1>4. ASSUME NEW q \in Procs PROVE Coherent(q)'
  <2>1. CASE q # p
    BY <1>2, <2>1 DEF IInv, Coherent, Serving, Writing, Telling
  <2> QED
    BY <2>1
<1>5. DistinctNumbers'
  BY <1>2, <1>3 DEF IInv, DistinctNumbers, Serving
<1>6. (\A b \in Numbers : Sound(b))' /\ LastIsAMessage'
  BY DEF IInv, Sound, Unstarted, Whole, LastIsAMessage
<1>7. ToldOfSentOnly' /\ SentImageIsStored'
  BY DEF IInv, ToldOfSentOnly, SentImageIsStored
<1> QED
  BY <1>1, <1>4, <1>5, <1>6, <1>7 DEF IInv

\* A request that ends without a commit.
LEMMA EndStep ==
  ASSUME IInv, NEW p \in Procs, End(p),
         UNCHANGED <<rows, handed, history, objects, mails>>
  PROVE  IInv'
<1>1. Coherent(p)'
  BY DEF End, IInv, TypeOK, Coherent, Serving, Writing, Telling, Idle
<1> QED
  BY <1>1, QuietStep, IdleType, UnlockedType
     DEF End, IInv, TypeOK, rows, history, ToldOfSentOnly, Idle

----------------------------------------------------------------------------
(* The steps of a request.                                                  *)

\* A request that begins takes the next number and has written nothing.
LEMMA StartStep ==
  ASSUME IInv, NEW p \in Procs, NEW kind \in {"send", "broadcast"},
         NEW S \in SUBSET Convos, Start(p, kind, S)
  PROVE  IInv'
<1> DEFINE b == requests + 1
<1>1. b \in Numbers /\ requests \in Nat /\ requests < b
  BY RequestsAssumption DEF Start, IInv, TypeOK, Numbers
<1>2. PICK c \in S :
        txn' = [txn EXCEPT ![p] =
          [Idle EXCEPT !.pc = IF b \in WithImage THEN "upload" ELSE "write", !.number = b,
                       !.kind = kind, !.next = c, !.left = S \ {c}]]
  BY DEF Start
<1> DEFINE frame == [Idle EXCEPT !.pc = IF b \in WithImage THEN "upload" ELSE "write",
                                 !.number = b, !.kind = kind, !.next = c, !.left = S \ {c}]
<1>3. /\ frame \in Frame /\ frame.number = b /\ frame.pending = {}
      /\ frame.pc \in {"upload", "write"}
      /\ frame.pc = "write" => b \notin WithImage
  <2>1. Idle \in Frame /\ Idle.pending = {}
    BY IdleType DEF Idle
  <2>2. c \in Convos /\ S \ {c} \subseteq Convos /\ b \in 0 .. MaxRequests
    BY <1>1, RequestsAssumption DEF Numbers
  <2> QED
    BY <2>1, <2>2 DEF Frame
<1>4. txn'[p] = frame /\ \A q \in Procs \ {p} : txn'[q] = txn[q]
  BY <1>2 DEF IInv, TypeOK
<1>5. /\ requests' = b /\ targets' = [targets EXCEPT ![b] = S]
      /\ UNCHANGED <<live, sent, last, notices, handed, objects, mails, lock>>
  BY DEF Start, rows
<1>6. TypeOK'
  BY <1>1, <1>2, <1>3, <1>5 DEF IInv, TypeOK, Numbers
<1>7. \A c1 \in Convos : <<b, c1>> \notin sent
  BY <1>1 DEF IInv, Sound, Unstarted
<1>8. ASSUME NEW q \in Procs PROVE Coherent(q)'
  <2>1. CASE q = p
    <3> HIDE DEF frame
    <3>1. txn'[p].number = b /\ txn'[p].pending = {} /\ txn'[p].pc \in {"upload", "write"}
          /\ (txn'[p].pc = "write" => b \notin WithImage)
      BY <1>3, <1>4
    <3>2. b \in Numbers /\ b <= requests'
      BY <1>1, <1>5
    <3> QED
      BY <1>5, <1>7, <2>1, <3>1, <3>2 DEF Coherent, Serving, Writing, Telling
  <2>2. CASE q # p
    <3>1. Serving(q) => txn[q].number \in Numbers /\ txn[q].number # b
                        /\ txn[q].number <= requests
      BY <1>1, <2>2 DEF IInv, Coherent, Numbers
    <3>2. Serving(q) => targets'[txn[q].number] = targets[txn[q].number]
                        /\ txn[q].number <= b
      BY <1>1, <1>5, <3>1 DEF IInv, TypeOK, Numbers
    <3> QED
      BY <1>4, <1>5, <2>2, <3>1, <3>2 DEF IInv, Coherent, Serving, Writing, Telling
  <2> QED
    BY <2>1, <2>2
<1>9. DistinctNumbers'
  <2>1. \A q \in Procs \ {p} : Serving(q) => txn[q].number # b
    BY <1>1 DEF IInv, Coherent, Numbers
  <2>2. txn'[p].number = b /\ \A q \in Procs \ {p} : txn'[q] = txn[q]
    BY <1>3, <1>4
  <2> HIDE DEF frame, b
  <2> QED
    BY <2>1, <2>2 DEF IInv, DistinctNumbers, Serving
<1>10. ASSUME NEW d \in Numbers PROVE Sound(d)'
  <2>1. Unstarted(d)'
    BY <1>1, <1>5 DEF IInv, Sound, Unstarted, Numbers
  <2>2. Whole(d)'
    BY <1>1, <1>5, <1>7 DEF IInv, TypeOK, Sound, Whole
  <2> QED
    BY <2>1, <2>2 DEF Sound
<1>11. ToldOfSentOnly' /\ LastIsAMessage' /\ SentImageIsStored'
  BY <1>5 DEF IInv, ToldOfSentOnly, LastIsAMessage, SentImageIsStored
<1> QED
  BY <1>6, <1>8, <1>9, <1>10, <1>11 DEF IInv

\* Storing the image adds an object for the request's own number.
LEMMA UploadStep == ASSUME IInv, NEW p \in Procs, Upload(p) PROVE IInv'
<1> DEFINE frame == [txn[p] EXCEPT !.pc = "write"]
<1>1. txn[p] \in Frame /\ txn[p].number \in Numbers /\ Serving(p)
  BY DEF Upload, IInv, TypeOK, Coherent, Serving
<1>2. frame \in Frame /\ frame.number = txn[p].number /\ txn' = [txn EXCEPT ![p] = frame]
  BY <1>1 DEF Upload, Frame
<1>3. txn'[p] = frame
  BY <1>2 DEF IInv, TypeOK
<1>4. Coherent(p)'
  BY <1>1, <1>2, <1>3 DEF Upload, IInv, Coherent, Serving, Writing, Telling, rows, history
<1> QED
  BY <1>1, <1>2, <1>4, QuietStep
     DEF Upload, IInv, TypeOK, rows, history, ToldOfSentOnly

\* Writing one message of a request locks its conversation.
LEMMA WriteStep == ASSUME IInv, NEW p \in Procs, Write(p) PROVE IInv'
<1>1. txn[p] \in Frame /\ Serving(p)
  BY DEF Write, IInv, TypeOK, Serving
<1>2. PICK frame \in Frame :
        /\ txn' = [txn EXCEPT ![p] = frame]
        /\ frame.number = txn[p].number /\ frame.pc \in {"write", "commit"}
        /\ frame.pending = txn[p].pending
  <2>1. CASE txn[p].left = {}
    <3> DEFINE f == [txn[p] EXCEPT !.pc = "commit", !.next = NoConvo]
    <3>1. f \in Frame /\ txn' = [txn EXCEPT ![p] = f] /\ f.number = txn[p].number
          /\ f.pending = txn[p].pending /\ f.pc = "commit"
      BY <1>1, <2>1 DEF Write, Advance, Frame
    <3> QED
      BY <3>1
  <2>2. CASE txn[p].left # {}
    <3>1. PICK c \in txn[p].left :
            txn' = [txn EXCEPT ![p].next = c, ![p].left = @ \ {c}]
      BY <2>2 DEF Write, Advance
    <3> DEFINE f == [txn[p] EXCEPT !.next = c, !.left = @ \ {c}]
    <3>2. c \in Convos
      BY <1>1 DEF Frame
    <3>3. f \in Frame /\ f.number = txn[p].number /\ f.pc = "write"
          /\ f.pending = txn[p].pending
      BY <1>1, <3>2 DEF Write, Frame
    <3>4. txn' = [txn EXCEPT ![p] = f]
      BY <3>1, <1>1 DEF IInv, TypeOK, Frame
    <3> QED
      BY <3>3, <3>4
  <2> QED
    BY <2>1, <2>2
<1>3. txn'[p] = frame
  BY <1>2 DEF IInv, TypeOK
<1>4. lock' \in [Convos -> Procs \cup {NoProc}]
  BY DEF Write, IInv, TypeOK
<1>5. UNCHANGED <<live, handed, targets, sent, last, notices, requests, objects, mails>>
  BY DEF Write, rows, history
<1>6. Coherent(p)'
  BY <1>2, <1>3, <1>5 DEF Write, IInv, Coherent, Serving, Writing, Telling
<1>7. notices' \cup mails' \subseteq sent /\ objects' \subseteq Numbers
  BY <1>5 DEF IInv, TypeOK, ToldOfSentOnly
<1> QED
  BY <1>1, <1>2, <1>4, <1>5, <1>6, <1>7, QuietStep

\* The commit: all messages of the request, and the times they leave in their
\* conversations.
LEMMA CommitStep == ASSUME IInv, NEW p \in Procs, Commit(p) PROVE IInv'
<1> DEFINE b == txn[p].number
<1> DEFINE frame == [txn[p] EXCEPT !.pc = IF txn[p].kind = "send" THEN "notice" ELSE "notices",
                                   !.left = targets[b]]
<1>1. /\ txn[p] \in Frame /\ b \in Numbers /\ b <= requests /\ Serving(p)
      /\ targets[b] \subseteq Convos
      /\ \A c \in Convos : <<b, c>> \notin sent
      /\ b \in WithImage => b \in objects
  BY DEF Commit, IInv, TypeOK, Coherent, Serving, Writing
<1>2. frame \in Frame /\ frame.number = b /\ frame.left = targets[b]
      /\ frame.pc \in {"notice", "notices"} /\ frame.pending = txn[p].pending
  BY <1>1 DEF Frame
<1>3. txn' = [txn EXCEPT ![p] = frame]
  BY <1>1 DEF Commit, IInv, TypeOK, Frame
<1>4. txn'[p] = frame /\ \A q \in Procs \ {p} : txn'[q] = txn[q]
  BY <1>3 DEF IInv, TypeOK
<1>5. /\ UNCHANGED <<live, handed, targets, notices, requests, objects, mails>>
      /\ sent' = sent \cup ({b} \X targets[b])
      /\ last' = [c \in Convos |-> IF c \in targets[b] THEN b ELSE last[c]]
  BY DEF Commit, history, MessagesOf, Stamp
<1>6. TypeOK'
  BY <1>1, <1>2, <1>3, <1>5, UnlockedType, RequestsAssumption
     DEF Commit, IInv, TypeOK, Numbers
<1>7. \A d \in Numbers, c \in Convos :
        <<d, c>> \in sent' <=> <<d, c>> \in sent \/ (d = b /\ c \in targets[b])
  BY <1>5
<1>8. txn[p].pending = {}
  BY DEF Commit, IInv, Coherent, Writing
<1>9. ASSUME NEW q \in Procs PROVE Coherent(q)'
  <2>1. CASE q = p
    BY <1>1, <1>2, <1>4, <1>5, <1>7, <1>8, <2>1 DEF Coherent, Serving, Writing, Telling
  <2>2. CASE q # p
    <3>1. Serving(q) => txn[q].number \in Numbers /\ txn[q].number # b
                        /\ targets[txn[q].number] \subseteq Convos
      BY <1>1, <2>2 DEF IInv, TypeOK, Coherent, DistinctNumbers
    <3> QED
      BY <1>4, <1>5, <1>7, <2>2, <3>1 DEF IInv, Coherent, Serving, Writing, Telling
  <2> QED
    BY <2>1, <2>2
<1>10. DistinctNumbers'
  <2>1. txn'[p].number = b /\ \A q \in Procs \ {p} : txn'[q] = txn[q]
    BY <1>2, <1>4
  <2> QED
    BY <1>1, <2>1 DEF IInv, DistinctNumbers, Serving
<1>11. ASSUME NEW d \in Numbers PROVE Sound(d)'
  <2>1. Unstarted(d)'
    BY <1>1, <1>5, <1>7, RequestsAssumption DEF IInv, TypeOK, Sound, Unstarted, Numbers
  <2>2. Whole(d)'
    BY <1>1, <1>5, <1>7 DEF IInv, Sound, Whole
  <2> QED
    BY <2>1, <2>2 DEF Sound
<1>12. ToldOfSentOnly'
  BY <1>5 DEF IInv, ToldOfSentOnly
<1>13. LastIsAMessage'
  <2> SUFFICES ASSUME NEW c \in live
               PROVE  IF \E d \in Numbers : <<d, c>> \in sent' THEN <<last'[c], c>> \in sent'
                                                              ELSE last'[c] = 0
    BY <1>5 DEF LastIsAMessage
  <2>1. c \in Convos
    BY DEF IInv, TypeOK
  <2>2. CASE c \in targets[b]
    BY <1>1, <1>5, <1>7, <2>1, <2>2
  <2>3. CASE c \notin targets[b]
    BY <1>5, <1>7, <2>1, <2>3 DEF IInv, LastIsAMessage
  <2> QED
    BY <2>2, <2>3
<1>14. SentImageIsStored'
  BY <1>1, <1>5 DEF IInv, SentImageIsStored
<1> QED
  BY <1>6, <1>9, <1>10, <1>11, <1>12, <1>13, <1>14 DEF IInv

----------------------------------------------------------------------------
(* The steps after the commit.                                              *)

\* What a request that has committed its messages may tell of.
LEMMA ToldAreSent ==
  ASSUME IInv, NEW p \in Procs, Telling(p), NEW S \in SUBSET Convos,
         S \subseteq txn[p].left \cup txn[p].pending
  PROVE  {txn[p].number} \X S \subseteq sent
BY DEF IInv, Coherent

\* The notice of a single message commits after the message.
LEMMA NoticeStep == ASSUME IInv, NEW p \in Procs, Notice(p) PROVE IInv'
<1> DEFINE frame == [txn[p] EXCEPT !.pc = "mail"]
<1>1. txn[p] \in Frame /\ Serving(p) /\ Telling(p)
  BY DEF Notice, IInv, TypeOK, Serving, Telling
<1>2. frame \in Frame /\ frame.number = txn[p].number /\ txn' = [txn EXCEPT ![p] = frame]
  BY <1>1 DEF Notice, Frame
<1>3. txn'[p] = frame
  BY <1>2 DEF IInv, TypeOK
<1>4. UNCHANGED <<live, handed, targets, sent, last, requests, objects, mails, lock>>
  BY DEF Notice, history
<1>5. Coherent(p)'
  BY <1>1, <1>3, <1>4 DEF IInv, Coherent, Serving, Writing, Telling
<1>6. txn[p].left \in SUBSET Convos
  BY <1>1 DEF Frame
<1>7. notices' \cup mails' \subseteq sent
  BY <1>1, <1>4, <1>6, ToldAreSent DEF Notice, IInv, ToldOfSentOnly
<1> QED
  BY <1>1, <1>2, <1>4, <1>5, <1>7, QuietStep DEF IInv, TypeOK

\* The mail of a single message is queued after its notice.
LEMMA MailStep == ASSUME IInv, NEW p \in Procs, Mail(p) PROVE IInv'
<1>1. txn[p] \in Frame /\ Serving(p) /\ Telling(p)
  BY DEF Mail, IInv, TypeOK, Serving, Telling
<1>2. /\ txn' = [txn EXCEPT ![p] = Idle] /\ lock' = Unlocked(p)
      /\ UNCHANGED <<live, handed, targets, sent, last, requests, objects, notices>>
  BY DEF Mail, End, rows, history
<1>3. txn[p].left \in SUBSET Convos
  BY <1>1 DEF Frame
<1>4. notices' \cup mails' \subseteq sent
  BY <1>1, <1>2, <1>3, ToldAreSent DEF Mail, IInv, ToldOfSentOnly
<1>5. Coherent(p)'
  BY <1>2 DEF IInv, TypeOK, Coherent, Serving, Writing, Telling, Idle
<1>6. Idle.pc = "idle" /\ lock' \in [Convos -> Procs \cup {NoProc}] /\ objects' \subseteq Numbers
  BY <1>2, UnlockedType DEF Idle, IInv, TypeOK
<1> QED
  BY <1>1, <1>2, <1>4, <1>5, <1>6, IdleType, QuietStep

\* One notice of a broadcast, and its mail, after the broadcast has committed.
LEMMA NoticeOneStep ==
  ASSUME IInv, NEW p \in Procs, NEW c \in Convos, NoticeOne(p, c) PROVE IInv'
<1>1. txn[p] \in Frame /\ Serving(p) /\ Telling(p) /\ txn[p].pc = "notices"
      /\ c \in txn[p].left
  BY DEF NoticeOne, Told, IInv, TypeOK, Serving, Telling
<1>2. PICK told \in {{}, {c}} :
        /\ txn' = [txn EXCEPT ![p].left = @ \ {c}, ![p].pending = @ \cup told]
        /\ mails' = mails \cup ({txn[p].number} \X told)
  <2>1. CASE c \in live
    <3>1. /\ txn' = [txn EXCEPT ![p].left = @ \ {c}, ![p].pending = @ \cup {c}]
          /\ mails' = mails \cup {<<txn[p].number, c>>}
      BY <2>1 DEF NoticeOne
    <3>2. {<<txn[p].number, c>>} = {txn[p].number} \X {c}
      OBVIOUS
    <3> QED
      BY <3>1, <3>2
  <2>2. CASE c \notin live
    <3>1. txn' = [txn EXCEPT ![p].left = @ \ {c}] /\ UNCHANGED mails
      BY <2>2 DEF NoticeOne
    <3>2. txn' = [txn EXCEPT ![p].left = @ \ {c}, ![p].pending = @ \cup {}]
      BY <1>1, <3>1 DEF IInv, TypeOK, Frame
    <3> QED
      BY <3>1, <3>2
  <2> QED
    BY <2>1, <2>2
<1> DEFINE frame == [txn[p] EXCEPT !.left = @ \ {c}, !.pending = @ \cup told]
<1>3. frame \in Frame /\ frame.number = txn[p].number /\ frame.pc = "notices"
      /\ frame.left = txn[p].left \ {c} /\ frame.pending = txn[p].pending \cup told
  BY <1>1, <1>2 DEF Frame
<1>4. txn' = [txn EXCEPT ![p] = frame]
  BY <1>1, <1>2 DEF IInv, TypeOK, Frame
<1>5. txn'[p] = frame
  BY <1>4 DEF IInv, TypeOK
<1>6. UNCHANGED <<live, handed, targets, sent, last, notices, requests, objects, lock>>
  BY DEF NoticeOne, rows, history
<1>7. told \in SUBSET Convos /\ told \subseteq txn[p].left
  BY <1>1, <1>2
<1>8. Coherent(p)'
  <2>1. /\ txn'[p].number = txn[p].number /\ txn'[p].pc = "notices"
        /\ txn'[p].left \subseteq txn[p].left
        /\ txn'[p].pending \subseteq txn[p].left \cup txn[p].pending
    BY <1>3, <1>5, <1>7
  <2> HIDE DEF frame
  <2> QED
    BY <1>1, <1>6, <2>1 DEF IInv, Coherent, Serving, Writing, Telling
<1>9. notices' \cup mails' \subseteq sent
  BY <1>1, <1>2, <1>6, <1>7, ToldAreSent DEF IInv, ToldOfSentOnly
<1> QED
  BY <1>1, <1>3, <1>4, <1>6, <1>8, <1>9, QuietStep DEF IInv, TypeOK

\* The notices of a broadcast commit.
LEMMA NoticesCommitStep == ASSUME IInv, NEW p \in Procs, NoticesCommit(p) PROVE IInv'
<1>1. txn[p] \in Frame /\ Serving(p) /\ Telling(p)
  BY DEF NoticesCommit, IInv, TypeOK, Serving, Telling
<1>2. /\ txn' = [txn EXCEPT ![p] = Idle] /\ lock' = Unlocked(p)
      /\ UNCHANGED <<live, handed, targets, sent, last, requests, objects, mails>>
  BY DEF NoticesCommit, End, history
<1>3. txn[p].pending \in SUBSET Convos
  BY <1>1 DEF Frame
<1>4. notices' \cup mails' \subseteq sent
  BY <1>1, <1>2, <1>3, ToldAreSent DEF NoticesCommit, IInv, ToldOfSentOnly
<1>5. Coherent(p)'
  BY <1>2 DEF IInv, TypeOK, Coherent, Serving, Writing, Telling, Idle
<1>6. Idle.pc = "idle" /\ lock' \in [Convos -> Procs \cup {NoProc}] /\ objects' \subseteq Numbers
  BY <1>2, UnlockedType DEF Idle, IInv, TypeOK
<1> QED
  BY <1>1, <1>2, <1>4, <1>5, <1>6, IdleType, QuietStep

----------------------------------------------------------------------------
(* All steps.                                                               *)

\* A request is served, fails or is given up.
LEMMA ProceedStep ==
  ASSUME IInv, NEW p \in Procs, Proceed(p) \/ Abort(p) PROVE IInv'
<1>1. CASE WriteNowhere(p) \/ NoticeNowhere(p) \/ DeadlockVictim(p) \/ Abort(p)
  BY <1>1, EndStep DEF WriteNowhere, NoticeNowhere, DeadlockVictim, Abort
<1> QED
  BY <1>1, UploadStep, WriteStep, CommitStep, NoticeStep, MailStep, NoticeOneStep,
     NoticesCommitStep DEF Proceed

\* Conversations are handed out, and go with their student.
LEMMA ConvoStep ==
  ASSUME IInv, NEW c \in Convos, GetMyConversation(c) \/ DeleteStudent(c) PROVE IInv'
<1>1. /\ live' \subseteq live /\ handed' \subseteq Convos
      /\ UNCHANGED <<targets, sent, last, notices, requests, objects, mails, lock, txn>>
  BY DEF GetMyConversation, DeleteStudent, rows, history, IInv, TypeOK
<1>2. TypeOK'
  BY <1>1 DEF IInv, TypeOK
<1>3. \A p \in Procs : Coherent(p)'
  BY <1>1 DEF IInv, Coherent, Serving, Writing, Telling
<1>4. DistinctNumbers' /\ (\A b \in Numbers : Sound(b)')
  BY <1>1 DEF IInv, DistinctNumbers, Serving, Sound, Unstarted, Whole
<1>5. ToldOfSentOnly' /\ LastIsAMessage' /\ SentImageIsStored'
  BY <1>1 DEF IInv, ToldOfSentOnly, LastIsAMessage, SentImageIsStored
<1> QED
  BY <1>2, <1>3, <1>4, <1>5 DEF IInv

\* The invariant is inductive.
LEMMA NextStep == IInv /\ [Next]_vars => IInv'
<1> SUFFICES ASSUME IInv, [Next]_vars PROVE IInv'
  OBVIOUS
<1>1. ASSUME NEW p \in Procs, Request(p) PROVE IInv'
  <2>1. ASSUME NEW c \in Convos, Send(p, c) PROVE IInv'
    BY <2>1, StartStep DEF Send
  <2>2. ASSUME NEW S \in SUBSET Convos, Broadcast(p, S) PROVE IInv'
    BY <2>2, StartStep DEF Broadcast
  <2> QED
    BY <1>1, <2>1, <2>2 DEF Request
<1>2. CASE UNCHANGED vars
  <2>1. TypeOK' /\ DistinctNumbers' /\ ToldOfSentOnly' /\ LastIsAMessage' /\ SentImageIsStored'
    BY <1>2 DEF vars, IInv, TypeOK, DistinctNumbers, Serving, ToldOfSentOnly, LastIsAMessage,
       SentImageIsStored
  <2>2. (\A p \in Procs : Coherent(p)') /\ (\A b \in Numbers : Sound(b)')
    BY <1>2 DEF vars, IInv, Coherent, Serving, Writing, Telling, Sound, Unstarted, Whole
  <2> QED
    BY <2>1, <2>2 DEF IInv
<1> QED
  BY <1>1, <1>2, ProceedStep, ConvoStep DEF Next

----------------------------------------------------------------------------
\* The inductive invariant holds of every reachable state.
THEOREM Inductive == Spec => []IInv
<1> QED
  BY InitIInv, NextStep, PTL DEF Spec

\* Every row and every request's locals keep their types (messages/models.py).
THEOREM TypeCorrect == Spec => []TypeOK
<1>1. IInv => TypeOK
  BY DEF IInv
<1> QED
  BY <1>1, Inductive, PTL

\* Notices and mails speak only of messages that were committed (broadcast,
\* _notify_message).
THEOREM NothingFalseIsTold == Spec => []ToldOfSentOnly
<1>1. IInv => ToldOfSentOnly
  BY DEF IInv
<1> QED
  BY <1>1, Inductive, PTL

\* A broadcast to any number of conversations reaches all or none (broadcast).
THEOREM BroadcastIsAtomic == Spec => []AllOrNone
<1>1. ASSUME IInv PROVE AllOrNone
  <2> SUFFICES ASSUME NEW b \in Numbers
               PROVE  sent \cap MessagesOf(b) \in {{}, MessagesOf(b)}
    BY DEF AllOrNone
  <2>1. targets[b] \subseteq Convos /\ Whole(b)
    BY <1>1 DEF IInv, TypeOK, Sound
  <2> QED
    BY <2>1 DEF Whole, MessagesOf
<1> QED
  BY <1>1, Inductive, PTL

\* last_message_at is the time of a message of its conversation, or null
\* (create_message).
THEOREM LastIsReal == Spec => []LastIsAMessage
<1>1. IInv => LastIsAMessage
  BY DEF IInv
<1> QED
  BY <1>1, Inductive, PTL

\* No committed message lacks its image (send_message_with_image,
\* broadcast_with_image).
THEOREM ImagesAreStored == Spec => []SentImageIsStored
<1>1. IInv => SentImageIsStored
  BY DEF IInv
<1> QED
  BY <1>1, Inductive, PTL
=============================================================================
