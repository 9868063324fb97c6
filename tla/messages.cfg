\* Two requests, the second with an image, over two conversations whose rows
\* exist and one that a student was only told of.
SPECIFICATION FairSpec
CONSTANTS
  Procs = {p1, p2}
  Convos = {c1, c2, c3}
  Seeded = {c1, c2}
  MaxRequests = 2
  WithImage = {2}
  NoConvo = NoConvo
  NoProc = NoProc
INVARIANTS TypeOK ToldOfSentOnly AllOrNone LastIsAMessage SentImageIsStored
PROPERTY RequestsFinish
CHECK_DEADLOCK FALSE
