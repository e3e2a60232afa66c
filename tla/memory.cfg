SPECIFICATION Spec
CONSTANTS
  record = record
  k1 = k1
  k2 = k2
  a = a
  b = b
  yes = yes
  no = no
  NoAnswer = NoAnswer
  Calls = {c1, c2, c3, c4, c5}
  Sources = {record}
  Questions = {k1, k2}
  Texts = {a, b, yes, no}
  Answers = {yes, no}
  Requests <- OdooRequests
  MaxSources = 1
CHECK_DEADLOCK FALSE
SYMMETRY Alike
CONSTRAINT ThreePrepare
INVARIANTS TypeOK PausedForAQuestion AnswersAreKept GivenWhatWasSent
PROPERTIES MemoryIsKept
