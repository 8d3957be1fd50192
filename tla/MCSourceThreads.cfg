SPECIFICATION Spec
CONSTANTS
  Sender = {s1, s2}
  Window = 1
  RetryDelay = 1
  Commands = TRUE
  MsgIds = {TRUE, FALSE}
  MaxMessages = 3
  MaxClock = 2
  MaxSkew = 1
  MaxFailures = 1
  MaxLost = 1
SYMMETRY Interchangeable
INVARIANTS
  TypeOK
  ThreadsKeepApart
  NamerIsNear
  OneThreadPerItem
  WrittenMeansInSource
CHECK_DEADLOCK FALSE
