SPECIFICATION Spec
CONSTANTS
  Sender = {s1}
  Window = 1
  RetryDelay = 1
  Commands = FALSE
  MsgIds = {TRUE}
  MaxMessages = 3
  MaxClock = 2
  MaxSkew = 0
  MaxFailures = 0
  MaxLost = 0
INVARIANT
  AdjacentShareThread
CHECK_DEADLOCK FALSE
