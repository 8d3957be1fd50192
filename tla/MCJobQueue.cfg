SPECIFICATION FairSpec
CONSTANTS
  Job <- TwoJobs
  Workers = {w1}
  Nobody = Nobody
  MaxAttempts = 2
  ProcessingTimeout = 1
  RetryBase = 1
  RetryMax = 2
  MaxClock = 3
  MaxCrashes = 2
  MaxFaults = 1
INVARIANTS
  TypeOK
  ClaimHeld
  LockMatchesStatus
  DoneIsPublished
  OutcomeReported
  AttemptsBounded
  WritesBounded
  QueueInv
PROPERTIES
  KeepsContract
  EveryJobEnds
