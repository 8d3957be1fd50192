SPECIFICATION Spec
CONSTANTS
  Job <- OneJob
  Workers = {w1}
  Nobody = Nobody
  MaxAttempts = 2
  ProcessingTimeout = 1
  RetryBase = 1
  RetryMax = 2
  MaxClock = 3
  MaxCrashes = 1
  MaxFaults = 0
PROPERTY
  SourceWrittenIsNotRewritten
