SPECIFICATION Spec
CONSTANTS
  QueueSize = 2
  WaitForIFrame <- MCNoWait
  LateOptions = FALSE
  Pictures <- MCWith
  OldVDR = FALSE
INVARIANT FailureReported
