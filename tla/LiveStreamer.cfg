SPECIFICATION LiveSpec
CONSTANTS
  QueueSize = 2
  WaitForIFrame <- MCWaitOrNot
  LateOptions = TRUE
  Pictures <- MCWithOrWithout
  OldVDR = TRUE
INVARIANTS TypeOK DescribedFirst DescribedOnWire StartsWithAV
PROPERTY SignalComesBack
