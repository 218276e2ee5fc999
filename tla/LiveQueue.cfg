SPECIFICATION LiveSpec
CONSTANTS
  QueueSize = 2
  BufferSize = 2
  OpenOutcomes <- MCOpenOutcomes
  DiskMayFail = TRUE
  MaxPackets = 3
  MaxPauses = 2
  MaxBacklog = 2
INVARIANTS TypeOK QueueBound ReaderNotStranded InOrder NothingVanishes
PROPERTIES ImplementsOrderedStream NoLostWakeup
