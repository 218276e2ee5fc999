SPECIFICATION LiveSpec
CONSTANTS
  client = client
  live = live
  Writers <- MCWriters
  Retries <- MCRetries
  Unchecked <- MCUnchecked
  Payload <- MCPayload
  SyncLength = 2
  HeaderLength = 3
  Capacity = 3
  MaxPackets <- MCPackets
  MaxFailures = 2
INVARIANTS TypeOK TakenOnce NothingLost
PROPERTY EndIsNoticed
