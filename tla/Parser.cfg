CONSTANTS
  Broadcasts <- MCBroadcasts
  Payload = 3
  Margin = 6
  HeaderSize = 1
  BufferSize = 10
  Duration = 1
  Modulus = 64
  MaxLost = 3
SPECIFICATION ParserSpec
INVARIANTS ParserTypeOK WholeAndOnce RightTime TimesRise
CHECK_DEADLOCK FALSE
