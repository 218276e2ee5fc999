SPECIFICATION Spec
CONSTANTS
  Lineups <- MCLineups
  PmtPids <- MCPmtPids
  FirstKnown <- MCFirstKnown
  Builds = {TRUE, FALSE}
  LanguageIndex = "ger"
  LangStreamType = "AC3"
  MaxPid = 5
  MAXRECEIVEPIDS = 64
  MaxChanges = 1
  MaxLosses = 1
  MaxSaves = 1
INVARIANTS TypeOK EachPidHasDemuxer FileIsWhole
PROPERTY ClientLearnsStreams
