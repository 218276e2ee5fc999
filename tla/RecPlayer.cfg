SPECIFICATION LiveSpec
CONSTANTS
  MaxBlock = 3
  IntLimit = 4
  MaxFiles = 3
  MaxLength = 5
  MaxAmount = 7
INVARIANTS TypeOK RightBytes FullBlock
PROPERTIES BlockAnswered
