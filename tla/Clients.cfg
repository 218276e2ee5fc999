\* Two clients that edit timers can stop each other for ever.
CHECK_DEADLOCK FALSE
SPECIFICATION LiveSpec
CONSTANTS
  c1 = c1
  c2 = c2
  Listeners <- MCListeners
  Requests <- MCTwoEditors
  MaxRequests <- MCOneAndTwo
  MaxEvents = 1
INVARIANTS TypeOK OnlyEditsEntangle StatusOnlyWhileEnabled AnsweredInOrder
PROPERTY Served
