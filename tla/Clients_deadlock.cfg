SPECIFICATION Spec
CONSTANTS
  c1 = c1
  c2 = c2
  Listeners <- MCListeners
  Requests <- MCEditAndWatch
  MaxRequests <- MCOneEach
  MaxEvents = 1
INVARIANT NoCyclicWait
