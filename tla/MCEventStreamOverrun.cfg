SPECIFICATION Spec
CONSTANTS
  t1 = t1
  t2 = t2
  Threads <- MCThreads
  Stream = Stream
  Slots = 2
  MaxEvents = 4
INVARIANT
  WaitLosesNothing
CHECK_DEADLOCK FALSE
