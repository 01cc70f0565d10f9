SPECIFICATION FairSpec
CONSTANTS
  t1 = t1
  t2 = t2
  Threads <- MCThreads
  Stream = Stream
  Slots = 2
  MaxEvents = 4
INVARIANTS
  TypeOK
  SenderAlive
  NothingUndefined
  NoneLost
  MainOutlivesStream
PROPERTIES
  EventsDealtWith
  ShutdownEnds
CHECK_DEADLOCK FALSE
