SPECIFICATION Spec
CONSTANTS
  r1 = r1
  r2 = r2
  w1 = w1
  w2 = w2
  Readers <- MCReaders
  Writers <- OneWriter
  NoWriter = NoWriter
  Torn = Torn
  MaxWrites = 3

INVARIANT
  ReadComplete
CHECK_DEADLOCK FALSE
