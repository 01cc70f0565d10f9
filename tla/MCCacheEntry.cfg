SPECIFICATION FairSpec
CONSTANTS
  r1 = r1
  r2 = r2
  w1 = w1
  w2 = w2
  Readers <- MCReaders
  Writers <- TwoWriters
  NoWriter = NoWriter
  Torn = Torn
  MaxWrites = 3
INVARIANTS
  TypeOK
  PublishedNotWritten
  PinnedReadWhole
  ReadNotStale
PROPERTIES
  ImplementsAddressList
  WriterNotStarved
CHECK_DEADLOCK FALSE
